---------------------------- MODULE TokenSafety ----------------------------
(* What must hold of Token.tla. *)
EXTENDS Token

TypeOK ==
    /\ token \in [TokenId -> Row]
    /\ clearing \in [TokenId -> ClearingRow \cup {NoClearing}]
    /\ sent \subseteq Entry
    /\ seen \in [Customer -> [TokenId -> State]]
    /\ req \in [Request -> Request_]
    /\ now \in Nat
    /\ issued \in [TokenId -> Int]
    /\ orphaned \subseteq TokenId

-----------------------------------------------------------------------------
\* The database change is in, but not everybody has been told.
Reporting(r) == req[r].pc \in {"notify", "reread"}

(* What a request goes on to notify, journalize and answer is what the     *)
(* table holds, although it released the row long before: nobody has       *)
(* overtaken it (token.ts 110-116, 190-198, 309-321).                      *)
ReportsTheTruth ==
    \A r \in Request : Reporting(r) =>
        LET row == token[req[r].tid] IN
        CASE req[r].act = "delete" -> row.state = "DELETED"
          [] req[r].act = "reject" -> row.state = "REJECTED" /\ row.lock = req[r].dev
          [] req[r].act = "lock" -> /\ row.state \in {"LOCKED"} \cup ConfirmStates
                                    /\ row.lock = req[r].dev
          [] req[r].act = "confirm" -> /\ row.state = req[r].to
                                       /\ row.lock = req[r].dev
                                       /\ row.amount = req[r].amt
          [] OTHER -> Exists(req[r].tid)

(* A token is handed out once: of all the requests that claim or delete it *)
(* one is told that it succeeded, and of all confirmations one             *)
(* (token.ts 405, 410, 110).                                               *)
OneWinner ==
    \A r, q \in Request :
        /\ r # q
        /\ Reporting(r) /\ Reporting(q)
        /\ req[r].tid = req[q].tid
        => \A acts \in {{"lock", "reject", "delete"}, {"confirm"}} :
              ~({req[r].act, req[q].act} \subseteq acts)

\* The columns a remainder inherits; the owner may write clearstate and info.
SameRow(row, orig) == /\ row.state = orig.state
                      /\ row.type = orig.type
                      /\ row.device = orig.device
                      /\ row.lock = orig.lock
                      /\ row.plain = orig.plain
                      /\ row.secret = orig.secret
                      /\ row.amount = orig.amount
                      /\ row.expires = orig.expires
                      /\ row.created = orig.created
                      /\ row.from = orig.from

(* The row confirmByLockDeviceAndUUID reads before its transaction still   *)
(* describes the token once the transaction holds the row: device, codes,  *)
(* amount and expiry that go into the remainder are not stale.  Only       *)
(* clearstate and info may be, which the owner writes at any time (token.ts *)
(* 164, 186, 206).                                                         *)
ReadStillCurrent ==
    \A r \in Request : req[r].pc = "remainder" =>
        /\ token[req[r].tid].lock = req[r].dev
        /\ SameRow(req[r].row, token[req[r].tid])

Children(t) == {c \in TokenId : Exists(c) /\ token[c].from = t}

(* Partial cashouts neither create nor lose money, at whatever step a      *)
(* request dies: what is paid and what the remainder carries add up to the *)
(* amount the token was issued with; there is one remainder at most, with  *)
(* the type, the device and the expiry of its origin, and one at least if  *)
(* not all was paid; no CASHOUT token ends with more than it was issued    *)
(* for (token.ts 172-190, 205-223).                                        *)
RemainderAddsUp ==
    \A t \in TokenId :
        /\ \A c \in Children(t) :
              /\ Children(t) = {c}
              /\ token[t].state \in ConfirmStates
              /\ token[t].amount + issued[c] = issued[t]
              /\ token[t].amount < issued[t]
              /\ \A f \in {"type", "device", "expires"} : token[c][f] = token[t][f]
        /\ token[t].state \in ConfirmStates /\ token[t].amount < issued[t]
             => Children(t) # {}
        /\ token[t].amount > issued[t]
             => token[t].type # "CASHOUT" /\ token[t].state \in ConfirmStates

(* A code leads to one token that may still be claimed or confirmed, and   *)
(* to none that is done (token.ts 110, 237, 400-403, 410; 205-219).        *)
CodesOfLiveTokensOnly ==
    \A t \in TokenId :
        /\ token[t].secret <=> token[t].state \in {"OPEN", "LOCKED"}
        /\ token[t].plain # NoCode =>
             /\ token[t].state \in {"OPEN", "LOCKED"}
             /\ \A u \in TokenId \ {t} : token[u].plain # token[t].plain

(* The clearing row of a token names the payer and the payee that follow   *)
(* from its type, its owner and the device that holds it, and exists for   *)
(* COMPLETED tokens only (token.ts 225-234).                               *)
ClearingMatchesToken ==
    \A t \in TokenId : clearing[t] # NoClearing =>
        /\ token[t].state = "COMPLETED"
        /\ token[t].lock # NoDevice
        /\ LET owner == Owner(t)
               cash == DeviceCustomer[token[t].lock]
           IN  \/ /\ token[t].type = "CASHOUT"
                  /\ clearing[t] = [debitor |-> owner, creditor |-> cash]
               \/ /\ token[t].type = "CASHIN"
                  /\ clearing[t] = [debitor |-> cash, creditor |-> owner]

\* A token that must be settled and is not.
Unsettled(t) == /\ token[t].state = "COMPLETED"
                /\ token[t].type \in {"CASHOUT", "CASHIN"}
                /\ clearing[t] = NoClearing

(* Unless the process that confirmed it died, a COMPLETED token is settled *)
(* or about to be (token.ts 190-199).                                      *)
UnsettledOnlyInFlight ==
    \A t \in TokenId : Unsettled(t) =>
        \/ t \in orphaned
        \/ \E r \in Request : /\ req[r].pc \in {"notify", "reread", "clear"}
                              /\ req[r].act = "confirm"
                              /\ req[r].tid = t

(* An owner that re-reads a token whenever it is notified is up to date,   *)
(* except for the changes in flight, the requests that died, a remainder   *)
(* nobody has touched yet, and expiry (token.ts 112, 191, 311, 440).       *)
OwnerUpToDate ==
    \A t \in TokenId :
        /\ Exists(t)
        /\ Owner(t) \in Observed
        /\ seen[Owner(t)][t] # token[t].state
        => \/ t \in orphaned
           \/ token[t].state = "EXPIRED"
           \/ token[t].state = "OPEN" /\ token[t].from # NoToken
           \/ \E r \in Request : req[r].pc \in {"created", "notify"} /\ req[r].tid = t

-----------------------------------------------------------------------------
(* Only the device that holds the lock decides the outcome, although the   *)
(* check precedes the update by several awaits (token.ts 167, 178).        *)
HolderConfirms ==
    [][\A r \in Request :
         req[r].pc = "commit" /\ req'[r].pc = "notify" =>
           token[req[r].tid].lock = req[r].dev]_vars

(* No claim locks a token that had expired before the claim began: there   *)
(* is no check of expires in the update, cleanUpExpired precedes it by two *)
(* reads.  A token inserted after the cleanup is exempt (token.ts 236-261, *)
(* 405).                                                                   *)
NoExpiredClaim ==
    [][\A r \in Request : LET t == req[r].tid IN
         req[r].pc = "lock" /\ req'[r].pc = "notify" =>
           \/ token[t].expires >= req[r].asOf
           \/ token[t].created >= req[r].asOf]_vars

(* Without crashes every COMPLETED token gets its clearing row in the end. *)
EventuallySettled == \A t \in TokenId : Unsettled(t) ~> ~Unsettled(t)

(* Seen through its states, holders, amounts and settlements, the table    *)
(* behaves as TokenLifecycle promises.                                     *)
Lifecycle == INSTANCE TokenLifecycle WITH
    stage <- [t \in TokenId |-> token[t].state],
    holder <- [t \in TokenId |-> token[t].lock],
    worth <- [t \in TokenId |-> token[t].amount],
    settled <- [t \in TokenId |-> clearing[t] # NoClearing]
LifecycleSpec == Lifecycle!Spec

-----------------------------------------------------------------------------
(* What the documentation says and the code does not do.                   *)

\* No request is between two of its steps.
Quiet == \A r \in Request : req[r].pc = "idle"

(* token.ts 181-184: a remainder is created for a CASHOUT token.           *)
RemainderOfCashoutOnly ==
    \A t \in TokenId : token[t].from # NoToken => token[t].type = "CASHOUT"

(* HOWTO.md 121: "COMPLETED (completed normally, amount to be              *)
(* settled/marked for clearing)".                                          *)
CompletedIsSettled == \A t \in TokenId : Quiet => ~Unsettled(t)

(* tokenapi.v1.ts 84-136: the info of a token is the object that the owner *)
(* sent.                                                                   *)
InfoIntact == \A t \in TokenId : Exists(t) => token[t].intact
=============================================================================
