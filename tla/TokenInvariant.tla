-------------------------- MODULE TokenInvariant --------------------------
(***************************************************************************)
(* The inductive invariant behind the theorems of TokenProofs: what the    *)
(* requests in flight know about the rows they work on.                    *)
(***************************************************************************)
EXTENDS TokenSafety

\* The steps of confirmByLockDeviceAndUUID between its read and its commit.
Confirming(r) == req[r].pc \in {"update", "remainder", "commit"}

(* Every row has an owner, nobody holds a token before it is claimed, and  *)
(* a request knows its device and its token.                               *)
PlacedRow(t) == /\ Exists(t) => token[t].device \in Device
                /\ token[t].state \in {"NONE", "OPEN"} => token[t].lock = NoDevice

PlacedRequest(r) ==
    /\ req[r].pc # "idle" => req[r].dev \in Device
    /\ req[r].pc \notin {"idle", "find"} => /\ req[r].tid \in TokenId
                                            /\ req[r].act # "none"
    /\ req[r].pc \notin {"idle", "find", "insert"} => Exists(req[r].tid)
    /\ req[r].pc \in {"insert", "created"} => /\ req[r].row.state = "OPEN"
                                              /\ req[r].row.lock = NoDevice
                                              /\ req[r].row.device \in Device
    /\ req[r].pc = "lock" => req[r].to \in {"LOCKED", "REJECTED"}

Placed == /\ \A t \in TokenId : PlacedRow(t)
          /\ \A r \in Request : PlacedRequest(r)

\* An identifier that was drawn and is not inserted yet.
Drawn(r, t) == \/ req[r].pc = "insert" /\ req[r].tid = t
               \/ req[r].child = t

(* An identifier is drawn once, and for a token that does not exist.       *)
DrawnOnce ==
    \A t \in TokenId, r \in Request : Drawn(r, t) =>
        /\ ~Exists(t)
        /\ \A q \in Request \ {r} : ~Drawn(q, t)
        /\ req[r].child = t => Confirming(r)

(* A confirmation works on a token its device holds for good.  Once it has *)
(* the row lock it alone does, the token is LOCKED, and the row it read    *)
(* earlier is still the row of the token.                                  *)
Confirmation(r) ==
    Confirming(r) =>
        LET t == req[r].tid IN
        /\ req[r].to \in ConfirmStates
        /\ ~IsOpen(t)
        /\ token[t].lock = req[r].dev
        /\ req[r].pc # "commit" /\ IsLocked(t) => SameRow(req[r].row, token[t])
        /\ req[r].pc # "commit" /\ req[r].child # NoToken =>
             req[r].amt < req[r].row.amount
        /\ req[r].pc = "remainder" => req[r].child # NoToken
        /\ InTransaction(r) =>
             /\ IsLocked(t)
             /\ \A q \in Request \ {r} : InTransaction(q) => req[q].tid # t
        /\ req[r].pc = "commit" /\ req[r].child # NoToken =>
             /\ req[r].row.state = "OPEN"
             /\ req[r].row.lock = NoDevice
             /\ req[r].row.device \in Device
             /\ req[r].row.amount = token[t].amount - req[r].amt
             /\ req[r].amt < token[t].amount

Confirmations == \A r \in Request : Confirmation(r)

IInv == TypeOK /\ Placed /\ DrawnOnce /\ Confirmations

-----------------------------------------------------------------------------
(* What is reported and settled needs more: codes, deeds and reports.      *)

Live(t) == token[t].state \in {"OPEN", "LOCKED"}
Ended(t) == Exists(t) /\ ~Live(t)

(* A row has its codes while it is live, and the rows that requests insert *)
(* bring codes along; the plain code of a remainder is still its origin's. *)
CodeOfRow(t) ==
    /\ token[t].secret <=> Live(t)
    /\ token[t].plain # NoCode =>
         /\ Live(t)
         /\ \A u \in TokenId \ {t} : token[u].plain # token[t].plain

CodeOfRequest(r) ==
    /\ req[r].pc \in {"insert", "created"} => req[r].row.secret
    /\ req[r].pc = "commit" /\ req[r].child # NoToken =>
         /\ req[r].row.secret
         /\ req[r].row.plain = token[req[r].tid].plain

Codes == /\ \A t \in TokenId : CodeOfRow(t)
         /\ \A r \in Request : CodeOfRequest(r)

\* What a request will say it did is what it is about to do.
Deed(r) ==
    /\ req[r].pc = "lock" => req[r].act = IF req[r].to = "LOCKED" THEN "lock" ELSE "reject"
    /\ Confirming(r) \/ req[r].pc = "clear" => req[r].act = "confirm"

(* After the database change, up to the end of the request, the token is   *)
(* in the state the request gave it, or went on from LOCKED.               *)
Told(r) ==
    req[r].pc \in {"notify", "reread", "clear"} =>
        LET row == token[req[r].tid] IN
        /\ req[r].act = "delete" => row.state = "DELETED"
        /\ req[r].act = "reject" => row.state = "REJECTED" /\ row.lock = req[r].dev
        /\ req[r].act = "lock" => /\ row.state \in {"LOCKED"} \cup ConfirmStates
                                  /\ row.lock = req[r].dev
        /\ req[r].act = "confirm" => /\ req[r].to \in ConfirmStates
                                     /\ row.state = req[r].to
                                     /\ row.lock = req[r].dev
                                     /\ row.amount = req[r].amt

Truths == \A r \in Request : Deed(r) /\ Told(r)

RInv == /\ IInv /\ Codes /\ Truths
        /\ OneWinner /\ ClearingMatchesToken /\ UnsettledOnlyInFlight

-----------------------------------------------------------------------------
(* What partial cashouts need: amounts, and where a remainder comes from.  *)

\* A token is worth what it was issued with until it is confirmed.
AmountOfRow(t) == token[t].state \notin ConfirmStates => token[t].amount = issued[t]

(* A confirmation pays what the token is worth or less, and if less has a  *)
(* remainder to insert, which carries the columns of its origin.           *)
AmountOfRequest(r) ==
    LET q == req[r] IN
    /\ q.pc \in {"insert", "created"} => q.row.from = NoToken
    /\ q.pc \in {"update", "remainder"} =>
         /\ q.row.type = "CASHOUT" => q.amt <= q.row.amount
         /\ q.child = NoToken => q.amt >= q.row.amount
    /\ q.pc = "commit" =>
         /\ token[q.tid].type = "CASHOUT" => q.amt <= token[q.tid].amount
         /\ q.child = NoToken => q.amt >= token[q.tid].amount
         /\ q.child # NoToken => /\ q.row.from = q.tid
                                 /\ \A f \in {"type", "device", "expires"} :
                                      q.row[f] = token[q.tid][f]

(* Inductive when PARTIAL_CASHOUTS is on.                                  *)
AInv == /\ RInv /\ RemainderAddsUp
        /\ \A t \in TokenId : AmountOfRow(t)
        /\ \A r \in Request : AmountOfRequest(r)

-----------------------------------------------------------------------------
(* What the journal, the owners and the claims need: whom a request tells. *)

Reason(r) ==
    /\ req[r].pc \in {"insert", "created"} => req[r].row.device = req[r].dev
    /\ req[r].pc = "created" => token[req[r].tid].device = req[r].dev
    /\ req[r].pc = "commit" /\ req[r].child # NoToken => req[r].row.from = req[r].tid
    /\ Reporting(r) =>
         /\ req[r].act # "create"
         /\ req[r].act \in {"delete", "update"} => req[r].dev = token[req[r].tid].device

\* Nobody holds a token that was deleted or has expired.
Unheld(t) == token[t].state \in {"DELETED", "EXPIRED"} => token[t].lock = NoDevice

\* The owner and the customer of the cash device that holds the token.
Sides(t) == {Owner(t)} \cup
            (IF token[t].lock = NoDevice THEN {} ELSE {DeviceCustomer[token[t].lock]})

(* A journal insert agrees with the table, or it announces a               *)
(* remainder whose transaction is still open or was rolled back.           *)
EntryAgrees(e) ==
    /\ e.action \in {"delete", "reject", "confirm"} =>
         e.state \in {"DELETED"} \cup ConfirmStates
    /\ Exists(e.token) =>
         /\ e.action \in {"delete", "reject", "confirm"} => token[e.token].state = e.state
         /\ e.action = "lock" => token[e.token].lock # NoDevice
         /\ e.customer \in Sides(e.token)
    /\ ~Exists(e.token) =>
         /\ e.action = "create"
         /\ \A r \in Request : Drawn(r, e.token) =>
              /\ req[r].pc = "commit"
              /\ e.customer = DeviceCustomer[req[r].row.device]

\* A request that will journalize the state of t to both sides.
Announcing(r, t) == Reporting(r) /\ req[r].tid = t /\ req[r].act # "update"

(* What happened to a token was sent to the journal, is about to be, or its *)
(* request died.                                                           *)
Announced(t) ==
    t \notin orphaned /\ token[t].state \in {"DELETED", "LOCKED"} \cup ConfirmStates =>
        \/ \E r \in Request : Announcing(r, t)
        \/ \A c \in Sides(t) \cap Observed : \E e \in sent :
              e.customer = c /\ e.token = t /\ e.state = token[t].state

JInv == /\ RInv /\ OwnerUpToDate
        /\ \A r \in Request : Reason(r)
        /\ \A t \in TokenId : Unheld(t) /\ Announced(t)
        /\ \A e \in sent : EntryAgrees(e)

(* Since a claim cleaned up, what it may lock was not expired or is newer: *)
(* so are the remainders that are about to be committed.                   *)
CleanedUp(r) ==
    req[r].pc \in {"find", "lock"} =>
        /\ req[r].asOf <= now
        /\ \A t \in TokenId : IsOpen(t) =>
              token[t].expires >= req[r].asOf \/ token[t].created >= req[r].asOf
        /\ \A q \in Request : req[q].pc = "commit" /\ req[q].child # NoToken =>
              req[q].row.created >= req[r].asOf

EInv == RInv /\ \A r \in Request : CleanedUp(r)
=============================================================================
