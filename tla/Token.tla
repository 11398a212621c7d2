------------------------------- MODULE Token -------------------------------
(***************************************************************************)
(* The token table and the requests that work on it: business/token.ts.    *)
(*                                                                         *)
(* A request runs on one of several Node.js processes that share a MySQL   *)
(* database.  Between two awaits it executes one SQL statement, so every   *)
(* action below is one statement together with the synchronous code that   *)
(* follows it up to the next await; two requests interleave at statement   *)
(* granularity.  Only confirmLockedToken and the insertion of the          *)
(* remainder share a transaction: their effects stay in the request until  *)
(* ConfirmCommit, and the row they update is locked meanwhile.             *)
(***************************************************************************)
EXTENDS Integers

CONSTANTS
    Customer,       \* rows of table customer
    Device,         \* rows of table customer_device
    DeviceCustomer, \* the customer_id column of each device
    TokenDevice,    \* the devices tokens are created for; the code lets any
    CashDevice,     \* the devices that claim and confirm; the code lets any
    TokenId,        \* the tokens a behaviour may create (bound)
    Request,        \* the requests in flight at the same time (bound)
    PlainCode,      \* the plain codes
    CodeChoice,     \* what createToken may draw: plain codes, NoCode, or both
    RadioCode,      \* the radio codes presented: uuids (long), plain codes (short)
    Amount,         \* the amounts requests carry
    Type,           \* the token types that are created
    Expiry,         \* expiry times; one that is >= MaxNow stands for NULL
    MaxNow,         \* the last tick of the clock (bound)
    ClearState,     \* the values the owner writes to clearstate
    Retries,        \* attempts of createToken (10 in the code)
    Outcome,        \* the states cash devices report
    Observed,       \* the customers whose notifications and journal are kept
    Partial,        \* the values PARTIAL_CASHOUTS may have
    AllowInterCustomerClearing,  \* config.ALLOW_INTER_CUSTOMER_CLEARING
    Failures,       \* may processes crash and statements fail?
    NoCode, NoToken, NoDevice

ASSUME ConstantsAssumption ==
    /\ DeviceCustomer \in [Device -> Customer]
    /\ TokenDevice \subseteq Device
    /\ CashDevice \subseteq Device
    /\ RadioCode \subseteq PlainCode \cup TokenId
    /\ Amount \subseteq Int
    /\ Expiry \subseteq Nat
    /\ MaxNow \in Nat
    /\ ClearState \subseteq Nat
    /\ Retries \in Nat \ {0}
    /\ Outcome \subseteq {"COMPLETED", "CANCELED", "FAILED", "REJECTED", "RETRACTED"}
    /\ Observed \subseteq Customer
    /\ Partial \subseteq BOOLEAN
    /\ AllowInterCustomerClearing \in BOOLEAN
    /\ Failures \in BOOLEAN
    /\ CodeChoice \subseteq PlainCode \cup {NoCode}
    /\ NoCode \notin PlainCode \cup TokenId
    /\ PlainCode \cap TokenId = {}
    /\ NoToken \notin TokenId
    /\ NoDevice \notin Device
    /\ "none" \notin Customer

VARIABLES
    token,      \* the committed rows of table token
    clearing,   \* the committed rows of table clearing, one per token at most
    sent,       \* the journal inserts sent; nobody waits for them (see Reports)
    seen,       \* per customer, the token states read at its last notification
    req,        \* what each request remembers between two awaits
    now,        \* the database clock
    issued,     \* history: the amount each token was inserted with
    orphaned    \* history: tokens whose request died between effect and report

vars == <<token, clearing, sent, seen, req, now, issued, orphaned>>

-----------------------------------------------------------------------------
(* The rows.  Only the columns some statement tests or copies are kept.    *)

ConfirmStates == {"COMPLETED", "CANCELED", "FAILED", "REJECTED", "RETRACTED"}
State == {"NONE", "OPEN", "LOCKED", "DELETED", "EXPIRED"} \cup ConfirmStates

\* secret: is the secure code still stored?  intact: does info decode to what
\* the owner sent?  from: info.partial_from_uuid.
Row == [state : State, type : Type \cup {"CASHOUT"},
        device : Device \cup {NoDevice}, lock : Device \cup {NoDevice},
        plain : PlainCode \cup {NoCode}, secret : BOOLEAN,
        amount : Int, expires : Nat, created : Nat, clearstate : Nat,
        intact : BOOLEAN, from : TokenId \cup {NoToken}]

\* No row: the id has not been inserted.
NoRow == [state |-> "NONE", type |-> "CASHOUT", device |-> NoDevice,
          lock |-> NoDevice, plain |-> NoCode, secret |-> FALSE, amount |-> 0,
          expires |-> 0, created |-> 0, clearstate |-> 0,
          intact |-> TRUE, from |-> NoToken]

Exists(t) == token[t].state # "NONE"
Owner(t) == DeviceCustomer[token[t].device]

\* The clearing row of a token: who owes whom.
NoClearing == [debitor |-> "none", creditor |-> "none"]
ClearingRow == [debitor : Customer, creditor : Customer]

Entry == [customer : Customer, action : {"create", "delete", "update", "lock",
          "reject", "confirm"}, token : TokenId, state : State]

Request_ == [pc : {"idle", "insert", "created", "find", "lock", "update",
                   "remainder", "commit", "notify", "reread", "clear"},
             act : {"none", "create", "delete", "update", "lock", "reject",
                    "confirm"},
             dev : Device \cup {NoDevice},  \* the device the caller named
             tid : TokenId \cup {NoToken},  \* the token worked on
             row : Row,                     \* the row as read or to be inserted
             code : PlainCode \cup TokenId \cup {NoCode}, \* radio code
             right : BOOLEAN,               \* do secret and signature verify?
             to : State,                    \* the state to be written
             amt : Int,                     \* the amount to be written
             child : TokenId \cup {NoToken},\* the remainder to be inserted
             tries : Nat,                   \* retries left in createToken
             asOf : Nat]                    \* history: time of cleanUpExpired

Idle == [pc |-> "idle", act |-> "none", dev |-> NoDevice, tid |-> NoToken,
         row |-> NoRow, code |-> NoCode, right |-> FALSE, to |-> "NONE",
         amt |-> 0, child |-> NoToken, tries |-> 0, asOf |-> 0]

-----------------------------------------------------------------------------
(* Where-clauses, locks and uniqueness.                                    *)

\* A transaction holds the lock of the row it updated until it ends.
InTransaction(r) == req[r].pc \in {"remainder", "commit"}
RowLocked(t) == \E r \in Request : InTransaction(r) /\ req[r].tid = t

\* uuid(): an identifier no row, no request and no journal insert uses.
Fresh(t) == /\ ~Exists(t)
            /\ \A r \in Request : req[r].tid # t /\ req[r].child # t
            /\ \A e \in sent : e.token # t

\* UNIQUE INDEX plain_code_UNIQUE; NULLs do not collide.
CodeFree(c) == c = NoCode \/ \A t \in TokenId : token[t].plain # c

\* Mutants: the condition on state, or the cleanup, is forgotten.
IsOpenUnchecked(t) == Exists(t)
IsLockedUnchecked(t) == Exists(t)
IsExpiredNever(t) == FALSE

\* atomicLockTokenDB and deleteByDeviceAndUUID: "... and state='OPEN'".
IsOpen(t) == token[t].state = "OPEN"

\* confirmLockedToken: "... and state='LOCKED'".
IsLocked(t) == token[t].state = "LOCKED"

\* cleanUpExpired: "... state='OPEN' and expires<NOW()".
IsExpired(t) == IsOpen(t) /\ token[t].expires < now

\* The row that insert statement of createToken stores.
NewRow(d, type, a, e) == [NoRow EXCEPT !.state = "OPEN", !.type = type,
                            !.device = d, !.secret = TRUE, !.amount = a,
                            !.expires = e]

\* Mutant: the plain code stays.
ClosedKeepingCode(row, state) == [row EXCEPT !.state = state, !.secret = FALSE]

\* "set state=...,plain_code=null,secure_code=''"
Closed(row, state) == [row EXCEPT !.state = state, !.plain = NoCode,
                                  !.secret = FALSE]

\* The row atomicLockTokenDB writes: a LOCKED token keeps its codes.
LockedRow(row, d, state) ==
    LET claimed == IF state = "LOCKED" THEN [row EXCEPT !.state = state]
                                       ELSE Closed(row, state)
    IN  [claimed EXCEPT !.lock = d]

\* The row confirmLockedToken writes.
ConfirmedRow(row, state, a) == [Closed(row, state) EXCEPT !.amount = a]

\* The row createTokenPartialCashout inserts: a copy of the row read before
\* the transaction, codes and clearstate included.
RemainderRow(orig, t, a) == [orig EXCEPT !.state = "OPEN", !.lock = NoDevice,
                               !.amount = a, !.created = now, !.intact = TRUE,
                               !.from = t]

-----------------------------------------------------------------------------
(* What follows a database change: notifications, journal, clearing.       *)

\* Mutant: only the cash side is told.
ConcernedCashOnly(r) == {DeviceCustomer[req[r].dev]}

\* owner_id, and the customer of the cash device when it is another one.
Concerned(r) == {Owner(req[r].tid), DeviceCustomer[req[r].dev]}

\* notifyTokenObservers: observers re-read the token when notified.
Notified(S, t) == [c \in Customer |->
    IF c \in S \cap Observed THEN [seen[c] EXCEPT ![t] = token[t].state] ELSE seen[c]]

\* journalizeToken sends an insert with the row it is given, and goes on: when
\* it arrives, if it does, is not this request's concern any more.
Journalized(S, action, t, state) ==
    sent \cup {[customer |-> c, action |-> action, token |-> t,
                state |-> state] : c \in S \cap Observed}

\* Mutants: the parties are swapped; deposits are not settled.
SettlementSwapped(t, cash) ==
    IF token[t].state = "COMPLETED" /\ token[t].type \in {"CASHOUT", "CASHIN"}
    THEN IF token[t].type = "CASHIN" THEN [debitor |-> Owner(t), creditor |-> cash]
                                     ELSE [debitor |-> cash, creditor |-> Owner(t)]
    ELSE NoClearing
SettlementCashoutOnly(t, cash) ==
    IF token[t].state = "COMPLETED" /\ token[t].type = "CASHOUT"
    THEN [debitor |-> Owner(t), creditor |-> cash] ELSE NoClearing

\* clearToken: who pays whom, or NoClearing when there is nothing to settle.
Settlement(t, cash) ==
    CASE token[t].state = "COMPLETED" /\ token[t].type = "CASHOUT" ->
           [debitor |-> Owner(t), creditor |-> cash]
      [] token[t].state = "COMPLETED" /\ token[t].type = "CASHIN" ->
           [debitor |-> cash, creditor |-> Owner(t)]
      [] OTHER -> NoClearing

Goto(r, pc) == req' = [req EXCEPT ![r].pc = pc]
Finish(r) == req' = [req EXCEPT ![r] = Idle]

-----------------------------------------------------------------------------
(* createToken.                                                            *)

CreateStart(r) ==
    /\ req[r].pc = "idle"
    /\ \E d \in TokenDevice, type \in Type, a \in Amount, e \in Expiry, t \in TokenId :
         /\ Fresh(t)
         /\ req' = [req EXCEPT ![r] =
              [Idle EXCEPT !.pc = "insert", !.act = "create", !.dev = d, !.tid = t,
                           !.row = NewRow(d, type, a, e), !.tries = Retries]]
    /\ UNCHANGED <<token, clearing, sent, seen, now, issued, orphaned>>

\* The next attempt encodes info again, which is encoded already.
EncodedAgain(row) == [row EXCEPT !.intact = FALSE]

\* The catch of the retry loop: one attempt less, or "Token could not be
\* created in database".  An attempt whose row is in needs a new uuid.
Retry(r) ==
    \/ /\ req[r].tries > 1
       /\ \E t \in TokenId :
            /\ IF req[r].pc = "created" THEN Fresh(t) ELSE t = req[r].tid
            /\ req' = [req EXCEPT ![r] = [req[r] EXCEPT
                         !.pc = "insert", !.tid = t, !.row = EncodedAgain(req[r].row),
                         !.tries = req[r].tries - 1]]
    \/ req[r].tries = 1 /\ Finish(r)

\* insertNew with a freshly drawn plain code; it waits for a transaction that
\* has the code's index entry locked.
CreateInsert(r) ==
    /\ req[r].pc = "insert"
    /\ \E c \in CodeChoice :
         /\ \A t \in TokenId : token[t].plain = c /\ RowLocked(t) => c = NoCode
         /\ IF CodeFree(c)
            THEN /\ token' = [token EXCEPT ![req[r].tid] =
                       [req[r].row EXCEPT !.plain = c, !.created = now]]
                 /\ issued' = [issued EXCEPT ![req[r].tid] = req[r].row.amount]
                 /\ Goto(r, "created")
            ELSE Retry(r) /\ UNCHANGED <<token, issued>>
    /\ UNCHANGED <<clearing, sent, seen, now, orphaned>>

\* findById, notification, journal insert; the call returns.
CreateReread(r) ==
    /\ req[r].pc = "created"
    /\ LET t == req[r].tid IN
         /\ seen' = Notified({DeviceCustomer[req[r].dev]}, t)
         /\ sent' = Journalized({DeviceCustomer[req[r].dev]}, "create", t,
                                   token[t].state)
    /\ Finish(r)
    /\ UNCHANGED <<token, clearing, now, issued, orphaned>>

\* The insert fails for another reason, or findById does: the loop tries again;
\* a row that is in stays, and another token is inserted.
CreateFails(r) ==
    /\ Failures
    /\ req[r].pc \in {"insert", "created"}
    /\ Retry(r)
    /\ orphaned' = IF req[r].pc = "created" THEN orphaned \cup {req[r].tid}
                                            ELSE orphaned
    /\ UNCHANGED <<token, clearing, sent, seen, now, issued>>

-----------------------------------------------------------------------------
(* deleteByDeviceAndUUID and updateByUUID: the owner's side.               *)

Delete(r) ==
    /\ req[r].pc = "idle"
    /\ \E t \in TokenId :
         /\ IsOpen(t)
         /\ ~RowLocked(t)
         /\ token' = [token EXCEPT ![t] = Closed(@, "DELETED")]
         /\ req' = [req EXCEPT ![r] = [Idle EXCEPT !.pc = "notify", !.tid = t,
                       !.act = "delete", !.dev = token[t].device]]
    /\ UNCHANGED <<clearing, sent, seen, now, issued, orphaned>>

\* updateToken writes clearstate, and info if the request has one.
UpdatedRow(row, s, info) == [row EXCEPT !.clearstate = s,
                                        !.intact = row.intact \/ info]

\* Any token of the owner, whatever its state; nobody is notified.
Update(r) ==
    /\ req[r].pc = "idle"
    /\ \E t \in TokenId, s \in ClearState, info \in BOOLEAN :
         /\ Exists(t)
         /\ ~RowLocked(t)
         /\ token' = [token EXCEPT ![t] = UpdatedRow(token[t], s, info)]
         /\ req' = [req EXCEPT ![r] = [Idle EXCEPT !.pc = "reread", !.tid = t,
                       !.act = "update", !.dev = token[t].device]]
    /\ UNCHANGED <<clearing, sent, seen, now, issued, orphaned>>

-----------------------------------------------------------------------------
(* verifyAndLock: a cash device claims a token.                            *)

\* cleanUpExpired scans the table, so it waits for every open transaction.
\* Nobody is notified of the tokens it expires.
ClaimExpire(r) ==
    /\ req[r].pc = "idle"
    /\ \A q \in Request : ~InTransaction(q)
    /\ token' = [t \in TokenId |->
         IF IsExpired(t) THEN Closed(token[t], "EXPIRED") ELSE token[t]]
    /\ \E d \in CashDevice, code \in RadioCode, right \in BOOLEAN :
         req' = [req EXCEPT ![r] =
           [Idle EXCEPT !.pc = "find", !.dev = d, !.code = code,
                        !.right = right, !.asOf = now]]
    /\ UNCHANGED <<clearing, sent, seen, now, issued, orphaned>>

\* The long code holds the uuid, the short one the plain code.
Matches(t, code) == Exists(t) /\ (t = code \/ token[t].plain = code)

\* Verification of the row that was read: a wrong code or signature, or a
\* foreign customer where that is not allowed, rejects the token.
Verdict(row, d, right) ==
    IF /\ right
       /\ row.secret
       /\ AllowInterCustomerClearing
            \/ DeviceCustomer[row.device] = DeviceCustomer[d]
    THEN "LOCKED" ELSE "REJECTED"

ClaimFind(r) ==
    /\ req[r].pc = "find"
    /\ LET found == {t \in TokenId : Matches(t, req[r].code)} IN
         IF found = {} THEN Finish(r)     \* "Token not found"
         ELSE \E t \in found :
                LET to == Verdict(token[t], req[r].dev, req[r].right) IN
                req' = [req EXCEPT ![r] = [@ EXCEPT !.pc = "lock", !.tid = t,
                   !.act = IF to = "LOCKED" THEN "lock" ELSE "reject",
                   !.code = NoCode, !.right = FALSE, !.to = to]]
    /\ UNCHANGED <<token, clearing, sent, seen, now, issued, orphaned>>

\* atomicLockTokenDB: one conditional update decides who gets the token.
ClaimLock(r) ==
    /\ req[r].pc = "lock"
    /\ ~RowLocked(req[r].tid)
    /\ LET t == req[r].tid IN
         IF IsOpen(t)
         THEN /\ token' = [token EXCEPT ![t] = LockedRow(@, req[r].dev, req[r].to)]
              /\ Goto(r, "notify")
         ELSE Finish(r) /\ UNCHANGED token  \* "Token not in OPEN state."
    /\ UNCHANGED <<clearing, sent, seen, now, issued, orphaned>>

-----------------------------------------------------------------------------
(* confirmByLockDeviceAndUUID: the cash device reports the outcome.        *)

\* Mutant: any device may confirm.
MayConfirmAnyDevice(row, d, a) == row.type = "CASHOUT" => a <= row.amount

\* The checks, on a row read outside of the transaction.
MayConfirm(row, d, a) ==
    /\ row.lock = d
    /\ ~(row.type = "CASHOUT" /\ a > row.amount)

\* findByUUID.  The uuid of the remainder, if there is to be one, is drawn here.
ConfirmRead(r) ==
    /\ req[r].pc = "idle"
    /\ \E t \in TokenId, d \in CashDevice, to \in Outcome, p \in Partial,
          child \in TokenId \cup {NoToken} :
       \E a \in Amount \cup {token[t].amount} :  \* no amount: the token's
         /\ Exists(t)
         /\ MayConfirm(token[t], d, a)
         /\ IF p /\ a < token[t].amount
            THEN child # NoToken /\ Fresh(child)
            ELSE child = NoToken
         /\ req' = [req EXCEPT ![r] =
              [Idle EXCEPT !.pc = "update", !.act = "confirm", !.dev = d,
                           !.tid = t, !.row = token[t], !.to = to, !.amt = a,
                           !.child = child]]
    /\ UNCHANGED <<token, clearing, sent, seen, now, issued, orphaned>>

\* Mutant: the update runs on a connection of its own and commits at once.
ConfirmUpdateAutocommit(r) ==
    /\ req[r].pc = "update"
    /\ ~RowLocked(req[r].tid)
    /\ IF ~IsLocked(req[r].tid) THEN Finish(r) /\ UNCHANGED token
       ELSE /\ token' = [token EXCEPT ![req[r].tid] =
                            ConfirmedRow(@, req[r].to, req[r].amt)]
            /\ Goto(r, IF req[r].child = NoToken THEN "commit" ELSE "remainder")
    /\ UNCHANGED <<clearing, sent, seen, now, issued, orphaned>>

\* BEGIN; confirmLockedToken.  Its effect is the transaction's own until COMMIT.
ConfirmUpdate(r) ==
    /\ req[r].pc = "update"
    /\ ~RowLocked(req[r].tid)
    /\ IF ~IsLocked(req[r].tid) THEN Finish(r)   \* "Token not in LOCKED state."
       ELSE Goto(r, IF req[r].child = NoToken THEN "commit" ELSE "remainder")
    /\ UNCHANGED <<token, clearing, sent, seen, now, issued, orphaned>>

\* createTokenPartialCashout: insert and re-read on the transaction's
\* connection, then notify and journalize -- before the commit.
ConfirmRemainder(r) ==
    /\ req[r].pc = "remainder"
    /\ LET row == RemainderRow(req[r].row, req[r].tid,
                               req[r].row.amount - req[r].amt)
           c == req[r].child
       IN  /\ req' = [req EXCEPT ![r] = [@ EXCEPT !.pc = "commit", !.row = row]]
           /\ seen' = Notified({DeviceCustomer[row.device]}, c)
           /\ sent' = Journalized({DeviceCustomer[row.device]}, "create", c,
                                     row.state)
    /\ UNCHANGED <<token, clearing, now, issued, orphaned>>

\* COMMIT makes the confirmation and the remainder visible at once.
ConfirmCommit(r) ==
    /\ req[r].pc = "commit"
    /\ LET q == req[r] IN
         /\ token' = [t \in TokenId |->
              IF t = q.tid THEN ConfirmedRow(token[t], q.to, q.amt)
              ELSE IF t = q.child THEN q.row ELSE token[t]]
         /\ issued' = [t \in TokenId |-> IF t = q.child THEN q.row.amount
                                         ELSE issued[t]]
         /\ req' = [req EXCEPT ![r] = [@ EXCEPT !.pc = "notify", !.row = NoRow,
                                                !.child = NoToken]]
    /\ UNCHANGED <<clearing, sent, seen, now, orphaned>>

-----------------------------------------------------------------------------
(* The tail that delete, claim and confirm share.                          *)

Notify(r) ==
    /\ req[r].pc = "notify"
    /\ seen' = Notified(Concerned(r), req[r].tid)
    /\ Goto(r, "reread")
    /\ UNCHANGED <<token, clearing, sent, now, issued, orphaned>>

\* findById / findByUUID again, then the journal inserts; a confirmation goes on to
\* clearToken with what it has just read.
Reread(r) ==
    /\ req[r].pc = "reread"
    /\ LET t == req[r].tid IN
         /\ sent' = Journalized(Concerned(r), req[r].act, t, token[t].state)
         /\ IF /\ req[r].act = "confirm"
               /\ Settlement(t, DeviceCustomer[req[r].dev]) # NoClearing
            THEN Goto(r, "clear") ELSE Finish(r)
    /\ UNCHANGED <<token, clearing, seen, now, issued, orphaned>>

\* Clearing.addClearing: token_id_UNIQUE refuses a second row.
AddClearing(r) ==
    /\ req[r].pc = "clear"
    /\ LET t == req[r].tid IN
         clearing' = IF clearing[t] # NoClearing THEN clearing
           ELSE [clearing EXCEPT ![t] = Settlement(t, DeviceCustomer[req[r].dev])]
    /\ Finish(r)
    /\ UNCHANGED <<token, sent, seen, now, issued, orphaned>>

-----------------------------------------------------------------------------
(* The environment.                                                        *)

\* The process crashes or the pending statement fails.  An open transaction
\* is rolled back; what was committed stays, its report is never made.
Abort(r) ==
    /\ Failures
    /\ req[r].pc # "idle"
    /\ orphaned' = IF \/ req[r].pc \in {"created", "notify", "clear"}
                      \/ req[r].pc = "reread" /\ req[r].act # "update"
                   THEN orphaned \cup {req[r].tid} ELSE orphaned
    /\ Finish(r)
    /\ UNCHANGED <<token, clearing, sent, seen, now, issued>>

Tick == /\ now < MaxNow
        /\ now' = now + 1
        /\ UNCHANGED <<token, clearing, sent, seen, req, issued, orphaned>>

-----------------------------------------------------------------------------
Init ==
    /\ token = [t \in TokenId |-> NoRow]
    /\ clearing = [t \in TokenId |-> NoClearing]
    /\ sent = {}
    /\ seen = [c \in Customer |-> [t \in TokenId |-> "NONE"]]
    /\ req = [r \in Request |-> Idle]
    /\ now = 0
    /\ issued = [t \in TokenId |-> 0]
    /\ orphaned = {}

\* A request that has started goes on ...
Continue(r) ==
    \/ CreateInsert(r) \/ CreateReread(r)
    \/ ClaimFind(r) \/ ClaimLock(r)
    \/ ConfirmUpdate(r) \/ ConfirmRemainder(r) \/ ConfirmCommit(r)
    \/ Notify(r) \/ Reread(r) \/ AddClearing(r)

\* ... a new one starts ...
Start(r) == CreateStart(r) \/ Delete(r) \/ Update(r) \/ ClaimExpire(r) \/ ConfirmRead(r)

\* ... or one fails.
Fail(r) == CreateFails(r) \/ Abort(r)

Next == Tick \/ \E r \in Request : Start(r) \/ Continue(r) \/ Fail(r)

Spec == Init /\ [][Next]_vars

\* A request that has started is not abandoned by the event loop, and InnoDB
\* grants row locks in the order they were requested.
FairSpec == Spec /\ \A r \in Request : WF_vars(Continue(r))
=============================================================================
