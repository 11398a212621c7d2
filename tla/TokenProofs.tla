---------------------------- MODULE TokenProofs ----------------------------
(* Theorems about Token.tla, for every value of its constants. *)
EXTENDS TokenInvariant, TLAPS

-----------------------------------------------------------------------------
(* Lemmas about the rows and records the actions build.                    *)

LEMMA IdleType == /\ NoRow \in Row
                  /\ Idle \in Request_
BY DEF Idle, Request_, NoRow, Row, State, ConfirmStates

LEMMA NewRowType ==
    ASSUME NEW d \in Device, NEW type \in Type, NEW a \in Int, NEW e \in Nat
    PROVE  NewRow(d, type, a, e) \in Row
BY DEF NewRow, NoRow, Row, State, ConfirmStates

LEMMA ClosedType ==
    ASSUME NEW row \in Row, NEW s \in State
    PROVE  Closed(row, s) \in Row
BY DEF Closed, Row

LEMMA LockedRowType ==
    ASSUME NEW row \in Row, NEW s \in State, NEW d \in Device
    PROVE  LockedRow(row, d, s) \in Row
<1>1. ASSUME NEW x \in Row PROVE [x EXCEPT !.lock = d] \in Row
  BY DEF Row
<1>2. [row EXCEPT !.state = s] \in Row
  BY DEF Row
<1>. QED BY <1>1, <1>2, ClosedType DEF LockedRow

LEMMA ConfirmedRowType ==
    ASSUME NEW row \in Row, NEW s \in State, NEW a \in Int
    PROVE  ConfirmedRow(row, s, a) \in Row
<1>1. ASSUME NEW x \in Row PROVE [x EXCEPT !.amount = a] \in Row
  BY DEF Row
<1>. QED BY <1>1, ClosedType DEF ConfirmedRow

LEMMA RemainderRowType ==
    ASSUME NEW row \in Row, NEW t \in TokenId, NEW a \in Int, now \in Nat
    PROVE  RemainderRow(row, t, a) \in Row
BY DEF RemainderRow, Row, State

LEMMA ColumnTypes ==
    ASSUME NEW row \in Row
    PROVE  /\ EncodedAgain(row) \in Row
           /\ \A s \in Nat, info \in BOOLEAN : UpdatedRow(row, s, info) \in Row
           /\ \A c \in PlainCode \cup {NoCode}, n \in Nat :
                [row EXCEPT !.plain = c, !.created = n] \in Row
<1>1. EncodedAgain(row) \in Row
  BY DEF EncodedAgain, Row
<1>2. \A s \in Nat, i \in BOOLEAN : [row EXCEPT !.clearstate = s, !.intact = i] \in Row
  BY DEF Row
<1>3. \A s \in Nat, info \in BOOLEAN : UpdatedRow(row, s, info) \in Row
  BY <1>2 DEF UpdatedRow
<1>4. \A c \in PlainCode \cup {NoCode}, n \in Nat :
        [row EXCEPT !.plain = c, !.created = n] \in Row
  BY DEF Row
<1>. QED BY <1>1, <1>3, <1>4

\* An update of the owner changes no column a confirmation relies on.
LEMMA UpdatedColumns ==
    ASSUME NEW row \in Row, NEW s, NEW info
    PROVE  /\ UpdatedRow(row, s, info).state = row.state
           /\ UpdatedRow(row, s, info).amount = row.amount
           /\ SameRow(row, UpdatedRow(row, s, info))
BY DEF UpdatedRow, SameRow, Row

\* The records the later steps of a request leave behind.
LEMMA RequestTypes ==
    ASSUME NEW q \in Request_
    PROVE  /\ \A t \in TokenId, act \in {"lock", "reject"}, to \in State :
                [q EXCEPT !.pc = "lock", !.tid = t, !.act = act, !.code = NoCode,
                          !.right = FALSE, !.to = to] \in Request_
           /\ \A row \in Row : [q EXCEPT !.pc = "commit", !.row = row] \in Request_
           /\ \A row \in Row : [q EXCEPT !.pc = "notify", !.row = row,
                                         !.child = NoToken] \in Request_
BY ZenonT(60) DEF Request_

\* Replacing one request, or its program counter, keeps the type.
LEMMA RequestStep ==
    ASSUME req \in [Request -> Request_], NEW r \in Request, NEW q \in Request_,
           req' = [req EXCEPT ![r] = q]
    PROVE  req' \in [Request -> Request_]
OBVIOUS

LEMMA FinishType ==
    ASSUME req \in [Request -> Request_], NEW r \in Request, Finish(r)
    PROVE  req' \in [Request -> Request_]
BY IdleType, RequestStep DEF Finish

LEMMA GotoType ==
    ASSUME req \in [Request -> Request_], NEW r \in Request,
           NEW pc \in {"created", "notify", "reread", "clear", "remainder", "commit"},
           Goto(r, pc)
    PROVE  req' \in [Request -> Request_]
BY DEF Goto, Request_

LEMMA AttemptType ==
    ASSUME NEW q \in Request_, NEW t \in TokenId, NEW row \in Row, NEW n \in Nat
    PROVE  [q EXCEPT !.pc = "insert", !.tid = t, !.row = row, !.tries = n] \in Request_
BY ZenonT(60) DEF Request_

LEMMA RetryType ==
    ASSUME req \in [Request -> Request_], NEW r \in Request, req[r].tid \in TokenId,
           Retry(r)
    PROVE  req' \in [Request -> Request_]
<1>1. CASE req[r].tries > 1 /\ ~Finish(r)
  <2>1. PICK t \in TokenId :
          req' = [req EXCEPT ![r] = [req[r] EXCEPT
                    !.pc = "insert", !.tid = t, !.row = EncodedAgain(req[r].row),
                    !.tries = req[r].tries - 1]]
    BY <1>1 DEF Retry
  <2>2. req[r].tries - 1 \in Nat
    BY <1>1 DEF Request_
  <2>3. req[r] \in Request_
    OBVIOUS
  <2>4. EncodedAgain(req[r].row) \in Row
    BY ColumnTypes DEF Request_
  <2>5. [req[r] EXCEPT !.pc = "insert", !.tid = t, !.row = EncodedAgain(req[r].row),
                       !.tries = req[r].tries - 1] \in Request_
    BY <2>2, <2>3, <2>4, AttemptType
  <2>. QED BY <2>1, <2>5, RequestStep
<1>. QED BY <1>1, FinishType DEF Retry

LEMMA JournalType ==
    ASSUME sent \subseteq Entry, NEW S \in SUBSET Customer, NEW t \in TokenId,
           NEW s \in State,
           NEW act \in {"create", "delete", "update", "lock", "reject", "confirm"}
    PROVE  Journalized(S, act, t, s) \subseteq Entry
BY DEF Journalized, Entry

LEMMA SeenType ==
    ASSUME seen \in [Customer -> [TokenId -> State]], NEW S, NEW t \in TokenId,
           token \in [TokenId -> Row]
    PROVE  Notified(S, t) \in [Customer -> [TokenId -> State]]
<1>1. token[t].state \in State
  BY DEF Row
<1>. QED BY <1>1 DEF Notified

-----------------------------------------------------------------------------
(* Type correctness. *)

LEMMA InitHolds == ConstantsAssumption /\ Init => IInv
<1> SUFFICES ASSUME ConstantsAssumption, Init PROVE IInv
  OBVIOUS
<1>1. TypeOK
  BY IdleType, ConstantsAssumption DEF Init, TypeOK, State
<1>2. Placed /\ DrawnOnce /\ Confirmations
  BY ConstantsAssumption
  DEF Init, Placed, PlacedRow, PlacedRequest, DrawnOnce, Drawn, Confirmations,
      Confirmation, Confirming,
     Exists, IsOpen, Idle, NoRow
<1>. QED BY <1>1, <1>2 DEF IInv

LEMMA TypeStep == ConstantsAssumption /\ IInv /\ [Next]_vars => TypeOK'
<1> SUFFICES ASSUME ConstantsAssumption, TypeOK, Placed, Confirmations, [Next]_vars
             PROVE  TypeOK'
  BY DEF IInv
<1> USE DEF TypeOK
<1>1. CASE Tick
  BY <1>1, ConstantsAssumption DEF Tick
<1>2. ASSUME NEW r \in Request, CreateStart(r) PROVE TypeOK'
  <2>1. PICK d \in TokenDevice, type \in Type, a \in Amount, e \in Expiry, t \in TokenId :
          req' = [req EXCEPT ![r] = [Idle EXCEPT !.pc = "insert", !.act = "create",
                   !.dev = d, !.tid = t, !.row = NewRow(d, type, a, e), !.tries = Retries]]
    BY <1>2 DEF CreateStart
  <2>2. NewRow(d, type, a, e) \in Row
    BY NewRowType, ConstantsAssumption
  <2>3. d \in Device /\ Retries \in Nat
    BY ConstantsAssumption
  <2>4. [Idle EXCEPT !.pc = "insert", !.act = "create", !.dev = d, !.tid = t,
            !.row = NewRow(d, type, a, e), !.tries = Retries] \in Request_
    BY <2>2, <2>3, IdleType DEF Request_
  <2>. QED BY <2>1, <2>4, <1>2, RequestStep DEF CreateStart
<1>3. ASSUME NEW r \in Request, Delete(r) PROVE TypeOK'
  <2>1. PICK t \in TokenId :
          /\ IsOpen(t)
          /\ token' = [token EXCEPT ![t] = Closed(@, "DELETED")]
          /\ req' = [req EXCEPT ![r] = [Idle EXCEPT !.pc = "notify", !.tid = t,
                       !.act = "delete", !.dev = token[t].device]]
    BY <1>3 DEF Delete
  <2>2. token' \in [TokenId -> Row]
    BY <2>1, ClosedType DEF State
  <2>3. token[t].device \in Device
    BY <2>1 DEF Placed, PlacedRow, PlacedRequest, IsOpen, Exists
  <2>4. [Idle EXCEPT !.pc = "notify", !.tid = t, !.act = "delete",
                     !.dev = token[t].device] \in Request_
    BY <2>3, IdleType DEF Request_
  <2>. QED BY <2>1, <2>2, <2>4, <1>3, RequestStep DEF Delete
<1>4. ASSUME NEW r \in Request, Update(r) PROVE TypeOK'
  <2>1. PICK t \in TokenId, s \in ClearState, info \in BOOLEAN :
          /\ Exists(t)
          /\ token' = [token EXCEPT ![t] = UpdatedRow(token[t], s, info)]
          /\ req' = [req EXCEPT ![r] = [Idle EXCEPT !.pc = "reread", !.tid = t,
                       !.act = "update", !.dev = token[t].device]]
    BY <1>4 DEF Update
  <2>2. token' \in [TokenId -> Row]
    <3>1. s \in Nat
      BY ConstantsAssumption
    <3>2. UpdatedRow(token[t], s, info) \in Row
      BY <3>1, ColumnTypes
    <3>. QED BY <2>1, <3>2
  <2>3. token[t].device \in Device
    BY <2>1 DEF Placed, PlacedRow, PlacedRequest
  <2>4. [Idle EXCEPT !.pc = "reread", !.tid = t, !.act = "update",
                     !.dev = token[t].device] \in Request_
    BY <2>3, IdleType DEF Request_
  <2>. QED BY <2>1, <2>2, <2>4, <1>4, RequestStep DEF Update
<1>5. ASSUME NEW r \in Request, ClaimExpire(r) PROVE TypeOK'
  <2>1. token' \in [TokenId -> Row]
    BY <1>5, ClosedType DEF ClaimExpire, State
  <2>2. PICK d \in CashDevice, code \in RadioCode, right \in BOOLEAN :
          req' = [req EXCEPT ![r] = [Idle EXCEPT !.pc = "find", !.dev = d, !.code = code,
                                                !.right = right, !.asOf = now]]
    BY <1>5 DEF ClaimExpire
  <2>3. d \in Device /\ code \in PlainCode \cup TokenId
    BY ConstantsAssumption
  <2>4. [Idle EXCEPT !.pc = "find", !.dev = d, !.code = code, !.right = right,
                     !.asOf = now] \in Request_
    BY <2>3, IdleType DEF Request_
  <2>. QED BY <2>1, <2>2, <2>4, <1>5, RequestStep DEF ClaimExpire
<1>6. ASSUME NEW r \in Request, ConfirmRead(r) PROVE TypeOK'
  <2>1. PICK t \in TokenId, d \in CashDevice, to \in Outcome, p \in Partial,
             child \in TokenId \cup {NoToken} :
        \E a \in Amount \cup {token[t].amount} :
          req' = [req EXCEPT ![r] = [Idle EXCEPT !.pc = "update", !.act = "confirm",
                   !.dev = d, !.tid = t, !.row = token[t], !.to = to, !.amt = a,
                   !.child = child]]
    BY <1>6 DEF ConfirmRead
  <2>2. PICK a \in Amount \cup {token[t].amount} :
          req' = [req EXCEPT ![r] = [Idle EXCEPT !.pc = "update", !.act = "confirm",
                   !.dev = d, !.tid = t, !.row = token[t], !.to = to, !.amt = a,
                   !.child = child]]
    BY <2>1
  <2>3. d \in Device /\ to \in State
    BY ConstantsAssumption DEF State, ConfirmStates
  <2>4. a \in Int /\ token[t] \in Row
    BY ConstantsAssumption DEF Row
  <2>5. [Idle EXCEPT !.pc = "update", !.act = "confirm", !.dev = d, !.tid = t,
            !.row = token[t], !.to = to, !.amt = a, !.child = child] \in Request_
    BY <2>3, <2>4, IdleType DEF Request_
  <2>. QED BY <2>2, <2>5, <1>6, RequestStep DEF ConfirmRead
<1>7. ASSUME NEW r \in Request, CreateInsert(r) PROVE TypeOK'
  <2>1. req[r].tid \in TokenId
    BY <1>7 DEF CreateInsert, Placed, PlacedRow, PlacedRequest
  <2>2. CASE Retry(r) /\ UNCHANGED <<token, issued>>
    BY <2>1, <2>2, <1>7, RetryType DEF CreateInsert
  <2>3. CASE ~(Retry(r) /\ UNCHANGED <<token, issued>>)
    <3>1. PICK c \in CodeChoice :
            /\ token' = [token EXCEPT ![req[r].tid] =
                           [req[r].row EXCEPT !.plain = c, !.created = now]]
            /\ issued' = [issued EXCEPT ![req[r].tid] = req[r].row.amount]
            /\ Goto(r, "created")
      BY <2>3, <1>7 DEF CreateInsert
    <3>2. req[r].row \in Row
      BY DEF Request_
    <3>3. [req[r].row EXCEPT !.plain = c, !.created = now] \in Row
      BY <3>2, ConstantsAssumption DEF Row
    <3>4. req[r].row.amount \in Int
      BY <3>2 DEF Row
    <3>. QED BY <3>1, <3>3, <3>4, <1>7, GotoType DEF CreateInsert
  <2>. QED BY <2>2, <2>3
<1>8. ASSUME NEW r \in Request, CreateReread(r) PROVE TypeOK'
  <2>1. /\ req[r].tid \in TokenId
        /\ DeviceCustomer[req[r].dev] \in Customer
        /\ token[req[r].tid].state \in State
    BY <1>8, ConstantsAssumption DEF CreateReread, Placed, PlacedRow, PlacedRequest, Row
  <2>2. sent' \subseteq Entry
    BY <2>1, <1>8, JournalType, ZenonT(60) DEF CreateReread
  <2>3. seen' \in [Customer -> [TokenId -> State]]
    BY <2>1, <1>8, SeenType DEF CreateReread
  <2>4. req' \in [Request -> Request_]
    BY <1>8, FinishType DEF CreateReread
  <2>. QED BY <2>2, <2>3, <2>4, <1>8 DEF CreateReread
<1>9. ASSUME NEW r \in Request, CreateFails(r) PROVE TypeOK'
  <2>1. req[r].tid \in TokenId
    BY <1>9 DEF CreateFails, Placed, PlacedRow, PlacedRequest
  <2>. QED BY <2>1, <1>9, RetryType DEF CreateFails
<1>10. ASSUME NEW r \in Request, ClaimFind(r) PROVE TypeOK'
  <2>1. CASE Finish(r)
    BY <2>1, <1>10, FinishType DEF ClaimFind
  <2>2. CASE ~Finish(r)
    <3>1. PICK t \in TokenId, to \in {"LOCKED", "REJECTED"}, act \in {"lock", "reject"} :
            req' = [req EXCEPT ![r] = [req[r] EXCEPT !.pc = "lock", !.tid = t, !.act = act,
                                         !.code = NoCode, !.right = FALSE, !.to = to]]
      BY <2>2, <1>10 DEF ClaimFind, Verdict
    <3>2. [req[r] EXCEPT !.pc = "lock", !.tid = t, !.act = act, !.code = NoCode,
                         !.right = FALSE, !.to = to] \in Request_
      <4>1. to \in State
        BY DEF State, ConfirmStates
      <4>. QED BY <4>1, RequestTypes
    <3>. QED BY <3>1, <3>2, <1>10, RequestStep DEF ClaimFind
  <2>. QED BY <2>1, <2>2
<1>11. ASSUME NEW r \in Request, ClaimLock(r) PROVE TypeOK'
  <2>1. /\ req[r].tid \in TokenId
        /\ req[r].dev \in Device
        /\ req[r].to \in State
    BY <1>11 DEF ClaimLock, Placed, PlacedRow, PlacedRequest, Request_
  <2>2. token' \in [TokenId -> Row]
    <3>1. LockedRow(token[req[r].tid], req[r].dev, req[r].to) \in Row
      BY <2>1, LockedRowType
    <3>. QED BY <3>1, <1>11 DEF ClaimLock
  <2>3. req' \in [Request -> Request_]
    BY <1>11, FinishType, GotoType DEF ClaimLock
  <2>. QED BY <2>2, <2>3, <1>11 DEF ClaimLock
<1>12. ASSUME NEW r \in Request, ConfirmUpdate(r) PROVE TypeOK'
  BY <1>12, FinishType, GotoType DEF ConfirmUpdate
<1>13. ASSUME NEW r \in Request, ConfirmRemainder(r) PROVE TypeOK'
  <2> DEFINE row == RemainderRow(req[r].row, req[r].tid, req[r].row.amount - req[r].amt)
  <2>1. req[r].tid \in TokenId /\ Confirming(r) /\ req[r].child # NoToken
    BY <1>13
    DEF ConfirmRemainder, Placed, PlacedRow, PlacedRequest, Confirmations,
        Confirmation, Confirming
  <2>2. req[r].row \in Row /\ req[r].amt \in Int /\ req[r].child \in TokenId
    BY <2>1 DEF Request_
  <2>3. req[r].row.amount \in Int
    BY <2>2 DEF Row
  <2>4. row \in Row
    <3>1. req[r].row.amount - req[r].amt \in Int
      BY <2>2, <2>3
    <3>. QED BY <2>1, <2>2, <3>1, RemainderRowType
  <2>5. row.device \in Device /\ row.state = "OPEN"
    <3>1. SameRow(req[r].row, token[req[r].tid]) /\ Exists(req[r].tid)
      BY <1>13
      DEF ConfirmRemainder, Placed, PlacedRow, PlacedRequest, Confirmations,
          Confirmation, Confirming, InTransaction
    <3>. QED BY <3>1, <2>1, <2>2
         DEF SameRow, Placed, PlacedRow, PlacedRequest, RemainderRow, Row
  <2>6. DeviceCustomer[row.device] \in Customer
    BY <2>5, ConstantsAssumption
  <2>7. [req[r] EXCEPT !.pc = "commit", !.row = row] \in Request_
    BY <2>4, RequestTypes
  <2>8. /\ req' = [req EXCEPT ![r] = [req[r] EXCEPT !.pc = "commit", !.row = row]]
        /\ seen' = Notified({DeviceCustomer[row.device]}, req[r].child)
        /\ sent' = Journalized({DeviceCustomer[row.device]}, "create",
                                  req[r].child, row.state)
        /\ UNCHANGED <<token, clearing, now, issued, orphaned>>
    BY <1>13 DEF ConfirmRemainder
  <2>9. row.state \in State
    BY <2>5 DEF State
  <2> HIDE DEF row
  <2>10. sent' \subseteq Entry
    <3>1. {DeviceCustomer[row.device]} \in SUBSET Customer
      BY <2>6
    <3>2. Journalized({DeviceCustomer[row.device]}, "create", req[r].child, row.state)
            \subseteq Entry
      BY <2>2, <2>9, <3>1, JournalType
    <3>. QED BY <2>8, <3>2
  <2>11. seen' \in [Customer -> [TokenId -> State]]
    BY <2>2, <2>8, SeenType
  <2>12. req' \in [Request -> Request_]
    BY <2>7, <2>8, RequestStep
  <2>. QED BY <2>8, <2>10, <2>11, <2>12
<1>14. ASSUME NEW r \in Request, ConfirmCommit(r) PROVE TypeOK'
  <2>1. /\ req[r].row \in Row
        /\ req[r].to \in State
        /\ req[r].amt \in Int
    BY DEF Request_
  <2>2. req[r].row.amount \in Int
    BY <2>1 DEF Row
  <2>3. token' \in [TokenId -> Row]
    BY <2>1, <1>14, ConfirmedRowType DEF ConfirmCommit
  <2>4. issued' \in [TokenId -> Int]
    BY <2>2, <1>14 DEF ConfirmCommit
  <2>5. [req[r] EXCEPT !.pc = "notify", !.row = NoRow, !.child = NoToken] \in Request_
    BY IdleType, RequestTypes
  <2>. QED BY <2>3, <2>4, <2>5, <1>14, RequestStep DEF ConfirmCommit
<1>15. ASSUME NEW r \in Request, Notify(r) PROVE TypeOK'
  <2>1. req[r].tid \in TokenId
    BY <1>15 DEF Notify, Placed, PlacedRow, PlacedRequest
  <2>. QED BY <2>1, <1>15, GotoType, SeenType DEF Notify
<1>16. ASSUME NEW r \in Request, Reread(r) PROVE TypeOK'
  <2>1. /\ req[r].tid \in TokenId
        /\ req[r].act \in {"create", "delete", "update", "lock", "reject", "confirm"}
        /\ req[r].dev \in Device
        /\ Exists(req[r].tid)
    BY <1>16 DEF Reread, Placed, PlacedRow, PlacedRequest, Request_
  <2>2. token[req[r].tid].state \in State /\ token[req[r].tid].device \in Device
    BY <2>1 DEF Row, Placed, PlacedRow, PlacedRequest
  <2>3. Concerned(r) \in SUBSET Customer
    BY <2>1, <2>2, ConstantsAssumption DEF Concerned, Owner
  <2>4. sent' \subseteq Entry
    BY <2>1, <2>2, <2>3, <1>16, JournalType DEF Reread
  <2>5. req' \in [Request -> Request_]
    BY <1>16, FinishType, GotoType DEF Reread
  <2>. QED BY <2>4, <2>5, <1>16 DEF Reread
<1>17. ASSUME NEW r \in Request, AddClearing(r) PROVE TypeOK'
  <2>1. /\ req[r].tid \in TokenId
        /\ req[r].dev \in Device
        /\ token[req[r].tid].device \in Device
    BY <1>17 DEF AddClearing, Placed, PlacedRow, PlacedRequest
  <2>2. Settlement(req[r].tid, DeviceCustomer[req[r].dev]) \in ClearingRow \cup {NoClearing}
    BY <2>1, ConstantsAssumption DEF Settlement, ClearingRow, Owner
  <2>. QED BY <2>2, <1>17, FinishType DEF AddClearing
<1>18. ASSUME NEW r \in Request, Abort(r) PROVE TypeOK'
  <2>1. req[r].pc \in {"created", "notify", "clear", "reread"} => req[r].tid \in TokenId
    BY DEF Placed, PlacedRow, PlacedRequest
  <2>. QED BY <2>1, <1>18, FinishType DEF Abort
<1>19. CASE UNCHANGED vars
  BY <1>19 DEF vars
<1>. QED
  BY <1>1, <1>2, <1>3, <1>4, <1>5, <1>6, <1>7, <1>8, <1>9, <1>10, <1>11, <1>12, <1>13,
     <1>14, <1>15, <1>16, <1>17, <1>18, <1>19
  DEF Next, Start, Continue, Fail

-----------------------------------------------------------------------------
(* What one step does to the row of a token. *)

RowStep(t) ==
    /\ Exists(t) => /\ token'[t].state # "NONE"
                    /\ token'[t].device = token[t].device
    /\ token'[t].state # "NONE" => token'[t].device \in Device
    /\ token'[t].state \in {"NONE", "OPEN"} => token'[t].lock = NoDevice
    /\ Exists(t) /\ ~IsOpen(t) =>
         /\ token'[t].state # "OPEN"
         /\ token'[t].lock = token[t].lock
         /\ token'[t].state = "LOCKED" => /\ token[t].state = "LOCKED"
                                          /\ SameRow(token[t], token'[t])

\* The actions that do not write the token table.
LEMMA RowUnchanged ==
    ASSUME NEW t \in TokenId, Placed, UNCHANGED token
    PROVE  RowStep(t)
BY DEF RowStep, Placed, PlacedRow, PlacedRequest, Exists, IsOpen, SameRow

LEMMA ClosedRow ==
    ASSUME NEW row \in Row, NEW s \in State
    PROVE  /\ Closed(row, s).state = s
           /\ Closed(row, s).device = row.device
           /\ Closed(row, s).lock = row.lock
BY DEF Closed, Row

LEMMA RowSteps ==
    ASSUME ConstantsAssumption, IInv, [Next]_vars, NEW t \in TokenId
    PROVE  RowStep(t)
<1> USE DEF IInv, TypeOK
<1>1. ASSUME NEW r \in Request, Delete(r) PROVE RowStep(t)
  <2>1. PICK u \in TokenId :
          IsOpen(u) /\ token' = [token EXCEPT ![u] = Closed(@, "DELETED")]
    BY <1>1 DEF Delete
  <2>2. CASE u = t
    BY <2>1, <2>2, ClosedRow DEF RowStep, Exists, IsOpen, Placed, PlacedRow, State
  <2>3. CASE u # t
    BY <2>1, <2>3 DEF RowStep, Exists, IsOpen, Placed, PlacedRow, SameRow
  <2>. QED BY <2>2, <2>3
<1>2. ASSUME NEW r \in Request, Update(r) PROVE RowStep(t)
  <2>1. PICK u \in TokenId, s \in ClearState, info \in BOOLEAN :
          token' = [token EXCEPT ![u] = UpdatedRow(token[u], s, info)]
    BY <1>2 DEF Update
  <2>2. SameRow(token[t], token'[t])
    BY <2>1, UpdatedColumns DEF SameRow
  <2>. QED BY <2>2 DEF RowStep, Exists, IsOpen, Placed, PlacedRow, SameRow
<1>3. ASSUME NEW r \in Request, ClaimExpire(r) PROVE RowStep(t)
  <2>1. CASE IsExpired(t)
    BY <1>3, <2>1, ClosedRow
    DEF ClaimExpire, IsExpired, RowStep, Exists, IsOpen, Placed, PlacedRow, State
  <2>2. CASE ~IsExpired(t)
    BY <1>3, <2>2 DEF ClaimExpire, RowStep, Exists, IsOpen, Placed, PlacedRow, SameRow
  <2>. QED BY <2>1, <2>2
<1>4. ASSUME NEW r \in Request, CreateInsert(r) PROVE RowStep(t)
  <2>1. CASE UNCHANGED token
    BY <2>1, RowUnchanged
  <2>2. CASE ~UNCHANGED token
    <3>1. PICK c \in CodeChoice : token' = [token EXCEPT ![req[r].tid] =
                          [req[r].row EXCEPT !.plain = c, !.created = now]]
      BY <1>4, <2>2 DEF CreateInsert
    <3>2. CASE req[r].tid = t
      <4>1. /\ ~Exists(t)
            /\ req[r].row \in Row
            /\ req[r].row.state = "OPEN"
            /\ req[r].row.lock = NoDevice
            /\ req[r].row.device \in Device
        BY <1>4, <3>2
        DEF CreateInsert, Placed, PlacedRow, PlacedRequest, DrawnOnce, Drawn, Request_
      <4>2. /\ token'[t].state = "OPEN"
            /\ token'[t].lock = NoDevice
            /\ token'[t].device \in Device
        BY <3>1, <3>2, <4>1 DEF Row
      <4>. QED BY <4>1, <4>2 DEF RowStep
    <3>3. CASE req[r].tid # t
      BY <3>1, <3>3 DEF RowStep, Exists, IsOpen, Placed, PlacedRow, SameRow
    <3>. QED BY <3>2, <3>3
  <2>. QED BY <2>1, <2>2
<1>5. ASSUME NEW r \in Request, ClaimLock(r) PROVE RowStep(t)
  <2>1. CASE UNCHANGED token
    BY <2>1, RowUnchanged
  <2>2. CASE ~UNCHANGED token
    <3>1. /\ IsOpen(req[r].tid)
          /\ token' = [token EXCEPT ![req[r].tid] = LockedRow(@, req[r].dev, req[r].to)]
      BY <1>5, <2>2 DEF ClaimLock
    <3>2. CASE req[r].tid = t
      <4>1. req[r].to \in {"LOCKED", "REJECTED"} /\ req[r].dev \in Device
        BY <1>5 DEF ClaimLock, Placed, PlacedRow, PlacedRequest
      <4>2. /\ LockedRow(token[t], req[r].dev, req[r].to).state = req[r].to
            /\ LockedRow(token[t], req[r].dev, req[r].to).device = token[t].device
        BY <4>1 DEF LockedRow, Closed, Row
      <4>. QED BY <3>1, <3>2, <4>1, <4>2 DEF RowStep, Exists, IsOpen, Placed, PlacedRow
    <3>3. CASE req[r].tid # t
      BY <3>1, <3>3 DEF RowStep, Exists, IsOpen, Placed, PlacedRow, SameRow
    <3>. QED BY <3>2, <3>3
  <2>. QED BY <2>1, <2>2
<1>6. ASSUME NEW r \in Request, ConfirmCommit(r) PROVE RowStep(t)
  <2>1. /\ Confirming(r) /\ InTransaction(r) /\ req[r].pc = "commit"
        /\ IsLocked(req[r].tid)
        /\ req[r].to \in ConfirmStates
        /\ req[r].tid \in TokenId
    BY <1>6
    DEF ConfirmCommit, Confirmations, Confirmation, Confirming, InTransaction, Placed,
        PlacedRow, PlacedRequest
  <2>2. CASE t = req[r].tid
    <3>1. token'[t] = ConfirmedRow(token[t], req[r].to, req[r].amt)
      BY <1>6, <2>2 DEF ConfirmCommit
    <3>2. /\ token'[t].state = req[r].to
          /\ token'[t].device = token[t].device
          /\ token'[t].lock = token[t].lock
      BY <3>1 DEF ConfirmedRow, Closed, Row
    <3>. QED BY <2>1, <2>2, <3>2
        
              DEF RowStep, Exists, IsOpen, IsLocked, Placed, PlacedRow, PlacedRequest,
                  ConfirmStates
  <2>3. CASE t # req[r].tid /\ t = req[r].child
    <3>1. token'[t] = req[r].row
      BY <1>6, <2>3 DEF ConfirmCommit
    <3>2. t # NoToken
      BY DEF ConstantsAssumption
    <3>3. ~Exists(t)
      <4>1. Drawn(r, t)
        BY <2>3 DEF Drawn
      <4>. QED BY <4>1 DEF DrawnOnce
    <3>4. /\ req[r].row.state = "OPEN"
          /\ req[r].row.lock = NoDevice
          /\ req[r].row.device \in Device
      BY <2>1, <2>3, <3>2 DEF Confirmations, Confirmation
    <3>. QED BY <3>1, <3>3, <3>4 DEF RowStep
  <2>4. CASE t # req[r].tid /\ t # req[r].child
    BY <1>6, <2>4 DEF ConfirmCommit, RowStep, Exists, IsOpen, Placed, PlacedRow, SameRow
  <2>. QED BY <2>2, <2>3, <2>4
<1>7. CASE UNCHANGED token
  BY <1>7, RowUnchanged
<1>. QED
  BY <1>1, <1>2, <1>3, <1>4, <1>5, <1>6, <1>7
  DEF Next, Start, Continue, Fail, vars, Tick, CreateStart, ConfirmRead, CreateReread,
      CreateFails, ClaimFind, ConfirmUpdate, ConfirmRemainder, Notify, Reread,
      AddClearing, Abort

\* A token stays LOCKED until a request commits its confirmation.
LEMMA LockedStays ==
    ASSUME ConstantsAssumption, IInv, [Next]_vars, NEW t \in TokenId, IsLocked(t),
           \A r \in Request : ConfirmCommit(r) => req[r].tid # t
    PROVE  token'[t].state = "LOCKED" /\ SameRow(token[t], token'[t])
<1> SUFFICES token'[t].state = "LOCKED"
  BY RowSteps DEF RowStep, Exists, IsOpen, IsLocked
<1> USE DEF IInv, TypeOK, IsLocked
<1>1. ASSUME NEW r \in Request, Delete(r) PROVE token'[t].state = "LOCKED"
  BY <1>1 DEF Delete, IsOpen
<1>2. ASSUME NEW r \in Request, Update(r) PROVE token'[t].state = "LOCKED"
  <2>1. PICK u \in TokenId, s \in ClearState, info \in BOOLEAN :
          token' = [token EXCEPT ![u] = UpdatedRow(token[u], s, info)]
    BY <1>2 DEF Update
  <2>. QED BY <2>1, UpdatedColumns
<1>3. ASSUME NEW r \in Request, ClaimExpire(r) PROVE token'[t].state = "LOCKED"
  BY <1>3 DEF ClaimExpire, IsExpired, IsOpen
<1>4. ASSUME NEW r \in Request, CreateInsert(r) PROVE token'[t].state = "LOCKED"
  <2>1. req[r].tid # t
    BY <1>4 DEF CreateInsert, DrawnOnce, Drawn, Exists
  <2>. QED BY <2>1, <1>4 DEF CreateInsert
<1>5. ASSUME NEW r \in Request, ClaimLock(r) PROVE token'[t].state = "LOCKED"
  BY <1>5 DEF ClaimLock, IsOpen
<1>6. ASSUME NEW r \in Request, ConfirmCommit(r) PROVE token'[t].state = "LOCKED"
  <2>1. req[r].tid # t
    BY <1>6
  <2>2. ~Drawn(r, t)
    BY DEF DrawnOnce, Exists
  <2>3. req[r].child # t
    BY <2>2 DEF Drawn
  <2>. QED BY <2>1, <2>3, <1>6 DEF ConfirmCommit
<1>7. CASE UNCHANGED token
  BY <1>7
<1>. QED
  BY <1>1, <1>2, <1>3, <1>4, <1>5, <1>6, <1>7
  DEF Next, Start, Continue, Fail, vars, Tick, CreateStart, ConfirmRead, CreateReread,
      CreateFails, ClaimFind, ConfirmUpdate, ConfirmRemainder, Notify, Reread,
      AddClearing, Abort

-----------------------------------------------------------------------------
(* What one step leaves true of the requests that do not take it. *)

\* What the fields of a fresh request are.
LEMMA IdleFields == /\ Idle.pc = "idle"
                    /\ Idle.tid = NoToken
                    /\ Idle.child = NoToken
                    /\ Idle.row = NoRow
BY DEF Idle

LEMMA OthersPlaced ==
    ASSUME ConstantsAssumption, IInv, [Next]_vars, NEW q \in Request, req'[q] = req[q]
    PROVE  PlacedRequest(q)'
<1>1. req[q].tid \in TokenId /\ Exists(req[q].tid) => Exists(req[q].tid)'
  BY RowSteps DEF RowStep, Exists
<1>. QED BY <1>1 DEF IInv, Placed, PlacedRequest, Exists

\* ... unless it commits, or enters a transaction on the same token.
LEMMA OthersConfirm ==
    ASSUME ConstantsAssumption, IInv, [Next]_vars, NEW q \in Request, req'[q] = req[q],
           \A r \in Request : ConfirmCommit(r) /\ InTransaction(q) =>
                                 req[r].tid # req[q].tid,
           \A r \in Request \ {q} : InTransaction(q) /\ InTransaction(r)' =>
                                     req'[r].tid # req[q].tid
    PROVE  Confirmation(q)'
<1> SUFFICES ASSUME Confirming(q) PROVE Confirmation(q)'
  BY DEF Confirmation, Confirming
<1> DEFINE t == req[q].tid
<1>1. /\ t \in TokenId
      /\ Exists(t) /\ ~IsOpen(t)
      /\ token[t].lock = req[q].dev
  BY DEF IInv, Placed, PlacedRequest, Confirmations, Confirmation, Confirming
<1>2. /\ token'[t].state # "OPEN"
      /\ token'[t].lock = req[q].dev
      /\ token'[t].state = "LOCKED" => /\ token[t].state = "LOCKED"
                                       /\ SameRow(token[t], token'[t])
  BY <1>1, RowSteps DEF RowStep
<1>3. InTransaction(q) => token'[t].state = "LOCKED" /\ SameRow(token[t], token'[t])
  BY <1>1, LockedStays DEF IInv, Confirmations, Confirmation
<1>. QED
  BY <1>1, <1>2, <1>3 DEF IInv, Confirmations, Confirmation, Confirming, InTransaction,
     IsOpen, IsLocked, SameRow

\* Both, for a step of r that enters a transaction only on an unlocked row.
LEMMA OthersHold ==
    ASSUME ConstantsAssumption, IInv, [Next]_vars, NEW r \in Request,
           \A q \in Request \ {r} : req'[q] = req[q],
           InTransaction(r)' => \/ InTransaction(r) /\ req'[r].tid = req[r].tid
                               \/ ~RowLocked(req'[r].tid)
    PROVE  \A q \in Request \ {r} : PlacedRequest(q)' /\ Confirmation(q)'
<1> SUFFICES ASSUME NEW q \in Request \ {r} PROVE PlacedRequest(q)' /\ Confirmation(q)'
  OBVIOUS
<1>1. ASSUME NEW x \in Request, ConfirmCommit(x), InTransaction(q)
      PROVE  req[x].tid # req[q].tid
  <2>1. x # q
    BY <1>1, ZenonT(60) DEF ConfirmCommit, InTransaction, IInv, TypeOK, Request_
  <2>2. InTransaction(x) /\ Confirming(x)
    BY <1>1 DEF ConfirmCommit, InTransaction, Confirming
  <2>. QED BY <1>1, <2>1, <2>2 DEF IInv, Confirmations, Confirmation
<1>2. ASSUME NEW x \in Request \ {q}, InTransaction(q), InTransaction(x)'
      PROVE  req'[x].tid # req[q].tid
  <2>1. InTransaction(q) /\ Confirming(q)
    BY <1>2 DEF InTransaction, Confirming
  <2>2. CASE InTransaction(x) /\ req'[x].tid = req[x].tid
    BY <2>1, <2>2 DEF IInv, Confirmations, Confirmation
  <2>3. CASE x # r
    BY <1>2, <2>2, <2>3 DEF InTransaction
  <2>4. CASE x = r /\ ~RowLocked(req'[r].tid)
    BY <2>1, <2>4 DEF RowLocked
  <2>. QED BY <1>2, <2>2, <2>3, <2>4
<1>. QED BY <1>1, <1>2, OthersPlaced, OthersConfirm

-----------------------------------------------------------------------------
(* Identifiers are drawn once. *)

\* A step that draws nothing and inserts only what is no longer drawn.
LEMMA DrawnFewer ==
    ASSUME DrawnOnce,
           \A q \in Request, t \in TokenId : Drawn(q, t)' => Drawn(q, t),
           \A q \in Request, t \in TokenId : Drawn(q, t)' /\ Exists(t)' => Exists(t),
           \A q \in Request, t \in TokenId : req'[q].child = t => Confirming(q)'
    PROVE  DrawnOnce'
BY DEF DrawnOnce

\* A step of r that draws fresh identifiers and inserts nothing.
LEMMA DrawnFresh ==
    ASSUME DrawnOnce, NEW r \in Request, UNCHANGED token,
           \A q \in Request \ {r} : req'[q] = req[q],
           \A t \in TokenId : Drawn(r, t)' => Fresh(t),
           \A t \in TokenId : req'[r].child = t => Confirming(r)'
    PROVE  DrawnOnce'
<1>1. ASSUME NEW t \in TokenId, NEW q \in Request \ {r} PROVE Drawn(q, t)' <=> Drawn(q, t)
  BY DEF Drawn
<1>2. ASSUME NEW t \in TokenId, Drawn(r, t)'
      PROVE  ~Exists(t)' /\ \A q \in Request : ~Drawn(q, t)
  BY <1>2 DEF Fresh, Drawn, Exists
<1>. QED BY <1>1, <1>2 DEF DrawnOnce, Exists, Confirming

-----------------------------------------------------------------------------
(* The request that takes the step. *)

\* A step after which r holds no identifier and confirms nothing.
LEMMA StepAside ==
    ASSUME ConstantsAssumption, IInv, [Next]_vars, NEW r \in Request,
           \A q \in Request \ {r} : req'[q] = req[q],
           \A t \in TokenId : Exists(t)' => Exists(t) \/ Drawn(r, t),
           req'[r].pc \notin {"insert", "update", "remainder", "commit"},
           req'[r].child \notin TokenId,
           PlacedRequest(r)'
    PROVE  (\A q \in Request : PlacedRequest(q)' /\ Confirmation(q)') /\ DrawnOnce'
<1>1. ~InTransaction(r)' /\ Confirmation(r)'
  BY DEF InTransaction, Confirmation, Confirming
<1>2. \A q \in Request \ {r} : PlacedRequest(q)' /\ Confirmation(q)'
  BY <1>1, OthersHold
<1>3. \A t \in TokenId : ~Drawn(r, t)'
  BY DEF Drawn
<1>4. ASSUME NEW q \in Request \ {r}, NEW t \in TokenId
      PROVE  /\ Drawn(q, t)' => Drawn(q, t) /\ ~Exists(t)'
             /\ req'[q].child = t => Confirming(q)'
  BY DEF IInv, DrawnOnce, Drawn, Confirming
<1>5. DrawnOnce'
  BY <1>3, <1>4, DrawnFewer DEF IInv
<1>. QED BY <1>1, <1>2, <1>5

LEMMA FinishSteps ==
    ASSUME ConstantsAssumption, IInv, [Next]_vars, NEW r \in Request, Finish(r),
           UNCHANGED token
    PROVE  (\A q \in Request : PlacedRequest(q)' /\ Confirmation(q)') /\ DrawnOnce'
<1>1. /\ req'[r] = Idle
      /\ \A q \in Request \ {r} : req'[q] = req[q]
  BY DEF Finish, IInv, TypeOK
<1>2. PlacedRequest(r)'
  BY <1>1, IdleFields DEF PlacedRequest
<1>3. \A t \in TokenId : Exists(t)' => Exists(t)
  BY DEF Exists
<1>. QED BY <1>1, <1>2, <1>3, IdleFields, StepAside DEF ConstantsAssumption

\* Delete and Update start at the tail, on a token that exists.
LEMMA OwnerSteps ==
    ASSUME ConstantsAssumption, IInv, [Next]_vars, NEW r \in Request,
           Delete(r) \/ Update(r)
    PROVE  (\A q \in Request : PlacedRequest(q)' /\ Confirmation(q)') /\ DrawnOnce'
<1> USE DEF IInv, TypeOK
<1>1. PICK t \in TokenId, pc \in {"notify", "reread"}, act \in {"delete", "update"} :
        /\ Exists(t)
        /\ req' = [req EXCEPT ![r] = [Idle EXCEPT !.pc = pc, !.tid = t, !.act = act,
                                                 !.dev = token[t].device]]
        /\ \A u \in TokenId \ {t} : token'[u] = token[u]
  BY ZenonT(60) DEF Delete, Update, IsOpen, Exists
<1>2. /\ req'[r].pc = pc
      /\ req'[r].tid = t
      /\ req'[r].act = act
      /\ req'[r].dev = token[t].device
      /\ req'[r].child = NoToken
      /\ \A q \in Request \ {r} : req'[q] = req[q]
  BY <1>1, IdleType, IdleFields DEF Request_
<1>3. token'[t].state # "NONE" /\ token[t].device \in Device
  BY <1>1, RowSteps DEF RowStep, Placed, PlacedRow
<1>4. PlacedRequest(r)'
  BY <1>2, <1>3 DEF PlacedRequest, Exists
<1>5. \A u \in TokenId : Exists(u)' => Exists(u)
  BY <1>1 DEF Exists
<1>. QED BY <1>2, <1>4, <1>5, StepAside DEF ConstantsAssumption

LEMMA ClaimSteps ==
    ASSUME ConstantsAssumption, IInv, [Next]_vars, NEW r \in Request,
           ClaimExpire(r) \/ ClaimFind(r) \/ ClaimLock(r)
    PROVE  (\A q \in Request : PlacedRequest(q)' /\ Confirmation(q)') /\ DrawnOnce'
<1> USE DEF IInv, TypeOK
<1>1. CASE ClaimExpire(r)
  <2>1. PICK d \in CashDevice, code \in RadioCode, right \in BOOLEAN :
          req' = [req EXCEPT ![r] = [Idle EXCEPT !.pc = "find", !.dev = d, !.code = code,
                                                !.right = right, !.asOf = now]]
    BY <1>1 DEF ClaimExpire
  <2>2. /\ req'[r].pc = "find"
        /\ req'[r].dev = d
        /\ req'[r].child = NoToken
        /\ \A q \in Request \ {r} : req'[q] = req[q]
    BY <2>1, IdleType, IdleFields DEF Request_
  <2>3. PlacedRequest(r)'
    BY <2>2 DEF PlacedRequest, ConstantsAssumption
  <2>4. \A u \in TokenId : Exists(u)' => Exists(u)
    BY <1>1 DEF ClaimExpire, Exists, IsExpired, IsOpen
  <2>. QED BY <2>2, <2>3, <2>4, StepAside DEF ConstantsAssumption
<1>2. CASE ClaimFind(r) /\ ~Finish(r)
  <2>1. PICK t \in TokenId, to \in {"LOCKED", "REJECTED"}, act \in {"lock", "reject"} :
          /\ Exists(t)
          /\ req' = [req EXCEPT ![r] = [req[r] EXCEPT !.pc = "lock", !.tid = t, !.act = act,
                                         !.code = NoCode, !.right = FALSE, !.to = to]]
    BY <1>2 DEF ClaimFind, Verdict, Matches
  <2>2. /\ req'[r].pc = "lock"
        /\ req'[r].tid = t
        /\ req'[r].act = act
        /\ req'[r].to = to
        /\ req'[r].dev = req[r].dev
        /\ req'[r].child = req[r].child
        /\ \A q \in Request \ {r} : req'[q] = req[q]
    BY <2>1 DEF Request_
  <2>3. req[r].pc = "find" /\ UNCHANGED token
    BY <1>2 DEF ClaimFind
  <2>4. PlacedRequest(r)'
    BY <2>1, <2>2, <2>3 DEF PlacedRequest, Placed, Exists
  <2>5. req[r].child \notin TokenId
    BY <2>3 DEF DrawnOnce, Drawn, Confirming
  <2>6. \A u \in TokenId : Exists(u)' => Exists(u)
    BY <2>3 DEF Exists
  <2>. QED BY <2>2, <2>4, <2>5, <2>6, StepAside
<1>3. CASE ClaimLock(r) /\ ~Finish(r)
  <2>1. /\ req[r].pc = "lock"
        /\ IsOpen(req[r].tid)
        /\ token' = [token EXCEPT ![req[r].tid] = LockedRow(@, req[r].dev, req[r].to)]
        /\ Goto(r, "notify")
    BY <1>3 DEF ClaimLock
  <2>2. /\ req'[r].pc = "notify"
        /\ req'[r].tid = req[r].tid
        /\ req'[r].act = req[r].act
        /\ req'[r].dev = req[r].dev
        /\ req'[r].child = req[r].child
        /\ \A q \in Request \ {r} : req'[q] = req[q]
    BY <2>1 DEF Goto, Request_
  <2>3. /\ req[r].dev \in Device
        /\ req[r].tid \in TokenId
        /\ req[r].act # "none"
        /\ Exists(req[r].tid)
    BY <2>1 DEF Placed, PlacedRequest
  <2>4. token'[req[r].tid].state # "NONE"
    BY <2>3, RowSteps DEF RowStep
  <2>5. PlacedRequest(r)'
    BY <2>2, <2>3, <2>4 DEF PlacedRequest, Exists
  <2>6. req[r].child \notin TokenId
    BY <2>1 DEF DrawnOnce, Drawn, Confirming
  <2>7. \A u \in TokenId : Exists(u)' => Exists(u)
    BY <2>1, <2>3 DEF Exists
  <2>. QED BY <2>2, <2>5, <2>6, <2>7, StepAside
<1>4. CASE Finish(r) /\ (ClaimFind(r) \/ ClaimLock(r))
  <2>1. req'[r].pc = "idle"
    BY <1>4, IdleFields DEF Finish
  <2>2. Goto(r, "notify") => req'[r].pc = "notify"
    BY DEF Goto, Request_
  <2>3. UNCHANGED token
    BY <1>4, <2>1, <2>2 DEF ClaimFind, ClaimLock
  <2>. QED BY <1>4, <2>3, FinishSteps
<1>. QED BY <1>1, <1>2, <1>3, <1>4

LEMMA CreateSteps ==
    ASSUME ConstantsAssumption, IInv, [Next]_vars, NEW r \in Request,
           \/ CreateStart(r) \/ CreateInsert(r) \/ CreateReread(r)
           \/ CreateFails(r)
    PROVE  (\A q \in Request : PlacedRequest(q)' /\ Confirmation(q)') /\ DrawnOnce'
<1> USE DEF IInv, TypeOK
\* What starting an attempt leaves, be it the first one or another.
<1> DEFINE Attempt(t) ==
      /\ t \in TokenId
      /\ UNCHANGED token
      /\ \A q \in Request \ {r} : req'[q] = req[q]
      /\ req'[r].pc = "insert"
      /\ req'[r].tid = t
      /\ req'[r].child \notin TokenId
      /\ req'[r].dev \in Device
      /\ req'[r].act # "none"
      /\ req'[r].row.state = "OPEN"
      /\ req'[r].row.lock = NoDevice
      /\ req'[r].row.device \in Device
<1>1. ASSUME NEW t, Attempt(t)
      PROVE  \A q \in Request : PlacedRequest(q)' /\ Confirmation(q)'
  <2>1. PlacedRequest(r)' /\ Confirmation(r)' /\ ~InTransaction(r)'
    BY <1>1 DEF PlacedRequest, Confirmation, Confirming, InTransaction
  <2>. QED BY <1>1, <2>1, OthersHold
<1>2. ASSUME NEW t, Attempt(t), Fresh(t) PROVE DrawnOnce'
  <2>1. \A u \in TokenId : Drawn(r, u)' => Fresh(u)
    BY <1>2 DEF Drawn
  <2>. QED BY <1>2, <2>1, DrawnFresh
<1>3. ASSUME NEW t, Attempt(t), req[r].pc = "insert", req[r].tid = t PROVE DrawnOnce'
  <2>1. \A q \in Request, u \in TokenId : Drawn(q, u)' => Drawn(q, u)
    BY <1>3 DEF Drawn
  <2>2. \A q \in Request, u \in TokenId : Drawn(q, u)' /\ Exists(u)' => Exists(u)
    BY <1>3 DEF Exists
  <2>3. \A q \in Request, u \in TokenId : req'[q].child = u => Confirming(q)'
    BY <1>3 DEF DrawnOnce, Drawn, Confirming
  <2>. QED BY <2>1, <2>2, <2>3, DrawnFewer
<1> HIDE DEF Attempt
<1>4. CASE CreateStart(r)
  <2>1. PICK d \in TokenDevice, type \in Type, a \in Amount, e \in Expiry, t \in TokenId :
          /\ Fresh(t)
          /\ req' = [req EXCEPT ![r] = [Idle EXCEPT !.pc = "insert", !.act = "create",
                   !.dev = d, !.tid = t, !.row = NewRow(d, type, a, e), !.tries = Retries]]
    BY <1>4 DEF CreateStart
  <2>2. /\ NewRow(d, type, a, e).state = "OPEN"
        /\ NewRow(d, type, a, e).lock = NoDevice
        /\ NewRow(d, type, a, e).device = d
    BY DEF NewRow, NoRow
  <2>3. /\ req'[r].pc = "insert"
        /\ req'[r].tid = t
        /\ req'[r].child = NoToken
        /\ req'[r].dev = d
        /\ req'[r].act = "create"
        /\ req'[r].row = NewRow(d, type, a, e)
        /\ \A q \in Request \ {r} : req'[q] = req[q]
    BY <2>1, IdleType, IdleFields DEF Request_
  <2>4. UNCHANGED token /\ d \in Device /\ NoToken \notin TokenId
    BY <1>4 DEF CreateStart, ConstantsAssumption
  <2>5. Attempt(t)
    BY <2>2, <2>3, <2>4 DEF Attempt
  <2>. QED BY <1>1, <1>2, <2>1, <2>5
\* The catch of the loop.
<1>5. ASSUME Retry(r), UNCHANGED token, req[r].pc \in {"insert", "created"}
      PROVE  (\A q \in Request : PlacedRequest(q)' /\ Confirmation(q)') /\ DrawnOnce'
  <2>1. CASE Finish(r)
    BY <1>5, <2>1, FinishSteps
  <2>2. CASE ~Finish(r)
    <3>1. PICK t \in TokenId :
            /\ IF req[r].pc = "created" THEN Fresh(t) ELSE t = req[r].tid
            /\ req' = [req EXCEPT ![r] = [req[r] EXCEPT
                         !.pc = "insert", !.tid = t, !.row = EncodedAgain(req[r].row),
                         !.tries = req[r].tries - 1]]
      BY <1>5, <2>2 DEF Retry
    <3>2. /\ req'[r].pc = "insert"
          /\ req'[r].tid = t
          /\ req'[r].child = req[r].child
          /\ req'[r].dev = req[r].dev
          /\ req'[r].act = req[r].act
          /\ req'[r].row = EncodedAgain(req[r].row)
          /\ \A q \in Request \ {r} : req'[q] = req[q]
      BY <3>1 DEF Request_
    <3>3. req[r].child \notin TokenId
      BY <1>5 DEF DrawnOnce, Drawn, Confirming
    <3>4. /\ req[r].dev \in Device
          /\ req[r].act # "none"
          /\ req[r].row.state = "OPEN"
          /\ req[r].row.lock = NoDevice
          /\ req[r].row.device \in Device
      BY <1>5 DEF Placed, PlacedRequest
    <3>5. /\ EncodedAgain(req[r].row).state = req[r].row.state
          /\ EncodedAgain(req[r].row).lock = req[r].row.lock
          /\ EncodedAgain(req[r].row).device = req[r].row.device
      BY DEF EncodedAgain, Request_, Row
    <3>6. Attempt(t)
      BY <1>5, <3>2, <3>3, <3>4, <3>5 DEF Attempt
    <3>. QED BY <1>1, <1>2, <1>3, <1>5, <3>1, <3>6
  <2>. QED BY <2>1, <2>2
<1>6. CASE CreateInsert(r) /\ ~(Retry(r) /\ UNCHANGED token)
  <2>1. PICK c \in CodeChoice :
          /\ req[r].pc = "insert"
          /\ token' = [token EXCEPT ![req[r].tid] =
                         [req[r].row EXCEPT !.plain = c, !.created = now]]
          /\ Goto(r, "created")
    BY <1>6 DEF CreateInsert
  <2>2. /\ req'[r].pc = "created"
        /\ req'[r].tid = req[r].tid
        /\ req'[r].act = req[r].act
        /\ req'[r].dev = req[r].dev
        /\ req'[r].row = req[r].row
        /\ req'[r].child = req[r].child
        /\ \A q \in Request \ {r} : req'[q] = req[q]
    BY <2>1 DEF Goto, Request_
  <2>3. /\ req[r].dev \in Device
        /\ req[r].tid \in TokenId
        /\ req[r].act # "none"
        /\ req[r].row.state = "OPEN"
        /\ req[r].row.lock = NoDevice
        /\ req[r].row.device \in Device
        /\ req[r].row \in Row
    BY <2>1 DEF Placed, PlacedRequest, Request_
  <2>4. token'[req[r].tid].state = "OPEN"
    BY <2>1, <2>3 DEF Row
  <2>5. PlacedRequest(r)'
    BY <2>2, <2>3, <2>4 DEF PlacedRequest, Exists
  <2>6. req[r].child \notin TokenId
    BY <2>1 DEF DrawnOnce, Drawn, Confirming
  <2>7. \A u \in TokenId : Exists(u)' => Exists(u) \/ Drawn(r, u)
    BY <2>1 DEF Exists, Drawn
  <2>. QED BY <2>2, <2>5, <2>6, <2>7, StepAside
<1>7. CASE CreateReread(r)
  <2>1. Finish(r) /\ UNCHANGED token
    BY <1>7 DEF CreateReread
  <2>. QED BY <2>1, FinishSteps
<1>. QED BY <1>4, <1>5, <1>6, <1>7 DEF CreateInsert, CreateFails

\* The tail, clearing and failure.
LEMMA TailSteps ==
    ASSUME ConstantsAssumption, IInv, [Next]_vars, NEW r \in Request,
           Notify(r) \/ Reread(r) \/ AddClearing(r) \/ Abort(r)
    PROVE  (\A q \in Request : PlacedRequest(q)' /\ Confirmation(q)') /\ DrawnOnce'
<1> USE DEF IInv, TypeOK
<1>1. UNCHANGED token
  BY DEF Notify, Reread, AddClearing, Abort
<1>2. CASE Finish(r)
  BY <1>1, <1>2, FinishSteps
<1>3. CASE ~Finish(r)
  <2>1. PICK pc \in {"reread", "clear"} : req[r].pc \in {"notify", "reread"} /\ Goto(r, pc)
    BY <1>3 DEF Notify, Reread, AddClearing, Abort
  <2>2. /\ req'[r].pc = pc
        /\ req'[r].tid = req[r].tid
        /\ req'[r].act = req[r].act
        /\ req'[r].dev = req[r].dev
        /\ req'[r].child = req[r].child
        /\ \A q \in Request \ {r} : req'[q] = req[q]
    BY <2>1 DEF Goto, Request_
  <2>3. PlacedRequest(r)'
    BY <1>1, <2>1, <2>2 DEF PlacedRequest, Placed, Exists
  <2>4. req[r].child \notin TokenId
    BY <2>1 DEF DrawnOnce, Drawn, Confirming
  <2>5. \A u \in TokenId : Exists(u)' => Exists(u)
    BY <1>1 DEF Exists
  <2>. QED BY <2>1, <2>2, <2>3, <2>4, <2>5, StepAside
<1>. QED BY <1>2, <1>3

LEMMA ConfirmReadStep ==
    ASSUME ConstantsAssumption, IInv, [Next]_vars, NEW r \in Request, ConfirmRead(r)
    PROVE  (\A q \in Request : PlacedRequest(q)' /\ Confirmation(q)') /\ DrawnOnce'
<1> USE DEF IInv, TypeOK
<1>1. PICK t \in TokenId, d \in CashDevice, to \in Outcome, p \in Partial,
           child \in TokenId \cup {NoToken} :
        \E a \in Amount \cup {token[t].amount} :
          /\ Exists(t)
          /\ MayConfirm(token[t], d, a)
          /\ IF p /\ a < token[t].amount
             THEN child # NoToken /\ Fresh(child)
             ELSE child = NoToken
          /\ req' = [req EXCEPT ![r] = [Idle EXCEPT !.pc = "update", !.act = "confirm",
                   !.dev = d, !.tid = t, !.row = token[t], !.to = to, !.amt = a,
                   !.child = child]]
  BY DEF ConfirmRead
<1>2. PICK a \in Amount \cup {token[t].amount} :
          /\ Exists(t)
          /\ MayConfirm(token[t], d, a)
          /\ IF p /\ a < token[t].amount
             THEN child # NoToken /\ Fresh(child)
             ELSE child = NoToken
          /\ req' = [req EXCEPT ![r] = [Idle EXCEPT !.pc = "update", !.act = "confirm",
                   !.dev = d, !.tid = t, !.row = token[t], !.to = to, !.amt = a,
                   !.child = child]]
  BY <1>1
<1>3. /\ req'[r].pc = "update"
      /\ req'[r].act = "confirm"
      /\ req'[r].dev = d
      /\ req'[r].tid = t
      /\ req'[r].row = token[t]
      /\ req'[r].to = to
      /\ req'[r].amt = a
      /\ req'[r].child = child
      /\ \A q \in Request \ {r} : req'[q] = req[q]
  BY <1>2, IdleType DEF Request_
<1>4. /\ UNCHANGED token
      /\ d \in Device
      /\ to \in ConfirmStates
      /\ d # NoDevice
  BY DEF ConfirmRead, ConstantsAssumption, ConfirmStates
<1>5. token[t].lock = d /\ ~IsOpen(t)
  <2>1. token[t].lock = d
    BY <1>2 DEF MayConfirm
  <2>. QED BY <2>1, <1>4 DEF Placed, PlacedRow, IsOpen
<1>6. PlacedRequest(r)'
  BY <1>2, <1>3, <1>4 DEF PlacedRequest, Exists
<1>7. Confirmation(r)' /\ ~InTransaction(r)'
  BY <1>2, <1>3, <1>4, <1>5
  DEF Confirmation, Confirming, InTransaction, IsOpen, IsLocked, SameRow
<1>8. \A u \in TokenId : Drawn(r, u)' => Fresh(u)
  BY <1>2, <1>3, <1>4 DEF Drawn, ConstantsAssumption
<1>9. DrawnOnce'
  BY <1>3, <1>4, <1>8, DrawnFresh DEF Confirming
<1>. QED BY <1>3, <1>6, <1>7, <1>9, OthersHold

\* The steps inside the transaction keep what the request holds.
LEMMA TransactionStep ==
    ASSUME ConstantsAssumption, IInv, [Next]_vars, NEW r \in Request,
           ConfirmUpdate(r) \/ ConfirmRemainder(r)
    PROVE  (\A q \in Request : PlacedRequest(q)' /\ Confirmation(q)') /\ DrawnOnce'
<1> USE DEF IInv, TypeOK
<1> DEFINE t == req[r].tid
<1>1. UNCHANGED token
  BY DEF ConfirmUpdate, ConfirmRemainder
<1>2. CASE Finish(r)
  BY <1>1, <1>2, FinishSteps
<1>3. ASSUME ~Finish(r) PROVE Confirming(r) /\ req[r].pc # "commit"
  BY DEF ConfirmUpdate, ConfirmRemainder, Confirming
<1>4. /\ t \in TokenId
      /\ Exists(t) /\ ~IsOpen(t)
      /\ req[r].dev \in Device
      /\ req[r].act # "none"
      /\ token[t].lock = req[r].dev
      /\ req[r].to \in ConfirmStates
      /\ IsLocked(t) => SameRow(req[r].row, token[t])
      /\ req[r].child # NoToken => req[r].amt < req[r].row.amount
  BY
  DEF ConfirmUpdate, ConfirmRemainder, Confirming, Placed, PlacedRequest,
      Confirmations,
         Confirmation
\* Whatever the step, nothing is drawn and nothing inserted.
<1>5. ASSUME \A q \in Request \ {r} : req'[q] = req[q],
             req'[r].pc \in {"remainder", "commit"},
             req'[r].child = req[r].child,
             req'[r].tid = t
      PROVE  DrawnOnce'
  <2>1. \A q \in Request, u \in TokenId : Drawn(q, u)' => Drawn(q, u)
    BY <1>5 DEF Drawn
  <2>2. \A q \in Request, u \in TokenId : Drawn(q, u)' /\ Exists(u)' => Exists(u)
    BY <1>1 DEF Exists
  <2>3. \A q \in Request, u \in TokenId : req'[q].child = u => Confirming(q)'
    BY <1>5 DEF DrawnOnce, Drawn, Confirming
  <2>. QED BY <2>1, <2>2, <2>3, DrawnFewer
<1>6. CASE ConfirmUpdate(r) /\ ~Finish(r)
  <2>1. PICK pc \in {"remainder", "commit"} :
          /\ Goto(r, pc)
          /\ IsLocked(t)
          /\ ~RowLocked(t)
          /\ pc = "commit" <=> req[r].child = NoToken
    BY <1>6 DEF ConfirmUpdate
  <2>2. /\ req'[r].pc = pc
        /\ req'[r].tid = t
        /\ req'[r].act = req[r].act
        /\ req'[r].dev = req[r].dev
        /\ req'[r].to = req[r].to
        /\ req'[r].row = req[r].row
        /\ req'[r].amt = req[r].amt
        /\ req'[r].child = req[r].child
        /\ \A q \in Request \ {r} : req'[q] = req[q]
    BY <2>1 DEF Goto, Request_
  <2>3. PlacedRequest(r)'
    BY <1>1, <1>4, <2>2 DEF PlacedRequest, Exists
  <2>4. \A q \in Request \ {r} : InTransaction(q)' => req'[q].tid # t
    BY <2>1, <2>2 DEF RowLocked, InTransaction
  <2>5. Confirmation(r)'
    BY <1>1, <1>4, <2>1, <2>2, <2>4
    DEF Confirmation, Confirming, InTransaction, IsOpen, IsLocked, SameRow
  <2>6. \A q \in Request \ {r} : PlacedRequest(q)' /\ Confirmation(q)'
    BY <2>1, <2>2, OthersHold
  <2>. QED BY <1>5, <2>2, <2>3, <2>5, <2>6
<1>7. CASE ConfirmRemainder(r)
  <2> DEFINE row == RemainderRow(req[r].row, t, req[r].row.amount - req[r].amt)
  <2>1. /\ req[r].pc = "remainder"
        /\ req' = [req EXCEPT ![r] = [req[r] EXCEPT !.pc = "commit", !.row = row]]
    BY <1>7 DEF ConfirmRemainder
  <2>2. /\ req'[r].pc = "commit"
        /\ req'[r].tid = t
        /\ req'[r].act = req[r].act
        /\ req'[r].dev = req[r].dev
        /\ req'[r].to = req[r].to
        /\ req'[r].row = row
        /\ req'[r].amt = req[r].amt
        /\ req'[r].child = req[r].child
        /\ \A q \in Request \ {r} : req'[q] = req[q]
    BY <2>1 DEF Request_
  <2>3. /\ InTransaction(r) /\ IsLocked(t)
        /\ \A q \in Request \ {r} : InTransaction(q) => req[q].tid # t
        /\ req[r].child # NoToken
    BY <2>1 DEF Confirmations, Confirmation, Confirming, InTransaction
  <2>4. req[r].row \in Row /\ req[r].amt \in Int
    BY DEF Request_
  <2>5. /\ row.state = "OPEN"
        /\ row.lock = NoDevice
        /\ row.device = req[r].row.device
        /\ row.amount = req[r].row.amount - req[r].amt
    BY <2>4 DEF RemainderRow, Row
  <2> HIDE DEF row
  <2>6. /\ row.device \in Device
        /\ row.amount = token[t].amount - req[r].amt
        /\ req[r].amt < token[t].amount
    BY <1>4, <2>3, <2>5 DEF SameRow, Placed, PlacedRow
  <2>7. PlacedRequest(r)'
    BY <1>1, <1>4, <2>2 DEF PlacedRequest, Exists
  <2>8. Confirmation(r)'
    BY <1>1, <1>4, <2>2, <2>3, <2>5, <2>6
    DEF Confirmation, Confirming, InTransaction, IsOpen, IsLocked
  <2>9. \A q \in Request \ {r} : PlacedRequest(q)' /\ Confirmation(q)'
    BY <2>2, <2>3, OthersHold
  <2>. QED BY <1>5, <2>2, <2>7, <2>8, <2>9
<1>. QED BY <1>2, <1>6, <1>7

LEMMA CommitStep ==
    ASSUME ConstantsAssumption, IInv, [Next]_vars, NEW r \in Request, ConfirmCommit(r)
    PROVE  (\A q \in Request : PlacedRequest(q)' /\ Confirmation(q)') /\ DrawnOnce'
<1> USE DEF IInv, TypeOK
<1>1. /\ req'[r].pc = "notify"
      /\ req'[r].tid = req[r].tid
      /\ req'[r].act = req[r].act
      /\ req'[r].dev = req[r].dev
      /\ req'[r].child = NoToken
      /\ \A q \in Request \ {r} : req'[q] = req[q]
  BY DEF ConfirmCommit, Request_
<1>2. /\ req[r].tid \in TokenId
      /\ Exists(req[r].tid)
      /\ req[r].dev \in Device
      /\ req[r].act # "none"
  BY DEF ConfirmCommit, Placed, PlacedRequest
<1>3. token'[req[r].tid].state # "NONE"
  BY <1>2, RowSteps DEF RowStep
<1>4. PlacedRequest(r)'
  BY <1>1, <1>2, <1>3 DEF PlacedRequest, Exists
<1>5. \A u \in TokenId : Exists(u)' => Exists(u) \/ Drawn(r, u)
  BY <1>2 DEF ConfirmCommit, Exists, Drawn
<1>. QED BY <1>1, <1>4, <1>5, StepAside DEF ConstantsAssumption

-----------------------------------------------------------------------------
(* The invariant is inductive. *)

LEMMA RequestSteps ==
    ASSUME ConstantsAssumption, IInv, [Next]_vars
    PROVE  (\A q \in Request : PlacedRequest(q)' /\ Confirmation(q)') /\ DrawnOnce'
<1>1. CASE UNCHANGED <<req, token>>
  BY <1>1 DEF IInv, Placed, PlacedRequest, Confirmations, Confirmation, Confirming,
     DrawnOnce, Drawn, InTransaction, Exists, IsOpen, IsLocked, SameRow
<1>. QED
  BY <1>1, OwnerSteps, ClaimSteps, CreateSteps, ConfirmReadStep, TransactionStep,
     CommitStep, TailSteps
  DEF Next, Start, Continue, Fail, Tick, vars

LEMMA Inductive == ConstantsAssumption /\ IInv /\ [Next]_vars => IInv'
<1> SUFFICES ASSUME ConstantsAssumption, IInv, [Next]_vars PROVE IInv'
  OBVIOUS
<1>1. \A t \in TokenId : PlacedRow(t)'
  BY RowSteps DEF RowStep, PlacedRow, Exists, IsOpen
<1>. QED BY <1>1, TypeStep, RequestSteps DEF IInv, Placed, Confirmations

-----------------------------------------------------------------------------
(* The theorems. *)

(* The invariant holds in every reachable state: what a request remembers  *)
(* of its token across its awaits is true of the table (token.ts 160-190). *)
THEOREM Invariance == Spec => []IInv
<1>1. Init => IInv
  BY ConstantsAssumption, InitHolds
<1>2. IInv /\ [Next]_vars => IInv'
  BY ConstantsAssumption, Inductive
<1>. QED BY <1>1, <1>2, PTL DEF Spec

(* Every variable keeps its type. *)
THEOREM TypeCorrect == Spec => []TypeOK
<1>1. IInv => TypeOK
  BY DEF IInv
<1>. QED BY <1>1, Invariance, PTL

(* The row read before the transaction is current when the remainder is    *)
(* copied from it (token.ts 164, 186, 206).                                *)
THEOREM ReadIsCurrent == Spec => []ReadStillCurrent
<1>1. IInv => ReadStillCurrent
  BY DEF IInv, ReadStillCurrent, Confirmations, Confirmation, Confirming, InTransaction
<1>. QED BY <1>1, Invariance, PTL

(* A confirmation is committed for the device that holds the token, for    *)
(* every number of devices and requests (token.ts 167, 178).               *)
THEOREM OnlyHolderConfirms == Spec => HolderConfirms
<1> DEFINE A == \A r \in Request :
                  req[r].pc = "commit" /\ req'[r].pc = "notify" =>
                    token[req[r].tid].lock = req[r].dev
<1>1. IInv /\ [Next]_vars => [A]_vars
  BY DEF IInv, Confirmations, Confirmation, Confirming
<1>. QED BY <1>1, Invariance, PTL DEF Spec, HolderConfirms
-----------------------------------------------------------------------------
(***************************************************************************)
(* Token implements TokenLifecycle: Init maps to Init, and every step to   *)
(* one of its steps or a stutter.                                          *)
(***************************************************************************)

\* The variables of the abstract specification.
stage_ == [t \in TokenId |-> token[t].state]
holder_ == [t \in TokenId |-> token[t].lock]
worth_ == [t \in TokenId |-> token[t].amount]
settled_ == [t \in TokenId |-> clearing[t] # NoClearing]
vars_ == <<stage_, holder_, worth_, settled_>>

-----------------------------------------------------------------------------
\* Columns of the rows that the actions write.
LEMMA ClosedColumns ==
    ASSUME NEW row \in Row, NEW s \in State
    PROVE  /\ Closed(row, s).state = s
           /\ Closed(row, s).lock = row.lock
           /\ Closed(row, s).amount = row.amount
BY DEF Closed, Row

LEMMA LockedColumns ==
    ASSUME NEW row \in Row, NEW s \in State, NEW d \in Device
    PROVE  /\ LockedRow(row, d, s).state = s
           /\ LockedRow(row, d, s).lock = d
           /\ LockedRow(row, d, s).amount = row.amount
BY DEF LockedRow, Closed, Row

LEMMA ConfirmedColumns ==
    ASSUME NEW row \in Row, NEW s \in State, NEW a \in Int
    PROVE  /\ ConfirmedRow(row, s, a).state = s
           /\ ConfirmedRow(row, s, a).lock = row.lock
           /\ ConfirmedRow(row, s, a).amount = a
BY DEF ConfirmedRow, Closed, Row

-----------------------------------------------------------------------------
LEMMA InitRefines == ConstantsAssumption /\ Init => Lifecycle!Init
<1> SUFFICES ASSUME Init PROVE Lifecycle!Init
  OBVIOUS
<1>1. \A t \in TokenId : /\ token[t].state = "NONE"
                         /\ token[t].lock = NoDevice
                         /\ token[t].amount = 0
                         /\ clearing[t] = NoClearing
  BY DEF Init, NoRow
<1>. QED BY <1>1 DEF Lifecycle!Init

\* The steps that leave both tables alone.
LEMMA StutterRefines ==
    ASSUME UNCHANGED <<token, clearing>>
    PROVE  UNCHANGED vars_
BY DEF vars_, stage_, holder_, worth_, settled_

LEMMA ClaimIsNext ==
    ASSUME NEW t \in TokenId, NEW d \in Device, NEW s \in {"LOCKED", "REJECTED"},
           Lifecycle!Claim(t, d, s)
    PROVE  Lifecycle!Next
BY Zenon DEF Lifecycle!Next

LEMMA ConfirmIsNext ==
    ASSUME NEW t \in TokenId, NEW s \in ConfirmStates
    PROVE  /\ Lifecycle!Confirm(t, s) => Lifecycle!Next
           /\ \A rest \in TokenId : Lifecycle!ConfirmPart(t, s, rest) => Lifecycle!Next
<1>1. s \in Lifecycle!Final
  BY DEF ConfirmStates, Lifecycle!Final
<1>2. ASSUME Lifecycle!Confirm(t, s) PROVE Lifecycle!Next
  BY <1>1, <1>2, Zenon DEF Lifecycle!Next
<1>3. ASSUME NEW rest \in TokenId, Lifecycle!ConfirmPart(t, s, rest)
      PROVE  Lifecycle!Next
  BY <1>1, <1>3, Zenon DEF Lifecycle!Next
<1>. QED BY <1>2, <1>3

LEMMA DeleteRefines ==
    ASSUME IInv, NEW r \in Request, Delete(r)
    PROVE  Lifecycle!Next
<1> USE DEF IInv, TypeOK
<1>1. PICK t \in TokenId :
        IsOpen(t) /\ token' = [token EXCEPT ![t] = Closed(token[t], "DELETED")]
  BY DEF Delete
<1>2. /\ Closed(token[t], "DELETED").state = "DELETED"
      /\ Closed(token[t], "DELETED").lock = token[t].lock
      /\ Closed(token[t], "DELETED").amount = token[t].amount
  BY ClosedColumns DEF State
<1>3. clearing' = clearing
  BY DEF Delete
<1>4. Lifecycle!Withdraw({t}, "DELETED")
  BY <1>1, <1>2, <1>3 DEF Lifecycle!Withdraw, IsOpen
<1>. QED BY <1>4 DEF Lifecycle!Next

LEMMA UpdateRefines ==
    ASSUME IInv, NEW r \in Request, Update(r)
    PROVE  UNCHANGED vars_
<1> USE DEF IInv, TypeOK
<1>1. PICK u \in TokenId, s \in ClearState, info \in BOOLEAN :
        token' = [token EXCEPT ![u] = UpdatedRow(token[u], s, info)]
  BY DEF Update
<1>2. \A t \in TokenId : /\ token'[t].state = token[t].state
                         /\ token'[t].lock = token[t].lock
                         /\ token'[t].amount = token[t].amount
  BY <1>1, UpdatedColumns DEF SameRow
<1>3. clearing' = clearing
  BY DEF Update
<1>. QED BY <1>2, <1>3 DEF vars_, stage_, holder_, worth_, settled_

LEMMA ExpireRefines ==
    ASSUME IInv, NEW r \in Request, ClaimExpire(r)
    PROVE  Lifecycle!Next
<1> USE DEF IInv, TypeOK
<1> DEFINE S == {t \in TokenId : IsExpired(t)}
<1>1. \A t \in TokenId : token'[t] = IF t \in S THEN Closed(token[t], "EXPIRED")
                                               ELSE token[t]
  BY DEF ClaimExpire
<1>2. \A t \in TokenId : /\ Closed(token[t], "EXPIRED").state = "EXPIRED"
                         /\ Closed(token[t], "EXPIRED").lock = token[t].lock
                         /\ Closed(token[t], "EXPIRED").amount = token[t].amount
  BY ClosedColumns DEF State
<1>3. clearing' = clearing
  BY DEF ClaimExpire
<1>4. S \in SUBSET TokenId /\ \A t \in S : token[t].state = "OPEN"
  BY DEF IsExpired, IsOpen
<1>5. Lifecycle!Withdraw(S, "EXPIRED")
  BY <1>1, <1>2, <1>3, <1>4 DEF Lifecycle!Withdraw
<1>. QED BY <1>4, <1>5 DEF Lifecycle!Next

LEMMA InsertRefines ==
    ASSUME IInv, NEW r \in Request, CreateInsert(r)
    PROVE  Lifecycle!Next \/ UNCHANGED vars_
<1> USE DEF IInv, TypeOK
<1>1. clearing' = clearing
  BY DEF CreateInsert
<1>2. CASE UNCHANGED token
  BY <1>1, <1>2, StutterRefines
<1>3. CASE ~UNCHANGED token
  <2>. PICK t \in TokenId : t = req[r].tid
    BY DEF CreateInsert, Placed, PlacedRequest
  <2>1. PICK c \in CodeChoice :
          token' = [token EXCEPT ![t] = [req[r].row EXCEPT !.plain = c, !.created = now]]
    BY <1>3 DEF CreateInsert
  <2>2. /\ ~Exists(t)
        /\ req[r].row \in Row
        /\ req[r].row.state = "OPEN"
        /\ req[r].row.lock = NoDevice
    BY DEF CreateInsert, Placed, PlacedRequest, DrawnOnce, Drawn, Request_
  <2>3. token[t].state = "NONE" /\ token[t].lock = NoDevice
    BY <2>2 DEF Exists, Placed, PlacedRow
  <2>4. /\ token'[t].state = "OPEN"
        /\ token'[t].lock = NoDevice
        /\ token'[t].amount \in Int
        /\ \A u \in TokenId \ {t} : token'[u] = token[u]
    BY <2>1, <2>2 DEF Row
  <2>5. \A u \in TokenId : token'[u].amount \in Int
    BY <2>4 DEF Row
  <2>6. Lifecycle!Issue(t)
    BY <1>1, <2>2, <2>3, <2>4, <2>5 DEF Lifecycle!Issue
  <2>. QED BY <2>6 DEF Lifecycle!Next
<1>. QED BY <1>2, <1>3

LEMMA LockRefines ==
    ASSUME IInv, NEW r \in Request, ClaimLock(r)
    PROVE  Lifecycle!Next \/ UNCHANGED vars_
<1> USE DEF IInv, TypeOK
<1>1. clearing' = clearing
  BY DEF ClaimLock
<1>2. CASE UNCHANGED token
  BY <1>1, <1>2, StutterRefines
<1>3. CASE ~UNCHANGED token
  <2>. PICK t \in TokenId, d \in Device, s \in {"LOCKED", "REJECTED"} :
         t = req[r].tid /\ d = req[r].dev /\ s = req[r].to
    BY DEF ClaimLock, Placed, PlacedRequest
  <2>1. /\ IsOpen(t)
        /\ token' = [token EXCEPT ![t] = LockedRow(token[t], d, s)]
    BY <1>3 DEF ClaimLock
  <2>2. /\ LockedRow(token[t], d, s).state = s
        /\ LockedRow(token[t], d, s).lock = d
        /\ LockedRow(token[t], d, s).amount = token[t].amount
    BY LockedColumns DEF State, ConfirmStates
  <2>3. Lifecycle!Claim(t, d, s)
    BY <1>1, <2>1, <2>2 DEF Lifecycle!Claim, IsOpen
  <2>. QED BY <2>3, ClaimIsNext
<1>. QED BY <1>2, <1>3

\* The confirmation, told row by row.
LEMMA ConfirmFrom ==
    ASSUME NEW t \in TokenId, NEW s,
           token[t].state = "LOCKED",
           token'[t].state = s,
           token'[t].lock = token[t].lock,
           \A u \in TokenId \ {t} : token'[u] = token[u],
           \A u \in TokenId : token'[u].amount \in Int,
           clearing' = clearing
    PROVE  Lifecycle!Confirm(t, s)
<1>1. holder_' = holder_
  BY DEF holder_
<1>2. settled_' = settled_
  BY DEF settled_
<1>3. stage_[t] = "LOCKED" /\ stage_' = [stage_ EXCEPT ![t] = s]
  BY DEF stage_
<1>4. /\ worth_' \in [TokenId -> Int]
      /\ \A u \in TokenId \ {t} : worth_'[u] = worth_[u]
  BY DEF worth_
<1>. QED
  BY <1>1, <1>2, <1>3, <1>4 DEF Lifecycle!Confirm, stage_, holder_, worth_, settled_

LEMMA ConfirmPartFrom ==
    ASSUME NEW t \in TokenId, NEW s, NEW rest \in TokenId, rest # t,
           token[t].state = "LOCKED",
           token[rest].state = "NONE",
           token'[t].state = s,
           token'[rest].state = "OPEN",
           token'[t].lock = token[t].lock,
           token'[rest].lock = token[rest].lock,
           \A u \in TokenId \ {t, rest} : token'[u] = token[u],
           \A u \in TokenId : token'[u].amount \in Int,
           token'[rest].amount > 0,
           token'[t].amount + token'[rest].amount = token[t].amount,
           clearing' = clearing
    PROVE  Lifecycle!ConfirmPart(t, s, rest)
<1>1. holder_' = holder_
  BY DEF holder_
<1>2. settled_' = settled_
  BY DEF settled_
<1>3. /\ stage_[t] = "LOCKED"
      /\ stage_[rest] = "NONE"
      /\ stage_' = [stage_ EXCEPT ![t] = s, ![rest] = "OPEN"]
  BY DEF stage_
<1>4. /\ worth_' \in [TokenId -> Int]
      /\ worth_'[rest] > 0
      /\ worth_'[t] + worth_'[rest] = worth_[t]
      /\ \A u \in TokenId \ {t, rest} : worth_'[u] = worth_[u]
  BY DEF worth_
<1>. QED
  BY <1>1, <1>2, <1>3, <1>4 DEF Lifecycle!ConfirmPart, stage_, holder_, worth_, settled_

LEMMA CommitRefines ==
    ASSUME ConstantsAssumption, IInv, NEW r \in Request, ConfirmCommit(r)
    PROVE  Lifecycle!Next
<1> USE DEF IInv, TypeOK
<1>. PICK t \in TokenId, s \in ConfirmStates : t = req[r].tid /\ s = req[r].to
  BY DEF ConfirmCommit, Placed, PlacedRequest, Confirmations, Confirmation, Confirming
<1> DEFINE c == req[r].child
<1>1. clearing' = clearing
  BY DEF ConfirmCommit
<1>2. /\ InTransaction(r) /\ Confirming(r) /\ IsLocked(t)
      /\ req[r].amt \in Int
  BY DEF ConfirmCommit, InTransaction, Confirmations, Confirmation, Confirming, Request_
<1>3. /\ token[t].state = "LOCKED"
      /\ token'[t] = ConfirmedRow(token[t], s, req[r].amt)
      /\ \A u \in TokenId \ {t, c} : token'[u] = token[u]
      /\ c # t => \A u \in TokenId : u = c => token'[u] = req[r].row
  BY <1>2 DEF ConfirmCommit, IsLocked
<1>4. /\ token'[t].state = s
      /\ token'[t].lock = token[t].lock
      /\ token'[t].amount = req[r].amt
  <2>1. token[t] \in Row /\ s \in State
    BY DEF State
  <2>. QED BY <1>2, <1>3, <2>1, ConfirmedColumns
<1>6. CASE c = NoToken
  <2>1. c \notin TokenId
    BY <1>6 DEF ConstantsAssumption
  <2>2. \A u \in TokenId : token'[u].amount \in Int
    BY <1>2, <1>3, <1>4, <2>1 DEF Row
  <2>3. \A u \in TokenId \ {t} : token'[u] = token[u]
    BY <1>3, <2>1
  <2>4. Lifecycle!Confirm(t, s)
    BY <1>1, <1>3, <1>4, <2>2, <2>3, ConfirmFrom
  <2>. QED BY <2>4, ConfirmIsNext
<1>7. CASE c # NoToken
  <2>. PICK rest \in TokenId : rest = c
    BY <1>7 DEF Request_
  <2>1. token[rest].state = "NONE" /\ token[rest].lock = NoDevice
    BY DEF DrawnOnce, Drawn, Exists, Placed, PlacedRow
  <2>2. rest # t
    BY <1>3, <2>1
  <2>3. /\ req[r].row.state = "OPEN"
        /\ req[r].row.lock = NoDevice
        /\ req[r].row.amount = token[t].amount - req[r].amt
        /\ req[r].amt < token[t].amount
    BY <1>2, <1>7 DEF ConfirmCommit, Confirmations, Confirmation
  <2>4. /\ token'[rest].state = "OPEN"
        /\ token'[rest].lock = NoDevice
        /\ token'[rest].amount = token[t].amount - req[r].amt
    BY <1>3, <2>2, <2>3
  <2>5. token[t].amount \in Int
    BY DEF Row
  <2>6. \A u \in TokenId \ {t, rest} : token'[u].amount \in Int
    BY <1>3 DEF Row
  <2>7. \A u \in TokenId : token'[u].amount \in Int
    BY <1>2, <1>4, <2>4, <2>5, <2>6
  <2>8. /\ token'[rest].amount > 0
        /\ token'[t].amount + token'[rest].amount = token[t].amount
    BY <1>2, <1>4, <2>3, <2>4, <2>5
  <2>9. Lifecycle!ConfirmPart(t, s, rest)
    BY <1>1, <1>3, <1>4, <2>1, <2>2, <2>4, <2>7, <2>8, ConfirmPartFrom
  <2>. QED BY <2>9, ConfirmIsNext
<1>. QED BY <1>6, <1>7

LEMMA ClearingRefines ==
    ASSUME IInv, NEW r \in Request, AddClearing(r)
    PROVE  Lifecycle!Next \/ UNCHANGED vars_
<1> USE DEF IInv, TypeOK
<1>1. token' = token
  BY DEF AddClearing
<1>2. CASE UNCHANGED clearing
  BY <1>1, <1>2, StutterRefines
<1>3. CASE ~UNCHANGED clearing
  <2>. PICK t \in TokenId : t = req[r].tid
    BY DEF AddClearing, Placed, PlacedRequest
  <2> DEFINE row == Settlement(t, DeviceCustomer[req[r].dev])
  <2>1. clearing[t] = NoClearing /\ clearing' = [clearing EXCEPT ![t] = row]
    BY <1>3 DEF AddClearing
  <2>2. row # NoClearing
    BY <1>3, <2>1
  <2>3. token[t].state = "COMPLETED"
    BY <2>2 DEF Settlement
  <2> HIDE DEF row
  <2>4. Lifecycle!Settle(t)
    BY <1>1, <2>1, <2>2, <2>3 DEF Lifecycle!Settle
  <2>. QED BY <2>4 DEF Lifecycle!Next
<1>. QED BY <1>2, <1>3

-----------------------------------------------------------------------------
LEMMA StepRefines ==
    ConstantsAssumption /\ IInv /\ [Next]_vars => Lifecycle!Next \/ UNCHANGED vars_
<1> SUFFICES ASSUME ConstantsAssumption, IInv, [Next]_vars
             PROVE  Lifecycle!Next \/ UNCHANGED vars_
  OBVIOUS
<1>1. CASE UNCHANGED <<token, clearing>>
  BY <1>1, StutterRefines
<1>2. CASE ~UNCHANGED <<token, clearing>>
  <2>1. PICK r \in Request :
          \/ Delete(r) \/ Update(r) \/ ClaimExpire(r) \/ CreateInsert(r)
          \/ ClaimLock(r) \/ ConfirmCommit(r) \/ AddClearing(r)
    BY <1>2 DEF Next, Start, Continue, Fail, Tick, vars, CreateStart, ConfirmRead,
       CreateReread, CreateFails, ClaimFind, ConfirmUpdate, ConfirmRemainder,
       Notify, Reread, Abort
  <2>. QED
    BY <2>1, DeleteRefines, UpdateRefines, ExpireRefines, InsertRefines, LockRefines,
       CommitRefines, ClearingRefines
<1>. QED BY <1>1, <1>2

(* The token table, worked on by any number of requests that interleave at *)
(* statement granularity, crash and fail, keeps the promise of the token   *)
(* API: claims, confirmations with their remainder and settlements appear  *)
(* as the atomic steps of TokenLifecycle (token.ts 107-199, 236-311).      *)
THEOREM ImplementsLifecycle == Spec => LifecycleSpec
<1>1. Init => Lifecycle!Init
  BY ConstantsAssumption, InitRefines
<1>2. IInv /\ [Next]_vars => [Lifecycle!Next]_vars_
  BY ConstantsAssumption, StepRefines
<1>. QED
  BY <1>1, <1>2, Invariance, PTL
  DEF Spec, LifecycleSpec, Lifecycle!Spec, vars_, stage_, holder_, worth_, settled_
=============================================================================
