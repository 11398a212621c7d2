------------------------ MODULE TokenOutcomeProofs ------------------------
(***************************************************************************)
(* What the requests of Token tell, settle and journalize is right, for    *)
(* every number of requests, tokens, devices and customers.                *)
(*                                                                         *)
(* IInv of TokenProofs is strengthened in four steps, each an inductive    *)
(* invariant of TokenInvariant: RInv (codes, deeds and what a request will *)
(* report), AInv (amounts of partial cashouts), JInv (whom a request tells *)
(* and what the journal is told), EInv (what a claim may still find).  The    *)
(* statistics are right by RInv and what is proved of sums at the end.     *)
(***************************************************************************)
EXTENDS TokenProofs, Reports, FiniteSetTheorems

-----------------------------------------------------------------------------
(* Codes, deeds and reports: what one step does to the row of a token. *)

RowFate(t) ==
    /\ Exists(t) => /\ token'[t].type = token[t].type
                    /\ token'[t].expires = token[t].expires
                    /\ token'[t].from = token[t].from
    /\ Ended(t) => /\ token'[t].state = token[t].state
                   /\ token'[t].amount = token[t].amount
    /\ IsLocked(t) => token'[t].state \in {"LOCKED"} \cup ConfirmStates
    /\ token'[t].secret <=> Live(t)'
    /\ token'[t].plain # NoCode => Live(t)'

LEMMA FateUnchanged ==
    ASSUME NEW t \in TokenId, CodeOfRow(t), token'[t] = token[t]
    PROVE  RowFate(t)
BY DEF RowFate, CodeOfRow, Live, Ended, IsLocked

\* A row that is closed while it is live.
LEMMA FateClosed ==
    ASSUME TypeOK, NEW t \in TokenId, NEW s \in State, s \notin {"NONE", "OPEN", "LOCKED"},
           Live(t), IsLocked(t) => s \in ConfirmStates,
           \/ token'[t] = Closed(token[t], s)
           \/ \E d \in Device : token'[t] = [Closed(token[t], s) EXCEPT !.lock = d]
           \/ \E a \in Int : token'[t] = [Closed(token[t], s) EXCEPT !.amount = a]
    PROVE  /\ RowFate(t)
           /\ token'[t].state = s
           /\ token'[t].plain = NoCode
<1>1. token[t] \in Row
  BY DEF TypeOK
<1>2. /\ token'[t].state = s
      /\ token'[t].type = token[t].type
      /\ token'[t].expires = token[t].expires
      /\ token'[t].from = token[t].from
      /\ token'[t].plain = NoCode
      /\ token'[t].secret = FALSE
  BY <1>1 DEF Closed, Row
<1>. QED BY <1>2 DEF RowFate, Live, Ended, Exists, IsLocked

LEMMA RowFates ==
    ASSUME ConstantsAssumption, IInv, Codes, [Next]_vars, NEW t \in TokenId
    PROVE  RowFate(t)
<1> USE DEF IInv, TypeOK, Codes
<1>1. ASSUME NEW r \in Request, Delete(r) PROVE RowFate(t)
  <2>1. PICK u \in TokenId :
          IsOpen(u) /\ token' = [token EXCEPT ![u] = Closed(@, "DELETED")]
    BY <1>1 DEF Delete
  <2>2. CASE u = t
    <3>1. Live(t) /\ ~IsLocked(t) /\ token'[t] = Closed(token[t], "DELETED")
      BY <2>1, <2>2 DEF IsOpen, IsLocked, Live
    <3>. QED BY <3>1, FateClosed DEF State
  <2>3. CASE u # t
    BY <2>1, <2>3, FateUnchanged
  <2>. QED BY <2>2, <2>3
<1>2. ASSUME NEW r \in Request, Update(r) PROVE RowFate(t)
  <2>1. PICK u \in TokenId, s \in ClearState, info \in BOOLEAN :
          token' = [token EXCEPT ![u] = UpdatedRow(token[u], s, info)]
    BY <1>2 DEF Update
  <2>2. SameRow(token[t], token'[t])
    BY <2>1, UpdatedColumns DEF SameRow
  <2>. QED BY <2>2 DEF RowFate, CodeOfRow, Live, Ended, IsLocked, Exists, SameRow
<1>3. ASSUME NEW r \in Request, ClaimExpire(r) PROVE RowFate(t)
  <2>1. CASE IsExpired(t)
    <3>1. Live(t) /\ ~IsLocked(t) /\ token'[t] = Closed(token[t], "EXPIRED")
      BY <1>3, <2>1 DEF ClaimExpire, IsExpired, IsOpen, IsLocked, Live
    <3>. QED BY <3>1, FateClosed DEF State
  <2>2. CASE ~IsExpired(t)
    BY <1>3, <2>2, FateUnchanged DEF ClaimExpire
  <2>. QED BY <2>1, <2>2
<1>4. ASSUME NEW r \in Request, CreateInsert(r) PROVE RowFate(t)
  <2>1. CASE token'[t] = token[t]
    BY <2>1, FateUnchanged
  <2>2. CASE token'[t] # token[t]
    <3>1. PICK c \in CodeChoice :
            /\ req[r].tid = t
            /\ token'[t] = [req[r].row EXCEPT !.plain = c, !.created = now]
      BY <1>4, <2>2 DEF CreateInsert
    <3>2. /\ ~Exists(t)
          /\ req[r].row \in Row
          /\ req[r].row.state = "OPEN"
          /\ req[r].row.secret
      BY <1>4, <3>1
      DEF CreateInsert, Placed, PlacedRequest, DrawnOnce, Drawn, Request_, CodeOfRequest
    <3>3. /\ token'[t].state = "OPEN"
          /\ token'[t].secret
      BY <3>1, <3>2 DEF Row
    <3>. QED BY <3>2, <3>3 DEF RowFate, Live, Ended, IsLocked, Exists
  <2>. QED BY <2>1, <2>2
<1>5. ASSUME NEW r \in Request, ClaimLock(r) PROVE RowFate(t)
  <2>1. CASE token'[t] = token[t]
    BY <2>1, FateUnchanged
  <2>2. CASE token'[t] # token[t]
    <3>1. /\ req[r].tid = t
          /\ IsOpen(t)
          /\ token'[t] = LockedRow(token[t], req[r].dev, req[r].to)
      BY <1>5, <2>2 DEF ClaimLock
    <3>2. req[r].to \in {"LOCKED", "REJECTED"} /\ req[r].dev \in Device
      BY <1>5 DEF ClaimLock, Placed, PlacedRequest
    <3>3. Live(t) /\ ~IsLocked(t) /\ CodeOfRow(t) /\ Exists(t)
      BY <3>1 DEF Live, IsOpen, IsLocked, Exists
    <3>4. CASE req[r].to = "LOCKED"
      <4>1. token'[t] = [[token[t] EXCEPT !.state = "LOCKED"] EXCEPT !.lock = req[r].dev]
        BY <3>1, <3>4 DEF LockedRow
      <4>2. token[t] \in Row
        OBVIOUS
      <4>3. /\ token'[t].state = "LOCKED"
            /\ token'[t].secret = token[t].secret
            /\ token'[t].type = token[t].type
            /\ token'[t].expires = token[t].expires
            /\ token'[t].from = token[t].from
        BY <4>1, <4>2 DEF Row
      <4>. QED BY <3>3, <4>3 DEF RowFate, Live, Ended, CodeOfRow
    <3>5. CASE req[r].to = "REJECTED"
      <4>1. token'[t] = [Closed(token[t], "REJECTED") EXCEPT !.lock = req[r].dev]
        BY <3>1, <3>5 DEF LockedRow
      <4>. QED BY <3>2, <3>3, <4>1, FateClosed DEF State, ConfirmStates
    <3>. QED BY <3>2, <3>4, <3>5
  <2>. QED BY <2>1, <2>2
<1>6. ASSUME NEW r \in Request, ConfirmCommit(r) PROVE RowFate(t)
  <2>1. /\ Confirming(r) /\ InTransaction(r) /\ req[r].pc = "commit"
        /\ IsLocked(req[r].tid)
        /\ req[r].to \in ConfirmStates
        /\ req[r].tid \in TokenId
        /\ req[r].amt \in Int
    BY <1>6
    DEF ConfirmCommit, Confirmations, Confirmation, Confirming, InTransaction, Placed,
        PlacedRequest, Request_
  <2>2. CASE t = req[r].tid
    <3>1. token'[t] = [Closed(token[t], req[r].to) EXCEPT !.amount = req[r].amt]
      BY <1>6, <2>2 DEF ConfirmCommit, ConfirmedRow
    <3>2. /\ req[r].to \in State
          /\ req[r].to \notin {"NONE", "OPEN", "LOCKED"}
          /\ Live(t)
      BY <2>1, <2>2 DEF State, ConfirmStates, Live, IsLocked
    <3>. QED BY <2>1, <3>1, <3>2, FateClosed
  <2>3. CASE t # req[r].tid /\ t = req[r].child
    <3>1. token'[t] = req[r].row
      BY <1>6, <2>3 DEF ConfirmCommit
    <3>2. t # NoToken
      BY DEF ConstantsAssumption
    <3>3. ~Exists(t)
      <4>1. Drawn(r, t)
        BY <2>3 DEF Drawn
      <4>. QED BY <4>1 DEF DrawnOnce
    <3>4. req[r].row.state = "OPEN"
      BY <2>1, <2>3, <3>2 DEF Confirmations, Confirmation
    <3>5. req[r].row.secret
      BY <2>1, <2>3, <3>2 DEF CodeOfRequest
    <3>. QED BY <3>1, <3>3, <3>4, <3>5 DEF RowFate, Live, Ended, IsLocked, Exists
  <2>4. CASE t # req[r].tid /\ t # req[r].child
    BY <1>6, <2>4, FateUnchanged DEF ConfirmCommit
  <2>. QED BY <2>2, <2>3, <2>4
<1>7. CASE UNCHANGED token
  BY <1>7, FateUnchanged
<1>. QED
  BY <1>1, <1>2, <1>3, <1>4, <1>5, <1>6, <1>7
  DEF Next, Start, Continue, Fail, vars, Tick, CreateStart, ConfirmRead, CreateReread,
      CreateFails, ClaimFind, ConfirmUpdate, ConfirmRemainder, Notify, Reread,
      AddClearing, Abort

-----------------------------------------------------------------------------
(* A plain code leads to one token. *)

OneCode == \A t \in TokenId, u \in TokenId :
             t # u /\ token[t].plain # NoCode => token[u].plain # token[t].plain

LEMMA FewerCodes ==
    ASSUME OneCode, \A t \in TokenId : token'[t].plain \in {token[t].plain, NoCode}
    PROVE  OneCode'
BY DEF OneCode

LEMMA CodesUnique ==
    ASSUME ConstantsAssumption, IInv, Codes, [Next]_vars
    PROVE  OneCode'
<1> USE DEF IInv, TypeOK
<1>0. OneCode
  BY DEF OneCode, Codes, CodeOfRow
<1>c. ASSUME NEW row \in Row, NEW s \in State, NEW d \in Device, NEW n \in Int
      PROVE  /\ Closed(row, s).plain = NoCode
             /\ LockedRow(row, d, s).plain \in {row.plain, NoCode}
             /\ ConfirmedRow(row, s, n).plain = NoCode
  BY DEF Closed, LockedRow, ConfirmedRow, Row
<1>1. ASSUME NEW r \in Request, Delete(r) PROVE OneCode'
  <2>1. PICK u \in TokenId : token' = [token EXCEPT ![u] = Closed(@, "DELETED")]
    BY <1>1 DEF Delete
  <2>2. Closed(token[u], "DELETED").plain = NoCode
    BY DEF Closed, Row
  <2>3. \A t \in TokenId : token'[t].plain \in {token[t].plain, NoCode}
    BY <2>1, <2>2
  <2>. QED BY <1>0, <2>3, FewerCodes
<1>2. ASSUME NEW r \in Request, Update(r) PROVE OneCode'
  <2>1. PICK u \in TokenId, s \in ClearState, info \in BOOLEAN :
          token' = [token EXCEPT ![u] = UpdatedRow(token[u], s, info)]
    BY <1>2 DEF Update
  <2>2. \A t \in TokenId : token'[t].plain = token[t].plain
    BY <2>1, UpdatedColumns DEF SameRow
  <2>. QED BY <1>0, <2>2, FewerCodes
<1>3. ASSUME NEW r \in Request, ClaimExpire(r) PROVE OneCode'
  <2>1. \A t \in TokenId : Closed(token[t], "EXPIRED").plain = NoCode
    BY DEF Closed, Row
  <2>2. \A t \in TokenId : token'[t].plain \in {token[t].plain, NoCode}
    BY <1>3, <2>1 DEF ClaimExpire
  <2>. QED BY <1>0, <2>2, FewerCodes
<1>4. ASSUME NEW r \in Request, CreateInsert(r) PROVE OneCode'
  <2>1. CASE UNCHANGED token
    BY <1>0, <2>1, FewerCodes
  <2>2. CASE ~UNCHANGED token
    <3>1. PICK c \in CodeChoice :
            /\ CodeFree(c)
            /\ token' = [token EXCEPT ![req[r].tid] =
                          [req[r].row EXCEPT !.plain = c, !.created = now]]
      BY <1>4, <2>2 DEF CreateInsert
    <3>2. req[r].tid \in TokenId /\ req[r].row \in Row
      BY <1>4 DEF CreateInsert, Placed, PlacedRequest, Request_
    <3>3. [req[r].row EXCEPT !.plain = c, !.created = now].plain = c
      BY <3>2 DEF Row
    <3>4. /\ token'[req[r].tid].plain = c
          /\ \A t \in TokenId \ {req[r].tid} : token'[t] = token[t]
      BY <3>1, <3>2, <3>3
    <3>. QED BY <1>0, <3>1, <3>2, <3>4 DEF OneCode, CodeFree
  <2>. QED BY <2>1, <2>2
<1>5. ASSUME NEW r \in Request, ClaimLock(r) PROVE OneCode'
  <2>1. CASE UNCHANGED token
    BY <1>0, <2>1, FewerCodes
  <2>2. CASE ~UNCHANGED token
    <3>1. token' = [token EXCEPT ![req[r].tid] = LockedRow(@, req[r].dev, req[r].to)]
      BY <1>5, <2>2 DEF ClaimLock
    <3>2. /\ req[r].tid \in TokenId
          /\ req[r].dev \in Device
          /\ req[r].to \in State
      BY <1>5 DEF ClaimLock, Placed, PlacedRequest, Request_
    <3>3. LockedRow(token[req[r].tid], req[r].dev, req[r].to).plain
            \in {token[req[r].tid].plain, NoCode}
      BY <1>c, <3>2
    <3>4. \A t \in TokenId : token'[t].plain \in {token[t].plain, NoCode}
      BY <3>1, <3>2, <3>3
    <3>. QED BY <1>0, <3>4, FewerCodes
  <2>. QED BY <2>1, <2>2
<1>6. ASSUME NEW r \in Request, ConfirmCommit(r) PROVE OneCode'
  <2> DEFINE o == req[r].tid
  <2>1. /\ req[r].pc = "commit"
        /\ o \in TokenId
        /\ req[r].to \in State
        /\ req[r].amt \in Int
    BY <1>6 DEF ConfirmCommit, Placed, PlacedRequest, Request_
  <2>2. ConfirmedRow(token[o], req[r].to, req[r].amt).plain = NoCode
    BY <1>c, <2>1 DEF ConfirmedRow, Closed, Row
  <2>3. token'[o].plain = NoCode
    BY <1>6, <2>1, <2>2 DEF ConfirmCommit
  <2>4. \A t \in TokenId \ {o, req[r].child} : token'[t] = token[t]
    BY <1>6 DEF ConfirmCommit
  <2>5. req[r].child \in TokenId \ {o} => token'[req[r].child].plain = token[o].plain
    <3> SUFFICES ASSUME req[r].child \in TokenId \ {o}
                 PROVE  token'[req[r].child].plain = token[o].plain
      OBVIOUS
    <3>1. req[r].child # NoToken
      BY DEF ConstantsAssumption
    <3>2. token'[req[r].child] = req[r].row
      BY <1>6 DEF ConfirmCommit
    <3>. QED BY <2>1, <3>1, <3>2 DEF Codes, CodeOfRequest
  <2> HIDE DEF o
  <2>. QED BY <1>0, <2>1, <2>3, <2>4, <2>5 DEF OneCode
<1>7. CASE UNCHANGED token
  BY <1>0, <1>7, FewerCodes
<1>. QED
  BY <1>1, <1>2, <1>3, <1>4, <1>5, <1>6, <1>7
  DEF Next, Start, Continue, Fail, vars, Tick, CreateStart, ConfirmRead, CreateReread,
      CreateFails, ClaimFind, ConfirmUpdate, ConfirmRemainder, Notify, Reread,
      AddClearing, Abort

LEMMA CodeRows ==
    ASSUME ConstantsAssumption, IInv, Codes, [Next]_vars, NEW t \in TokenId
    PROVE  CodeOfRow(t)'
BY RowFates, CodesUnique DEF RowFate, CodeOfRow, OneCode

-----------------------------------------------------------------------------
(* What one step leaves true of a request that does not take it. *)

RequestSound(r) == CodeOfRequest(r) /\ Deed(r) /\ Told(r)

LEMMA OthersSound ==
    ASSUME ConstantsAssumption, IInv, Codes, [Next]_vars, NEW q \in Request,
           RequestSound(q), req'[q] = req[q]
    PROVE  RequestSound(q)'
<1> USE DEF IInv
<1> DEFINE t == req[q].tid
<1>1. Deed(q)'
  BY DEF RequestSound, Deed, Confirming
<1>2. CodeOfRequest(q)'
  <2>1. CASE ~(req[q].pc = "commit" /\ req[q].child # NoToken)
    BY <2>1 DEF RequestSound, CodeOfRequest
  <2>2. CASE req[q].pc = "commit" /\ req[q].child # NoToken
    <3>1. InTransaction(q) /\ Confirming(q) /\ t \in TokenId
      BY <2>2 DEF InTransaction, Confirming, Placed, PlacedRequest
    <3>2. IsLocked(t)
      BY <3>1 DEF Confirmations, Confirmation
    <3>3. ASSUME NEW x \in Request, ConfirmCommit(x) PROVE req[x].tid # t
      <4>1. x # q
        BY <3>3, <2>2, ZenonT(60) DEF ConfirmCommit, TypeOK, Request_
      <4>2. InTransaction(x) /\ Confirming(x)
        BY <3>3 DEF ConfirmCommit, InTransaction, Confirming
      <4>. QED BY <3>1, <4>1, <4>2 DEF Confirmations, Confirmation
    <3>4. token'[t].plain = token[t].plain
      BY <3>1, <3>2, <3>3, LockedStays DEF SameRow
    <3>. QED BY <2>2, <3>4 DEF RequestSound, CodeOfRequest
  <2>. QED BY <2>1, <2>2
<1>3. Told(q)'
  <2> SUFFICES ASSUME req[q].pc \in {"notify", "reread", "clear"} PROVE Told(q)'
    BY DEF Told
  <2>1. t \in TokenId /\ Exists(t)
    BY DEF Placed, PlacedRequest
  <2>2. RowFate(t) /\ RowStep(t)
    BY <2>1, RowFates, RowSteps
  <2>3. Told(q)
    BY DEF RequestSound
  <2>4. CASE Ended(t)
    <3>1. /\ token'[t].state = token[t].state
          /\ token'[t].amount = token[t].amount
          /\ token'[t].lock = token[t].lock
      BY <2>2, <2>4 DEF RowFate, RowStep, Ended, Live, IsOpen
    <3>. QED BY <2>3, <3>1 DEF Told
  <2>5. CASE IsLocked(t)
    <3>1. /\ token'[t].state \in {"LOCKED"} \cup ConfirmStates
          /\ token'[t].lock = token[t].lock
      BY <2>1, <2>2, <2>5 DEF RowFate, RowStep, IsLocked, IsOpen
    <3>2. req[q].act \notin {"delete", "reject", "confirm"}
      BY <2>3, <2>5 DEF Told, IsLocked, ConfirmStates
    <3>. QED BY <2>3, <3>1, <3>2 DEF Told
  <2>6. CASE IsOpen(t)
    <3>1. req[q].act \notin {"delete", "reject", "lock", "confirm"}
      BY <2>3, <2>6 DEF Told, IsOpen, ConfirmStates
    <3>. QED BY <3>1 DEF Told
  <2>. QED BY <2>1, <2>4, <2>5, <2>6 DEF Ended, Live, IsLocked, IsOpen, Exists
<1>. QED BY <1>1, <1>2, <1>3 DEF RequestSound

-----------------------------------------------------------------------------
(* The request that takes the step. *)

\* The catch of the retry loop, and the end of a request.
LEMMA RetrySound ==
    ASSUME ConstantsAssumption, IInv, Codes, NEW r \in Request,
           (Retry(r) /\ req[r].pc \in {"insert", "created"}) \/ Finish(r)
    PROVE  /\ RequestSound(r)'
           /\ \A q \in Request \ {r} : req'[q] = req[q]
           /\ req'[r].pc \in {"idle", "insert"}
<1> USE DEF IInv, TypeOK
<1>1. CASE Finish(r)
  <2>1. req'[r].pc = "idle" /\ \A q \in Request \ {r} : req'[q] = req[q]
    BY <1>1, IdleFields DEF Finish
  <2>. QED BY <2>1 DEF RequestSound, CodeOfRequest, Deed, Told, Confirming
<1>2. CASE ~Finish(r)
  <2>1. PICK t \in TokenId :
          req' = [req EXCEPT ![r] = [req[r] EXCEPT
                    !.pc = "insert", !.tid = t, !.row = EncodedAgain(req[r].row),
                    !.tries = req[r].tries - 1]]
    BY <1>2 DEF Retry
  <2>2. /\ req'[r].pc = "insert"
        /\ req'[r].row = EncodedAgain(req[r].row)
        /\ \A q \in Request \ {r} : req'[q] = req[q]
    BY <2>1 DEF Request_
  <2>3. req[r].row.secret /\ req[r].row \in Row
    BY <1>2 DEF Codes, CodeOfRequest, Request_
  <2>4. EncodedAgain(req[r].row).secret
    BY <2>3 DEF EncodedAgain, Row
  <2>. QED BY <2>2, <2>4 DEF RequestSound, CodeOfRequest, Deed, Told, Confirming
<1>. QED BY <1>1, <1>2

\* A step that moves the request along and leaves the table alone.
LEMMA GotoSound ==
    ASSUME IInv, NEW r \in Request, RequestSound(r), UNCHANGED token,
           NEW pc \in {"remainder", "commit", "reread", "clear"}, Goto(r, pc),
           \/ pc \in {"remainder", "commit"} /\ req[r].pc = "update"
           \/ pc \in {"reread", "clear"} /\ req[r].pc \in {"notify", "reread"},
           pc = "commit" => req[r].child = NoToken,
           pc = "clear" => req[r].act = "confirm"
    PROVE  /\ RequestSound(r)'
           /\ \A q \in Request \ {r} : req'[q] = req[q]
<1>1. /\ req'[r].pc = pc
      /\ req'[r].tid = req[r].tid
      /\ req'[r].act = req[r].act
      /\ req'[r].dev = req[r].dev
      /\ req'[r].to = req[r].to
      /\ req'[r].amt = req[r].amt
      /\ req'[r].child = req[r].child
      /\ \A q \in Request \ {r} : req'[q] = req[q]
  BY DEF Goto, Request_, IInv, TypeOK
<1>2. Deed(r)'
  BY <1>1 DEF RequestSound, Deed, Confirming
<1>3. CodeOfRequest(r)'
  BY <1>1 DEF CodeOfRequest
<1>4. Told(r)'
  BY <1>1 DEF RequestSound, Told
<1>. QED BY <1>1, <1>2, <1>3, <1>4 DEF RequestSound

LEMMA StarterSound ==
    ASSUME ConstantsAssumption, IInv, Codes, NEW r \in Request, Start(r)
    PROVE  /\ RequestSound(r)'
           /\ \A q \in Request \ {r} : req'[q] = req[q]
<1> USE DEF IInv, TypeOK
<1>1. CASE CreateStart(r)
  <2>1. PICK d \in TokenDevice, type \in Type, a \in Amount, e \in Expiry, t \in TokenId :
          req' = [req EXCEPT ![r] = [Idle EXCEPT !.pc = "insert", !.act = "create",
                   !.dev = d, !.tid = t, !.row = NewRow(d, type, a, e), !.tries = Retries]]
    BY <1>1 DEF CreateStart
  <2>2. /\ req'[r].pc = "insert"
        /\ req'[r].row = NewRow(d, type, a, e)
        /\ \A q \in Request \ {r} : req'[q] = req[q]
    BY <2>1, IdleType DEF Request_
  <2>3. NewRow(d, type, a, e).secret
    BY DEF NewRow, NoRow
  <2>. QED BY <2>2, <2>3 DEF RequestSound, CodeOfRequest, Deed, Told, Confirming
<1>2. CASE Delete(r)
  <2>1. PICK t \in TokenId :
          /\ token' = [token EXCEPT ![t] = Closed(@, "DELETED")]
          /\ req' = [req EXCEPT ![r] = [Idle EXCEPT !.pc = "notify", !.tid = t,
                       !.act = "delete", !.dev = token[t].device]]
    BY <1>2 DEF Delete
  <2>2. /\ req'[r].pc = "notify"
        /\ req'[r].tid = t
        /\ req'[r].act = "delete"
        /\ \A q \in Request \ {r} : req'[q] = req[q]
    BY <2>1, IdleType DEF Request_
  <2>3. token'[t].state = "DELETED"
    BY <2>1 DEF Closed, Row
  <2>. QED BY <2>2, <2>3 DEF RequestSound, CodeOfRequest, Deed, Told, Confirming
<1>3. CASE Update(r)
  <2>1. PICK t \in TokenId :
          req' = [req EXCEPT ![r] = [Idle EXCEPT !.pc = "reread", !.tid = t,
                   !.act = "update", !.dev = token[t].device]]
    BY <1>3 DEF Update
  <2>2. /\ req'[r].pc = "reread"
        /\ req'[r].act = "update"
        /\ \A q \in Request \ {r} : req'[q] = req[q]
    BY <2>1, IdleType DEF Request_
  <2>. QED BY <2>2 DEF RequestSound, CodeOfRequest, Deed, Told, Confirming
<1>4. CASE ClaimExpire(r)
  <2>1. PICK d \in CashDevice, code \in RadioCode, right \in BOOLEAN :
          req' = [req EXCEPT ![r] = [Idle EXCEPT !.pc = "find", !.dev = d, !.code = code,
                                                !.right = right, !.asOf = now]]
    BY <1>4 DEF ClaimExpire
  <2>2. /\ req'[r].pc = "find"
        /\ \A q \in Request \ {r} : req'[q] = req[q]
    BY <2>1, IdleType DEF Request_
  <2>. QED BY <2>2 DEF RequestSound, CodeOfRequest, Deed, Told, Confirming
<1>5. CASE ConfirmRead(r)
  <2>1. PICK t \in TokenId, d \in CashDevice, to \in Outcome, p \in Partial,
             child \in TokenId \cup {NoToken} :
        \E a \in Amount \cup {token[t].amount} :
          req' = [req EXCEPT ![r] = [Idle EXCEPT !.pc = "update", !.act = "confirm",
                   !.dev = d, !.tid = t, !.row = token[t], !.to = to, !.amt = a,
                   !.child = child]]
    BY <1>5 DEF ConfirmRead
  <2>2. /\ req'[r].pc = "update"
        /\ req'[r].act = "confirm"
        /\ \A q \in Request \ {r} : req'[q] = req[q]
    BY <2>1, IdleType DEF Request_
  <2>. QED BY <2>2 DEF RequestSound, CodeOfRequest, Deed, Told, Confirming
<1>. QED BY <1>1, <1>2, <1>3, <1>4, <1>5 DEF Start

LEMMA ContinuerSound ==
    ASSUME ConstantsAssumption, IInv, Codes, [Next]_vars, NEW r \in Request,
           RequestSound(r), Continue(r) \/ Fail(r)
    PROVE  /\ RequestSound(r)'
           /\ \A q \in Request \ {r} : req'[q] = req[q]
<1> USE DEF IInv, TypeOK
<1>1. CASE Finish(r)
  BY <1>1, RetrySound
<1>2. CASE (CreateInsert(r) \/ CreateFails(r)) /\ Retry(r)
  BY <1>2, RetrySound DEF CreateInsert, CreateFails
<1>3. CASE CreateInsert(r) /\ ~Retry(r)
  <2>1. Goto(r, "created") /\ req[r].pc = "insert"
    BY <1>3 DEF CreateInsert
  <2>2. /\ req'[r].pc = "created"
        /\ req'[r].row = req[r].row
        /\ \A q \in Request \ {r} : req'[q] = req[q]
    BY <2>1 DEF Goto, Request_
  <2>. QED BY <2>1, <2>2 DEF RequestSound, CodeOfRequest, Deed, Told, Confirming
<1>4. CASE ClaimFind(r) /\ ~Finish(r)
  <2>1. PICK t \in TokenId, to \in {"LOCKED", "REJECTED"} :
          req' = [req EXCEPT ![r] = [req[r] EXCEPT !.pc = "lock", !.tid = t,
                    !.act = IF to = "LOCKED" THEN "lock" ELSE "reject",
                    !.code = NoCode, !.right = FALSE, !.to = to]]
    BY <1>4 DEF ClaimFind, Verdict
  <2>2. /\ req'[r].pc = "lock"
        /\ req'[r].act = IF to = "LOCKED" THEN "lock" ELSE "reject"
        /\ req'[r].to = to
        /\ \A q \in Request \ {r} : req'[q] = req[q]
    BY <2>1 DEF Request_
  <2>. QED BY <2>2 DEF RequestSound, CodeOfRequest, Deed, Told, Confirming
<1>5. CASE ClaimLock(r) /\ ~Finish(r)
  <2> DEFINE t == req[r].tid
  <2>1. /\ req[r].pc = "lock"
        /\ token' = [token EXCEPT ![t] = LockedRow(@, req[r].dev, req[r].to)]
        /\ Goto(r, "notify")
    BY <1>5 DEF ClaimLock
  <2>2. /\ req'[r].pc = "notify"
        /\ req'[r].tid = t
        /\ req'[r].act = req[r].act
        /\ req'[r].dev = req[r].dev
        /\ \A q \in Request \ {r} : req'[q] = req[q]
    BY <2>1 DEF Goto, Request_
  <2>3. /\ t \in TokenId
        /\ req[r].to \in {"LOCKED", "REJECTED"}
        /\ req[r].act = IF req[r].to = "LOCKED" THEN "lock" ELSE "reject"
    BY <2>1 DEF Placed, PlacedRequest, RequestSound, Deed
  <2>4. /\ LockedRow(token[t], req[r].dev, req[r].to).state = req[r].to
        /\ LockedRow(token[t], req[r].dev, req[r].to).lock = req[r].dev
    <3>1. token[t] \in Row
      BY <2>3
    <3>. QED BY <3>1 DEF LockedRow, Closed, Row
  <2>5. token'[t].state = req[r].to /\ token'[t].lock = req[r].dev
    BY <2>1, <2>3, <2>4
  <2>6. Told(r)'
    BY <2>2, <2>3, <2>5 DEF Told
  <2>. QED BY <2>2, <2>6 DEF RequestSound, CodeOfRequest, Deed, Confirming
<1>6. CASE ConfirmUpdate(r) /\ ~Finish(r)
  <2>1. PICK pc \in {"remainder", "commit"} :
          /\ Goto(r, pc)
          /\ req[r].pc = "update"
          /\ pc = "commit" => req[r].child = NoToken
          /\ UNCHANGED token
    BY <1>6 DEF ConfirmUpdate
  <2>. QED BY <2>1, GotoSound
<1>7. CASE ConfirmRemainder(r)
  <2> DEFINE t == req[r].tid
             row == RemainderRow(req[r].row, t, req[r].row.amount - req[r].amt)
  <2>1. /\ req[r].pc = "remainder"
        /\ UNCHANGED token
        /\ req' = [req EXCEPT ![r] = [req[r] EXCEPT !.pc = "commit", !.row = row]]
    BY <1>7 DEF ConfirmRemainder
  <2>2. /\ req'[r].pc = "commit"
        /\ req'[r].tid = t
        /\ req'[r].act = req[r].act
        /\ req'[r].row = row
        /\ \A q \in Request \ {r} : req'[q] = req[q]
    BY <2>1 DEF Request_
  <2>3. /\ Confirming(r) /\ InTransaction(r)
        /\ t \in TokenId
        /\ req[r].row \in Row
    BY <2>1 DEF Confirming, InTransaction, Placed, PlacedRequest, Request_
  <2>4. IsLocked(t) /\ SameRow(req[r].row, token[t])
    BY <2>1, <2>3 DEF Confirmations, Confirmation
  <2>5. /\ row.secret = req[r].row.secret
        /\ row.plain = req[r].row.plain
    BY <2>3 DEF RemainderRow, Row
  <2>6. req[r].row.secret /\ req[r].row.plain = token[t].plain
    BY <2>3, <2>4 DEF SameRow, Codes, CodeOfRow, Live, IsLocked
  <2>7. CodeOfRequest(r)'
    BY <2>1, <2>2, <2>5, <2>6 DEF CodeOfRequest
  <2>8. Deed(r)'
    BY <2>2, <2>3 DEF RequestSound, Deed
  <2>. QED BY <2>2, <2>7, <2>8 DEF RequestSound, Told
<1>8. CASE ConfirmCommit(r)
  <2> DEFINE t == req[r].tid
  <2>1. /\ req'[r].pc = "notify"
        /\ req'[r].tid = t
        /\ req'[r].act = req[r].act
        /\ req'[r].dev = req[r].dev
        /\ req'[r].to = req[r].to
        /\ req'[r].amt = req[r].amt
        /\ \A q \in Request \ {r} : req'[q] = req[q]
    BY <1>8 DEF ConfirmCommit, Request_
  <2>2. /\ Confirming(r)
        /\ t \in TokenId
        /\ req[r].act = "confirm"
    BY <1>8 DEF ConfirmCommit, Confirming, Placed, PlacedRequest, RequestSound, Deed
  <2>3. req[r].to \in ConfirmStates /\ token[t].lock = req[r].dev
    BY <2>2 DEF Confirmations, Confirmation
  <2>4. /\ ConfirmedRow(token[t], req[r].to, req[r].amt).state = req[r].to
        /\ ConfirmedRow(token[t], req[r].to, req[r].amt).lock = token[t].lock
        /\ ConfirmedRow(token[t], req[r].to, req[r].amt).amount = req[r].amt
    <3>1. token[t] \in Row
      BY <2>2
    <3>. QED BY <3>1 DEF ConfirmedRow, Closed, Row
  <2>5. token'[t] = ConfirmedRow(token[t], req[r].to, req[r].amt)
    BY <1>8, <2>2 DEF ConfirmCommit
  <2>6. Told(r)'
    BY <2>1, <2>2, <2>3, <2>4, <2>5 DEF Told
  <2>. QED BY <2>1, <2>6 DEF RequestSound, CodeOfRequest, Deed, Confirming
<1>9. CASE (Notify(r) \/ Reread(r)) /\ ~Finish(r)
  <2>1. PICK pc \in {"reread", "clear"} :
          /\ Goto(r, pc)
          /\ req[r].pc \in {"notify", "reread"}
          /\ pc = "clear" => req[r].act = "confirm"
          /\ UNCHANGED token
    BY <1>9 DEF Notify, Reread
  <2>. QED BY <2>1, GotoSound
<1>. QED
  BY <1>1, <1>2, <1>3, <1>4, <1>5, <1>6, <1>7, <1>8, <1>9
  DEF Continue, Fail, CreateReread, CreateFails, AddClearing, Abort

LEMMA SoundSteps ==
    ASSUME ConstantsAssumption, IInv, Codes, Truths, [Next]_vars
    PROVE  Codes' /\ Truths'
<1>1. \A r \in Request : RequestSound(r)
  BY DEF RequestSound, Codes, Truths
<1>2. CASE UNCHANGED req
  BY <1>1, <1>2, CodeRows, OthersSound DEF RequestSound, Codes, Truths
<1>3. ASSUME NEW r \in Request, Start(r) \/ Continue(r) \/ Fail(r)
      PROVE  Codes' /\ Truths'
  <2>1. /\ RequestSound(r)'
        /\ \A q \in Request \ {r} : req'[q] = req[q]
    BY <1>1, <1>3, StarterSound, ContinuerSound
  <2>2. \A q \in Request : RequestSound(q)'
    BY <1>1, <2>1, OthersSound
  <2>. QED BY <2>2, CodeRows DEF RequestSound, Codes, Truths
<1>. QED BY <1>2, <1>3 DEF Next, Tick, vars

-----------------------------------------------------------------------------
(* One winner, the clearing rows, and what is still to be settled. *)

\* A request that reports after the step did so before, or has just changed
\* the token from a state nobody reports of.
LEMMA ReportBegins ==
    ASSUME IInv, NEW r \in Request, Reporting(r)', Truths,
           Start(r) \/ Continue(r) \/ Fail(r)
    PROVE  \/ Reporting(r) /\ req'[r].tid = req[r].tid /\ req'[r].act = req[r].act
           \/ req'[r].act = "update"
           \/ req'[r].act \in {"lock", "reject", "delete"} /\ IsOpen(req'[r].tid)
           \/ req'[r].act = "confirm" /\ IsLocked(req'[r].tid)
<1> USE DEF IInv, TypeOK
<1>1. ~Finish(r)
  BY IdleFields DEF Finish, Reporting
<1>2. CASE Delete(r)
  <2>1. PICK t \in TokenId :
          /\ IsOpen(t)
          /\ req' = [req EXCEPT ![r] = [Idle EXCEPT !.pc = "notify", !.tid = t,
                       !.act = "delete", !.dev = token[t].device]]
    BY <1>2 DEF Delete
  <2>2. req'[r].tid = t /\ req'[r].act = "delete"
    BY <2>1, IdleType DEF Request_
  <2>. QED BY <2>1, <2>2
<1>3. CASE Update(r)
  <2>1. PICK t \in TokenId :
          req' = [req EXCEPT ![r] = [Idle EXCEPT !.pc = "reread", !.tid = t,
                   !.act = "update", !.dev = token[t].device]]
    BY <1>3 DEF Update
  <2>. QED BY <2>1, IdleType DEF Request_
<1>4. CASE ClaimLock(r)
  <2>1. IsOpen(req[r].tid) /\ Goto(r, "notify") /\ req[r].pc = "lock"
    BY <1>1, <1>4 DEF ClaimLock
  <2>2. req'[r].tid = req[r].tid /\ req'[r].act = req[r].act
    BY <2>1 DEF Goto, Request_
  <2>3. req[r].act \in {"lock", "reject"}
    BY <2>1 DEF Truths, Deed
  <2>. QED BY <2>1, <2>2, <2>3
<1>5. CASE ConfirmCommit(r)
  <2>1. Confirming(r) /\ InTransaction(r)
    BY <1>5 DEF ConfirmCommit, Confirming, InTransaction
  <2>2. IsLocked(req[r].tid) /\ req[r].act = "confirm"
    BY <2>1 DEF Confirmations, Confirmation, Truths, Deed
  <2>3. req'[r].tid = req[r].tid /\ req'[r].act = req[r].act
    BY <1>5 DEF ConfirmCommit, Request_
  <2>. QED BY <2>2, <2>3
<1>6. CASE Notify(r) \/ Reread(r)
  <2>1. PICK pc \in {"reread", "clear"} : Goto(r, pc) /\ Reporting(r)
    BY <1>1, <1>6 DEF Notify, Reread, Reporting
  <2>. QED BY <2>1 DEF Goto, Request_
<1>7. CASE Retry(r)
  BY <1>1, <1>7 DEF Retry, Reporting, Request_
<1>8. CASE CreateInsert(r) \/ ConfirmUpdate(r)
  <2>1. ASSUME NEW pc \in {"created", "commit", "remainder"}, Goto(r, pc) PROVE FALSE
    BY <2>1 DEF Goto, Request_, Reporting
  <2>2. CASE CreateInsert(r)
    <3>1. Goto(r, "created") \/ Retry(r)
      BY <2>2 DEF CreateInsert
    <3>. QED BY <1>7, <2>1, <3>1
  <2>3. CASE ConfirmUpdate(r)
    <3>1. Goto(r, "commit") \/ Goto(r, "remainder")
      BY <1>1, <2>3 DEF ConfirmUpdate
    <3>. QED BY <2>1, <3>1
  <2>. QED BY <1>8, <2>2, <2>3
<1>9. CASE ConfirmRemainder(r)
  BY <1>9 DEF ConfirmRemainder, Reporting, Request_
<1>10. CASE ClaimFind(r)
  <2>1. PICK t \in TokenId, to \in {"LOCKED", "REJECTED"} :
          req' = [req EXCEPT ![r] = [req[r] EXCEPT !.pc = "lock", !.tid = t,
                    !.act = IF to = "LOCKED" THEN "lock" ELSE "reject",
                    !.code = NoCode, !.right = FALSE, !.to = to]]
    BY <1>1, <1>10 DEF ClaimFind, Verdict
  <2>. QED BY <2>1 DEF Request_, Reporting
<1>11. CASE CreateStart(r) \/ ClaimExpire(r) \/ ConfirmRead(r)
  <2>1. req'[r].pc \in {"insert", "find", "update"}
    <3>1. CASE CreateStart(r)
      BY <3>1, IdleType DEF CreateStart, Request_
    <3>2. CASE ClaimExpire(r)
      BY <3>2, IdleType DEF ClaimExpire, Request_
    <3>3. CASE ConfirmRead(r)
      BY <3>3, IdleType DEF ConfirmRead, Request_
    <3>. QED BY <1>11, <3>1, <3>2, <3>3
  <2>. QED BY <2>1 DEF Reporting
<1>. QED
  BY <1>1, <1>2, <1>3, <1>4, <1>5, <1>6, <1>7, <1>8, <1>9, <1>10, <1>11
  DEF Start, Continue, Fail, CreateReread, CreateFails, AddClearing, Abort

\* All requests but one stand still.
LEMMA OneMoves ==
    ASSUME ConstantsAssumption, IInv, Codes, Truths, [Next]_vars, ~UNCHANGED req
    PROVE  \E r \in Request : /\ Start(r) \/ Continue(r) \/ Fail(r)
                              /\ \A q \in Request \ {r} : req'[q] = req[q]
<1>1. \A r \in Request : RequestSound(r)
  BY DEF RequestSound, Codes, Truths
<1>. QED BY <1>1, StarterSound, ContinuerSound DEF Next, Tick, vars

LEMMA WinnerStep ==
    ASSUME ConstantsAssumption, IInv, Codes, Truths, OneWinner, [Next]_vars
    PROVE  OneWinner'
<1>1. CASE UNCHANGED req
  BY <1>1 DEF OneWinner, Reporting
<1>2. CASE ~UNCHANGED req
  <2>1. PICK x \in Request : /\ Start(x) \/ Continue(x) \/ Fail(x)
                             /\ \A q \in Request \ {x} : req'[q] = req[q]
    BY <1>2, OneMoves
  <2> DEFINE Same(r, q) == \E acts \in {{"lock", "reject", "delete"}, {"confirm"}} :
                               {req[r].act, req[q].act} \subseteq acts
  \* The one that moves against one that stands still.
  <2>2. ASSUME NEW q \in Request \ {x}, Reporting(x)', Reporting(q)',
               req'[x].tid = req'[q].tid, Same(x, q)'
        PROVE  FALSE
    <3>1. Reporting(q) /\ req'[q] = req[q] /\ Told(q)
      BY <2>1, <2>2 DEF Reporting, Truths
    <3>2. CASE Reporting(x) /\ req'[x].tid = req[x].tid /\ req'[x].act = req[x].act
      BY <2>2, <3>1, <3>2 DEF OneWinner
    <3>3. CASE req'[x].act = "update"
      BY <2>2, <3>3
    <3>4. CASE req'[x].act \in {"lock", "reject", "delete"} /\ IsOpen(req'[x].tid)
      <4>1. req[q].act \in {"lock", "reject", "delete"}
        BY <2>2, <3>1, <3>4
      <4>. QED BY <2>2, <3>1, <3>4, <4>1 DEF Told, Reporting, IsOpen, ConfirmStates
    <3>5. CASE req'[x].act = "confirm" /\ IsLocked(req'[x].tid)
      <4>1. req[q].act = "confirm"
        BY <2>2, <3>1, <3>5
      <4>. QED BY <2>2, <3>1, <3>5, <4>1 DEF Told, Reporting, IsLocked, ConfirmStates
    <3>. QED BY <2>1, <2>2, <3>2, <3>3, <3>4, <3>5, ReportBegins
  <2>3. ASSUME NEW r \in Request, NEW q \in Request, r # q, Reporting(r)', Reporting(q)',
               req'[r].tid = req'[q].tid, Same(r, q)'
        PROVE  FALSE
    <3>1. CASE r = x
      BY <2>2, <2>3, <3>1
    <3>2. CASE q = x
      BY <2>2, <2>3, <3>2
    <3>3. CASE r # x /\ q # x
      BY <2>1, <2>3, <3>3 DEF OneWinner, Reporting
    <3>. QED BY <3>1, <3>2, <3>3
  <2>. QED BY <2>3 DEF OneWinner
<1>. QED BY <1>1, <1>2

\* Only clearToken writes the clearing table, and never twice.
LEMMA ClearingSteps ==
    ASSUME IInv, [Next]_vars, NEW t \in TokenId
    PROVE  \/ clearing'[t] = clearing[t]
           \/ \E r \in Request :
                /\ AddClearing(r)
                /\ req[r].tid = t
                /\ clearing[t] = NoClearing
                /\ clearing'[t] = Settlement(t, DeviceCustomer[req[r].dev])
<1>1. ASSUME NEW r \in Request, AddClearing(r), clearing'[t] # clearing[t]
      PROVE  /\ req[r].tid = t
             /\ clearing[t] = NoClearing
             /\ clearing'[t] = Settlement(t, DeviceCustomer[req[r].dev])
  BY <1>1 DEF AddClearing, IInv, TypeOK
<1>2. CASE UNCHANGED clearing
  BY <1>2
<1>. QED
  BY <1>1, <1>2
  DEF Next, Start, Continue, Fail, vars, Tick, CreateStart, ConfirmRead, CreateReread,
      CreateFails, ClaimFind, ConfirmUpdate, ConfirmRemainder, Notify, Reread,
      Abort, Delete, Update, ClaimExpire, CreateInsert, ClaimLock, ConfirmCommit

LEMMA ClearingStep ==
    ASSUME ConstantsAssumption, IInv, Codes, Truths, ClearingMatchesToken, [Next]_vars
    PROVE  ClearingMatchesToken'
<1> USE DEF IInv, TypeOK
<1> SUFFICES ASSUME NEW t \in TokenId, clearing'[t] # NoClearing
             PROVE  /\ token'[t].state = "COMPLETED"
                    /\ token'[t].lock # NoDevice
                    /\ LET owner == Owner(t)'
                           cash == DeviceCustomer[token'[t].lock]
                       IN  \/ /\ token'[t].type = "CASHOUT"
                              /\ clearing'[t] = [debitor |-> owner, creditor |-> cash]
                           \/ /\ token'[t].type = "CASHIN"
                              /\ clearing'[t] = [debitor |-> cash, creditor |-> owner]
  BY DEF ClearingMatchesToken
<1>1. ASSUME token[t].state = "COMPLETED"
      PROVE  /\ token'[t].state = "COMPLETED"
             /\ token'[t].lock = token[t].lock
             /\ token'[t].type = token[t].type
             /\ Owner(t)' = Owner(t)
  <2>1. Ended(t) /\ Exists(t) /\ ~IsOpen(t)
    BY <1>1 DEF Ended, Live, Exists, IsOpen
  <2>2. RowFate(t) /\ RowStep(t)
    BY RowFates, RowSteps
  <2>. QED BY <1>1, <2>1, <2>2 DEF RowFate, RowStep, Owner
<1>2. CASE clearing'[t] = clearing[t]
  BY <1>1, <1>2 DEF ClearingMatchesToken
<1>3. CASE clearing'[t] # clearing[t]
  <2>1. PICK r \in Request :
          /\ AddClearing(r)
          /\ req[r].tid = t
          /\ clearing'[t] = Settlement(t, DeviceCustomer[req[r].dev])
    BY <1>3, ClearingSteps
  <2>2. /\ req[r].act = "confirm"
        /\ req[r].dev \in Device
        /\ token[t].lock = req[r].dev
    BY <2>1 DEF AddClearing, Truths, Deed, Told, Placed, PlacedRequest
  <2>3. token[t].lock # NoDevice
    BY <2>2 DEF ConstantsAssumption
  <2>. QED BY <1>1, <2>1, <2>2, <2>3 DEF Settlement
<1>. QED BY <1>2, <1>3

\* Confirmations, and they alone, complete a token.
LEMMA CompletedBy ==
    ASSUME ConstantsAssumption, IInv, Codes, Truths, [Next]_vars, NEW t \in TokenId,
           token[t].state # "COMPLETED", token'[t].state = "COMPLETED"
    PROVE  \E r \in Request : ConfirmCommit(r) /\ req[r].tid = t
<1> USE DEF IInv, TypeOK
<1>1. ASSUME NEW r \in Request, Delete(r) PROVE FALSE
  <2>1. PICK u \in TokenId : token' = [token EXCEPT ![u] = Closed(@, "DELETED")]
    BY <1>1 DEF Delete
  <2>2. Closed(token[u], "DELETED").state = "DELETED"
    BY ClosedRow DEF State
  <2>. QED BY <2>1, <2>2
<1>2. ASSUME NEW r \in Request, Update(r) PROVE FALSE
  <2>1. PICK u \in TokenId, s \in ClearState, info \in BOOLEAN :
          token' = [token EXCEPT ![u] = UpdatedRow(token[u], s, info)]
    BY <1>2 DEF Update
  <2>. QED BY <2>1, UpdatedColumns
<1>3. ASSUME NEW r \in Request, ClaimExpire(r) PROVE FALSE
  <2>1. Closed(token[t], "EXPIRED").state = "EXPIRED"
    BY ClosedRow DEF State
  <2>. QED BY <1>3, <2>1 DEF ClaimExpire
<1>4. ASSUME NEW r \in Request, CreateInsert(r) PROVE FALSE
  <2>1. PICK c \in CodeChoice :
          /\ req[r].tid = t
          /\ token'[t] = [req[r].row EXCEPT !.plain = c, !.created = now]
    BY <1>4 DEF CreateInsert
  <2>2. req[r].row \in Row /\ req[r].row.state = "OPEN"
    BY <1>4 DEF CreateInsert, Placed, PlacedRequest, Request_
  <2>. QED BY <2>1, <2>2 DEF Row
<1>5. ASSUME NEW r \in Request, ClaimLock(r) PROVE FALSE
  <2>1. /\ req[r].tid = t
        /\ token'[t] = LockedRow(token[t], req[r].dev, req[r].to)
        /\ req[r].to \in {"LOCKED", "REJECTED"}
    BY <1>5 DEF ClaimLock, Placed, PlacedRequest
  <2>2. token[t] \in Row
    OBVIOUS
  <2>3. LockedRow(token[t], req[r].dev, req[r].to).state = req[r].to
    BY <2>2 DEF LockedRow, Closed, Row
  <2>. QED BY <2>1, <2>3
<1>6. ASSUME NEW r \in Request, ConfirmCommit(r), req[r].tid # t PROVE FALSE
  <2>1. token'[t] = req[r].row /\ t = req[r].child
    BY <1>6 DEF ConfirmCommit
  <2>2. t # NoToken /\ Confirming(r) /\ req[r].pc = "commit"
    BY <1>6 DEF ConstantsAssumption, ConfirmCommit, Confirming
  <2>3. req[r].row.state = "OPEN"
    BY <2>1, <2>2 DEF Confirmations, Confirmation
  <2>. QED BY <2>1, <2>3
<1>7. CASE UNCHANGED token
  BY <1>7
<1>. QED
  BY <1>1, <1>2, <1>3, <1>4, <1>5, <1>6, <1>7
  DEF Next, Start, Continue, Fail, vars, Tick, CreateStart, ConfirmRead, CreateReread,
      CreateFails, ClaimFind, ConfirmUpdate, ConfirmRemainder, Notify, Reread,
      AddClearing, Abort

\* A request that is on its way to settle token t.
Settling(r, t) == /\ req[r].pc \in {"notify", "reread", "clear"}
                  /\ req[r].act = "confirm"
                  /\ req[r].tid = t

LEMMA SettlingStep ==
    ASSUME ConstantsAssumption, IInv, Codes, Truths, [Next]_vars, NEW t \in TokenId,
           NEW r \in Request, Settling(r, t), Unsettled(t), Unsettled(t)'
    PROVE  t \in orphaned' \/ Settling(r, t)'
<1> USE DEF IInv, TypeOK
<1>1. CASE req'[r] = req[r]
  BY <1>1 DEF Settling
<1>2. CASE req'[r] # req[r]
  <2>1. Start(r) \/ Continue(r) \/ Fail(r)
    BY <1>2, OneMoves
  <2>2. Settlement(t, DeviceCustomer[req[r].dev]) # NoClearing
    <3>1. DeviceCustomer[req[r].dev] # "none"
      BY DEF Settling, Placed, PlacedRequest, ConstantsAssumption
    <3>. QED BY <3>1 DEF Settlement, Unsettled, NoClearing
  <2>3. CASE Notify(r)
    <3>1. Goto(r, "reread")
      BY <2>3 DEF Notify
    <3>. QED BY <3>1 DEF Goto, Settling, Request_
  <2>4. CASE Reread(r)
    <3>1. Goto(r, "clear")
      BY <2>2, <2>4 DEF Reread, Settling
    <3>. QED BY <3>1 DEF Goto, Settling, Request_
  <2>5. CASE AddClearing(r)
    BY <2>2, <2>5 DEF AddClearing, Settling, Unsettled
  <2>6. CASE Abort(r)
    BY <2>6 DEF Abort, Settling
  <2>. QED
    BY <2>1, <2>3, <2>4, <2>5, <2>6
    DEF Start, Continue, Fail, Settling, CreateStart, Delete, Update, ClaimExpire,
        ConfirmRead, CreateInsert, CreateReread, ClaimFind, ClaimLock, ConfirmUpdate,
        ConfirmRemainder, ConfirmCommit, CreateFails
<1>. QED BY <1>1, <1>2

LEMMA UnsettledStep ==
    ASSUME ConstantsAssumption, IInv, Codes, Truths, UnsettledOnlyInFlight, [Next]_vars
    PROVE  UnsettledOnlyInFlight'
<1> USE DEF IInv, TypeOK
<1> SUFFICES ASSUME NEW t \in TokenId, Unsettled(t)'
             PROVE  t \in orphaned' \/ \E r \in Request : Settling(r, t)'
  BY DEF UnsettledOnlyInFlight, Settling
<1>1. CASE Unsettled(t)
  <2>1. CASE t \in orphaned
    <3>1. orphaned \subseteq orphaned'
      BY DEF Next, Start, Continue, Fail, vars, Tick, CreateStart, ConfirmRead,
         CreateReread, CreateFails, ClaimFind, ConfirmUpdate, ConfirmRemainder,
         Notify, Reread, Abort, Delete, Update, ClaimExpire, CreateInsert, ClaimLock,
         ConfirmCommit, AddClearing
    <3>. QED BY <2>1, <3>1
  <2>2. CASE t \notin orphaned
    <3>1. PICK r \in Request : Settling(r, t)
      BY <1>1, <2>2 DEF UnsettledOnlyInFlight, Settling
    <3>. QED BY <1>1, <3>1, SettlingStep
  <2>. QED BY <2>1, <2>2
<1>2. CASE ~Unsettled(t)
  <2>1. clearing[t] = NoClearing
    BY ClearingSteps DEF Unsettled
  <2>2. token[t].state # "COMPLETED"
    <3> SUFFICES ASSUME token[t].state = "COMPLETED" PROVE FALSE
      OBVIOUS
    <3>1. Exists(t) /\ RowFate(t)
      BY RowFates DEF Exists
    <3>. QED BY <1>2, <2>1, <3>1 DEF RowFate, Unsettled
  <2>3. PICK r \in Request : ConfirmCommit(r) /\ req[r].tid = t
    BY <2>2, CompletedBy DEF Unsettled
  <2>4. req[r].act = "confirm"
    BY <2>3 DEF ConfirmCommit, Truths, Deed, Confirming
  <2>5. req'[r].pc = "notify" /\ req'[r].act = req[r].act /\ req'[r].tid = t
    BY <2>3 DEF ConfirmCommit, Request_
  <2>. QED BY <2>4, <2>5 DEF Settling
<1>. QED BY <1>1, <1>2

-----------------------------------------------------------------------------
(* The second invariant is inductive. *)

LEMMA InitReports == ConstantsAssumption /\ Init => RInv
<1> SUFFICES ASSUME ConstantsAssumption, Init PROVE RInv
  OBVIOUS
<1>1. IInv
  BY InitHolds
<1>2. /\ \A t \in TokenId : token[t] = NoRow /\ clearing[t] = NoClearing
      /\ \A r \in Request : req[r].pc = "idle"
  BY IdleFields DEF Init
<1>3. NoRow.state = "NONE" /\ NoRow.secret = FALSE /\ NoRow.plain = NoCode
  BY DEF NoRow
<1>4. Codes
  BY <1>2, <1>3 DEF Codes, CodeOfRow, CodeOfRequest, Live
<1>5. Truths
  BY <1>2 DEF Truths, Deed, Told, Confirming
<1>6. OneWinner /\ ClearingMatchesToken /\ UnsettledOnlyInFlight
  BY <1>2, <1>3 DEF OneWinner, Reporting, ClearingMatchesToken, UnsettledOnlyInFlight,
     Unsettled
<1>. QED BY <1>1, <1>4, <1>5, <1>6 DEF RInv

(* Requests find the state they are about to report, codes belong to live  *)
(* tokens, and settlements follow from the rows (token.ts 110-116,         *)
(* 167-199, 236-261): the inductive invariant.                             *)
THEOREM ReportsInvariant == Spec => []RInv
<1>1. Init => RInv
  BY ConstantsAssumption, InitReports
<1>2. RInv /\ [Next]_vars => RInv'
  BY ConstantsAssumption, Inductive, SoundSteps, WinnerStep, ClearingStep, UnsettledStep
  DEF RInv
<1>. QED BY <1>1, <1>2, PTL DEF Spec

(* What a request notifies, journalizes and answers is what the table      *)
(* holds, although it released the row before (token.ts 110-116, 190-198,  *)
(* 309-321).                                                               *)
THEOREM TruthReported == Spec => []ReportsTheTruth
<1>1. RInv => ReportsTheTruth
  <2> SUFFICES ASSUME RInv, NEW r \in Request, Reporting(r)
               PROVE  LET row == token[req[r].tid] IN
                      CASE req[r].act = "delete" -> row.state = "DELETED"
                        [] req[r].act = "reject" -> /\ row.state = "REJECTED"
                                                    /\ row.lock = req[r].dev
                        [] req[r].act = "lock" -> /\ row.state \in {"LOCKED"} \cup ConfirmStates
                                                  /\ row.lock = req[r].dev
                        [] req[r].act = "confirm" -> /\ row.state = req[r].to
                                                     /\ row.lock = req[r].dev
                                                     /\ row.amount = req[r].amt
                        [] OTHER -> Exists(req[r].tid)
    BY DEF ReportsTheTruth
  <2>1. Told(r) /\ Exists(req[r].tid)
    BY DEF RInv, Truths, IInv, Placed, PlacedRequest, Reporting
  <2>. QED BY <2>1 DEF Told, Reporting
<1>. QED BY <1>1, ReportsInvariant, PTL

(* Of all the requests that claim, reject or delete a token one is told    *)
(* that it succeeded, and of all confirmations one (token.ts 110, 405,     *)
(* 410).                                                                   *)
THEOREM WinsOnce == Spec => []OneWinner
<1>1. RInv => OneWinner
  BY DEF RInv
<1>. QED BY <1>1, ReportsInvariant, PTL

(* A plain code leads to one token that is still live, and a token that is *)
(* done has given up its codes (token.ts 110, 205-219, 237, 400-410).      *)
THEOREM CodesLive == Spec => []CodesOfLiveTokensOnly
<1>1. RInv => CodesOfLiveTokensOnly
  BY DEF RInv, Codes, CodeOfRow, Live, CodesOfLiveTokensOnly
<1>. QED BY <1>1, ReportsInvariant, PTL

(* A clearing row names the payer and the payee that follow from the type, *)
(* the owner and the device of a COMPLETED token (token.ts 225-234).       *)
THEOREM ClearingIsRight == Spec => []ClearingMatchesToken
<1>1. RInv => ClearingMatchesToken
  BY DEF RInv
<1>. QED BY <1>1, ReportsInvariant, PTL

(* Unless the process that confirmed it died, a COMPLETED token is settled *)
(* or a request is on its way to settle it (token.ts 190-199).             *)
THEOREM SettledOrInFlight == Spec => []UnsettledOnlyInFlight
<1>1. RInv => UnsettledOnlyInFlight
  BY DEF RInv
<1>. QED BY <1>1, ReportsInvariant, PTL

-----------------------------------------------------------------------------
(* Amounts: what a commit does, and where rows come from. *)

LEMMA CommitFacts ==
    ASSUME ConstantsAssumption, IInv, NEW r \in Request, ConfirmCommit(r)
    PROVE  /\ req[r].tid \in TokenId
           /\ IsLocked(req[r].tid)
           /\ req[r].to \in ConfirmStates
           /\ token'[req[r].tid].state = req[r].to
           /\ token'[req[r].tid].amount = req[r].amt
           /\ issued'[req[r].tid] = issued[req[r].tid]
           /\ req[r].child # NoToken =>
                /\ req[r].child \in TokenId /\ ~Exists(req[r].child)
                /\ token'[req[r].child] = req[r].row
                /\ issued'[req[r].child] = req[r].row.amount
                /\ req[r].row.state = "OPEN"
                /\ req[r].row.amount = token[req[r].tid].amount - req[r].amt
                /\ req[r].amt < token[req[r].tid].amount
           /\ \A q \in Request : ConfirmCommit(q) /\ req[q].tid = req[r].tid => q = r
<1> USE DEF IInv, TypeOK
<1> DEFINE t == req[r].tid
<1>1. /\ Confirming(r) /\ InTransaction(r)
      /\ req[r].pc = "commit"
      /\ t \in TokenId
  BY DEF ConfirmCommit, Confirming, InTransaction, Placed, PlacedRequest
<1>2. /\ IsLocked(t)
      /\ req[r].to \in ConfirmStates
      /\ req[r].child # NoToken =>
           /\ req[r].row.state = "OPEN"
           /\ req[r].row.amount = token[t].amount - req[r].amt
           /\ req[r].amt < token[t].amount
      /\ \A q \in Request \ {r} : InTransaction(q) => req[q].tid # t
  BY <1>1 DEF Confirmations, Confirmation
<1>3. /\ ConfirmedRow(token[t], req[r].to, req[r].amt).state = req[r].to
      /\ ConfirmedRow(token[t], req[r].to, req[r].amt).amount = req[r].amt
  <2>1. token[t] \in Row
    BY <1>1
  <2>. QED BY <2>1 DEF ConfirmedRow, Closed, Row
<1>4. token'[t] = ConfirmedRow(token[t], req[r].to, req[r].amt)
  BY <1>1 DEF ConfirmCommit
<1>5. req[r].child # NoToken => req[r].child \in TokenId /\ ~Exists(req[r].child)
  BY <1>1 DEF DrawnOnce, Drawn, Request_
<1>6. req[r].child # t
  BY <1>1, <1>2, <1>5 DEF ConstantsAssumption, Exists, IsLocked
<1>7. issued'[t] = issued[t]
  BY <1>1, <1>6 DEF ConfirmCommit
<1>8. req[r].child # NoToken => /\ token'[req[r].child] = req[r].row
                               /\ issued'[req[r].child] = req[r].row.amount
  BY <1>5, <1>6 DEF ConfirmCommit
<1>9. \A q \in Request : ConfirmCommit(q) /\ req[q].tid = t => q = r
  BY <1>2 DEF ConfirmCommit, InTransaction
<1>. QED BY <1>1, <1>2, <1>3, <1>4, <1>5, <1>7, <1>8, <1>9

\* The amounts of a token stay, it is confirmed, or it is inserted.
AmountsStay(t) == /\ token'[t].amount = token[t].amount
                  /\ issued'[t] = issued[t]
                  /\ token'[t].state # "NONE" => Exists(t)
Created(r, t) == /\ ~Exists(t)
                 /\ token'[t].state = "OPEN"
                 /\ token'[t].from = req[r].row.from
                 /\ token'[t].amount = issued'[t]

LEMMA AmountSteps ==
    ASSUME ConstantsAssumption, IInv, [Next]_vars, NEW t \in TokenId
    PROVE  \/ AmountsStay(t)
           \/ \E r \in Request : ConfirmCommit(r) /\ t \in {req[r].tid, req[r].child}
           \/ \E r \in Request : req[r].pc = "insert" /\ req[r].tid = t /\ Created(r, t)
<1> USE DEF IInv, TypeOK
<1>c. \A s \in State :
        /\ Closed(token[t], s).amount = token[t].amount
        /\ \A d \in Device : LockedRow(token[t], d, s).amount = token[t].amount
  <2>1. token[t] \in Row
    OBVIOUS
  <2>. QED BY <2>1 DEF Closed, LockedRow, Row
<1>1. ASSUME NEW r \in Request, Delete(r) PROVE AmountsStay(t)
  <2>1. PICK u \in TokenId :
          IsOpen(u) /\ token' = [token EXCEPT ![u] = Closed(@, "DELETED")]
    BY <1>1 DEF Delete
  <2>2. token'[t].amount = token[t].amount /\ (u = t \/ token'[t] = token[t])
    BY <1>c, <2>1 DEF State
  <2>. QED BY <1>1, <2>1, <2>2 DEF Delete, AmountsStay, IsOpen, Exists
<1>2. ASSUME NEW r \in Request, Update(r) PROVE AmountsStay(t)
  <2>1. PICK u \in TokenId, s \in ClearState, info \in BOOLEAN :
          token' = [token EXCEPT ![u] = UpdatedRow(token[u], s, info)]
    BY <1>2 DEF Update
  <2>2. token'[t].amount = token[t].amount /\ token'[t].state = token[t].state
    BY <2>1, UpdatedColumns
  <2>. QED BY <1>2, <2>2 DEF Update, AmountsStay, Exists
<1>3. ASSUME NEW r \in Request, ClaimExpire(r) PROVE AmountsStay(t)
  <2>1. token'[t] = IF IsExpired(t) THEN Closed(token[t], "EXPIRED") ELSE token[t]
    BY <1>3 DEF ClaimExpire
  <2>2. token'[t].amount = token[t].amount
    BY <1>c, <2>1 DEF State
  <2>3. token'[t].state # "NONE" => Exists(t)
    BY <2>1 DEF IsExpired, IsOpen, Exists
  <2>. QED BY <1>3, <2>2, <2>3 DEF ClaimExpire, AmountsStay
<1>4. ASSUME NEW r \in Request, CreateInsert(r)
      PROVE  AmountsStay(t) \/ (req[r].pc = "insert" /\ req[r].tid = t /\ Created(r, t))
  <2>1. CASE UNCHANGED <<token, issued>>
    <3>1. token'[t] = token[t] /\ issued'[t] = issued[t]
      BY <2>1
    <3>2. AmountsStay(t)
      BY <3>1 DEF AmountsStay, Exists
    <3>. QED BY <3>2
  <2>2. CASE ~UNCHANGED <<token, issued>>
    <3>1. PICK c \in CodeChoice :
            /\ token' = [token EXCEPT ![req[r].tid] =
                          [req[r].row EXCEPT !.plain = c, !.created = now]]
            /\ issued' = [issued EXCEPT ![req[r].tid] = req[r].row.amount]
      BY <1>4, <2>2 DEF CreateInsert
    <3>2. CASE req[r].tid # t
      <4>1. token'[t] = token[t] /\ issued'[t] = issued[t]
        BY <3>1, <3>2
      <4>2. AmountsStay(t)
        BY <4>1 DEF AmountsStay, Exists
      <4>. QED BY <4>2
    <3>3. CASE req[r].tid = t
      <4>1. /\ ~Exists(t)
            /\ req[r].row \in Row
            /\ req[r].row.state = "OPEN"
            /\ req[r].pc = "insert"
        BY <1>4, <3>3 DEF CreateInsert, Placed, PlacedRequest, DrawnOnce, Drawn, Request_
      <4>2. /\ token'[t] = [req[r].row EXCEPT !.plain = c, !.created = now]
            /\ issued'[t] = req[r].row.amount
        BY <3>1, <3>3
      <4>3. /\ token'[t].state = "OPEN"
            /\ token'[t].from = req[r].row.from
            /\ token'[t].amount = req[r].row.amount
        BY <4>1, <4>2 DEF Row
      <4>. QED BY <3>3, <4>1, <4>2, <4>3 DEF Created
    <3>. QED BY <3>2, <3>3
  <2>. QED BY <2>1, <2>2
<1>5. ASSUME NEW r \in Request, ClaimLock(r) PROVE AmountsStay(t)
  <2>1. CASE UNCHANGED token
    BY <1>5, <2>1 DEF ClaimLock, AmountsStay, Exists
  <2>2. CASE ~UNCHANGED token
    <3>1. /\ IsOpen(req[r].tid)
          /\ token' = [token EXCEPT ![req[r].tid] = LockedRow(@, req[r].dev, req[r].to)]
      BY <1>5, <2>2 DEF ClaimLock
    <3>2. req[r].dev \in Device /\ req[r].to \in State
      BY <1>5 DEF ClaimLock, Placed, PlacedRequest, Request_
    <3>3. /\ token'[t].amount = token[t].amount
          /\ req[r].tid = t \/ token'[t] = token[t]
      BY <1>c, <3>1, <3>2
    <3>. QED BY <1>5, <3>1, <3>3 DEF ClaimLock, AmountsStay, IsOpen, Exists
  <2>. QED BY <2>1, <2>2
<1>6. ASSUME NEW r \in Request, ConfirmCommit(r), t \notin {req[r].tid, req[r].child}
      PROVE  AmountsStay(t)
  BY <1>6 DEF ConfirmCommit, AmountsStay, Exists
<1>7. CASE UNCHANGED <<token, issued>>
  BY <1>7 DEF AmountsStay, Exists
<1>. QED
  BY <1>1, <1>2, <1>3, <1>4, <1>5, <1>6, <1>7
  DEF Next, Start, Continue, Fail, vars, Tick, CreateStart, ConfirmRead, CreateReread,
      CreateFails, ClaimFind, ConfirmUpdate, ConfirmRemainder, Notify, Reread,
      AddClearing, Abort

-----------------------------------------------------------------------------
(* What a request knows about amounts. *)

LEMMA OthersAmount ==
    ASSUME ConstantsAssumption, IInv, [Next]_vars, NEW q \in Request,
           AmountOfRequest(q), req'[q] = req[q]
    PROVE  AmountOfRequest(q)'
<1> USE DEF IInv
<1> DEFINE t == req[q].tid
<1>1. CASE req[q].pc # "commit"
  BY <1>1 DEF AmountOfRequest
<1>2. CASE req[q].pc = "commit"
  <2>1. InTransaction(q) /\ Confirming(q) /\ t \in TokenId
    BY <1>2 DEF InTransaction, Confirming, Placed, PlacedRequest
  <2>2. IsLocked(t)
    BY <2>1 DEF Confirmations, Confirmation
  <2>3. ASSUME NEW x \in Request, ConfirmCommit(x) PROVE req[x].tid # t
    <3>1. x # q
      BY <1>2, <2>3, ZenonT(60) DEF ConfirmCommit, TypeOK, Request_
    <3>2. InTransaction(x) /\ Confirming(x)
      BY <2>3 DEF ConfirmCommit, InTransaction, Confirming
    <3>. QED BY <2>1, <3>1, <3>2 DEF Confirmations, Confirmation
  <2>4. SameRow(token[t], token'[t])
    BY <2>1, <2>2, <2>3, LockedStays
  <2>5. /\ token'[t].amount = token[t].amount
        /\ token'[t].type = token[t].type
        /\ token'[t].device = token[t].device
        /\ token'[t].expires = token[t].expires
    BY <2>4 DEF SameRow
  <2>. QED BY <1>2, <2>5 DEF AmountOfRequest
<1>. QED BY <1>1, <1>2

LEMMA MoverAmount ==
    ASSUME ConstantsAssumption, Partial = {TRUE}, IInv, NEW r \in Request,
           AmountOfRequest(r), Start(r) \/ Continue(r) \/ Fail(r)
    PROVE  AmountOfRequest(r)'
<1> USE DEF IInv, TypeOK
<1>a. ASSUME req'[r].pc \notin {"insert", "created", "update", "remainder", "commit"}
      PROVE  AmountOfRequest(r)'
  BY <1>a DEF AmountOfRequest
<1>1. CASE Finish(r)
  BY <1>1, <1>a, IdleFields DEF Finish
<1>2. CASE CreateStart(r)
  <2>1. PICK d \in TokenDevice, type \in Type, a \in Amount, e \in Expiry, t \in TokenId :
          req' = [req EXCEPT ![r] = [Idle EXCEPT !.pc = "insert", !.act = "create",
                   !.dev = d, !.tid = t, !.row = NewRow(d, type, a, e), !.tries = Retries]]
    BY <1>2 DEF CreateStart
  <2>2. req'[r].pc = "insert" /\ req'[r].row = NewRow(d, type, a, e)
    BY <2>1, IdleType DEF Request_
  <2>3. NewRow(d, type, a, e).from = NoToken
    BY DEF NewRow, NoRow
  <2>. QED BY <2>2, <2>3 DEF AmountOfRequest
<1>3. CASE (CreateInsert(r) \/ CreateFails(r)) /\ ~Finish(r)
  <2>1. req[r].pc \in {"insert", "created"} /\ (Goto(r, "created") \/ Retry(r))
    BY <1>3 DEF CreateInsert, CreateFails
  <2>2. req[r].row \in Row /\ req[r].row.from = NoToken
    BY <2>1 DEF AmountOfRequest, Request_
  <2>3. CASE Goto(r, "created")
    <3>1. req'[r].pc = "created" /\ req'[r].row = req[r].row
      BY <2>3 DEF Goto, Request_
    <3>. QED BY <2>2, <3>1 DEF AmountOfRequest
  <2>4. CASE Retry(r)
    <3>1. PICK t \in TokenId :
            req' = [req EXCEPT ![r] = [req[r] EXCEPT
                      !.pc = "insert", !.tid = t, !.row = EncodedAgain(req[r].row),
                      !.tries = req[r].tries - 1]]
      BY <1>3, <2>4 DEF Retry
    <3>2. req'[r].pc = "insert" /\ req'[r].row = EncodedAgain(req[r].row)
      BY <3>1 DEF Request_
    <3>3. EncodedAgain(req[r].row).from = req[r].row.from
      BY <2>2 DEF EncodedAgain, Row
    <3>. QED BY <2>2, <3>2, <3>3 DEF AmountOfRequest
  <2>. QED BY <2>1, <2>3, <2>4
<1>4. CASE Delete(r)
  <2>1. req'[r].pc = "notify"
    BY <1>4, IdleType DEF Delete, Request_
  <2>. QED BY <2>1, <1>a
<1>5. CASE Update(r)
  <2>1. req'[r].pc = "reread"
    BY <1>5, IdleType DEF Update, Request_
  <2>. QED BY <2>1, <1>a
<1>6. CASE ClaimExpire(r)
  <2>1. req'[r].pc = "find"
    BY <1>6, IdleType DEF ClaimExpire, Request_
  <2>. QED BY <2>1, <1>a
<1>7. CASE ClaimFind(r) /\ ~Finish(r)
  <2>1. PICK t \in TokenId, to \in {"LOCKED", "REJECTED"} :
          req' = [req EXCEPT ![r] = [req[r] EXCEPT !.pc = "lock", !.tid = t,
                    !.act = IF to = "LOCKED" THEN "lock" ELSE "reject",
                    !.code = NoCode, !.right = FALSE, !.to = to]]
    BY <1>7 DEF ClaimFind, Verdict
  <2>2. req'[r].pc = "lock"
    BY <2>1 DEF Request_
  <2>. QED BY <2>2, <1>a
<1>8. CASE (ClaimLock(r) \/ Notify(r) \/ Reread(r)) /\ ~Finish(r)
  <2>1. PICK pc \in {"notify", "reread", "clear"} : Goto(r, pc)
    BY <1>8 DEF ClaimLock, Notify, Reread
  <2>2. req'[r].pc = pc
    BY <2>1 DEF Goto, Request_
  <2>. QED BY <2>2, <1>a
<1>9. CASE ConfirmCommit(r)
  <2>1. req'[r].pc = "notify"
    BY <1>9 DEF ConfirmCommit, Request_
  <2>. QED BY <2>1, <1>a
<1>10. CASE ConfirmRead(r)
  <2>1. PICK t \in TokenId, d \in CashDevice, to \in Outcome, p \in Partial,
             child \in TokenId \cup {NoToken} :
        \E a \in Amount \cup {token[t].amount} :
          /\ Exists(t)
          /\ MayConfirm(token[t], d, a)
          /\ IF p /\ a < token[t].amount
             THEN child # NoToken /\ Fresh(child)
             ELSE child = NoToken
          /\ req' = [req EXCEPT ![r] = [Idle EXCEPT !.pc = "update", !.act = "confirm",
                   !.dev = d, !.tid = t, !.row = token[t], !.to = to, !.amt = a,
                   !.child = child]]
    BY <1>10 DEF ConfirmRead
  <2>2. PICK a \in Amount \cup {token[t].amount} :
          /\ Exists(t)
          /\ MayConfirm(token[t], d, a)
          /\ IF p /\ a < token[t].amount
             THEN child # NoToken /\ Fresh(child)
             ELSE child = NoToken
          /\ req' = [req EXCEPT ![r] = [Idle EXCEPT !.pc = "update", !.act = "confirm",
                   !.dev = d, !.tid = t, !.row = token[t], !.to = to, !.amt = a,
                   !.child = child]]
    BY <2>1
  <2>3. /\ req'[r].pc = "update"
        /\ req'[r].row = token[t]
        /\ req'[r].amt = a
        /\ req'[r].child = child
    BY <2>2, IdleType DEF Request_
  <2>4. token[t].amount \in Int /\ a \in Int /\ p = TRUE
    BY DEF Row, ConstantsAssumption
  <2>5. /\ token[t].type = "CASHOUT" => a <= token[t].amount
        /\ child = NoToken => a >= token[t].amount
    BY <2>2, <2>4 DEF MayConfirm
  <2>. QED BY <2>3, <2>5 DEF AmountOfRequest
<1>11. CASE ConfirmUpdate(r) /\ ~Finish(r)
  <2> DEFINE t == req[r].tid
  <2>1. PICK pc \in {"remainder", "commit"} :
          /\ req[r].pc = "update"
          /\ IsLocked(t)
          /\ Goto(r, pc)
          /\ UNCHANGED token
          /\ pc = "commit" <=> req[r].child = NoToken
    BY <1>11 DEF ConfirmUpdate
  <2>2. /\ req'[r].pc = pc
        /\ req'[r].tid = t
        /\ req'[r].row = req[r].row
        /\ req'[r].amt = req[r].amt
        /\ req'[r].child = req[r].child
    BY <2>1 DEF Goto, Request_
  <2>3. SameRow(req[r].row, token[t])
    BY <2>1 DEF Confirmations, Confirmation, Confirming
  <2>4. req[r].row.type = token[t].type /\ req[r].row.amount = token[t].amount
    BY <2>3 DEF SameRow
  <2>. QED BY <2>1, <2>2, <2>4 DEF AmountOfRequest
<1>12. CASE ConfirmRemainder(r)
  <2> DEFINE t == req[r].tid
             row == RemainderRow(req[r].row, t, req[r].row.amount - req[r].amt)
  <2>1. /\ req[r].pc = "remainder"
        /\ UNCHANGED token
        /\ req' = [req EXCEPT ![r] = [req[r] EXCEPT !.pc = "commit", !.row = row]]
    BY <1>12 DEF ConfirmRemainder
  <2>2. /\ req'[r].pc = "commit"
        /\ req'[r].tid = t
        /\ req'[r].row = row
        /\ req'[r].amt = req[r].amt
        /\ req'[r].child = req[r].child
    BY <2>1 DEF Request_
  <2>3. req[r].child # NoToken /\ SameRow(req[r].row, token[t])
    BY <2>1 DEF Confirmations, Confirmation, Confirming, InTransaction
  <2>4. req[r].row \in Row
    BY DEF Request_
  <2>5. /\ row.from = t
        /\ row.type = req[r].row.type
        /\ row.device = req[r].row.device
        /\ row.expires = req[r].row.expires
    BY <2>4 DEF RemainderRow, Row
  <2> HIDE DEF row
  <2>6. /\ row.from = t
        /\ \A f \in {"type", "device", "expires"} : row[f] = token[t][f]
    BY <2>3, <2>5 DEF SameRow
  <2>7. token[t].type = "CASHOUT" => req[r].amt <= token[t].amount
    BY <2>1, <2>3 DEF SameRow, AmountOfRequest
  <2>. QED BY <2>1, <2>2, <2>3, <2>6, <2>7 DEF AmountOfRequest
<1>. QED
  BY <1>1, <1>2, <1>3, <1>4, <1>5, <1>6, <1>7, <1>8, <1>9, <1>10, <1>11, <1>12
  DEF Start, Continue, Fail, CreateReread, AddClearing, Abort

-----------------------------------------------------------------------------
(* Partial cashouts add up. *)

Kid(c, t) == Exists(c) /\ token[c].from = t

LEMMA KidSteps ==
    ASSUME ConstantsAssumption, RInv, \A r \in Request : AmountOfRequest(r), [Next]_vars,
           NEW t \in TokenId, NEW c \in TokenId
    PROVE  /\ Kid(c, t) => Kid(c, t)'
           /\ Kid(c, t)' => \/ Kid(c, t)
                            \/ \E r \in Request : /\ ConfirmCommit(r)
                                                  /\ req[r].child = c
                                                  /\ req[r].tid = t
<1> USE DEF RInv
<1>1. Exists(c) => /\ Exists(c)'
                   /\ token'[c].from = token[c].from
  BY RowFates, RowSteps DEF RowFate, RowStep, Exists
<1>2. ASSUME Kid(c, t)', ~Exists(c)
      PROVE  \E r \in Request : ConfirmCommit(r) /\ req[r].child = c /\ req[r].tid = t
  <2>1. token'[c].state # "NONE" /\ token'[c].from = t
    BY <1>2 DEF Kid, Exists
  <2>2. ASSUME NEW r \in Request, req[r].pc = "insert", Created(r, c) PROVE FALSE
    BY <2>1, <2>2 DEF Created, AmountOfRequest, ConstantsAssumption
  <2>3. PICK r \in Request : ConfirmCommit(r) /\ c \in {req[r].tid, req[r].child}
    BY <1>2, <2>1, <2>2, AmountSteps DEF AmountsStay
  <2>4. req[r].child = c /\ c # NoToken
    BY <1>2, <2>3, CommitFacts DEF Exists, IsLocked, ConstantsAssumption
  <2>5. token'[c] = req[r].row /\ req[r].row.from = req[r].tid
    BY <2>3, <2>4, CommitFacts DEF AmountOfRequest, ConfirmCommit
  <2>. QED BY <2>1, <2>3, <2>4, <2>5
<1>. QED BY <1>1, <1>2 DEF Kid

LEMMA AddsUpStep ==
    ASSUME ConstantsAssumption, AInv, [Next]_vars
    PROVE  RemainderAddsUp' /\ \A t \in TokenId : AmountOfRow(t)'
<1> USE DEF AInv, RInv, IInv, TypeOK
<1> SUFFICES ASSUME NEW t \in TokenId
             PROVE  /\ AmountOfRow(t)'
                    /\ \A c \in TokenId : Kid(c, t)' =>
                         /\ \A d \in TokenId : Kid(d, t)' => d = c
                         /\ token'[t].state \in ConfirmStates
                         /\ token'[t].amount + issued'[c] = issued'[t]
                         /\ token'[t].amount < issued'[t]
                         /\ \A f \in {"type", "device", "expires"} :
                              token'[c][f] = token'[t][f]
                    /\ token'[t].state \in ConfirmStates /\ token'[t].amount < issued'[t]
                         => \E c \in TokenId : Kid(c, t)'
                    /\ token'[t].amount > issued'[t]
                         => /\ token'[t].type # "CASHOUT"
                            /\ token'[t].state \in ConfirmStates
  BY DEF RemainderAddsUp, Children, Kid
\* The same, before the step.
<1>0. /\ AmountOfRow(t)
      /\ \A c \in TokenId : Kid(c, t) =>
           /\ \A d \in TokenId : Kid(d, t) => d = c
           /\ token[t].state \in ConfirmStates
           /\ token[t].amount + issued[c] = issued[t]
           /\ token[t].amount < issued[t]
           /\ \A f \in {"type", "device", "expires"} : token[c][f] = token[t][f]
      /\ token[t].state \in ConfirmStates /\ token[t].amount < issued[t]
           => \E c \in TokenId : Kid(c, t)
      /\ token[t].amount > issued[t]
           => token[t].type # "CASHOUT" /\ token[t].state \in ConfirmStates
  <2>1. ASSUME NEW c \in TokenId, Kid(c, t)
        PROVE  /\ Children(t) = {c}
               /\ token[t].state \in ConfirmStates
               /\ token[t].amount + issued[c] = issued[t]
               /\ token[t].amount < issued[t]
               /\ \A f \in {"type", "device", "expires"} : token[c][f] = token[t][f]
    <3>1. c \in Children(t)
      BY <2>1 DEF Children, Kid
    <3>. QED BY <3>1 DEF RemainderAddsUp
  <2>2. ASSUME NEW c \in TokenId, Kid(c, t), NEW d \in TokenId, Kid(d, t) PROVE d = c
    <3>1. d \in Children(t)
      BY <2>2 DEF Children, Kid
    <3>. QED BY <2>1, <2>2, <3>1
  <2>3. Children(t) # {} => \E c \in TokenId : Kid(c, t)
    BY DEF Children, Kid
  <2>4. /\ token[t].state \in ConfirmStates /\ token[t].amount < issued[t]
             => Children(t) # {}
        /\ token[t].amount > issued[t]
             => token[t].type # "CASHOUT" /\ token[t].state \in ConfirmStates
    BY DEF RemainderAddsUp
  <2>. QED BY <2>1, <2>2, <2>3, <2>4
<1>1. ASSUME NEW c \in TokenId, Exists(c)
      PROVE  /\ Exists(c)'
             /\ \A f \in {"type", "device", "expires"} : token'[c][f] = token[c][f]
             /\ issued'[c] = issued[c]
             /\ token[c].state \in ConfirmStates => /\ token'[c].state = token[c].state
                                                   /\ token'[c].amount = token[c].amount
             /\ token'[c].state \in ConfirmStates /\ token[c].state \notin ConfirmStates
                  => token[c].amount = issued[c]
  <2>1. RowFate(c) /\ RowStep(c)
    BY RowFates, RowSteps
  <2>2. token[c].state \in ConfirmStates => Ended(c)
    BY DEF ConfirmStates, Ended, Live, Exists
  <2>3. \A r \in Request : ConfirmCommit(r) => req[r].child # c
    BY <1>1, CommitFacts DEF ConstantsAssumption
  <2>4. issued'[c] = issued[c]
    BY <1>1, <2>3, CommitFacts, AmountSteps DEF AmountsStay, Created
  <2>. QED BY <1>1, <2>1, <2>2, <2>4 DEF RowFate, RowStep, AmountOfRow, Exists
<1>2. CASE \E r \in Request : ConfirmCommit(r) /\ req[r].tid = t
  <2>1. PICK r \in Request : ConfirmCommit(r) /\ req[r].tid = t
    BY <1>2
  <2>2. /\ IsLocked(t)
        /\ req[r].to \in ConfirmStates
        /\ token'[t].state = req[r].to
        /\ token'[t].amount = req[r].amt
        /\ \A q \in Request : ConfirmCommit(q) /\ req[q].tid = t => q = r
    BY <2>1, CommitFacts
  <2>3. /\ token[t].state \notin ConfirmStates
        /\ Exists(t)
        /\ token[t].amount = issued[t]
        /\ issued'[t] = issued[t]
    BY <1>0, <2>1, <2>2, CommitFacts DEF IsLocked, ConfirmStates, Exists, AmountOfRow
  <2>4. \A c \in TokenId : Kid(c, t)' => c = req[r].child
    BY <1>0, <2>2, <2>3, KidSteps
  <2>5. ASSUME req[r].child # NoToken
        PROVE  \E c \in TokenId :
                 /\ c = req[r].child
                 /\ Kid(c, t)'
                 /\ token'[t].amount + issued'[c] = issued'[t]
                 /\ token'[t].amount < issued'[t]
                 /\ \A f \in {"type", "device", "expires"} : token'[c][f] = token'[t][f]
    <3>0. PICK c \in TokenId : c = req[r].child
      BY <2>1, <2>5, CommitFacts
    <3>1. /\ c \in TokenId /\ ~Exists(c)
          /\ token'[c] = req[r].row
          /\ issued'[c] = req[r].row.amount
          /\ req[r].row.state = "OPEN"
          /\ req[r].row.amount = token[t].amount - req[r].amt
          /\ req[r].amt < token[t].amount
      BY <2>1, <2>5, <3>0, CommitFacts
    <3>2. /\ req[r].row.from = t
          /\ \A f \in {"type", "device", "expires"} : req[r].row[f] = token[t][f]
      BY <2>1, <2>5 DEF AmountOfRequest, ConfirmCommit
    <3>3. token[t].amount \in Int /\ req[r].amt \in Int
      BY DEF Row, Request_
    <3>4. \A f \in {"type", "device", "expires"} : token'[c][f] = token'[t][f]
      BY <1>1, <2>3, <3>1, <3>2
    <3>5. Kid(c, t)'
      BY <3>1, <3>2 DEF Kid, Exists
    <3>6. token'[t].amount + issued'[c] = issued'[t] /\ token'[t].amount < issued'[t]
      BY <2>2, <2>3, <3>1, <3>3
    <3>. QED BY <3>0, <3>4, <3>5, <3>6
  <2>6. /\ req[r].child = NoToken => req[r].amt >= token[t].amount
        /\ req[r].amt > token[t].amount => token[t].type # "CASHOUT"
    <3>1. token[t].amount \in Int /\ req[r].amt \in Int
      BY DEF Row, Request_
    <3>2. req[r].pc = "commit"
      BY <2>1 DEF ConfirmCommit
    <3>3. req[r].child # NoToken => req[r].amt < token[t].amount
      BY <2>1, CommitFacts
    <3>. QED BY <2>1, <3>1, <3>2, <3>3 DEF AmountOfRequest
  <2>7. token'[t].type = token[t].type
    BY <1>1, <2>3
  <2>8. AmountOfRow(t)'
    BY <2>2 DEF AmountOfRow
  <2>9. ASSUME NEW c \in TokenId, Kid(c, t)'
        PROVE  /\ \A d \in TokenId : Kid(d, t)' => d = c
               /\ token'[t].state \in ConfirmStates
               /\ token'[t].amount + issued'[c] = issued'[t]
               /\ token'[t].amount < issued'[t]
               /\ \A f \in {"type", "device", "expires"} : token'[c][f] = token'[t][f]
    <3>1. c = req[r].child /\ c # NoToken
      BY <2>4, <2>9 DEF ConstantsAssumption
    <3>. QED BY <2>2, <2>4, <2>5, <3>1
  <2>10. token'[t].amount < issued'[t] => \E c \in TokenId : Kid(c, t)'
    <3>1. token[t].amount \in Int /\ req[r].amt \in Int
      BY DEF Row, Request_
    <3>. QED BY <2>2, <2>3, <2>5, <2>6, <3>1
  <2>11. token'[t].amount > issued'[t]
           => token'[t].type # "CASHOUT" /\ token'[t].state \in ConfirmStates
    BY <2>2, <2>3, <2>6, <2>7
  <2>. QED BY <2>8, <2>9, <2>10, <2>11
<1>3. CASE ~\E r \in Request : ConfirmCommit(r) /\ req[r].tid = t
  <2>1. \A c \in TokenId : Kid(c, t)' <=> Kid(c, t)
    BY <1>3, KidSteps
  <2>2. CASE Exists(t)
    <3>1. token'[t].amount = token[t].amount /\ issued'[t] = issued[t]
      BY <1>1, <1>3, <2>2, AmountSteps, CommitFacts
      DEF AmountsStay, Created, ConstantsAssumption
    <3>2. token'[t].state \notin ConfirmStates => token[t].state \notin ConfirmStates
      BY <1>1, <2>2
    <3>3. AmountOfRow(t)'
      BY <1>0, <3>1, <3>2 DEF AmountOfRow
    <3>4. ASSUME NEW c \in TokenId, Kid(c, t)'
          PROVE  /\ \A d \in TokenId : Kid(d, t)' => d = c
                 /\ token'[t].state \in ConfirmStates
                 /\ token'[t].amount + issued'[c] = issued'[t]
                 /\ token'[t].amount < issued'[t]
                 /\ \A f \in {"type", "device", "expires"} : token'[c][f] = token'[t][f]
      <4>1. Kid(c, t) /\ Exists(c)
        BY <2>1, <3>4 DEF Kid
      <4>2. issued'[c] = issued[c] /\ token'[t].state = token[t].state
        BY <1>0, <1>1, <2>2, <4>1
      <4>3. \A f \in {"type", "device", "expires"} : token'[c][f] = token'[t][f]
        BY <1>0, <1>1, <2>2, <4>1
      <4>. QED BY <1>0, <2>1, <3>1, <4>1, <4>2, <4>3
    <3>5. token'[t].state \in ConfirmStates /\ token'[t].amount < issued'[t]
            => \E c \in TokenId : Kid(c, t)'
      BY <1>0, <1>1, <2>1, <2>2, <3>1 DEF Row
    <3>6. token'[t].amount > issued'[t]
            => token'[t].type # "CASHOUT" /\ token'[t].state \in ConfirmStates
      BY <1>0, <1>1, <2>2, <3>1
    <3>. QED BY <3>3, <3>4, <3>5, <3>6
  <2>3. CASE ~Exists(t)
    <3>1. token[t].state = "NONE" /\ token[t].state \notin ConfirmStates
      BY <2>3 DEF Exists, ConfirmStates
    <3>2. \A c \in TokenId : ~Kid(c, t)'
      BY <1>0, <2>1, <3>1
    <3>3. token'[t].amount = issued'[t] /\ token'[t].state \notin ConfirmStates
      <4>1. CASE AmountsStay(t)
        BY <1>0, <2>3, <3>1, <4>1 DEF AmountsStay, AmountOfRow, ConfirmStates
      <4>2. CASE \E r \in Request : req[r].pc = "insert" /\ Created(r, t)
        BY <4>2 DEF Created, ConfirmStates
      <4>3. CASE \E r \in Request : ConfirmCommit(r) /\ t \in {req[r].tid, req[r].child}
        <5>1. PICK r \in Request : ConfirmCommit(r) /\ req[r].child = t /\ t # NoToken
          BY <1>3, <4>3 DEF ConstantsAssumption
        <5>2. /\ token'[t] = req[r].row
              /\ issued'[t] = req[r].row.amount
              /\ req[r].row.state = "OPEN"
          BY <5>1, CommitFacts
        <5>. QED BY <5>2 DEF ConfirmStates
      <4>. QED BY <4>1, <4>2, <4>3, AmountSteps
    <3>4. token'[t].amount \in Int /\ issued'[t] \in Int
      <4>1. TypeOK'
        BY TypeStep
      <4>. QED BY <4>1 DEF Row
    <3>. QED BY <3>2, <3>3, <3>4 DEF AmountOfRow
  <2>. QED BY <2>2, <2>3
<1>. QED BY <1>2, <1>3

LEMMA RStep == ConstantsAssumption /\ RInv /\ [Next]_vars => RInv'
BY Inductive, SoundSteps, WinnerStep, ClearingStep, UnsettledStep DEF RInv

LEMMA AmountsInductive ==
    ASSUME ConstantsAssumption, Partial = {TRUE}, AInv, [Next]_vars
    PROVE  AInv'
<1>1. RInv'
  BY RStep DEF AInv
<1>2. \A r \in Request : AmountOfRequest(r)'
  <2>1. CASE UNCHANGED req
    BY <2>1, OthersAmount DEF AInv, RInv
  <2>2. CASE ~UNCHANGED req
    <3>1. PICK r \in Request : /\ Start(r) \/ Continue(r) \/ Fail(r)
                               /\ \A q \in Request \ {r} : req'[q] = req[q]
      BY <2>2, OneMoves DEF AInv, RInv
    <3>2. AmountOfRequest(r)'
      BY <3>1, MoverAmount DEF AInv, RInv
    <3>. QED BY <3>1, <3>2, OthersAmount DEF AInv, RInv
  <2>. QED BY <2>1, <2>2
<1>. QED BY <1>1, <1>2, AddsUpStep DEF AInv

LEMMA InitAmounts == ConstantsAssumption /\ Init => AInv
<1> SUFFICES ASSUME ConstantsAssumption, Init PROVE AInv
  OBVIOUS
<1>1. RInv
  BY InitReports
<1>2. /\ \A t \in TokenId : token[t] = NoRow /\ issued[t] = 0
      /\ \A r \in Request : req[r].pc = "idle"
  BY IdleFields DEF Init
<1>3. NoRow.state = "NONE" /\ NoRow.amount = 0
  BY DEF NoRow
<1>4. \A t \in TokenId : AmountOfRow(t)
  BY <1>2, <1>3 DEF AmountOfRow
<1>5. \A r \in Request : AmountOfRequest(r)
  BY <1>2 DEF AmountOfRequest
<1>6. \A t \in TokenId : Children(t) = {}
  BY <1>2, <1>3 DEF Children, Exists
<1>7. RemainderAddsUp
  BY <1>2, <1>3, <1>6 DEF RemainderAddsUp, ConfirmStates
<1>. QED BY <1>1, <1>4, <1>5, <1>7 DEF AInv

(* With PARTIAL_CASHOUTS on, what is paid and what the remainder carries   *)
(* add up to the amount a token was issued with, for any number of         *)
(* partial cashouts in a row and whatever fails (token.ts 172-190,         *)
(* 205-223).                                                               *)
THEOREM AddsUp ==
    ASSUME Partial = {TRUE}
    PROVE  Spec => []RemainderAddsUp
<1>1. Init => AInv
  BY ConstantsAssumption, InitAmounts
<1>2. AInv /\ [Next]_vars => AInv'
  BY ConstantsAssumption, AmountsInductive
<1>3. AInv => RemainderAddsUp
  BY DEF AInv
<1>. QED BY <1>1, <1>2, <1>3, PTL DEF Spec

-----------------------------------------------------------------------------
(* Journal and notifications: how the state of a token changes. *)

NowReports(r, t) == /\ req'[r].pc = "notify"
                    /\ req'[r].tid = t
                    /\ req'[r].act \in {"delete", "lock", "reject", "confirm"}

LEMMA StateSteps ==
    ASSUME ConstantsAssumption, RInv, [Next]_vars, NEW t \in TokenId
    PROVE  \/ token'[t].state = token[t].state
           \/ token'[t].state = "EXPIRED" /\ IsOpen(t) /\ token'[t].lock = NoDevice
           \/ /\ token'[t].state = "OPEN"
              /\ \E r \in Request : /\ req[r].pc = "insert" /\ req[r].tid = t
                                    /\ req'[r].pc = "created" /\ req'[r].tid = t
           \/ /\ token'[t].state = "OPEN"
              /\ \E r \in Request : ConfirmCommit(r) /\ req[r].child = t
           \/ /\ Exists(t)
              /\ \E r \in Request : NowReports(r, t)
              /\ token'[t].state # "EXPIRED"
              /\ token'[t].state = "DELETED" => token'[t].lock = NoDevice
<1> USE DEF RInv, IInv, TypeOK
<1>1. ASSUME NEW r \in Request, Delete(r), token'[t].state # token[t].state
      PROVE  /\ NowReports(r, t)
             /\ Exists(t)
             /\ token'[t].lock = NoDevice
             /\ token'[t].state # "EXPIRED"
  <2>1. PICK u \in TokenId :
          /\ IsOpen(u)
          /\ token' = [token EXCEPT ![u] = Closed(@, "DELETED")]
          /\ req' = [req EXCEPT ![r] = [Idle EXCEPT !.pc = "notify", !.tid = u,
                       !.act = "delete", !.dev = token[u].device]]
    BY <1>1 DEF Delete
  <2>2. u = t
    BY <1>1, <2>1
  <2>3. /\ req'[r].pc = "notify"
        /\ req'[r].tid = t
        /\ req'[r].act = "delete"
    BY <2>1, <2>2, IdleType DEF Request_
  <2>4. token'[t].lock = token[t].lock
    BY <2>1, <2>2, ClosedRow DEF State
  <2>5. token'[t].state = "DELETED"
    BY <2>1, <2>2, ClosedRow DEF State
  <2>. QED BY <2>1, <2>2, <2>3, <2>4, <2>5
       DEF NowReports, Placed, PlacedRow, IsOpen, Exists
<1>2. ASSUME NEW r \in Request, Update(r) PROVE token'[t].state = token[t].state
  <2>1. PICK u \in TokenId, s \in ClearState, info \in BOOLEAN :
          token' = [token EXCEPT ![u] = UpdatedRow(token[u], s, info)]
    BY <1>2 DEF Update
  <2>. QED BY <2>1, UpdatedColumns
<1>3. ASSUME NEW r \in Request, ClaimExpire(r), token'[t].state # token[t].state
      PROVE  token'[t].state = "EXPIRED" /\ IsOpen(t) /\ token'[t].lock = NoDevice
  <2>1. IsExpired(t) /\ token'[t] = Closed(token[t], "EXPIRED")
    BY <1>3 DEF ClaimExpire
  <2>2. token'[t].state = "EXPIRED" /\ token'[t].lock = token[t].lock
    BY <2>1, ClosedRow DEF State
  <2>. QED BY <2>1, <2>2 DEF IsExpired, IsOpen, Placed, PlacedRow
<1>4. ASSUME NEW r \in Request, CreateInsert(r), token'[t].state # token[t].state
      PROVE  /\ token'[t].state = "OPEN"
             /\ req[r].pc = "insert" /\ req[r].tid = t
             /\ req'[r].pc = "created" /\ req'[r].tid = t
  <2>1. PICK c \in CodeChoice :
          /\ token'[t] = [req[r].row EXCEPT !.plain = c, !.created = now]
          /\ Goto(r, "created")
          /\ req[r].tid = t
          /\ req[r].pc = "insert"
    BY <1>4 DEF CreateInsert
  <2>2. req[r].row \in Row /\ req[r].row.state = "OPEN"
    BY <2>1 DEF Placed, PlacedRequest, Request_
  <2>3. token'[t].state = "OPEN"
    BY <2>1, <2>2 DEF Row
  <2>. QED BY <2>1, <2>3 DEF Goto, Request_
<1>5. ASSUME NEW r \in Request, ClaimLock(r), token'[t].state # token[t].state
      PROVE  Exists(t) /\ NowReports(r, t) /\ token'[t].state \notin {"DELETED", "EXPIRED"}
  <2>1. /\ Goto(r, "notify")
        /\ req[r].tid = t
        /\ req[r].pc = "lock"
        /\ token'[t] = LockedRow(token[t], req[r].dev, req[r].to)
        /\ Exists(t)
    BY <1>5 DEF ClaimLock, IsOpen, Exists
  <2>2. req[r].to \in {"LOCKED", "REJECTED"} /\ req[r].act \in {"lock", "reject"}
    BY <2>1 DEF Placed, PlacedRequest, Truths, Deed
  <2>3. token[t] \in Row
    OBVIOUS
  <2>4. LockedRow(token[t], req[r].dev, req[r].to).state = req[r].to
    BY <2>2, <2>3 DEF LockedRow, Closed, Row
  <2>5. /\ req'[r].pc = "notify"
        /\ req'[r].tid = t
        /\ req'[r].act = req[r].act
    BY <2>1 DEF Goto, Request_
  <2>. QED BY <2>1, <2>2, <2>4, <2>5 DEF NowReports
<1>6. ASSUME NEW r \in Request, ConfirmCommit(r), token'[t].state # token[t].state
      PROVE  \/ req[r].child = t /\ token'[t].state = "OPEN"
             \/ /\ Exists(t) /\ NowReports(r, t)
                /\ token'[t].state \notin {"DELETED", "EXPIRED"}
  <2>0. req[r].child = t => token'[t].state = "OPEN"
    BY <1>6, CommitFacts DEF ConstantsAssumption
  <2>1. CASE req[r].tid = t
    <3>1. token'[t].state \in ConfirmStates
      BY <1>6, <2>1, CommitFacts
    <3>2. /\ req'[r].pc = "notify"
          /\ req'[r].tid = t
          /\ req'[r].act = req[r].act
      BY <1>6, <2>1 DEF ConfirmCommit, Request_
    <3>3. req[r].act = "confirm"
      BY <1>6 DEF ConfirmCommit, Truths, Deed, Confirming
    <3>4. Exists(t)
      BY <1>6, <2>1, CommitFacts DEF IsLocked, Exists
    <3>. QED BY <3>1, <3>2, <3>3, <3>4 DEF NowReports, ConfirmStates
  <2>2. CASE req[r].tid # t
    BY <1>6, <2>0, <2>2 DEF ConfirmCommit
  <2>. QED BY <2>1, <2>2
<1>7. CASE UNCHANGED token
  BY <1>7
<1>. QED
  BY <1>1, <1>2, <1>3, <1>4, <1>5, <1>6, <1>7
  DEF Next, Start, Continue, Fail, vars, Tick, CreateStart, ConfirmRead, CreateReread,
      CreateFails, ClaimFind, ConfirmUpdate, ConfirmRemainder, Notify, Reread,
      AddClearing, Abort

LEMMA HistoryGrows ==
    ASSUME [Next]_vars
    PROVE  orphaned \subseteq orphaned' /\ sent \subseteq sent'
BY DEF Next, Start, Continue, Fail, vars, Tick, CreateStart, ConfirmRead, CreateReread,
   CreateFails, ClaimFind, ConfirmUpdate, ConfirmRemainder, Notify, Reread, Abort,
   Delete, Update, ClaimExpire, CreateInsert, ClaimLock, ConfirmCommit, AddClearing,
   Journalized

\* What an owner has seen of a token changes to what the table holds.
LEMMA SeenSteps ==
    ASSUME IInv, [Next]_vars, NEW c \in Customer, NEW t \in TokenId
    PROVE  seen'[c][t] = seen[c][t] \/ seen'[c][t] = token[t].state
<1>1. ASSUME NEW S, NEW u, seen' = Notified(S, u)
      PROVE  seen'[c][t] = seen[c][t] \/ seen'[c][t] = token[t].state
  BY <1>1 DEF Notified, IInv, TypeOK
<1>2. CASE UNCHANGED seen
  BY <1>2
<1>3. UNCHANGED seen \/ \E S, u : seen' = Notified(S, u)
  BY DEF Next, Start, Continue, Fail, vars, Tick, CreateStart, ConfirmRead, CreateReread,
     CreateFails, ClaimFind, ConfirmUpdate, ConfirmRemainder, Notify, Reread, Abort,
     Delete, Update, ClaimExpire, CreateInsert, ClaimLock, ConfirmCommit, AddClearing
<1>. QED BY <1>1, <1>2, <1>3

-----------------------------------------------------------------------------
(* The devices a request names. *)

LEMMA OthersReason ==
    ASSUME ConstantsAssumption, IInv, [Next]_vars, NEW q \in Request, Reason(q),
           req'[q] = req[q]
    PROVE  Reason(q)'
<1>1. req[q].pc \in {"created", "notify", "reread"} =>
        token'[req[q].tid].device = token[req[q].tid].device
  BY RowSteps DEF RowStep, IInv, Placed, PlacedRequest
<1>. QED BY <1>1 DEF Reason, Reporting

LEMMA MoverReason ==
    ASSUME ConstantsAssumption, RInv, [Next]_vars, NEW r \in Request, Reason(r),
           Start(r) \/ Continue(r) \/ Fail(r)
    PROVE  Reason(r)'
<1> USE DEF RInv, IInv, TypeOK
<1>a. ASSUME req'[r].pc \notin {"insert", "created", "commit", "notify", "reread"}
      PROVE  Reason(r)'
  BY <1>a DEF Reason, Reporting
<1>1. CASE Finish(r)
  BY <1>1, <1>a, IdleFields DEF Finish
<1>2. CASE CreateStart(r)
  <2>1. PICK d \in TokenDevice, type \in Type, a \in Amount, e \in Expiry, t \in TokenId :
          req' = [req EXCEPT ![r] = [Idle EXCEPT !.pc = "insert", !.act = "create",
                   !.dev = d, !.tid = t, !.row = NewRow(d, type, a, e), !.tries = Retries]]
    BY <1>2 DEF CreateStart
  <2>2. req'[r].pc = "insert" /\ req'[r].row = NewRow(d, type, a, e) /\ req'[r].dev = d
    BY <2>1, IdleType DEF Request_
  <2>3. NewRow(d, type, a, e).device = d
    BY DEF NewRow, NoRow
  <2>. QED BY <2>2, <2>3 DEF Reason, Reporting
<1>3. CASE (CreateInsert(r) \/ CreateFails(r)) /\ Retry(r) /\ ~Finish(r)
  <2>1. req[r].pc \in {"insert", "created"}
    BY <1>3 DEF CreateInsert, CreateFails
  <2>2. req[r].row \in Row /\ req[r].row.device = req[r].dev
    BY <2>1 DEF Reason, Request_
  <2>3. PICK t \in TokenId :
          req' = [req EXCEPT ![r] = [req[r] EXCEPT
                    !.pc = "insert", !.tid = t, !.row = EncodedAgain(req[r].row),
                    !.tries = req[r].tries - 1]]
    BY <1>3 DEF Retry
  <2>4. /\ req'[r].pc = "insert"
        /\ req'[r].row = EncodedAgain(req[r].row)
        /\ req'[r].dev = req[r].dev
    BY <2>3 DEF Request_
  <2>5. EncodedAgain(req[r].row).device = req[r].row.device
    BY <2>2 DEF EncodedAgain, Row
  <2>. QED BY <2>2, <2>4, <2>5 DEF Reason, Reporting
<1>4. CASE CreateInsert(r) /\ ~Retry(r)
  <2>1. PICK c \in CodeChoice :
          /\ req[r].pc = "insert"
          /\ token' = [token EXCEPT ![req[r].tid] =
                         [req[r].row EXCEPT !.plain = c, !.created = now]]
          /\ Goto(r, "created")
    BY <1>4 DEF CreateInsert
  <2>2. /\ req'[r].pc = "created"
        /\ req'[r].tid = req[r].tid
        /\ req'[r].row = req[r].row
        /\ req'[r].dev = req[r].dev
    BY <2>1 DEF Goto, Request_
  <2>3. /\ req[r].tid \in TokenId
        /\ req[r].row \in Row
        /\ req[r].row.device = req[r].dev
    BY <2>1 DEF Placed, PlacedRequest, Reason, Request_
  <2>4. [req[r].row EXCEPT !.plain = c, !.created = now].device = req[r].row.device
    BY <2>3 DEF Row
  <2>5. token'[req[r].tid].device = req[r].dev
    BY <2>1, <2>3, <2>4
  <2>. QED BY <2>2, <2>3, <2>5 DEF Reason, Reporting
<1>5. CASE Delete(r) \/ Update(r)
  <2>1. PICK t \in TokenId, pc \in {"notify", "reread"}, act \in {"delete", "update"} :
          /\ Exists(t)
          /\ req' = [req EXCEPT ![r] = [Idle EXCEPT !.pc = pc, !.tid = t, !.act = act,
                                                   !.dev = token[t].device]]
    BY <1>5, ZenonT(60) DEF Delete, Update, IsOpen, Exists
  <2>2. /\ req'[r].pc = pc
        /\ req'[r].tid = t
        /\ req'[r].act = act
        /\ req'[r].dev = token[t].device
    BY <2>1, IdleType DEF Request_
  <2>3. token'[t].device = token[t].device
    BY <2>1, RowSteps DEF RowStep
  <2>. QED BY <2>2, <2>3 DEF Reason, Reporting
<1>6. CASE ClaimExpire(r)
  <2>1. req'[r].pc = "find"
    BY <1>6, IdleType DEF ClaimExpire, Request_
  <2>. QED BY <2>1, <1>a
<1>7. CASE ClaimFind(r) /\ ~Finish(r)
  <2>1. PICK t \in TokenId, to \in {"LOCKED", "REJECTED"} :
          req' = [req EXCEPT ![r] = [req[r] EXCEPT !.pc = "lock", !.tid = t,
                    !.act = IF to = "LOCKED" THEN "lock" ELSE "reject",
                    !.code = NoCode, !.right = FALSE, !.to = to]]
    BY <1>7 DEF ClaimFind, Verdict
  <2>2. req'[r].pc = "lock"
    BY <2>1 DEF Request_
  <2>. QED BY <2>2, <1>a
<1>8. CASE ClaimLock(r) /\ ~Finish(r)
  <2>1. Goto(r, "notify") /\ req[r].pc = "lock"
    BY <1>8 DEF ClaimLock
  <2>2. req'[r].pc = "notify" /\ req'[r].act = req[r].act
    BY <2>1 DEF Goto, Request_
  <2>3. req[r].act \in {"lock", "reject"}
    BY <2>1 DEF Truths, Deed
  <2>. QED BY <2>2, <2>3 DEF Reason, Reporting
<1>9. CASE ConfirmRead(r)
  <2>1. req'[r].pc = "update"
    BY <1>9, IdleType DEF ConfirmRead, Request_
  <2>. QED BY <2>1, <1>a
<1>10. CASE ConfirmUpdate(r) /\ ~Finish(r)
  <2>1. PICK pc \in {"remainder", "commit"} :
          Goto(r, pc) /\ (pc = "commit" => req[r].child = NoToken)
    BY <1>10 DEF ConfirmUpdate
  <2>2. req'[r].pc = pc /\ req'[r].child = req[r].child
    BY <2>1 DEF Goto, Request_
  <2>. QED BY <2>1, <2>2 DEF Reason, Reporting
<1>11. CASE ConfirmRemainder(r)
  <2> DEFINE row == RemainderRow(req[r].row, req[r].tid, req[r].row.amount - req[r].amt)
  <2>1. req' = [req EXCEPT ![r] = [req[r] EXCEPT !.pc = "commit", !.row = row]]
    BY <1>11 DEF ConfirmRemainder
  <2>2. req'[r].pc = "commit" /\ req'[r].row = row /\ req'[r].tid = req[r].tid
    BY <2>1 DEF Request_
  <2>3. row.from = req[r].tid
    BY DEF RemainderRow, Row, Request_
  <2>. QED BY <2>2, <2>3 DEF Reason, Reporting
<1>12. CASE ConfirmCommit(r)
  <2>1. req'[r].pc = "notify" /\ req'[r].act = req[r].act
    BY <1>12 DEF ConfirmCommit, Request_
  <2>2. req[r].act = "confirm"
    BY <1>12 DEF ConfirmCommit, Truths, Deed, Confirming
  <2>. QED BY <2>1, <2>2 DEF Reason, Reporting
<1>13. CASE (Notify(r) \/ Reread(r)) /\ ~Finish(r)
  <2>1. PICK pc \in {"reread", "clear"} : Goto(r, pc) /\ Reporting(r)
    BY <1>13 DEF Notify, Reread, Reporting
  <2>2. /\ req'[r].pc = pc
        /\ req'[r].tid = req[r].tid
        /\ req'[r].act = req[r].act
        /\ req'[r].dev = req[r].dev
    BY <2>1 DEF Goto, Request_
  <2>3. token'[req[r].tid].device = token[req[r].tid].device
    BY <2>1, RowSteps DEF RowStep, Placed, PlacedRequest, Reporting
  <2>. QED BY <2>1, <2>2, <2>3 DEF Reason, Reporting
<1>. QED
  BY <1>1, <1>2, <1>3, <1>4, <1>5, <1>6, <1>7, <1>8, <1>9, <1>10, <1>11, <1>12, <1>13
  DEF Start, Continue, Fail, CreateReread, CreateFails, AddClearing, Abort

-----------------------------------------------------------------------------
(* The journal. *)

\* An identifier that is drawn after the step was drawn before, or is fresh.
LEMMA DrawnSteps ==
    ASSUME ConstantsAssumption, RInv, [Next]_vars, NEW r \in Request, NEW t \in TokenId,
           ~Fresh(t), (req'[r].pc = "insert" /\ req'[r].tid = t) \/ req'[r].child = t
    PROVE  Drawn(r, t) /\ (req[r].pc = "commit" => req'[r] = req[r])
<1> USE DEF RInv, IInv, TypeOK
<1>0. t # NoToken
  BY DEF ConstantsAssumption
<1>1. CASE req'[r] = req[r]
  BY <1>1 DEF Drawn
<1>2. CASE req'[r] # req[r]
  <2>1. Start(r) \/ Continue(r) \/ Fail(r)
    BY <1>2, OneMoves
  <2>2. CASE Finish(r)
    BY <1>0, <2>2, IdleFields DEF Finish
  <2>3. CASE CreateStart(r)
    <3>1. PICK d \in TokenDevice, type \in Type, a \in Amount, e \in Expiry, u \in TokenId :
            /\ Fresh(u)
            /\ req' = [req EXCEPT ![r] = [Idle EXCEPT !.pc = "insert", !.act = "create",
                     !.dev = d, !.tid = u, !.row = NewRow(d, type, a, e), !.tries = Retries]]
      BY <2>3 DEF CreateStart
    <3>2. req'[r].tid = u /\ req'[r].child = NoToken
      BY <3>1, IdleType, IdleFields DEF Request_
    <3>. QED BY <1>0, <3>1, <3>2
  <2>4. CASE (CreateInsert(r) \/ CreateFails(r)) /\ Retry(r) /\ ~Finish(r)
    <3>1. req[r].pc \in {"insert", "created"}
      BY <2>4 DEF CreateInsert, CreateFails
    <3>2. PICK u \in TokenId :
            /\ IF req[r].pc = "created" THEN Fresh(u) ELSE u = req[r].tid
            /\ req' = [req EXCEPT ![r] = [req[r] EXCEPT
                      !.pc = "insert", !.tid = u, !.row = EncodedAgain(req[r].row),
                      !.tries = req[r].tries - 1]]
      BY <2>4 DEF Retry
    <3>3. req'[r].tid = u /\ req'[r].child = req[r].child
      BY <3>2 DEF Request_
    <3>. QED BY <3>1, <3>2, <3>3 DEF Drawn
  <2>5. CASE CreateInsert(r) /\ ~Retry(r)
    <3>1. Goto(r, "created") /\ req[r].pc = "insert"
      BY <2>5 DEF CreateInsert
    <3>2. req'[r].pc = "created" /\ req'[r].child = req[r].child
      BY <3>1 DEF Goto, Request_
    <3>. QED BY <3>1, <3>2 DEF Drawn
  <2>6. CASE Delete(r) \/ Update(r) \/ ClaimExpire(r)
    <3>1. CASE Delete(r)
      BY <1>0, <3>1, IdleType, IdleFields DEF Delete, Request_
    <3>2. CASE Update(r)
      BY <1>0, <3>2, IdleType, IdleFields DEF Update, Request_
    <3>3. CASE ClaimExpire(r)
      BY <1>0, <3>3, IdleType, IdleFields DEF ClaimExpire, Request_
    <3>. QED BY <2>6, <3>1, <3>2, <3>3
  <2>7. CASE ClaimFind(r) /\ ~Finish(r)
    <3>1. PICK u \in TokenId, to \in {"LOCKED", "REJECTED"} :
            req' = [req EXCEPT ![r] = [req[r] EXCEPT !.pc = "lock", !.tid = u,
                      !.act = IF to = "LOCKED" THEN "lock" ELSE "reject",
                      !.code = NoCode, !.right = FALSE, !.to = to]]
      BY <2>7 DEF ClaimFind, Verdict
    <3>2. req'[r].pc = "lock" /\ req'[r].child = req[r].child
      BY <3>1 DEF Request_
    <3>3. req[r].pc = "find"
      BY <2>7 DEF ClaimFind
    <3>. QED BY <3>2, <3>3 DEF Drawn
  <2>8. CASE (ClaimLock(r) \/ ConfirmUpdate(r) \/ Notify(r) \/ Reread(r)) /\ ~Finish(r)
    <3>1. PICK pc \in {"notify", "remainder", "commit", "reread", "clear"} :
            Goto(r, pc) /\ req[r].pc \in {"lock", "update", "notify", "reread"}
      BY <2>8 DEF ClaimLock, ConfirmUpdate, Notify, Reread
    <3>2. req'[r].pc = pc /\ req'[r].child = req[r].child
      BY <3>1 DEF Goto, Request_
    <3>. QED BY <3>1, <3>2 DEF Drawn
  <2>9. CASE ConfirmRead(r)
    <3>1. PICK u \in TokenId, d \in CashDevice, to \in Outcome, p \in Partial,
               child \in TokenId \cup {NoToken} :
          \E a \in Amount \cup {token[u].amount} :
            /\ Exists(u)
            /\ MayConfirm(token[u], d, a)
            /\ IF p /\ a < token[u].amount
               THEN child # NoToken /\ Fresh(child)
               ELSE child = NoToken
            /\ req' = [req EXCEPT ![r] = [Idle EXCEPT !.pc = "update", !.act = "confirm",
                     !.dev = d, !.tid = u, !.row = token[u], !.to = to, !.amt = a,
                     !.child = child]]
      BY <2>9 DEF ConfirmRead
    <3>2. /\ req'[r].pc = "update"
          /\ req'[r].child = child
          /\ child = NoToken \/ Fresh(child)
      BY <3>1, IdleType DEF Request_
    <3>. QED BY <1>0, <3>2
  <2>10. CASE ConfirmRemainder(r)
    <3>1. /\ req[r].pc = "remainder"
          /\ req'[r].pc = "commit"
          /\ req'[r].child = req[r].child
      BY <2>10 DEF ConfirmRemainder, Request_
    <3>. QED BY <3>1 DEF Drawn
  <2>11. CASE ConfirmCommit(r)
    <3>1. req'[r].pc = "notify" /\ req'[r].child = NoToken
      BY <2>11 DEF ConfirmCommit, Request_
    <3>. QED BY <1>0, <3>1
  <2>. QED
    BY <2>1, <2>2, <2>3, <2>4, <2>5, <2>6, <2>7, <2>8, <2>9, <2>10, <2>11
    DEF Start, Continue, Fail, CreateReread, CreateFails, AddClearing, Abort
<1>. QED BY <1>1, <1>2

\* The owner of a token stays, and so does its holder once there is one.
LEMMA SidesStay ==
    ASSUME ConstantsAssumption, RInv, [Next]_vars, NEW t \in TokenId, Exists(t)
    PROVE  /\ token'[t].state # "NONE"
           /\ DeviceCustomer[token'[t].device] = Owner(t)
           /\ token[t].lock # NoDevice => token'[t].lock = token[t].lock
           /\ ~IsOpen(t) => token'[t].lock = token[t].lock
           /\ Sides(t) \subseteq Sides(t)'
           /\ ~IsOpen(t) => Sides(t)' = Sides(t)
<1>1. RowStep(t)
  BY RowSteps DEF RInv
<1>2. token[t].lock # NoDevice => ~IsOpen(t)
  BY DEF RInv, IInv, Placed, PlacedRow, IsOpen
<1>. QED BY <1>1, <1>2 DEF RowStep, Sides, Owner, Exists

\* Whom a request that reports tells.
LEMMA ConcernedSides ==
    ASSUME ConstantsAssumption, RInv, NEW r \in Request, Reporting(r), Reason(r),
           Unheld(req[r].tid)
    PROVE  /\ req[r].tid \in TokenId
           /\ Exists(req[r].tid)
           /\ Concerned(r) \subseteq Sides(req[r].tid)
           /\ req[r].act # "update" => Concerned(r) = Sides(req[r].tid)
           /\ req[r].act = "lock" => token[req[r].tid].lock # NoDevice
           /\ req[r].act \in {"delete", "reject", "confirm"} =>
                token[req[r].tid].state \in {"DELETED"} \cup ConfirmStates
<1> USE DEF RInv, IInv, TypeOK
<1> DEFINE t == req[r].tid
<1>1. /\ t \in TokenId
      /\ Exists(t)
      /\ req[r].dev \in Device
      /\ req[r].act # "none"
      /\ req[r].dev # NoDevice
  BY DEF Reporting, Placed, PlacedRequest, ConstantsAssumption
<1>2. Told(r)
  BY DEF Truths
<1>3. CASE req[r].act = "delete"
  <2>1. token[t].state = "DELETED" /\ token[t].lock = NoDevice
    BY <1>2, <1>3 DEF Told, Reporting, Unheld
  <2>2. req[r].dev = token[t].device
    BY <1>3 DEF Reason
  <2>. QED BY <1>1, <1>3, <2>1, <2>2 DEF Concerned, Sides, Owner
<1>4. CASE req[r].act \in {"lock", "reject", "confirm"}
  <2>1. token[t].lock = req[r].dev
    BY <1>2, <1>4 DEF Told, Reporting
  <2>2. Concerned(r) = Sides(t)
    BY <1>1, <2>1 DEF Concerned, Sides, Owner
  <2>. QED BY <1>1, <1>2, <1>4, <2>1, <2>2 DEF Told, Reporting, ConfirmStates
<1>5. CASE req[r].act = "update"
  <2>1. req[r].dev = token[t].device
    BY <1>5 DEF Reason
  <2>. QED BY <1>1, <1>5, <2>1 DEF Concerned, Sides, Owner
<1>. QED BY <1>1, <1>3, <1>4, <1>5 DEF Reason, Request_

LEMMA UnheldStep ==
    ASSUME ConstantsAssumption, RInv, [Next]_vars, NEW t \in TokenId, Unheld(t)
    PROVE  Unheld(t)'
<1>1. CASE token'[t].state = token[t].state
  <2>1. token[t].state \in {"DELETED", "EXPIRED"} => token'[t].lock = token[t].lock
    BY SidesStay DEF Exists, IsOpen
  <2>. QED BY <1>1, <2>1 DEF Unheld
<1>2. CASE token'[t].state # token[t].state
  BY <1>2, StateSteps DEF Unheld
<1>. QED BY <1>1, <1>2

\* What becomes of a request that has something to report.
LEMMA ReporterSteps ==
    ASSUME ConstantsAssumption, RInv, [Next]_vars, NEW r \in Request,
           req[r].pc \in {"created", "notify", "reread"}, req'[r] # req[r]
    PROVE  \/ CreateReread(r) \/ Notify(r) \/ Reread(r)
           \/ /\ req[r].tid \in orphaned'
              /\ ~(req[r].pc = "reread" /\ req[r].act = "update")
           \/ req[r].pc = "reread" /\ req[r].act = "update"
<1>1. Start(r) \/ Continue(r) \/ Fail(r)
  BY OneMoves DEF RInv
<1>. QED BY <1>1
       DEF Start, CreateStart, Delete, Update, ClaimExpire, ConfirmRead, Continue,
           CreateInsert, ClaimFind, ClaimLock, ConfirmUpdate, ConfirmRemainder,
           ConfirmCommit, AddClearing, Fail, CreateFails, Abort

LEMMA NotifiedSees ==
    ASSUME IInv, NEW S, NEW t \in TokenId, NEW c \in Customer, c \in S \cap Observed,
           seen' = Notified(S, t)
    PROVE  seen'[c][t] = token[t].state
BY DEF IInv, TypeOK, Notified

LEMMA OwnerStep ==
    ASSUME ConstantsAssumption, JInv, [Next]_vars
    PROVE  OwnerUpToDate'
<1> USE DEF JInv
<1> SUFFICES ASSUME NEW t \in TokenId, Exists(t)', Owner(t)' \in Observed,
                    seen'[Owner(t)'][t] # token'[t].state,
                    t \notin orphaned', token'[t].state # "EXPIRED",
                    ~(token'[t].state = "OPEN" /\ token'[t].from # NoToken),
                    \A r \in Request : ~(/\ req'[r].pc \in {"created", "notify"}
                                         /\ req'[r].tid = t)
             PROVE  FALSE
  BY ZenonT(60) DEF OwnerUpToDate, Owner, Exists
<1>1. CASE token'[t].state = token[t].state
  <2>1. Exists(t) /\ Owner(t)' = Owner(t)
    BY <1>1, SidesStay DEF Exists, Owner
  <2>2. Owner(t) \in Customer
    BY <2>1 DEF RInv, IInv, Placed, PlacedRow, Owner, ConstantsAssumption
  <2>3. seen'[Owner(t)][t] = seen[Owner(t)][t]
    BY <1>1, <2>1, <2>2, SeenSteps DEF RInv
  <2>4. t \notin orphaned
    BY HistoryGrows
  <2>5. ~(token[t].state = "OPEN" /\ token[t].from # NoToken)
    BY <1>1, <2>1, RowFates DEF RInv, RowFate
  <2>6. PICK r \in Request : req[r].pc \in {"created", "notify"} /\ req[r].tid = t
    BY <1>1, <2>1, <2>3, <2>4, <2>5 DEF OwnerUpToDate
  <2>7. CreateReread(r) \/ Notify(r)
    BY <2>6, ReporterSteps DEF Reread
  <2>8. CASE CreateReread(r)
    <3>1. DeviceCustomer[req[r].dev] = Owner(t)
      BY <2>6, <2>8 DEF Reason, CreateReread, Owner
    <3>2. seen' = Notified({Owner(t)}, t)
      BY <2>6, <2>8, <3>1 DEF CreateReread
    <3>. QED BY <1>1, <2>1, <2>2, <3>2, NotifiedSees DEF RInv
  <2>9. CASE Notify(r)
    <3>1. seen' = Notified(Concerned(r), t) /\ Owner(t) \in Concerned(r)
      BY <2>6, <2>9 DEF Notify, Concerned
    <3>. QED BY <1>1, <2>1, <2>2, <3>1, NotifiedSees DEF RInv
  <2>. QED BY <2>7, <2>8, <2>9
<1>2. ASSUME NEW r \in Request, ConfirmCommit(r), req[r].child = t,
             token'[t].state = "OPEN"
      PROVE  FALSE
  <2>1. t # NoToken
    BY DEF ConstantsAssumption
  <2>2. /\ token'[t] = req[r].row
        /\ req[r].tid \in TokenId
        /\ req[r].pc = "commit"
    BY <1>2, <2>1, CommitFacts DEF RInv, ConfirmCommit
  <2>3. req[r].row.from = req[r].tid
    BY <1>2, <2>1, <2>2 DEF Reason
  <2>. QED BY <1>2, <2>2, <2>3 DEF ConstantsAssumption
<1>. QED BY <1>1, <1>2, StateSteps DEF NowReports

LEMMA AnnouncedStep ==
    ASSUME ConstantsAssumption, JInv, [Next]_vars, NEW t \in TokenId
    PROVE  Announced(t)'
<1> USE DEF JInv
<1> SUFFICES ASSUME t \notin orphaned',
                    token'[t].state \in {"DELETED", "LOCKED"} \cup ConfirmStates,
                    \A r \in Request : ~Announcing(r, t)',
                    NEW c, c \in Sides(t)' \cap Observed
             PROVE  \E e \in sent' :
                      e.customer = c /\ e.token = t /\ e.state = token'[t].state
  BY ZenonT(60) DEF Announced
<1>1. token'[t].state = token[t].state
  <2>1. ASSUME NEW r \in Request, NowReports(r, t) PROVE FALSE
    BY <2>1 DEF NowReports, Announcing, Reporting
  <2>. QED BY <2>1, StateSteps DEF ConfirmStates
<1>2. Exists(t) /\ ~IsOpen(t)
  BY <1>1 DEF Exists, IsOpen, ConfirmStates
<1>3. Sides(t)' = Sides(t)
  BY <1>2, SidesStay
<1>4. t \notin orphaned
  BY HistoryGrows
<1>5. CASE \E r \in Request : Announcing(r, t)
  <2>1. PICK r \in Request : Announcing(r, t)
    BY <1>5
  <2>2. req'[r] # req[r]
    BY <2>1 DEF Announcing, Reporting
  <2>3. Notify(r) \/ Reread(r)
    BY <2>1, <2>2, ReporterSteps DEF Announcing, Reporting, CreateReread
  <2>4. ~Notify(r)
    <3>1. ASSUME Notify(r) PROVE FALSE
      <4>1. Goto(r, "reread")
        BY <3>1 DEF Notify
      <4>2. /\ req'[r].pc = "reread"
            /\ req'[r].tid = req[r].tid
            /\ req'[r].act = req[r].act
        BY <4>1 DEF Goto, RInv, IInv, TypeOK, Request_
      <4>. QED BY <2>1, <4>2 DEF Announcing, Reporting
    <3>. QED BY <3>1
  <2>5. /\ req[r].tid = t
        /\ sent' = Journalized(Concerned(r), req[r].act, t, token[t].state)
    BY <2>1, <2>3, <2>4 DEF Reread, Announcing
  <2>6. c \in Concerned(r) \cap Observed
    BY <1>3, <2>1, <2>5, ConcernedSides DEF Announcing
  <2> DEFINE e == [customer |-> c, action |-> req[r].act, token |-> t,
                   state |-> token[t].state]
  <2>7. e \in sent'
    BY <2>5, <2>6 DEF Journalized
  <2>8. e.customer = c /\ e.token = t /\ e.state = token'[t].state
    BY <1>1
  <2>. QED BY <2>7, <2>8
<1>6. CASE ~\E r \in Request : Announcing(r, t)
  BY <1>1, <1>3, <1>4, <1>6, HistoryGrows DEF Announced
<1>. QED BY <1>5, <1>6

\* The entries a step adds.
LEMMA NewEntries ==
    ASSUME ConstantsAssumption, JInv, [Next]_vars, NEW e \in sent', e \notin sent
    PROVE  \E r \in Request :
             \/ /\ CreateReread(r)
                /\ e.customer = DeviceCustomer[req[r].dev]
                /\ e.action = "create"
                /\ e.token = req[r].tid
             \/ /\ ConfirmRemainder(r)
                /\ e.customer = DeviceCustomer[req'[r].row.device]
                /\ e.action = "create"
                /\ e.token = req[r].child
             \/ /\ Reread(r)
                /\ e.customer \in Concerned(r)
                /\ e.action = req[r].act
                /\ e.token = req[r].tid
                /\ e.state = token[req[r].tid].state
<1>1. ASSUME NEW S, NEW a, NEW u, NEW st, sent' = Journalized(S, a, u, st)
      PROVE  e.customer \in S /\ e.action = a /\ e.token = u /\ e.state = st
  BY <1>1 DEF Journalized
<1>2. ASSUME NEW r \in Request, ConfirmRemainder(r)
      PROVE  /\ e.customer = DeviceCustomer[req'[r].row.device]
             /\ e.action = "create"
             /\ e.token = req[r].child
  <2> DEFINE row == RemainderRow(req[r].row, req[r].tid, req[r].row.amount - req[r].amt)
  <2>1. /\ req' = [req EXCEPT ![r] = [req[r] EXCEPT !.pc = "commit", !.row = row]]
        /\ sent' = Journalized({DeviceCustomer[row.device]}, "create", req[r].child,
                                  row.state)
    BY <1>2 DEF ConfirmRemainder
  <2>2. req'[r].row = row
    BY <2>1 DEF JInv, RInv, IInv, TypeOK, Request_
  <2>. QED BY <1>1, <2>1, <2>2
<1>3. ASSUME NEW r \in Request, CreateReread(r)
      PROVE  /\ e.customer = DeviceCustomer[req[r].dev]
             /\ e.action = "create"
             /\ e.token = req[r].tid
  BY <1>1, <1>3 DEF CreateReread
<1>4. ASSUME NEW r \in Request, Reread(r)
      PROVE  /\ e.customer \in Concerned(r)
             /\ e.action = req[r].act
             /\ e.token = req[r].tid
             /\ e.state = token[req[r].tid].state
  BY <1>1, <1>4 DEF Reread
<1>5. sent' # sent
  OBVIOUS
<1>6. \E r \in Request : CreateReread(r) \/ ConfirmRemainder(r) \/ Reread(r)
  BY <1>5
  DEF Next, Start, Continue, Fail, vars, Tick, CreateStart, ConfirmRead,
      CreateFails, ClaimFind, ConfirmUpdate, Notify, Abort, Delete, Update,
      ClaimExpire, CreateInsert, ClaimLock, ConfirmCommit, AddClearing
<1>. QED BY <1>2, <1>3, <1>4, <1>6

LEMMA OldEntryStep ==
    ASSUME ConstantsAssumption, JInv, [Next]_vars, NEW e \in sent
    PROVE  EntryAgrees(e)'
<1> USE DEF JInv
<1> DEFINE t == e.token
<1>1. t \in TokenId /\ EntryAgrees(e) /\ e \in sent
  BY DEF RInv, IInv, TypeOK, Entry
<1>2. CASE Exists(t)
  <2>1. /\ Exists(t)'
        /\ Sides(t) \subseteq Sides(t)'
        /\ token[t].lock # NoDevice => token'[t].lock = token[t].lock
    BY <1>1, <1>2, SidesStay DEF Exists
  <2>2. e.action \in {"delete", "reject", "confirm"} => token'[t].state = e.state
    <3>1. e.action \in {"delete", "reject", "confirm"} => Ended(t) /\ token[t].state = e.state
      BY <1>1, <1>2 DEF EntryAgrees, Ended, Live, ConfirmStates
    <3>. QED BY <1>1, <3>1, RowFates DEF RInv, RowFate
  <2>. QED BY <1>1, <1>2, <2>1, <2>2 DEF EntryAgrees
<1>3. CASE ~Exists(t) /\ Exists(t)'
  <2>1. e.action = "create"
    BY <1>1, <1>3 DEF EntryAgrees
  <2>2. PICK r \in Request : ConfirmCommit(r) /\ req[r].child = t
    <3>1. ASSUME NEW r \in Request, req[r].pc = "insert", req[r].tid = t PROVE FALSE
      BY <1>1, <1>3, <3>1 DEF EntryAgrees, Drawn
    <3>. QED BY <1>1, <1>3, <3>1, StateSteps DEF Exists, IsOpen
  <2>3. t # NoToken
    BY <1>1 DEF ConstantsAssumption
  <2>4. e.customer = DeviceCustomer[req[r].row.device] /\ token'[t] = req[r].row
    BY <1>1, <1>3, <2>2, <2>3, CommitFacts DEF EntryAgrees, Drawn, RInv
  <2>5. e.customer \in Sides(t)'
    BY <2>4 DEF Sides, Owner
  <2>. QED BY <1>1, <1>3, <2>1, <2>5 DEF EntryAgrees
<1>4. CASE ~Exists(t)'
  <2>1. ~Exists(t)
    BY <1>1, <1>4, SidesStay DEF Exists
  <2>2. ~Fresh(t)
    BY <1>1 DEF Fresh
  <2>3. ASSUME NEW r \in Request, Drawn(r, t)'
        PROVE  req'[r].pc = "commit" /\ e.customer = DeviceCustomer[req'[r].row.device]
    <3>1. Drawn(r, t) /\ (req[r].pc = "commit" => req'[r] = req[r])
      BY <1>1, <2>2, <2>3, DrawnSteps DEF Drawn
    <3>. QED BY <1>1, <2>1, <3>1 DEF EntryAgrees
  <2>. QED BY <1>1, <1>4, <2>1, <2>3 DEF EntryAgrees
<1>. QED BY <1>2, <1>3, <1>4

LEMMA NewEntryStep ==
    ASSUME ConstantsAssumption, JInv, [Next]_vars, NEW e \in sent', e \notin sent
    PROVE  EntryAgrees(e)'
<1> USE DEF JInv, RInv, IInv, TypeOK
<1>1. ASSUME NEW r \in Request, CreateReread(r),
             e.customer = DeviceCustomer[req[r].dev], e.action = "create",
             e.token = req[r].tid
      PROVE  EntryAgrees(e)'
  <2>1. /\ Exists(e.token)
        /\ token[e.token].device = req[r].dev
        /\ token' = token
    BY <1>1 DEF CreateReread, Placed, PlacedRequest, Reason
  <2>2. e.customer \in Sides(e.token)'
    BY <1>1, <2>1 DEF Sides, Owner
  <2>. QED BY <1>1, <2>1, <2>2 DEF EntryAgrees, Exists
<1>2. ASSUME NEW r \in Request, ConfirmRemainder(r),
             e.customer = DeviceCustomer[req'[r].row.device], e.action = "create",
             e.token = req[r].child
      PROVE  EntryAgrees(e)'
  <2>1. /\ e.token \in TokenId
        /\ ~Exists(e.token)
        /\ \A q \in Request \ {r} : ~Drawn(q, e.token)
    <3>1. e.token \in TokenId
      BY <1>2 DEF ConfirmRemainder, Confirmations, Confirmation, Confirming, Request_
    <3>. QED BY <1>2, <3>1 DEF DrawnOnce, Drawn
  <2>2. token' = token
    BY <1>2 DEF ConfirmRemainder
  <2>3. req'[r].pc = "commit"
    BY <1>2 DEF ConfirmRemainder, Request_
  <2>4. \A q \in Request \ {r} : req'[q] = req[q]
    BY <1>2 DEF ConfirmRemainder
  <2>5. \A q \in Request : Drawn(q, e.token)' => q = r
    BY <2>1, <2>4 DEF Drawn
  <2>. QED BY <1>2, <2>1, <2>2, <2>3, <2>5 DEF EntryAgrees, Exists
<1>3. ASSUME NEW r \in Request, Reread(r), e.customer \in Concerned(r),
             e.action = req[r].act, e.token = req[r].tid,
             e.state = token[req[r].tid].state
      PROVE  EntryAgrees(e)'
  <2>1. token' = token /\ Reporting(r)
    BY <1>3 DEF Reread, Reporting
  <2>2. /\ req[r].tid \in TokenId
        /\ Exists(req[r].tid)
        /\ Concerned(r) \subseteq Sides(req[r].tid)
        /\ req[r].act = "lock" => token[req[r].tid].lock # NoDevice
        /\ req[r].act \in {"delete", "reject", "confirm"} =>
             token[req[r].tid].state \in {"DELETED"} \cup ConfirmStates
    <3>1. req[r].tid \in TokenId
      BY <2>1 DEF Placed, PlacedRequest, Reporting
    <3>. QED BY <2>1, <3>1, ConcernedSides
  <2>3. e.customer \in Sides(e.token)'
    BY <1>3, <2>1, <2>2 DEF Sides, Owner
  <2>. QED BY <1>3, <2>1, <2>2, <2>3 DEF EntryAgrees, Exists
<1>. QED BY <1>1, <1>2, <1>3, NewEntries

LEMMA JournalInductive == ConstantsAssumption /\ JInv /\ [Next]_vars => JInv'
<1> SUFFICES ASSUME ConstantsAssumption, JInv, [Next]_vars
             PROVE  JInv'
  OBVIOUS
<1> USE DEF JInv
<1>1. RInv' /\ OwnerUpToDate'
  BY RStep, OwnerStep
<1>2. ASSUME NEW r \in Request PROVE Reason(r)'
  <2>1. CASE req'[r] = req[r]
    BY <2>1, OthersReason DEF RInv
  <2>2. CASE req'[r] # req[r]
    BY <2>2, OneMoves, MoverReason DEF RInv
  <2>. QED BY <2>1, <2>2
<1>3. \A t \in TokenId : Unheld(t)' /\ Announced(t)'
  BY UnheldStep, AnnouncedStep
<1>4. \A e \in sent' : EntryAgrees(e)'
  BY OldEntryStep, NewEntryStep
<1>. QED BY <1>1, <1>2, <1>3, <1>4

LEMMA InitJournal == ConstantsAssumption /\ Init => JInv
<1> SUFFICES ASSUME ConstantsAssumption, Init
             PROVE  JInv
  OBVIOUS
<1>1. RInv
  BY InitReports
<1>2. \A t \in TokenId : token[t].state = "NONE"
  BY DEF Init, NoRow
<1>3. OwnerUpToDate
  BY <1>2 DEF OwnerUpToDate, Exists
<1>4. \A r \in Request : Reason(r)
  BY IdleFields DEF Init, Reason, Reporting
<1>5. \A t \in TokenId : Unheld(t) /\ Announced(t)
  BY <1>2 DEF Unheld, Announced, ConfirmStates
<1>6. \A e \in sent : EntryAgrees(e)
  BY DEF Init
<1>. QED BY <1>1, <1>3, <1>4, <1>5, <1>6 DEF JInv

(* An owner that re-reads its tokens when notified is up to date up to the *)
(* changes in flight, dead requests, fresh remainders and expiry (token.ts *)
(* 112, 191, 311, 440).                                                    *)
THEOREM OwnersFollow == Spec => []OwnerUpToDate
<1>1. Init => JInv
  BY ConstantsAssumption, InitJournal
<1>2. JInv /\ [Next]_vars => JInv'
  BY ConstantsAssumption, JournalInductive
<1>3. JInv => OwnerUpToDate
  BY DEF JInv
<1>. QED BY <1>1, <1>2, <1>3, PTL DEF Spec

\* Under the reports, which add inserts on their way and names, the requests
\* take the steps they take alone.
LEMMA ReportsSteps == [ReportsNext]_reportVars => [Next]_vars
BY DEF ReportsNext, reportVars, JournalInsert, EditDevice

LEMMA TokensBelow == ReportsSpec => Spec
<1>1. ReportsInit => Init
  BY DEF ReportsInit
<1>. QED BY <1>1, ReportsSteps, PTL DEF ReportsSpec, Spec

\* The rows of journal were sent by some request.
LEMMA JournalSent == ReportsSpec => [](journal \subseteq sent)
<1>1. ReportsInit => journal \subseteq sent
  BY DEF ReportsInit
<1>2. ASSUME journal \subseteq sent, [ReportsNext]_reportVars
      PROVE  (journal \subseteq sent)'
  <2>1. sent \subseteq sent'
    BY <1>2, ReportsSteps, HistoryGrows
  <2>2. journal' \subseteq journal \cup sent
    BY <1>2 DEF ReportsNext, reportVars, JournalInsert, EditDevice
  <2>. QED BY <1>2, <2>1, <2>2
<1>. QED BY <1>1, <1>2, PTL DEF ReportsSpec

(* No row of the journal contradicts the table, however late it arrives,   *)
(* and whenever no request is under way both sides of a token whose request*)
(* did not die find how it ended, or the insert of their entry was sent and*)
(* is late or has failed (token.ts 114, 195-196, 316-317; journal.ts 3-35).*)
THEOREM JournalTrue == ReportsSpec => []JournalComplete
<1>1. Init => JInv
  BY ConstantsAssumption, InitJournal
<1>2. JInv /\ [Next]_vars => JInv'
  BY ConstantsAssumption, JournalInductive
<1>3. Spec => []JInv
  BY <1>1, <1>2, PTL DEF Spec
<1>4. JInv /\ journal \subseteq sent => JournalComplete
  <2> SUFFICES ASSUME JInv, journal \subseteq sent PROVE JournalComplete
    OBVIOUS
  <2>1. JournalAgrees
    <3>1. ASSUME NEW e \in sent, Exists(e.token)
          PROVE  /\ e.action \in {"delete", "reject", "confirm"} =>
                      token[e.token].state = e.state
                 /\ e.action = "lock" => token[e.token].lock # NoDevice
                 /\ \/ e.customer = Owner(e.token)
                    \/ /\ token[e.token].lock # NoDevice
                       /\ e.customer = DeviceCustomer[token[e.token].lock]
      BY <3>1 DEF JInv, EntryAgrees, Sides
    <3>. QED BY <3>1 DEF JournalAgrees
  <2>2. ASSUME Quiet, NEW t \in TokenId \ orphaned,
               token[t].state \in {"DELETED", "LOCKED"} \cup ConfirmStates,
               NEW c \in Sides(t), c \in Observed
        PROVE  \E e \in GetJournal(c) \cup UnderWay(c) :
                  e.token = t /\ e.state = token[t].state
    <3>1. \A r \in Request : ~Announcing(r, t)
      BY <2>2 DEF Quiet, Announcing, Reporting
    <3>2. PICK e \in sent : e.customer = c /\ e.token = t /\ e.state = token[t].state
      BY <2>2, <3>1 DEF JInv, Announced
    <3>. QED BY <3>2 DEF GetJournal, UnderWay
  <2>. QED BY <2>1, <2>2 DEF JournalComplete, Sides
<1>. QED BY <1>3, <1>4, JournalSent, TokensBelow, PTL

-----------------------------------------------------------------------------
(* Claims and expiry. *)

LEMMA OpenSteps ==
    ASSUME ConstantsAssumption, IInv, [Next]_vars, NEW t \in TokenId, IsOpen(t)'
    PROVE  \/ /\ IsOpen(t)
              /\ token'[t].expires = token[t].expires
              /\ token'[t].created = token[t].created
           \/ token'[t].created = now
           \/ \E r \in Request : /\ ConfirmCommit(r)
                                 /\ req[r].child = t
                                 /\ token'[t] = req[r].row
<1> USE DEF IInv, TypeOK
<1>1. CASE token'[t] = token[t]
  BY <1>1 DEF IsOpen
<1>2. ASSUME NEW r \in Request, Delete(r), token'[t] # token[t] PROVE FALSE
  <2>1. token'[t] = Closed(token[t], "DELETED")
    BY <1>2 DEF Delete
  <2>. QED BY <2>1, ClosedRow DEF State, IsOpen
<1>3. ASSUME NEW r \in Request, Update(r)
      PROVE  /\ IsOpen(t)
             /\ token'[t].expires = token[t].expires
             /\ token'[t].created = token[t].created
  <2>1. PICK u \in TokenId, s \in ClearState, info \in BOOLEAN :
          token' = [token EXCEPT ![u] = UpdatedRow(token[u], s, info)]
    BY <1>3 DEF Update
  <2>. QED BY <2>1 DEF IsOpen, UpdatedRow, Row
<1>4. ASSUME NEW r \in Request, ClaimExpire(r), token'[t] # token[t] PROVE FALSE
  <2>1. token'[t] = Closed(token[t], "EXPIRED")
    BY <1>4 DEF ClaimExpire
  <2>. QED BY <2>1, ClosedRow DEF State, IsOpen
<1>5. ASSUME NEW r \in Request, CreateInsert(r), token'[t] # token[t]
      PROVE  token'[t].created = now
  <2>1. PICK c \in CodeChoice :
          token'[t] = [req[r].row EXCEPT !.plain = c, !.created = now]
    BY <1>5 DEF CreateInsert
  <2>2. req[r].row \in Row
    BY DEF Request_
  <2>. QED BY <2>1, <2>2 DEF Row
<1>6. ASSUME NEW r \in Request, ClaimLock(r), token'[t] # token[t] PROVE FALSE
  <2>1. /\ token'[t] = LockedRow(token[t], req[r].dev, req[r].to)
        /\ req[r].to \in {"LOCKED", "REJECTED"}
        /\ token[t] \in Row
    BY <1>6 DEF ClaimLock, Placed, PlacedRequest
  <2>2. LockedRow(token[t], req[r].dev, req[r].to).state = req[r].to
    BY <2>1 DEF LockedRow, Closed, Row
  <2>. QED BY <2>1, <2>2 DEF IsOpen
<1>7. ASSUME NEW r \in Request, ConfirmCommit(r), token'[t] # token[t]
      PROVE  req[r].child = t /\ token'[t] = req[r].row
  <2>1. req[r].tid # t
    BY <1>7, CommitFacts DEF IsOpen, ConfirmStates
  <2>. QED BY <1>7, <2>1 DEF ConfirmCommit
<1>8. CASE UNCHANGED token
  BY <1>1, <1>8
<1>. QED
  BY <1>1, <1>2, <1>3, <1>4, <1>5, <1>6, <1>7, <1>8
  DEF Next, Start, Continue, Fail, vars, Tick, CreateStart, ConfirmRead, CreateReread,
      CreateFails, ClaimFind, ConfirmUpdate, ConfirmRemainder, Notify, Reread,
      AddClearing, Abort

\* Where a request begins, and where the retry of createToken goes on.
LEMMA StartsAt ==
    ASSUME IInv, NEW r \in Request, Start(r)
    PROVE  /\ req'[r].pc \in {"insert", "notify", "reread", "find", "update"}
           /\ req'[r].pc = "find" => ClaimExpire(r)
<1> USE DEF IInv, TypeOK
<1>1. CASE CreateStart(r)
  <2>1. req'[r].pc = "insert"
    BY <1>1, IdleType DEF CreateStart, Request_
  <2>. QED BY <2>1
<1>2. CASE Delete(r)
  <2>1. req'[r].pc = "notify"
    BY <1>2, IdleType DEF Delete, Request_
  <2>. QED BY <2>1
<1>3. CASE Update(r)
  <2>1. req'[r].pc = "reread"
    BY <1>3, IdleType DEF Update, Request_
  <2>. QED BY <2>1
<1>4. CASE ClaimExpire(r)
  <2>1. req'[r].pc = "find"
    BY <1>4, IdleType DEF ClaimExpire, Request_
  <2>. QED BY <1>4, <2>1
<1>5. CASE ConfirmRead(r)
  <2>1. req'[r].pc = "update"
    BY <1>5, IdleType DEF ConfirmRead, Request_
  <2>. QED BY <2>1
<1>. QED BY <1>1, <1>2, <1>3, <1>4, <1>5 DEF Start

LEMMA RetryInserts ==
    ASSUME IInv, NEW r \in Request, Retry(r), ~Finish(r)
    PROVE  req'[r].pc = "insert"
<1>1. PICK u \in TokenId :
        req' = [req EXCEPT ![r] = [req[r] EXCEPT
                  !.pc = "insert", !.tid = u, !.row = EncodedAgain(req[r].row),
                  !.tries = req[r].tries - 1]]
  BY DEF Retry
<1>. QED BY <1>1 DEF IInv, TypeOK, Request_

\* A request that is to insert a remainder was, or stamps it now.
LEMMA RemainderStamped ==
    ASSUME ConstantsAssumption, RInv, [Next]_vars, NEW q \in Request,
           req'[q].pc = "commit", req'[q].child # NoToken, req'[q] # req[q]
    PROVE  req'[q].row.created = now
<1> USE DEF RInv, IInv, TypeOK
<1>1. Start(q) \/ Continue(q) \/ Fail(q)
  BY OneMoves
<1>2. CASE ConfirmRemainder(q)
  <2> DEFINE row == RemainderRow(req[q].row, req[q].tid, req[q].row.amount - req[q].amt)
  <2>1. req' = [req EXCEPT ![q] = [req[q] EXCEPT !.pc = "commit", !.row = row]]
    BY <1>2 DEF ConfirmRemainder
  <2>2. req'[q].row = row
    BY <2>1 DEF Request_
  <2>3. row.created = now
    BY DEF RemainderRow, Row, Request_
  <2>. QED BY <2>2, <2>3
<1>3. CASE ConfirmUpdate(q)
  <2>1. CASE Finish(q)
    BY <2>1, IdleFields DEF Finish
  <2>2. CASE ~Finish(q)
    <3>1. req'[q].child = req[q].child
      BY <1>3, <2>2 DEF ConfirmUpdate, Goto, Request_
    <3>2. req[q].child # NoToken => Goto(q, "remainder")
      BY <1>3, <2>2 DEF ConfirmUpdate
    <3>. QED BY <3>1, <3>2 DEF Goto, Request_
  <2>. QED BY <2>1, <2>2
<1>4. CASE ~ConfirmRemainder(q) /\ ~ConfirmUpdate(q)
  <2>1. req'[q].pc # "commit"
    <3>1. CASE Finish(q)
      BY <3>1, IdleFields DEF Finish
    <3>2. CASE \E pc \in {"created", "notify", "reread", "clear"} : Goto(q, pc)
      BY <3>2 DEF Goto, Request_
    <3>3. CASE Start(q)
      BY <3>3, StartsAt
    <3>4. CASE Retry(q) /\ ~Finish(q)
      <4>1. req'[q].pc = "insert"
        BY <3>4, RetryInserts
      <4>. QED BY <4>1
    <3>5. CASE ClaimFind(q) /\ ~Finish(q)
      <4>1. PICK u \in TokenId, to \in {"LOCKED", "REJECTED"} :
              req' = [req EXCEPT ![q] = [req[q] EXCEPT !.pc = "lock", !.tid = u,
                        !.act = IF to = "LOCKED" THEN "lock" ELSE "reject",
                        !.code = NoCode, !.right = FALSE, !.to = to]]
        BY <3>5 DEF ClaimFind, Verdict
      <4>. QED BY <4>1 DEF Request_
    <3>6. CASE ConfirmCommit(q)
      BY <3>6 DEF ConfirmCommit, Request_
    <3>. QED
      BY <1>1, <1>4, <3>1, <3>2, <3>3, <3>4, <3>5, <3>6
      DEF Continue, Fail, CreateInsert, CreateReread, CreateFails, ClaimLock, Notify,
          Reread, AddClearing, Abort
  <2>. QED BY <2>1
<1>. QED BY <1>2, <1>3, <1>4

LEMMA CleanedStep ==
    ASSUME ConstantsAssumption, EInv, [Next]_vars, NEW r \in Request
    PROVE  CleanedUp(r)'
<1> USE DEF EInv, RInv, IInv, TypeOK
<1>1. now \in Nat /\ now' \in Nat /\ now <= now'
  <2>1. now' \in {now, now + 1}
    BY DEF Next, Start, Continue, Fail, vars, Tick, CreateStart, ConfirmRead, CreateReread,
       CreateFails, ClaimFind, ConfirmUpdate, ConfirmRemainder, Notify, Reread, Abort,
       Delete, Update, ClaimExpire, CreateInsert, ClaimLock, ConfirmCommit, AddClearing
  <2>2. now \in Nat
    OBVIOUS
  <2>. QED BY <2>1, <2>2
<1>2. CASE /\ req[r].pc \in {"find", "lock"}
           /\ req'[r].asOf = req[r].asOf
  <2>1. /\ req[r].asOf \in Nat
        /\ req[r].asOf <= now
    BY <1>2 DEF CleanedUp, Request_
  <2>2. ASSUME NEW t \in TokenId, IsOpen(t)'
        PROVE  token'[t].expires >= req[r].asOf \/ token'[t].created >= req[r].asOf
    <3>1. CASE /\ IsOpen(t)
               /\ token'[t].expires = token[t].expires
               /\ token'[t].created = token[t].created
      BY <1>2, <3>1 DEF CleanedUp
    <3>2. CASE token'[t].created = now
      BY <2>1, <3>2
    <3>3. ASSUME NEW q \in Request, ConfirmCommit(q), req[q].child = t,
                 token'[t] = req[q].row
          PROVE  token'[t].created >= req[r].asOf
      BY <1>2, <3>3 DEF CleanedUp, ConfirmCommit, ConstantsAssumption
    <3>. QED BY <2>2, <3>1, <3>2, <3>3, OpenSteps
  <2>3. ASSUME NEW q \in Request, req'[q].pc = "commit", req'[q].child # NoToken
        PROVE  req'[q].row.created >= req[r].asOf
    <3>1. CASE req'[q] = req[q]
      BY <1>2, <2>3, <3>1 DEF CleanedUp
    <3>2. CASE req'[q] # req[q]
      BY <2>1, <2>3, <3>2, RemainderStamped
    <3>. QED BY <3>1, <3>2
  <2>4. req'[r].asOf <= now'
    BY <1>1, <1>2, <2>1
  <2>. QED BY <1>2, <2>2, <2>3, <2>4 DEF CleanedUp, IsOpen
<1>3. CASE ClaimExpire(r)
  <2>1. PICK d \in CashDevice, code \in RadioCode, right \in BOOLEAN :
          req' = [req EXCEPT ![r] =
            [Idle EXCEPT !.pc = "find", !.dev = d, !.code = code, !.right = right,
                         !.asOf = now]]
    BY <1>3 DEF ClaimExpire
  <2>2. req'[r].asOf = now /\ req'[r].pc = "find"
    BY <2>1, IdleType DEF Request_
  <2>3. now' = now
    BY <1>3 DEF ClaimExpire
  <2>4. ASSUME NEW t \in TokenId, IsOpen(t)' PROVE token'[t].expires >= now
    <3>1. ~IsExpired(t)
      BY <1>3, <2>4, ClosedRow DEF ClaimExpire, IsOpen, State
    <3>2. token'[t] = token[t]
      BY <1>3, <3>1 DEF ClaimExpire
    <3>. QED BY <2>4, <3>1, <3>2 DEF IsExpired, IsOpen, Row
  <2>5. ASSUME NEW q \in Request PROVE req'[q].pc # "commit"
    BY <1>3, <2>1, <2>2 DEF ClaimExpire, InTransaction
  <2>. QED BY <2>2, <2>3, <2>4, <2>5 DEF CleanedUp, IsOpen
<1>4. ASSUME req'[r].pc \in {"find", "lock"}, ~ClaimExpire(r)
      PROVE  /\ req[r].pc \in {"find", "lock"}
             /\ req'[r].asOf = req[r].asOf
  <2>1. CASE req'[r] = req[r]
    BY <1>4, <2>1
  <2>2. CASE req'[r] # req[r]
    <3>1. Start(r) \/ Continue(r) \/ Fail(r)
      BY <2>2, OneMoves
    <3>2. CASE ClaimFind(r) /\ ~Finish(r)
      <4>1. PICK u \in TokenId, to \in {"LOCKED", "REJECTED"} :
              req' = [req EXCEPT ![r] = [req[r] EXCEPT !.pc = "lock", !.tid = u,
                        !.act = IF to = "LOCKED" THEN "lock" ELSE "reject",
                        !.code = NoCode, !.right = FALSE, !.to = to]]
        BY <3>2 DEF ClaimFind, Verdict
      <4>2. req'[r].asOf = req[r].asOf
        BY <4>1 DEF Request_
      <4>. QED BY <3>2, <4>2 DEF ClaimFind
    <3>3. CASE Finish(r)
      BY <1>4, <3>3, IdleFields DEF Finish
    <3>4. CASE \E pc \in {"created", "notify", "reread", "clear", "commit", "remainder"} :
                 Goto(r, pc)
      BY <1>4, <3>4 DEF Goto, Request_
    <3>5. CASE Start(r)
      BY <1>4, <3>5, StartsAt
    <3>6. CASE Retry(r) /\ ~Finish(r)
      BY <1>4, <3>6, RetryInserts
    <3>7. CASE ConfirmCommit(r)
      BY <1>4, <3>7 DEF ConfirmCommit, Request_
    <3>8. CASE ConfirmRemainder(r)
      BY <1>4, <3>8 DEF ConfirmRemainder, Request_
    <3>. QED
      BY <3>1, <3>2, <3>3, <3>4, <3>5, <3>6, <3>7, <3>8
      DEF Continue, Fail, CreateInsert, CreateReread, CreateFails, ClaimLock, Notify,
          Reread, AddClearing, Abort, ConfirmUpdate
  <2>. QED BY <2>1, <2>2
<1>. QED BY <1>2, <1>3, <1>4 DEF CleanedUp

(* No claim locks a token that had expired before the claim began: what is *)
(* OPEN while a claim is under way outlives its cleanup or is younger      *)
(* (token.ts 236-261, 405).                                                *)
THEOREM ClaimsAreFresh == Spec => NoExpiredClaim
<1>1. Init => EInv
  <2>1. ASSUME Init, NEW r \in Request PROVE CleanedUp(r)
    BY <2>1, IdleFields DEF Init, CleanedUp
  <2>. QED BY <2>1, InitReports, ConstantsAssumption DEF EInv
<1>2. EInv /\ [Next]_vars => EInv'
  BY ConstantsAssumption, RStep, CleanedStep DEF EInv
<1>3. ASSUME EInv, [Next]_vars, NEW r \in Request,
             req[r].pc = "lock", req'[r].pc = "notify"
      PROVE  token[req[r].tid].expires >= req[r].asOf \/ token[req[r].tid].created >= req[r].asOf
  <2>1. Start(r) \/ Continue(r) \/ Fail(r)
    BY <1>3, OneMoves, ConstantsAssumption DEF EInv, RInv
  <2>2. CASE ClaimLock(r) /\ ~Finish(r)
    BY <1>3, <2>2 DEF ClaimLock, EInv, RInv, IInv, Placed, PlacedRequest, CleanedUp
  <2>3. CASE Finish(r)
    BY <1>3, <2>3, IdleFields DEF Finish, EInv, RInv, IInv, TypeOK
  <2>. QED
    BY <1>3, <2>1, <2>2, <2>3
    DEF Start, Continue, Fail, CreateStart, Delete, Update, ClaimExpire, ConfirmRead,
        CreateInsert, CreateReread, CreateFails, ClaimFind, ClaimLock, ConfirmUpdate,
        ConfirmRemainder, ConfirmCommit, Notify, Reread, AddClearing, Abort
<1>4. EInv /\ [Next]_vars =>
        [\A r \in Request : LET t == req[r].tid IN
           req[r].pc = "lock" /\ req'[r].pc = "notify" =>
             \/ token[t].expires >= req[r].asOf
             \/ token[t].created >= req[r].asOf]_vars
  BY <1>3
<1>. QED BY <1>1, <1>2, <1>4, PTL DEF Spec, NoExpiredClaim

(* A settlement that can be read changes in the names of its two devices   *)
(* only, which are the names of the same devices, as edited (clearing.ts   *)
(* 25-30, token.ts 178, 384-395, 410, device.ts 53-69).                    *)
THEOREM SettlementsStay == ReportsSpec => SettlementFixed
<1>1. ASSUME RInv, [Next]_vars, NEW t \in TokenId, clearing[t] # NoClearing
      PROVE  ClearingLine(t, refname)' = ClearingLine(t, refname')
  <2>1. clearing'[t] = clearing[t]
    BY <1>1, ClearingSteps DEF RInv
  <2>2. token[t].state = "COMPLETED"
    BY <1>1 DEF RInv, ClearingMatchesToken
  <2>3. Exists(t) /\ Ended(t) /\ ~IsOpen(t)
    BY <2>2 DEF Exists, Ended, Live, IsOpen
  <2>4. /\ token'[t].type = token[t].type
        /\ token'[t].amount = token[t].amount
    BY <1>1, <2>3, RowFates, ConstantsAssumption DEF RInv, RowFate
  <2>5. /\ token'[t].device = token[t].device
        /\ token'[t].lock = token[t].lock
    BY <1>1, <2>3, RowSteps, ConstantsAssumption DEF RInv, RowStep
  <2>. QED BY <2>1, <2>4, <2>5 DEF ClearingLine
<1>2. RInv /\ [ReportsNext]_reportVars =>
        [\A t \in TokenId : clearing[t] # NoClearing =>
           ClearingLine(t, refname)' = ClearingLine(t, refname')]_reportVars
  BY <1>1, ReportsSteps
<1>. QED BY <1>2, ReportsInvariant, TokensBelow, PTL DEF ReportsSpec, SettlementFixed

-----------------------------------------------------------------------------
(* Sums.  SumFunctionOnSet folds a set in the order CHOOSE picks; that the *)
(* order does not matter, and that sums may be regrouped and renamed, is   *)
(* proved by induction over the subsets of a finite set.                   *)

\* The induction on finite sets that the sums need.
LEMMA SubsetInduction ==
    ASSUME NEW S, IsFiniteSet(S), NEW P,
           \A s \in SUBSET S : (\A u \in SUBSET s : u # s => u \in P) => s \in P
    PROVE  S \in P
<1>. DEFINE T == {s \in SUBSET S : s \notin P}
<1>. SUFFICES ASSUME S \notin P PROVE FALSE
  OBVIOUS
<1>1. T \subseteq FiniteSubsetsOf(S) /\ T # {}
  BY FS_Subset DEF FiniteSubsetsOf
<1>2. IsWellFoundedOn(StrictSubsetOrdering(S), FiniteSubsetsOf(S))
  BY FS_StrictSubsetOrderingWellFounded
<1>. HIDE DEF T
<1>3. PICK s \in T : \A u \in T : <<u, s>> \notin StrictSubsetOrdering(S)
  BY <1>1, <1>2, WFMin
<1>4. s \in SUBSET S /\ s \notin P
  BY DEF T
<1>5. ASSUME NEW u \in SUBSET s, u # s PROVE u \in P
  <2>1. <<u, s>> \in (SUBSET S) \X (SUBSET S)
    BY <1>4, <1>5
  <2>2. <<u, s>> \in StrictSubsetOrdering(S)
    BY <2>1, <1>5 DEF StrictSubsetOrdering
  <2>. QED  BY <1>3, <1>4, <1>5, <2>2 DEF T
<1>. QED  BY <1>4, <1>5

LEMMA AddInduction ==
    ASSUME NEW S, IsFiniteSet(S), NEW P, {} \in P,
           \A s \in SUBSET S : \A x \in S \ s : s \in P => s \cup {x} \in P
    PROVE  S \in P
<1>1. ASSUME NEW s \in SUBSET S, \A u \in SUBSET s : u # s => u \in P
      PROVE  s \in P
  <2>1. CASE s = {}
    BY <2>1
  <2>2. CASE s # {}
    <3>1. PICK x \in s : TRUE
      BY <2>2
    <3>. DEFINE u == s \ {x}
    <3>2. u \in SUBSET s /\ u # s /\ x \in S \ u /\ u \cup {x} = s
      BY <3>1
    <3>3. u \in P
      BY <1>1, <3>2
    <3>. HIDE DEF u
    <3>. QED  BY <3>2, <3>3
  <2>. QED  BY <2>1, <2>2
<1>. QED  BY <1>1, SubsetInduction

\* The fold of the community modules: what it picks, and what it iterates.
Picked(s) == CHOOSE x \in s : TRUE
Unfolded(f, g, s) == IF s = {} THEN 0 ELSE f[Picked(s)] + g[s \ {Picked(s)}]
SumIter(f, S) == CHOOSE g : g = [s \in SUBSET S |-> Unfolded(f, g, s)]
Recurs(f, S, g) == \A s \in SUBSET S : g[s] = Unfolded(f, g, s)
Summing(f, S, g) == g \in [SUBSET S -> Int] /\ Recurs(f, S, g)

LEMMA SumIsIter == ASSUME NEW f, NEW S PROVE SumFunctionOnSet(f, S) = SumIter(f, S)[S]
BY DEF SumFunctionOnSet, FoldFunctionOnSet, MapThenFoldSet, SumIter, Unfolded, Picked

LEMMA PickedIn == ASSUME NEW s, s # {} PROVE Picked(s) \in s
BY DEF Picked

\* What sums up a set sums up its subsets.
LEMMA SumsAgree ==
    ASSUME NEW f, NEW S, NEW T, IsFiniteSet(S), S \subseteq T,
           NEW g, NEW h, Recurs(f, S, g), Recurs(f, T, h)
    PROVE  g[S] = h[S]
<1>. DEFINE P == {s \in SUBSET S : g[s] = h[s]}
<1>1. ASSUME NEW s \in SUBSET S, \A u \in SUBSET s : u # s => u \in P
      PROVE  s \in P
  <2>1. CASE s = {}
    BY <2>1 DEF Recurs, Summing, Unfolded
  <2>2. CASE s # {}
    <3>. DEFINE x == Picked(s)
    <3>1. x \in s
      BY <2>2, PickedIn
    <3>. HIDE DEF x
    <3>2. g[s \ {x}] = h[s \ {x}]
      BY <1>1, <3>1
    <3>3. /\ g[s] = f[x] + g[s \ {x}]
          /\ h[s] = f[x] + h[s \ {x}]
      BY <2>2 DEF Recurs, Summing, Unfolded, x
    <3>. QED  BY <3>2, <3>3
  <2>. QED  BY <2>1, <2>2
<1>2. S \in P
  <2>. HIDE DEF P
  <2>. QED  BY <1>1, SubsetInduction
<1>. QED  BY <1>2

LEMMA SumsExist ==
    ASSUME NEW f, NEW S, IsFiniteSet(S), \A x \in S : f[x] \in Int
    PROVE  \E g : Summing(f, S, g)
<1>. DEFINE P == {s \in SUBSET S : \E g : Summing(f, s, g)}
<1>1. ASSUME NEW s \in SUBSET S, \A u \in SUBSET s : u # s => u \in P
      PROVE  s \in P
  <2>. DEFINE own(u) == CHOOSE g : Summing(f, u, g)
              value(u) == own(u)[u]
              h == [u \in SUBSET s |-> IF u # s THEN value(u)
                      ELSE IF s = {} THEN 0
                      ELSE f[Picked(s)] + value(s \ {Picked(s)})]
  <2>1. ASSUME NEW u \in SUBSET s, u # s
        PROVE  Summing(f, u, own(u))
    BY <1>1, <2>1
  <2>. HIDE DEF own, P
  <2>2. ASSUME NEW u \in SUBSET s, u # s
        PROVE  value(u) \in Int
    BY <2>1, <2>2 DEF Summing
  <2>3. ASSUME NEW u \in SUBSET s, u # s, u # {}
        PROVE  value(u) = f[Picked(u)] + value(u \ {Picked(u)})
    <3>. DEFINE v == u \ {Picked(u)}
    <3>1. Picked(u) \in u /\ v \in SUBSET u /\ v # s
      BY <2>3, PickedIn
    <3>2. IsFiniteSet(v)
      BY <3>1, FS_Subset
    <3>3. own(v)[v] = own(u)[v]
      <4>1. Summing(f, v, own(v)) /\ Summing(f, u, own(u))
        BY <2>1, <2>3, <3>1
      <4>. HIDE DEF v
      <4>. QED  BY <4>1, <3>1, <3>2, SumsAgree DEF Summing
    <3>4. value(u) = f[Picked(u)] + own(u)[v]
      BY <2>1, <2>3 DEF Recurs, Summing, Unfolded
    <3>. QED  BY <3>3, <3>4
  <2>4. s # {} => /\ Picked(s) \in s
                  /\ s \ {Picked(s)} \in SUBSET s /\ s \ {Picked(s)} # s
                  /\ f[Picked(s)] \in Int
    BY PickedIn
  <2>. HIDE DEF value
  <2>5. h \in [SUBSET s -> Int]
    BY <2>2, <2>4
  <2>6. ASSUME NEW u \in SUBSET s
        PROVE  h[u] = Unfolded(f, h, u)
    <3>1. CASE u = {} /\ u = s
      BY <3>1 DEF Unfolded
    <3>2. CASE u = {} /\ u # s
      <4>1. value({}) = 0
        BY <2>1, <3>2 DEF value, Summing, Recurs, Unfolded
      <4>. QED  BY <3>2, <4>1 DEF Unfolded
    <3>3. CASE u # {}
      <4>1. /\ Picked(u) \in u
            /\ u \ {Picked(u)} \in SUBSET s /\ u \ {Picked(u)} # s
        BY <3>3, PickedIn
      <4>2. h[u \ {Picked(u)}] = value(u \ {Picked(u)})
        BY <4>1
      <4>3. h[u] = f[Picked(u)] + value(u \ {Picked(u)})
        BY <2>3, <3>3
      <4>. HIDE DEF h
      <4>. QED  BY <3>3, <4>2, <4>3 DEF Unfolded
    <3>. QED  BY <3>1, <3>2, <3>3
  <2>7. Summing(f, s, h)
    <3>. HIDE DEF h
    <3>. QED  BY <2>5, <2>6 DEF Summing, Recurs
  <2>. QED  BY <2>7 DEF P
<1>2. S \in P
  <2>. HIDE DEF P
  <2>. QED  BY <1>1, SubsetInduction
<1>. QED  BY <1>2

LEMMA IterSums ==
    ASSUME NEW f, NEW S, IsFiniteSet(S), \A x \in S : f[x] \in Int
    PROVE  Summing(f, S, SumIter(f, S))
<1>1. PICK g : Summing(f, S, g)
  BY SumsExist
<1>2. g = [s \in SUBSET S |-> Unfolded(f, g, s)]
  BY <1>1 DEF Summing, Recurs
<1>3. SumIter(f, S) = [s \in SUBSET S |-> Unfolded(f, SumIter(f, S), s)]
  BY <1>2 DEF SumIter
<1>4. Recurs(f, S, SumIter(f, S)) /\ Recurs(f, S, g)
  BY <1>1, <1>3 DEF Recurs, Summing
<1>5. ASSUME NEW s \in SUBSET S
      PROVE  SumIter(f, S)[s] = g[s]
  <2>1. Recurs(f, s, SumIter(f, S)) /\ IsFiniteSet(s)
    BY <1>4, FS_Subset DEF Recurs
  <2>. QED  BY <1>4, <2>1, SumsAgree
<1>6. SumIter(f, S) \in [SUBSET S -> Int]
  <2>1. \A s \in SUBSET S : SumIter(f, S)[s] \in Int
    BY <1>1, <1>5 DEF Summing
  <2>2. SumIter(f, S) = [s \in SUBSET S |-> SumIter(f, S)[s]]
    BY <1>3
  <2>. QED  BY <2>1, <2>2
<1>. QED  BY <1>4, <1>6 DEF Summing, Recurs

LEMMA SumFacts ==
    ASSUME NEW f, NEW S, IsFiniteSet(S), \A x \in S : f[x] \in Int
    PROVE  /\ SumFunctionOnSet(f, S) \in Int
           /\ SumFunctionOnSet(f, {}) = 0
           /\ S # {} => SumFunctionOnSet(f, S) =
                          f[Picked(S)] + SumFunctionOnSet(f, S \ {Picked(S)})
<1>. DEFINE i == SumIter(f, S)
            u == S \ {Picked(S)}
<1>1. Summing(f, S, i)
  BY IterSums
<1>2. IsFiniteSet({}) /\ Summing(f, {}, SumIter(f, {}))
  BY IterSums, FS_EmptySet
<1>3. IsFiniteSet(u) /\ u \in SUBSET S
  BY FS_Subset
<1>4. Summing(f, u, SumIter(f, u))
  BY <1>3, IterSums
<1>5. i[u] = SumIter(f, u)[u]
  <2>. HIDE DEF u, i
  <2>. QED  BY <1>1, <1>3, <1>4, SumsAgree DEF Summing
<1>6. S # {} => i[S] = f[Picked(S)] + i[u]
  BY <1>1 DEF Summing, Recurs, Unfolded
<1>7. i[S] \in Int
  BY <1>1 DEF Summing
<1>8. SumIter(f, {})[{}] = 0
  BY <1>2 DEF Summing, Recurs, Unfolded
<1>. HIDE DEF u
<1>. QED  BY <1>5, <1>6, <1>7, <1>8, SumIsIter DEF u

\* The order does not matter.
LEMMA SumRemoves ==
    ASSUME NEW f, NEW S, IsFiniteSet(S), \A x \in S : f[x] \in Int, NEW x \in S
    PROVE  SumFunctionOnSet(f, S) = f[x] + SumFunctionOnSet(f, S \ {x})
<1>. DEFINE sum(s) == SumFunctionOnSet(f, s)
            P == {s \in SUBSET S : \A y \in s : sum(s) = f[y] + sum(s \ {y})}
<1>1. ASSUME NEW s \in SUBSET S
      PROVE  /\ IsFiniteSet(s) /\ sum(s) \in Int
             /\ s # {} => /\ Picked(s) \in s
                          /\ sum(s) = f[Picked(s)] + sum(s \ {Picked(s)})
  <2>1. IsFiniteSet(s) /\ \A y \in s : f[y] \in Int
    BY FS_Subset
  <2>. QED  BY <2>1, SumFacts, PickedIn
<1>. HIDE DEF sum
<1>2. ASSUME NEW s \in SUBSET S, \A u \in SUBSET s : u # s => u \in P, NEW y \in s
      PROVE  sum(s) = f[y] + sum(s \ {y})
  <2>. DEFINE z == Picked(s)
              both == s \ {y, z}
  <2>1. z \in s /\ sum(s) = f[z] + sum(s \ {z})
    BY <1>1
  <2>. HIDE DEF z
  <2>2. CASE y = z
    BY <2>1, <2>2
  <2>3. CASE y # z
    <3>1. s \ {z} \in P /\ s \ {y} \in P
      BY <1>2, <2>1
    <3>2. (s \ {z}) \ {y} = both /\ (s \ {y}) \ {z} = both
      OBVIOUS
    <3>3. y \in s \ {z} /\ z \in s \ {y}
      BY <2>1, <2>3
    <3>4. sum(s \ {z}) = f[y] + sum(both) /\ sum(s \ {y}) = f[z] + sum(both)
      BY <3>1, <3>2, <3>3
    <3>5. sum(both) \in Int /\ f[y] \in Int /\ f[z] \in Int
      BY <1>1, <2>1
    <3>. HIDE DEF both
    <3>. QED  BY <2>1, <3>4, <3>5
  <2>. QED  BY <2>2, <2>3
<1>3. S \in P
  <2>1. ASSUME NEW s \in SUBSET S, \A u \in SUBSET s : u # s => u \in P
        PROVE  s \in P
    BY <1>2, <2>1
  <2>. HIDE DEF P
  <2>. QED  BY <2>1, SubsetInduction
<1>. QED  BY <1>3 DEF sum

LEMMA SumAdds ==
    ASSUME NEW f, NEW S, IsFiniteSet(S), NEW x, x \notin S,
           \A y \in S \cup {x} : f[y] \in Int
    PROVE  SumFunctionOnSet(f, S \cup {x}) = f[x] + SumFunctionOnSet(f, S)
<1>1. IsFiniteSet(S \cup {x}) /\ x \in S \cup {x} /\ (S \cup {x}) \ {x} = S
  BY FS_AddElement
<1>. DEFINE T == S \cup {x}
<1>2. \A y \in T : f[y] \in Int
  OBVIOUS
<1>. HIDE DEF T
<1>3. SumFunctionOnSet(f, T) = f[x] + SumFunctionOnSet(f, T \ {x})
  BY <1>1, <1>2, SumRemoves DEF T
<1>. QED  BY <1>1, <1>3 DEF T

\* Summing of the same amounts, under other names.
LEMMA SumImage ==
    ASSUME NEW S, IsFiniteSet(S), NEW f, NEW g, NEW b,
           \A x \in S : f[x] \in Int /\ g[b[x]] = f[x],
           \A x, y \in S : b[x] = b[y] => x = y
    PROVE  SumFunctionOnSet(g, {b[x] : x \in S}) = SumFunctionOnSet(f, S)
<1>. DEFINE im(s) == {b[x] : x \in s}
            P == {s \in SUBSET S : /\ IsFiniteSet(im(s))
                                   /\ SumFunctionOnSet(g, im(s)) = SumFunctionOnSet(f, s)}
<1>1. {} \in P
  <2>1. im({}) = {}
    OBVIOUS
  <2>. HIDE DEF im
  <2>2. SumFunctionOnSet(g, {}) = 0 /\ SumFunctionOnSet(f, {}) = 0
    BY SumFacts, FS_EmptySet
  <2>. QED  BY <2>1, <2>2, FS_EmptySet
<1>2. ASSUME NEW s \in SUBSET S, NEW x \in S \ s, s \in P
      PROVE  s \cup {x} \in P
  <2>1. im(s \cup {x}) = im(s) \cup {b[x]} /\ b[x] \notin im(s)
    BY <1>2
  <2>2. \A y \in im(s) \cup {b[x]} : g[y] \in Int
    BY <1>2
  <2>3. IsFiniteSet(s) /\ IsFiniteSet(im(s))
    BY <1>2, FS_Subset
  <2>4. SumFunctionOnSet(f, s \cup {x}) = f[x] + SumFunctionOnSet(f, s)
    <3>1. \A y \in s \cup {x} : f[y] \in Int
      OBVIOUS
    <3>. QED  BY <2>3, <3>1, <1>2, SumAdds
  <2>5. SumFunctionOnSet(g, im(s) \cup {b[x]}) = g[b[x]] + SumFunctionOnSet(g, im(s))
    <3>. HIDE DEF im
    <3>. QED  BY <2>1, <2>2, <2>3, SumAdds
  <2>6. IsFiniteSet(im(s \cup {x}))
    <3>. HIDE DEF im
    <3>1. IsFiniteSet(im(s) \cup {b[x]})
      BY <2>3, FS_AddElement
    <3>. QED  BY <2>1, <3>1
  <2>7. SumFunctionOnSet(g, im(s \cup {x})) = SumFunctionOnSet(f, s \cup {x})
    <3>1. g[b[x]] = f[x]
      OBVIOUS
    <3>2. SumFunctionOnSet(g, im(s)) = SumFunctionOnSet(f, s)
      BY <1>2
    <3>. HIDE DEF im
    <3>. QED  BY <2>1, <2>4, <2>5, <3>1, <3>2
  <2>8. s \cup {x} \in SUBSET S
    OBVIOUS
  <2>. HIDE DEF im
  <2>. QED  BY <2>6, <2>7, <2>8
<1>3. S \in P
  <2>. HIDE DEF P
  <2>. QED  BY <1>1, <1>2, AddInduction
<1>. QED  BY <1>3

LEMMA SumSame ==
    ASSUME NEW S, IsFiniteSet(S), NEW f, NEW g, \A x \in S : f[x] \in Int /\ g[x] = f[x]
    PROVE  SumFunctionOnSet(g, S) = SumFunctionOnSet(f, S)
<1>. DEFINE b == [x \in S |-> x]
<1>1. \A x \in S : f[x] \in Int /\ g[b[x]] = f[x]
  OBVIOUS
<1>2. \A x, y \in S : b[x] = b[y] => x = y
  OBVIOUS
<1>3. {b[x] : x \in S} = S
  OBVIOUS
<1>. HIDE DEF b
<1>4. SumFunctionOnSet(g, {b[x] : x \in S}) = SumFunctionOnSet(f, S)
  BY <1>1, <1>2, SumImage
<1>. QED  BY <1>3, <1>4

LEMMA SumOnes ==
    ASSUME NEW S, IsFiniteSet(S), NEW f, \A x \in S : f[x] = 1
    PROVE  SumFunctionOnSet(f, S) = Cardinality(S)
<1>. DEFINE P == {s \in SUBSET S : SumFunctionOnSet(f, s) = Cardinality(s)}
<1>1. {} \in P
  BY SumFacts, FS_EmptySet
<1>2. ASSUME NEW s \in SUBSET S, NEW x \in S \ s, s \in P
      PROVE  s \cup {x} \in P
  <2>1. IsFiniteSet(s) /\ \A y \in s \cup {x} : f[y] = 1
    BY FS_Subset
  <2>2. SumFunctionOnSet(f, s \cup {x}) = 1 + SumFunctionOnSet(f, s)
    BY <2>1, SumAdds
  <2>3. Cardinality(s) \in Nat /\ Cardinality(s \cup {x}) = Cardinality(s) + 1
    BY <2>1, FS_AddElement, FS_CardinalityType
  <2>. QED  BY <1>2, <2>2, <2>3
<1>3. S \in P
  <2>. HIDE DEF P
  <2>. QED  BY <1>1, <1>2, AddInduction
<1>. QED  BY <1>3

\* A sum is the sum of the sums of its groups.
Group(S, k, g) == {x \in S : k[x] = g}

LEMMA SumOfGroups ==
    ASSUME NEW S, IsFiniteSet(S), NEW f, \A x \in S : f[x] \in Int,
           NEW G, IsFiniteSet(G), NEW k, \A x \in S : k[x] \in G,
           NEW sums, \A g \in G : sums[g] = SumFunctionOnSet(f, Group(S, k, g))
    PROVE  SumFunctionOnSet(sums, G) = SumFunctionOnSet(f, S)
<1>. DEFINE part(s, g) == Group(s, k, g)
            of(s) == [g \in G |-> SumFunctionOnSet(f, part(s, g))]
            P == {s \in SUBSET S : SumFunctionOnSet(of(s), G) = SumFunctionOnSet(f, s)}
<1>1. ASSUME NEW s \in SUBSET S
      PROVE  /\ IsFiniteSet(s) /\ SumFunctionOnSet(f, s) \in Int
             /\ of(s) \in [G -> Int]
  <2>1. IsFiniteSet(s) /\ SumFunctionOnSet(f, s) \in Int
    BY FS_Subset, SumFacts
  <2>2. ASSUME NEW g \in G PROVE SumFunctionOnSet(f, part(s, g)) \in Int
    <3>1. part(s, g) \in SUBSET S
      BY DEF Group
    <3>. HIDE DEF part
    <3>. QED  BY <3>1, FS_Subset, SumFacts
  <2>. HIDE DEF part
  <2>. QED  BY <2>1, <2>2
<1>2. {} \in P
  <2>1. \A g \in G : part({}, g) = {}
    BY DEF Group
  <2>. HIDE DEF part
  <2>2. SumFunctionOnSet(f, {}) = 0
    BY SumFacts
  <2>3. \A g \in G : of({})[g] = 0
    BY <2>1, <2>2
  <2>. HIDE DEF of
  <2>4. SumFunctionOnSet(of({}), G) = 0
    <3>. DEFINE H == {h \in SUBSET G : SumFunctionOnSet(of({}), h) = 0}
    <3>1. {} \in H
      BY SumFacts, FS_EmptySet
    <3>2. ASSUME NEW h \in SUBSET G, NEW g \in G \ h, h \in H
          PROVE  h \cup {g} \in H
      <4>1. IsFiniteSet(h) /\ \A y \in h \cup {g} : of({})[y] \in Int
        BY <2>3, FS_Subset
      <4>2. SumFunctionOnSet(of({}), h \cup {g}) = of({})[g] + SumFunctionOnSet(of({}), h)
        BY <4>1, SumAdds
      <4>. QED  BY <3>2, <2>3, <4>2
    <3>. HIDE DEF H
    <3>3. G \in H
      BY <3>1, <3>2, AddInduction
    <3>. QED  BY <3>3 DEF H
  <2>. QED  BY <2>2, <2>4
<1>3. ASSUME NEW s \in SUBSET S, NEW x \in S \ s, s \in P
      PROVE  s \cup {x} \in P
  <2>. DEFINE t == s \cup {x}
              g == k[x]
  <2>1. t \in SUBSET S /\ g \in G
    OBVIOUS
  <2>2. /\ part(t, g) = part(s, g) \cup {x} /\ x \notin part(s, g)
        /\ \A h \in G \ {g} : part(t, h) = part(s, h)
    BY DEF Group
  <2>3. /\ part(s, g) \in SUBSET S
        /\ \A y \in part(s, g) \cup {x} : f[y] \in Int
    BY DEF Group
  <2>. HIDE DEF part
  <2>4. of(t)[g] = f[x] + of(s)[g]
    <3>1. IsFiniteSet(part(s, g))
      BY <2>3, FS_Subset
    <3>2. SumFunctionOnSet(f, part(s, g) \cup {x}) = f[x] + SumFunctionOnSet(f, part(s, g))
      BY <2>2, <2>3, <3>1, SumAdds
    <3>. HIDE DEF t
    <3>. QED  BY <2>1, <2>2, <3>2
  <2>5. \A h \in G \ {g} : of(t)[h] = of(s)[h]
    <3>. HIDE DEF t
    <3>. QED  BY <2>2
  <2>6. of(s) \in [G -> Int] /\ of(t) \in [G -> Int]
    BY <1>1, <2>1
  <2>7. SumFunctionOnSet(f, t) = f[x] + SumFunctionOnSet(f, s)
    <3>1. IsFiniteSet(s) /\ \A y \in s \cup {x} : f[y] \in Int
      BY <1>1
    <3>. QED  BY <3>1, <1>3, SumAdds
  <2>. HIDE DEF of, t, g
  <2>8. /\ SumFunctionOnSet(of(t), G) = of(t)[g] + SumFunctionOnSet(of(t), G \ {g})
        /\ SumFunctionOnSet(of(s), G) = of(s)[g] + SumFunctionOnSet(of(s), G \ {g})
    BY <2>1, <2>6, SumRemoves
  <2>9. IsFiniteSet(G \ {g}) /\ SumFunctionOnSet(of(s), G \ {g}) \in Int
    <3>1. IsFiniteSet(G \ {g}) /\ \A y \in G \ {g} : of(s)[y] \in Int
      BY <2>6, FS_RemoveElement
    <3>. QED  BY <3>1, SumFacts
  <2>10. SumFunctionOnSet(of(t), G \ {g}) = SumFunctionOnSet(of(s), G \ {g})
    BY <2>5, <2>6, <2>9, SumSame
  <2>11. SumFunctionOnSet(of(s), G) = SumFunctionOnSet(f, s)
    BY <1>3
  <2>12. f[x] \in Int /\ of(s)[g] \in Int
    BY <2>1, <2>6
  <2>13. SumFunctionOnSet(of(t), G) = SumFunctionOnSet(f, t)
    BY <2>4, <2>7, <2>8, <2>9, <2>10, <2>11, <2>12
  <2>. QED  BY <2>1, <2>13 DEF t
<1>4. S \in P
  <2>. HIDE DEF P
  <2>. QED  BY <1>2, <1>3, AddInduction
<1>5. SumFunctionOnSet(sums, G) = SumFunctionOnSet(of(S), G)
  <2>1. of(S) \in [G -> Int]
    BY <1>1
  <2>2. \A g \in G : sums[g] = of(S)[g]
    OBVIOUS
  <2>. HIDE DEF of
  <2>. QED  BY <2>1, <2>2, SumSame
<1>. QED  BY <1>4, <1>5

-----------------------------------------------------------------------------
(* Statistics and settlements. *)

\* The same amounts under two names add up to the same.
LEMMA SameTotals ==
    ASSUME NEW T, IsFiniteSet(T), NEW b, NEW c,
           \A t \in T : b[t].amount \in Int /\ c[t].amount = b[t].amount,
           \A t, u \in T : b[t] = b[u] \/ c[t] = c[u] => t = u
    PROVE  Totals({b[t] : t \in T}) = Totals({c[t] : t \in T})
<1>. DEFINE one == [t \in T |-> 1]
            worth == [t \in T |-> b[t].amount]
<1>1. ASSUME NEW d, \A t \in T : d[t].amount = b[t].amount,
             \A t, u \in T : d[t] = d[u] => t = u
      PROVE  Totals({d[t] : t \in T}) =
               [count |-> SumFunctionOnSet(one, T), amount |-> SumFunctionOnSet(worth, T)]
  <2>. DEFINE D == {d[t] : t \in T}
              ones == [x \in D |-> 1]
              amounts == [x \in D |-> x.amount]
  <2>1. /\ \A t \in T : one[t] \in Int /\ ones[d[t]] = one[t]
        /\ \A t \in T : worth[t] \in Int /\ amounts[d[t]] = worth[t]
    BY <1>1
  <2>2. \A x \in D : ones[x] = 1
    OBVIOUS
  <2>3. IsFiniteSet(D)
    <3>1. [t \in T |-> d[t]] \in Surjection(T, D)
      BY DEF Surjection
    <3>. HIDE DEF D
    <3>. QED  BY <3>1, FS_Surjection
  <2>4. DOMAIN amounts = D
    OBVIOUS
  <2>. HIDE DEF one, worth, ones, amounts
  <2>5. /\ SumFunctionOnSet(ones, D) = SumFunctionOnSet(one, T)
        /\ SumFunctionOnSet(amounts, D) = SumFunctionOnSet(worth, T)
    BY <1>1, <2>1, SumImage
  <2>6. SumFunctionOnSet(ones, D) = Cardinality(D)
    <3>. HIDE DEF D
    <3>. QED  BY <2>2, <2>3, SumOnes
  <2>7. SumFunction(amounts) = SumFunctionOnSet(amounts, D)
    BY <2>4 DEF SumFunction
  <2>8. Totals(D) = [count |-> Cardinality(D), amount |-> SumFunction(amounts)]
    BY DEF Totals, amounts
  <2>. HIDE DEF D
  <2>. QED  BY <2>5, <2>6, <2>7, <2>8 DEF D
<1>. HIDE DEF one, worth
<1>. QED  BY <1>1

LinesOf(L, g) == {l \in L : GroupOf(l) = g}
LinesOfType(L, type) == {l \in L : l.type = type}
GroupsOfType(L, type) == {g \in {GroupOf(l) : l \in L} : g[1] = type}

\* The totals of the groups of a type add up to the totals of the type.
LEMMA TotalsOfGroups ==
    ASSUME NEW L, IsFiniteSet(L), \A l \in L : l.amount \in Int, NEW type,
           NEW sums, NEW of, of = GroupsOfType(L, type),
           \A g \in of : sums[g] = Totals(LinesOf(L, g)),
           NEW M, M = LinesOfType(L, type)
    PROVE  /\ Totals(M).count = SumFunction([g \in of |-> sums[g].count])
           /\ Totals(M).amount = SumFunction([g \in of |-> sums[g].amount])
<1>. DEFINE k == [l \in M |-> GroupOf(l)]
            counts == [g \in of |-> sums[g].count]
            amounts == [g \in of |-> sums[g].amount]
            one == [l \in M |-> 1]
            worth == [l \in M |-> l.amount]
            part(g) == Group(M, k, g)
<1>1. IsFiniteSet(M) /\ IsFiniteSet(of)
  <2>1. M \in SUBSET L
    BY DEF LinesOfType
  <2>2. k \in Surjection(M, of)
    <3>1. \A l \in M : GroupOf(l) \in of
      BY DEF GroupOf, LinesOfType, GroupsOfType
    <3>2. \A g \in of : \E l \in M : GroupOf(l) = g
      BY DEF GroupOf, LinesOfType, GroupsOfType
    <3>. QED  BY <3>1, <3>2 DEF Surjection
  <2>. HIDE DEF k
  <2>. QED  BY <2>1, <2>2, FS_Subset, FS_Surjection
<1>2. \A l \in M : one[l] \in Int /\ worth[l] \in Int /\ k[l] \in of
  BY DEF GroupOf, LinesOfType, GroupsOfType
<1>3. ASSUME NEW g \in of
      PROVE  /\ counts[g] = SumFunctionOnSet(one, part(g))
             /\ amounts[g] = SumFunctionOnSet(worth, part(g))
  <2>. DEFINE own == [x \in part(g) |-> x.amount]
  <2>1. part(g) = LinesOf(L, g)
    BY DEF GroupOf, LinesOf, Group, LinesOfType, GroupsOfType
  <2>2. part(g) \in SUBSET M /\ DOMAIN own = part(g)
    BY DEF Group
  <2>3. \A l \in part(g) : one[l] = 1 /\ worth[l] \in Int /\ own[l] = worth[l]
    BY <1>2 DEF Group
  <2>4. Totals(part(g)) = [count |-> Cardinality(part(g)), amount |-> SumFunction(own)]
    BY DEF Totals
  <2>5. sums[g] = Totals(part(g))
    BY <2>1
  <2>. HIDE DEF part, own, one, worth
  <2>6. IsFiniteSet(part(g))
    BY <1>1, <2>2, FS_Subset
  <2>7. SumFunctionOnSet(one, part(g)) = Cardinality(part(g))
    BY <2>3, <2>6, SumOnes
  <2>8. SumFunctionOnSet(own, part(g)) = SumFunctionOnSet(worth, part(g))
    BY <2>3, <2>6, SumSame
  <2>9. SumFunction(own) = SumFunctionOnSet(own, part(g))
    BY <2>2 DEF SumFunction
  <2>. QED  BY <2>4, <2>5, <2>7, <2>8, <2>9
<1>4. /\ DOMAIN counts = of /\ DOMAIN amounts = of /\ DOMAIN worth = M
      /\ \A l \in M : one[l] = 1
  OBVIOUS
<1>5. Totals(M) = [count |-> Cardinality(M), amount |-> SumFunction(worth)]
  BY DEF Totals
<1>. HIDE DEF k, counts, amounts, one, worth
<1>6. /\ SumFunctionOnSet(counts, of) = SumFunctionOnSet(one, M)
      /\ SumFunctionOnSet(amounts, of) = SumFunctionOnSet(worth, M)
  <2>1. (\A l \in M : one[l] \in Int) /\ (\A l \in M : k[l] \in of)
    BY <1>2
  <2>2. \A g \in of : counts[g] = SumFunctionOnSet(one, Group(M, k, g))
    BY <1>3
  <2>3. SumFunctionOnSet(counts, of) = SumFunctionOnSet(one, M)
    BY <1>1, <2>1, <2>2, SumOfGroups
  <2>4. \A g \in of : amounts[g] = SumFunctionOnSet(worth, Group(M, k, g))
    BY <1>3
  <2>5. SumFunctionOnSet(amounts, of) = SumFunctionOnSet(worth, M)
    BY <1>1, <1>2, <2>4, SumOfGroups
  <2>. QED  BY <2>3, <2>5
<1>7. SumFunctionOnSet(one, M) = Cardinality(M)
  BY <1>1, <1>4, SumOnes
<1>8. /\ SumFunction(counts) = SumFunctionOnSet(counts, of)
      /\ SumFunction(amounts) = SumFunctionOnSet(amounts, of)
      /\ SumFunction(worth) = SumFunctionOnSet(worth, M)
  BY <1>4 DEF SumFunction
<1>9. Totals(M).count = SumFunction(counts) /\ Totals(M).amount = SumFunction(amounts)
  BY <1>5, <1>6, <1>7, <1>8
<1>. QED  BY <1>9 DEF counts, amounts

(* A customer's clearing rows of a type add up to the statistics of his    *)
(* COMPLETED tokens once nothing is in flight, and what his devices show   *)
(* as open are the OPEN tokens of his statistics (clearing.ts 64-80,       *)
(* token.ts 67-72, 133-144).                                               *)
THEOREM StatisticsAreRight == ReportsSpec => []ReportsAgree
<1>1. ASSUME RInv, NEW c \in Customer, NEW type \in {"CASHOUT", "CASHIN"},
             Quiet, orphaned = {}
      PROVE  LET sums == GetClearingDataSums(c)
                 of == {g \in DOMAIN sums : g[1] = type}
                 stat == GetStatistics(c, "COMPLETED", type)
             IN  /\ stat.count = SumFunction([g \in of |-> sums[g].count])
                 /\ stat.amount = SumFunction([g \in of |-> sums[g].amount])
  <2>. DEFINE L == GetClearingData(c)
              sums == GetClearingDataSums(c)
              of == {g \in DOMAIN sums : g[1] = type}
              M == LinesOfType(L, type)
              mine(u) == \/ Owner(u) = c
                         \/ token[u].lock # NoDevice /\ DeviceCustomer[token[u].lock] = c
              U == {u \in TokenId : /\ Exists(u) /\ token[u].state = "COMPLETED"
                                    /\ token[u].type = type /\ mine(u)}
              b == [t \in TokenId |-> ClearingLine(t, refname)]
              d == [t \in TokenId |-> [id |-> t, amount |-> token[t].amount]]
  <2>1. /\ \A t \in TokenId : token[t].amount \in Int
        /\ \A t \in TokenId : clearing[t] # NoClearing =>
             /\ token[t].state = "COMPLETED"
             /\ mine(t) <=> c \in {clearing[t].debitor, clearing[t].creditor}
        /\ \A t \in TokenId : token[t].state = "COMPLETED" /\ token[t].type = type =>
             clearing[t] # NoClearing
    <3>1. TypeOK /\ ClearingMatchesToken /\ UnsettledOnlyInFlight
      BY <1>1 DEF RInv, IInv
    <3>2. \A t \in TokenId : token[t].amount \in Int
      BY <3>1 DEF TypeOK, Row
    <3>3. ASSUME NEW t \in TokenId, clearing[t] # NoClearing
          PROVE  /\ token[t].state = "COMPLETED"
                 /\ mine(t) <=> c \in {clearing[t].debitor, clearing[t].creditor}
      <4>1. /\ token[t].state = "COMPLETED" /\ token[t].lock # NoDevice
            /\ \/ clearing[t] = [debitor |-> Owner(t),
                                creditor |-> DeviceCustomer[token[t].lock]]
               \/ clearing[t] = [debitor |-> DeviceCustomer[token[t].lock],
                                creditor |-> Owner(t)]
        BY <3>1, <3>3 DEF ClearingMatchesToken
      <4>. QED  BY <4>1
    <3>4. ASSUME NEW t \in TokenId, token[t].state = "COMPLETED", token[t].type = type
          PROVE  clearing[t] # NoClearing
      BY <1>1, <3>1, <3>4 DEF UnsettledOnlyInFlight, Unsettled, Quiet
    <3>. QED  BY <3>2, <3>3, <3>4
  <2>2. M = {b[t] : t \in U}
    BY <2>1 DEF LinesOfType, GetClearingData, ClearingLine, Exists
  <2>3. GetStatistics(c, "COMPLETED", type) = Totals({d[t] : t \in U})
    BY DEF GetStatistics
  <2>4. /\ IsFiniteSet(U)
        /\ \A t \in U : b[t].amount \in Int /\ d[t].amount = b[t].amount
        /\ \A t, u \in U : b[t] = b[u] \/ d[t] = d[u] => t = u
    <3>1. U \in SUBSET TokenId
      OBVIOUS
    <3>. HIDE DEF U
    <3>. QED  BY <2>1, <3>1, FS_Subset, ReportsAssumption DEF ClearingLine
  <2>5. IsFiniteSet(L) /\ \A l \in L : l.amount \in Int
    <3>. DEFINE V == {u \in TokenId : /\ clearing[u] # NoClearing
                                      /\ c \in {clearing[u].debitor, clearing[u].creditor}}
                e == [t \in V |-> ClearingLine(t, refname)]
    <3>1. V \in SUBSET TokenId /\ L = {ClearingLine(t, refname) : t \in V}
      BY DEF GetClearingData
    <3>2. e \in Surjection(V, L)
      <4>. HIDE DEF V, L
      <4>. QED  BY <3>1 DEF Surjection
    <3>3. \A l \in L : l.amount \in Int
      <4>. HIDE DEF V, L
      <4>. QED  BY <2>1, <3>1 DEF ClearingLine
    <3>. HIDE DEF V, L, e
    <3>. QED  BY <3>1, <3>2, <3>3, FS_Subset, FS_Surjection, ReportsAssumption
  <2>6. /\ of = GroupsOfType(L, type)
        /\ \A g \in of : sums[g] = Totals(LinesOf(L, g))
    <3>1. sums = [g \in {GroupOf(l) : l \in L} |-> Totals(LinesOf(L, g))]
      BY DEF GetClearingDataSums, LinesOf
    <3>. HIDE DEF L, sums
    <3>. QED  BY <3>1 DEF GroupsOfType
  <2>. HIDE DEF L, M, sums, of, U, b, d, mine
  <2>7. Totals({b[t] : t \in U}) = Totals({d[t] : t \in U})
    BY <2>4, SameTotals
  <2>8. /\ Totals(M).count = SumFunction([g \in of |-> sums[g].count])
        /\ Totals(M).amount = SumFunction([g \in of |-> sums[g].amount])
    BY <2>5, <2>6, TotalsOfGroups DEF M
  <2>9. /\ GetStatistics(c, "COMPLETED", type).count = SumFunction([g \in of |-> sums[g].count])
        /\ GetStatistics(c, "COMPLETED", type).amount = SumFunction([g \in of |-> sums[g].amount])
    BY <2>2, <2>3, <2>7, <2>8
  <2>. QED  BY <2>9 DEF of, sums
<1>2. ASSUME RInv, NEW c \in Customer, NEW type \in Type
      PROVE  LET shown == {t \in UNION {GetOpenForDevice(c, d) : d \in Device} :
                             token[t].type = type}
             IN  Cardinality(shown) = GetStatistics(c, "OPEN", type).count
  <2>. DEFINE shown == {t \in UNION {GetOpenForDevice(c, d) : d \in Device} :
                          token[t].type = type}
              d == [t \in shown |-> [id |-> t, amount |-> token[t].amount]]
              D == {d[t] : t \in shown}
  <2>1. \A t \in TokenId : PlacedRow(t)
    BY <1>2 DEF RInv, IInv, Placed
  <2>2. shown = {t \in TokenId : /\ Exists(t) /\ token[t].state = "OPEN"
                                 /\ token[t].type = type
                                 /\ \/ Owner(t) = c
                                    \/ /\ token[t].lock # NoDevice
                                       /\ DeviceCustomer[token[t].lock] = c}
    BY <2>1 DEF GetOpenForDevice, OwnTokens, PlacedRow, IsOpen, Exists
  <2>3. D = {[id |-> t, amount |-> token[t].amount] : t \in shown}
    OBVIOUS
  <2>4. GetStatistics(c, "OPEN", type) = Totals(D)
    <3>. HIDE DEF shown, d, D
    <3>. QED  BY <2>2, <2>3 DEF GetStatistics
  <2>5. IsFiniteSet(shown)
    <3>1. shown \in SUBSET TokenId
      <4>. HIDE DEF shown
      <4>. QED  BY <2>2
    <3>. HIDE DEF shown
    <3>. QED  BY <3>1, FS_Subset, ReportsAssumption
  <2>6. d \in Bijection(shown, D)
    <3>1. \A t, u \in shown : d[t] = d[u] => t = u
      <4>. HIDE DEF shown
      <4>. QED  OBVIOUS
    <3>. HIDE DEF shown
    <3>. QED  BY <3>1 DEF Bijection, Injection, IsInjective, Surjection
  <2>. HIDE DEF shown, d, D
  <2>7. Cardinality(D) = Cardinality(shown)
    BY <2>5, <2>6, FS_Bijection DEF ExistsBijection
  <2>8. Totals(D).count = Cardinality(D)
    BY DEF Totals
  <2>9. Cardinality(shown) = GetStatistics(c, "OPEN", type).count
    BY <2>4, <2>7, <2>8
  <2>. QED  BY <2>9 DEF shown
<1>3. RInv => ReportsAgree
  BY <1>1, <1>2 DEF ReportsAgree
<1>. QED BY <1>3, ReportsInvariant, TokensBelow, PTL
=============================================================================
