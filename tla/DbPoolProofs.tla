----------------------------- MODULE DbPoolProofs -----------------------------
(* Theorems about DbPool, for any size of the pool and any number of       *)
(* requests.                                                               *)
EXTENDS DbPool, TLAPS

\* Nobody is queued twice, and who is queued waits for nothing else.
Queued == /\ \A i \in 1..Len(queue) : at[queue[i]] = "queued"
          /\ \A i, j \in 1..Len(queue) : queue[i] = queue[j] => i = j

\* Every connection is at rest or with one task.
Lent == /\ \A t \in Task : holds[t] # NoConn <=> t \in Holding
        /\ \A t, u \in Holding : holds[t] = holds[u] => t = u
        /\ free = Conn \ {holds[t] : t \in Holding}
        /\ queue # <<>> => free = {}

\* A journal entry is one statement, and starts when its transaction ends.
Journals == \A r \in Caller :
    /\ work[Journal(Own(r))] = "read"
    /\ at[Journal(Own(r))] \in {"idle", "queued", "connect", "query", "done"}
    /\ at[Own(r)] \in {"idle", "queued", "connect", "begin", "update", "insert", "find"}
         => at[Journal(Own(r))] = "idle"

Begun == \A t \in Task : at[t] \in {"update", "insert", "find", "commit"} => holds[t] \in open

PoolInv == TypeOK /\ Queued /\ Lent /\ Journals /\ Begun /\ HandedOnClean

-----------------------------------------------------------------------------
LEMMA TaskParts == /\ \A r \in Caller : Own(r) \in Task /\ Journal(Own(r)) \in Task
                   /\ \A t \in Task : t[1] \in Caller /\ (t = Own(t[1]) \/ t = Journal(Own(t[1])))
                   /\ \A r, q \in Caller : /\ Own(r) # Journal(Own(q))
                                           /\ Own(r) = Own(q) => r = q
                                           /\ Journal(Own(r)) = Journal(Own(q)) => r = q
BY DEF Task, Own, Journal

\* A task moves on with its connection.
LEMMA HolderMoves ==
    ASSUME PoolInv, NEW t \in Task, t \in Holding,
           NEW s \in Step \ {"idle", "queued", "done"},
           at' = [at EXCEPT ![t] = s], UNCHANGED <<holds, free, queue>>
    PROVE  Lent' /\ Queued' /\ at' \in [Task -> Step]
<1>1. Holding' = Holding /\ at' \in [Task -> Step]
  BY DEF PoolInv, TypeOK, Holding
<1>2. Queued'
  BY DEF PoolInv, TypeOK, Queued, Holding
<1>. QED  BY <1>1, <1>2 DEF PoolInv, Lent

\* release gives the connection to one task or to the pool.
Passed(t) == /\ at'[t] = "done" /\ holds'[t] = NoConn
             /\ \A u \in Task \ {t} :
                  \/ at'[u] = at[u] /\ holds'[u] = holds[u]
                  \/ at[u] = "queued" /\ at'[u] = "connect" /\ holds'[u] = holds[t]

LEMMA ReleasePasses ==
    ASSUME NoConn \notin Conn, PoolInv, NEW t \in Task, t \in Holding, Release(t)
    PROVE  /\ Lent' /\ Queued' /\ Passed(t)
           /\ at' \in [Task -> Step] /\ holds' \in [Task -> Conn \cup {NoConn}]
           /\ free' \subseteq Conn /\ queue' \in Seq(Task)
<1>. USE DEF PoolInv, TypeOK
<1>0. /\ at[t] \notin {"idle", "queued", "done"} /\ holds[t] \in Conn
      /\ "connect" \in Step /\ "done" \in Step
  BY DEF Holding, Lent, Step
<1>1. CASE queue = <<>>
  <2>1. /\ free' = free \cup {holds[t]} /\ queue' = queue
        /\ holds' = [holds EXCEPT ![t] = NoConn] /\ at' = [at EXCEPT ![t] = "done"]
    BY <1>1 DEF Release
  <2>2. Holding' = Holding \ {t}
    BY <1>0, <2>1 DEF Holding
  <2>3. Lent'
    BY <1>0, <1>1, <2>1, <2>2 DEF Lent, Holding
  <2>4. Queued'
    BY <1>1, <2>1 DEF Queued
  <2>. QED  BY <1>0, <2>1, <2>3, <2>4 DEF Passed
<1>2. CASE queue # <<>>
  <2>. DEFINE u == Head(queue)
  <2>1. /\ u \in Task /\ u = queue[1] /\ 1 \in 1..Len(queue) /\ Tail(queue) \in Seq(Task)
        /\ Len(Tail(queue)) = Len(queue) - 1 /\ Len(queue) \in Nat
        /\ \A i \in 1..Len(Tail(queue)) : /\ Tail(queue)[i] = queue[i + 1]
                                          /\ i + 1 \in 1..Len(queue) /\ i + 1 # 1
    BY <1>2
  <2>2. at[u] = "queued" /\ u # t /\ holds[u] = NoConn /\ u \notin Holding
    BY <1>0, <2>1 DEF Queued, Lent, Holding
  <2>. HIDE DEF u
  <2>3. /\ queue' = Tail(queue) /\ free' = free
        /\ holds' = [holds EXCEPT ![t] = NoConn, ![u] = holds[t]]
        /\ at' = [at EXCEPT ![t] = "done", ![u] = "connect"]
    BY <1>2 DEF Release, u
  <2>4. /\ at' \in [Task -> Step] /\ holds' \in [Task -> Conn \cup {NoConn}]
        /\ at'[t] = "done" /\ holds'[t] = NoConn
        /\ at'[u] = "connect" /\ holds'[u] = holds[t]
        /\ \A v \in Task \ {t, u} : at'[v] = at[v] /\ holds'[v] = holds[v]
    BY <1>0, <2>1, <2>2, <2>3
  <2>5. Holding' = (Holding \ {t}) \cup {u}
    BY <1>0, <2>1, <2>4 DEF Holding
  <2>6. Lent'
    <3>1. \A v \in Task : holds'[v] # NoConn <=> v \in Holding'
      BY <1>0, <2>2, <2>4, <2>5 DEF Lent
    <3>2. \A v, w \in Holding' : holds'[v] = holds'[w] => v = w
      BY <1>0, <2>2, <2>4, <2>5 DEF Lent, Holding
    <3>3. {holds'[v] : v \in Holding'} = {holds[v] : v \in Holding}
      BY <1>0, <2>1, <2>2, <2>4, <2>5 DEF Holding
    <3>4. free' = Conn \ {holds'[v] : v \in Holding'} /\ free' = {}
      BY <1>2, <2>3, <3>3 DEF Lent
    <3>. QED  BY <3>1, <3>2, <3>4 DEF Lent
  <2>7. Queued'
    <3>1. \A i \in 1..Len(queue') : queue'[i] \in Task \ {t, u} /\ at[queue'[i]] = "queued"
      BY <1>0, <2>1, <2>3 DEF Queued
    <3>2. \A i, j \in 1..Len(queue') : queue'[i] = queue'[j] => i = j
      BY <2>1, <2>3 DEF Queued
    <3>. QED  BY <2>4, <3>1, <3>2 DEF Queued
  <2>. QED  BY <2>1, <2>2, <2>3, <2>4, <2>6, <2>7 DEF Passed
<1>. QED  BY <1>1, <1>2

\* getConnection queues the task or lends it a connection.
LEMMA AskLends ==
    ASSUME NoConn \notin Conn, PoolInv, NEW t \in Task, at[t] = "idle",
           NEW then \in [Task -> Step], then[t] = "idle",
           \A u \in Task : then[u] = at[u] \/ (u \in Holding /\ then[u] \in InTransaction),
           GetConnection(t, then)
    PROVE  /\ Lent' /\ Queued' /\ at'[t] \in {"queued", "connect"}
           /\ \A u \in Task \ {t} : at'[u] = then[u] /\ holds'[u] = holds[u]
           /\ at' \in [Task -> Step] /\ holds' \in [Task -> Conn \cup {NoConn}]
           /\ free' \subseteq Conn /\ queue' \in Seq(Task)
<1>. USE DEF PoolInv, TypeOK
<1>0. /\ {"queued", "connect"} \subseteq Step /\ holds[t] = NoConn /\ t \notin Holding
      /\ \A u \in Task : u \in Holding <=> then[u] \notin {"idle", "queued", "done"}
  BY DEF Step, Lent, Holding, InTransaction
<1>1. CASE /\ free = {} /\ queue' = Append(queue, t)
           /\ at' = [then EXCEPT ![t] = "queued"] /\ UNCHANGED <<holds, free>>
  <2>1. Holding' = Holding
    BY <1>0, <1>1 DEF Holding
  <2>2. Lent'
    BY <1>1, <2>1 DEF Lent
  <2>3. /\ queue' \in Seq(Task) /\ Len(queue') = Len(queue) + 1 /\ Len(queue) \in Nat
        /\ queue'[Len(queue) + 1] = t
        /\ \A i \in 1..Len(queue) : queue'[i] = queue[i] /\ queue[i] \in Task
    BY <1>1
  <2>4. \A i \in 1..Len(queue) : at[queue[i]] = "queued" /\ queue[i] # t
                                 /\ then[queue[i]] = "queued"
    BY <1>0, <2>3 DEF Queued, Holding
  <2>5. \A i \in 1..Len(queue') : i \in 1..Len(queue) \/ i = Len(queue) + 1
    BY <2>3
  <2>6. Queued'
    <3>1. \A i \in 1..Len(queue') : at'[queue'[i]] = "queued"
      BY <1>0, <1>1, <2>3, <2>4, <2>5
    <3>2. \A i, j \in 1..Len(queue') : queue'[i] = queue'[j] => i = j
      BY <2>3, <2>4, <2>5 DEF Queued
    <3>. QED  BY <3>1, <3>2 DEF Queued
  <2>. QED  BY <1>0, <1>1, <2>2, <2>3, <2>6
<1>2. ASSUME NEW c \in free, free' = free \ {c}, holds' = [holds EXCEPT ![t] = c],
             at' = [then EXCEPT ![t] = "connect"], queue' = queue
      PROVE  /\ Lent' /\ Queued' /\ at'[t] \in {"queued", "connect"}
             /\ \A u \in Task \ {t} : at'[u] = then[u] /\ holds'[u] = holds[u]
             /\ at' \in [Task -> Step] /\ holds' \in [Task -> Conn \cup {NoConn}]
             /\ free' \subseteq Conn /\ queue' \in Seq(Task)
  <2>1. /\ at' \in [Task -> Step] /\ holds' \in [Task -> Conn \cup {NoConn}]
        /\ at'[t] = "connect" /\ holds'[t] = c /\ c \in Conn
        /\ \A u \in Task \ {t} : at'[u] = then[u] /\ holds'[u] = holds[u]
    BY <1>0, <1>2
  <2>2. Holding' = Holding \cup {t}
    BY <1>0, <2>1 DEF Holding
  <2>3. queue = <<>> /\ Queued'
    BY <1>2 DEF Lent, Queued
  <2>4. Lent'
    <3>1. \A v \in Task : holds'[v] # NoConn <=> v \in Holding'
      BY <1>0, <2>1, <2>2 DEF Lent
    <3>2. \A v \in Holding : holds[v] # c
      BY <1>2 DEF Lent
    <3>3. \A v, w \in Holding' : holds'[v] = holds'[w] => v = w
      BY <1>0, <2>1, <2>2, <3>2 DEF Lent, Holding
    <3>4. free' = Conn \ {holds'[v] : v \in Holding'}
      BY <1>0, <1>2, <2>1, <2>2 DEF Lent, Holding
    <3>. QED  BY <1>2, <2>3, <3>1, <3>3, <3>4 DEF Lent
  <2>. QED  BY <1>2, <2>1, <2>3, <2>4
<1>. QED  BY <1>1, <1>2 DEF GetConnection

-----------------------------------------------------------------------------
\* Every step that ends with a release ends its transaction first.
LEMMA ReleaseSteps ==
    ASSUME NoConn \notin Conn, PoolInv, NEW t \in Task,
           ConnectFails(t) \/ Query(t) \/ TimesOut(t) \/ Commit(t) \/ Rollback(t)
    PROVE  PoolInv'
<1>. USE DEF PoolInv, TypeOK
<1>1. /\ Release(t) /\ work' = work /\ open' = open \ {holds[t]} /\ t \in Holding
      /\ rowLock' = IF rowLock = holds[t] THEN NoConn ELSE rowLock
  <2>1. CASE Commit(t) \/ Rollback(t)
    BY <2>1 DEF Commit, Rollback, Unlock, Holding
  <2>2. CASE ConnectFails(t) \/ Query(t) \/ TimesOut(t)
    <3>1. t \in Holding /\ at[t] \notin InTransaction \cup {"rollback"}
      BY <2>2 DEF ConnectFails, Query, TimesOut, Holding, InTransaction
    <3>2. holds[t] \notin open /\ rowLock # holds[t]
      BY <3>1 DEF Lent, HandedOnClean
    <3>. QED  BY <2>2, <3>1, <3>2 DEF ConnectFails, Query, TimesOut
  <2>. QED  BY <2>1, <2>2
<1>2. /\ Lent' /\ Queued' /\ Passed(t)
      /\ at' \in [Task -> Step] /\ holds' \in [Task -> Conn \cup {NoConn}]
      /\ free' \subseteq Conn /\ queue' \in Seq(Task)
  BY <1>1, ReleasePasses
<1>3. TypeOK'
  BY <1>1, <1>2
<1>4. Journals'
  <2>1. ASSUME NEW r \in Caller
        PROVE  /\ work'[Journal(Own(r))] = "read"
               /\ at'[Journal(Own(r))] \in {"idle", "queued", "connect", "query", "done"}
               /\ at'[Own(r)] \in {"idle", "queued", "connect", "begin", "update",
                                   "insert", "find"} => at'[Journal(Own(r))] = "idle"
    <3>1. Own(r) \in Task /\ Journal(Own(r)) \in Task
      BY TaskParts
    <3>2. t \in Holding => at[t] # "idle"
      BY DEF Holding
    <3>. QED  BY <1>1, <1>2, <3>1, <3>2 DEF Journals, Passed
  <2>. QED  BY <2>1 DEF Journals
<1>5. \A u \in Task : at'[u] \in InTransaction \cup {"rollback"} =>
        u # t /\ at'[u] = at[u] /\ holds'[u] = holds[u] /\ holds[u] # holds[t]
  BY <1>1, <1>2 DEF Passed, InTransaction, Lent, Holding
<1>6. Begun'
  BY <1>1, <1>5 DEF Begun, InTransaction
<1>7. HandedOnClean'
  <2>1. ASSUME NEW c \in open'
        PROVE  \E u \in Holding' : holds'[u] = c /\ at'[u] \in InTransaction \cup {"rollback"}
    <3>1. PICK u \in Holding : holds[u] = c /\ at[u] \in InTransaction \cup {"rollback"}
      BY <1>1, <2>1 DEF HandedOnClean
    <3>2. u # t /\ at'[u] = at[u] /\ holds'[u] = holds[u]
      BY <1>1, <1>2, <3>1 DEF Passed, InTransaction, Holding
    <3>. QED  BY <3>1, <3>2 DEF Holding
  <2>. QED  BY <1>1, <2>1 DEF HandedOnClean
<1>. QED  BY <1>2, <1>3, <1>4, <1>6, <1>7

\* A step that keeps the connection.
LEMMA HolderKeeps ==
    ASSUME NoConn \notin Conn, PoolInv, NEW t \in Task, t \in Holding,
           NEW s \in InTransaction \cup {"query", "rollback"},
           at' = [at EXCEPT ![t] = s], UNCHANGED <<work, holds, free, queue>>,
           open \subseteq open', open' \subseteq open \cup {holds[t]},
           rowLock' = rowLock \/ (rowLock' = holds[t] /\ holds[t] \in open),
           s \in {"update", "insert", "find", "commit"} => holds[t] \in open',
           holds[t] \in open' => s # "query",
           \A r \in Caller : t = Journal(Own(r)) => s = "query",
           s \in {"begin", "update", "insert", "find"}
             => at[t] \in {"connect", "begin", "update", "insert"}
    PROVE  PoolInv'
<1>. USE DEF PoolInv, TypeOK
<1>0. "query" \in Step /\ s \in Step \ {"idle", "queued", "done"} /\ holds[t] \in Conn
  BY DEF Step, InTransaction, Lent
<1>1. Lent' /\ Queued' /\ at' \in [Task -> Step]
  BY <1>0, HolderMoves
<1>2. /\ at'[t] = s /\ \A u \in Task \ {t} : at'[u] = at[u]
      /\ Holding' = Holding
  BY <1>0 DEF Holding
<1>3. TypeOK'
  BY <1>0, <1>1
<1>4. Journals'
  <2>1. ASSUME NEW r \in Caller
        PROVE  /\ work'[Journal(Own(r))] = "read"
               /\ at'[Journal(Own(r))] \in {"idle", "queued", "connect", "query", "done"}
               /\ at'[Own(r)] \in {"idle", "queued", "connect", "begin", "update",
                                   "insert", "find"} => at'[Journal(Own(r))] = "idle"
    <3>1. Own(r) \in Task /\ Journal(Own(r)) \in Task /\ Own(r) # Journal(Own(r))
      BY TaskParts
    <3>2. CASE t = Own(r)
      BY <1>0, <1>2, <3>1, <3>2 DEF Journals, InTransaction
    <3>3. CASE t = Journal(Own(r))
      <4>1. at[t] \notin {"idle", "queued", "done"}
        BY DEF Holding
      <4>. QED  BY <1>2, <3>1, <3>3, <4>1 DEF Journals
    <3>4. CASE t # Own(r) /\ t # Journal(Own(r))
      BY <1>2, <3>1, <3>4 DEF Journals
    <3>. QED  BY <3>2, <3>3, <3>4
  <2>. QED  BY <2>1 DEF Journals
<1>5. Begun'
  BY <1>2 DEF Begun
<1>6. HandedOnClean'
  <2>1. ASSUME NEW c \in open'
        PROVE  \E u \in Holding' : holds'[u] = c /\ at'[u] \in InTransaction \cup {"rollback"}
    <3>1. CASE c = holds[t]
      BY <1>2, <2>1, <3>1
    <3>2. CASE c # holds[t]
      <4>1. PICK u \in Holding : holds[u] = c /\ at[u] \in InTransaction \cup {"rollback"}
        BY <2>1, <3>2 DEF HandedOnClean
      <4>. QED  BY <1>2, <3>2, <4>1 DEF Holding
    <3>. QED  BY <3>1, <3>2
  <2>2. rowLock' # NoConn => rowLock' \in open'
    BY DEF HandedOnClean
  <2>. QED  BY <2>1, <2>2 DEF HandedOnClean
<1>. QED  BY <1>1, <1>3, <1>4, <1>5, <1>6

\* Only a request's own task is ever in a transaction.
LEMMA JournalReads ==
    ASSUME PoolInv, NEW t \in Task, at[t] \in InTransaction \/ work[t] = "transaction"
    PROVE  \A r \in Caller : t # Journal(Own(r))
BY DEF PoolInv, Journals, InTransaction

LEMMA HolderSteps ==
    ASSUME NoConn \notin Conn, PoolInv, NEW t \in Task,
           Connected(t) \/ Begin(t) \/ Update(t) \/ Insert(t) \/ Fails(t)
    PROVE  PoolInv'
<1>. USE DEF InTransaction
<1>1. CASE Connected(t)
  <2>1. holds[t] \notin open
    BY <1>1 DEF Connected, PoolInv, HandedOnClean, Lent, Holding
  <2>2. CASE work[t] = "transaction"
    BY <1>1, <2>1, <2>2, JournalReads, HolderKeeps DEF Connected, First, Holding
  <2>3. CASE work[t] # "transaction"
    BY <1>1, <2>1, <2>3, HolderKeeps DEF Connected, First, Holding
  <2>. QED  BY <2>2, <2>3
<1>2. CASE Begin(t)
  BY <1>2, JournalReads, HolderKeeps DEF Begin, Holding
<1>3. CASE Update(t)
  BY <1>3, JournalReads, HolderKeeps DEF Update, Holding, PoolInv, Begun
<1>4. CASE Insert(t)
  BY <1>4, JournalReads, HolderKeeps DEF Insert, Holding, PoolInv, Begun
<1>5. CASE Fails(t)
  BY <1>5, JournalReads, HolderKeeps DEF Fails, Holding
<1>. QED  BY <1>1, <1>2, <1>3, <1>4, <1>5

-----------------------------------------------------------------------------
\* A request asks for its first connection.
LEMMA StartStep ==
    ASSUME NoConn \notin Conn, PoolInv, NEW r \in Caller, NEW w \in Work, Start(r, w)
    PROVE  PoolInv'
<1>. USE DEF PoolInv, TypeOK
<1>0. Own(r) \in Task
  BY TaskParts
<1>1. /\ Lent' /\ Queued' /\ at'[Own(r)] \in {"queued", "connect"}
      /\ \A u \in Task \ {Own(r)} : at'[u] = at[u] /\ holds'[u] = holds[u]
      /\ at' \in [Task -> Step] /\ holds' \in [Task -> Conn \cup {NoConn}]
      /\ free' \subseteq Conn /\ queue' \in Seq(Task)
  BY <1>0, AskLends DEF Start
<1>2. /\ at[Own(r)] = "idle" /\ work' = [work EXCEPT ![Own(r)] = w]
      /\ UNCHANGED <<open, rowLock>>
  BY DEF Start
<1>3. Journals'
  <2>1. ASSUME NEW q \in Caller
        PROVE  /\ work'[Journal(Own(q))] = "read"
               /\ at'[Journal(Own(q))] \in {"idle", "queued", "connect", "query", "done"}
               /\ at'[Own(q)] \in {"idle", "queued", "connect", "begin", "update",
                                   "insert", "find"} => at'[Journal(Own(q))] = "idle"
    <3>1. /\ Own(q) \in Task /\ Journal(Own(q)) \in Task /\ Own(r) # Journal(Own(q))
          /\ Own(r) # Own(q) \/ q = r
      BY TaskParts
    <3>. QED  BY <1>0, <1>1, <1>2, <3>1 DEF Journals
  <2>. QED  BY <2>1 DEF Journals
<1>4. Begun'
  BY <1>0, <1>1, <1>2 DEF Begun, InTransaction
<1>5. HandedOnClean'
  <2>1. ASSUME NEW c \in open'
        PROVE  \E u \in Holding' : holds'[u] = c /\ at'[u] \in InTransaction \cup {"rollback"}
    <3>1. PICK u \in Holding : holds[u] = c /\ at[u] \in InTransaction \cup {"rollback"}
      BY <1>2, <2>1 DEF HandedOnClean
    <3>2. u \in Task /\ u # Own(r)
      BY <1>2, <3>1 DEF Holding
    <3>. QED  BY <1>1, <3>1, <3>2 DEF Holding
  <2>. QED  BY <1>2, <2>1 DEF HandedOnClean
<1>. QED  BY <1>0, <1>1, <1>2, <1>3, <1>4, <1>5

\* The transaction asks for a connection for its journal entry, which was
\* not started before.
LEMMA FindStep ==
    ASSUME NoConn \notin Conn, PoolInv, NEW t \in Task, Find(t)
    PROVE  PoolInv'
<1>. USE DEF PoolInv, TypeOK
<1>1. PICK r \in Caller : t = Own(r)
  BY TaskParts, JournalReads DEF Find, InTransaction
<1>. DEFINE j == Journal(t)
<1>2. /\ j \in Task /\ j # t /\ at[t] = "find" /\ at[j] = "idle" /\ holds[t] \in open
      /\ t \in Holding
  BY <1>1, TaskParts DEF Find, Journals, Begun, Holding
<1>3. GetConnection(j, [at EXCEPT ![t] = "commit"]) /\ UNCHANGED <<work, open, rowLock>>
  BY DEF Find
<1>. HIDE DEF j
<1>4. /\ [at EXCEPT ![t] = "commit"] \in [Task -> Step]
      /\ [at EXCEPT ![t] = "commit"][t] = "commit"
      /\ \A u \in Task \ {t} : [at EXCEPT ![t] = "commit"][u] = at[u]
  BY DEF Step, InTransaction
<1>5. /\ Lent' /\ Queued' /\ at'[j] \in {"queued", "connect"}
      /\ \A u \in Task \ {j} : /\ at'[u] = [at EXCEPT ![t] = "commit"][u]
                               /\ holds'[u] = holds[u]
      /\ at' \in [Task -> Step] /\ holds' \in [Task -> Conn \cup {NoConn}]
      /\ free' \subseteq Conn /\ queue' \in Seq(Task)
  <2>1. \A u \in Task : \/ [at EXCEPT ![t] = "commit"][u] = at[u]
                        \/ u \in Holding /\ [at EXCEPT ![t] = "commit"][u] \in InTransaction
    BY <1>2, <1>4 DEF InTransaction
  <2>. QED  BY <1>2, <1>3, <1>4, <2>1, AskLends
<1>6. at'[t] = "commit" /\ \A u \in Task \ {t, j} : at'[u] = at[u]
  BY <1>2, <1>4, <1>5
<1>7. Journals'
  <2>1. ASSUME NEW q \in Caller
        PROVE  /\ work'[Journal(Own(q))] = "read"
               /\ at'[Journal(Own(q))] \in {"idle", "queued", "connect", "query", "done"}
               /\ at'[Own(q)] \in {"idle", "queued", "connect", "begin", "update",
                                   "insert", "find"} => at'[Journal(Own(q))] = "idle"
    <3>1. /\ Own(q) \in Task /\ Journal(Own(q)) \in Task
          /\ Own(q) # j /\ Journal(Own(q)) # t
          /\ q # r => Own(q) # t /\ Journal(Own(q)) # j
      BY <1>1, TaskParts DEF j
    <3>2. q = r => Own(q) = t /\ Journal(Own(q)) = j
      BY <1>1 DEF j
    <3>. QED  BY <1>3, <1>5, <1>6, <3>1, <3>2 DEF Journals
  <2>. QED  BY <2>1 DEF Journals
<1>8. Begun'
  BY <1>2, <1>3, <1>5, <1>6 DEF Begun
<1>9. HandedOnClean'
  <2>1. ASSUME NEW c \in open'
        PROVE  \E u \in Holding' : holds'[u] = c /\ at'[u] \in InTransaction \cup {"rollback"}
    <3>1. PICK u \in Holding : holds[u] = c /\ at[u] \in InTransaction \cup {"rollback"}
      BY <1>3, <2>1 DEF HandedOnClean
    <3>2. u \in Task /\ u # j
      BY <1>2, <3>1 DEF Holding
    <3>. QED  BY <1>5, <1>6, <3>1, <3>2 DEF Holding, InTransaction
  <2>. QED  BY <1>3, <2>1 DEF HandedOnClean
<1>. QED  BY <1>3, <1>5, <1>7, <1>8, <1>9

-----------------------------------------------------------------------------
LEMMA PoolStep == ASSUME NoConn \notin Conn, PoolInv, [Next]_vars
                  PROVE  PoolInv'
<1>1. CASE UNCHANGED vars
  BY <1>1 DEF vars, PoolInv, TypeOK, Queued, Lent, Journals, Begun, HandedOnClean, Holding
<1>2. ASSUME NEW r \in Caller, NEW w \in Work, Start(r, w)
      PROVE  PoolInv'
  BY <1>2, StartStep
<1>3. ASSUME NEW t \in Task, Proceed(t) \/ Fail(t)
      PROVE  PoolInv'
  BY <1>3, HolderSteps, ReleaseSteps, FindStep DEF Proceed, Fail
<1>. QED  BY <1>1, <1>2, <1>3 DEF Next

LEMMA PoolInit == ASSUME Init
                  PROVE  PoolInv
<1>1. TypeOK
  BY DEF Init, TypeOK, Work, Step
<1>2. Holding = {}
  BY DEF Init, Holding
<1>3. Lent /\ Queued /\ Begun /\ HandedOnClean
  BY <1>2 DEF Init, Lent, Queued, Begun, HandedOnClean
<1>4. Journals
  BY TaskParts DEF Init, Journals
<1>. QED  BY <1>1, <1>3, <1>4 DEF PoolInv

LEMMA PoolHolds == PoolInv => Accounted
BY DEF PoolInv, Lent, Accounted

(* No connection is lost, lent twice or handed on with an open transaction *)
(* or a locked row, whatever the size of the pool (db.ts:63-69, 115-124).  *)
THEOREM PoolAccounted == ASSUME NoConn \notin Conn
                         PROVE  Spec => []Accounted
BY PoolInit, PoolStep, PoolHolds, PTL DEF Spec
=============================================================================
