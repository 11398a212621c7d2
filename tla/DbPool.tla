------------------------------- MODULE DbPool -------------------------------
(* The connection pool of one process (util/db.ts).  A task is a chain of  *)
(* promises that uses one connection: a single statement, or a partial     *)
(* cashout, whose transaction locks the row of its token, stores the       *)
(* remainder and starts a journal entry that nobody waits for.             *)
EXTENDS Naturals, Sequences, FiniteSets

CONSTANTS Conn,     \* the slots of the pool, DB_POOL_SIZE of them
          Caller,   \* requests that use the database, each once
          NoConn    \* no connection

\* What a request runs itself, and the journal entry it leaves behind.
Task == Caller \X {"own", "journal"}
Own(r) == <<r, "own">>
Journal(t) == <<t[1], "journal">>

VARIABLES work,     \* what a task does with its connection
          at,       \* the callback or the statement it waits for
          holds,    \* its connection
          free,     \* connections at rest in the pool
          queue,    \* tasks that wait for a connection, in order
          open,     \* connections with a transaction in progress
          rowLock   \* the connection whose transaction has locked the row

vars == <<work, at, holds, free, queue, open, rowLock>>

Work == {"read", "write", "transaction"}
First(w) == IF w = "transaction" THEN "begin" ELSE "query"

Init == /\ work = [t \in Task |-> "read"]
        /\ at = [t \in Task |-> "idle"]
        /\ holds = [t \in Task |-> NoConn]
        /\ free = Conn
        /\ queue = <<>>
        /\ open = {}
        /\ rowLock = NoConn

\* getConnection: a free connection, or a place at the end of the queue.
\* "then" is what else the same turn of the event loop does to at.
GetConnection(t, then) ==
    \/ /\ free = {}
       /\ queue' = Append(queue, t)
       /\ at' = [then EXCEPT ![t] = "queued"]
       /\ UNCHANGED <<holds, free>>
    \/ \E c \in free :
       /\ free' = free \ {c}
       /\ holds' = [holds EXCEPT ![t] = c]
       /\ at' = [then EXCEPT ![t] = "connect"]
       /\ UNCHANGED queue

\* release: the connection goes to the first in the queue, or to rest.
Release(t) ==
    IF queue = <<>>
    THEN /\ free' = free \cup {holds[t]}
         /\ holds' = [holds EXCEPT ![t] = NoConn]
         /\ at' = [at EXCEPT ![t] = "done"]
         /\ UNCHANGED queue
    ELSE LET u == Head(queue) IN
         /\ queue' = Tail(queue)
         /\ holds' = [holds EXCEPT ![t] = NoConn, ![u] = holds[t]]
         /\ at' = [at EXCEPT ![t] = "done", ![u] = "connect"]
         /\ UNCHANGED free

\* A request calls querySingle or withTransaction.
Start(r, w) == /\ at[Own(r)] = "idle"
               /\ work' = [work EXCEPT ![Own(r)] = w]
               /\ GetConnection(Own(r), at)
               /\ UNCHANGED <<open, rowLock>>

\* The pool has checked the connection, or opened it.
Connected(t) == /\ at[t] = "connect"
                /\ at' = [at EXCEPT ![t] = First(work[t])]
                /\ UNCHANGED <<work, holds, free, queue, open, rowLock>>

\* getConnection reports an error: its slot can be used again.
ConnectFails(t) == /\ at[t] = "connect"
                   /\ Release(t)
                   /\ UNCHANGED <<work, open, rowLock>>

\* A statement that writes the row waits for the transaction that has locked
\* it; cleanUpExpired scans the table and so waits as well.
Blocked(t) == /\ rowLock \notin {NoConn, holds[t]}
              /\ at[t] = "update" \/ (at[t] = "query" /\ work[t] = "write")

\* querySingle: release after a result and after an error alike.
Query(t) == /\ at[t] = "query"
            /\ ~Blocked(t)
            /\ Release(t)
            /\ UNCHANGED <<work, open, rowLock>>

Begin(t) == /\ at[t] = "begin"
            /\ open' = open \cup {holds[t]}
            /\ at' = [at EXCEPT ![t] = "update"]
            /\ UNCHANGED <<work, holds, free, queue, rowLock>>

\* confirmLockedToken
Update(t) == /\ at[t] = "update"
             /\ ~Blocked(t)
             /\ rowLock' = holds[t]
             /\ at' = [at EXCEPT ![t] = "insert"]
             /\ UNCHANGED <<work, holds, free, queue, open>>

\* insertNew on the connection of the transaction
Insert(t) == /\ at[t] = "insert"
             /\ at' = [at EXCEPT ![t] = "find"]
             /\ UNCHANGED <<work, holds, free, queue, open, rowLock>>

\* Mutant: the re-read asks the pool, as every other findById does.
FindOnPool(t) == /\ at[t] = "find"
                 /\ free # {}
                 /\ GetConnection(Journal(t), [at EXCEPT ![t] = "commit"])
                 /\ UNCHANGED <<work, open, rowLock>>

\* findById(id, dbCon), then journalizeToken, which asks for a connection
\* while this task keeps its own and does not wait for the entry.
Find(t) == /\ at[t] = "find"
           /\ GetConnection(Journal(t), [at EXCEPT ![t] = "commit"])
           /\ UNCHANGED <<work, open, rowLock>>

Unlock(t) == rowLock' = IF rowLock = holds[t] THEN NoConn ELSE rowLock

Commit(t) == /\ at[t] = "commit"
             /\ open' = open \ {holds[t]}
             /\ Unlock(t)
             /\ Release(t)
             /\ UNCHANGED work

\* A statement of the transaction is rejected, by an error or by the check
\* that one row was changed, or its wait for the row is over.
InTransaction == {"begin", "update", "insert", "find", "commit"}
\* Mutant: the connection goes back without a rollback.
FailsKeepingTransaction(t) == /\ at[t] \in InTransaction
                              /\ Release(t)
                              /\ UNCHANGED <<work, open, rowLock>>
Fails(t) == /\ at[t] \in InTransaction
            /\ at' = [at EXCEPT ![t] = "rollback"]
            /\ UNCHANGED <<work, holds, free, queue, open, rowLock>>

\* The lock wait of a single statement times out.
TimesOut(t) == /\ Blocked(t)
               /\ at[t] = "query"
               /\ Release(t)
               /\ UNCHANGED <<work, open, rowLock>>

\* rollback resolves whatever the database says, then the release.  Its error
\* is not looked at: a ROLLBACK fails only when its connection is lost, and
\* then the database ends the transaction and the pool drops the connection.
Rollback(t) == /\ at[t] = "rollback"
               /\ open' = open \ {holds[t]}
               /\ Unlock(t)
               /\ Release(t)
               /\ UNCHANGED work

\* What happens to a task that is not left alone by the database.
Proceed(t) == \/ Connected(t) \/ Query(t) \/ Begin(t) \/ Update(t)
              \/ Insert(t) \/ Find(t) \/ Commit(t) \/ Rollback(t)
Fail(t) == ConnectFails(t) \/ Fails(t) \/ TimesOut(t)

Next == \/ \E r \in Caller, w \in Work : Start(r, w)
        \/ \E t \in Task : Proceed(t) \/ Fail(t)

Fairness == \A t \in Task : WF_vars(Proceed(t))
Spec == Init /\ [][Next]_vars
FairSpec == Spec /\ Fairness

-----------------------------------------------------------------------------
Step == {"idle", "queued", "connect", "query", "rollback", "done"} \cup InTransaction
Holding == {t \in Task : at[t] \notin {"idle", "queued", "done"}}

TypeOK == /\ work \in [Task -> Work]
          /\ at \in [Task -> Step]
          /\ holds \in [Task -> Conn \cup {NoConn}]
          /\ free \subseteq Conn
          /\ queue \in Seq(Task)
          /\ open \subseteq Conn
          /\ rowLock \in Conn \cup {NoConn}

(* No connection is lost or lent twice, whatever fails and when: it is at  *)
(* rest or belongs to one task, and nobody queues while one is at rest     *)
(* (db.ts:63-69, 115-124).  None is handed on with the transaction or the  *)
(* row lock of the task before: the next one would write into it, and a    *)
(* rollback would undo what was reported as done (db.ts:116-123).          *)
HandedOnClean == /\ \A c \in open : \E t \in Holding :
                       holds[t] = c /\ at[t] \in InTransaction \cup {"rollback"}
                 /\ rowLock # NoConn => rowLock \in open
Accounted == /\ \A t \in Task : holds[t] # NoConn <=> t \in Holding
             /\ \A t, u \in Holding : holds[t] = holds[u] => t = u
             /\ free = Conn \ {holds[t] : t \in Holding}
             /\ queue # <<>> => free = {}
             /\ HandedOnClean

(* Every task ends, although transactions hold a connection while they wait *)
(* for the row and while the journal waits for a connection: whoever holds *)
(* the row needs nothing more from the pool (db.ts:115, token.ts:219).     *)
EveryTaskEnds == \A t \in Task : at[t] # "idle" ~> at[t] = "done"
=============================================================================
