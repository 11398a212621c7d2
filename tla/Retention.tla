----------------------------- MODULE Retention -----------------------------
(* The daily clean-up: which process of the cluster runs it (scheduler.ts, *)
(* jobs.ts, the start-up of app.ts), and what it leaves in the tables.     *)
EXTENDS Naturals, FiniteSets

CONSTANTS Process,
          TokenRow,     \* tokens, each created once
          MaxHistory,   \* MAX_HISTORY_DAYS
          MaxDay,       \* bound: days a behaviour lasts
          NoDay

Day == 1..MaxDay
\* The tables in the order in which cleanupDatabase deletes from them.
Table == {"journal", "clearing", "token"}

VARIABLES useRedis,   \* USE_REDIS: several processes, or one
          phase,      \* start-up of each process
          job,        \* the clean-up of each process today
          timer,      \* the Redis key timer:dbcleanup
          reply,      \* what GETSET returned to each process
          verdict,    \* history: what each process has decided today
          today,      \* a day lasts from one firing to the next
          row,        \* each token with its clearing row
          entries     \* days of which the journal has entries

vars == <<useRedis, phase, job, timer, reply, verdict, today, row, entries>>
cluster == <<phase, job, timer, reply, verdict>>
tables == <<row, entries>>

Working == {"ask", "reply"} \cup Table
Over == {"late", "skipped", "done", "blocked", "failed"}
Verdict == {"none", "run", "skip", "error event", "cut off", "error reply", "died"}
NoRow == [token |-> NoDay, due |-> FALSE, clearing |-> NoDay]

Init == /\ useRedis \in BOOLEAN
        /\ phase = [p \in Process |-> "down"]
        /\ job = [p \in Process |-> "late"]
        /\ timer = NoDay
        /\ reply = [p \in Process |-> NoDay]
        /\ verdict = [p \in Process |-> "none"]
        /\ today = 1
        /\ row = [i \in TokenRow |-> NoRow]
        /\ entries = {}

-----------------------------------------------------------------------------
\* Start-up: app.ts waits for Redis and for MQTT before it schedules and
\* listens; errors of the connections are logged and the wait goes on.
Start(p) == /\ phase[p] = "down"
            /\ ~useRedis => \A q \in Process : phase[q] = "down"
            /\ phase' = [phase EXCEPT ![p] = "redis"]
            /\ UNCHANGED <<useRedis, job, timer, reply, verdict, today, tables>>

RedisReady(p) == /\ phase[p] = "redis"
                 /\ phase' = [phase EXCEPT ![p] = "mqtt"]
                 /\ UNCHANGED <<useRedis, job, timer, reply, verdict, today, tables>>

\* Today's time has passed: the job is scheduled for tomorrow.
MQTTReady(p) == /\ phase[p] = "mqtt"
                /\ phase' = [phase EXCEPT ![p] = "up"]
                /\ job' = [job EXCEPT ![p] = "late"]
                /\ UNCHANGED <<useRedis, timer, reply, verdict, today, tables>>

Decides(p, v) == verdict' = [verdict EXCEPT ![p] = v]

\* Mutant: the job goes on without its process.
CrashKeepingJob(p) == /\ phase[p] # "down"
                      /\ phase' = [phase EXCEPT ![p] = "down"]
                      /\ UNCHANGED <<useRedis, job, timer, reply, verdict, today, tables>>
Crash(p) == /\ phase[p] # "down"
            /\ phase' = [phase EXCEPT ![p] = "down"]
            /\ job' = [job EXCEPT ![p] = "late"]
            /\ reply' = [reply EXCEPT ![p] = NoDay]
            /\ IF job[p] = "reply" THEN Decides(p, "died") ELSE UNCHANGED verdict
            /\ UNCHANGED <<useRedis, timer, today, tables>>

\* One o'clock.  Without Redis there is one instance, which runs the task.
Fire(p) == /\ phase[p] = "up" /\ job[p] = "idle"
           /\ job' = [job EXCEPT ![p] = IF useRedis THEN "ask" ELSE "journal"]
           /\ IF useRedis THEN UNCHANGED verdict ELSE Decides(p, "run")
           /\ UNCHANGED <<useRedis, phase, timer, reply, today, tables>>

\* Mutant: GET, and a SET that is not part of it and comes too late.
GetOnly(p) == /\ job[p] = "ask"
              /\ reply' = [reply EXCEPT ![p] = timer]
              /\ timer' \in {timer, today}
              /\ job' = [job EXCEPT ![p] = "reply"]
              /\ UNCHANGED <<useRedis, phase, verdict, today, tables>>

\* Redis executes GETSET timer:<name> <fire date>.
GetSet(p) == /\ job[p] = "ask"
             /\ reply' = [reply EXCEPT ![p] = timer]
             /\ timer' = today
             /\ job' = [job EXCEPT ![p] = "reply"]
             /\ UNCHANGED <<useRedis, phase, verdict, today, tables>>

\* resolve(res != execTime)
Decide(p) == /\ job[p] = "reply"
             /\ IF reply[p] # today
                THEN job' = [job EXCEPT ![p] = "journal"] /\ Decides(p, "run")
                ELSE job' = [job EXCEPT ![p] = "skipped"] /\ Decides(p, "skip")
             /\ reply' = [reply EXCEPT ![p] = NoDay]
             /\ UNCHANGED <<useRedis, phase, timer, today, tables>>

\* The command fails: err is not looked at, and an undefined res is not the
\* date.  Redis may have executed it.
ErrorReply(p) == /\ job[p] = "ask"
                 /\ timer' \in {timer, today}
                 /\ job' = [job EXCEPT ![p] = "journal"]
                 /\ Decides(p, "error reply")
                 /\ UNCHANGED <<useRedis, phase, reply, today, tables>>

\* The client's error event skips the job.  Its handler stays when Redis is
\* ready: the connection may break after Redis has executed the command.
ErrorEvent(p) == /\ job[p] \in {"ask", "reply"}
                 /\ job' = [job EXCEPT ![p] = "skipped"]
                 /\ reply' = [reply EXCEPT ![p] = NoDay]
                 /\ Decides(p, IF job[p] = "ask" THEN "error event" ELSE "cut off")
                 /\ UNCHANGED <<useRedis, phase, timer, today, tables>>

-----------------------------------------------------------------------------
\* created<histDay
Old(d) == d # NoDay /\ d + MaxHistory < today

Then(p, step) == job' = [job EXCEPT ![p] = step]

CleanJournal(p) == /\ job[p] = "journal"
                   /\ entries' = {d \in entries : ~Old(d)}
                   /\ Then(p, "clearing")
                   /\ UNCHANGED <<useRedis, phase, timer, reply, verdict, today, row>>

CleanClearing(p) ==
    /\ job[p] = "clearing"
    /\ row' = [i \in TokenRow |-> [row[i] EXCEPT
                   !.clearing = IF Old(row[i].clearing) THEN NoDay ELSE @]]
    /\ Then(p, "token")
    /\ UNCHANGED <<useRedis, phase, timer, reply, verdict, today, entries>>

\* The foreign key of the clearing rows.
Referenced == {i \in TokenRow : row[i].clearing # NoDay}

\* One statement: one old token that is referenced stops all of it.
CleanToken(p) ==
    /\ job[p] = "token"
    /\ IF \E i \in Referenced : Old(row[i].token)
       THEN Then(p, "blocked") /\ UNCHANGED row
       ELSE /\ Then(p, "done")
            /\ row' = [i \in TokenRow |-> [row[i] EXCEPT
                           !.token = IF Old(row[i].token) THEN NoDay ELSE @]]
    /\ UNCHANGED <<useRedis, phase, timer, reply, verdict, today, entries>>

\* Mutant: the three deletions do not wait for each other.
CleanFailsUnnoticed(p) ==
    /\ job[p] \in Table
    /\ Then(p, CASE job[p] = "journal" -> "clearing"
                 [] job[p] = "clearing" -> "token"
                 [] OTHER -> "failed")
    /\ UNCHANGED <<useRedis, phase, timer, reply, verdict, today, tables>>
\* A statement fails: nobody catches it, the rest of the chain is not run.
CleanFails(p) == /\ job[p] \in Table
                 /\ Then(p, "failed")
                 /\ UNCHANGED <<useRedis, phase, timer, reply, verdict, today, tables>>

-----------------------------------------------------------------------------
\* What the requests do to the tables: a token and its journal entry; a
\* confirmation that completes it; the clearing row, once and only for a
\* token that is still there.
Create(i) == /\ row[i] = NoRow
             /\ row' = [row EXCEPT ![i].token = today]
             /\ entries' = entries \cup {today}
             /\ UNCHANGED <<useRedis, cluster, today>>

Confirm(i) == /\ row[i].token # NoDay /\ ~row[i].due /\ row[i].clearing = NoDay
              /\ row' = [row EXCEPT ![i].due = TRUE]
              /\ entries' = entries \cup {today}
              /\ UNCHANGED <<useRedis, cluster, today>>

Settle(i) == /\ row[i].due /\ row[i].clearing = NoDay /\ row[i].token # NoDay
             /\ row' = [row EXCEPT ![i].clearing = today]
             /\ UNCHANGED <<useRedis, cluster, today, entries>>

\* Timers fire, Redis answers and a clean-up ends within a day.
NextDay == /\ today < MaxDay
           /\ \A p \in Process : phase[p] = "up" => job[p] \in Over
           /\ today' = today + 1
           /\ job' = [p \in Process |-> IF phase[p] = "up" THEN "idle" ELSE job[p]]
           /\ verdict' = [p \in Process |-> "none"]
           /\ UNCHANGED <<useRedis, phase, timer, reply, tables>>

Next == \/ \E p \in Process :
             \/ Start(p) \/ RedisReady(p) \/ MQTTReady(p) \/ Crash(p)
             \/ Fire(p) \/ GetSet(p) \/ Decide(p) \/ ErrorReply(p) \/ ErrorEvent(p)
             \/ CleanJournal(p) \/ CleanClearing(p) \/ CleanToken(p) \/ CleanFails(p)
        \/ \E i \in TokenRow : Create(i) \/ Confirm(i) \/ Settle(i)
        \/ NextDay

Spec == Init /\ [][Next]_vars

-----------------------------------------------------------------------------
TypeOK == /\ useRedis \in BOOLEAN
          /\ phase \in [Process -> {"down", "redis", "mqtt", "up"}]
          /\ job \in [Process -> {"idle"} \cup Working \cup Over]
          /\ timer \in Day \cup {NoDay}
          /\ reply \in [Process -> Day \cup {NoDay}]
          /\ verdict \in [Process -> Verdict]
          /\ today \in Day
          /\ row \in [TokenRow -> [token : Day \cup {NoDay}, due : BOOLEAN,
                                   clearing : Day \cup {NoDay}]]
          /\ entries \subseteq Day
          /\ \A p \in Process : phase[p] # "up" => job[p] \notin Working

Those(v) == {p \in Process : verdict[p] = v}

(* The cluster runs the job of a day once: at most one process finds that  *)
(* nobody has run it, and who leaves it to somebody else is right, because *)
(* another asked first on the same day (scheduler.ts:36-47); yesterday's   *)
(* key holds nobody back.  The one that asked first runs it unless, between *)
(* Redis and the answer, it died or its connection broke: then nobody does. *)
(* Those that got an error instead of the old value run it as well.        *)
OncePerDay == /\ \A p, q \in Those("run") : p = q
              /\ Those("skip") # {} =>
                   \/ \E v \in {"run", "error reply", "cut off", "died"} : Those(v) # {}
                   \/ \E p \in Process : job[p] = "reply" /\ reply[p] # today

OldTables == {t \in Table : \/ t = "journal" /\ \E d \in entries : Old(d)
                            \/ t = "clearing" /\ \E i \in TokenRow : Old(row[i].clearing)
                            \/ t = "token" /\ \E i \in TokenRow : Old(row[i].token)}

(* A settlement never loses the token it settles, although the clean-up    *)
(* takes three statements and requests settle in between.                  *)
SettledTokenStays == \A i \in TokenRow : row[i].clearing # NoDay => row[i].token # NoDay

(* A clean-up that reports success has left nothing old; the only thing    *)
(* that can stop it short of a failing statement is an old token that was  *)
(* settled within the retention; and no settlement has lost its token      *)
(* (jobs.ts:21-25, create.sql:191-193).                                    *)
CleanOrBlocked ==
    /\ SettledTokenStays
    /\ \A p \in Process :
         /\ job[p] = "done" => OldTables = {}
         /\ job[p] = "blocked" => /\ OldTables \subseteq {"token"}
                                  /\ \E i \in Referenced : Old(row[i].token)

(* config.ts:68, "maximum history to be kept in database tables (journal,  *)
(* token, clearing)": once the statements of a day's clean-up have reached *)
(* the database, nothing older is left.                                    *)
HistoryBounded == \A p \in Process : job[p] \in {"done", "blocked"} => OldTables = {}
=============================================================================
