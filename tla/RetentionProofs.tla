--------------------------- MODULE RetentionProofs ---------------------------
(* Theorems about Retention, for any number of processes, tokens and days. *)
EXTENDS Retention, TLAPS

Parameters == MaxHistory \in Nat /\ MaxDay \in Nat \ {0} /\ NoDay \notin Nat

\* A process that is not up has no job, and its next one is tomorrow's.
Base == TypeOK /\ \A p \in Process : phase[p] # "up" => job[p] = "late"

LEMMA BaseInit == ASSUME Parameters, Init
                  PROVE  Base
BY DEF Parameters, Init, Base, TypeOK, Day, Over, Working, Table, Verdict, NoRow

LEMMA BaseStep == ASSUME Parameters, Base, [Next]_vars
                  PROVE  Base'
<1>. USE DEF Parameters, Base, TypeOK, cluster, tables
<1>1. CASE UNCHANGED vars
  BY <1>1 DEF vars
<1>2. ASSUME NEW p \in Process, Start(p) \/ RedisReady(p)
      PROVE  Base'
  BY <1>2 DEF Start, RedisReady, Working, Over, Table
<1>3. ASSUME NEW p \in Process, MQTTReady(p)
      PROVE  Base'
  BY <1>3 DEF MQTTReady, Working, Over, Table
<1>4. ASSUME NEW p \in Process, Crash(p)
      PROVE  Base'
  BY <1>4 DEF Crash, Decides, Working, Over, Table, Verdict
<1>5. ASSUME NEW p \in Process, Fire(p)
      PROVE  Base'
  BY <1>5 DEF Fire, Decides, Working, Over, Table, Verdict
<1>6. ASSUME NEW p \in Process, GetSet(p)
      PROVE  Base'
  BY <1>6 DEF GetSet, Working, Over, Table, Day
<1>7. ASSUME NEW p \in Process, Decide(p)
      PROVE  Base'
  BY <1>7 DEF Decide, Decides, Working, Over, Table, Verdict
<1>8. ASSUME NEW p \in Process, ErrorReply(p) \/ ErrorEvent(p)
      PROVE  Base'
  BY <1>8 DEF ErrorReply, ErrorEvent, Decides, Working, Over, Table, Verdict, Day
<1>9. ASSUME NEW p \in Process, CleanJournal(p) \/ CleanFails(p)
      PROVE  Base'
  BY <1>9 DEF CleanJournal, CleanFails, Then, Working, Over, Table
<1>10. ASSUME NEW p \in Process, CleanClearing(p)
       PROVE  Base'
  BY <1>10 DEF CleanClearing, Then, Working, Over, Table
<1>11. ASSUME NEW p \in Process, CleanToken(p)
       PROVE  Base'
  BY <1>11 DEF CleanToken, Then, Working, Over, Table
<1>12. ASSUME NEW i \in TokenRow, Create(i) \/ Confirm(i) \/ Settle(i)
       PROVE  Base'
  <2>1. UNCHANGED <<useRedis, cluster, today>> /\ entries' \subseteq Day
    BY <1>12 DEF Create, Confirm, Settle
  <2>2. CASE Create(i)
    BY <2>1, <2>2 DEF Create
  <2>3. CASE Confirm(i)
    BY <2>1, <2>3, ZenonT(60) DEF Confirm
  <2>4. CASE Settle(i)
    BY <2>1, <2>4 DEF Settle
  <2>. QED  BY <1>12, <2>2, <2>3, <2>4
<1>13. CASE NextDay
  <2>1. today' \in Day /\ UNCHANGED <<useRedis, phase, timer, reply, tables>>
    BY <1>13 DEF NextDay, Day
  <2>2. /\ verdict' \in [Process -> Verdict]
        /\ job' \in [Process -> {"idle", "late"}]
        /\ \A p \in Process : phase[p] # "up" => job'[p] = "late"
    BY <1>13 DEF NextDay, Verdict
  <2>. QED  BY <2>1, <2>2 DEF Working, Over, Table
<1>. QED  BY <1>1, <1>2, <1>3, <1>4, <1>5, <1>6, <1>7, <1>8, <1>9, <1>10, <1>11,
             <1>12, <1>13 DEF Next

-----------------------------------------------------------------------------
\* Each statement of a clean-up leaves its table clean until midnight: what
\* requests add is of today, and no old row comes back.
OldEntries == {d \in entries : Old(d)}
OldClearings == {i \in TokenRow : Old(row[i].clearing)}
OldTokens == {i \in TokenRow : Old(row[i].token)}

CleanInv ==
    /\ Base
    /\ SettledTokenStays
    /\ \A p \in Process :
         /\ job[p] \in {"clearing", "token", "done", "blocked"} => OldEntries = {}
         /\ job[p] \in {"token", "done", "blocked"} => OldClearings = {}
         /\ job[p] = "done" => OldTokens = {}
         /\ job[p] = "blocked" => OldTokens \cap Referenced # {}

\* What the two deletions leave of a row.
LEMMA ClearingCleaned ==
    ASSUME Base, NEW p \in Process, CleanClearing(p)
    PROVE  /\ UNCHANGED <<today, entries>>
           /\ \A i \in TokenRow :
                /\ row'[i].token = row[i].token
                /\ row'[i].clearing = IF Old(row[i].clearing) THEN NoDay ELSE row[i].clearing
BY DEF Base, TypeOK, CleanClearing

LEMMA TokenCleaned ==
    ASSUME Base, NEW p \in Process, CleanToken(p), row' # row
    PROVE  \A i \in TokenRow :
             /\ row'[i].clearing = row[i].clearing
             /\ row'[i].token = IF Old(row[i].token) THEN NoDay ELSE row[i].token
BY DEF Base, TypeOK, CleanToken

\* What a step within the day may do to the rows.
NothingOlder ==
    /\ SettledTokenStays'
    /\ OldEntries' \subseteq OldEntries
    /\ OldClearings' \subseteq OldClearings
    /\ OldTokens' \subseteq OldTokens
    /\ OldClearings = {} /\ OldTokens \cap Referenced # {}
         => OldTokens' \cap Referenced' # {}

LEMMA TablesKept == ASSUME CleanInv, UNCHANGED <<today, tables>>
                    PROVE  NothingOlder
BY DEF NothingOlder, CleanInv, SettledTokenStays, OldEntries, OldClearings, OldTokens,
       Referenced, Old, tables

\* Requests write what is of today.
LEMMA RequestsAddToday ==
    ASSUME Parameters, CleanInv, NEW i \in TokenRow, Create(i) \/ Confirm(i) \/ Settle(i)
    PROVE  NothingOlder /\ job' = job
<1>. USE DEF Parameters, CleanInv, Base, TypeOK, NothingOlder, SettledTokenStays,
             OldEntries, OldClearings, OldTokens, Referenced, Old, Day, cluster
<1>1. CASE Create(i)
  BY <1>1 DEF Create, NoRow
<1>2. CASE Confirm(i)
  BY <1>2 DEF Confirm
<1>3. CASE Settle(i)
  BY <1>3 DEF Settle
<1>. QED  BY <1>1, <1>2, <1>3

\* A process that leaves the tables alone and whose job reports nothing.
LEMMA JobMoves ==
    ASSUME CleanInv, Base', NEW p \in Process, UNCHANGED <<today, tables>>,
           \A q \in Process \ {p} : job'[q] = job[q],
           job'[p] \notin {"clearing", "token", "done", "blocked"}
    PROVE  CleanInv'
BY TablesKept DEF CleanInv, NothingOlder, tables, Base

LEMMA CleanStep == ASSUME Parameters, CleanInv, [Next]_vars
                   PROVE  CleanInv'
<1>0. Base'
  BY BaseStep DEF CleanInv
<1>. USE DEF Base, TypeOK
<1>1. CASE UNCHANGED vars
  <2>1. NothingOlder /\ job' = job
    BY <1>1, TablesKept DEF vars, tables
  <2>. QED  BY <1>0, <2>1 DEF CleanInv, NothingOlder
<1>2. ASSUME NEW p \in Process, Start(p) \/ RedisReady(p)
      PROVE  CleanInv'
  <2>1. NothingOlder /\ job' = job
    BY <1>2, TablesKept DEF Start, RedisReady, tables
  <2>. QED  BY <1>0, <2>1 DEF CleanInv, NothingOlder
<1>3. ASSUME NEW p \in Process,
             \/ MQTTReady(p) \/ Crash(p) \/ Fire(p) \/ GetSet(p) \/ Decide(p)
             \/ ErrorReply(p) \/ ErrorEvent(p) \/ CleanFails(p)
      PROVE  CleanInv'
  <2>1. /\ UNCHANGED <<today, tables>>
        /\ \A q \in Process \ {p} : job'[q] = job[q]
        /\ job'[p] \in {"late", "ask", "reply", "journal", "skipped", "failed"}
    BY <1>3 DEF CleanInv, MQTTReady, Crash, Fire, GetSet, Decide, ErrorReply, ErrorEvent,
                CleanFails, Then, tables
  <2>. QED  BY <1>0, <2>1, JobMoves
<1>4. ASSUME NEW p \in Process, CleanJournal(p)
      PROVE  CleanInv'
  <2>1. NothingOlder /\ OldEntries' = {}
    BY <1>4 DEF CleanInv, CleanJournal, NothingOlder, SettledTokenStays, OldEntries,
                OldClearings, OldTokens, Referenced, Old
  <2>2. job' = [job EXCEPT ![p] = "clearing"]
    BY <1>4 DEF CleanJournal, Then
  <2>. QED  BY <1>0, <2>1, <2>2 DEF CleanInv, NothingOlder
<1>5. ASSUME NEW p \in Process, CleanClearing(p)
      PROVE  CleanInv'
  <2>1. /\ UNCHANGED <<today, entries>>
        /\ \A i \in TokenRow :
             /\ row'[i].token = row[i].token
             /\ row'[i].clearing = IF Old(row[i].clearing) THEN NoDay ELSE row[i].clearing
    BY <1>5, ClearingCleaned DEF CleanInv
  <2>2. NothingOlder /\ OldClearings' = {}
    BY <2>1 DEF CleanInv, NothingOlder, SettledTokenStays, OldEntries, OldClearings,
                OldTokens, Referenced, Old
  <2>3. job[p] = "clearing" /\ job' = [job EXCEPT ![p] = "token"]
    BY <1>5 DEF CleanClearing, Then
  <2>. QED  BY <1>0, <2>2, <2>3 DEF CleanInv, NothingOlder
<1>6. ASSUME NEW p \in Process, CleanToken(p)
      PROVE  CleanInv'
  <2>1. CASE OldTokens \cap Referenced # {}
    <3>1. job[p] = "token" /\ job' = [job EXCEPT ![p] = "blocked"]
      BY <1>6, <2>1 DEF CleanToken, Then, OldTokens, Referenced
    <3>2. NothingOlder
      BY <1>6, <2>1, TablesKept DEF CleanToken, OldTokens, Referenced, tables
    <3>. QED  BY <1>0, <2>1, <3>1, <3>2 DEF CleanInv, NothingOlder
  <2>2. CASE OldTokens \cap Referenced = {}
    <3>1. job[p] = "token" /\ job' = [job EXCEPT ![p] = "done"]
      BY <1>6, <2>2 DEF CleanToken, Then, OldTokens, Referenced
    <3>2. /\ UNCHANGED <<today, entries>>
          /\ \A i \in TokenRow :
               /\ row'[i].clearing = row[i].clearing
               /\ row'[i].token = IF Old(row[i].token) THEN NoDay ELSE row[i].token
      BY <1>6, <2>2, TokenCleaned DEF CleanInv, CleanToken, OldTokens, Referenced
    <3>3. NothingOlder /\ OldTokens' = {}
      BY <2>2, <3>2 DEF CleanInv, NothingOlder, SettledTokenStays, OldEntries,
                        OldClearings, OldTokens, Referenced, Old
    <3>. QED  BY <1>0, <3>1, <3>3 DEF CleanInv, NothingOlder
  <2>. QED  BY <2>1, <2>2
<1>7. ASSUME NEW i \in TokenRow, Create(i) \/ Confirm(i) \/ Settle(i)
      PROVE  CleanInv'
  BY <1>0, <1>7, RequestsAddToday DEF CleanInv, NothingOlder
<1>8. CASE NextDay
  <2>1. SettledTokenStays' /\ \A p \in Process : job'[p] \in {"idle", "late"}
    BY <1>8 DEF NextDay, CleanInv, SettledTokenStays, tables
  <2>. QED  BY <1>0, <2>1 DEF CleanInv
<1>. QED  BY <1>1, <1>2, <1>3, <1>4, <1>5, <1>6, <1>7, <1>8 DEF Next

LEMMA CleanInit == ASSUME Parameters
                   PROVE  Init => CleanInv
BY BaseInit DEF Init, CleanInv, SettledTokenStays, NoRow

LEMMA CleanHolds == CleanInv => CleanOrBlocked
BY DEF CleanInv, CleanOrBlocked, OldTables, OldEntries, OldClearings, OldTokens,
       Referenced, Table

(* A clean-up that reports success has left nothing old, one that is       *)
(* stopped was stopped by an old token with a clearing row, and no         *)
(* settlement loses its token (jobs.ts:21-25, create.sql:191-193).         *)
THEOREM CleanUpHonest == ASSUME Parameters
                         PROVE  Spec => []CleanOrBlocked
BY CleanInit, CleanStep, CleanHolds, PTL DEF Spec

-----------------------------------------------------------------------------
\* The processes that have found, or are about to find, the job undone today.
First(p) == verdict[p] = "run" \/ (job[p] = "reply" /\ reply[p] # today)

\* Somebody has taken the day's key.
Claimed == \E p \in Process :
             First(p) \/ verdict[p] \in {"error reply", "cut off", "died"}

\* Without Redis there is one instance, which fires once a day.
OneInstance == ~useRedis =>
    /\ \A p, q \in Process : phase[p] # "down" /\ phase[q] # "down" => p = q
    /\ \A p \in Process : job[p] \notin {"ask", "reply"}
    /\ \A p, q \in Process : job[q] = "idle" => verdict[p] # "run"

KeyInThePast == timer # NoDay => timer <= today

\* What is known from where a process stands.
Answered == \A p \in Process :
    /\ job[p] \in {"idle", "ask", "reply"} => verdict[p] = "none"
    /\ useRedis /\ First(p) => timer = today
    /\ job[p] = "reply" /\ reply[p] = today => timer = today
    /\ verdict[p] = "skip" => timer = today

OneFirst == \A p, q \in Process : First(p) /\ First(q) => p = q

KeyClaimed == timer = today => Claimed

OnceInv == Base /\ KeyInThePast /\ OneInstance /\ Answered /\ OneFirst /\ KeyClaimed

\* Steps of the day that have nothing to do with the question.
LEMMA BesideTheQuestion ==
    ASSUME OnceInv, Base', UNCHANGED <<useRedis, timer, reply, verdict, today>>,
           \A q \in Process : \/ job'[q] = job[q]
                              \/ /\ job[q] \notin {"idle", "ask", "reply"}
                                 /\ job'[q] \notin {"idle", "ask", "reply"},
           ~useRedis => \A p, q \in Process : phase'[p] # "down" /\ phase'[q] # "down" => p = q
    PROVE  OnceInv'
BY DEF OnceInv, KeyInThePast, OneInstance, Answered, OneFirst, KeyClaimed, First, Claimed

\* A step of one process leaves the answers of the others alone.
OthersWait(p) == /\ UNCHANGED <<useRedis, today>>
                 /\ \A q \in Process \ {p} : /\ job'[q] = job[q]
                                              /\ verdict'[q] = verdict[q]
                                              /\ reply'[q] = reply[q]

LEMMA OnceStep == ASSUME Parameters, OnceInv, [Next]_vars
                  PROVE  OnceInv'
<1>0. Base'
  BY BaseStep DEF OnceInv
<1>. USE DEF Base, TypeOK
<1>1. CASE UNCHANGED vars
  BY <1>0, <1>1, BesideTheQuestion DEF vars, OnceInv, OneInstance
<1>2. ASSUME NEW p \in Process, Start(p) \/ RedisReady(p) \/ MQTTReady(p)
      PROVE  OnceInv'
  <2>1. CASE Start(p)
    BY <1>0, <2>1, BesideTheQuestion DEF OnceInv, OneInstance, Start, tables
  <2>2. CASE RedisReady(p) \/ MQTTReady(p)
    BY <1>0, <2>2, BesideTheQuestion DEF OnceInv, OneInstance, RedisReady, MQTTReady, tables
  <2>. QED  BY <1>2, <2>1, <2>2
<1>3. ASSUME NEW p \in Process,
             CleanJournal(p) \/ CleanClearing(p) \/ CleanToken(p) \/ CleanFails(p)
      PROVE  OnceInv'
  <2>1. /\ UNCHANGED <<useRedis, phase, timer, reply, verdict, today>>
        /\ job[p] \in Table /\ job'[p] \notin {"idle", "ask", "reply"}
        /\ \A q \in Process \ {p} : job'[q] = job[q]
    BY <1>3 DEF OnceInv, CleanJournal, CleanClearing, CleanToken, CleanFails, Then, Table,
                tables
  <2>. QED  BY <1>0, <2>1, BesideTheQuestion DEF OnceInv, OneInstance, Table
<1>4. ASSUME NEW i \in TokenRow, Create(i) \/ Confirm(i) \/ Settle(i)
      PROVE  OnceInv'
  BY <1>0, <1>4, BesideTheQuestion DEF OnceInv, OneInstance, Create, Confirm, Settle, cluster
<1>5. ASSUME NEW p \in Process, Crash(p)
      PROVE  OnceInv'
  <2>1. /\ OthersWait(p) /\ timer' = timer
        /\ job'[p] = "late"
        /\ verdict'[p] = IF job[p] = "reply" THEN "died" ELSE verdict[p]
        /\ phase'[p] = "down" /\ \A q \in Process \ {p} : phase'[q] = phase[q]
    BY <1>5 DEF OnceInv, Crash, Decides, OthersWait
  <2>. HIDE DEF Base, TypeOK
  <2>3. OneInstance'
    BY <2>1 DEF OnceInv, OneInstance, Answered, First, OthersWait
  <2>4. Answered'
    BY <2>1 DEF OnceInv, OneInstance, Answered, First, OthersWait
  <2>5. OneFirst'
    BY <2>1 DEF OnceInv, OneInstance, Answered, OneFirst, First, OthersWait
  <2>6. KeyClaimed'
    BY <2>1 DEF OnceInv, Answered, KeyClaimed, Claimed, First, OthersWait
  <2>. QED  BY <1>0, <2>1, <2>3, <2>4, <2>5, <2>6 DEF OnceInv, KeyInThePast, OthersWait
<1>6. ASSUME NEW p \in Process, Fire(p)
      PROVE  OnceInv'
  <2>1. /\ OthersWait(p) /\ timer' = timer /\ phase' = phase
        /\ job[p] = "idle" /\ phase[p] = "up"
        /\ job'[p] = IF useRedis THEN "ask" ELSE "journal"
        /\ verdict'[p] = IF useRedis THEN verdict[p] ELSE "run"
    BY <1>6 DEF OnceInv, Fire, Decides, OthersWait
  <2>2. ~useRedis => \A q \in Process \ {p} : job[q] = "late"
    BY <2>1 DEF OnceInv, OneInstance
  <2>. HIDE DEF Base, TypeOK
  <2>3. OneInstance'
    BY <2>1, <2>2 DEF OnceInv, OneInstance, Answered, First, OthersWait
  <2>4. Answered'
    BY <2>1, <2>2 DEF OnceInv, OneInstance, Answered, First, OthersWait
  <2>5. OneFirst'
    BY <2>1, <2>2 DEF OnceInv, OneInstance, Answered, OneFirst, First, OthersWait
  <2>6. KeyClaimed'
    BY <2>1, <2>2 DEF OnceInv, Answered, KeyClaimed, Claimed, First, OthersWait
  <2>. QED  BY <1>0, <2>1, <2>2, <2>3, <2>4, <2>5, <2>6 DEF OnceInv, KeyInThePast, OthersWait
<1>7. ASSUME NEW p \in Process, GetSet(p)
      PROVE  OnceInv'
  <2>1. /\ OthersWait(p) /\ timer' = today /\ phase' = phase
        /\ job[p] = "ask" /\ job'[p] = "reply"
        /\ verdict'[p] = verdict[p] /\ reply'[p] = timer
    BY <1>7 DEF OnceInv, GetSet, OthersWait
  <2>2. timer' <= today'
    BY <1>0, <2>1 DEF OthersWait, Day
  <2>. HIDE DEF Base, TypeOK
  <2>3. OneInstance'
    BY <2>1, <2>2 DEF OnceInv, OneInstance, Answered, First, OthersWait
  <2>4. Answered'
    BY <2>1, <2>2 DEF OnceInv, OneInstance, Answered, First, OthersWait
  <2>5. OneFirst'
    BY <2>1, <2>2 DEF OnceInv, OneInstance, Answered, OneFirst, First, OthersWait
  <2>6. KeyClaimed'
    BY <2>1, <2>2 DEF OnceInv, Answered, KeyClaimed, Claimed, First, OthersWait
  <2>. QED  BY <1>0, <2>1, <2>2, <2>3, <2>4, <2>5, <2>6 DEF OnceInv, KeyInThePast, OthersWait
<1>8. ASSUME NEW p \in Process, Decide(p)
      PROVE  OnceInv'
  <2>1. /\ OthersWait(p) /\ timer' = timer /\ phase' = phase
        /\ job[p] = "reply" /\ job'[p] \in {"journal", "skipped"}
        /\ verdict'[p] = IF reply[p] # today THEN "run" ELSE "skip"
    BY <1>8 DEF OnceInv, Decide, Decides, OthersWait
  <2>. HIDE DEF Base, TypeOK
  <2>3. OneInstance'
    BY <2>1 DEF OnceInv, OneInstance, Answered, First, OthersWait
  <2>4. Answered'
    BY <2>1 DEF OnceInv, OneInstance, Answered, First, OthersWait
  <2>5. OneFirst'
    BY <2>1 DEF OnceInv, OneInstance, Answered, OneFirst, First, OthersWait
  <2>6. KeyClaimed'
    BY <2>1 DEF OnceInv, Answered, KeyClaimed, Claimed, First, OthersWait
  <2>. QED  BY <1>0, <2>1, <2>3, <2>4, <2>5, <2>6 DEF OnceInv, KeyInThePast, OthersWait
<1>9. ASSUME NEW p \in Process, ErrorReply(p)
      PROVE  OnceInv'
  <2>1. /\ OthersWait(p) /\ timer' \in {timer, today} /\ phase' = phase
        /\ job[p] = "ask" /\ job'[p] = "journal" /\ verdict'[p] = "error reply"
    BY <1>9 DEF OnceInv, ErrorReply, Decides, OthersWait
  <2>2. timer' # NoDay => timer' <= today'
    <3>1. today \in Nat /\ (timer # NoDay => timer <= today)
      BY DEF OnceInv, KeyInThePast, Day
    <3>2. today' = today
      BY <2>1 DEF OthersWait
    <3>3. CASE timer' = timer
      BY <3>1, <3>2, <3>3
    <3>4. CASE timer' = today
      BY <3>1, <3>2, <3>4
    <3>. QED  BY <2>1, <3>3, <3>4
  <2>. HIDE DEF Base, TypeOK
  <2>3. OneInstance'
    BY <2>1, <2>2 DEF OnceInv, OneInstance, Answered, First, OthersWait
  <2>4. Answered'
    BY <2>1, <2>2 DEF OnceInv, OneInstance, Answered, First, OthersWait
  <2>5. OneFirst'
    BY <2>1, <2>2 DEF OnceInv, OneInstance, Answered, OneFirst, First, OthersWait
  <2>6. KeyClaimed'
    BY <2>1, <2>2 DEF OnceInv, Answered, KeyClaimed, Claimed, First, OthersWait
  <2>. QED  BY <1>0, <2>1, <2>2, <2>3, <2>4, <2>5, <2>6 DEF OnceInv, KeyInThePast, OthersWait
<1>10. ASSUME NEW p \in Process, ErrorEvent(p)
       PROVE  OnceInv'
  <2>1. /\ OthersWait(p) /\ timer' = timer /\ phase' = phase
        /\ job[p] \in {"ask", "reply"} /\ job'[p] = "skipped"
        /\ verdict'[p] = IF job[p] = "ask" THEN "error event" ELSE "cut off"
    BY <1>10 DEF OnceInv, ErrorEvent, Decides, OthersWait
  <2>. HIDE DEF Base, TypeOK
  <2>3. OneInstance'
    BY <2>1 DEF OnceInv, OneInstance, Answered, First, OthersWait
  <2>4. Answered'
    BY <2>1 DEF OnceInv, OneInstance, Answered, First, OthersWait
  <2>5. OneFirst'
    BY <2>1 DEF OnceInv, OneInstance, Answered, OneFirst, First, OthersWait
  <2>6. KeyClaimed'
    BY <2>1 DEF OnceInv, Answered, KeyClaimed, Claimed, First, OthersWait
  <2>. QED  BY <1>0, <2>1, <2>3, <2>4, <2>5, <2>6 DEF OnceInv, KeyInThePast, OthersWait
<1>11. CASE NextDay
  <2>1. /\ \A p \in Process : job'[p] \in {"idle", "late"} /\ verdict'[p] = "none"
        /\ today' = today + 1 /\ UNCHANGED <<useRedis, phase, timer, reply>>
    BY <1>11 DEF OnceInv, NextDay
  <2>2. timer # NoDay => timer <= today'
    BY <2>1 DEF OnceInv, KeyInThePast, Day
  <2>3. timer # today'
    BY <2>1 DEF OnceInv, KeyInThePast, Day, Parameters
  <2>. QED  BY <1>0, <2>1, <2>2, <2>3 DEF OnceInv, KeyInThePast, OneInstance, Answered,
                    OneFirst, KeyClaimed, First
<1>. QED  BY <1>1, <1>2, <1>3, <1>4, <1>5, <1>6, <1>7, <1>8, <1>9, <1>10, <1>11 DEF Next

LEMMA OnceInit == ASSUME Parameters
                  PROVE  Init => OnceInv
BY BaseInit DEF Init, OnceInv, KeyInThePast, OneInstance, Answered, OneFirst, KeyClaimed,
                First, Parameters

LEMMA OnceHolds == OnceInv => OncePerDay
BY DEF OnceInv, Answered, OneFirst, KeyClaimed, OncePerDay, Those, First, Claimed

(* One process at most decides that the day's job is its own, and who      *)
(* leaves it to another is right, unless that one died or was cut off from *)
(* Redis before it read its answer (scheduler.ts:36-47).                   *)
THEOREM JobRunsOnce == ASSUME Parameters
                       PROVE  Spec => []OncePerDay
BY OnceInit, OnceStep, OnceHolds, PTL DEF Spec
=============================================================================
