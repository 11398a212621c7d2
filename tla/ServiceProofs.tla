--------------------------- MODULE ServiceProofs ---------------------------
(* The theorems of the parts, as theorems of the service, and those of its *)
(* parts whose proofs are short.                                           *)
EXTENDS Service, FiniteSetTheorems, TLAPS

PoolP == INSTANCE DbPoolProofs
KeepP == INSTANCE RetentionProofs
UsersP == INSTANCE LoginProofs WITH customer <- user

-----------------------------------------------------------------------------
\* Two instances of one module are the same.
LEMMA SamePool ==
    /\ Pool!Init = PoolP!Init
    /\ Pool!Next = PoolP!Next
    /\ Pool!Accounted = PoolP!Accounted
    /\ Pool!TypeOK = PoolP!TypeOK
BY DEF Pool!TypeOK, PoolP!TypeOK, Pool!Step, PoolP!Step, Pool!Init, PoolP!Init, Pool!Task, PoolP!Task, Pool!Next, PoolP!Next, Pool!Work,
       PoolP!Work, Pool!Start, PoolP!Start, Pool!Own, PoolP!Own, Pool!GetConnection,
       PoolP!GetConnection, Pool!Proceed, PoolP!Proceed, Pool!Connected, PoolP!Connected,
       Pool!First, PoolP!First, Pool!Query, PoolP!Query, Pool!Blocked, PoolP!Blocked,
       Pool!Release, PoolP!Release, Pool!Begin, PoolP!Begin, Pool!Update, PoolP!Update,
       Pool!Insert, PoolP!Insert, Pool!Find, PoolP!Find, Pool!Journal, PoolP!Journal,
       Pool!Commit, PoolP!Commit, Pool!Unlock, PoolP!Unlock, Pool!Rollback,
       PoolP!Rollback, Pool!Fail, PoolP!Fail, Pool!ConnectFails, PoolP!ConnectFails,
       Pool!Fails, PoolP!Fails, Pool!InTransaction, PoolP!InTransaction, Pool!TimesOut,
       PoolP!TimesOut, Pool!Accounted, PoolP!Accounted, Pool!Holding, PoolP!Holding,
       Pool!HandedOnClean, PoolP!HandedOnClean

LEMMA SameKeep ==
    /\ Keep!Init = KeepP!Init
    /\ Keep!Next = KeepP!Next
    /\ Keep!OncePerDay = KeepP!OncePerDay
    /\ Keep!CleanOrBlocked = KeepP!CleanOrBlocked
    /\ Keep!TypeOK = KeepP!TypeOK
BY DEF Keep!TypeOK, KeepP!TypeOK, Keep!Day, KeepP!Day, Keep!Working, KeepP!Working,
       Keep!Verdict, KeepP!Verdict, Keep!Init, KeepP!Init, Keep!NoRow, KeepP!NoRow, Keep!Next, KeepP!Next, Keep!Start,
       KeepP!Start, Keep!tables, KeepP!tables, Keep!RedisReady, KeepP!RedisReady,
       Keep!MQTTReady, KeepP!MQTTReady, Keep!Crash, KeepP!Crash, Keep!Decides,
       KeepP!Decides, Keep!Fire, KeepP!Fire, Keep!GetSet, KeepP!GetSet, Keep!Decide,
       KeepP!Decide, Keep!ErrorReply, KeepP!ErrorReply, Keep!ErrorEvent, KeepP!ErrorEvent,
       Keep!CleanJournal, KeepP!CleanJournal, Keep!Old, KeepP!Old, Keep!Then, KeepP!Then,
       Keep!CleanClearing, KeepP!CleanClearing, Keep!CleanToken, KeepP!CleanToken,
       Keep!Referenced, KeepP!Referenced, Keep!CleanFails, KeepP!CleanFails, Keep!Table,
       KeepP!Table, Keep!Create, KeepP!Create, Keep!cluster, KeepP!cluster, Keep!Confirm,
       KeepP!Confirm, Keep!Settle, KeepP!Settle, Keep!NextDay, KeepP!NextDay, Keep!Over,
       KeepP!Over, Keep!OncePerDay, KeepP!OncePerDay, Keep!Those, KeepP!Those,
       Keep!CleanOrBlocked, KeepP!CleanOrBlocked, Keep!SettledTokenStays,
       KeepP!SettledTokenStays, Keep!OldTables, KeepP!OldTables

LEMMA SameUsers ==
    /\ Users!Init = UsersP!Init
    /\ Users!Next = UsersP!Next
    /\ Users!SecretProved = UsersP!SecretProved
    /\ Users!SessionOfUser = UsersP!SessionOfUser
    /\ Users!TypeOK = UsersP!TypeOK
BY DEF Users!TypeOK, UsersP!TypeOK, Users!Step, UsersP!Step, Users!Init, UsersP!Init, Users!NoRow, UsersP!NoRow, Users!Id, UsersP!Id,
       Users!Next, UsersP!Next, Users!Start, UsersP!Start, Users!Anybody, UsersP!Anybody,
       Users!User, UsersP!User, Users!Param, UsersP!Param, Users!Admin, UsersP!Admin,
       Users!Registered, UsersP!Registered, Users!Exists, UsersP!Exists, Users!Quiet,
       UsersP!Quiet, Users!FindFree, UsersP!FindFree, Users!VerifyCaptcha,
       UsersP!VerifyCaptcha, Users!Goto, UsersP!Goto, Users!InsertUser, UsersP!InsertUser,
       Users!Reread, UsersP!Reread, Users!RereadById, UsersP!RereadById, Users!CheckOld,
       UsersP!CheckOld, Users!At, UsersP!At, Users!UpdatePassword, UsersP!UpdatePassword,
       Users!LogIn, UsersP!LogIn, Users!AnswerLate, UsersP!AnswerLate, Users!Select,
       UsersP!Select, Users!WriteParam, UsersP!WriteParam, Users!Verify, UsersP!Verify,
       Users!StoreSecret, UsersP!StoreSecret, Users!RemoveParam, UsersP!RemoveParam,
       Users!FindUser, UsersP!FindUser, Users!Disable, UsersP!Disable, Users!DeleteUser,
       UsersP!DeleteUser, Users!Fail, UsersP!Fail, Users!Ended, UsersP!Ended,
       Users!SecretProved, UsersP!SecretProved, Users!SessionOfUser, UsersP!SessionOfUser

-----------------------------------------------------------------------------
\* What a step of the service is to each part.
LEMMA StepOfPool == [Next]_vars => [PoolP!Next]_(PoolP!vars)
BY SamePool DEF Next, vars, pool, PoolP!vars,
       KeepOnly, AccountsOnly, UsersOnly, CallsOnly

LEMMA StepOfKeep == [Next]_vars => [KeepP!Next]_(KeepP!vars)
BY SameKeep DEF Next, vars, keep, KeepP!vars,
       PoolOnly, AccountsOnly, UsersOnly, CallsOnly

LEMMA StepOfUsers == [Next]_vars => [UsersP!Next]_(UsersP!vars)
BY SameUsers DEF Next, vars, users, UsersP!vars,
       PoolOnly, KeepOnly, AccountsOnly, CallsOnly

-----------------------------------------------------------------------------
(* DbPool: no connection is lost, lent twice or handed on with an open     *)
(* transaction or a locked row (db.ts:63-69, 115-124).                     *)
THEOREM PoolAccounted == Spec => []Accounted
<1>1. Init => PoolP!PoolInv
  BY PoolP!PoolInit, SamePool, ServiceAssumption DEF Init
<1>2. PoolP!PoolInv /\ [Next]_vars => PoolP!PoolInv'
  BY PoolP!PoolStep, StepOfPool, ServiceAssumption
<1>3. PoolP!PoolInv => Accounted
  BY PoolP!PoolHolds, SamePool DEF Accounted
<1>. QED  BY <1>1, <1>2, <1>3, PTL DEF Spec

(* Retention: one process at most decides that the day's job is its own,   *)
(* and who leaves it to another is right, unless that one died or was cut  *)
(* off from Redis before it read its answer (scheduler.ts:36-47).          *)
THEOREM JobRunsOnce == Spec => []OncePerDay
<1>1. Init => KeepP!OnceInv
  BY KeepP!OnceInit, SameKeep, ServiceAssumption DEF Init, KeepP!Parameters
<1>2. KeepP!OnceInv /\ [Next]_vars => KeepP!OnceInv'
  BY KeepP!OnceStep, StepOfKeep, ServiceAssumption DEF KeepP!Parameters
<1>3. KeepP!OnceInv => OncePerDay
  BY KeepP!OnceHolds, SameKeep DEF OncePerDay
<1>. QED  BY <1>1, <1>2, <1>3, PTL DEF Spec

(* Retention: a clean-up that reports success has left nothing old, one    *)
(* that stopped was stopped by an old token with a clearing row, and no    *)
(* settlement loses its token (jobs.ts:21-25, create.sql:191-193).         *)
THEOREM CleanUpHonest == Spec => []CleanOrBlocked
<1>1. Init => KeepP!CleanInv
  BY KeepP!CleanInit, SameKeep, ServiceAssumption DEF Init, KeepP!Parameters
<1>2. KeepP!CleanInv /\ [Next]_vars => KeepP!CleanInv'
  BY KeepP!CleanStep, StepOfKeep, ServiceAssumption DEF KeepP!Parameters
<1>3. KeepP!CleanInv => CleanOrBlocked
  BY KeepP!CleanHolds, SameKeep DEF CleanOrBlocked
<1>. QED  BY <1>1, <1>2, <1>3, PTL DEF Spec

(* Login: the second factor is one whose token was verified                *)
(* (login.ts:209-218).                                                     *)
THEOREM SecondFactorProved == Spec => []SecretProved
<1>1. Init => UsersP!LoginInv
  BY UsersP!LoginInit, SameUsers, ServiceAssumption DEF Init
<1>2. UsersP!LoginInv /\ [Next]_vars => UsersP!LoginInv'
  BY UsersP!LoginStep, StepOfUsers, ServiceAssumption DEF UsersP!Id, Users!Id
<1>3. UsersP!LoginInv => SecretProved
  BY UsersP!LoginHolds, SameUsers DEF SecretProved
<1>. QED  BY <1>1, <1>2, <1>3, PTL DEF Spec

(* Login: a registration and a change of the second factor end with a      *)
(* session of the row they are about, or with none (login.ts:22-35,        *)
(* 208-238).                                                               *)
THEOREM SessionNamesUser == Spec => []SessionOfUser
<1>1. Init => UsersP!LoginInv
  BY UsersP!LoginInit, SameUsers, ServiceAssumption DEF Init
<1>2. UsersP!LoginInv /\ [Next]_vars => UsersP!LoginInv'
  BY UsersP!LoginStep, StepOfUsers, ServiceAssumption DEF UsersP!Id, Users!Id
<1>3. UsersP!LoginInv => SessionOfUser
  BY UsersP!LoginHolds, SameUsers DEF SessionOfUser
<1>. QED  BY <1>1, <1>2, <1>3, PTL DEF Spec

-----------------------------------------------------------------------------
(* Account.                                                                *)

\* Unless there is one default, a request is still to look, or has failed.
OneDefault == Accounts!Rows = {} \/ Cardinality(Accounts!Defaults) = 1
AtWork(r) == Accounts!Active(r) \/ change[r].pc = "failed"
Watched == OneDefault \/ \E r \in Change : AtWork(r)

\* Only a creation inserts, and it chooses nothing.
Inserts(r) == change[r].pc = "insert" =>
                change[r].default \in {"0", "1"} /\ change[r].wish = NoAccount

\* A request that nobody overlaps runs alone, and if the account that it is to
\* make the default exists, that one is the default as soon as it has written.
Choice(r) == change[r].wish \in Accounts!Rows =>
    /\ change[r].pc \in {"clear", "write", "count"}
    /\ change[r].pc \in {"clear", "write"} =>
         change[r].id = change[r].wish /\ change[r].default = "1"
    /\ change[r].pc = "write" => Accounts!Defaults = {}
    /\ change[r].pc = "count" => Accounts!Defaults = {change[r].wish}
Chosen(r) == alone[r] /\ Accounts!Active(r) =>
    (\A q \in Change \ {r} : ~Accounts!Active(q)) /\ Choice(r)

AccountInv == /\ Accounts!TypeOK /\ Watched
              /\ \A r \in Change : Inserts(r) /\ Chosen(r)

LEMMA SameCardinality == ASSUME NEW S
                         PROVE  Accounts!Cardinality(S) = Cardinality(S)
BY DEF Accounts!Cardinality, Cardinality

LEMMA GotoMoves ==
    ASSUME Accounts!TypeOK, NEW r \in Change, NEW pc \in Accounts!Step, Accounts!Goto(r, pc)
    PROVE  /\ change' \in [Change -> [pc : Accounts!Step, id : AccountId \cup {NoAccount},
                                      default : {"none", "0", "1", "true", "away"},
                                      wish : AccountId \cup {NoAccount}]]
           /\ change'[r].pc = pc
           /\ change'[r].id = change[r].id
           /\ change'[r].default = change[r].default
           /\ change'[r].wish = change[r].wish
           /\ \A q \in Change \ {r} : change'[q] = change[q]
BY ZenonT(60) DEF Accounts!Goto, Accounts!TypeOK

\* What a step of r leaves of the other requests.
Aside(r) == /\ \A q \in Change \ {r} : change'[q] = change[q]
            /\ \A q \in Change : alone'[q] => alone[q]

\* A step of r: it leaves the types, and somebody at work if there is to be.
Good(r) == /\ Accounts!TypeOK'
           /\ AtWork(r)' \/ OneDefault'
           /\ Inserts(r)' /\ Chosen(r)'
           /\ Aside(r)
           /\ \A q \in Change \ {r} : Accounts!Active(q) => ~alone'[q]

LEMMA BeginGood ==
    ASSUME NoAccount \notin AccountId, AccountInv, NEW r \in Change,
           Accounts!Create(r) \/ Accounts!Delete(r) \/ Accounts!Update(r)
    PROVE  Good(r)
<1>1. PICK i \in AccountId, value \in {"none", "0", "1", "true", "away"},
           wish \in AccountId \cup {NoAccount}, pc \in {"insert", "delete", "clear", "write"} :
         /\ Accounts!Begin(r, i, value, wish, pc)
         /\ pc = "insert" => value \in {"0", "1"} /\ wish = NoAccount
         /\ wish = NoAccount \/ (pc = "clear" /\ wish = i /\ value = "1")
  BY DEF Accounts!Create, Accounts!Delete, Accounts!Update, AccountInv, Accounts!TypeOK
<1>2. unused' \subseteq AccountId
  BY DEF Accounts!Create, Accounts!Delete, Accounts!Update, AccountInv, Accounts!TypeOK
<1>. DEFINE c == [pc |-> pc, id |-> i, default |-> value, wish |-> wish]
<1>3. /\ c \in [pc : Accounts!Step, id : AccountId \cup {NoAccount},
                default : {"none", "0", "1", "true", "away"}, wish : AccountId \cup {NoAccount}]
      /\ c.pc = pc /\ c.id = i /\ c.default = value /\ c.wish = wish
  BY DEF Accounts!Step
<1>4. change' = [change EXCEPT ![r] = c] /\ account' = account
  BY <1>1 DEF Accounts!Begin
<1>. HIDE DEF c
<1>5. /\ alone' \in [Change -> BOOLEAN]
      /\ \A q \in Change : alone'[q] => alone[q]
      /\ \A q \in Change \ {r} : Accounts!Active(q) => ~alone'[q] /\ ~alone'[r]
  BY <1>1 DEF Accounts!Begin, Accounts!Others, AccountInv, Accounts!TypeOK
<1>6. change'[r] = c /\ \A q \in Change \ {r} : change'[q] = change[q]
  BY <1>4 DEF AccountInv, Accounts!TypeOK
<1>7. Accounts!TypeOK'
  BY <1>2, <1>3, <1>4, <1>5 DEF AccountInv, Accounts!TypeOK
<1>8. AtWork(r)' /\ Inserts(r)'
  BY <1>1, <1>3, <1>6 DEF AtWork, Accounts!Active, Inserts
<1>9. NoAccount \notin Accounts!Rows'
  BY DEF Accounts!Rows
<1>10. Chosen(r)'
  BY <1>1, <1>3, <1>5, <1>6, <1>9 DEF Chosen, Choice, Accounts!Active
<1>. QED  BY <1>5, <1>6, <1>7, <1>8, <1>10 DEF Good, Aside

\* The later steps are of a request that is active, and leave the others alone.
LEMMA MovesGood ==
    ASSUME AccountInv, NEW r \in Change, Accounts!Active(r), Accounts!TypeOK',
           alone' = alone, \A q \in Change \ {r} : change'[q] = change[q],
           change'[r].pc # "insert", AtWork(r)' \/ OneDefault',
           Choice(r) => Choice(r)' \/ ~Accounts!Active(r)'
    PROVE  Good(r)
<1>1. Inserts(r)' /\ Aside(r)
  BY DEF Inserts, Aside
<1>2. \A q \in Change \ {r} : Accounts!Active(q) => ~alone'[q]
  BY DEF AccountInv, Chosen
<1>3. \A q \in Change \ {r} : Accounts!Active(q)' => Accounts!Active(q)
  BY DEF Accounts!Active
<1>4. Chosen(r)'
  BY <1>3 DEF AccountInv, Chosen
<1>. QED  BY <1>1, <1>2, <1>4 DEF Good

LEMMA InsertGood == ASSUME NoAccount \notin AccountId, AccountInv, NEW r \in Change,
                           Accounts!Insert(r)
                    PROVE  Good(r)
<1>1. /\ Accounts!Active(r) /\ alone' = alone /\ unused' = unused
      /\ "count" \in Accounts!Step /\ Accounts!Goto(r, "count")
      /\ change[r].default \in {"0", "1"} /\ change[r].wish = NoAccount
  BY DEF Accounts!Insert, Accounts!Active, Accounts!Step, AccountInv, Inserts
<1>2. account' \in [AccountId -> {"absent", "0", "1"}]
  BY <1>1 DEF Accounts!Insert, AccountInv, Accounts!TypeOK
<1>3. Accounts!TypeOK'
  BY <1>1, <1>2, GotoMoves DEF AccountInv, Accounts!TypeOK
<1>4. AtWork(r)' /\ Choice(r)'
  BY <1>1, GotoMoves DEF AccountInv, AtWork, Accounts!Active, Choice, Accounts!Rows
<1>. QED  BY <1>1, <1>3, <1>4, GotoMoves, MovesGood DEF AccountInv

LEMMA RemoveGood == ASSUME AccountInv, NEW r \in Change, Accounts!Remove(r)
                    PROVE  Good(r)
<1>1. /\ Accounts!Active(r) /\ alone' = alone /\ unused' = unused
      /\ "count" \in Accounts!Step /\ Accounts!Goto(r, "count")
  BY DEF Accounts!Remove, Accounts!Active, Accounts!Step
<1>2. /\ account' \in [AccountId -> {"absent", "0", "1"}]
      /\ \A i \in AccountId : account[i] = "absent" => account'[i] = "absent"
  BY DEF Accounts!Remove, AccountInv, Accounts!TypeOK
<1>3. Accounts!TypeOK'
  BY <1>1, <1>2, GotoMoves DEF AccountInv, Accounts!TypeOK
<1>4. AtWork(r)' /\ (Choice(r) => Choice(r)')
  BY <1>1, <1>2, GotoMoves DEF AccountInv, AtWork, Accounts!Active, Accounts!Remove,
       Choice, Accounts!Rows
<1>. QED  BY <1>1, <1>3, <1>4, GotoMoves, MovesGood DEF AccountInv

LEMMA UnsetFacts ==
    ASSUME Accounts!TypeOK, Accounts!Unset
    PROVE  /\ account' \in [AccountId -> {"absent", "0", "1"}]
           /\ Accounts!Rows' = Accounts!Rows
           /\ Accounts!Defaults' = {}
BY DEF Accounts!TypeOK, Accounts!Unset, Accounts!Rows, Accounts!Defaults

LEMMA ClearGood == ASSUME AccountInv, NEW r \in Change, Accounts!Clear(r)
                   PROVE  Good(r)
<1>1. /\ Accounts!Active(r) /\ alone' = alone /\ unused' = unused
      /\ "write" \in Accounts!Step /\ Accounts!Goto(r, "write") /\ Accounts!Unset
      /\ change[r].pc = "clear"
  BY DEF Accounts!Clear, Accounts!Active, Accounts!Step
<1>2. Accounts!TypeOK'
  BY <1>1, UnsetFacts, GotoMoves DEF AccountInv, Accounts!TypeOK
<1>3. AtWork(r)' /\ (Choice(r) => Choice(r)')
  BY <1>1, UnsetFacts, GotoMoves DEF AccountInv, AtWork, Accounts!Active, Choice
<1>. QED  BY <1>1, <1>2, <1>3, GotoMoves, MovesGood DEF AccountInv

LEMMA UnsetAllGood == ASSUME AccountInv, NEW r \in Change, Accounts!UnsetAll(r)
                      PROVE  Good(r)
<1>1. /\ Accounts!Active(r) /\ alone' = alone /\ unused' = unused
      /\ "list" \in Accounts!Step /\ Accounts!Goto(r, "list") /\ Accounts!Unset
      /\ change[r].pc = "unset"
  BY DEF Accounts!UnsetAll, Accounts!Active, Accounts!Step
<1>2. Accounts!TypeOK'
  BY <1>1, UnsetFacts, GotoMoves DEF AccountInv, Accounts!TypeOK
<1>3. AtWork(r)' /\ (Choice(r) => Choice(r)')
  BY <1>1, UnsetFacts, GotoMoves DEF AccountInv, AtWork, Accounts!Active, Choice
<1>. QED  BY <1>1, <1>2, <1>3, GotoMoves, MovesGood DEF AccountInv

LEMMA WriteGood == ASSUME AccountInv, NEW r \in Change, Accounts!Write(r)
                   PROVE  Good(r)
<1>1. /\ Accounts!Active(r) /\ alone' = alone /\ unused' = unused
      /\ "count" \in Accounts!Step /\ Accounts!Goto(r, "count")
      /\ change[r].pc = "write"
  BY DEF Accounts!Write, Accounts!Active, Accounts!Step
<1>2. account' \in [AccountId -> {"absent", "0", "1"}]
  BY DEF Accounts!Write, AccountInv, Accounts!TypeOK
<1>3. Accounts!Rows' \subseteq Accounts!Rows
  BY <1>2 DEF Accounts!Write, AccountInv, Accounts!TypeOK, Accounts!Rows
<1>4. change[r].id \in Accounts!Rows /\ change[r].default = "1" /\ Accounts!Defaults = {} =>
        Accounts!Defaults' = {change[r].id}
  BY <1>2, <1>3 DEF Accounts!Write, AccountInv, Accounts!TypeOK, Accounts!Rows,
       Accounts!Defaults
<1>5. Accounts!TypeOK'
  BY <1>1, <1>2, GotoMoves DEF AccountInv, Accounts!TypeOK
<1>6. AtWork(r)' /\ (Choice(r) => Choice(r)')
  BY <1>1, <1>3, <1>4, GotoMoves DEF AccountInv, AtWork, Accounts!Active, Choice
<1>. QED  BY <1>1, <1>5, <1>6, GotoMoves, MovesGood DEF AccountInv

LEMMA CountGood == ASSUME AccountInv, NEW r \in Change, Accounts!Count(r)
                   PROVE  Good(r)
<1>1. /\ Accounts!Active(r) /\ UNCHANGED <<account, alone, unused>>
      /\ "done" \in Accounts!Step /\ "unset" \in Accounts!Step
      /\ change[r].pc = "count"
  BY DEF Accounts!Count, Accounts!Active, Accounts!Step
<1>2. Accounts!Rows' = Accounts!Rows /\ Accounts!Defaults' = Accounts!Defaults
  BY <1>1 DEF Accounts!Rows, Accounts!Defaults
<1>3. CASE Cardinality(Accounts!Defaults) = 1
  <2>1. Accounts!Goto(r, "done")
    BY <1>3, SameCardinality DEF Accounts!Count
  <2>2. Accounts!TypeOK' /\ ~Accounts!Active(r)' /\ OneDefault'
    BY <1>1, <1>2, <1>3, <2>1, GotoMoves DEF AccountInv, Accounts!TypeOK, Accounts!Active,
         OneDefault
  <2>. QED  BY <1>1, <2>1, <2>2, GotoMoves, MovesGood DEF AccountInv
<1>4. CASE Cardinality(Accounts!Defaults) # 1
  <2>1. Accounts!Goto(r, "unset")
    BY <1>4, SameCardinality DEF Accounts!Count
  <2>2. Accounts!TypeOK' /\ AtWork(r)'
    BY <1>1, <2>1, GotoMoves DEF AccountInv, Accounts!TypeOK, AtWork, Accounts!Active
  <2>3. Choice(r) => change[r].wish \notin Accounts!Rows
    BY <1>1, <1>4, FS_Singleton DEF Choice
  <2>4. Choice(r) => Choice(r)'
    BY <1>1, <1>2, <2>1, <2>3, GotoMoves DEF AccountInv, Choice
  <2>. QED  BY <1>1, <2>1, <2>2, <2>4, GotoMoves, MovesGood DEF AccountInv
<1>. QED  BY <1>3, <1>4

LEMMA ListGood == ASSUME AccountInv, NEW r \in Change, Accounts!List(r)
                  PROVE  Good(r)
<1>1. /\ Accounts!Active(r) /\ UNCHANGED <<account, alone, unused>>
      /\ "done" \in Accounts!Step /\ change[r].pc = "list"
  BY DEF Accounts!List, Accounts!Active, Accounts!Step
<1>2. Accounts!Rows' = Accounts!Rows
  BY <1>1 DEF Accounts!Rows
<1>3. CASE Accounts!Rows = {} /\ Accounts!Goto(r, "done")
  <2>1. Accounts!TypeOK' /\ ~Accounts!Active(r)' /\ OneDefault'
    BY <1>1, <1>2, <1>3, GotoMoves DEF AccountInv, Accounts!TypeOK, Accounts!Active,
         OneDefault
  <2>. QED  BY <1>1, <1>3, <2>1, GotoMoves, MovesGood DEF AccountInv
<1>4. ASSUME NEW i \in Accounts!Rows,
             change' = [change EXCEPT ![r].pc = "clear", ![r].id = i, ![r].default = "1"]
      PROVE  Good(r)
  <2>1. i \in AccountId /\ "clear" \in Accounts!Step
    BY DEF Accounts!Rows, Accounts!Step
  <2>2. /\ change' \in [Change -> [pc : Accounts!Step, id : AccountId \cup {NoAccount},
                                   default : {"none", "0", "1", "true", "away"},
                                   wish : AccountId \cup {NoAccount}]]
        /\ change'[r].pc = "clear" /\ change'[r].wish = change[r].wish
        /\ \A q \in Change \ {r} : change'[q] = change[q]
    BY <1>4, <2>1, ZenonT(60) DEF AccountInv, Accounts!TypeOK
  <2>3. Accounts!TypeOK' /\ AtWork(r)'
    BY <1>1, <2>2 DEF AccountInv, Accounts!TypeOK, AtWork, Accounts!Active
  <2>4. Choice(r) => Choice(r)'
    BY <1>1, <1>2, <2>2 DEF Choice
  <2>. QED  BY <1>1, <2>2, <2>3, <2>4, MovesGood
<1>. QED  BY <1>3, <1>4 DEF Accounts!List

LEMMA FailGood == ASSUME AccountInv, NEW r \in Change, Accounts!Fail(r)
                  PROVE  Good(r)
<1>1. /\ Accounts!Active(r) /\ UNCHANGED <<account, alone, unused>>
      /\ "failed" \in Accounts!Step /\ Accounts!Goto(r, "failed")
  BY DEF Accounts!Fail, Accounts!Step
<1>2. Accounts!TypeOK' /\ ~Accounts!Active(r)' /\ AtWork(r)'
  BY <1>1, GotoMoves DEF AccountInv, Accounts!TypeOK, Accounts!Active, AtWork
<1>. QED  BY <1>1, <1>2, GotoMoves, MovesGood DEF AccountInv

LEMMA GoodIsEnough == ASSUME AccountInv, NEW r \in Change, Good(r)
                      PROVE  AccountInv'
<1>1. Watched'
  BY DEF Good, Watched
<1>2. ASSUME NEW q \in Change \ {r}
      PROVE  Inserts(q)' /\ Chosen(q)'
  <2>1. Inserts(q)'
    BY DEF AccountInv, Inserts, Good, Aside
  <2>2. Accounts!Active(q)' => Accounts!Active(q)
    BY DEF Good, Aside, Accounts!Active
  <2>3. Chosen(q)'
    BY <2>2 DEF Good, Chosen
  <2>. QED  BY <2>1, <2>3
<1>. QED  BY <1>1, <1>2 DEF Good, AccountInv

LEMMA AccountStep == ASSUME NoAccount \notin AccountId, AccountInv, [Next]_vars
                     PROVE  AccountInv'
<1>1. CASE UNCHANGED accounts
  BY <1>1 DEF accounts, AccountInv, Accounts!TypeOK, Watched, OneDefault, AtWork, Inserts,
       Chosen, Choice, Accounts!Rows, Accounts!Defaults, Accounts!Active
<1>2. ASSUME NEW r \in Change,
             \/ Accounts!Create(r) \/ Accounts!Delete(r) \/ Accounts!Update(r)
             \/ Accounts!Continue(r) \/ Accounts!Fail(r)
      PROVE  AccountInv'
  <2>1. Good(r)
    BY <1>2, BeginGood, InsertGood, RemoveGood, ClearGood, WriteGood, CountGood,
       UnsetAllGood, ListGood, FailGood DEF Accounts!Continue
  <2>. QED  BY <2>1, GoodIsEnough
<1>3. UNCHANGED accounts \/ Accounts!Next
  BY DEF Next, vars, PoolOnly, KeepOnly, UsersOnly, CallsOnly
<1>. QED  BY <1>1, <1>2, <1>3 DEF Accounts!Next

LEMMA AccountInit == Init => AccountInv
<1>. SUFFICES ASSUME Accounts!Init
              PROVE  AccountInv
  BY DEF Init
<1>1. \A r \in Change : change[r].pc = "idle"
  BY DEF Accounts!Init
<1>2. Accounts!TypeOK
  BY DEF Accounts!Init, Accounts!TypeOK, Accounts!Step
<1>3. Watched
  BY SameCardinality DEF Accounts!Init, Watched, OneDefault
<1>. QED  BY <1>1, <1>2, <1>3 DEF AccountInv, Inserts, Chosen, Accounts!Active

LEMMA AccountHolds == Spec => []AccountInv
BY AccountInit, AccountStep, ServiceAssumption, PTL DEF Spec

(* Account: when nothing is under way and nothing has failed, a customer   *)
(* with accounts has one default: whoever ends has seen one, and whatever  *)
(* destroys it looks again (account.ts:54-70).                             *)
THEOREM DefaultWhenQuiet == Spec => []QuietHasDefault
<1>1. AccountInv => QuietHasDefault
  BY SameCardinality DEF AccountInv, Watched, OneDefault, AtWork, QuietHasDefault,
       Accounts!QuietHasDefault
<1>. QED  BY <1>1, AccountHolds, PTL

(* Account: a customer who makes an account the default while nobody else  *)
(* changes anything gets that account, and no repair chooses another       *)
(* (account.ts:41-44, 54-66).                                              *)
THEOREM ChoiceIsKept == Spec => ChosenIsDefault
<1>. DEFINE Kept == \A r \in Change :
               /\ change[r].pc = "count" /\ change'[r].pc = "done"
               /\ change[r].wish \in Accounts!Rows /\ alone[r]
               => account[change[r].wish] = "1"
<1>1. AccountInv => [Kept]_(Accounts!vars)
  BY DEF AccountInv, Chosen, Choice, Accounts!Active, Accounts!Defaults
<1>. QED  BY <1>1, AccountHolds, PTL DEF ChosenIsDefault, Accounts!ChosenIsDefault

-----------------------------------------------------------------------------
(* Types.                                                                  *)

LEMMA CallsTypes == ASSUME Calls!TypeOK, [Next]_vars
                    PROVE  Calls!TypeOK'
<1>. USE DEF Calls!TypeOK
<1>1. CASE UNCHANGED calls
  BY <1>1 DEF calls
<1>2. ASSUME NEW r \in Call, NEW pc \in {"customer", "handler", "insert", "reread", "waiting", "hanging"},
             Calls!Goto(r, pc) \/ Calls!Answer(r)
      PROVE  call' \in [Call -> [pc : {"idle", "access", "customer", "handler", "insert",
                                       "reread", "waiting", "answered", "hanging"},
                                 op : {"none"} \cup Calls!ApiOp \cup Calls!AdminOp,
                                 on : Calls!Key \cup Calls!Dev \cup {Nothing}]]
  <2>1. CASE Calls!Goto(r, pc)
    BY <2>1, ZenonT(60) DEF Calls!Goto
  <2>2. CASE Calls!Answer(r)
    <3>1. [pc |-> "answered", op |-> "none", on |-> Nothing] \in
            [pc : {"idle", "access", "customer", "handler", "insert",
                   "reread", "waiting", "answered", "hanging"},
             op : {"none"} \cup Calls!ApiOp \cup Calls!AdminOp,
             on : Calls!Key \cup Calls!Dev \cup {Nothing}]
      OBVIOUS
    <3>. QED  BY <2>2, <3>1 DEF Calls!Answer
  <2>. QED  BY <1>2, <2>1, <2>2
<1>3. ASSUME NEW r \in Call,
             \/ Calls!VerifyAccess(r) \/ Calls!MiddlewareFails(r) \/ Calls!FindFree(r)
             \/ Calls!Insert(r) \/ Calls!Reread(r) \/ Calls!FindDevice(r)
             \/ Calls!InsertToken(r) \/ Calls!CheckPassword(r) \/ Calls!DropKey(r)
             \/ Calls!DropDevice(r) \/ Calls!DropCustomer(r) \/ Calls!OneStatement(r)
             \/ Calls!HandlerFails(r) \/ Calls!Wait(r) \/ Calls!Push(r)
      PROVE  Calls!TypeOK'
  <2>1. \E pc \in {"customer", "handler", "insert", "reread", "waiting", "hanging"} :
          Calls!Goto(r, pc) \/ Calls!Answer(r)
    BY <1>3 DEF Calls!VerifyAccess, Calls!MiddlewareFails, Calls!FindFree, Calls!Insert,
         Calls!Reread, Calls!FindDevice, Calls!InsertToken, Calls!CheckPassword,
         Calls!Drop, Calls!DropKey, Calls!DropDevice, Calls!DropCustomer,
         Calls!OneStatement, Calls!HandlerFails, Calls!Wait, Calls!Push
  <2>2. /\ customer' \in BOOLEAN
        /\ keys' \subseteq Calls!Key /\ devices' \subseteq Calls!Dev
        /\ tokens' \subseteq Calls!Dev
    BY <1>3 DEF Calls!VerifyAccess, Calls!MiddlewareFails, Calls!FindFree, Calls!Insert,
         Calls!Reread, Calls!FindDevice, Calls!InsertToken, Calls!CheckPassword,
         Calls!DropKey, Calls!DropDevice, Calls!DropCustomer, Calls!OneStatement,
         Calls!HandlerFails, Calls!Wait, Calls!Push, Calls!Key, Calls!Dev, Calls!database
  <2>. QED  BY <1>2, <2>1, <2>2
<1>4. \A op : Calls!Subject(op) \subseteq Calls!Key \cup Calls!Dev \cup {Nothing}
  BY DEF Calls!Subject
<1>5. ASSUME NEW r \in Call, Calls!Arrive(r)
      PROVE  Calls!TypeOK'
  <2>1. PICK c \in [pc : {"access", "handler"}, op : Calls!ApiOp \cup Calls!AdminOp,
                    on : Calls!Key \cup Calls!Dev \cup {Nothing}] :
           call' = [call EXCEPT ![r] = c]
    BY <1>4, <1>5 DEF Calls!Arrive
  <2>. QED  BY <1>5, <2>1 DEF Calls!Arrive, Calls!database
<1>6. ASSUME NEW r \in Call, Calls!VerifyCustomer(r)
      PROVE  Calls!TypeOK'
  <2>1. \/ Calls!Answer(r)
        \/ \E x \in Calls!Key \cup Calls!Dev \cup {Nothing} :
             call' = [call EXCEPT ![r].pc = "handler", ![r].on = x]
    BY <1>4, <1>6 DEF Calls!VerifyCustomer
  <2>2. ASSUME NEW x \in Calls!Key \cup Calls!Dev \cup {Nothing},
               call' = [call EXCEPT ![r].pc = "handler", ![r].on = x]
        PROVE  call' \in [Call -> [pc : {"idle", "access", "customer", "handler", "insert",
                                         "reread", "waiting", "answered", "hanging"},
                                   op : {"none"} \cup Calls!ApiOp \cup Calls!AdminOp,
                                   on : Calls!Key \cup Calls!Dev \cup {Nothing}]]
    BY <2>2, ZenonT(60)
  <2>3. UNCHANGED Calls!database
    BY <1>6 DEF Calls!VerifyCustomer
  <2>. QED  BY <1>2, <2>1, <2>2, <2>3 DEF Calls!database
<1>7. UNCHANGED calls \/ Calls!Next
  BY DEF Next, vars, PoolOnly, KeepOnly, AccountsOnly, UsersOnly
<1>. QED  BY <1>1, <1>3, <1>5, <1>6, <1>7 DEF Calls!Next, Calls!Continue, Calls!Handle

(* The variables of every part have their types, in every behaviour of the *)
(* service.                                                                *)
THEOREM TypeCorrect == Spec => []TypeOK
<1>. DEFINE Parts == /\ PoolP!PoolInv /\ KeepP!Base /\ Accounts!TypeOK
                     /\ UsersP!LoginInv /\ UsersP!Kept /\ Calls!TypeOK
<1>1. Init => Parts
  <2>. SUFFICES ASSUME Init
                PROVE  Parts
    OBVIOUS
  <2>1. PoolP!PoolInv /\ KeepP!Base /\ UsersP!LoginInv /\ UsersP!Kept
    BY PoolP!PoolInit, KeepP!BaseInit, UsersP!LoginInit, UsersP!KeptInit, SamePool,
       SameKeep, SameUsers, ServiceAssumption DEF Init, KeepP!Parameters
  <2>2. Accounts!TypeOK
    BY AccountInit DEF AccountInv
  <2>3. Calls!TypeOK
    BY DEF Init, Calls!Init, Calls!TypeOK, Calls!Key, Calls!Dev
  <2>. QED  BY <2>1, <2>2, <2>3
<1>2. Parts /\ AccountInv /\ [Next]_vars => Parts' /\ AccountInv'
  <2>. SUFFICES ASSUME Parts, AccountInv, [Next]_vars
                PROVE  Parts' /\ AccountInv'
    OBVIOUS
  <2>1. PoolP!PoolInv' /\ KeepP!Base'
    BY PoolP!PoolStep, KeepP!BaseStep, StepOfPool, StepOfKeep, ServiceAssumption
       DEF KeepP!Parameters
  <2>2. UsersP!LoginInv' /\ UsersP!Kept'
    BY UsersP!LoginStep, UsersP!KeptStep, StepOfUsers, ServiceAssumption
       DEF UsersP!Id, Users!Id
  <2>3. AccountInv'
    BY AccountStep, ServiceAssumption
  <2>4. Calls!TypeOK'
    BY CallsTypes
  <2>. QED  BY <2>1, <2>2, <2>3, <2>4 DEF AccountInv
<1>3. Parts => TypeOK
  BY UsersP!KeptTypes, SamePool, SameKeep, SameUsers DEF TypeOK, PoolP!PoolInv, KeepP!Base
<1>. HIDE DEF Parts
<1>. QED  BY <1>1, <1>2, <1>3, AccountInit, PTL DEF Spec
=============================================================================
