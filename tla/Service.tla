----------------------------- MODULE Service -----------------------------
(* The parts of the service that share no state with each other: one       *)
(* behaviour is a behaviour of one part, which Init picks.  The parts that *)
(* do not run stay in an initial state.                                    *)
EXTENDS Naturals, Sequences, FiniteSets

CONSTANTS
    Conn, Caller, NoConn,                                \* DbPool
    Process, TokenRow, MaxHistory, MaxDay, NoDay,        \* Retention
    AccountId, Change, NoAccount,                        \* Account
    Client, FirstRow, Nobody,                            \* Login
    Call, FirstKey, FirstDevice, Nothing                 \* Api

VARIABLES
    part,
    work, at, holds, free, queue, open, rowLock,
    useRedis, phase, job, timer, reply, verdict, today, row, entries,
    account, unused, change, alone,
    user, twofaTemp, deleted, proved, badLogins, session, client,
    customer, keys, devices, tokens, call

Pool == INSTANCE DbPool
Keep == INSTANCE Retention
Accounts == INSTANCE Account
Users == INSTANCE Login WITH customer <- user
Calls == INSTANCE Api

pool == <<work, at, holds, free, queue, open, rowLock>>
keep == <<useRedis, phase, job, timer, reply, verdict, today, row, entries>>
accounts == <<account, unused, change, alone>>
users == <<user, twofaTemp, deleted, proved, badLogins, session, client>>
calls == <<customer, keys, devices, tokens, call>>
vars == <<part, pool, keep, accounts, users, calls>>

\* NoConn, NoDay, NoAccount and Nobody name nothing; retention and horizon are days.
ASSUME ServiceAssumption == /\ NoConn \notin Conn
                            /\ NoAccount \notin AccountId
                            /\ MaxHistory \in Nat /\ MaxDay \in Nat \ {0} /\ NoDay \notin Nat
                            /\ Nobody \notin Users!Id

Init == /\ part \in {"pool", "keep", "accounts", "users", "calls"}
        /\ Pool!Init /\ Keep!Init /\ Accounts!Init /\ Users!Init /\ Calls!Init
        /\ part # "keep" => useRedis
        /\ part # "accounts" => Accounts!Rows = {}
        /\ part # "users" => user = Users!NoRow
        /\ part # "calls" => keys \cup devices = {}

PoolOnly == part = "pool" /\ UNCHANGED <<part, keep, accounts, users, calls>>
KeepOnly == part = "keep" /\ UNCHANGED <<part, pool, accounts, users, calls>>
AccountsOnly == part = "accounts" /\ UNCHANGED <<part, pool, keep, users, calls>>
UsersOnly == part = "users" /\ UNCHANGED <<part, pool, keep, accounts, calls>>
CallsOnly == part = "calls" /\ UNCHANGED <<part, pool, keep, accounts, users>>

Next == \/ PoolOnly /\ Pool!Next
        \/ KeepOnly /\ Keep!Next
        \/ AccountsOnly /\ Accounts!Next
        \/ UsersOnly /\ Users!Next
        \/ CallsOnly /\ Calls!Next

\* The fairness of DbPool, Account and Api; the others are checked without.
Spec == /\ Init /\ [][Next]_vars
        /\ \A t \in Pool!Task : WF_vars(PoolOnly /\ Pool!Proceed(t))
        /\ \A r \in Change : WF_vars(AccountsOnly /\ Accounts!Continue(r))
        /\ \A r \in Call : WF_vars(CallsOnly /\ Calls!Continue(r))

-----------------------------------------------------------------------------
(* The variables of every part have their types.                           *)
TypeOK == /\ Pool!TypeOK /\ Keep!TypeOK /\ Accounts!TypeOK
          /\ Users!TypeOK /\ Calls!TypeOK

(* DbPool: no connection is lost, lent twice or handed on with an open     *)
(* transaction (db.ts:63-69, 115-124).                                     *)
Accounted == Pool!Accounted

(* DbPool: every task ends, although transactions hold a connection while  *)
(* others queue for one (db.ts:115, token.ts:219).                         *)
EveryTaskEnds == Pool!EveryTaskEnds

(* Retention: one process at most decides that the job is its own, and who *)
(* leaves it to another is right unless that one died or was cut off       *)
(* (scheduler.ts:36-47).                                                   *)
OncePerDay == Keep!OncePerDay

(* Retention: a clean-up that succeeds has cleaned, and no settlement has  *)
(* lost its token (jobs.ts:21-25).                                         *)
CleanOrBlocked == Keep!CleanOrBlocked

(* Retention: config.ts:68, "maximum history to be kept in database tables *)
(* (journal, token, clearing)".                                            *)
HistoryBounded == Keep!HistoryBounded

(* Account: when all is quiet there is one default (account.ts:54-70).     *)
QuietHasDefault == Accounts!QuietHasDefault

(* Account: an undisturbed choice is kept (account.ts:41-44).              *)
ChosenIsDefault == Accounts!ChosenIsDefault

(* Account: the repair ends unless others undo it (account.ts:47, 64).     *)
RepairEnds == Accounts!RepairEnds

(* Login: the second factor is one whose token was verified                *)
(* (login.ts:209-218).                                                     *)
SecretProved == Users!SecretProved

(* Login: the JWT of a request names the row it is about                   *)
(* (login.ts:22-35, 208-238).                                              *)
SessionOfUser == Users!SessionOfUser

(* Api: who reaches a route is answered, or waits for a token              *)
(* (apiauth.ts:8, 28, cashapi.v1.ts:295-299).                              *)
AnsweredOrLost == Calls!AnsweredOrLost
=============================================================================
