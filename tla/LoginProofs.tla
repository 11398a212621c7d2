----------------------------- MODULE LoginProofs -----------------------------
(* Theorems about Login, for any number of requests about the address.     *)
EXTENDS Login, TLAPS

ClientState == [pc : Step, op : {"none"} \cup Anybody \cup User \cup Admin,
                user : Id \cup {Nobody}, secret : Client \cup {Nobody}]
CustomerRow == [id : Id \cup {Nobody}, password : Id \cup {Nobody},
                twofa : Client \cup {Nobody}, status : {0, 1}]

Typed == /\ client \in [Client -> ClientState]
         /\ session \in [Client -> Id \cup {Nobody}]
         /\ customer \in CustomerRow
         /\ deleted \subseteq Id

\* What is known of a request from where it stands: the steps that only some
\* operations reach; the secret it has verified; the row it has inserted,
\* which may be deleted by now; a session is given by the last step.
Known(r) ==
    /\ client[r].pc = "password" => client[r].op = "changePassword"
    /\ client[r].pc \in {"store", "remove"} => client[r].op = "enable"
    /\ client[r].pc = "unset" => client[r].op = "reset"
    /\ client[r].pc = "reread" => client[r].op \in {"register", "changePassword"}
    /\ client[r].pc = "reread by id" => client[r].op \in {"enable", "disable", "reset"}
    /\ client[r].pc = "store" => client[r].secret \in proved
    /\ At(r, "reread", "register") => customer.id = r \/ r \in deleted
    /\ session[r] # Nobody =>
         /\ client[r].pc = "done"
         /\ client[r].op = "register" => session[r] = r \/ r \in deleted
         /\ client[r].op \in {"enable", "disable", "reset"} => session[r] = client[r].user

LoginInv == Typed /\ SecretProved /\ \A r \in Client : Known(r)

-----------------------------------------------------------------------------
\* What a step of r leaves to the other requests.
Frame(r) == /\ \A q \in Client \ {r} : client'[q] = client[q] /\ session'[q] = session[q]
            /\ proved \subseteq proved'
            /\ deleted \subseteq deleted'
            /\ \A q \in Client : customer.id = q => customer'.id = q \/ q \in deleted'

LEMMA OthersKnown ==
    ASSUME NEW r \in Client, Frame(r), NEW q \in Client \ {r}, Known(q)
    PROVE  Known(q)'
BY DEF Frame, Known, At

\* Goto moves one request and nothing else.
Moved(r, pc) == /\ client' \in [Client -> ClientState]
                /\ client'[r].pc = pc
                /\ client'[r].op = client[r].op
                /\ client'[r].user = client[r].user
                /\ client'[r].secret = client[r].secret
                /\ \A q \in Client \ {r} : client'[q] = client[q]

LEMMA GotoMoves ==
    ASSUME Typed, NEW r \in Client, NEW pc \in Step, Goto(r, pc)
    PROVE  Moved(r, pc)
BY ZenonT(60) DEF Goto, Moved, Typed, ClientState

Good(r) == Typed' /\ SecretProved' /\ Frame(r) /\ Known(r)'

\* What a request must bring with it to a step.
Ready(r, pc) ==
    /\ pc = "password" => client[r].op = "changePassword"
    /\ pc \in {"store", "remove"} => client[r].op = "enable"
    /\ pc = "unset" => client[r].op = "reset"
    /\ pc = "reread" => client[r].op \in {"register", "changePassword"}
    /\ pc = "reread by id" => client[r].op \in {"enable", "disable", "reset"}
    /\ pc = "store" => client[r].secret \in proved'
    /\ pc = "reread" /\ client[r].op = "register" => customer'.id = r \/ r \in deleted'

\* What the step may do to the tables.
Harmless == /\ customer' \in CustomerRow
            /\ customer'.twofa # Nobody => customer'.twofa \in proved'
            /\ proved \subseteq proved'
            /\ deleted \subseteq deleted' /\ deleted' \subseteq Id
            /\ \A q \in Client : customer.id = q => customer'.id = q \/ q \in deleted'
            /\ session' = session

\* The steps that anybody may go to.
Plain == {"refused", "failed", "done", "insert", "insert param", "update param"}

LEMMA PlainSteps == ASSUME NEW r, NEW pc \in Plain
                    PROVE  pc \in Step /\ Ready(r, pc)
BY DEF Plain, Step, Ended, Ready

LEMMA MovesWell ==
    ASSUME Typed, NEW r \in Client, Known(r), client[r].pc # "done",
           NEW pc \in Step, Moved(r, pc), Ready(r, pc), Harmless
    PROVE  Good(r)
BY DEF Typed, SecretProved, Known, Moved, Ready, Harmless, Good, Frame, At

LEMMA QuietIsHarmless ==
    ASSUME LoginInv, UNCHANGED <<customer, deleted, proved, session>>
    PROVE  Harmless
BY DEF LoginInv, Typed, SecretProved, Harmless

-----------------------------------------------------------------------------
\* The steps that change no table but the parameter.
LEMMA QuietSteps ==
    ASSUME LoginInv, NEW r \in Client,
           FindFree(r) \/ CheckOld(r) \/ AnswerLate(r) \/ Select(r) \/ WriteParam(r)
             \/ RemoveParam(r) \/ Fail(r)
    PROVE  Good(r)
<1>. USE DEF At, Quiet
<1>1. PICK pc \in Step : Goto(r, pc) /\ Ready(r, pc)
  <2>1. CASE FindFree(r)
    <3>1. Goto(r, "refused") \/ Goto(r, "insert")
      BY <2>1 DEF FindFree
    <3>. QED  BY <3>1, PlainSteps DEF Plain
  <2>2. CASE CheckOld(r)
    <3>1. Goto(r, "refused") \/ Goto(r, "password")
      BY <2>2 DEF CheckOld
    <3>2. "password" \in Step /\ Ready(r, "password")
      BY <2>2 DEF CheckOld, Step, Ready
    <3>. QED  BY <3>1, <3>2, PlainSteps DEF Plain
  <2>3. CASE AnswerLate(r) \/ Fail(r)
    <3>1. Goto(r, "refused") \/ Goto(r, "failed")
      BY <2>3 DEF AnswerLate, Fail
    <3>. QED  BY <3>1, PlainSteps DEF Plain
  <2>4. CASE Select(r) \/ WriteParam(r)
    <3>1. \/ Goto(r, "insert param") \/ Goto(r, "update param")
          \/ Goto(r, "failed") \/ Goto(r, "done")
      BY <2>4 DEF Select, WriteParam
    <3>. QED  BY <3>1, PlainSteps DEF Plain
  <2>5. CASE RemoveParam(r)
    <3>1. \/ Goto(r, "done")
          \/ Goto(r, "reread by id") /\ client[r].op = "enable"
      BY <2>5 DEF RemoveParam, LoginInv, Known
    <3>2. /\ "reread by id" \in Step
          /\ client[r].op = "enable" => Ready(r, "reread by id")
      BY DEF Step, Ready
    <3>. QED  BY <3>1, <3>2, PlainSteps DEF Plain
  <2>. QED  BY <2>1, <2>2, <2>3, <2>4, <2>5
<1>2. UNCHANGED <<customer, deleted, proved, session>> /\ client[r].pc # "done"
  BY DEF FindFree, CheckOld, AnswerLate, Select, WriteParam, RemoveParam, Fail, Ended
<1>. QED  BY <1>1, <1>2, GotoMoves, MovesWell, QuietIsHarmless DEF LoginInv

LEMMA StartGood == ASSUME LoginInv, NEW r \in Client, Start(r)
                   PROVE  Good(r)
<1>1. PICK c \in ClientState : c.pc = "find" /\ client' = [client EXCEPT ![r] = c]
  BY DEF Start, LoginInv, Typed, ClientState, CustomerRow, Registered, Exists, Step, Quiet
<1>2. UNCHANGED <<customer, deleted, proved, session>> /\ client[r].pc = "idle"
  BY DEF Start, Quiet
<1>. QED  BY <1>1, <1>2 DEF LoginInv, Typed, SecretProved, Known, Good, Frame, At

LEMMA FindUserGood == ASSUME LoginInv, NEW r \in Client, FindUser(r)
                      PROVE  Good(r)
<1>1. PICK pc \in {"unset", "failed"} :
         client' = [client EXCEPT ![r].pc = pc, ![r].user = customer.id]
  BY DEF FindUser
<1>2. client \in [Client -> ClientState] /\ customer.id \in Id \cup {Nobody} /\ pc \in Step
  BY DEF LoginInv, Typed, CustomerRow, Step, Ended
<1>3. /\ client' \in [Client -> ClientState]
      /\ client'[r].pc = pc
      /\ client'[r].op = client[r].op
      /\ \A q \in Client \ {r} : client'[q] = client[q]
  BY <1>1, <1>2, ZenonT(60) DEF ClientState
<1>4. /\ UNCHANGED <<customer, deleted, proved, session>>
      /\ client[r].pc = "find" /\ client[r].op = "reset"
  BY DEF FindUser, Quiet, At
<1>. QED  BY <1>3, <1>4 DEF LoginInv, Typed, SecretProved, Known, Good, Frame, At

\* A row is inserted only where there is none: it takes nobody's place.
LEMMA InsertUserGood ==
    ASSUME Nobody \notin Id, LoginInv, NEW r \in Client, InsertUser(r)
    PROVE  Good(r)
<1>1. PICK pc \in Step : Goto(r, pc) /\ Ready(r, pc)
  <2>1. \/ Goto(r, "failed") \/ Goto(r, "done")
        \/ Goto(r, "reread") /\ client[r].op = "register" /\ customer'.id = r
    BY DEF InsertUser
  <2>2. /\ "reread" \in Step
        /\ client[r].op = "register" /\ customer'.id = r => Ready(r, "reread")
    BY DEF Step, Ready
  <2>. QED  BY <2>1, <2>2, PlainSteps DEF Plain
<1>2. Harmless
  BY DEF InsertUser, Harmless, LoginInv, Typed, CustomerRow, SecretProved, Exists, Id
<1>. QED  BY <1>1, <1>2, GotoMoves, MovesWell DEF LoginInv, InsertUser

LEMMA UpdatePasswordGood == ASSUME LoginInv, NEW r \in Client, UpdatePassword(r)
                            PROVE  Good(r)
<1>1. Goto(r, "reread") /\ Ready(r, "reread")
  BY DEF UpdatePassword, Ready, LoginInv, Known
<1>2. Harmless
  BY DEF UpdatePassword, Harmless, LoginInv, Typed, CustomerRow, SecretProved, Id
<1>. QED  BY <1>1, <1>2, GotoMoves, MovesWell DEF LoginInv, UpdatePassword, Step

LEMMA DisableGood == ASSUME LoginInv, NEW r \in Client, Disable(r)
                     PROVE  Good(r)
<1>1. Goto(r, "reread by id") /\ Ready(r, "reread by id")
  BY DEF Disable, Ready, LoginInv, Known, At
<1>2. Harmless
  BY DEF Disable, Harmless, LoginInv, Typed, CustomerRow, SecretProved
<1>. QED  BY <1>1, <1>2, GotoMoves, MovesWell DEF LoginInv, Disable, Step, At

LEMMA DeleteUserGood == ASSUME LoginInv, NEW r \in Client, DeleteUser(r)
                        PROVE  Good(r)
<1>1. PICK pc \in Step : Goto(r, pc) /\ Ready(r, pc)
  <2>1. Goto(r, "failed") \/ Goto(r, "done")
    BY DEF DeleteUser
  <2>. QED  BY <2>1, PlainSteps DEF Plain
<1>2. Harmless
  BY DEF DeleteUser, Harmless, LoginInv, Typed, CustomerRow, SecretProved, NoRow,
       Registered, Exists, Id
<1>. QED  BY <1>1, <1>2, GotoMoves, MovesWell DEF LoginInv, DeleteUser, At

\* The secret that is stored is the one that was verified.
LEMMA VerifyGood == ASSUME LoginInv, NEW r \in Client, Verify(r)
                    PROVE  Good(r)
<1>1. PICK pc \in Step : Goto(r, pc) /\ Ready(r, pc)
  BY DEF Verify, Step, Ended, Ready, At
<1>2. Harmless
  BY DEF Verify, Harmless, LoginInv, Typed, SecretProved
<1>. QED  BY <1>1, <1>2, GotoMoves, MovesWell DEF LoginInv, Verify, At

LEMMA StoreSecretGood == ASSUME LoginInv, NEW r \in Client, StoreSecret(r)
                         PROVE  Good(r)
<1>1. Goto(r, "remove") /\ Ready(r, "remove")
  BY DEF StoreSecret, Ready, LoginInv, Known
<1>2. client[r].secret \in Client \cup {Nobody}
  BY DEF LoginInv, Typed, ClientState
<1>3. Harmless
  BY <1>2 DEF StoreSecret, Harmless, LoginInv, Typed, CustomerRow, SecretProved, Known
<1>. QED  BY <1>1, <1>3, GotoMoves, MovesWell DEF LoginInv, StoreSecret, Step

\* The steps that may give a session.
LEMMA RereadGood == ASSUME LoginInv, NEW r \in Client, Reread(r)
                    PROVE  Good(r)
<1>1. PICK pc \in {"done", "failed"} : Moved(r, pc) /\ (pc = "done" <=> Exists)
  BY GotoMoves DEF Reread, LoginInv, Step, Ended
<1>. QED  BY <1>1 DEF Reread, LoginInv, Typed, CustomerRow, SecretProved, Known, Moved,
                      Good, Frame, At, Exists

LEMMA RereadByIdGood == ASSUME LoginInv, NEW r \in Client, RereadById(r)
                        PROVE  Good(r)
<1>1. PICK pc \in {"done", "failed"} :
         Moved(r, pc) /\ (pc = "done" <=> (Exists /\ customer.id = client[r].user))
  BY GotoMoves DEF RereadById, LoginInv, Step, Ended
<1>. QED  BY <1>1 DEF RereadById, LoginInv, Typed, CustomerRow, SecretProved, Known, Moved,
                      Good, Frame, At, Exists

LEMMA LogInGood == ASSUME LoginInv, NEW r \in Client, LogIn(r)
                   PROVE  Good(r)
<1>1. PICK pc \in {"done", "refused", "delayed"} :
         Moved(r, pc) /\ (session' = session \/ pc = "done")
  BY GotoMoves DEF LogIn, LoginInv, Step, Ended
<1>. QED  BY <1>1 DEF LogIn, LoginInv, Typed, CustomerRow, SecretProved, Known, Moved,
                      Good, Frame, At, Exists

-----------------------------------------------------------------------------
LEMMA LoginStep == ASSUME Nobody \notin Id, LoginInv, [Next]_vars
                   PROVE  LoginInv'
<1>1. CASE UNCHANGED vars
  BY <1>1 DEF vars, LoginInv, Typed, SecretProved, Known, At
<1>2. ASSUME NEW r \in Client, Good(r)
      PROVE  LoginInv'
  BY <1>2, OthersKnown DEF Good, LoginInv
<1>3. ASSUME NEW r \in Client,
             \/ Start(r) \/ FindFree(r) \/ InsertUser(r) \/ Reread(r) \/ RereadById(r)
             \/ CheckOld(r) \/ UpdatePassword(r) \/ LogIn(r) \/ AnswerLate(r)
             \/ Select(r) \/ WriteParam(r) \/ Verify(r) \/ StoreSecret(r)
             \/ RemoveParam(r) \/ FindUser(r) \/ Disable(r) \/ DeleteUser(r) \/ Fail(r)
      PROVE  Good(r)
  BY <1>3, QuietSteps, StartGood, InsertUserGood, RereadGood, RereadByIdGood,
     UpdatePasswordGood, LogInGood, VerifyGood, StoreSecretGood, FindUserGood,
     DisableGood, DeleteUserGood
<1>. QED  BY <1>1, <1>2, <1>3 DEF Next

LEMMA LoginInit == ASSUME Init
                   PROVE  LoginInv
<1>1. customer \in CustomerRow /\ customer.twofa = Nobody
  BY DEF Init, CustomerRow, NoRow, Id
<1>2. client \in [Client -> ClientState] /\ \A r \in Client : client[r].pc = "idle"
  BY DEF Init, ClientState, Step
<1>3. session \in [Client -> Id \cup {Nobody}] /\ \A r \in Client : session[r] = Nobody
  BY DEF Init
<1>. QED  BY <1>1, <1>2, <1>3 DEF Init, LoginInv, Typed, SecretProved, Known, At

LEMMA LoginHolds == LoginInv => SecretProved /\ SessionOfUser
BY DEF LoginInv, Known, SessionOfUser

-----------------------------------------------------------------------------
\* The types that the rest does not need.  Who enables has typed a token of
\* some secret.
Kept == /\ twofaTemp \in [Id -> Client \cup {Nobody}]
        /\ proved \subseteq Client
        /\ badLogins \in Nat
        /\ \A r \in Client : client[r].op = "enable" => client[r].secret \in Client

LEMMA KeptStep == ASSUME LoginInv, Kept, [Next]_vars
                  PROVE  Kept'
<1>1. CASE UNCHANGED vars
  BY <1>1 DEF vars, Kept
<1>2. \A r \in Client : client[r] \in ClientState
  BY DEF LoginInv, Typed
<1>3. ASSUME NEW r \in Client, NEW pc, Goto(r, pc)
      PROVE  \A q \in Client : client'[q].op = client[q].op
                               /\ client'[q].secret = client[q].secret
  BY <1>2, <1>3, ZenonT(60) DEF Goto, LoginInv, Typed, ClientState
<1>4. ASSUME NEW r \in Client, NEW pc, Goto(r, pc),
             UNCHANGED <<twofaTemp, proved>>, badLogins' \in {0, badLogins, badLogins + 1}
      PROVE  Kept'
  <2>1. badLogins' \in Nat
    BY <1>4 DEF Kept
  <2>. QED  BY <1>3, <1>4, <2>1 DEF Kept
<1>5. ASSUME NEW r \in Client, Start(r)
      PROVE  Kept'
  <2>1. PICK c \in ClientState : /\ c.op = "enable" => c.secret \in Client
                                 /\ client' = [client EXCEPT ![r] = c]
    BY <1>5 DEF Start, LoginInv, Typed, ClientState, CustomerRow, Registered, Exists,
         Step, Quiet
  <2>. QED  BY <1>5, <2>1 DEF Start, Quiet, Kept, LoginInv, Typed
<1>6. ASSUME NEW r \in Client, FindUser(r)
      PROVE  Kept'
  <2>1. \A q \in Client : client'[q].op = client[q].op
                          /\ client'[q].secret = client[q].secret
    BY <1>2, <1>6, ZenonT(60) DEF FindUser, LoginInv, Typed, ClientState
  <2>. QED  BY <1>6, <2>1 DEF FindUser, Quiet, Kept
<1>7. ASSUME NEW r \in Client, WriteParam(r) \/ RemoveParam(r)
      PROVE  Kept'
  <2>1. PICK pc : Goto(r, pc)
    BY <1>7 DEF WriteParam, RemoveParam
  <2>2. twofaTemp' \in [Id -> Client \cup {Nobody}]
    BY <1>7 DEF WriteParam, RemoveParam, Kept
  <2>. QED  BY <1>3, <1>7, <2>1, <2>2 DEF WriteParam, RemoveParam, Kept
<1>8. ASSUME NEW r \in Client, Verify(r)
      PROVE  Kept'
  <2>1. PICK pc : Goto(r, pc)
    BY <1>8 DEF Verify
  <2>2. proved' \subseteq Client
    BY <1>8 DEF Verify, At, Kept
  <2>. QED  BY <1>3, <1>8, <2>1, <2>2 DEF Verify, Kept
<1>9. ASSUME NEW r \in Client,
             \/ FindFree(r) \/ InsertUser(r) \/ Reread(r) \/ RereadById(r) \/ CheckOld(r)
             \/ UpdatePassword(r) \/ LogIn(r) \/ AnswerLate(r) \/ Select(r)
             \/ StoreSecret(r) \/ Disable(r) \/ DeleteUser(r) \/ Fail(r)
      PROVE  Kept'
  <2>1. \E pc : Goto(r, pc)
    BY <1>9 DEF FindFree, InsertUser, Reread, RereadById, CheckOld, UpdatePassword, LogIn,
         AnswerLate, Select, StoreSecret, Disable, DeleteUser, Fail
  <2>2. UNCHANGED <<twofaTemp, proved>> /\ badLogins' \in {0, badLogins, badLogins + 1}
    BY <1>9 DEF FindFree, InsertUser, Reread, RereadById, CheckOld, UpdatePassword, LogIn,
         AnswerLate, Select, StoreSecret, Disable, DeleteUser, Fail, Quiet
  <2>. QED  BY <1>4, <2>1, <2>2
<1>. QED  BY <1>1, <1>5, <1>6, <1>7, <1>8, <1>9 DEF Next

LEMMA KeptInit == Init => Kept
BY DEF Init, Kept

LEMMA KeptTypes == LoginInv /\ Kept => TypeOK
BY DEF LoginInv, Typed, Kept, TypeOK, ClientState, CustomerRow

(* The second factor of a customer is one whose token was verified, in     *)
(* whatever order secrets are drawn, confirmed and removed                 *)
(* (login.ts:209-218).                                                     *)
THEOREM SecondFactorProved == ASSUME Nobody \notin Id
                              PROVE  Spec => []SecretProved
BY LoginInit, LoginStep, LoginHolds, PTL DEF Spec

(* A registration and a change of the second factor end with a session of  *)
(* the row they are about, or with none (login.ts:22-35, 208-238).         *)
THEOREM SessionNamesUser == ASSUME Nobody \notin Id
                            PROVE  Spec => []SessionOfUser
BY LoginInit, LoginStep, LoginHolds, PTL DEF Spec
=============================================================================
