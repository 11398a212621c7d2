------------------------------- MODULE Login -------------------------------
(* The customer row of one e-mail address and its second factor            *)
(* (business/login.ts, business/param.ts).  Passwords and 2FA secrets are  *)
(* named by the request that makes them, rows by the request that inserts  *)
(* them; a token is right or wrong for a secret.  A JWT goes on naming its *)
(* row after the row is deleted.                                           *)
EXTENDS Naturals

CONSTANTS Client,     \* requests, each made once
          FirstRow,   \* the row before the first request
          Nobody

Id == Client \cup {FirstRow}

VARIABLES customer,    \* the row with the e-mail address
          twofaTemp,   \* customer_param twofa_temp of each row
          deleted,     \* history: rows that were deleted
          proved,      \* history: secrets whose token was verified
          badLogins,   \* count of this address, on this process
          session,     \* the row each request's JWT names
          client       \* what each request does and remembers

vars == <<customer, twofaTemp, deleted, proved, badLogins, session, client>>

NoRow == [id |-> Nobody, password |-> Nobody, twofa |-> Nobody, status |-> 0]
Exists == customer.id # Nobody
Registered == IF Exists THEN deleted \cup {customer.id} ELSE deleted

Init == /\ customer \in {NoRow, [id |-> FirstRow, password |-> FirstRow,
                                 twofa |-> Nobody, status |-> 1]}
        /\ twofaTemp = [i \in Id |-> Nobody]
        /\ deleted = {}
        /\ proved = {}
        /\ badLogins = 0
        /\ session = [r \in Client |-> Nobody]
        /\ client = [r \in Client |->
                       [pc |-> "idle", op |-> "none", user |-> Nobody, secret |-> Nobody]]

Goto(r, pc) == client' = [client EXCEPT ![r].pc = pc]
At(r, pc, op) == client[r].pc = pc /\ client[r].op = op
Quiet == UNCHANGED <<customer, twofaTemp, deleted, proved, badLogins, session>>

\* The routes: unauthenticated, as the row a JWT names, or as an admin, who
\* is another customer.
Anybody == {"register", "login"}
Param == {"initialize", "dropParam"}   \* also by the routes for parameters
User == {"changePassword", "enable", "disable"} \cup Param
Admin == {"registerOther", "reset", "delete"}
\* secret: for enable, the one whose token the user has typed.
Start(r) == /\ client[r].pc = "idle"
            /\ \E op \in Anybody \cup User \cup Admin, i \in Registered \cup {Nobody},
                  s \in Client \cup {Nobody} :
                 /\ op \in User <=> i # Nobody
                 /\ op = "enable" <=> s # Nobody
                 /\ client' = [client EXCEPT ![r] =
                      [pc |-> "find", op |-> op, user |-> i, secret |-> s]]
            /\ Quiet

-----------------------------------------------------------------------------
\* verifyCaptcha: what Google says, or that it cannot be asked.
VerifyCaptcha == BOOLEAN

\* register and registerOther: look-up, captcha, insert.
FindFree(r) == /\ client[r].pc = "find"
               /\ client[r].op \in {"register", "registerOther"}
               /\ \E human \in VerifyCaptcha :
                    Goto(r, IF Exists \/ (client[r].op = "register" /\ ~human)
                            THEN "refused" ELSE "insert")
               /\ Quiet

\* email_UNIQUE rejects the second of two.
InsertUser(r) ==
    /\ client[r].pc = "insert"
    /\ \/ /\ Exists
          /\ Goto(r, "failed")
          /\ UNCHANGED customer
       \/ /\ ~Exists
          /\ Goto(r, IF client[r].op = "register" THEN "reread" ELSE "done")
          /\ customer' = [id |-> r, password |-> r, twofa |-> Nobody,
                          status |-> IF client[r].op = "register" THEN 1 ELSE 0]
    /\ UNCHANGED <<twofaTemp, deleted, proved, badLogins, session>>

\* readAndAuthenticate by address; authenticate(undefined) throws.
Reread(r) == /\ client[r].pc = "reread"
             /\ session' = [session EXCEPT ![r] = customer.id]
             /\ Goto(r, IF Exists THEN "done" ELSE "failed")
             /\ UNCHANGED <<customer, twofaTemp, deleted, proved, badLogins>>

\* Mutant: the new JWT is read by address, as after a change of password.
RereadByAddress(r) ==
    /\ client[r].pc = "reread by id"
    /\ session' = [session EXCEPT ![r] = customer.id]
    /\ Goto(r, IF Exists THEN "done" ELSE "failed")
    /\ UNCHANGED <<customer, twofaTemp, deleted, proved, badLogins>>

\* The same by id, which only finds the row it is about.
RereadById(r) == /\ client[r].pc = "reread by id"
                 /\ IF Exists /\ customer.id = client[r].user
                    THEN Goto(r, "done") /\ session' = [session EXCEPT ![r] = customer.id]
                    ELSE Goto(r, "failed") /\ UNCHANGED session
                 /\ UNCHANGED <<customer, twofaTemp, deleted, proved, badLogins>>

\* changePassword: the old password is right or not, the update is by address.
CheckOld(r) == /\ At(r, "find", "changePassword")
               /\ \E right \in BOOLEAN :
                    Goto(r, IF Exists /\ right THEN "password" ELSE "refused")
               /\ Quiet
UpdatePassword(r) ==
    /\ client[r].pc = "password"
    /\ customer' = IF Exists THEN [customer EXCEPT !.password = r, !.status = 1]
                   ELSE customer
    /\ Goto(r, "reread")
    /\ UNCHANGED <<twofaTemp, deleted, proved, badLogins, session>>

\* login: one read and its verdict.  A failure is answered after a delay that
\* its number sets; success clears the count.
LogIn(r) ==
    /\ At(r, "find", "login")
    /\ \E right \in BOOLEAN, token \in {"none", "right", "wrong"} :
         LET second == customer.twofa # Nobody IN
         \/ /\ Exists /\ right /\ second /\ token = "none"
            /\ Goto(r, "refused")
            /\ UNCHANGED <<badLogins, session, proved>>
         \/ /\ Exists /\ right /\ (second => token = "right")
            /\ Goto(r, "done")
            /\ badLogins' = 0
            /\ session' = [session EXCEPT ![r] = customer.id]
            /\ UNCHANGED proved
         \/ /\ ~Exists \/ ~right \/ (second /\ token = "wrong")
            /\ Goto(r, "delayed")
            /\ badLogins' = badLogins + 1
            /\ UNCHANGED <<session, proved>>
    /\ UNCHANGED <<customer, twofaTemp, deleted>>
AnswerLate(r) == client[r].pc = "delayed" /\ Goto(r, "refused") /\ Quiet

-----------------------------------------------------------------------------
\* initialize2FA: writeParam selects, then inserts or updates.
Select(r) == /\ At(r, "find", "initialize")
             /\ Goto(r, IF twofaTemp[client[r].user] = Nobody
                        THEN "insert param" ELSE "update param")
             /\ Quiet

\* The unique index and the foreign key reject the insert; an update of a
\* parameter that is gone changes nothing, and nobody looks.
WriteParam(r) ==
    LET i == client[r].user
        taken == twofaTemp[i] # Nobody IN
    /\ \/ /\ client[r].pc = "insert param" /\ (taken \/ customer.id # i)
          /\ Goto(r, "failed")
          /\ UNCHANGED twofaTemp
       \/ /\ client[r].pc = "insert param" /\ ~taken /\ customer.id = i
          /\ Goto(r, "done")
          /\ twofaTemp' = [twofaTemp EXCEPT ![i] = r]
       \/ /\ client[r].pc = "update param"
          /\ Goto(r, "done")
          /\ twofaTemp' = IF taken THEN [twofaTemp EXCEPT ![i] = r] ELSE twofaTemp
    /\ UNCHANGED <<customer, deleted, proved, badLogins, session>>

\* enable2FA: read, verify, store, remove, re-read.
Verify(r) == LET i == client[r].user IN
    /\ At(r, "find", "enable")
    /\ \/ /\ twofaTemp[i] = client[r].secret
          /\ proved' = proved \cup {client[r].secret}
          /\ Goto(r, "store")
       \/ /\ twofaTemp[i] # client[r].secret
          /\ Goto(r, "refused")
          /\ UNCHANGED proved
    /\ UNCHANGED <<customer, twofaTemp, deleted, badLogins, session>>

\* Mutant: the statement copies the parameter as it is by then.
StoreCurrent(r) == LET i == client[r].user IN
    /\ client[r].pc = "store"
    /\ customer' = IF customer.id = i THEN [customer EXCEPT !.twofa = twofaTemp[i]]
                   ELSE customer
    /\ Goto(r, "remove")
    /\ UNCHANGED <<twofaTemp, deleted, proved, badLogins, session>>

StoreSecret(r) ==
    /\ client[r].pc = "store"
    /\ customer' = IF customer.id = client[r].user
                   THEN [customer EXCEPT !.twofa = client[r].secret] ELSE customer
    /\ Goto(r, "remove")
    /\ UNCHANGED <<twofaTemp, deleted, proved, badLogins, session>>

RemoveParam(r) ==
    /\ client[r].pc = "remove" \/ At(r, "find", "dropParam")
    /\ twofaTemp' = [twofaTemp EXCEPT ![client[r].user] = Nobody]
    /\ Goto(r, IF client[r].op = "dropParam" THEN "done" ELSE "reread by id")
    /\ UNCHANGED <<customer, deleted, proved, badLogins, session>>

\* disable2FA starts with the update by id, reset2FAForUser finds the id first.
FindUser(r) == /\ At(r, "find", "reset")
               /\ client' = [client EXCEPT ![r].pc = IF Exists THEN "unset" ELSE "failed",
                                           ![r].user = customer.id]
               /\ Quiet
Disable(r) == /\ client[r].pc = "unset" \/ At(r, "find", "disable")
              /\ customer' = IF customer.id = client[r].user
                             THEN [customer EXCEPT !.twofa = Nobody] ELSE customer
              /\ Goto(r, "reread by id")
              /\ UNCHANGED <<twofaTemp, deleted, proved, badLogins, session>>

\* deleteUser, by address; a parameter of the row makes it fail.
DeleteUser(r) ==
    /\ At(r, "find", "delete")
    /\ \/ /\ Exists /\ twofaTemp[customer.id] # Nobody
          /\ Goto(r, "failed")
          /\ UNCHANGED <<customer, deleted>>
       \/ /\ Exists => twofaTemp[customer.id] = Nobody
          /\ Goto(r, "done")
          /\ customer' = NoRow
          /\ deleted' = Registered
    /\ UNCHANGED <<twofaTemp, proved, badLogins, session>>

\* A statement fails or the process dies; what was written stays.
Ended == {"done", "refused", "failed"}
Fail(r) == client[r].pc \notin {"idle"} \cup Ended /\ Goto(r, "failed") /\ Quiet

Next == \E r \in Client :
    \/ Start(r) \/ FindFree(r) \/ InsertUser(r) \/ Reread(r) \/ RereadById(r)
    \/ CheckOld(r) \/ UpdatePassword(r) \/ LogIn(r) \/ AnswerLate(r)
    \/ Select(r) \/ WriteParam(r) \/ Verify(r) \/ StoreSecret(r) \/ RemoveParam(r)
    \/ FindUser(r) \/ Disable(r) \/ DeleteUser(r) \/ Fail(r)

Spec == Init /\ [][Next]_vars

-----------------------------------------------------------------------------
Step == {"idle", "find", "insert", "reread", "reread by id", "password", "delayed",
         "insert param", "update param", "store", "remove", "unset"} \cup Ended
TypeOK == /\ customer \in [id : Id \cup {Nobody}, password : Id \cup {Nobody},
                           twofa : Client \cup {Nobody}, status : {0, 1}]
          /\ twofaTemp \in [Id -> Client \cup {Nobody}]
          /\ deleted \subseteq Id /\ proved \subseteq Client
          /\ badLogins \in Nat
          /\ session \in [Client -> Id \cup {Nobody}]
          /\ client \in [Client -> [pc : Step,
                op : {"none"} \cup Anybody \cup User \cup Admin,
                user : Id \cup {Nobody}, secret : Client \cup {Nobody}]]

(* A secret guards the account only when a token of this very secret was   *)
(* verified, although a new secret may be drawn and a parameter removed    *)
(* while it is confirmed; otherwise the customer is locked out             *)
(* (login.ts:209-218).                                                     *)
SecretProved == customer.twofa # Nobody => customer.twofa \in proved

(* A JWT names the row its request is about.  Two registrations of one     *)
(* address may both find it free, but who is told to be registered is      *)
(* signed in to the row with his password, unless an admin has deleted it; *)
(* who enables, disables or resets the second factor gets a JWT of the row *)
(* he meant or none, also when the address is deleted and registered anew  *)
(* while the request runs (login.ts:22-35, 208-238, create.sql:25).        *)
SessionOfUser == \A r \in Client : session[r] # Nobody =>
    /\ client[r].op = "register" => session[r] = r \/ r \in deleted
    /\ client[r].op \in {"enable", "disable", "reset"} => session[r] = client[r].user
=============================================================================
