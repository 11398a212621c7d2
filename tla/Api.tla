-------------------------------- MODULE Api --------------------------------
(* How a request of a customer is admitted and answered (app.ts,           *)
(* apiauth.ts, the routes), and what it does to API keys and devices       *)
(* (access.ts, device.ts).  The tables name each other by foreign keys;    *)
(* between two statements of a request, others delete.                     *)
EXTENDS Naturals

CONSTANTS Call,      \* requests, each made once; a call names what it inserts
          FirstKey,  \* the key and the device there may be at first
          FirstDevice,
          Nothing

Key == Call \cup {FirstKey}
Dev == Call \cup {FirstDevice}

VARIABLES customer,   \* whether the row of the customer is there
          keys,       \* customer_access
          devices,    \* customer_device
          tokens,     \* devices that own a token
          call        \* what each request does and waits for

vars == <<customer, keys, devices, tokens, call>>
database == <<customer, keys, devices, tokens>>

Init == /\ customer = TRUE
        /\ keys \in {{}, {FirstKey}} /\ devices \in {{}, {FirstDevice}} /\ tokens = {}
        /\ call = [r \in Call |-> [pc |-> "idle", op |-> "none", on |-> Nothing]]

Goto(r, pc) == call' = [call EXCEPT ![r].pc = pc]
Answer(r) == call' = [call EXCEPT ![r] = [pc |-> "answered", op |-> "none", on |-> Nothing]]
At(r, pc, ops) == call[r].pc = pc /\ call[r].op \in ops

\* Routes behind an API key, and routes behind a JWT, which is verified
\* without the database.  "report" stands for the routes of one statement,
\* "wait" is the one that waits for a token of somebody else.
ApiOp == {"register", "createToken", "report", "wait"}
AdminOp == {"newKey", "showKey", "dropKey", "editDevice", "dropDevice", "dropCustomer"}
\* The rows a request may name; Nothing is a name that no row has.
Subject(op) == CASE op = "dropKey" -> keys \cup {Nothing}
                 [] op \in {"createToken", "dropDevice"} -> devices \cup {Nothing}
                 [] OTHER -> {Nothing}

Arrive(r) ==
    /\ call[r].pc = "idle"
    /\ \/ \E op \in ApiOp, k \in keys \cup {Nothing} :
            call' = [call EXCEPT ![r] = [pc |-> "access", op |-> op, on |-> k]]
       \/ \E op \in AdminOp : \E x \in Subject(op) :
            call' = [call EXCEPT ![r] = [pc |-> "handler", op |-> op, on |-> x]]
    /\ UNCHANGED database

\* verifyApi: a key that exists, with its secret and the scope of the route.
Admitted(k) == k \in keys

\* verifyAccess, then verifyTokenApi and its like; 401 ends the request.
VerifyAccess(r) == /\ call[r].pc = "access"
                   /\ IF Admitted(call[r].on) THEN Goto(r, "customer") ELSE Answer(r)
                   /\ UNCHANGED database

\* verifyCustomer; the user may be gone with the key that was just read, and
\* a handler without a user throws.  The call goes on about some device.
VerifyCustomer(r) ==
    /\ call[r].pc = "customer"
    /\ IF customer
       THEN \E x \in Subject(call[r].op) :
              call' = [call EXCEPT ![r].pc = "handler", ![r].on = x]
       ELSE Answer(r)
    /\ UNCHANGED database

\* A statement of the middleware fails: no catch, no next(), no answer.
MiddlewareFails(r) == /\ call[r].pc \in {"access", "customer"}
                      /\ Goto(r, "hanging")
                      /\ UNCHANGED database

-----------------------------------------------------------------------------
\* register and createApiKey: is the random name free, insert, re-read.
FindFree(r) == /\ At(r, "handler", {"register", "newKey"})
               /\ Goto(r, "insert")
               /\ UNCHANGED database

\* The foreign key to the customer rejects the insert.
Insert(r) == /\ At(r, "insert", {"register", "newKey"})
             /\ \/ ~customer /\ Answer(r) /\ UNCHANGED <<keys, devices>>
                \/ /\ customer
                   /\ IF call[r].op = "newKey"
                      THEN keys' = keys \cup {r} /\ UNCHANGED devices
                      ELSE devices' = devices \cup {r} /\ UNCHANGED keys
                   /\ Goto(r, "reread")
             /\ UNCHANGED <<customer, tokens>>

Reread(r) == call[r].pc = "reread" /\ Answer(r) /\ UNCHANGED database

\* createToken: the device is looked up, and the insert names it.
FindDevice(r) == /\ At(r, "handler", {"createToken"})
                 /\ IF call[r].on \in devices THEN Goto(r, "insert") ELSE Answer(r)
                 /\ UNCHANGED database
InsertToken(r) == /\ At(r, "insert", {"createToken"})
                  /\ tokens' = IF call[r].on \in devices THEN tokens \cup {call[r].on}
                               ELSE tokens
                  /\ Answer(r)
                  /\ UNCHANGED <<customer, keys, devices>>

\* findByCustomerAndId: the password first, then the key with its secret.
\* A wrong password is answered late (Login.LogIn).
CheckPassword(r) == /\ At(r, "handler", {"showKey"})
                    /\ \E right \in BOOLEAN :
                         IF customer /\ right THEN Goto(r, "reread") ELSE Answer(r)
                    /\ UNCHANGED database

\* Routes of one statement.  A deletion that a foreign key forbids changes
\* nothing and is answered as an error.
Drop(r, op) == /\ At(r, "handler", {op})
               /\ Answer(r)
DropKey(r) == /\ Drop(r, "dropKey")
              /\ keys' = keys \ {call[r].on}
              /\ UNCHANGED <<customer, devices, tokens>>
DropDevice(r) == /\ Drop(r, "dropDevice")
                 /\ devices' = devices \ ({call[r].on} \ tokens)
                 /\ UNCHANGED <<customer, keys, tokens>>
DropCustomer(r) == /\ Drop(r, "dropCustomer")
                   /\ customer' = (customer /\ keys \cup devices # {})
                   /\ UNCHANGED <<keys, devices, tokens>>
\* Reports, and changes of columns that no guard here reads: the refname of a
\* device, which settlements show, is Reports.EditDevice.
OneStatement(r) == /\ At(r, "handler", {"report", "editDevice"})
                   /\ Answer(r)
                   /\ UNCHANGED database

\* GET /trigger/:triggercode: an unknown code is an error, and otherwise the
\* response is kept and the handler has nothing more to do.
Wait(r) == /\ At(r, "handler", {"wait"})
           /\ Goto(r, "waiting") \/ Answer(r)
           /\ UNCHANGED database
\* A phone sends a token for the code.  The code may expire and be cleaned up,
\* or another response take the place of this one, and nobody answers.
Push(r) == /\ call[r].pc = "waiting"
           /\ Answer(r)
           /\ UNCHANGED database

\* Mutant: a route without catch.
FailsUncaught(r) == /\ call[r].pc \in {"handler", "insert", "reread"}
                    /\ Goto(r, "hanging")
                    /\ UNCHANGED database
\* A statement of the handler fails: catch, next(err), 500 or 403.
HandlerFails(r) == /\ call[r].pc \in {"handler", "insert", "reread"}
                   /\ Answer(r)
                   /\ UNCHANGED database

Handle(r) == \/ FindFree(r) \/ Insert(r) \/ Reread(r) \/ FindDevice(r) \/ InsertToken(r)
             \/ CheckPassword(r) \/ DropKey(r) \/ DropDevice(r) \/ DropCustomer(r)
             \/ OneStatement(r) \/ Wait(r)
Continue(r) == VerifyAccess(r) \/ VerifyCustomer(r) \/ Handle(r)

Next == \E r \in Call : \/ Arrive(r) \/ Continue(r) \/ Push(r)
                        \/ MiddlewareFails(r) \/ HandlerFails(r)

Spec == Init /\ [][Next]_vars
FairSpec == Spec /\ \A r \in Call : WF_vars(Continue(r))

-----------------------------------------------------------------------------
TypeOK == /\ customer \in BOOLEAN
          /\ keys \subseteq Key /\ devices \subseteq Dev /\ tokens \subseteq Dev
          /\ call \in [Call -> [pc : {"idle", "access", "customer", "handler", "insert",
                                      "reread", "waiting", "answered", "hanging"},
                                op : {"none"} \cup ApiOp \cup AdminOp,
                                on : Key \cup Dev \cup {Nothing}]]

\* Answered, or left to a token that somebody may send.
Served(r) == call[r].pc = "answered" \/ At(r, "waiting", {"wait"})

(* A request that has reached its route is answered, whichever of its      *)
(* statements fails and whatever was deleted meanwhile; only the one that  *)
(* waits for a token may wait for ever (cashapi.v1.ts:295-299), and one    *)
(* whose admission fails on the database is not answered (apiauth.ts:8,    *)
(* 28).                                                                    *)
AnsweredOrLost == \A r \in Call : /\ call[r].pc = "handler" ~> Served(r)
                                  /\ call[r].pc = "access" ~> Served(r) \/ call[r].pc = "hanging"
=============================================================================
