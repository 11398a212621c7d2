------------------------------ MODULE Trigger ------------------------------
(***************************************************************************)
(* Trigger codes: business/trigger.ts with util/redis.ts.                  *)
(*                                                                         *)
(* A cash device creates a trigger code and waits for it in an open GET    *)
(* request; a phone scans the code and sends it with its token; the server *)
(* claims the token for the device and answers the waiting request.  Each  *)
(* process keeps the codes it knows in a map; with several processes,      *)
(* Redis holds a copy of every code and broadcasts the claimed token.      *)
(*                                                                         *)
(* An action is one Redis command, one claim or one callback, with the     *)
(* synchronous code up to the next await.  Requests are made once each and *)
(* named by what they do.                                                  *)
(***************************************************************************)
EXTENDS Integers, Sequences

CONSTANTS
    Process,     \* the Node.js processes
    Creation,    \* the POST requests of cash devices (bound)
    Registration,\* the GET requests of cash devices (bound)
    Notification,\* the POST requests of phones (bound)
    TokenId, Device,
    Fixed,       \* the devices whose trigger code is their own uuid
    RedisChoice, \* the values config.USE_REDIS may have
    EarlyChoice, \* may a phone be faster than the device's own request?
    Validity,    \* expiresIn, in ticks
    MaxNow,      \* the last tick of the clock (bound)
    Outcome,     \* the states devices confirm (bound)
    NoEntry, NoRequest, NoProcess, NoCode, NoDevice, NoToken

Request == Creation \cup Registration \cup Notification

ASSUME TriggerAssumption ==
    /\ Process # {}
    /\ Fixed \subseteq Device
    /\ RedisChoice \subseteq BOOLEAN
    /\ EarlyChoice \subseteq BOOLEAN
    /\ Outcome \subseteq {"COMPLETED", "CANCELED", "FAILED", "REJECTED", "RETRACTED"}
    /\ Validity \in Nat
    /\ MaxNow \in Nat
    /\ Creation \cap (Registration \cup Notification \cup Device) = {}
    /\ Registration \cap Notification = {}
    /\ NoRequest \notin Request
    /\ NoCode \notin Creation \cup Device
    /\ NoDevice \notin Device
    /\ NoToken \notin TokenId
    /\ LET entries == [device : Device, expires : Int,
                       response : Registration \cup {NoRequest}]
       IN NoEntry \notin entries \cup [entry : entries, until : Int]

VARIABLES
    useRedis,  \* config.USE_REDIS
    host,      \* the processes that run: a cluster needs Redis
    early,     \* are phones faster than the device's own request?
    known,     \* triggerMap of each process
    redis,     \* the copies in Redis, with the time their key expires
    inbox,     \* what Redis has published and a process has not yet handled
    req,       \* what a request remembers between two awaits
    stage, holder,  \* the tokens, as TokenLifecycle has them
    answered,  \* history: the tokens written to waiting requests
    now

config == <<useRedis, host, early>>

vars == <<config, known, redis, inbox, req, stage, holder, answered, now>>

\* The tokens: a trigger claims them, and who is sent one confirms it.
Tokens == INSTANCE TokenLifecycle
    WITH worth <- [t \in TokenId |-> 0], settled <- [t \in TokenId |-> FALSE]

\* A fresh uuid is named by the request it is drawn in.
Code == Creation \cup Device

TriggerEntry == [device : Device, expires : Int,
                 response : Registration \cup {NoRequest}]

NewRequest == [pc |-> "idle", proc |-> NoProcess, code |-> NoCode,
               device |-> NoDevice, token |-> NoToken, entry |-> NoEntry]

Init ==
    /\ useRedis \in RedisChoice
    /\ IF useRedis THEN host = Process ELSE \E p \in Process : host = {p}
    /\ early \in EarlyChoice
    /\ known = [p \in Process |-> [c \in Code |-> NoEntry]]
    /\ redis = [c \in Code |-> NoEntry]
    /\ inbox = [p \in Process |-> <<>>]
    /\ req = [r \in Request |-> NewRequest]
    /\ stage = [t \in TokenId |-> "OPEN"]
    /\ holder = [t \in TokenId |-> NoDevice]
    /\ answered = {}
    /\ now = 0

Goto(r, pc) == req' = [req EXCEPT ![r].pc = pc]

\* The request is over, answered or with an error.
Finish(r, pc) == req' = [req EXCEPT ![r] =
    [req[r] EXCEPT !.pc = pc, !.proc = NoProcess, !.token = NoToken,
                   !.entry = IF r \in Creation THEN req[r].entry ELSE NoEntry]]

\* cleanUp: entries past their time go, answered or not.
CleanUp(map) == [c \in Code |->
    IF map[c] # NoEntry /\ map[c].expires < now THEN NoEntry ELSE map[c]]

------------------------------------------------------------------------------
(* createTrigger                                                           *)

TriggerCode(r, d) == IF d \in Fixed THEN d ELSE r

\* cleanUp comes before the parameter and the device are read.
CreateStart(r) ==
    /\ r \in Creation
    /\ req[r].pc = "idle"
    /\ \E p \in host, d \in Device :
         /\ known' = [known EXCEPT ![p] = CleanUp(@)]
         /\ req' = [req EXCEPT ![r] = [@ EXCEPT !.pc = "create", !.proc = p,
                        !.code = TriggerCode(r, d), !.device = d]]
    /\ UNCHANGED <<config, redis, inbox, stage, holder, answered, now>>

\* The entry is written over one with the same code, and over its response.
CreateStore(r) ==
    /\ req[r].pc = "create"
    /\ LET entry == [device |-> req[r].device, expires |-> now + Validity,
                     response |-> NoRequest]
       IN /\ known' = [known EXCEPT ![req[r].proc][req[r].code] = entry]
          /\ req' = [req EXCEPT ![r].entry = entry,
                                ![r].pc = IF useRedis THEN "set" ELSE "done"]
    /\ UNCHANGED <<config, redis, inbox, stage, holder, answered, now>>

\* Mutant: the time to live is rounded down.
RedisSetShort(r) ==
    /\ req[r].pc = "set"
    /\ redis' = [redis EXCEPT ![req[r].code] =
                   [entry |-> req[r].entry, until |-> req[r].entry.expires - 1]]
    /\ Finish(r, "done")
    /\ UNCHANGED <<config, known, inbox, stage, holder, answered, now>>

\* redis.setValue with EX; then the code is returned.
RedisSet(r) ==
    /\ req[r].pc = "set"
    /\ redis' = [redis EXCEPT ![req[r].code] =
                   [entry |-> req[r].entry, until |-> now + Validity]]
    /\ Finish(r, "done")
    /\ UNCHANGED <<config, known, inbox, stage, holder, answered, now>>

------------------------------------------------------------------------------
(* getTrigger: from the local map, else from Redis.                        *)

\* A key whose time has come is gone.
RedisValue(c) == IF redis[c] # NoEntry /\ now < redis[c].until
                 THEN redis[c].entry ELSE NoEntry

RedisGet(r) ==
    /\ req[r].pc = "get"
    /\ req' = [req EXCEPT ![r].entry = RedisValue(req[r].code), ![r].pc = "got"]
    /\ UNCHANGED <<config, known, redis, inbox, stage, holder, answered, now>>

\* Mutant: the caller gets a copy, and its response never reaches the map.
FetchedCopy(r, map, pc) ==
    IF req[r].entry = NoEntry
    THEN UNCHANGED known /\ Finish(r, "failed")
    ELSE /\ known' = [known EXCEPT ![req[r].proc][req[r].code] = req[r].entry]
         /\ Goto(r, pc)

\* The answer is kept in the map; none means that there is no such trigger.
Fetched(r, map, pc) ==
    IF req[r].entry = NoEntry
    THEN UNCHANGED known /\ Finish(r, "failed")
    ELSE /\ known' = [known EXCEPT ![req[r].proc][req[r].code] = map]
         /\ Goto(r, pc)

------------------------------------------------------------------------------
(* registerTrigger                                                         *)

Returned(c) == c \in Creation /\ req[c].pc = "done"

\* A device asks with a code, on any process: the one the code was returned to,
\* or any other that has got hold of it, for nobody compares them (the customer
\* who asks is an argument that is never read).
RegisterStart(r) ==
    /\ r \in Registration
    /\ req[r].pc = "idle"
    /\ \E c \in Creation, d \in Device, p \in host :
         LET code == req[c].code
             map == CleanUp(known[p])
             to(pc) == req' = [req EXCEPT ![r] = [@ EXCEPT !.pc = pc, !.proc = p,
                                 !.code = code, !.device = d]]
         IN /\ Returned(c)
            /\ IF map[code] # NoEntry
               THEN /\ known' = [known EXCEPT ![p] =
                                   [map EXCEPT ![code].response = r]]
                    /\ to("waiting")
               ELSE /\ known' = [known EXCEPT ![p] = map]
                    /\ to(IF useRedis THEN "get" ELSE "failed")
    /\ UNCHANGED <<config, redis, inbox, stage, holder, answered, now>>

RegisterGot(r) ==
    /\ r \in Registration
    /\ req[r].pc = "got"
    /\ Fetched(r, [req[r].entry EXCEPT !.response = r], "waiting")
    /\ UNCHANGED <<config, redis, inbox, stage, holder, answered, now>>

------------------------------------------------------------------------------
(* notifyTrigger                                                           *)

\* The device shows the code when it has opened its request, or (not early)
\* when the server has got as far as waiting for a phone.
Displayed(c) == \E r \in Registration :
    req[r].code = c /\ (early \/ req[r].pc = "waiting")

\* Neither cleanUp nor a test of expires here.
NotifyStart(r) ==
    /\ r \in Notification
    /\ req[r].pc = "idle"
    /\ \E c \in Code, p \in host, t \in TokenId :
         LET to(pc) == req' = [req EXCEPT ![r] = [@ EXCEPT !.pc = pc, !.proc = p,
                                 !.code = c, !.token = t, !.entry = known[p][c]]]
         IN /\ Displayed(c)
            /\ to(IF known[p][c] # NoEntry THEN "claim"
                  ELSE IF useRedis THEN "get" ELSE "failed")
    /\ UNCHANGED <<config, known, redis, inbox, stage, holder, answered, now>>

\* The copy from Redis is written over what the map holds by now.
NotifyGot(r) ==
    /\ r \in Notification
    /\ req[r].pc = "got"
    /\ Fetched(r, req[r].entry, "claim")
    /\ UNCHANGED <<config, redis, inbox, stage, holder, answered, now>>

\* Mutant: the claim of a rejected token does not throw.
ClaimSends(r) ==
    /\ req[r].pc = "claim"
    /\ LET t == req[r].token IN
         \/ /\ \E s \in {"LOCKED", "REJECTED"} : Tokens!Claim(t, req[r].entry.device, s)
            /\ Goto(r, "send")
         \/ Finish(r, "failed") /\ UNCHANGED <<stage, holder>>
    /\ UNCHANGED <<config, known, redis, inbox, answered, now>>

\* verifyAndLockByTrigger: a wrong signature or code rejects the token; one that
\* cleanUpExpired finds expired is closed; one that is not found, or not OPEN any
\* more, is left as it is, and so is any token when a statement fails on the way.
Claim(r) ==
    /\ req[r].pc = "claim"
    /\ LET t == req[r].token IN
         \/ /\ Tokens!Claim(t, req[r].entry.device, "LOCKED")
            /\ Goto(r, "send")
         \/ /\ \/ Tokens!Claim(t, req[r].entry.device, "REJECTED")
               \/ Tokens!Withdraw({t}, "EXPIRED")
               \/ UNCHANGED <<stage, holder>>
            /\ Finish(r, "failed")
    /\ UNCHANGED <<config, known, redis, inbox, answered, now>>

\* The re-read after the lock fails: the token stays LOCKED, is sent to nobody,
\* and the trigger stays.
RereadFails(r) ==
    /\ req[r].pc = "send"
    /\ Finish(r, "failed")
    /\ UNCHANGED <<config, known, redis, inbox, stage, holder, answered, now>>

\* Mutants: nobody waits and is answered; the entry stays.
SendToNobody(p, c, t) ==
    /\ known' = [known EXCEPT ![p][c] = NoEntry]
    /\ answered' = IF known[p][c] = NoEntry THEN answered
                   ELSE answered \cup {[to |-> known[p][c].response, token |-> t]}
SendAndKeep(p, c, t) ==
    LET w == IF known[p][c] = NoEntry THEN NoRequest ELSE known[p][c].response IN
    /\ answered' = IF w = NoRequest THEN answered
                   ELSE answered \cup {[to |-> w, token |-> t]}
    /\ UNCHANGED known

\* localSendToken: the trigger is over, whether anybody waits for it or not.
LocalSendToken(p, c, t) ==
    LET w == IF known[p][c] = NoEntry THEN NoRequest ELSE known[p][c].response IN
    /\ known' = [known EXCEPT ![p][c] = NoEntry]
    /\ answered' = IF w = NoRequest THEN answered
                   ELSE answered \cup {[to |-> w, token |-> t]}

\* sendToken: to every process by Redis, or to the local map.  The deletion
\* of the key is sent first, on a connection of its own, and nobody waits for
\* it: it may take effect before or after any delivery.
Send(r) ==
    /\ req[r].pc = "send"
    /\ IF useRedis
       THEN /\ inbox' = [p \in Process |->
                  Append(inbox[p], [code |-> req[r].code, token |-> req[r].token])]
            /\ Goto(r, "del")
            /\ UNCHANGED <<known, answered>>
       ELSE /\ LocalSendToken(req[r].proc, req[r].code, req[r].token)
            /\ Finish(r, "done")
            /\ UNCHANGED inbox
    /\ UNCHANGED <<config, redis, stage, holder, now>>

RedisDel(r) ==
    /\ req[r].pc = "del"
    /\ redis' = [redis EXCEPT ![req[r].code] = NoEntry]
    /\ Finish(r, "done")
    /\ UNCHANGED <<config, known, inbox, stage, holder, answered, now>>

\* redisSubscriber.on('message')
Deliver(p) ==
    /\ inbox[p] # <<>>
    /\ LocalSendToken(p, Head(inbox[p]).code, Head(inbox[p]).token)
    /\ inbox' = [inbox EXCEPT ![p] = Tail(@)]
    /\ UNCHANGED <<config, redis, req, stage, holder, now>>

------------------------------------------------------------------------------
(* What the device does with the token it was sent.                        *)

\* confirmByLockDeviceAndUUID, which asks who holds the token.  A remainder is
\* a token of its own, and left to Token.
Confirm(a) ==
    /\ holder[a.token] = req[a.to].device
    /\ \E s \in Outcome : Tokens!Confirm(a.token, s)
    /\ UNCHANGED <<config, known, redis, inbox, req, answered, now>>

------------------------------------------------------------------------------
(* Time passes, and who does what next.                                    *)

Tick ==
    /\ now < MaxNow
    /\ now' = now + 1
    /\ UNCHANGED <<config, known, redis, inbox, req, stage, holder, answered>>

\* What a request does once it has been started.
Continue(r) == \/ CreateStore(r)
               \/ RedisSet(r)
               \/ RedisGet(r)
               \/ RegisterGot(r)
               \/ NotifyGot(r)
               \/ Claim(r)
               \/ RereadFails(r)
               \/ Send(r)
               \/ RedisDel(r)

Next == \/ \E r \in Request : \/ CreateStart(r)
                              \/ RegisterStart(r)
                              \/ NotifyStart(r)
                              \/ Continue(r)
        \/ \E p \in Process : Deliver(p)
        \/ \E a \in answered : Confirm(a)
        \/ Tick

Spec == Init /\ [][Next]_vars
=============================================================================
