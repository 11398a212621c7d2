--------------------------- MODULE TriggerProofs ---------------------------
(***************************************************************************)
(* Theorems about Trigger, for any number of processes, requests, devices  *)
(* and tokens, with Redis and without.                                     *)
(*                                                                         *)
(* Base says what each kind of request goes through and that every entry,  *)
(* in a map, in Redis or in the hands of a request, comes from a creation  *)
(* of its code.  AnswerInv adds who waits where and what is sent to whom;  *)
(* SpentInv that an answered code is gone; OpenInv that an open code is    *)
(* found; PushInv that who waits is remembered until its token arrives.    *)
(***************************************************************************)
EXTENDS TriggerSafety, TLAPS

-----------------------------------------------------------------------------
(* Types, and what each kind of request goes through. *)

Pc == {"idle", "create", "set", "get", "got", "waiting", "claim", "send", "del",
       "done", "failed"}

RequestState == [pc : Pc, proc : Process \cup {NoProcess}, code : Code \cup {NoCode},
                 device : Device \cup {NoDevice}, token : TokenId \cup {NoToken},
                 entry : TriggerEntry \cup {NoEntry}]

Message == [code : Code, token : TokenId]

Stage == {"OPEN", "EXPIRED", "LOCKED", "REJECTED"} \cup Outcome

Typed ==
    /\ useRedis \in BOOLEAN /\ early \in BOOLEAN /\ host \subseteq Process
    /\ known \in [Process -> [Code -> TriggerEntry \cup {NoEntry}]]
    /\ redis \in [Code -> [entry : TriggerEntry, until : Int] \cup {NoEntry}]
    /\ inbox \in [Process -> Seq(Message)]
    /\ req \in [Request -> RequestState]
    /\ stage \in [TokenId -> Stage]
    /\ holder \in [TokenId -> Device \cup {NoDevice}]
    /\ answered \subseteq [to : Registration, token : TokenId]
    /\ now \in 0..MaxNow

\* Redis is used by all processes, or there is only one.
Mode == /\ useRedis => host = Process
        /\ ~useRedis => /\ \E p \in Process : host = {p}
                        /\ \A p \in Process : inbox[p] = <<>>
                        /\ \A r \in Request : req[r].pc \notin {"set", "get", "got", "del"}

\* The course of a creation, a registration and a notification.
Course(r) ==
    /\ req[r].pc = "idle" => req[r].code = NoCode /\ req[r].entry = NoEntry
    /\ req[r].pc # "idle" => req[r].code \in Code
    /\ req[r].pc \notin {"idle", "done", "failed"} => req[r].proc \in host
    /\ r \in Creation => req[r].pc \in {"idle", "create", "set", "done"}
    /\ r \in Registration => req[r].pc \in {"idle", "get", "got", "waiting", "failed"}
    /\ r \in Notification =>
         /\ req[r].pc \in {"idle", "get", "got", "claim", "send", "del", "done", "failed"}
         /\ req[r].pc \notin {"idle", "done", "failed"} => req[r].token \in TokenId
         /\ req[r].pc \in {"claim", "send", "del"} => req[r].entry # NoEntry

\* The code that a creation has drawn, and the entry it has stored.
Stored(q) == q \in Creation /\ req[q].pc \in {"set", "done"}
Creates(q) ==
    /\ req[q].pc # "idle" => /\ req[q].device \in Device
                             /\ req[q].code = TriggerCode(q, req[q].device)
    /\ req[q].pc = "create" => req[q].entry = NoEntry
    /\ Stored(q) => /\ req[q].entry \in TriggerEntry
                    /\ req[q].entry.device = req[q].device
                    /\ req[q].entry.response = NoRequest
                    /\ req[q].entry.expires <= now + Validity

\* An entry for code c, wherever it is, comes from a creation of c.
Origin(x, c) == \E q \in Creation : /\ Stored(q)
                                    /\ req[q].code = c
                                    /\ x.device = req[q].device
                                    /\ x.expires = req[q].entry.expires
OriginNext(x, c) == \E q \in Creation : /\ Stored(q)'
                                        /\ req'[q].code = c
                                        /\ x.device = req'[q].device
                                        /\ x.expires = req'[q].entry.expires

\* Only codes that were returned are asked for and displayed.
Uses(r) ==
    /\ req[r].pc # "idle" => \E q \in Creation :
         /\ Returned(q)
         /\ req[q].code = req[r].code
    /\ req[r].entry # NoEntry => Origin(req[r].entry, req[r].code)
    /\ req[r].pc = "got" /\ req[r].entry # NoEntry => req[r].entry.response = NoRequest

Base == /\ Typed /\ Mode
        /\ \A r \in Request : Course(r)
        /\ \A q \in Creation : Creates(q)
        /\ \A r \in Registration \cup Notification : Uses(r)
        /\ \A p \in Process, c \in Code :
             known[p][c] # NoEntry => Origin(known[p][c], c)
        /\ \A c \in Code : redis[c] # NoEntry =>
             /\ Origin(redis[c].entry, c)
             /\ redis[c].entry.response = NoRequest

-----------------------------------------------------------------------------
(* Who waits, and what is sent to whom. *)

\* A token that was claimed with code c.
Held(t, c) == /\ stage[t] \in {"LOCKED"} \cup Outcome
              /\ \E q \in Creation : /\ Returned(q)
                                     /\ req[q].code = c
                                     /\ holder[t] = req[q].device

HeldNext(t, c) == /\ stage'[t] \in {"LOCKED"} \cup Outcome
                  /\ \E q \in Creation : /\ Returned(q)'
                                         /\ req'[q].code = c
                                         /\ holder'[t] = req'[q].device

Sent == /\ \A r \in Request : req[r].pc = "send" => Held(req[r].token, req[r].code)
        /\ \A p \in Process : \A i \in DOMAIN inbox[p] :
             Held(inbox[p][i].token, inbox[p][i].code)

\* Who waits in the map of a process waits there, for this code, unanswered.
Waits(p, c) ==
    known[p][c] # NoEntry /\ known[p][c].response # NoRequest =>
        LET w == known[p][c].response IN
        /\ req[w].pc = "waiting" /\ req[w].proc = p /\ req[w].code = c
        /\ \A a \in answered : a.to # w

AnswerInv == /\ Base /\ Sent /\ RightDevice /\ AnsweredOnce
             /\ \A p \in Process, c \in Code : Waits(p, c)
             /\ \A a \in answered : req[a.to].pc = "waiting"

\* On a single process an answered code is gone.
SpentInv == /\ AnswerInv
            /\ ~useRedis => \A a \in answered : req[a.to].code \in Creation =>
                 \A p \in host : known[p][req[a.to].code] = NoEntry

-----------------------------------------------------------------------------
(* Codes are found, and tokens are pushed. *)

Findable(c) ==
    OpenCode(c) =>
        IF useRedis THEN redis[c] # NoEntry /\ redis[c].until >= req[c].entry.expires
                    ELSE \A p \in host : known[p][c] # NoEntry

OpenInv == /\ Base
           /\ \A c \in Creation : Findable(c)
           /\ \A r \in Notification : req[r].pc = "got" /\ req[r].entry = NoEntry =>
                ~OpenCode(req[r].code)

\* The reasons not to have a token on its way.
Excused(w) == \/ \E a \in answered : a.to = w
              \/ Expired(w)
              \/ Superseded(w)

\* A device that waits is known where it waits.
Remembered(w) == ~early /\ req[w].pc = "waiting" =>
    \/ Excused(w)
    \/ /\ known[req[w].proc][req[w].code] # NoEntry
       /\ known[req[w].proc][req[w].code].response = w

\* A phone scans what some device waits for, so its process knows the device.
Scanned(n) == ~early /\ req[n].pc # "idle" =>
    \E w \in Registration : req[w].pc = "waiting" /\ req[w].code = req[n].code

Knows(n, w) ==
    /\ ~early
    /\ req[w].pc = "waiting" /\ req[w].code = req[n].code
    /\ req[n].pc \in {"get", "got"} /\ req[n].proc = req[w].proc
    => Excused(w)

Reaches(n, w) ==
    /\ ~early
    /\ req[w].pc = "waiting" /\ req[w].code = req[n].code
    /\ req[n].pc \in {"del", "done"}
    => \/ Excused(w)
       \/ \E i \in DOMAIN inbox[req[w].proc] : inbox[req[w].proc][i].code = req[w].code

PushInv == /\ AnswerInv
           /\ \A w \in Registration : Remembered(w)
           /\ \A n \in Notification : Scanned(n)
           /\ \A n \in Notification, w \in Registration : Knows(n, w) /\ Reaches(n, w)

-----------------------------------------------------------------------------
(* The records that requests build. *)

\* The fields of a record with one more request state.
Fields(r, pc, proc, code, device, tok, entry) ==
    /\ req'[r].pc = pc
    /\ req'[r].proc = proc
    /\ req'[r].code = code
    /\ req'[r].device = device
    /\ req'[r].token = tok
    /\ req'[r].entry = entry

OthersStay(r) == \A q \in Request : q # r => req'[q] = req[q]

LEMMA FieldsType ==
    ASSUME Typed, NEW r \in Request, NEW x \in RequestState, req' = [req EXCEPT ![r] = x]
    PROVE  /\ req' \in [Request -> RequestState]
           /\ Fields(r, x.pc, x.proc, x.code, x.device, x.token, x.entry)
           /\ OthersStay(r)
BY DEF Typed, Fields, OthersStay

LEMMA GotoFields ==
    ASSUME Typed, NEW r \in Request, NEW pc \in Pc, Goto(r, pc)
    PROVE  /\ req' \in [Request -> RequestState]
           /\ Fields(r, pc, req[r].proc, req[r].code, req[r].device, req[r].token,
                     req[r].entry)
           /\ OthersStay(r)
BY DEF Typed, Fields, OthersStay, Goto, RequestState

LEMMA FinishFields ==
    ASSUME Typed, NEW r \in Request, NEW pc \in Pc, Finish(r, pc)
    PROVE  /\ req' \in [Request -> RequestState]
           /\ Fields(r, pc, NoProcess, req[r].code, req[r].device, NoToken,
                     IF r \in Creation THEN req[r].entry ELSE NoEntry)
           /\ OthersStay(r)
<1> DEFINE e == IF r \in Creation THEN req[r].entry ELSE NoEntry
           x == [req[r] EXCEPT !.pc = pc, !.proc = NoProcess, !.token = NoToken,
                               !.entry = e]
<1>1. req[r] \in RequestState
  BY DEF Typed
<1>2. req' = [req EXCEPT ![r] = x]
  BY DEF Finish
<1>3. e \in TriggerEntry \cup {NoEntry}
  BY <1>1 DEF RequestState
<1> HIDE DEF e
<1>4. /\ x \in RequestState
      /\ x.pc = pc /\ x.proc = NoProcess /\ x.code = req[r].code
      /\ x.device = req[r].device /\ x.token = NoToken /\ x.entry = e
  BY <1>1, <1>3 DEF RequestState
<1> HIDE DEF x
<1>5. /\ req' \in [Request -> RequestState]
      /\ Fields(r, pc, NoProcess, req[r].code, req[r].device, NoToken, e)
      /\ OthersStay(r)
  BY <1>2, <1>4, FieldsType
<1>. QED BY <1>5 DEF e

LEMMA CreateStartFields ==
    ASSUME TriggerAssumption, Base, NEW r \in Request, CreateStart(r)
    PROVE  /\ r \in Creation
           /\ req[r].pc = "idle"
           /\ req' \in [Request -> RequestState]
           /\ \E p \in host, d \in Device :
                /\ known' = [known EXCEPT ![p] = CleanUp(@)]
                /\ Fields(r, "create", p, TriggerCode(r, d), d, req[r].token, NoEntry)
                /\ TriggerCode(r, d) \in Code
           /\ OthersStay(r)
<1> USE DEF Base, Typed
<1>1. PICK p \in host, d \in Device :
        /\ known' = [known EXCEPT ![p] = CleanUp(@)]
        /\ req' = [req EXCEPT ![r] = [@ EXCEPT !.pc = "create", !.proc = p,
                        !.code = TriggerCode(r, d), !.device = d]]
  BY DEF CreateStart
<1>2. r \in Creation /\ req[r].pc = "idle" /\ req[r].entry = NoEntry
  BY DEF CreateStart, Course
<1>3. TriggerCode(r, d) \in Code
  BY <1>2 DEF TriggerCode, Code
<1>4. /\ req' \in [Request -> RequestState]
      /\ Fields(r, "create", p, TriggerCode(r, d), d, req[r].token, NoEntry)
      /\ OthersStay(r)
  <2> DEFINE c == TriggerCode(r, d)
             x == [req[r] EXCEPT !.pc = "create", !.proc = p, !.code = c, !.device = d]
  <2>1. req[r] \in RequestState /\ req' = [req EXCEPT ![r] = x] /\ c \in Code
    BY <1>1, <1>3
  <2> HIDE DEF c
  <2>2. /\ x \in RequestState
        /\ x.pc = "create" /\ x.proc = p /\ x.code = c
        /\ x.device = d /\ x.token = req[r].token /\ x.entry = NoEntry
    BY <1>2, <2>1 DEF RequestState, Pc
  <2> HIDE DEF x
  <2>3. /\ req' \in [Request -> RequestState]
        /\ Fields(r, "create", p, c, d, req[r].token, NoEntry)
        /\ OthersStay(r)
    BY <2>1, <2>2, FieldsType DEF Fields
  <2>. QED BY <2>3 DEF c
<1>. QED BY <1>1, <1>2, <1>3, <1>4

NewEntry(r) == [device |-> req[r].device, expires |-> now + Validity,
                response |-> NoRequest]

LEMMA CreateStoreFields ==
    ASSUME TriggerAssumption, Base, NEW r \in Request, CreateStore(r)
    PROVE  /\ r \in Creation
           /\ req[r].pc = "create"
           /\ req' \in [Request -> RequestState]
           /\ NewEntry(r) \in TriggerEntry
           /\ NewEntry(r).device = req[r].device
           /\ NewEntry(r).expires = now + Validity
           /\ NewEntry(r).response = NoRequest
           /\ known' = [known EXCEPT ![req[r].proc][req[r].code] = NewEntry(r)]
           /\ Fields(r, IF useRedis THEN "set" ELSE "done", req[r].proc, req[r].code,
                     req[r].device, req[r].token, NewEntry(r))
           /\ OthersStay(r)
<1> USE DEF Base, Typed
<1> DEFINE x == NewEntry(r)
<1>1. r \in Creation /\ req[r].pc = "create"
  BY DEF CreateStore, Course, Request
<1>2. x \in TriggerEntry
  BY <1>1 DEF Creates, TriggerEntry, TriggerAssumption, NewEntry
<1>3. /\ known' = [known EXCEPT ![req[r].proc][req[r].code] = x]
      /\ req' = [req EXCEPT ![r].entry = x, ![r].pc = IF useRedis THEN "set" ELSE "done"]
  BY DEF CreateStore, NewEntry
<1>4. /\ req' \in [Request -> RequestState]
      /\ Fields(r, IF useRedis THEN "set" ELSE "done", req[r].proc, req[r].code,
                req[r].device, req[r].token, x)
      /\ OthersStay(r)
  <2> DEFINE pc == IF useRedis THEN "set" ELSE "done"
             y == [req[r] EXCEPT !.pc = pc, !.entry = x]
  <2>0. req' = [req EXCEPT ![r] = y]
    BY <1>3
  <2>1. req[r] \in RequestState /\ req' = [req EXCEPT ![r] = y] /\ x \in TriggerEntry
    BY <1>2, <2>0
  <2>2. pc \in Pc
    BY DEF Pc
  <2> HIDE DEF x, pc
  <2>3. /\ y \in RequestState
        /\ y.pc = pc /\ y.proc = req[r].proc /\ y.code = req[r].code
        /\ y.device = req[r].device /\ y.token = req[r].token /\ y.entry = x
    BY <2>1, <2>2 DEF RequestState
  <2> HIDE DEF y
  <2>4. /\ req' \in [Request -> RequestState]
        /\ Fields(r, pc, req[r].proc, req[r].code, req[r].device, req[r].token, x)
        /\ OthersStay(r)
    BY <2>1, <2>3, FieldsType DEF Fields
  <2>. QED BY <2>4 DEF pc, x
<1>5. x.device = req[r].device /\ x.expires = now + Validity /\ x.response = NoRequest
  BY DEF NewEntry
<1>. QED BY <1>1, <1>2, <1>3, <1>4, <1>5

LEMMA RedisGetFields ==
    ASSUME TriggerAssumption, Base, NEW r \in Request, RedisGet(r)
    PROVE  /\ r \in Registration \cup Notification
           /\ req[r].pc = "get"
           /\ req' \in [Request -> RequestState]
           /\ Fields(r, "got", req[r].proc, req[r].code, req[r].device, req[r].token,
                     RedisValue(req[r].code))
           /\ RedisValue(req[r].code) \in TriggerEntry \cup {NoEntry}
           /\ OthersStay(r)
<1> USE DEF Base, Typed
<1>1. r \in Registration \cup Notification /\ req[r].pc = "get" /\ req[r].code \in Code
  BY DEF RedisGet, Course, Request
<1>2. RedisValue(req[r].code) \in TriggerEntry \cup {NoEntry}
  BY <1>1 DEF RedisValue
<1>3. req' = [req EXCEPT ![r].entry = RedisValue(req[r].code), ![r].pc = "got"]
  BY DEF RedisGet
<1>4. /\ req' \in [Request -> RequestState]
      /\ Fields(r, "got", req[r].proc, req[r].code, req[r].device, req[r].token,
                RedisValue(req[r].code))
      /\ OthersStay(r)
  <2> DEFINE v == RedisValue(req[r].code)
             x == [req[r] EXCEPT !.pc = "got", !.entry = v]
  <2>1. req[r] \in RequestState /\ req' = [req EXCEPT ![r] = x]
    BY <1>3
  <2>2. v \in TriggerEntry \cup {NoEntry}
    BY <1>2
  <2> HIDE DEF v
  <2>3. /\ x \in RequestState
        /\ x.pc = "got" /\ x.proc = req[r].proc /\ x.code = req[r].code
        /\ x.device = req[r].device /\ x.token = req[r].token /\ x.entry = v
    BY <2>1, <2>2 DEF RequestState, Pc
  <2> HIDE DEF x
  <2>4. /\ req' \in [Request -> RequestState]
        /\ Fields(r, "got", req[r].proc, req[r].code, req[r].device, req[r].token, v)
        /\ OthersStay(r)
    BY <2>1, <2>3, FieldsType DEF Fields
  <2>. QED BY <2>4 DEF v
<1>. QED BY <1>1, <1>2, <1>4

\* A device registers for a code that was returned, to it or to another.
LEMMA RegisterStartFields ==
    ASSUME TriggerAssumption, Base, NEW r \in Request, RegisterStart(r)
    PROVE  /\ r \in Registration
           /\ req[r].pc = "idle"
           /\ req' \in [Request -> RequestState]
           /\ OthersStay(r)
           /\ \E c \in Creation, d \in Device, p \in host :
                LET code == req[c].code
                    map == CleanUp(known[p])
                IN /\ Returned(c)
                   /\ code \in Code
                   /\ \/ /\ map[code] # NoEntry
                         /\ known' = [known EXCEPT ![p] = [map EXCEPT ![code].response = r]]
                         /\ Fields(r, "waiting", p, code, d, req[r].token, NoEntry)
                      \/ /\ map[code] = NoEntry
                         /\ known' = [known EXCEPT ![p] = map]
                         /\ Fields(r, IF useRedis THEN "get" ELSE "failed", p, code,
                                   d, req[r].token, NoEntry)
<1> USE DEF Base, Typed
<1>1. r \in Registration /\ req[r].pc = "idle" /\ req[r].entry = NoEntry
  BY DEF RegisterStart, Course
<1>2. PICK c \in Creation, d \in Device, p \in host :
         LET code == req[c].code
             map == CleanUp(known[p])
             to(pc) == req' = [req EXCEPT ![r] = [@ EXCEPT !.pc = pc, !.proc = p,
                                 !.code = code, !.device = d]]
         IN /\ Returned(c)
            /\ IF map[code] # NoEntry
               THEN /\ known' = [known EXCEPT ![p] =
                                   [map EXCEPT ![code].response = r]]
                    /\ to("waiting")
               ELSE /\ known' = [known EXCEPT ![p] = map]
                    /\ to(IF useRedis THEN "get" ELSE "failed")
  BY DEF RegisterStart
<1>3. req[c].code \in Code
  BY <1>2 DEF Returned, Creates, Course, Request
<1>4. ASSUME NEW pc \in Pc,
             req' = [req EXCEPT ![r] = [@ EXCEPT !.pc = pc, !.proc = p,
                       !.code = req[c].code, !.device = d]]
      PROVE  /\ req' \in [Request -> RequestState]
             /\ Fields(r, pc, p, req[c].code, d, req[r].token, NoEntry)
             /\ OthersStay(r)
  <2> DEFINE x == [req[r] EXCEPT !.pc = pc, !.proc = p, !.code = req[c].code,
                                 !.device = d]
  <2>1. req[r] \in RequestState /\ req' = [req EXCEPT ![r] = x]
    BY <1>4
  <2>2. /\ x \in RequestState
        /\ x.pc = pc /\ x.proc = p /\ x.code = req[c].code
        /\ x.device = d /\ x.token = req[r].token /\ x.entry = NoEntry
    BY <1>1, <1>3, <2>1 DEF RequestState
  <2> HIDE DEF x
  <2>. QED BY <2>1, <2>2, FieldsType
<1> DEFINE pc1 == IF useRedis THEN "get" ELSE "failed"
<1>5. "waiting" \in Pc /\ pc1 \in Pc
  BY DEF Pc
<1>6. CASE CleanUp(known[p])[req[c].code] # NoEntry
  BY <1>1, <1>2, <1>3, <1>4, <1>5, <1>6
<1>7. CASE CleanUp(known[p])[req[c].code] = NoEntry
  <2>1. /\ known' = [known EXCEPT ![p] = CleanUp(known[p])]
        /\ req' = [req EXCEPT ![r] = [@ EXCEPT !.pc = pc1, !.proc = p,
                       !.code = req[c].code, !.device = d]]
    BY <1>2, <1>7
  <2>2. /\ req' \in [Request -> RequestState]
        /\ Fields(r, pc1, p, req[c].code, d, req[r].token, NoEntry)
        /\ OthersStay(r)
    BY <1>4, <1>5, <2>1
  <2>. QED BY <1>1, <1>2, <1>3, <1>7, <2>1, <2>2
<1>. QED BY <1>6, <1>7

\* The answer of Redis is used, or there is no such code.
LEMMA GotFields ==
    ASSUME TriggerAssumption, Base, NEW r \in Request, RegisterGot(r) \/ NotifyGot(r)
    PROVE  /\ r \in Registration \cup Notification
           /\ req[r].pc = "got"
           /\ useRedis
           /\ req' \in [Request -> RequestState]
           /\ OthersStay(r)
           /\ \/ /\ req[r].entry = NoEntry
                 /\ UNCHANGED known
                 /\ Fields(r, "failed", NoProcess, req[r].code, req[r].device, NoToken, NoEntry)
              \/ /\ req[r].entry # NoEntry
                 /\ r \in Registration
                 /\ known' = [known EXCEPT ![req[r].proc][req[r].code] =
                                [req[r].entry EXCEPT !.response = r]]
                 /\ Fields(r, "waiting", req[r].proc, req[r].code, req[r].device,
                           req[r].token, req[r].entry)
              \/ /\ req[r].entry # NoEntry
                 /\ r \in Notification
                 /\ known' = [known EXCEPT ![req[r].proc][req[r].code] = req[r].entry]
                 /\ Fields(r, "claim", req[r].proc, req[r].code, req[r].device,
                           req[r].token, req[r].entry)
<1> USE DEF Base
<1>1. r \in Registration \cup Notification /\ req[r].pc = "got" /\ r \notin Creation
  BY DEF RegisterGot, NotifyGot, TriggerAssumption
<1>2. useRedis
  BY <1>1 DEF Mode
<1>3. "failed" \in Pc /\ "waiting" \in Pc /\ "claim" \in Pc
  BY DEF Pc
<1>4. CASE req[r].entry = NoEntry
  <2>1. UNCHANGED known /\ Finish(r, "failed")
    BY <1>4 DEF RegisterGot, NotifyGot, Fetched
  <2>. QED BY <1>1, <1>2, <1>3, <1>4, <2>1, FinishFields
<1>5. CASE req[r].entry # NoEntry /\ RegisterGot(r)
  <2>1. /\ r \in Registration
        /\ known' = [known EXCEPT ![req[r].proc][req[r].code] =
                       [req[r].entry EXCEPT !.response = r]]
        /\ Goto(r, "waiting")
    BY <1>5 DEF RegisterGot, Fetched
  <2>. QED BY <1>1, <1>2, <1>3, <1>5, <2>1, GotoFields
<1>6. CASE req[r].entry # NoEntry /\ NotifyGot(r)
  <2>1. /\ r \in Notification
        /\ known' = [known EXCEPT ![req[r].proc][req[r].code] = req[r].entry]
        /\ Goto(r, "claim")
    BY <1>6 DEF NotifyGot, Fetched
  <2>. QED BY <1>1, <1>2, <1>3, <1>6, <2>1, GotoFields
<1>. QED BY <1>4, <1>5, <1>6

LEMMA NotifyStartFields ==
    ASSUME TriggerAssumption, Base, NEW r \in Request, NotifyStart(r)
    PROVE  /\ r \in Notification
           /\ req[r].pc = "idle"
           /\ req' \in [Request -> RequestState]
           /\ OthersStay(r)
           /\ UNCHANGED known
           /\ \E c \in Code, p \in host, t \in TokenId :
                /\ Displayed(c)
                /\ Fields(r, IF known[p][c] # NoEntry THEN "claim"
                             ELSE IF useRedis THEN "get" ELSE "failed",
                          p, c, req[r].device, t, known[p][c])
<1> USE DEF Base, Typed
<1>1. r \in Notification /\ req[r].pc = "idle" /\ UNCHANGED known
  BY DEF NotifyStart
<1>2. PICK c \in Code, p \in host, t \in TokenId :
        /\ Displayed(c)
        /\ req' = [req EXCEPT ![r] = [@ EXCEPT
                     !.pc = IF known[p][c] # NoEntry THEN "claim"
                            ELSE IF useRedis THEN "get" ELSE "failed",
                     !.proc = p, !.code = c, !.token = t, !.entry = known[p][c]]]
  BY DEF NotifyStart
<1>3. known[p][c] \in TriggerEntry \cup {NoEntry}
  OBVIOUS
<1>4. /\ req' \in [Request -> RequestState]
      /\ Fields(r, IF known[p][c] # NoEntry THEN "claim"
                   ELSE IF useRedis THEN "get" ELSE "failed",
                p, c, req[r].device, t, known[p][c])
      /\ OthersStay(r)
  <2> DEFINE pc == IF known[p][c] # NoEntry THEN "claim"
                   ELSE IF useRedis THEN "get" ELSE "failed"
             e == known[p][c]
             x == [req[r] EXCEPT !.pc = pc, !.proc = p, !.code = c, !.token = t, !.entry = e]
  <2>1. req[r] \in RequestState /\ req' = [req EXCEPT ![r] = x]
    BY <1>2
  <2>2. pc \in Pc /\ e \in TriggerEntry \cup {NoEntry}
    BY <1>3 DEF Pc
  <2> HIDE DEF pc, e
  <2>3. /\ x \in RequestState
        /\ x.pc = pc /\ x.proc = p /\ x.code = c
        /\ x.device = req[r].device /\ x.token = t /\ x.entry = e
    BY <2>1, <2>2 DEF RequestState
  <2> HIDE DEF x
  <2>4. /\ req' \in [Request -> RequestState]
        /\ Fields(r, pc, p, c, req[r].device, t, e)
        /\ OthersStay(r)
    BY <2>1, <2>3, FieldsType DEF Fields
  <2>. QED BY <2>4 DEF pc, e
<1>. QED BY <1>1, <1>2, <1>4

LEMMA ClaimFields ==
    ASSUME TriggerAssumption, Base, NEW r \in Request, Claim(r)
    PROVE  /\ r \in Notification
           /\ req[r].pc = "claim"
           /\ req[r].entry \in TriggerEntry
           /\ req' \in [Request -> RequestState]
           /\ OthersStay(r)
           /\ \/ /\ stage[req[r].token] = "OPEN"
                 /\ stage' = [stage EXCEPT ![req[r].token] = "LOCKED"]
                 /\ holder' = [holder EXCEPT ![req[r].token] = req[r].entry.device]
                 /\ Fields(r, "send", req[r].proc, req[r].code, req[r].device,
                           req[r].token, req[r].entry)
              \/ /\ stage[req[r].token] = "OPEN"
                 /\ stage' = [stage EXCEPT ![req[r].token] = "REJECTED"]
                 /\ holder' = [holder EXCEPT ![req[r].token] = req[r].entry.device]
                 /\ Fields(r, "failed", NoProcess, req[r].code, req[r].device, NoToken, NoEntry)
              \/ /\ stage[req[r].token] = "OPEN"
                 /\ stage' = [stage EXCEPT ![req[r].token] = "EXPIRED"]
                 /\ UNCHANGED holder
                 /\ Fields(r, "failed", NoProcess, req[r].code, req[r].device, NoToken, NoEntry)
              \/ /\ UNCHANGED <<stage, holder>>
                 /\ Fields(r, "failed", NoProcess, req[r].code, req[r].device, NoToken, NoEntry)
<1> USE DEF Base
<1>1. /\ r \in Notification
      /\ req[r].pc = "claim"
      /\ r \notin Creation
      /\ req[r].entry \in TriggerEntry
  BY DEF Claim, Course, Request, TriggerAssumption, Typed, RequestState
<1>2. "failed" \in Pc /\ "send" \in Pc
  BY DEF Pc
<1>3. CASE Tokens!Claim(req[r].token, req[r].entry.device, "LOCKED") /\ Goto(r, "send")
  BY <1>1, <1>2, <1>3, GotoFields DEF Tokens!Claim
<1>4. CASE Tokens!Claim(req[r].token, req[r].entry.device, "REJECTED") /\ Finish(r, "failed")
  BY <1>1, <1>2, <1>4, FinishFields DEF Tokens!Claim
<1>5. CASE UNCHANGED <<stage, holder>> /\ Finish(r, "failed")
  BY <1>1, <1>2, <1>5, FinishFields
<1>6. CASE Tokens!Withdraw({req[r].token}, "EXPIRED") /\ Finish(r, "failed")
  <2>1. /\ stage[req[r].token] = "OPEN"
        /\ UNCHANGED holder
        /\ stage' = [t \in TokenId |-> IF t = req[r].token THEN "EXPIRED" ELSE stage[t]]
    BY <1>6 DEF Tokens!Withdraw
  <2>2. stage' = [stage EXCEPT ![req[r].token] = "EXPIRED"]
    BY <2>1 DEF Typed
  <2>. QED BY <1>1, <1>2, <1>6, <2>1, <2>2, FinishFields
<1>. QED BY <1>3, <1>4, <1>5, <1>6 DEF Claim

\* A token that is locked and not sent: only the request ends.
LEMMA RereadFailsFields ==
    ASSUME TriggerAssumption, Base, NEW r \in Request, RereadFails(r)
    PROVE  /\ r \in Notification
           /\ req[r].pc = "send"
           /\ req' \in [Request -> RequestState]
           /\ OthersStay(r)
           /\ UNCHANGED <<known, redis, inbox, stage, holder, answered, now>>
           /\ Fields(r, "failed", NoProcess, req[r].code, req[r].device, NoToken, NoEntry)
<1>1. r \in Notification /\ req[r].pc = "send" /\ r \notin Creation
  BY DEF RereadFails, Base, Course, Request, TriggerAssumption
<1>2. "failed" \in Pc
  BY DEF Pc
<1>. QED BY <1>1, <1>2, FinishFields DEF RereadFails, Base

LEMMA SendFields ==
    ASSUME TriggerAssumption, Base, NEW r \in Request, Send(r)
    PROVE  /\ r \in Notification
           /\ req[r].pc = "send"
           /\ req' \in [Request -> RequestState]
           /\ OthersStay(r)
           /\ \/ /\ useRedis
                 /\ inbox' = [p \in Process |-> Append(inbox[p],
                                 [code |-> req[r].code, token |-> req[r].token])]
                 /\ UNCHANGED <<known, answered>>
                 /\ Fields(r, "del", req[r].proc, req[r].code, req[r].device,
                           req[r].token, req[r].entry)
              \/ /\ ~useRedis
                 /\ UNCHANGED inbox
                 /\ LocalSendToken(req[r].proc, req[r].code, req[r].token)
                 /\ Fields(r, "done", NoProcess, req[r].code, req[r].device, NoToken, NoEntry)
<1> USE DEF Base
<1>1. /\ r \in Notification
      /\ req[r].pc = "send"
      /\ r \notin Creation
  BY DEF Send, Course, Request, TriggerAssumption
<1>2. "del" \in Pc /\ "done" \in Pc
  BY DEF Pc
<1>3. CASE useRedis
  <2>1. /\ inbox' = [p \in Process |-> Append(inbox[p],
                       [code |-> req[r].code, token |-> req[r].token])]
        /\ UNCHANGED <<known, answered>>
        /\ Goto(r, "del")
    BY <1>3 DEF Send
  <2>. QED BY <1>1, <1>2, <1>3, <2>1, GotoFields
<1>4. CASE ~useRedis
  <2>1. /\ UNCHANGED inbox
        /\ LocalSendToken(req[r].proc, req[r].code, req[r].token)
        /\ Finish(r, "done")
    BY <1>4 DEF Send
  <2>. QED BY <1>1, <1>2, <1>4, <2>1, FinishFields
<1>. QED BY <1>3, <1>4

\* The commands whose answer nobody looks at.
LEMMA RedisFields ==
    ASSUME TriggerAssumption, Base, NEW r \in Request, RedisSet(r) \/ RedisDel(r)
    PROVE  /\ req' \in [Request -> RequestState]
           /\ OthersStay(r)
           /\ Fields(r, "done", NoProcess, req[r].code, req[r].device, NoToken,
                     IF r \in Creation THEN req[r].entry ELSE NoEntry)
           /\ RedisSet(r) => r \in Creation /\ req[r].pc = "set"
           /\ RedisDel(r) => r \in Notification /\ req[r].pc = "del"
<1>1. "done" \in Pc
  BY DEF Pc
<1>2. Finish(r, "done")
  BY DEF RedisSet, RedisDel
<1>. QED BY <1>1, <1>2, FinishFields DEF Base, RedisSet, RedisDel, Course, Request

-----------------------------------------------------------------------------
(* Who moves, and that creations stand. *)

Acts(r) == CreateStart(r) \/ RegisterStart(r) \/ NotifyStart(r) \/ Continue(r)

LEMMA Movers ==
    ASSUME TriggerAssumption, Base, [Next]_vars
    PROVE  /\ UNCHANGED config
           /\ \/ /\ UNCHANGED req
                 /\ \/ Tick \/ UNCHANGED vars \/ \E p \in Process : Deliver(p)
                    \/ \E a \in answered : Confirm(a)
              \/ \E r \in Request : /\ Acts(r)
                                    /\ OthersStay(r)
                                    /\ req' \in [Request -> RequestState]
                                    /\ UNCHANGED now
<1>1. ASSUME NEW r \in Request, Acts(r)
      PROVE  OthersStay(r) /\ req' \in [Request -> RequestState]
  BY <1>1, CreateStartFields, CreateStoreFields, RedisGetFields, RegisterStartFields,
     GotFields, NotifyStartFields, ClaimFields, RereadFailsFields,
     SendFields, RedisFields DEF Acts, Continue
<1>2. ASSUME NEW r \in Request, Acts(r) PROVE UNCHANGED <<now, config>>
  BY <1>2 DEF Acts, Continue, CreateStart, RegisterStart, NotifyStart, CreateStore, RedisSet,
     RedisGet, RegisterGot, NotifyGot, Claim, RereadFails, Send, RedisDel
<1>. QED BY <1>1, <1>2 DEF Next, Acts, vars, Tick, Confirm, Deliver

\* A creation only goes on: what it has drawn and stored stays.
LEMMA CreationsStay ==
    ASSUME TriggerAssumption, Base, [Next]_vars, NEW q \in Creation
    PROVE  /\ req[q].pc # "idle" => /\ req'[q].pc # "idle"
                                    /\ req'[q].code = req[q].code
                                    /\ req'[q].device = req[q].device
           /\ Stored(q) => Stored(q)' /\ req'[q].entry = req[q].entry
           /\ Returned(q) => Returned(q)' /\ req'[q] = req[q]
           /\ req'[q] # req[q] => CreateStart(q) \/ CreateStore(q) \/ RedisSet(q)
<1>1. q \in Request /\ q \notin Registration \cup Notification
  BY DEF Request, TriggerAssumption
<1>2. CASE req'[q] = req[q]
  BY <1>2 DEF Stored, Returned
<1>3. CASE req'[q] # req[q]
  <2>1. Acts(q)
    BY <1>1, <1>3, Movers DEF OthersStay
  <2>2. CreateStart(q) \/ CreateStore(q) \/ RedisSet(q)
    BY <1>1, <2>1, RedisGetFields, RegisterStartFields, GotFields, NotifyStartFields,
       ClaimFields, RereadFailsFields, SendFields, RedisFields DEF Acts, Continue
  <2>3. CASE CreateStart(q)
    BY <1>1, <2>3, CreateStartFields DEF Stored, Returned
  <2>4. CASE CreateStore(q)
    BY <1>1, <2>4, CreateStoreFields DEF Fields, Stored, Returned
  <2>5. CASE RedisSet(q)
    BY <1>1, <2>5, RedisFields DEF Fields, Stored, Returned
  <2>. QED BY <2>2, <2>3, <2>4, <2>5
<1>. QED BY <1>2, <1>3

LEMMA OriginStays ==
    ASSUME TriggerAssumption, Base, [Next]_vars, NEW x, NEW c, Origin(x, c)
    PROVE  OriginNext(x, c)
<1>1. PICK q \in Creation : /\ Stored(q)
                            /\ req[q].code = c
                            /\ x.device = req[q].device
                            /\ x.expires = req[q].entry.expires
  BY DEF Origin
<1>2. req[q].pc # "idle"
  BY <1>1 DEF Stored
<1>3. /\ Stored(q)'
      /\ req'[q].code = c
      /\ x.device = req'[q].device
      /\ x.expires = req'[q].entry.expires
  BY <1>1, <1>2, CreationsStay
<1>. QED BY <1>3 DEF OriginNext

\* What is in the map of a process after a step.
KnownStep(p, c) ==
    \/ known'[p][c] = known[p][c]
    \/ /\ known'[p][c] = NoEntry
       /\ known[p][c] # NoEntry
       /\ known[p][c].expires < now
    \/ \E q \in Creation : /\ CreateStore(q)
                           /\ req[q].proc = p /\ req[q].code = c
                           /\ known'[p][c] # NoEntry
                           /\ known'[p][c].device = req'[q].device
                           /\ known'[p][c].expires = req'[q].entry.expires
                           /\ known'[p][c].response = NoRequest
    \/ \E w \in Registration : /\ RegisterStart(w)
                               /\ Fields(w, "waiting", p, c, req'[w].device, req[w].token,
                                         NoEntry)
                               /\ known[p][c] # NoEntry
                               /\ known'[p][c] = [known[p][c] EXCEPT !.response = w]
    \/ \E w \in Registration : /\ RegisterGot(w)
                               /\ req[w].entry # NoEntry
                               /\ Fields(w, "waiting", p, c, req[w].device, req[w].token,
                                         req[w].entry)
                               /\ req[w].proc = p /\ req[w].code = c
                               /\ known'[p][c] = [req[w].entry EXCEPT !.response = w]
    \/ \E n \in Notification : /\ NotifyGot(n)
                               /\ req[n].entry # NoEntry
                               /\ req[n].proc = p /\ req[n].code = c
                               /\ known'[p][c] = req[n].entry
    \/ /\ known'[p][c] = NoEntry
       /\ \E t \in TokenId : LocalSendToken(p, c, t)
       /\ \/ \E u \in Process : Deliver(u)
          \/ \E n \in Notification : Send(n) /\ req[n].code = c

LEMMA CleanUpSteps ==
    ASSUME Typed, NEW p \in Process, NEW c \in Code
    PROVE  /\ CleanUp(known[p]) \in [Code -> TriggerEntry \cup {NoEntry}]
           /\ \/ CleanUp(known[p])[c] = known[p][c]
              \/ /\ CleanUp(known[p])[c] = NoEntry
                 /\ known[p][c] # NoEntry
                 /\ known[p][c].expires < now
BY DEF Typed, CleanUp

LEMMA KnownSteps ==
    ASSUME TriggerAssumption, Base, [Next]_vars, NEW p \in Process, NEW c \in Code
    PROVE  KnownStep(p, c)
<1> USE DEF Base, Typed
<1>1. ASSUME NEW r \in Request, CreateStart(r) PROVE KnownStep(p, c)
  <2>1. PICK u \in host : known' = [known EXCEPT ![u] = CleanUp(@)]
    BY <1>1, CreateStartFields
  <2>2. CASE u = p
    BY <2>1, <2>2, CleanUpSteps DEF KnownStep
  <2>3. CASE u # p
    BY <2>1, <2>3 DEF KnownStep
  <2>. QED BY <2>2, <2>3
<1>2. ASSUME NEW r \in Request, CreateStore(r) PROVE KnownStep(p, c)
  <2>1. r \in Creation /\ req[r].proc \in Process /\ req[r].code \in Code
    BY <1>2, CreateStoreFields DEF Course
  <2> DEFINE x == NewEntry(r)
  <2>2. /\ x \in TriggerEntry
        /\ x.device = req[r].device
        /\ x.expires = now + Validity
        /\ x.response = NoRequest
        /\ known' = [known EXCEPT ![req[r].proc][req[r].code] = x]
        /\ req'[r].device = req[r].device
        /\ req'[r].entry = x
    BY <1>2, CreateStoreFields DEF Fields
  <2> HIDE DEF x
  <2>3. x # NoEntry
    BY <2>2 DEF TriggerAssumption, TriggerEntry
  <2>4. CASE req[r].proc = p /\ req[r].code = c
    BY <1>2, <2>1, <2>2, <2>3, <2>4 DEF KnownStep
  <2>5. CASE ~(req[r].proc = p /\ req[r].code = c)
    BY <2>1, <2>2, <2>5 DEF KnownStep
  <2>. QED BY <2>4, <2>5
<1>3. ASSUME NEW r \in Request, RegisterStart(r) PROVE KnownStep(p, c)
  <2>1. PICK q \in Creation, d \in Device, u \in host :
           LET code == req[q].code
               map == CleanUp(known[u])
           IN /\ code \in Code
              /\ \/ /\ map[code] # NoEntry
                    /\ known' = [known EXCEPT ![u] = [map EXCEPT ![code].response = r]]
                    /\ Fields(r, "waiting", u, code, d, req[r].token, NoEntry)
                 \/ /\ map[code] = NoEntry
                    /\ known' = [known EXCEPT ![u] = map]
    BY <1>3, RegisterStartFields
  <2>2. CASE u # p
    BY <2>1, <2>2 DEF KnownStep
  <2>3. CASE u = p /\ known' = [known EXCEPT ![p] = CleanUp(known[p])]
    BY <2>3, CleanUpSteps DEF KnownStep
  <2>4. CASE /\ u = p
             /\ CleanUp(known[p])[req[q].code] # NoEntry
             /\ known' = [known EXCEPT ![p] =
                            [CleanUp(known[p]) EXCEPT ![req[q].code].response = r]]
             /\ Fields(r, "waiting", p, req[q].code, d, req[r].token, NoEntry)
    <3>1. CASE req[q].code = c
      <4>1. CleanUp(known[p])[c] = known[p][c] /\ known[p][c] # NoEntry
        BY <2>4, <3>1, CleanUpSteps
      <4>2. known'[p][c] = [CleanUp(known[p])[c] EXCEPT !.response = r]
        BY <2>1, <2>4, <3>1, CleanUpSteps
      <4>3. Fields(r, "waiting", p, c, req'[r].device, req[r].token, NoEntry)
        BY <2>4, <3>1 DEF Fields
      <4>4. r \in Registration
        BY <1>3, RegisterStartFields
      <4>. QED BY <1>3, <4>1, <4>2, <4>3, <4>4 DEF KnownStep
    <3>2. CASE req[q].code # c
      <4>1. known'[p][c] = CleanUp(known[p])[c]
        BY <2>1, <2>4, <3>2, CleanUpSteps
      <4>. QED BY <4>1, CleanUpSteps DEF KnownStep
    <3>. QED BY <3>1, <3>2
  <2>. QED BY <2>1, <2>2, <2>3, <2>4
<1>4. ASSUME NEW r \in Request, RegisterGot(r) \/ NotifyGot(r) PROVE KnownStep(p, c)
  <2>1. req[r].proc \in Process /\ req[r].code \in Code
    BY <1>4, GotFields DEF Course
  <2>2. CASE UNCHANGED known
    BY <2>2 DEF KnownStep
  <2>3. CASE ~UNCHANGED known /\ RegisterGot(r)
    <3>1. /\ r \in Registration
          /\ req[r].entry # NoEntry
          /\ known' = [known EXCEPT ![req[r].proc][req[r].code] =
                         [req[r].entry EXCEPT !.response = r]]
          /\ Fields(r, "waiting", req[r].proc, req[r].code, req[r].device,
                    req[r].token, req[r].entry)
      BY <2>3, GotFields DEF RegisterGot, TriggerAssumption
    <3>2. CASE req[r].proc = p /\ req[r].code = c
      <4>1. known'[p][c] = [req[r].entry EXCEPT !.response = r]
        BY <3>1, <3>2
      <4>2. Fields(r, "waiting", p, c, req[r].device, req[r].token, req[r].entry)
        BY <3>1, <3>2
      <4>. QED BY <2>3, <3>1, <3>2, <4>1, <4>2 DEF KnownStep
    <3>3. CASE ~(req[r].proc = p /\ req[r].code = c)
      BY <2>1, <3>1, <3>3 DEF KnownStep
    <3>. QED BY <3>2, <3>3
  <2>4. CASE ~UNCHANGED known /\ NotifyGot(r)
    <3>1. /\ r \in Notification
          /\ req[r].entry # NoEntry
          /\ known' = [known EXCEPT ![req[r].proc][req[r].code] = req[r].entry]
      BY <2>4, GotFields DEF NotifyGot, TriggerAssumption
    <3>2. CASE req[r].proc = p /\ req[r].code = c
      <4>1. known'[p][c] = req[r].entry
        BY <3>1, <3>2
      <4>. QED BY <2>4, <3>1, <3>2, <4>1 DEF KnownStep
    <3>3. CASE ~(req[r].proc = p /\ req[r].code = c)
      BY <2>1, <3>1, <3>3 DEF KnownStep
    <3>. QED BY <3>2, <3>3
  <2>. QED BY <1>4, <2>2, <2>3, <2>4
<1>5. ASSUME NEW u \in Process, NEW d \in Code, NEW t \in TokenId, LocalSendToken(u, d, t),
             \/ \E v \in Process : Deliver(v)
             \/ \E n \in Notification : Send(n) /\ req[n].code = d
      PROVE  KnownStep(p, c)
  <2>1. known' = [known EXCEPT ![u][d] = NoEntry]
    BY <1>5 DEF LocalSendToken
  <2>2. CASE u = p /\ d = c
    <3>1. known'[p][c] = NoEntry
      BY <2>1, <2>2
    <3>. QED BY <1>5, <2>2, <3>1 DEF KnownStep
  <2>3. CASE ~(u = p /\ d = c)
    BY <2>1, <2>3 DEF KnownStep
  <2>. QED BY <2>2, <2>3
<1>6. ASSUME NEW r \in Request, Send(r) PROVE KnownStep(p, c)
  <2>1. r \in Notification /\ req[r].pc = "send"
    BY <1>6, SendFields
  <2>2. req[r].proc \in Process /\ req[r].code \in Code /\ req[r].token \in TokenId
    BY <2>1 DEF Course
  <2>3. CASE UNCHANGED known
    BY <2>3 DEF KnownStep
  <2>. QED BY <1>5, <1>6, <2>1, <2>2, <2>3, SendFields
<1>7. ASSUME NEW u \in Process, Deliver(u) PROVE KnownStep(p, c)
  <2>1. inbox[u] \in Seq(Message) /\ inbox[u] # <<>>
    BY <1>7 DEF Deliver
  <2>2. Head(inbox[u]) \in Message
    BY <2>1
  <2>. QED BY <1>5, <1>7, <2>2 DEF Deliver, Message
<1>8. CASE UNCHANGED known
  BY <1>8 DEF KnownStep
<1>. QED
  BY <1>1, <1>2, <1>3, <1>4, <1>6, <1>7, <1>8
  DEF Next, vars, Continue, NotifyStart, RedisSet, RedisGet, Claim, RereadFails,
      RedisDel, Tick, Confirm

-----------------------------------------------------------------------------
(* The types stay, and requests keep to their course. *)

LEMMA KnownType ==
    ASSUME TriggerAssumption, Base, [Next]_vars
    PROVE  known' \in [Process -> [Code -> TriggerEntry \cup {NoEntry}]]
<1> USE DEF Base, Typed
<1>1. ASSUME NEW u \in Process, NEW m \in [Code -> TriggerEntry \cup {NoEntry}],
             known' = [known EXCEPT ![u] = m]
      PROVE  known' \in [Process -> [Code -> TriggerEntry \cup {NoEntry}]]
  BY <1>1
<1>2. ASSUME NEW u, NEW d, NEW x \in TriggerEntry \cup {NoEntry},
             known' = [known EXCEPT ![u][d] = x]
      PROVE  known' \in [Process -> [Code -> TriggerEntry \cup {NoEntry}]]
  BY <1>2
<1>3. ASSUME NEW r \in Request, CreateStart(r)
      PROVE  known' \in [Process -> [Code -> TriggerEntry \cup {NoEntry}]]
  <2>1. PICK u \in host : known' = [known EXCEPT ![u] = CleanUp(@)]
    BY <1>3, CreateStartFields
  <2>. QED BY <1>1, <2>1 DEF CleanUp
<1>4. ASSUME NEW r \in Request, RegisterStart(r)
      PROVE  known' \in [Process -> [Code -> TriggerEntry \cup {NoEntry}]]
  <2>1. r \in Registration
    BY <1>4, RegisterStartFields
  <2>2. PICK q \in Creation, u \in host :
           LET code == req[q].code
               map == CleanUp(known[u])
           IN /\ code \in Code
              /\ \/ /\ map[code] # NoEntry
                    /\ known' = [known EXCEPT ![u] = [map EXCEPT ![code].response = r]]
                 \/ known' = [known EXCEPT ![u] = map]
    BY <1>4, RegisterStartFields
  <2> DEFINE map == CleanUp(known[u])
             e == [map[req[q].code] EXCEPT !.response = r]
  <2>3. map \in [Code -> TriggerEntry \cup {NoEntry}]
    BY DEF CleanUp
  <2> HIDE DEF map
  <2>4. map[req[q].code] # NoEntry => e \in TriggerEntry
    BY <2>1, <2>2, <2>3 DEF TriggerEntry
  <2>5. \/ /\ map[req[q].code] # NoEntry
           /\ known' = [known EXCEPT ![u] = [map EXCEPT ![req[q].code] = e]]
        \/ known' = [known EXCEPT ![u] = map]
    BY <2>2 DEF map
  <2> HIDE DEF e
  <2>6. CASE known' = [known EXCEPT ![u] = map]
    BY <1>1, <2>3, <2>6
  <2>7. CASE /\ map[req[q].code] # NoEntry
             /\ known' = [known EXCEPT ![u] = [map EXCEPT ![req[q].code] = e]]
    <3>1. [map EXCEPT ![req[q].code] = e] \in [Code -> TriggerEntry \cup {NoEntry}]
      BY <2>3, <2>4, <2>7
    <3>. QED BY <1>1, <2>7, <3>1
  <2>. QED BY <2>5, <2>6, <2>7
<1>5. ASSUME NEW r \in Request, CreateStore(r)
      PROVE  known' \in [Process -> [Code -> TriggerEntry \cup {NoEntry}]]
  <2>1. /\ known' = [known EXCEPT ![req[r].proc][req[r].code] = NewEntry(r)]
        /\ NewEntry(r) \in TriggerEntry
    BY <1>5, CreateStoreFields
  <2>. QED BY <1>2, <2>1
<1>6. ASSUME NEW r \in Request, RegisterGot(r) \/ NotifyGot(r)
      PROVE  known' \in [Process -> [Code -> TriggerEntry \cup {NoEntry}]]
  <2>1. req[r].entry \in TriggerEntry \cup {NoEntry}
    BY DEF RequestState
  <2>2. r \in Registration /\ req[r].entry # NoEntry =>
          [req[r].entry EXCEPT !.response = r] \in TriggerEntry
    BY <2>1 DEF TriggerEntry
  <2>3. CASE UNCHANGED known
    BY <2>3
  <2>4. CASE /\ r \in Registration
             /\ req[r].entry # NoEntry
             /\ known' = [known EXCEPT ![req[r].proc][req[r].code] =
                            [req[r].entry EXCEPT !.response = r]]
    BY <1>2, <2>2, <2>4
  <2>5. CASE known' = [known EXCEPT ![req[r].proc][req[r].code] = req[r].entry]
    BY <1>2, <2>1, <2>5
  <2>. QED BY <1>6, <2>3, <2>4, <2>5, GotFields
<1>7. ASSUME NEW u, NEW d, NEW t, LocalSendToken(u, d, t)
      PROVE  known' \in [Process -> [Code -> TriggerEntry \cup {NoEntry}]]
  BY <1>2, <1>7 DEF LocalSendToken
<1>8. CASE UNCHANGED known
  BY <1>8
<1>. QED
  BY <1>3, <1>4, <1>5, <1>6, <1>7, <1>8, SendFields
  DEF Next, vars, Continue, NotifyStart, RedisSet, RedisGet, Claim, RereadFails,
      RedisDel, Tick, Confirm, Deliver

\* The tokens that are answered with, and the messages on the way.
LEMMA InboxSteps ==
    ASSUME TriggerAssumption, Base, [Next]_vars
    PROVE  \/ UNCHANGED inbox
           \/ \E r \in Notification :
                /\ Send(r) /\ useRedis
                /\ inbox' = [p \in Process |-> Append(inbox[p],
                                [code |-> req[r].code, token |-> req[r].token])]
                /\ [code |-> req[r].code, token |-> req[r].token] \in Message
           \/ \E p \in Process :
                /\ Deliver(p) /\ useRedis
                /\ inbox' = [inbox EXCEPT ![p] = Tail(@)]
                /\ inbox[p] # <<>>
<1>1. ASSUME NEW r \in Request, Send(r), inbox' # inbox
      PROVE  /\ r \in Notification /\ useRedis
             /\ inbox' = [p \in Process |-> Append(inbox[p],
                             [code |-> req[r].code, token |-> req[r].token])]
             /\ [code |-> req[r].code, token |-> req[r].token] \in Message
  <2>1. r \in Notification /\ req[r].pc = "send"
    BY <1>1, SendFields
  <2>2. req[r].code \in Code /\ req[r].token \in TokenId
    BY <2>1 DEF Base, Course
  <2>. QED BY <1>1, <2>1, <2>2, SendFields DEF Message
<1>2. ASSUME NEW p \in Process, Deliver(p)
      PROVE  /\ useRedis
             /\ inbox' = [inbox EXCEPT ![p] = Tail(@)]
             /\ inbox[p] # <<>>
  BY <1>2 DEF Deliver, Base, Mode, Typed
<1>. QED
  BY <1>1, <1>2
  DEF Next, vars, Continue, NotifyStart, CreateStart, RegisterStart, CreateStore, RedisSet,
      RedisGet, RegisterGot, NotifyGot, Claim, RereadFails,
      RedisDel, Tick, Confirm

LEMMA RedisSteps ==
    ASSUME TriggerAssumption, Base, [Next]_vars, NEW c \in Code
    PROVE  \/ redis'[c] = redis[c]
           \/ \E q \in Creation :
                /\ RedisSet(q) /\ req[q].code = c
                /\ redis'[c] = [entry |-> req[q].entry, until |-> now + Validity]
           \/ /\ redis'[c] = NoEntry
              /\ \E n \in Notification : RedisDel(n) /\ req[n].code = c
<1> USE DEF Base, Typed
<1>1. ASSUME NEW r \in Request, RedisSet(r), redis'[c] # redis[c]
      PROVE  /\ r \in Creation /\ req[r].code = c
             /\ redis'[c] = [entry |-> req[r].entry, until |-> now + Validity]
  BY <1>1, RedisFields DEF RedisSet
<1>2. ASSUME NEW r \in Request, RedisDel(r), redis'[c] # redis[c]
      PROVE  r \in Notification /\ req[r].code = c /\ redis'[c] = NoEntry
  BY <1>2, RedisFields DEF RedisDel
<1>. QED
  BY <1>1, <1>2
  DEF Next, vars, Continue, NotifyStart, CreateStart, RegisterStart, CreateStore,
      RedisGet, RegisterGot, NotifyGot, Claim, RereadFails, Send, Tick, Confirm, Deliver

LEMMA AnsweredSteps ==
    ASSUME TriggerAssumption, Base, [Next]_vars
    PROVE  \/ UNCHANGED answered
           \/ \E p \in Process, c \in Code, t \in TokenId :
                /\ LocalSendToken(p, c, t)
                /\ \/ \E n \in Notification : /\ Send(n) /\ ~useRedis
                                              /\ req[n].proc = p /\ req[n].code = c
                                              /\ req[n].token = t
                   \/ /\ Deliver(p)
                      /\ Head(inbox[p]).code = c /\ Head(inbox[p]).token = t
                      /\ inbox[p] # <<>>
<1> USE DEF Base, Typed
<1>1. ASSUME NEW r \in Request, Send(r), answered' # answered
      PROVE  /\ r \in Notification /\ ~useRedis
             /\ req[r].proc \in Process /\ req[r].code \in Code /\ req[r].token \in TokenId
             /\ LocalSendToken(req[r].proc, req[r].code, req[r].token)
  <2>1. r \in Notification /\ req[r].pc = "send"
    BY <1>1, SendFields
  <2>2. req[r].proc \in Process /\ req[r].code \in Code /\ req[r].token \in TokenId
    BY <2>1 DEF Course
  <2>. QED BY <1>1, <2>1, <2>2, SendFields
<1>2. ASSUME NEW p \in Process, Deliver(p)
      PROVE  /\ inbox[p] # <<>>
             /\ Head(inbox[p]).code \in Code /\ Head(inbox[p]).token \in TokenId
             /\ LocalSendToken(p, Head(inbox[p]).code, Head(inbox[p]).token)
  <2>1. inbox[p] \in Seq(Message) /\ inbox[p] # <<>>
    BY <1>2 DEF Deliver
  <2>2. Head(inbox[p]) \in Message
    BY <2>1
  <2>. QED BY <1>2, <2>1, <2>2 DEF Deliver, Message
<1>3. \/ UNCHANGED answered
      \/ \E r \in Request : Send(r)
      \/ \E p \in Process : Deliver(p)
  BY DEF Next, vars, Continue, NotifyStart, CreateStart, RegisterStart, CreateStore,
     RedisSet, RedisGet, RegisterGot, NotifyGot, Claim, RereadFails,
      RedisDel, Tick, Confirm
<1>4. CASE answered' # answered /\ \E r \in Request : Send(r)
  BY <1>1, <1>4
<1>5. CASE \E p \in Process : Deliver(p)
  BY <1>2, <1>5
<1>. QED BY <1>3, <1>4, <1>5

LEMMA TokenSteps ==
    ASSUME TriggerAssumption, Base, [Next]_vars
    PROVE  \/ UNCHANGED <<stage, holder>>
           \/ \E n \in Notification, s \in {"LOCKED", "REJECTED"} :
                /\ Claim(n)
                /\ stage[req[n].token] = "OPEN"
                /\ stage' = [stage EXCEPT ![req[n].token] = s]
                /\ holder' = [holder EXCEPT ![req[n].token] = req[n].entry.device]
                /\ req[n].entry \in TriggerEntry
           \/ \E t \in TokenId :
                /\ stage[t] = "OPEN"
                /\ stage' = [stage EXCEPT ![t] = "EXPIRED"]
                /\ UNCHANGED holder
           \/ \E t \in TokenId, s \in Outcome :
                /\ stage[t] = "LOCKED"
                /\ stage' = [stage EXCEPT ![t] = s]
                /\ UNCHANGED holder
<1>1. ASSUME NEW r \in Request, Claim(r), ~UNCHANGED <<stage, holder>>
      PROVE  \/ \E n \in Notification, s \in {"LOCKED", "REJECTED"} :
                  /\ Claim(n)
                  /\ stage[req[n].token] = "OPEN"
                  /\ stage' = [stage EXCEPT ![req[n].token] = s]
                  /\ holder' = [holder EXCEPT ![req[n].token] = req[n].entry.device]
                  /\ req[n].entry \in TriggerEntry
             \/ \E t \in TokenId :
                  /\ stage[t] = "OPEN"
                  /\ stage' = [stage EXCEPT ![t] = "EXPIRED"]
                  /\ UNCHANGED holder
  <2>1. r \in Notification /\ req[r].pc = "claim"
    BY <1>1, ClaimFields
  <2>2. req[r].token \in TokenId
    BY <2>1 DEF Base, Course, Request
  <2>. QED BY <1>1, <2>1, <2>2, ClaimFields
<1>2. ASSUME NEW a \in answered, Confirm(a)
      PROVE  \E t \in TokenId, s \in Outcome :
               /\ stage[t] = "LOCKED"
               /\ stage' = [stage EXCEPT ![t] = s]
               /\ UNCHANGED holder
  <2>1. a.token \in TokenId
    BY DEF Base, Typed
  <2>. QED BY <1>2, <2>1 DEF Confirm, Tokens!Confirm
<1>3. \/ UNCHANGED <<stage, holder>>
      \/ \E r \in Request : Claim(r)
      \/ \E a \in answered : Confirm(a)
  BY DEF Next, vars, Continue, NotifyStart, CreateStart, RegisterStart, CreateStore,
     RedisSet, RedisGet, RegisterGot, NotifyGot, RereadFails, Send, RedisDel, Tick, Deliver
<1>4. CASE \E r \in Request : Claim(r) /\ ~UNCHANGED <<stage, holder>>
  BY <1>1, <1>4
<1>5. CASE \E a \in answered : Confirm(a)
  BY <1>2, <1>5
<1>. QED BY <1>3, <1>4, <1>5

LEMMA TypedStep ==
    ASSUME TriggerAssumption, Base, [Next]_vars
    PROVE  Typed'
<1> USE DEF Base, Typed
<1>1. UNCHANGED config /\ req' \in [Request -> RequestState]
  BY Movers
<1>2. useRedis' \in BOOLEAN /\ early' \in BOOLEAN /\ host' \subseteq Process
  BY <1>1 DEF config
<1>3. redis' \in [Code -> [entry : TriggerEntry, until : Int] \cup {NoEntry}]
  <2>1. ASSUME NEW r \in Request, RedisSet(r)
        PROVE  redis' \in [Code -> [entry : TriggerEntry, until : Int] \cup {NoEntry}]
    <3>1. r \in Creation /\ Stored(r)
      BY <2>1, RedisFields DEF Stored
    <3>2. [entry |-> req[r].entry, until |-> now + Validity]
            \in [entry : TriggerEntry, until : Int]
      BY <3>1 DEF Creates, TriggerAssumption
    <3>. QED BY <2>1, <3>2 DEF RedisSet
  <2>2. ASSUME NEW r \in Request, RedisDel(r)
        PROVE  redis' \in [Code -> [entry : TriggerEntry, until : Int] \cup {NoEntry}]
    BY <2>2 DEF RedisDel
  <2>. QED
    BY <2>1, <2>2
    DEF Next, vars, Continue, NotifyStart, CreateStart, RegisterStart, CreateStore,
        RedisGet, RegisterGot, NotifyGot, Claim, RereadFails, Send, Tick, Confirm, Deliver
<1>4. inbox' \in [Process -> Seq(Message)]
  <2>1. ASSUME NEW m \in Message, inbox' = [p \in Process |-> Append(inbox[p], m)]
        PROVE  inbox' \in [Process -> Seq(Message)]
    BY <2>1
  <2>2. ASSUME NEW p \in Process, inbox' = [inbox EXCEPT ![p] = Tail(@)], inbox[p] # <<>>
        PROVE  inbox' \in [Process -> Seq(Message)]
    BY <2>2
  <2>. QED BY <2>1, <2>2, InboxSteps
<1>5. /\ stage' \in [TokenId -> Stage]
      /\ holder' \in [TokenId -> Device \cup {NoDevice}]
  <2>1. ASSUME NEW u, NEW s \in {"LOCKED", "REJECTED"}, NEW x \in TriggerEntry,
               stage' = [stage EXCEPT ![u] = s], holder' = [holder EXCEPT ![u] = x.device]
        PROVE  /\ stage' \in [TokenId -> Stage]
               /\ holder' \in [TokenId -> Device \cup {NoDevice}]
    BY <2>1 DEF TriggerEntry, Stage
  <2>2. CASE UNCHANGED <<stage, holder>>
    BY <2>2
  <2>3. ASSUME NEW u, NEW s \in Outcome, stage' = [stage EXCEPT ![u] = s], UNCHANGED holder
        PROVE  /\ stage' \in [TokenId -> Stage]
               /\ holder' \in [TokenId -> Device \cup {NoDevice}]
    BY <2>3 DEF Stage
  <2>4. ASSUME NEW u, stage' = [stage EXCEPT ![u] = "EXPIRED"], UNCHANGED holder
        PROVE  /\ stage' \in [TokenId -> Stage]
               /\ holder' \in [TokenId -> Device \cup {NoDevice}]
    BY <2>4 DEF Stage
  <2>. QED BY <2>1, <2>2, <2>3, <2>4, TokenSteps
<1>6. answered' \subseteq [to : Registration, token : TokenId]
  <2>1. ASSUME NEW p \in Process, NEW c \in Code, NEW t \in TokenId, LocalSendToken(p, c, t)
        PROVE  answered' \subseteq [to : Registration, token : TokenId]
    <3>1. known[p][c] # NoEntry => known[p][c].response \in Registration \cup {NoRequest}
      BY DEF TriggerEntry
    <3>. QED BY <2>1, <3>1 DEF LocalSendToken
  <2>. QED BY <2>1, AnsweredSteps
<1>7. now' \in 0..MaxNow
  <2>1. UNCHANGED now \/ Tick
    BY DEF Next, vars, Continue, NotifyStart, CreateStart, RegisterStart, CreateStore,
       RedisSet, RedisGet, RegisterGot, NotifyGot, Claim, RereadFails, Send,
     RedisDel, Deliver, Confirm
  <2>. QED BY <2>1 DEF Tick, TriggerAssumption
<1>. QED BY <1>1, <1>2, <1>3, <1>4, <1>5, <1>6, <1>7, KnownType

LEMMA NowGrows ==
    ASSUME TriggerAssumption, Base, [Next]_vars
    PROVE  now \in Int /\ now' \in Int /\ now <= now'
<1>1. UNCHANGED now \/ now' = now + 1
  BY DEF Next, vars, Continue, NotifyStart, CreateStart, RegisterStart, CreateStore,
     RedisSet, RedisGet, RegisterGot, NotifyGot, Claim, RereadFails, Send,
     RedisDel, Deliver, Tick, Confirm
<1>. QED BY <1>1 DEF Base, Typed

LEMMA CourseStep ==
    ASSUME TriggerAssumption, Base, [Next]_vars, NEW r \in Request
    PROVE  Course(r)'
<1> USE DEF Base
<1>1. UNCHANGED config /\ Typed'
  BY Movers, TypedStep
<1>2. CASE req'[r] = req[r]
  BY <1>1, <1>2 DEF Course, config
<1>3. CASE req'[r] # req[r]
  <2>1. Acts(r)
    BY <1>3, Movers DEF OthersStay
  <2>2. req'[r] \in RequestState
    BY <1>1 DEF Typed
  <2>a. ASSUME RegisterStart(r)
        PROVE  \E c \in Creation, p \in host :
                 /\ req[c].code \in Code
                 /\ req'[r].pc \in {"waiting", "get", "failed"}
                 /\ req'[r].proc = p
                 /\ req'[r].code = req[c].code
    <3>1. PICK c \in Creation, d \in Device, p \in host :
            /\ req[c].code \in Code
            /\ \E pc \in {"waiting", "get", "failed"} :
                 Fields(r, pc, p, req[c].code, d, req[r].token, NoEntry)
      BY <2>a, RegisterStartFields
    <3>. QED BY <3>1 DEF Fields
  <2> USE <1>1, <2>2 DEF Course, Fields, TriggerAssumption, config
  <2>3. CASE CreateStart(r)
    BY <2>3, CreateStartFields
  <2>4. CASE CreateStore(r)
    BY <2>4, CreateStoreFields
  <2>5. CASE RedisGet(r)
    BY <2>5, RedisGetFields
  <2>6. CASE RegisterStart(r)
    <3>1. r \in Registration
      BY <2>6, RegisterStartFields
    <3>2. PICK c \in Creation, p \in host :
            /\ req[c].code \in Code
            /\ req'[r].pc \in {"waiting", "get", "failed"}
            /\ req'[r].proc = p
            /\ req'[r].code = req[c].code
      BY <2>6, <2>a
    <3>. QED BY <3>1, <3>2
  <2>7. CASE RegisterGot(r) \/ NotifyGot(r)
    BY <2>7, GotFields
  <2>8. CASE NotifyStart(r)
    BY <2>8, NotifyStartFields
  <2>9. CASE Claim(r)
    BY <2>9, ClaimFields
  <2>10. CASE Send(r)
    BY <2>10, SendFields
  <2>12. CASE RereadFails(r)
    BY <2>12, RereadFailsFields
  <2>11. CASE RedisSet(r) \/ RedisDel(r)
    BY <2>11, RedisFields
  <2>. QED BY <2>1, <2>3, <2>4, <2>5, <2>6, <2>7, <2>8, <2>9, <2>10, <2>11, <2>12
         DEF Acts, Continue
<1>. QED BY <1>2, <1>3

LEMMA ModeStep ==
    ASSUME TriggerAssumption, Base, [Next]_vars
    PROVE  Mode'
<1> USE DEF Base
<1>1. UNCHANGED config
  BY Movers
<1>2. ASSUME ~useRedis, NEW r \in Request
      PROVE  req'[r].pc \notin {"set", "get", "got", "del"}
  <2>1. CASE req'[r] = req[r]
    BY <1>2, <2>1 DEF Mode
  <2>2. CASE req'[r] # req[r]
    <3>1. Acts(r)
      BY <2>2, Movers DEF OthersStay
    <3> USE DEF Fields, Mode
    <3>2. CASE Claim(r) \/ RereadFails(r) \/ Send(r)
      BY <1>2, <3>2, ClaimFields, RereadFailsFields, SendFields
    <3>3. CASE ~(Claim(r) \/ RereadFails(r) \/ Send(r))
      BY <1>2, <3>1, <3>3, CreateStartFields, CreateStoreFields, RedisGetFields,
         RegisterStartFields, GotFields, NotifyStartFields, RedisFields
         DEF Acts, Continue
    <3>. QED BY <3>2, <3>3
  <2>. QED BY <2>1, <2>2
<1>3. ~useRedis => UNCHANGED inbox
  BY InboxSteps
<1>. QED BY <1>1, <1>2, <1>3 DEF Mode, config

LEMMA CreatesStep ==
    ASSUME TriggerAssumption, Base, [Next]_vars, NEW q \in Creation
    PROVE  Creates(q)'
<1> USE DEF Base
<1>0. q \in Request
  BY DEF Request
<1>1. now' \in Int /\ now \in Int /\ now <= now' /\ Validity \in Int
  BY NowGrows DEF TriggerAssumption
<1>2. CASE req'[q] = req[q]
  BY <1>1, <1>2 DEF Creates, Stored, TriggerEntry
<1>3. CASE CreateStart(q)
  BY <1>0, <1>3, CreateStartFields DEF Fields, Creates, Stored
<1>4. CASE CreateStore(q)
  <2>1. PICK x \in TriggerEntry :
          /\ x.device = req[q].device
          /\ x.expires = now + Validity
          /\ x.response = NoRequest
          /\ req'[q].pc \in {"set", "done"}
          /\ req'[q].code = req[q].code
          /\ req'[q].device = req[q].device
          /\ req'[q].entry = x
    BY <1>0, <1>4, CreateStoreFields DEF Fields
  <2>2. req[q].pc = "create"
    BY <1>4 DEF CreateStore
  <2>. QED BY <1>1, <2>1, <2>2 DEF Creates, Stored
<1>5. CASE RedisSet(q)
  <2>1. /\ req'[q].pc = "done"
        /\ req'[q].code = req[q].code
        /\ req'[q].device = req[q].device
        /\ req'[q].entry = req[q].entry
        /\ req[q].pc = "set"
    BY <1>0, <1>5, RedisFields DEF Fields
  <2>. QED BY <1>1, <2>1 DEF Creates, Stored, TriggerEntry
<1>. QED BY <1>2, <1>3, <1>4, <1>5, CreationsStay

-----------------------------------------------------------------------------
(* Entries come from creations. *)

\* A code belongs to one device, and a drawn one to one creation.
LEMMA DeviceOfCode ==
    ASSUME TriggerAssumption, Base, NEW q \in Creation, NEW u \in Creation,
           req[q].pc # "idle", req[u].pc # "idle", req[q].code = req[u].code
    PROVE  /\ req[q].device = req[u].device
           /\ req[q].code \in Creation => q = u /\ req[q].code = q
BY DEF Base, Creates, TriggerCode, TriggerAssumption

LEMMA UsesStep ==
    ASSUME TriggerAssumption, Base, [Next]_vars, NEW r \in Registration \cup Notification
    PROVE  Uses(r)'
<1> USE DEF Base
<1>0. r \in Request /\ r \notin Creation
  BY DEF Request, TriggerAssumption
<1>1. ASSUME NEW q \in Creation, Returned(q) PROVE Returned(q)' /\ req'[q] = req[q]
  BY <1>1, CreationsStay
<1>2. CASE /\ req'[r].code = req[r].code
           /\ req'[r].entry \in {req[r].entry, NoEntry}
           /\ req[r].pc # "idle"
           /\ req'[r].pc = "got" => req'[r] = req[r]
  <2>1. PICK q \in Creation : Returned(q) /\ req[q].code = req[r].code
    BY <1>2 DEF Uses
  <2>2. Returned(q)' /\ req'[q].code = req'[r].code
    BY <1>1, <1>2, <2>1
  <2>3. req'[r].entry # NoEntry => OriginNext(req'[r].entry, req'[r].code)
    BY <1>2, OriginStays DEF Uses
  <2>4. req'[r].pc = "got" /\ req'[r].entry # NoEntry => req'[r].entry.response = NoRequest
    BY <1>2 DEF Uses
  <2>. QED BY <2>2, <2>3, <2>4 DEF Uses, Returned, Origin, OriginNext
<1>3. CASE req[r].pc = "idle" /\ req'[r] = req[r]
  BY <1>0, <1>3 DEF Uses, Course
<1>4. CASE RegisterStart(r)
  <2>1. PICK c \in Creation, p \in host :
          /\ Returned(c)
          /\ req'[r].pc # "got"
          /\ req'[r].code = req[c].code
          /\ req'[r].entry = NoEntry
    BY <1>0, <1>4, RegisterStartFields DEF Fields
  <2>2. Returned(c)' /\ req'[c] = req[c]
    BY <1>1, <2>1
  <2>. QED BY <2>1, <2>2 DEF Uses
<1>5. CASE NotifyStart(r)
  <2>1. PICK c \in Code, p \in host, t \in TokenId :
          /\ Displayed(c)
          /\ req'[r].pc # "got"
          /\ req'[r].code = c
          /\ req'[r].entry = known[p][c]
    BY <1>0, <1>5, NotifyStartFields DEF Fields
  <2>2. PICK w \in Registration : req[w].code = c
    BY <2>1 DEF Displayed
  <2>3. w \in Request /\ NoCode \notin Code
    BY DEF Request, Code, TriggerAssumption
  <2>4. req[w].pc # "idle"
    BY <2>2, <2>3 DEF Course
  <2>5. PICK q \in Creation : Returned(q) /\ req[q].code = c
    BY <2>2, <2>4 DEF Uses
  <2>6. Returned(q)' /\ req'[q].code = c
    BY <1>1, <2>5
  <2>7. known[p][c] # NoEntry => OriginNext(known[p][c], c)
    BY OriginStays DEF Typed
  <2>. QED BY <2>1, <2>6, <2>7 DEF Uses, Origin, OriginNext
<1>6. CASE RedisGet(r)
  <2>1. /\ req[r].pc = "get"
        /\ req[r].code \in Code
        /\ req'[r].code = req[r].code
        /\ req'[r].entry = RedisValue(req[r].code)
    BY <1>0, <1>6, RedisGetFields DEF Fields, Course
  <2>2. PICK q \in Creation : Returned(q) /\ req[q].code = req[r].code
    BY <2>1 DEF Uses
  <2>3. Returned(q)' /\ req'[q].code = req'[r].code
    BY <1>1, <2>1, <2>2
  <2>4. req'[r].entry # NoEntry => /\ Origin(req'[r].entry, req'[r].code)
                                   /\ req'[r].entry.response = NoRequest
    BY <2>1 DEF RedisValue
  <2>5. req'[r].entry # NoEntry => OriginNext(req'[r].entry, req'[r].code)
    BY <2>4, OriginStays
  <2>. QED BY <2>3, <2>4, <2>5 DEF Uses, Origin, OriginNext
<1>7. CASE req'[r] # req[r] /\ ~RegisterStart(r) /\ ~NotifyStart(r) /\ ~RedisGet(r)
  <2>1. Acts(r)
    BY <1>0, <1>7, Movers DEF OthersStay
  <2>2. /\ req'[r].code = req[r].code
        /\ req'[r].entry \in {req[r].entry, NoEntry}
        /\ req[r].pc # "idle"
        /\ req'[r].pc # "got"
    BY <1>0, <1>7, <2>1, CreateStartFields, CreateStoreFields, GotFields, ClaimFields,
       RereadFailsFields, SendFields, RedisFields DEF Acts, Continue, Fields
  <2>. QED BY <1>2, <2>2
<1>. QED BY <1>2, <1>3, <1>4, <1>5, <1>6, <1>7

LEMMA KnownOrigin ==
    ASSUME TriggerAssumption, Base, [Next]_vars, NEW p \in Process, NEW c \in Code,
           known'[p][c] # NoEntry
    PROVE  OriginNext(known'[p][c], c)
<1> USE DEF Base
<1>1. ASSUME NEW x \in TriggerEntry, Origin(x, c), known'[p][c].device = x.device,
             known'[p][c].expires = x.expires
      PROVE  OriginNext(known'[p][c], c)
  <2>1. OriginNext(x, c)
    BY <1>1, OriginStays
  <2>. QED BY <1>1, <2>1 DEF OriginNext
<1>2. CASE /\ known[p][c] # NoEntry
           /\ \/ known'[p][c] = known[p][c]
              \/ \E w \in Registration : known'[p][c] = [known[p][c] EXCEPT !.response = w]
  <2>1. known[p][c] \in TriggerEntry
    BY <1>2 DEF Typed
  <2>2. known'[p][c].device = known[p][c].device /\ known'[p][c].expires = known[p][c].expires
    BY <1>2, <2>1 DEF TriggerEntry
  <2>. QED BY <1>1, <1>2, <2>1, <2>2
<1>3. ASSUME NEW q \in Creation, CreateStore(q), req[q].code = c,
             known'[p][c].device = req'[q].device,
             known'[p][c].expires = req'[q].entry.expires
      PROVE  OriginNext(known'[p][c], c)
  <2>1. req'[q].pc \in {"set", "done"} /\ req'[q].code = c
    BY <1>3, CreateStoreFields DEF Fields, Request
  <2>. QED BY <1>3, <2>1 DEF OriginNext, Stored
<1>4. ASSUME NEW r \in Registration \cup Notification, req[r].entry # NoEntry, req[r].code = c,
             \/ known'[p][c] = req[r].entry
             \/ \E w \in Registration : known'[p][c] = [req[r].entry EXCEPT !.response = w]
      PROVE  OriginNext(known'[p][c], c)
  <2>1. req[r].entry \in TriggerEntry
    BY <1>4 DEF Typed, Request, RequestState
  <2>2. /\ known'[p][c].device = req[r].entry.device
        /\ known'[p][c].expires = req[r].entry.expires
    BY <1>4, <2>1 DEF TriggerEntry
  <2>. QED BY <1>1, <1>4, <2>1, <2>2 DEF Uses
<1>5. KnownStep(p, c)
  BY KnownSteps
<1>. QED BY <1>2, <1>3, <1>4, <1>5 DEF KnownStep

LEMMA BaseStep ==
    ASSUME TriggerAssumption, Base, [Next]_vars
    PROVE  Base'
<1>1. ASSUME NEW c \in Code, redis'[c] # NoEntry
      PROVE  OriginNext(redis'[c].entry, c) /\ redis'[c].entry.response = NoRequest
  <2>1. CASE redis'[c] = redis[c]
    BY <1>1, <2>1, OriginStays DEF Base
  <2>2. ASSUME NEW q \in Creation, RedisSet(q), req[q].code = c,
               redis'[c] = [entry |-> req[q].entry, until |-> now + Validity]
        PROVE  OriginNext(redis'[c].entry, c) /\ redis'[c].entry.response = NoRequest
    <3>1. Stored(q)
      BY <2>2 DEF RedisSet, Stored
    <3>2. /\ redis'[c].entry = req[q].entry
          /\ req[q].entry.device = req[q].device
          /\ req[q].entry.response = NoRequest
      BY <2>2, <3>1 DEF Base, Creates
    <3>3. Origin(redis'[c].entry, c)
      BY <2>2, <3>1, <3>2 DEF Origin
    <3>. QED BY <3>2, <3>3, OriginStays
  <2>. QED BY <1>1, <2>1, <2>2, RedisSteps
<1>. QED
  BY <1>1, TypedStep, ModeStep, CourseStep, CreatesStep, UsesStep, KnownOrigin
  DEF Base, Origin, OriginNext

LEMMA InitBase == TriggerAssumption /\ Init => Base
<1> SUFFICES ASSUME TriggerAssumption, Init
             PROVE  Base
  OBVIOUS
<1> USE DEF Init
<1>1. NewRequest \in RequestState /\ NewRequest.pc = "idle" /\ NewRequest.code = NoCode
         /\ NewRequest.entry = NoEntry
  BY DEF NewRequest, RequestState, Pc
<1>2. Typed
  BY <1>1 DEF Typed, Stage, TriggerAssumption
<1>3. Mode
  BY <1>1 DEF Mode
<1>4. \A r \in Request : Course(r)
  BY <1>1 DEF Course
<1>5. \A r \in Request : req[r].pc = "idle" /\ req[r].entry = NoEntry
  BY <1>1
<1>6. \A q \in Creation : Creates(q)
  BY <1>5 DEF Creates, Stored, Request
<1>7. \A r \in Registration \cup Notification : Uses(r)
  BY <1>5 DEF Uses, Request
<1>8. \A p \in Process, c \in Code : known[p][c] = NoEntry /\ redis[c] = NoEntry
  OBVIOUS
<1>9. \A c \in Code : redis[c] = NoEntry
  OBVIOUS
<1>. QED BY <1>2, <1>3, <1>4, <1>6, <1>7, <1>8, <1>9 DEF Base

(* Every variable keeps its type, whatever requests are in flight          *)
(* (trigger.ts 19-137).                                                    *)
THEOREM TypeCorrect == Spec => []TypeOK
<1>1. Init => Base
  BY TriggerAssumption, InitBase
<1>2. Base /\ [Next]_vars => Base'
  BY TriggerAssumption, BaseStep
<1>3. Base => TypeOK
  <2> SUFFICES ASSUME Base PROVE TypeOK
    OBVIOUS
  <2> USE DEF Base, Typed
  <2>1. \A p \in Process : \A i \in DOMAIN inbox[p] :
          inbox[p][i] \in [code : Code, token : TokenId]
    <3>1. ASSUME NEW p \in Process, NEW i \in DOMAIN inbox[p]
          PROVE  inbox[p][i] \in Message
      <4>1. inbox[p] \in Seq(Message)
        OBVIOUS
      <4>. QED BY <3>1, <4>1
    <3>. QED BY <3>1 DEF Message
  <2>2. ASSUME NEW r \in Request
        PROVE  /\ req[r].pc \in {"idle", "create", "set", "get", "got", "waiting",
                                 "claim", "send", "del", "done", "failed"}
               /\ req[r].pc # "idle" => req[r].code \in Code
               /\ req[r].pc \in {"create", "set", "got", "send"} => req[r].proc \in host
               /\ req[r].entry \in TriggerEntry \cup {NoEntry}
               /\ req[r].pc \in {"claim", "send"} =>
                    req[r].entry \in TriggerEntry /\ req[r].token \in TokenId
    <3>1. req[r] \in RequestState
      OBVIOUS
    <3>2. req[r].pc \in {"claim", "send"} => r \in Notification
      BY DEF Course, Request
    <3>. QED BY <3>1, <3>2 DEF RequestState, Pc, Course
  <2>. QED BY <2>1, <2>2 DEF TypeOK, Stage
<1>. QED BY <1>1, <1>2, <1>3, PTL DEF Spec
-----------------------------------------------------------------------------
(* Who waits goes on waiting, and what is claimed stays with its device. *)

LEMMA WaitingStays ==
    ASSUME TriggerAssumption, Base, [Next]_vars, NEW w \in Registration,
           req[w].pc = "waiting"
    PROVE  req'[w] = req[w]
<1>1. w \in Request
  BY DEF Request
<1>2. CASE req'[w] # req[w]
  <2>1. Acts(w)
    BY <1>1, <1>2, Movers DEF OthersStay
  <2>. QED
    BY <1>1, <2>1, CreateStartFields, CreateStoreFields, RedisGetFields, RegisterStartFields,
       GotFields, NotifyStartFields, ClaimFields, RereadFailsFields,
       SendFields, RedisFields DEF Acts, Continue
<1>. QED BY <1>2

LEMMA CodesStay ==
    ASSUME TriggerAssumption, Base, [Next]_vars, NEW r \in Request, req[r].pc # "idle"
    PROVE  req'[r].pc # "idle" /\ req'[r].code = req[r].code
<1>1. CASE req'[r] # req[r]
  <2>1. Acts(r)
    BY <1>1, Movers DEF OthersStay
  <2>. QED
    BY <2>1, CreateStartFields, CreateStoreFields, RedisGetFields, RegisterStartFields,
       GotFields, NotifyStartFields, ClaimFields, RereadFailsFields,
       SendFields, RedisFields DEF Acts, Continue, Fields
<1>. QED BY <1>1

\* A token in use stays with its device, which may confirm it.
LEMMA InUseStays ==
    ASSUME TriggerAssumption, Base, [Next]_vars, NEW t \in TokenId,
           stage[t] \in {"LOCKED"} \cup Outcome
    PROVE  stage'[t] \in {"LOCKED"} \cup Outcome /\ holder'[t] = holder[t]
<1>1. "OPEN" \notin {"LOCKED"} \cup Outcome
  BY DEF TriggerAssumption
<1>2. CASE UNCHANGED <<stage, holder>>
  BY <1>2
<1>3. ASSUME NEW u, NEW s, NEW d, stage[u] = "OPEN",
             stage' = [stage EXCEPT ![u] = s], holder' = [holder EXCEPT ![u] = d]
      PROVE  stage'[t] = stage[t] /\ holder'[t] = holder[t]
  BY <1>1, <1>3 DEF Base, Typed
<1>4. ASSUME NEW u \in TokenId, NEW s \in Outcome, stage' = [stage EXCEPT ![u] = s],
             UNCHANGED holder
      PROVE  stage'[t] \in {"LOCKED"} \cup Outcome /\ holder'[t] = holder[t]
  BY <1>4 DEF Base, Typed
<1>5. ASSUME NEW u, stage[u] = "OPEN", stage' = [stage EXCEPT ![u] = "EXPIRED"],
             UNCHANGED holder
      PROVE  stage'[t] = stage[t] /\ holder'[t] = holder[t]
  BY <1>1, <1>5 DEF Base, Typed
<1>. QED BY <1>2, <1>3, <1>4, <1>5, TokenSteps

LEMMA HeldStays ==
    ASSUME TriggerAssumption, Base, [Next]_vars, NEW t \in TokenId, NEW c, Held(t, c)
    PROVE  HeldNext(t, c) /\ holder'[t] = holder[t]
<1>1. PICK q \in Creation : Returned(q) /\ req[q].code = c /\ holder[t] = req[q].device
  BY DEF Held
<1>2. Returned(q)' /\ req'[q] = req[q]
  BY <1>1, CreationsStay
<1>3. stage'[t] \in {"LOCKED"} \cup Outcome /\ holder'[t] = holder[t]
  BY InUseStays DEF Held
<1>. QED BY <1>1, <1>2, <1>3 DEF HeldNext

\* A claimed token is held for whoever the code was returned to.
LEMMA ClaimHolds ==
    ASSUME TriggerAssumption, Base, [Next]_vars, NEW r \in Notification, Claim(r),
           req'[r].pc = "send"
    PROVE  HeldNext(req'[r].token, req'[r].code)
<1> USE DEF Base
<1>0. r \in Request
  BY DEF Request
<1>1. /\ req[r].entry \in TriggerEntry
      /\ req[r].pc = "claim"
      /\ stage' = [stage EXCEPT ![req[r].token] = "LOCKED"]
      /\ holder' = [holder EXCEPT ![req[r].token] = req[r].entry.device]
      /\ req'[r].token = req[r].token
      /\ req'[r].code = req[r].code
  BY <1>0, ClaimFields DEF Fields
<1>2. req[r].token \in TokenId
  BY <1>0, <1>1 DEF Course
<1>3. req[r].entry # NoEntry
  BY <1>0, <1>1 DEF Course
<1>4. PICK q \in Creation : Returned(q) /\ req[q].code = req[r].code
  BY <1>1 DEF Uses
<1>5. PICK u \in Creation : /\ Stored(u)
                            /\ req[u].code = req[r].code
                            /\ req[r].entry.device = req[u].device
  BY <1>3 DEF Uses, Origin
<1>6. req[q].device = req[u].device
  BY <1>4, <1>5, DeviceOfCode DEF Returned, Stored
<1>7. Returned(q)' /\ req'[q] = req[q]
  BY <1>4, CreationsStay
<1>8. /\ stage'[req[r].token] = "LOCKED"
      /\ holder'[req[r].token] = req[r].entry.device
  BY <1>1, <1>2 DEF Typed
<1>. QED BY <1>1, <1>4, <1>5, <1>6, <1>7, <1>8 DEF HeldNext

LEMMA TailIndex ==
    ASSUME NEW S, NEW s \in Seq(S), s # <<>>, NEW i \in DOMAIN Tail(s)
    PROVE  i + 1 \in DOMAIN s /\ Tail(s)[i] = s[i + 1]
OBVIOUS

LEMMA TailKeeps ==
    ASSUME NEW S, NEW s \in Seq(S), NEW j \in DOMAIN s, j # 1
    PROVE  j - 1 \in DOMAIN Tail(s) /\ Tail(s)[j - 1] = s[j]
OBVIOUS

LEMMA SentStep ==
    ASSUME TriggerAssumption, Base, Sent, [Next]_vars
    PROVE  Sent'
<1> USE DEF Base
<1>1. ASSUME NEW r \in Request, req'[r].pc = "send"
      PROVE  HeldNext(req'[r].token, req'[r].code)
  <2>1. CASE req'[r] = req[r]
    <3>1. Held(req[r].token, req[r].code) /\ req[r].token \in TokenId
      BY <1>1, <2>1 DEF Sent, Course, Request
    <3>. QED BY <2>1, <3>1, HeldStays
  <2>2. CASE req'[r] # req[r]
    <3>1. Acts(r)
      BY <2>2, Movers DEF OthersStay
    <3>2. Claim(r)
      BY <1>1, <3>1, CreateStartFields, CreateStoreFields, RedisGetFields,
         RegisterStartFields, GotFields, NotifyStartFields, RereadFailsFields,
         SendFields, RedisFields DEF Acts, Continue, Fields
    <3>3. r \in Notification
      BY <3>2, ClaimFields
    <3>. QED BY <1>1, <3>2, <3>3, ClaimHolds
  <2>. QED BY <2>1, <2>2
<1>2. ASSUME NEW p \in Process, NEW i \in DOMAIN inbox'[p]
      PROVE  HeldNext(inbox'[p][i].token, inbox'[p][i].code)
  <2>0. inbox[p] \in Seq(Message)
    BY DEF Typed
  <2>1. ASSUME NEW j \in DOMAIN inbox[p], inbox'[p][i] = inbox[p][j]
        PROVE  HeldNext(inbox'[p][i].token, inbox'[p][i].code)
    <3>1. inbox[p][j] \in Message
      BY <2>0, <2>1
    <3>2. Held(inbox[p][j].token, inbox[p][j].code) /\ inbox[p][j].token \in TokenId
      BY <3>1 DEF Sent, Message
    <3>. QED BY <2>1, <3>2, HeldStays
  <2>2. CASE UNCHANGED inbox
    BY <1>2, <2>1, <2>2
  <2>3. ASSUME NEW r \in Notification, Send(r),
               inbox' = [x \in Process |-> Append(inbox[x],
                           [code |-> req[r].code, token |-> req[r].token])],
               [code |-> req[r].code, token |-> req[r].token] \in Message
        PROVE  HeldNext(inbox'[p][i].token, inbox'[p][i].code)
    <3> DEFINE m == [code |-> req[r].code, token |-> req[r].token]
    <3>1. inbox'[p] = Append(inbox[p], m) /\ m \in Message
      BY <2>3
    <3>2. req[r].pc = "send" /\ r \in Request
      BY <2>3, SendFields DEF Request
    <3>3. Held(m.token, m.code) /\ m.token \in TokenId
      BY <3>1, <3>2 DEF Sent, Message
    <3> HIDE DEF m
    <3>4. \/ i \in DOMAIN inbox[p] /\ inbox'[p][i] = inbox[p][i]
          \/ inbox'[p][i] = m
      BY <1>2, <2>0, <3>1
    <3>. QED BY <2>1, <3>3, <3>4, HeldStays
  <2>4. ASSUME NEW u \in Process, inbox' = [inbox EXCEPT ![u] = Tail(@)], inbox[u] # <<>>
        PROVE  HeldNext(inbox'[p][i].token, inbox'[p][i].code)
    <3>1. CASE u # p
      <4>1. inbox'[p] = inbox[p]
        BY <2>4, <3>1 DEF Typed
      <4>. QED BY <1>2, <2>1, <4>1
    <3>2. CASE u = p
      <4>1. inbox'[p] = Tail(inbox[p])
        BY <2>4, <3>2 DEF Typed
      <4>2. i + 1 \in DOMAIN inbox[p] /\ inbox'[p][i] = inbox[p][i + 1]
        BY <1>2, <2>0, <2>4, <3>2, <4>1, TailIndex
      <4>. QED BY <2>1, <4>2
    <3>. QED BY <3>1, <3>2
  <2>. QED BY <2>2, <2>3, <2>4, InboxSteps
<1>. QED BY <1>1, <1>2 DEF Sent, Held, HeldNext

-----------------------------------------------------------------------------
(* Answers. *)

\* A new answer goes to who waited in the map, which forgets it.
LEMMA NewAnswer ==
    ASSUME TriggerAssumption, AnswerInv, [Next]_vars, NEW a \in answered', a \notin answered
    PROVE  \E p \in Process, c \in Code :
             /\ known[p][c] # NoEntry
             /\ known[p][c].response = a.to
             /\ a.to \in Registration
             /\ a.token \in TokenId
             /\ known'[p][c] = NoEntry
             /\ answered' = answered \cup {a}
             /\ Held(a.token, c)
<1> USE DEF AnswerInv, Base
<1>1. PICK p \in Process, c \in Code, t \in TokenId :
        /\ LocalSendToken(p, c, t)
        /\ \/ \E n \in Notification : /\ Send(n) /\ ~useRedis
                                      /\ req[n].proc = p /\ req[n].code = c
                                      /\ req[n].token = t
           \/ /\ Deliver(p)
              /\ Head(inbox[p]).code = c /\ Head(inbox[p]).token = t
              /\ inbox[p] # <<>>
  BY AnsweredSteps
<1>2. known[p][c] \in TriggerEntry \cup {NoEntry}
  BY DEF Typed
<1>3. /\ known[p][c] # NoEntry
      /\ known[p][c].response # NoRequest
      /\ a = [to |-> known[p][c].response, token |-> t]
      /\ answered' = answered \cup {a}
  BY <1>1 DEF LocalSendToken
<1>4. a.to = known[p][c].response /\ a.to \in Registration /\ a.token = t
  BY <1>2, <1>3 DEF TriggerEntry
<1>5. known'[p][c] = NoEntry
  BY <1>1 DEF LocalSendToken, Typed
<1>6. Held(t, c)
  <2>1. CASE \E n \in Notification : Send(n) /\ req[n].code = c /\ req[n].token = t
    BY <2>1 DEF Send, Sent, Request
  <2>2. CASE inbox[p] # <<>> /\ Head(inbox[p]).code = c /\ Head(inbox[p]).token = t
    <3>1. inbox[p] \in Seq(Message)
      BY DEF Typed
    <3>2. 1 \in DOMAIN inbox[p] /\ Head(inbox[p]) = inbox[p][1]
      BY <2>2, <3>1
    <3>. QED BY <2>2, <3>2 DEF Sent
  <2>. QED BY <1>1, <2>1, <2>2
<1>. QED BY <1>3, <1>4, <1>5, <1>6

LEMMA RightDeviceStep ==
    ASSUME TriggerAssumption, AnswerInv, [Next]_vars
    PROVE  RightDevice' /\ \A a \in answered' : req'[a.to].pc = "waiting"
<1> USE DEF AnswerInv, Base
<1>1. ASSUME NEW a \in answered'
      PROVE  HeldNext(a.token, req'[a.to].code) /\ req'[a.to].pc = "waiting"
  <2>1. CASE a \in answered
    <3>1. a.to \in Registration /\ a.token \in TokenId
      BY <2>1 DEF Typed
    <3>2. req[a.to].pc = "waiting" /\ req'[a.to] = req[a.to]
      BY <2>1, <3>1, WaitingStays
    <3>3. Held(a.token, req[a.to].code)
      BY <2>1 DEF RightDevice, Held
    <3>. QED BY <3>1, <3>2, <3>3, HeldStays
  <2>2. CASE a \notin answered
    <3>1. PICK p \in Process, c \in Code :
            /\ known[p][c] # NoEntry
            /\ known[p][c].response = a.to
            /\ a.to \in Registration
            /\ a.token \in TokenId
            /\ Held(a.token, c)
      BY <1>1, <2>2, NewAnswer
    <3>2. NoRequest \notin Registration
      BY DEF TriggerAssumption, Request
    <3>3. req[a.to].pc = "waiting" /\ req[a.to].code = c
      BY <3>1, <3>2 DEF Waits
    <3>4. req'[a.to] = req[a.to]
      BY <3>1, <3>3, WaitingStays
    <3>. QED BY <3>1, <3>3, <3>4, HeldStays
  <2>. QED BY <2>1, <2>2
<1>. QED BY <1>1 DEF RightDevice, HeldNext

LEMMA AnsweredOnceStep ==
    ASSUME TriggerAssumption, AnswerInv, [Next]_vars
    PROVE  AnsweredOnce'
<1> USE DEF AnswerInv, Base
<1>0. NoRequest \notin Registration
  BY DEF TriggerAssumption, Request
<1>1. ASSUME NEW a \in answered', a \notin answered, NEW b \in answered', a.to = b.to
      PROVE  a = b
  <2>1. PICK p \in Process, c \in Code :
          /\ known[p][c] # NoEntry
          /\ known[p][c].response = a.to
          /\ a.to \in Registration
          /\ answered' = answered \cup {a}
    BY <1>1, NewAnswer
  <2>2. \A x \in answered : x.to # a.to
    BY <1>0, <2>1 DEF Waits
  <2>. QED BY <1>1, <2>1, <2>2
<1>2. ASSUME NEW a \in answered', NEW b \in answered', a.to = b.to PROVE a = b
  BY <1>1, <1>2 DEF AnsweredOnce
<1>. QED BY <1>2 DEF AnsweredOnce

\* A step that starts or continues to wait does not answer anybody.
LEMMA WaitsStep ==
    ASSUME TriggerAssumption, AnswerInv, [Next]_vars, NEW p \in Process, NEW c \in Code
    PROVE  Waits(p, c)'
<1> USE DEF AnswerInv, Base
<1>0. NoRequest \notin Registration
  BY DEF TriggerAssumption, Request
<1>1. SUFFICES ASSUME known'[p][c] # NoEntry, known'[p][c].response # NoRequest
               PROVE  LET w == known'[p][c].response IN
                      /\ req'[w].pc = "waiting" /\ req'[w].proc = p /\ req'[w].code = c
                      /\ \A a \in answered' : a.to # w
  BY DEF Waits
<1>2. CASE known'[p][c] = known[p][c]
  <2>1. known[p][c] \in TriggerEntry
    BY <1>1, <1>2 DEF Typed
  <2>2. PICK w \in Registration : known[p][c].response = w /\ known'[p][c].response = w
    BY <1>1, <1>2, <2>1 DEF TriggerEntry
  <2>3. /\ req[w].pc = "waiting" /\ req[w].proc = p /\ req[w].code = c
        /\ \A a \in answered : a.to # w
    BY <1>0, <1>1, <1>2, <2>2 DEF Waits
  <2>4. req'[w] = req[w]
    BY <2>3, WaitingStays
  <2>5. ASSUME NEW a \in answered', a.to = w PROVE FALSE
    <3>1. a \notin answered
      BY <2>3, <2>5
    <3>2. PICK u \in Process, d \in Code :
            /\ known[u][d] # NoEntry
            /\ known[u][d].response = w
            /\ known'[u][d] = NoEntry
      BY <2>5, <3>1, NewAnswer
    <3>3. u = p /\ d = c
      BY <1>0, <2>3, <3>2 DEF Waits
    <3>. QED BY <1>1, <3>2, <3>3
  <2>. QED BY <2>2, <2>3, <2>4, <2>5
<1>3. ASSUME NEW w \in Registration, RegisterStart(w) \/ RegisterGot(w),
             req'[w].pc = "waiting", req'[w].proc = p, req'[w].code = c,
             known'[p][c].response = w
      PROVE  LET x == known'[p][c].response IN
             /\ req'[x].pc = "waiting" /\ req'[x].proc = p /\ req'[x].code = c
             /\ \A a \in answered' : a.to # x
  <2>1. req[w].pc # "waiting" /\ UNCHANGED answered
    BY <1>3 DEF RegisterStart, RegisterGot
  <2>. QED BY <1>3, <2>1
<1>4. ASSUME NEW w \in Registration, NEW x \in TriggerEntry,
             known'[p][c] = [x EXCEPT !.response = w]
      PROVE  known'[p][c].response = w
  BY <1>4 DEF TriggerEntry
<1>5. ASSUME NEW w \in Registration, RegisterStart(w),
             Fields(w, "waiting", p, c, req'[w].device, req[w].token, NoEntry),
             known[p][c] # NoEntry, known'[p][c] = [known[p][c] EXCEPT !.response = w]
      PROVE  LET x == known'[p][c].response IN
             /\ req'[x].pc = "waiting" /\ req'[x].proc = p /\ req'[x].code = c
             /\ \A a \in answered' : a.to # x
  <2>1. known[p][c] \in TriggerEntry
    BY <1>5 DEF Typed
  <2>. QED BY <1>3, <1>4, <1>5, <2>1 DEF Fields
<1>6. ASSUME NEW w \in Registration, RegisterGot(w), req[w].entry # NoEntry,
             Fields(w, "waiting", p, c, req[w].device, req[w].token, req[w].entry),
             known'[p][c] = [req[w].entry EXCEPT !.response = w]
      PROVE  LET x == known'[p][c].response IN
             /\ req'[x].pc = "waiting" /\ req'[x].proc = p /\ req'[x].code = c
             /\ \A a \in answered' : a.to # x
  <2>1. req[w].entry \in TriggerEntry
    BY <1>6 DEF Typed, RequestState, Request
  <2>. QED BY <1>3, <1>4, <1>6, <2>1 DEF Fields
<1>7. ASSUME NEW n \in Notification, NotifyGot(n), req[n].entry # NoEntry,
             known'[p][c] = req[n].entry
      PROVE  FALSE
  <2>1. req[n].pc = "got"
    BY <1>7 DEF NotifyGot
  <2>. QED BY <1>1, <1>7, <2>1 DEF Uses
<1>. QED BY <1>1, <1>2, <1>5, <1>6, <1>7, KnownSteps DEF KnownStep

LEMMA AnswerStep ==
    ASSUME TriggerAssumption, AnswerInv, [Next]_vars
    PROVE  AnswerInv'
<1>1. Base /\ Sent
  BY DEF AnswerInv
<1>2. Base' /\ Sent'
  BY <1>1, BaseStep, SentStep
<1>. QED
  BY <1>2, RightDeviceStep, AnsweredOnceStep, WaitsStep DEF AnswerInv, Code

LEMMA InitAnswer == TriggerAssumption /\ Init => AnswerInv
<1> SUFFICES ASSUME TriggerAssumption, Init
             PROVE  AnswerInv
  OBVIOUS
<1>1. Base
  BY InitBase
<1> USE DEF Init
<1>2. \A r \in Request : req[r].pc = "idle"
  BY DEF NewRequest
<1>3. \A p \in Process, c \in Code : known[p][c] = NoEntry
  OBVIOUS
<1>4. \A p \in Process : DOMAIN inbox[p] = {}
  <2>1. \A p \in Process : inbox[p] = <<>>
    OBVIOUS
  <2> HIDE DEF Init
  <2>2. \A i \in DOMAIN <<>> : FALSE
    OBVIOUS
  <2>. QED BY <2>1, <2>2
<1>5. Sent
  BY <1>2, <1>4 DEF Sent
<1>. QED BY <1>1, <1>3, <1>5 DEF AnswerInv, RightDevice, AnsweredOnce, Waits

(* Who waits with a code is answered with a token that is locked for the   *)
(* device the code was made for (trigger.ts 92, 129-137).                  *)
THEOREM AnswersTheRightDevice == Spec => []RightDevice
<1>1. Init => AnswerInv
  BY TriggerAssumption, InitAnswer
<1>2. AnswerInv /\ [Next]_vars => AnswerInv'
  BY TriggerAssumption, AnswerStep
<1>3. AnswerInv => RightDevice
  BY DEF AnswerInv
<1>. QED BY <1>1, <1>2, <1>3, PTL DEF Spec

(* Nobody is answered twice (trigger.ts 133-136).                          *)
THEOREM AnswersOnce == Spec => []AnsweredOnce
<1>1. Init => AnswerInv
  BY TriggerAssumption, InitAnswer
<1>2. AnswerInv /\ [Next]_vars => AnswerInv'
  BY TriggerAssumption, AnswerStep
<1>3. AnswerInv => AnsweredOnce
  BY DEF AnswerInv
<1>. QED BY <1>1, <1>2, <1>3, PTL DEF Spec
-----------------------------------------------------------------------------
(* A code is worth one token on a single process. *)

LEMMA SpentStep ==
    ASSUME TriggerAssumption, SpentInv, [Next]_vars
    PROVE  SpentInv'
<1> USE DEF SpentInv, AnswerInv, Base
<1>1. ASSUME ~useRedis', NEW a \in answered', req'[a.to].code \in Creation, NEW p \in host'
      PROVE  known'[p][req'[a.to].code] = NoEntry
  <2>1. ~useRedis /\ p \in host /\ p \in Process
    BY <1>1, Movers DEF config, Typed
  <2>2. CASE a \in answered
    <3>1. a.to \in Registration /\ req[a.to].pc = "waiting"
      BY <2>2 DEF Typed
    <3>2. PICK c \in Creation : c = req[a.to].code /\ c = req'[a.to].code
      BY <1>1, <3>1, WaitingStays
    <3>3. known[p][c] = NoEntry /\ c \in Code
      BY <2>1, <2>2, <3>2 DEF Code
    <3>4. PICK q \in Creation : Returned(q) /\ req[q].code = c
      <4>1. Uses(a.to)
        BY <3>1
      <4>. QED BY <3>1, <3>2, <4>1 DEF Uses
    <3>5. ASSUME NEW u \in Creation, CreateStore(u), req[u].code = c
          PROVE  FALSE
      <4>1. req[u].pc = "create"
        BY <3>5 DEF CreateStore
      <4>2. u = q
        BY <3>4, <3>5, <4>1, DeviceOfCode DEF Returned
      <4>. QED BY <3>4, <4>1, <4>2 DEF Returned
    <3>6. ASSUME NEW r \in Request, RegisterGot(r) \/ NotifyGot(r) PROVE FALSE
      BY <2>1, <3>6, GotFields
    <3>7. KnownStep(p, c)
      BY <2>1, <3>3, KnownSteps
    <3> HIDE DEF SpentInv
    <3>. QED BY <3>2, <3>3, <3>5, <3>6, <3>7 DEF KnownStep, Request
  <2>3. CASE a \notin answered
    <3>1. PICK u \in Process, c \in Code :
            /\ known[u][c] # NoEntry
            /\ known[u][c].response = a.to
            /\ a.to \in Registration
            /\ known'[u][c] = NoEntry
      BY <1>1, <2>3, NewAnswer
    <3>2. /\ req[a.to].pc = "waiting" /\ req[a.to].proc = u /\ req[a.to].code = c
      BY <3>1 DEF Waits, TriggerAssumption, Request
    <3>3. u \in host
      BY <3>1, <3>2 DEF Course, Request
    <3>4. u = p
      BY <2>1, <3>3 DEF Mode
    <3>5. req'[a.to].code = c
      BY <3>1, <3>2, WaitingStays
    <3>. QED BY <3>1, <3>4, <3>5
  <2>. QED BY <2>2, <2>3
<1>. QED BY <1>1, AnswerStep

(* Phones that come after a token went out for a drawn code are refused    *)
(* (trigger.ts 133).                                                       *)
THEOREM SpentCodesRefused == Spec => SpentCodeRefused
<1>1. Init => SpentInv
  BY TriggerAssumption, InitAnswer DEF SpentInv, Init
<1>2. SpentInv /\ [Next]_vars => SpentInv'
  BY TriggerAssumption, SpentStep
<1>3. SpentInv /\ [Next]_vars =>
        [\A r \in Notification :
            (~useRedis /\ req[r].pc = "idle" /\ req'[r].pc = "claim")
                => \A a \in answered : req[a.to].code = req'[r].code
                                          => req'[r].code \in Device]_vars
  <2> SUFFICES ASSUME SpentInv, [Next]_vars, NEW r \in Notification, ~useRedis,
                      req[r].pc = "idle", req'[r].pc = "claim",
                      NEW a \in answered, req[a.to].code = req'[r].code
               PROVE  req'[r].code \in Device
    OBVIOUS
  <2> USE DEF SpentInv, AnswerInv, Base
  <2>1. r \in Request
    BY DEF Request
  <2>2. Acts(r)
    BY <2>1, TriggerAssumption, Movers DEF OthersStay
  <2>3. NotifyStart(r)
    BY <2>1, <2>2, TriggerAssumption, CreateStartFields, CreateStoreFields, RedisGetFields,
       RegisterStartFields, GotFields, ClaimFields, RereadFailsFields,
       SendFields, RedisFields DEF Acts, Continue, Fields
  <2>4. PICK c \in Code, p \in host : req'[r].code = c /\ known[p][c] # NoEntry
    BY <2>1, <2>3, TriggerAssumption, NotifyStartFields DEF Fields
  <2>. QED BY <2>4 DEF Code
<1>. QED BY <1>1, <1>2, <1>3, PTL DEF Spec, SpentCodeRefused

-----------------------------------------------------------------------------
(* Open codes are found. *)

LEMMA UsedStays ==
    ASSUME TriggerAssumption, Base, [Next]_vars, NEW c, UsedUp(c)
    PROVE  UsedUp(c)'
<1>1. PICK r \in Notification : req[r].code = c /\ req[r].pc \in {"del", "done"}
  BY DEF UsedUp
<1>2. r \in Request
  BY DEF Request
<1>3. req'[r].code = c
  BY <1>1, <1>2, CodesStay
<1>4. CASE req'[r] # req[r]
  <2>1. Acts(r)
    BY <1>2, <1>4, Movers DEF OthersStay
  <2>2. req'[r].pc \in {"del", "done"}
    BY <1>1, <1>2, <2>1, CreateStartFields, CreateStoreFields, RedisGetFields,
       RegisterStartFields, GotFields, NotifyStartFields, ClaimFields, RereadFailsFields,
       SendFields, RedisFields DEF Acts, Continue, Fields
  <2>. QED BY <1>3, <2>2 DEF UsedUp
<1>. QED BY <1>1, <1>3, <1>4 DEF UsedUp

\* A code that is open after a step was open before, if it was returned.
LEMMA OpenBefore ==
    ASSUME TriggerAssumption, Base, [Next]_vars, NEW c, Returned(c), OpenCode(c)'
    PROVE  OpenCode(c) /\ req'[c] = req[c] /\ c \in Creation
<1>1. c \in Creation /\ req'[c] = req[c]
  BY CreationsStay DEF Returned
<1>2. req[c].entry.expires \in Int /\ now \in Int /\ now' \in Int /\ now <= now'
  BY <1>1, NowGrows DEF Base, Creates, Stored, Returned, TriggerEntry
<1>3. ~UsedUp(c)
  BY UsedStays DEF OpenCode
<1>. QED BY <1>1, <1>2, <1>3 DEF OpenCode

LEMMA FindableStep ==
    ASSUME TriggerAssumption, Base, [Next]_vars, NEW c \in Creation, Findable(c)
    PROVE  Findable(c)'
<1> USE DEF Base
<1>0. c \in Code /\ c \in Request /\ useRedis' = useRedis /\ host' = host
  BY Movers DEF Code, Request, config
<1>1. SUFFICES ASSUME OpenCode(c)'
               PROVE  /\ useRedis => /\ redis'[c] # NoEntry
                                     /\ redis'[c].until >= req'[c].entry.expires
                      /\ ~useRedis => \A p \in host : known'[p][c] # NoEntry
  BY <1>0 DEF Findable
<1>2. ASSUME NEW q \in Creation, req[q].pc # "idle", req[q].code = c PROVE q = c
  BY <1>2 DEF Creates, TriggerCode, TriggerAssumption
<1>3. CASE Returned(c)
  <2>1. OpenCode(c) /\ req'[c] = req[c]
    BY <1>1, <1>3, OpenBefore
  <2>2. CASE useRedis
    <3>1. redis[c] # NoEntry /\ redis[c].until >= req[c].entry.expires
      BY <2>1, <2>2 DEF Findable
    <3>2. ASSUME NEW q \in Creation, RedisSet(q), req[q].code = c PROVE FALSE
      <4>1. req[q].pc = "set"
        BY <3>2 DEF RedisSet
      <4>2. q = c
        BY <1>2, <3>2, <4>1
      <4>. QED BY <1>3, <4>1, <4>2 DEF Returned
    <3>3. ASSUME NEW n \in Notification, RedisDel(n), req[n].code = c PROVE FALSE
      BY <2>1, <3>3 DEF RedisDel, OpenCode, UsedUp
    <3>. QED BY <1>0, <2>1, <2>2, <3>1, <3>2, <3>3, RedisSteps
  <2>3. CASE ~useRedis
    <3> SUFFICES ASSUME NEW p \in host PROVE known'[p][c] # NoEntry
      BY <2>3
    <3>1. known[p][c] # NoEntry /\ p \in Process
      BY <2>1, <2>3 DEF Findable, Typed
    <3>2. ASSUME known[p][c].expires < now PROVE FALSE
      <4>1. PICK q \in Creation : /\ Stored(q)
                                  /\ req[q].code = c
                                  /\ known[p][c].expires = req[q].entry.expires
        BY <1>0, <3>1 DEF Origin
      <4>2. q = c
        BY <1>2, <4>1 DEF Stored
      <4>3. now < req[c].entry.expires
        BY <2>1 DEF OpenCode
      <4>4. now \in Int /\ req[c].entry.expires \in Int
        BY <1>3, NowGrows DEF Creates, Stored, Returned, TriggerEntry
      <4>. QED BY <3>2, <4>1, <4>2, <4>3, <4>4
    <3>3. ASSUME NEW w \in Registration, known'[p][c] = [known[p][c] EXCEPT !.response = w]
          PROVE  known'[p][c] # NoEntry
      <4>1. known[p][c] \in TriggerEntry
        BY <1>0, <3>1 DEF Typed
      <4>2. known'[p][c] \in TriggerEntry
        BY <3>3, <4>1 DEF TriggerEntry
      <4>. QED BY <4>2 DEF TriggerAssumption, TriggerEntry
    <3>4. ASSUME NEW r \in Request, RegisterGot(r) \/ NotifyGot(r) PROVE FALSE
      BY <2>3, <3>4, GotFields
    <3>5. ASSUME NEW u \in Process, Deliver(u) PROVE FALSE
      BY <2>3, <3>5 DEF Mode, Deliver
    <3>6. ASSUME NEW n \in Notification, Send(n), req[n].code = c PROVE FALSE
      <4>1. req'[n].pc \in {"del", "done"} /\ req'[n].code = c
        BY <3>6, SendFields DEF Fields, Request
      <4>. QED BY <1>1, <4>1 DEF OpenCode, UsedUp
    <3>7. KnownStep(p, c)
      BY <1>0, <3>1, KnownSteps
    <3> HIDE DEF Base
    <3>. QED BY <3>1, <3>2, <3>3, <3>4, <3>5, <3>6, <3>7 DEF KnownStep, Request
  <2>. QED BY <2>2, <2>3
<1>4. CASE ~Returned(c)
  <2>1. Returned(c)'
    BY <1>1 DEF OpenCode
  <2>2. req'[c] # req[c] /\ req'[c].pc = "done"
    BY <1>4, <2>1 DEF Returned
  <2>3. CreateStore(c) \/ RedisSet(c)
    BY <1>0, <2>2, CreationsStay, CreateStartFields DEF Fields
  <2>4. req'[c].code = c
    BY <1>1 DEF OpenCode
  <2>5. CASE CreateStore(c)
    <3> DEFINE x == NewEntry(c)
    <3>1. /\ x \in TriggerEntry
          /\ known' = [known EXCEPT ![req[c].proc][req[c].code] = x]
          /\ req'[c].code = req[c].code
          /\ req'[c].pc = IF useRedis THEN "set" ELSE "done"
      BY <1>0, <2>5, CreateStoreFields DEF Fields
    <3> HIDE DEF x
    <3>2. ~useRedis
      BY <2>2, <3>1
    <3>3. req[c].proc \in host
      BY <1>0, <2>5 DEF CreateStore, Course
    <3>4. x # NoEntry
      BY <3>1 DEF TriggerAssumption, TriggerEntry
    <3>5. host = {req[c].proc} /\ req[c].proc \in Process
      BY <3>2, <3>3 DEF Mode, Typed
    <3>. QED BY <1>0, <2>4, <3>1, <3>2, <3>4, <3>5 DEF Typed
  <2>6. CASE RedisSet(c)
    <3>1. /\ req[c].pc = "set"
          /\ req'[c].code = req[c].code
          /\ req'[c].entry = req[c].entry
      BY <1>0, <2>6, RedisFields DEF Fields
    <3>2. useRedis
      BY <1>0, <3>1 DEF Mode
    <3>3. redis' = [redis EXCEPT ![c] = [entry |-> req[c].entry, until |-> now + Validity]]
      BY <2>4, <2>6, <3>1 DEF RedisSet
    <3>4. req[c].entry.expires <= now + Validity
      BY <3>1 DEF Creates, Stored
    <3>5. req[c].entry \in TriggerEntry /\ now + Validity \in Int
             /\ req[c].entry.expires \in Int
      BY <3>1, NowGrows DEF Creates, Stored, TriggerEntry, TriggerAssumption
    <3> DEFINE y == [entry |-> req[c].entry, until |-> now + Validity]
    <3>6. y # NoEntry /\ y.until = now + Validity
      BY <3>5 DEF TriggerAssumption, TriggerEntry
    <3>7. redis'[c] = y
      BY <1>0, <3>3 DEF Typed
    <3> HIDE DEF y
    <3>. QED BY <3>1, <3>2, <3>4, <3>5, <3>6, <3>7
  <2>. QED BY <2>3, <2>5, <2>6
<1>. QED BY <1>3, <1>4
LEMMA OpenStep ==
    ASSUME TriggerAssumption, OpenInv, [Next]_vars
    PROVE  OpenInv'
<1> USE DEF OpenInv
<1>1. Base' /\ \A c \in Creation : Findable(c)'
  BY BaseStep, FindableStep
<1>2. ASSUME NEW r \in Notification, req'[r].pc = "got", req'[r].entry = NoEntry,
             NEW c, c = req'[r].code, OpenCode(c)'
      PROVE  FALSE
  <2> USE DEF Base
  <2>0. r \in Request
    BY DEF Request
  <2>1. CASE req'[r] = req[r]
    <3>1. Uses(r)
      OBVIOUS
    <3>2. PICK q \in Creation : Returned(q) /\ req[q].code = c
      BY <1>2, <2>1, <3>1 DEF Uses
    <3>3. c \in Creation /\ q = c
      BY <1>2, <3>2, DeviceOfCode DEF OpenCode, Returned
    <3>4. OpenCode(c)
      BY <1>2, <3>2, <3>3, OpenBefore
    <3>. QED BY <1>2, <2>1, <3>4
  <2>2. CASE req'[r] # req[r]
    <3>1. Acts(r)
      BY <2>0, <2>2, Movers DEF OthersStay
    <3>2. RedisGet(r)
      BY <1>2, <2>0, <3>1, CreateStartFields, CreateStoreFields, RegisterStartFields,
         GotFields, NotifyStartFields, ClaimFields, RereadFailsFields,
         SendFields, RedisFields DEF Acts, Continue, Fields
    <3>3. /\ req[r].pc = "get"
          /\ c = req[r].code
          /\ RedisValue(c) = NoEntry
      BY <1>2, <2>0, <3>2, RedisGetFields DEF Fields
    <3>4. Uses(r) /\ useRedis
      BY <2>0, <3>3 DEF Mode
    <3>5. PICK q \in Creation : Returned(q) /\ req[q].code = c
      BY <3>3, <3>4 DEF Uses
    <3>6. c \in Creation /\ q = c
      BY <1>2, <3>5, DeviceOfCode DEF OpenCode, Returned
    <3>7. OpenCode(c)
      BY <1>2, <3>5, <3>6, OpenBefore
    <3>8. redis[c] # NoEntry /\ redis[c].until >= req[c].entry.expires /\ c \in Code
      BY <3>4, <3>6, <3>7 DEF Findable, Code
    <3>9. redis[c].entry \in TriggerEntry /\ redis[c].until \in Int
      BY <3>8 DEF Typed
    <3>10. now < req[c].entry.expires /\ req[c].entry.expires \in Int /\ now \in Int
      BY <3>5, <3>6, <3>7, NowGrows DEF OpenCode, Returned, Creates, Stored, TriggerEntry
    <3>11. redis[c].entry # NoEntry
      BY <3>9 DEF TriggerAssumption, TriggerEntry
    <3>. QED BY <3>3, <3>8, <3>9, <3>10, <3>11 DEF RedisValue
  <2>. QED BY <2>1, <2>2
<1>3. ASSUME NEW r \in Notification, req'[r].pc = "got", req'[r].entry = NoEntry
      PROVE  (~OpenCode(req[r].code))'
  <2>1. PICK c : c = req'[r].code
    OBVIOUS
  <2>2. ~OpenCode(c)'
    BY <1>2, <1>3, <2>1
  <2>. QED BY <2>1, <2>2 DEF OpenCode, Returned, UsedUp
<1>. QED BY <1>1, <1>3

LEMMA InitOpen == TriggerAssumption /\ Init => OpenInv
<1> SUFFICES ASSUME TriggerAssumption, Init
             PROVE  OpenInv
  OBVIOUS
<1>1. \A r \in Request : req[r].pc = "idle"
  BY DEF Init, NewRequest
<1>. QED BY <1>1, InitBase DEF OpenInv, Findable, OpenCode, Returned, Request

(* No phone is told that an open code is unknown (trigger.ts 63-74, 93,     *)
(* 100-112).                                                               *)
THEOREM OpenCodesFound == Spec => OpenCodeFound
<1>1. Init => OpenInv
  BY TriggerAssumption, InitOpen
<1>2. OpenInv /\ [Next]_vars => OpenInv'
  BY TriggerAssumption, OpenStep
<1>3. OpenInv /\ [Next]_vars =>
        [\A r \in Notification :
            (req[r].pc \in {"idle", "got"} /\ req'[r].pc = "failed")
                => ~OpenCode(req'[r].code)]_vars
  <2> SUFFICES ASSUME OpenInv, [Next]_vars, NEW r \in Notification,
                      req[r].pc \in {"idle", "got"}, req'[r].pc = "failed",
                      OpenCode(req'[r].code)
               PROVE  FALSE
    OBVIOUS
  <2> USE DEF OpenInv, Base
  <2>1. r \in Request
    BY DEF Request
  <2>2. Acts(r)
    BY <2>1, TriggerAssumption, Movers DEF OthersStay
  <2>3. CASE req[r].pc = "got"
    <3>1. RegisterGot(r) \/ NotifyGot(r)
      BY <2>1, <2>2, <2>3, TriggerAssumption, CreateStartFields, CreateStoreFields,
         RedisGetFields, RegisterStartFields, NotifyStartFields, ClaimFields, RereadFailsFields,
         SendFields, RedisFields DEF Acts, Continue
    <3>2. req[r].entry = NoEntry /\ req'[r].code = req[r].code
      BY <2>1, <3>1, TriggerAssumption, GotFields DEF Fields
    <3>. QED BY <2>3, <3>2
  <2>4. CASE req[r].pc = "idle"
    <3>1. NotifyStart(r)
      BY <2>1, <2>2, <2>4, TriggerAssumption, CreateStartFields, CreateStoreFields,
         RedisGetFields, RegisterStartFields, GotFields, ClaimFields, RereadFailsFields,
         SendFields, RedisFields DEF Acts, Continue, Fields
    <3>2. PICK c \in Code, p \in host :
             req'[r].code = c /\ known[p][c] = NoEntry /\ ~useRedis
      BY <2>1, <3>1, TriggerAssumption, NotifyStartFields DEF Fields
    <3>3. c \in Creation /\ OpenCode(c)
      BY <3>2 DEF OpenCode, Returned
    <3>. QED BY <3>2, <3>3 DEF Findable
  <2>. QED BY <2>3, <2>4
<1>. QED BY <1>1, <1>2, <1>3, PTL DEF Spec, OpenCodeFound
-----------------------------------------------------------------------------
(* Tokens are pushed. *)

\* An entry that a creation has stored keeps its code and its time.
LEMMA EntriesStay ==
    ASSUME TriggerAssumption, Base, [Next]_vars, NEW c \in Creation, req[c].entry # NoEntry
    PROVE  /\ req[c].pc # "idle" /\ Stored(c)
           /\ req'[c].code = req[c].code
           /\ req'[c].entry = req[c].entry
<1> USE DEF Base
<1>1. c \in Request
  BY DEF Request
<1>2. req[c].pc \in {"set", "done"}
  BY <1>1 DEF Course, Creates
<1>3. Stored(c)
  BY <1>2 DEF Stored
<1>. QED BY <1>2, <1>3, CreationsStay

LEMMA ExcusedStays ==
    ASSUME TriggerAssumption, Base, [Next]_vars, NEW w \in Registration,
           req[w].pc = "waiting", Excused(w)
    PROVE  Excused(w)'
<1> USE DEF Base
<1>0. req'[w] = req[w] /\ w \in Request /\ NoCode \notin Code
  BY WaitingStays DEF Request, Code, TriggerAssumption
<1>1. CASE \E a \in answered : a.to = w
  <2>1. answered \subseteq answered'
    BY AnsweredSteps DEF LocalSendToken
  <2>. QED BY <1>1, <2>1 DEF Excused
<1>2. CASE Expired(w)
  <2>1. PICK c \in Creation : /\ req[c].code = req[w].code
                              /\ req[c].entry # NoEntry
                              /\ now > req[c].entry.expires
    BY <1>2 DEF Expired
  <2>2. Stored(c) /\ req'[c].code = req[c].code /\ req'[c].entry = req[c].entry
    BY <2>1, EntriesStay
  <2>3. /\ req[c].entry.expires \in Int /\ now \in Int /\ now' \in Int
        /\ now <= now'
    BY <2>2, NowGrows DEF Creates, TriggerEntry
  <2>4. now' > req'[c].entry.expires
    BY <2>1, <2>2, <2>3
  <2>. QED BY <1>0, <2>1, <2>2, <2>4 DEF Excused, Expired
<1>3. CASE Superseded(w)
  <2>1. req[w].code # NoCode
    BY <1>0 DEF Course
  <2>2. ASSUME NEW r \in Request, req[r].code = req[w].code
        PROVE  req'[r].code = req'[w].code
    <3>1. req[r].pc # "idle"
      BY <2>1, <2>2 DEF Course
    <3>. QED BY <1>0, <2>2, <3>1, CodesStay
  <2>3. CASE \E q \in Registration \ {w} : req[q].code = req[w].code
    BY <2>2, <2>3 DEF Excused, Superseded, Request
  <2>4. CASE \E c, d \in Creation : /\ c # d
                                    /\ req[c].code = req[w].code
                                    /\ req[d].code = req[w].code
    <3>1. PICK c \in Creation, d \in Creation : /\ c # d
                                                /\ req[c].code = req[w].code
                                                /\ req[d].code = req[w].code
      BY <2>4
    <3>2. c \in Request /\ d \in Request
      BY DEF Request
    <3>3. req'[c].code = req'[w].code /\ req'[d].code = req'[w].code
      BY <2>2, <3>1, <3>2
    <3>. QED BY <3>1, <3>3 DEF Excused, Superseded
  <2>. QED BY <1>3, <2>3, <2>4 DEF Superseded
<1>. QED BY <1>1, <1>2, <1>3 DEF Excused

\* Two requests of devices for one code: the first is superseded.
LEMMA AskedAgain ==
    ASSUME NEW w \in Registration, NEW q \in Registration, q # w,
           req'[q].code = req'[w].code
    PROVE  Excused(w)'
BY DEF Excused, Superseded

\* Whoever begins to wait is in the map where it waits.
LEMMA BeginsToWait ==
    ASSUME TriggerAssumption, Base, [Next]_vars, NEW w \in Registration,
           req'[w].pc = "waiting", req[w].pc # "waiting"
    PROVE  /\ Acts(w) /\ OthersStay(w)
           /\ known'[req'[w].proc][req'[w].code] # NoEntry
           /\ known'[req'[w].proc][req'[w].code].response = w
<1> USE DEF Base
<1>1. w \in Request
  BY DEF Request
<1>2. Acts(w) /\ OthersStay(w)
  BY <1>1, Movers DEF OthersStay
<1>3. RegisterStart(w) \/ RegisterGot(w)
  BY <1>1, <1>2, CreateStartFields, CreateStoreFields, RedisGetFields, GotFields,
     NotifyStartFields, ClaimFields, RereadFailsFields,
     SendFields, RedisFields DEF Acts, Continue, Fields, NotifyGot, TriggerAssumption
<1>4. ASSUME NEW p \in Process, NEW c \in Code, req'[w].proc = p, req'[w].code = c,
             known'[p][c] \in TriggerEntry, known'[p][c].response = w
      PROVE  /\ known'[req'[w].proc][req'[w].code] # NoEntry
             /\ known'[req'[w].proc][req'[w].code].response = w
  BY <1>4 DEF TriggerAssumption, TriggerEntry
<1>5. CASE RegisterStart(w)
  <2>1. PICK q \in Creation, d \in Device, p \in host :
           LET code == req[q].code
               map == CleanUp(known[p])
           IN /\ Returned(q)
              /\ code \in Code
              /\ \/ /\ map[code] # NoEntry
                    /\ known' = [known EXCEPT ![p] = [map EXCEPT ![code].response = w]]
                    /\ Fields(w, "waiting", p, code, d, req[w].token, NoEntry)
                 \/ /\ map[code] = NoEntry
                    /\ known' = [known EXCEPT ![p] = map]
                    /\ Fields(w, IF useRedis THEN "get" ELSE "failed", p, code,
                              d, req[w].token, NoEntry)
    BY <1>1, <1>5, RegisterStartFields
  <2>2. PICK c \in Code, map \in [Code -> TriggerEntry \cup {NoEntry}] :
           c = req[q].code /\ map = CleanUp(known[p]) /\ p \in Process
    BY <2>1, CleanUpSteps DEF Typed
  <2>3. /\ map[c] # NoEntry
        /\ known' = [known EXCEPT ![p] = [map EXCEPT ![c].response = w]]
        /\ req'[w].proc = p /\ req'[w].code = c
    BY <2>1, <2>2 DEF Fields
  <2>4. PICK x \in TriggerEntry : x = map[c]
    BY <2>3
  <2>5. known'[p] = [map EXCEPT ![c].response = w]
    BY <2>2, <2>3 DEF Typed
  <2>6. known'[p][c] = [x EXCEPT !.response = w]
    BY <2>4, <2>5
  <2>7. known'[p][c] \in TriggerEntry /\ known'[p][c].response = w
    BY <2>6 DEF TriggerEntry
  <2>. QED BY <1>2, <1>4, <2>2, <2>3, <2>7
<1>6. CASE RegisterGot(w)
  <2>1. /\ req[w].entry # NoEntry
        /\ known' = [known EXCEPT ![req[w].proc][req[w].code] =
                        [req[w].entry EXCEPT !.response = w]]
        /\ req'[w].proc = req[w].proc /\ req'[w].code = req[w].code
    BY <1>1, <1>6, GotFields DEF Fields, TriggerAssumption
  <2>2. req[w].proc \in Process /\ req[w].code \in Code /\ req[w].entry \in TriggerEntry
    BY <1>1, <1>6, <2>1 DEF RegisterGot, Course, Typed, RequestState
  <2>3. PICK p \in Process, c \in Code, x \in TriggerEntry :
           p = req[w].proc /\ c = req[w].code /\ x = req[w].entry
    BY <2>2
  <2>4. known' = [known EXCEPT ![p][c] = [x EXCEPT !.response = w]]
    BY <2>1, <2>3
  <2>5. known'[p][c] = [x EXCEPT !.response = w]
    BY <2>4 DEF Typed
  <2>6. known'[p][c] \in TriggerEntry /\ known'[p][c].response = w
    BY <2>5 DEF TriggerEntry
  <2>. QED BY <1>2, <1>4, <2>1, <2>3, <2>6
<1>. QED BY <1>2, <1>3, <1>5, <1>6

\* Whoever waits is answered when a token arrives for its code.
LEMMA Answers ==
    ASSUME TriggerAssumption, Base, [Next]_vars, NEW w \in Registration,
           req[w].pc = "waiting", Remembered(w), ~early,
           NEW t, LocalSendToken(req[w].proc, req[w].code, t)
    PROVE  Excused(w)'
<1>1. CASE Excused(w)
  BY <1>1, ExcusedStays
<1>2. CASE ~Excused(w)
  <2>1. /\ known[req[w].proc][req[w].code] # NoEntry
        /\ known[req[w].proc][req[w].code].response = w
    BY <1>2 DEF Remembered
  <2>2. w # NoRequest
    BY DEF TriggerAssumption, Request
  <2>3. [to |-> w, token |-> t] \in answered'
    BY <2>1, <2>2 DEF LocalSendToken
  <2>. QED BY <2>3 DEF Excused
<1>. QED BY <1>1, <1>2

LEMMA RememberedStep ==
    ASSUME TriggerAssumption, PushInv, [Next]_vars, NEW w \in Registration
    PROVE  Remembered(w)'
<1> USE DEF PushInv, AnswerInv, Base
<1>0. early' = early /\ w \in Request
  BY Movers DEF config, Request
<1>1. SUFFICES ASSUME ~early, req'[w].pc = "waiting"
               PROVE  \/ Excused(w)'
                      \/ /\ known'[req'[w].proc][req'[w].code] # NoEntry
                         /\ known'[req'[w].proc][req'[w].code].response = w
  BY <1>0 DEF Remembered
<1>2. CASE req[w].pc # "waiting"
  BY <1>1, <1>2, BeginsToWait
<1>3. CASE req[w].pc = "waiting" /\ Excused(w)
  BY <1>3, ExcusedStays
<1>4. CASE req[w].pc = "waiting" /\ ~Excused(w)
  <2>1. PICK p \in Process, c \in Code : p = req[w].proc /\ c = req[w].code
    BY <1>0, <1>4 DEF Course, Typed
  <2>2. known[p][c] # NoEntry /\ known[p][c].response = w
    BY <1>1, <1>4, <2>1 DEF Remembered
  <2>3. req'[w] = req[w]
    BY <1>4, WaitingStays
  <2>4. ASSUME known[p][c].expires < now PROVE FALSE
    <3>1. PICK q \in Creation : /\ Stored(q)
                                /\ req[q].code = c
                                /\ known[p][c].expires = req[q].entry.expires
      BY <2>2 DEF Origin
    <3>2. req[q].entry \in TriggerEntry /\ req[q].entry # NoEntry
      BY <3>1 DEF Creates, TriggerAssumption, TriggerEntry
    <3>3. now \in Int /\ req[q].entry.expires \in Int
      BY <3>2, NowGrows DEF TriggerEntry
    <3>4. Expired(w)
      BY <2>1, <2>4, <3>1, <3>2, <3>3 DEF Expired
    <3>. QED BY <1>4, <3>4 DEF Excused
  <2>5. ASSUME NEW q \in Creation, CreateStore(q), req[q].code = c PROVE FALSE
    <3>1. Uses(w)
      OBVIOUS
    <3>2. PICK u \in Creation : Returned(u) /\ req[u].code = c
      BY <1>4, <2>1, <3>1 DEF Uses
    <3>3. u # q
      BY <2>5, <3>2 DEF CreateStore, Returned
    <3>4. Superseded(w)
      BY <2>1, <2>5, <3>2, <3>3 DEF Superseded
    <3>. QED BY <1>4, <3>4 DEF Excused
  <2>6. ASSUME NEW v \in Registration, RegisterStart(v) \/ RegisterGot(v), req'[v].code = c
        PROVE  Excused(w)'
    <3>1. v # w
      BY <1>4, <2>6 DEF RegisterStart, RegisterGot
    <3>. QED BY <2>1, <2>3, <2>6, <3>1, AskedAgain
  <2>7. ASSUME NEW n \in Notification, NotifyGot(n), req[n].proc = p, req[n].code = c
        PROVE  FALSE
    <3>1. Knows(n, w)
      OBVIOUS
    <3>. QED BY <1>1, <1>4, <2>1, <2>7, <3>1 DEF Knows, NotifyGot
  <2>8. ASSUME NEW t \in TokenId, LocalSendToken(p, c, t) PROVE Excused(w)'
    BY <1>1, <1>4, <2>1, <2>8, Answers
  <2>9. KnownStep(p, c)
    BY KnownSteps
  <2>10. CASE known'[p][c] = known[p][c]
    BY <2>1, <2>2, <2>3, <2>10
  <2> HIDE DEF PushInv
  <2>11. ASSUME NEW v \in Registration, RegisterStart(v), NEW d, NEW t,
                Fields(v, "waiting", p, c, d, t, NoEntry)
         PROVE  Excused(w)'
    BY <2>6, <2>11 DEF Fields
  <2>12. ASSUME NEW v \in Registration, RegisterGot(v), NEW d, NEW t, NEW e,
                Fields(v, "waiting", p, c, d, t, e)
         PROVE  Excused(w)'
    BY <2>6, <2>12 DEF Fields
  <2>. QED BY <2>4, <2>5, <2>7, <2>8, <2>9, <2>10, <2>11, <2>12 DEF KnownStep
<1>. QED BY <1>2, <1>3, <1>4
LEMMA ScannedStep ==
    ASSUME TriggerAssumption, PushInv, [Next]_vars, NEW n \in Notification
    PROVE  Scanned(n)'
<1> USE DEF PushInv, AnswerInv, Base
<1>0. early' = early /\ n \in Request
  BY Movers DEF config, Request
<1>1. SUFFICES ASSUME ~early, req'[n].pc # "idle"
               PROVE  \E w \in Registration : req'[w].pc = "waiting"
                                              /\ req'[w].code = req'[n].code
  BY <1>0 DEF Scanned
<1>2. CASE req[n].pc # "idle"
  <2>1. PICK w \in Registration : req[w].pc = "waiting" /\ req[w].code = req[n].code
    BY <1>1, <1>2 DEF Scanned
  <2>. QED BY <1>0, <1>2, <2>1, WaitingStays, CodesStay
<1>3. CASE req[n].pc = "idle"
  <2>1. Acts(n)
    BY <1>0, <1>1, <1>3, Movers DEF OthersStay
  <2>2. n \notin Creation /\ n \notin Registration
    BY DEF TriggerAssumption
  <2>3. NotifyStart(n)
    BY <1>0, <1>3, <2>1, <2>2, CreateStartFields, CreateStoreFields, RedisGetFields,
       RegisterStartFields, GotFields, ClaimFields, RereadFailsFields,
       SendFields, RedisFields DEF Acts, Continue
  <2>4. PICK c \in Code : Displayed(c) /\ req'[n].code = c
    BY <1>0, <2>3, NotifyStartFields DEF Fields
  <2>5. PICK w \in Registration : req[w].code = c /\ req[w].pc = "waiting"
    BY <1>1, <2>4 DEF Displayed
  <2>. QED BY <2>4, <2>5, WaitingStays
<1>. QED BY <1>2, <1>3

\* A phone that has started scanned what another request waits for.
LEMMA AskedBefore ==
    ASSUME TriggerAssumption, PushInv, [Next]_vars, ~early,
           NEW n \in Notification, req[n].pc # "idle",
           NEW w \in Registration, req[w].pc # "waiting", req'[w].code = req'[n].code
    PROVE  Excused(w)'
<1>1. PICK v \in Registration : req[v].pc = "waiting" /\ req[v].code = req[n].code
  BY DEF PushInv, Scanned
<1>2. Base /\ n \in Request
  BY DEF PushInv, AnswerInv, Request
<1>3. req'[v] = req[v] /\ req'[n].code = req[n].code
  BY <1>1, <1>2, WaitingStays, CodesStay
<1>. QED BY <1>1, <1>3, AskedAgain

LEMMA KnowsStep ==
    ASSUME TriggerAssumption, PushInv, [Next]_vars,
           NEW n \in Notification, NEW w \in Registration
    PROVE  Knows(n, w)'
<1> USE DEF PushInv, AnswerInv, Base
<1>0. /\ early' = early /\ n \in Request /\ w \in Request
      /\ n \notin Creation /\ n \notin Registration /\ n # w
  BY Movers DEF config, Request, TriggerAssumption
<1>1. SUFFICES ASSUME ~early, req'[w].pc = "waiting", req'[w].code = req'[n].code,
                      req'[n].pc \in {"get", "got"}, req'[n].proc = req'[w].proc
               PROVE  Excused(w)'
  BY <1>0 DEF Knows
<1>2. CASE req[w].pc # "waiting"
  <2>1. OthersStay(w)
    BY <1>1, <1>2, BeginsToWait
  <2>2. req'[n] = req[n]
    BY <1>0, <2>1 DEF OthersStay
  <2>3. req[n].pc # "idle"
    BY <1>1, <2>2
  <2>. QED BY <1>1, <1>2, <2>3, AskedBefore
<1>3. CASE req[w].pc = "waiting" /\ req'[n] = req[n]
  <2>1. Excused(w)
    BY <1>1, <1>3, WaitingStays DEF Knows
  <2>. QED BY <1>3, <2>1, ExcusedStays
<1>4. CASE req[w].pc = "waiting" /\ req'[n] # req[n]
  <2>1. req'[w] = req[w]
    BY <1>4, WaitingStays
  <2>2. Acts(n)
    BY <1>0, <1>4, Movers DEF OthersStay
  <2>3. NotifyStart(n) \/ RedisGet(n)
    BY <1>0, <1>1, <2>2, CreateStartFields, CreateStoreFields, RegisterStartFields,
       GotFields, ClaimFields, RereadFailsFields,
       SendFields, RedisFields DEF Acts, Continue, Fields
  <2>4. CASE NotifyStart(n)
    <3>1. PICK c \in Code, p \in host :
            /\ req'[n].pc = IF known[p][c] # NoEntry THEN "claim"
                            ELSE IF useRedis THEN "get" ELSE "failed"
            /\ req'[n].proc = p /\ req'[n].code = c
      BY <1>0, <2>4, NotifyStartFields DEF Fields
    <3>2. known[p][c] = NoEntry
      BY <1>1, <3>1
    <3>3. Excused(w)
      BY <1>1, <1>4, <2>1, <3>1, <3>2 DEF Remembered
    <3>. QED BY <1>4, <3>3, ExcusedStays
  <2>5. CASE RedisGet(n)
    <3>1. /\ req[n].pc = "get"
          /\ req'[n].code = req[n].code
          /\ req'[n].proc = req[n].proc
      BY <1>0, <2>5, RedisGetFields DEF Fields
    <3>2. Excused(w)
      BY <1>1, <1>4, <2>1, <3>1 DEF Knows
    <3>. QED BY <1>4, <3>2, ExcusedStays
  <2>. QED BY <2>3, <2>4, <2>5
<1>. QED BY <1>2, <1>3, <1>4

LEMMA ReachesStep ==
    ASSUME TriggerAssumption, PushInv, [Next]_vars,
           NEW n \in Notification, NEW w \in Registration
    PROVE  Reaches(n, w)'
<1> USE DEF PushInv, AnswerInv, Base
<1>0. /\ early' = early /\ n \in Request /\ w \in Request
      /\ n \notin Creation /\ n \notin Registration /\ n # w
  BY Movers DEF config, Request, TriggerAssumption
<1>1. SUFFICES ASSUME ~early, req'[w].pc = "waiting", req'[w].code = req'[n].code,
                      req'[n].pc \in {"del", "done"}
               PROVE  \/ Excused(w)'
                      \/ \E i \in DOMAIN inbox'[req'[w].proc] :
                           inbox'[req'[w].proc][i].code = req'[w].code
  BY <1>0 DEF Reaches
<1>2. CASE req[w].pc # "waiting"
  <2>1. OthersStay(w)
    BY <1>1, <1>2, BeginsToWait
  <2>2. req'[n] = req[n]
    BY <1>0, <2>1 DEF OthersStay
  <2>3. req[n].pc # "idle"
    BY <1>1, <2>2
  <2>. QED BY <1>1, <1>2, <2>3, AskedBefore
<1>3. CASE req[w].pc = "waiting"
  <2>1. PICK p \in Process, c \in Code : p = req[w].proc /\ c = req[w].code
    BY <1>0, <1>3 DEF Course, Typed
  <2>2. req'[w] = req[w]
    BY <1>3, WaitingStays
  <2>3. inbox[p] \in Seq(Message) /\ Remembered(w)
    BY DEF Typed
  <2>4. ASSUME NEW j \in DOMAIN inbox[p], inbox[p][j].code = c
        PROVE  \/ Excused(w)'
               \/ \E i \in DOMAIN inbox'[p] : inbox'[p][i].code = c
    <3>1. CASE UNCHANGED inbox
      BY <2>4, <3>1
    <3>2. ASSUME NEW r \in Notification,
                 inbox' = [x \in Process |-> Append(inbox[x],
                             [code |-> req[r].code, token |-> req[r].token])]
          PROVE  \E i \in DOMAIN inbox'[p] : inbox'[p][i].code = c
      <4> DEFINE m == [code |-> req[r].code, token |-> req[r].token]
      <4>1. inbox'[p] = Append(inbox[p], m)
        BY <3>2
      <4> HIDE DEF m
      <4>2. j \in DOMAIN inbox'[p] /\ inbox'[p][j] = inbox[p][j]
        BY <2>3, <2>4, <4>1
      <4>. QED BY <2>4, <4>2
    <3>3. ASSUME NEW u \in Process, Deliver(u), inbox' = [inbox EXCEPT ![u] = Tail(@)],
                 inbox[u] # <<>>
          PROVE  \/ Excused(w)'
                 \/ \E i \in DOMAIN inbox'[p] : inbox'[p][i].code = c
      <4>1. CASE u # p
        <5>1. inbox'[p] = inbox[p]
          BY <3>3, <4>1 DEF Typed
        <5>. QED BY <2>4, <5>1
      <4>2. CASE u = p /\ j = 1
        <5>1. Head(inbox[p]).code = c
          BY <2>3, <2>4, <3>3, <4>2
        <5>2. LocalSendToken(p, c, Head(inbox[p]).token)
          BY <3>3, <4>2, <5>1 DEF Deliver
        <5>. QED BY <1>1, <1>3, <2>1, <2>3, <5>2, Answers
      <4>3. CASE u = p /\ j # 1
        <5>1. inbox'[p] = Tail(inbox[p])
          BY <3>3, <4>3 DEF Typed
        <5>2. j - 1 \in DOMAIN inbox'[p] /\ inbox'[p][j - 1] = inbox[p][j]
          BY <2>3, <2>4, <4>3, <5>1, TailKeeps
        <5>. QED BY <2>4, <5>2
      <4>. QED BY <4>1, <4>2, <4>3
    <3>. QED BY <3>1, <3>2, <3>3, InboxSteps
  <2>5. CASE req[n].pc \in {"del", "done"} /\ req[n].code = c
    <3>1. CASE Excused(w)
      BY <1>3, <3>1, ExcusedStays
    <3>2. CASE \E j \in DOMAIN inbox[p] : inbox[p][j].code = c
      BY <2>1, <2>2, <2>4, <3>2
    <3>. QED BY <1>1, <1>3, <2>1, <2>5, <3>1, <3>2 DEF Reaches
  <2>6. CASE req'[n] = req[n]
    BY <1>1, <2>1, <2>2, <2>5, <2>6
  <2>7. CASE req'[n] # req[n]
    <3>1. Acts(n)
      BY <1>0, <2>7, Movers DEF OthersStay
    <3>2. Send(n) \/ RedisDel(n)
      BY <1>0, <1>1, <3>1, CreateStartFields, CreateStoreFields, RedisGetFields,
         RegisterStartFields, GotFields, NotifyStartFields, ClaimFields, RereadFailsFields,
         RedisFields DEF Acts, Continue, Fields
    <3>3. CASE RedisDel(n)
      <4>1. req[n].pc = "del" /\ req'[n].code = req[n].code
        BY <1>0, <3>3, RedisFields DEF Fields
      <4>. QED BY <1>1, <2>1, <2>2, <2>5, <4>1
    <3>4. CASE Send(n)
      <4>1. req'[n].code = req[n].code /\ req[n].code = c /\ req[n].pc = "send"
        BY <1>0, <1>1, <2>1, <2>2, <3>4, SendFields DEF Fields
      <4>2. CASE useRedis
        <5> DEFINE m == [code |-> req[n].code, token |-> req[n].token]
        <5>1. inbox'[p] = Append(inbox[p], m) /\ m.code = c
          BY <1>0, <3>4, <4>1, <4>2, SendFields
        <5> HIDE DEF m
        <5>2. /\ Len(inbox[p]) + 1 \in DOMAIN inbox'[p]
              /\ inbox'[p][Len(inbox[p]) + 1] = m
          BY <2>3, <5>1
        <5>. QED BY <2>1, <2>2, <5>1, <5>2
      <4>3. CASE ~useRedis
        <5>1. req[n].proc \in host /\ req[w].proc \in host
          BY <1>0, <1>3, <4>1 DEF Course
        <5>2. req[n].proc = p
          BY <2>1, <4>3, <5>1 DEF Mode
        <5>3. LocalSendToken(p, c, req[n].token)
          BY <1>0, <3>4, <4>1, <4>3, <5>2, SendFields
        <5>. QED BY <1>1, <1>3, <2>1, <2>3, <5>3, Answers
      <4>. QED BY <4>2, <4>3
    <3>. QED BY <3>2, <3>3, <3>4
  <2>. QED BY <2>6, <2>7
<1>. QED BY <1>2, <1>3

LEMMA PushStep ==
    ASSUME TriggerAssumption, PushInv, [Next]_vars
    PROVE  PushInv'
<1>1. AnswerInv
  BY DEF PushInv
<1>2. AnswerInv'
  BY <1>1, AnswerStep
<1>. QED BY <1>2, RememberedStep, ScannedStep, KnowsStep, ReachesStep DEF PushInv

LEMMA InitPush == TriggerAssumption /\ Init => PushInv
<1> SUFFICES ASSUME TriggerAssumption, Init
             PROVE  PushInv
  OBVIOUS
<1>1. \A r \in Request : req[r].pc = "idle"
  BY DEF Init, NewRequest
<1>2. \A w \in Registration : w \in Request
  BY DEF Request
<1>3. \A n \in Notification : n \in Request
  BY DEF Request
<1>. QED BY <1>1, <1>2, <1>3, InitAnswer DEF PushInv, Remembered, Scanned, Knows, Reaches

(* A token claimed for a device that waits is pushed to it or on its way   *)
(* (trigger.ts 92-95, 114-137).                                            *)
THEOREM TokensArePushed == Spec => []Pushed
<1>1. Init => PushInv
  BY TriggerAssumption, InitPush
<1>2. PushInv /\ [Next]_vars => PushInv'
  BY TriggerAssumption, PushStep
<1>3. PushInv => Pushed
  <2> SUFFICES ASSUME PushInv, NEW n \in Notification, NEW w \in Registration,
                      ~early, req[w].pc = "waiting", req[n].code = req[w].code,
                      req[n].pc \in {"send", "del", "done"}, ~Excused(w)
               PROVE  OnItsWay(n, w)
    BY DEF Pushed, Excused
  <2>1. /\ known[req[w].proc][req[w].code] # NoEntry
        /\ known[req[w].proc][req[w].code].response = w
    BY DEF PushInv, Remembered
  <2>2. req[w].proc \in host
    BY DEF PushInv, AnswerInv, Base, Course, Request
  <2>3. \/ req[n].pc = "send"
        \/ \E i \in DOMAIN inbox[req[w].proc] : inbox[req[w].proc][i].code = req[w].code
    BY DEF PushInv, Reaches
  <2>. QED BY <2>1, <2>2, <2>3 DEF OnItsWay
<1>. QED BY <1>1, <1>2, <1>3, PTL DEF Spec
=============================================================================
