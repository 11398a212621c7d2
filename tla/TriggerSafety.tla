--------------------------- MODULE TriggerSafety ---------------------------
(* What trigger codes promise, and mutants of Trigger that break it.       *)
EXTENDS Trigger

\* Types.  Requests know their process, code and device once they started.
TypeOK ==
    /\ useRedis \in BOOLEAN /\ early \in BOOLEAN /\ host \subseteq Process
    /\ known \in [Process -> [Code -> TriggerEntry \cup {NoEntry}]]
    /\ \A c \in Code : redis[c] # NoEntry =>
         redis[c] \in [entry : TriggerEntry, until : Int]
    /\ \A p \in Process : \A i \in DOMAIN inbox[p] :
         inbox[p][i] \in [code : Code, token : TokenId]
    /\ \A r \in Request :
         /\ req[r].pc \in {"idle", "create", "set", "get", "got", "waiting",
                           "claim", "send", "del", "done", "failed"}
         /\ req[r].pc # "idle" => req[r].code \in Code
         /\ req[r].pc \in {"create", "set", "got", "send"} => req[r].proc \in host
         /\ req[r].entry \in TriggerEntry \cup {NoEntry}
         /\ req[r].pc \in {"claim", "send"} =>
              req[r].entry \in TriggerEntry /\ req[r].token \in TokenId
    /\ stage \in [TokenId -> {"OPEN", "EXPIRED", "LOCKED", "REJECTED"} \cup Outcome]
    /\ holder \in [TokenId -> Device \cup {NoDevice}]
    /\ answered \subseteq [to : Registration, token : TokenId]
    /\ now \in 0..MaxNow

------------------------------------------------------------------------------

\* A request that waits with a code is answered with a token that is locked for
\* the device the code was made for, whoever asks, and which alone goes on from
\* there: the claim by the phone's process, the broadcast and the look-up in the
\* local map agree on the code (trigger.ts:92, 129-137, token.ts:167).  That the
\* asking device is this device is not so: nobody checks it (trigger.ts:78-87).
RightDevice == \A a \in answered :
    /\ stage[a.token] \in {"LOCKED"} \cup Outcome
    /\ \E c \in Creation : /\ Returned(c)
                          /\ req[c].code = req[a.to].code
                          /\ req[c].device = holder[a.token]

\* A waiting request is answered once, even if several phones send a token
\* for its code: the second response.json of a request throws, and would take
\* the process down in the Redis callback (trigger.ts:28-31, 133-136).
AnsweredOnce == \A a, b \in answered : a.to = b.to => a = b

\* A code is open from its return until it expires or a token went out with it.
\* (Codes that are drawn: a fixed code may be in use twice.)
UsedUp(c) == \E r \in Notification : /\ req[r].code = c
                                     /\ req[r].pc \in {"del", "done"}
OpenCode(c) == /\ Returned(c)
               /\ req[c].code = c
               /\ now < req[c].entry.expires
               /\ ~UsedUp(c)

\* No phone is told that an open code is unknown, whichever process it talks
\* to: the code is returned only when it can be found, and Redis forgets it
\* only when the claimed token goes out (trigger.ts:63-74, 93, 100-112).
OpenCodeFound == [][\A r \in Notification :
    (req[r].pc \in {"idle", "got"} /\ req'[r].pc = "failed")
        => ~OpenCode(req'[r].code)]_vars

\* On a single process a code is worth one token: once a token went out for
\* it, later phones are refused (trigger.ts:133).
SpentCodeRefused == [][\A r \in Notification :
    (~useRedis /\ req[r].pc = "idle" /\ req'[r].pc = "claim")
        => \A a \in answered : req[a.to].code = req'[r].code
                                  => req'[r].code \in Device]_vars

------------------------------------------------------------------------------

\* The device asks again for the same code, or creates a fixed code again.
Superseded(w) ==
    \/ \E q \in Registration \ {w} : req[q].code = req[w].code
    \/ \E c, d \in Creation : /\ c # d
                             /\ req[c].code = req[w].code
                             /\ req[d].code = req[w].code

Expired(w) == \E c \in Creation : /\ req[c].code = req[w].code
                                  /\ req[c].entry # NoEntry
                                  /\ now > req[c].entry.expires

\* Not delivered yet: the entry still knows who waits, and the token is about
\* to be sent or on its way to this process.
OnItsWay(n, w) == \E p \in host :
    /\ known[p][req[w].code] # NoEntry
    /\ known[p][req[w].code].response = w
    /\ \/ req[n].pc = "send"
       \/ \E i \in DOMAIN inbox[p] : inbox[p][i].code = req[w].code

\* A token claimed for a device that waits is pushed to it or on its way,
\* unless the code has expired or the device has asked again; if phones scan
\* only what a waiting device displays (trigger.ts:92-95, 114-137).
Pushed == \A n \in Notification, w \in Registration :
    (/\ ~early
     /\ req[w].pc = "waiting"
     /\ req[n].code = req[w].code
     /\ req[n].pc \in {"send", "del", "done"})
    => \/ \E a \in answered : a.to = w
       \/ OnItsWay(n, w)
       \/ Expired(w)
       \/ Superseded(w)

------------------------------------------------------------------------------
(* A statement of the documentation that the code does not keep.           *)

\* cashapi.v1.ts:197-198: a trigger code "is only valid for the given period
\* of time (for instance, 60 seconds) before it expires".
NoUseAfterExpiry == [][\A r \in Notification :
    (req[r].pc = "idle" /\ req'[r].pc = "claim") => now <= req'[r].entry.expires]_vars
=============================================================================
