-------------------------- MODULE NotifierSafety --------------------------
(* What live notifications promise.                                        *)
EXTENDS Notifier

\* Types, and a process that does not run has no part in anything.
TypeOK ==
    /\ useRedis \in BOOLEAN /\ host \subseteq Process
    /\ \A w \in Socket :
         /\ socket[w].pc \in {"idle", "auth", "open", "closed"}
         /\ socket[w].pc # "idle" => socket[w].proc \in host /\ socket[w].scope \in Scope
         /\ view[w] \in 0..MaxVersion /\ owed[w] \in 0..MaxVersion
    /\ alive \subseteq Socket
    /\ observers \in [Process -> [Scope -> SUBSET Socket]]
    /\ subscribed \in [Process -> SUBSET Scope]
    /\ version \in [Scope -> 0..MaxVersion]
    /\ \A p \in Process :
         /\ \A i \in DOMAIN commands[p] :
              commands[p][i] \in [op : {"subscribe", "unsubscribe"}, scope : Scope]
         /\ outbox[p] \in Seq(Scope) /\ inbox[p] \in Seq(Scope)
         /\ p \notin host => outbox[p] = <<>>
         /\ ~useRedis => commands[p] = <<>>

\* When Redis has executed what a process has sent, the process is subscribed
\* to the scopes it has observers for and to no other, however subscriptions
\* and unsubscriptions overlap (notifier.ts:30-46).
SubscriptionsFollow == \A p \in Process, s \in Scope : useRedis =>
    LET sent == {i \in DOMAIN commands[p] : commands[p][i].scope = s}
        last(i) == \A j \in sent : j <= i
        will == IF sent = {} THEN s \in subscribed[p]
                ELSE \E i \in sent : last(i) /\ commands[p][i].op = "subscribe"
    IN will <=> observers[p][s] # {}

\* A websocket that is open and accepted is an observer, whoever else leaves;
\* one that was closed is not, unless it was closed before it was accepted
\* and nothing has changed since (tokenapi.v1.ws.ts:43-62).
OpenIsObserved == \A w \in Socket, p \in Process, s \in Scope :
    LET mine == p = socket[w].proc /\ s = socket[w].scope IN
    /\ w \in observers[p][s] => mine /\ socket[w].pc = "open"
    /\ mine /\ socket[w].pc = "open" /\ w \in alive => w \in observers[p][s]

\* A client never rests on old data: if the data changed after its process had
\* subscribed, it has read the change or a notification is on its way
\* (notifier.ts:15-17, 48-53).
Pending(w) == \/ \E q \in host : socket[w].scope \in {outbox[q][i] : i \in DOMAIN outbox[q]}
              \/ \E i \in DOMAIN inbox[socket[w].proc] :
                   inbox[socket[w].proc][i] = socket[w].scope
Watches(w) == socket[w].pc = "open" /\ w \in alive
NothingMissed == \A w \in Socket : Watches(w) /\ view[w] < owed[w] => Pending(w)

\* Who was an observer when the data changed learns of it or is an observer no
\* longer; so a websocket that was closed unseen is dropped by the next change
\* (tokenapi.v1.ws.ts:52-58).
ToldOrDropped == \A w \in Socket :
    owed[w] > view[w] ~> \/ view[w] >= owed[w]
                         \/ \A p \in Process, s \in Scope : w \notin observers[p][s]
=============================================================================
