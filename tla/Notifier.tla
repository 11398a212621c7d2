----------------------------- MODULE Notifier -----------------------------
(***************************************************************************)
(* Live change notifications: util/notifier.ts and the websocket routes.   *)
(*                                                                         *)
(* A client opens a websocket on one process and is entered there as an    *)
(* observer of a scope (a customer's tokens, clearing rows, card           *)
(* authorizations).  A process subscribes to a scope in Redis with its     *)
(* first observer and unsubscribes with its last.  What changed is not in  *)
(* the notification, or only as a uuid: the client reads again, so a       *)
(* change is a new version of the scope and a client has a view of it.     *)
(***************************************************************************)
EXTENDS Integers, Sequences

CONSTANTS
    Process,     \* the Node.js processes
    Scope,       \* the channels
    Socket,      \* the websockets a behaviour may open (bound)
    ApiSocket,   \* those of the token and clearing API; the others are admin's
    RedisChoice, \* the values config.USE_REDIS may have
    MaxVersion,  \* changes per scope (bound)
    NoProcess, NoScope

ASSUME NotifierAssumption ==
    /\ Process # {}
    /\ ApiSocket \subseteq Socket
    /\ RedisChoice \subseteq BOOLEAN
    /\ MaxVersion \in Nat
    /\ NoProcess \notin Process
    /\ NoScope \notin Scope

VARIABLES
    useRedis, host, \* config.USE_REDIS, and the processes that run
    socket,    \* each websocket: where it ends and how far the route has come
    alive,     \* the websockets that are open
    observers, \* observers of each process
    commands,  \* (un)subscriptions a process has sent and Redis not yet executed
    subscribed,\* the channels of each process, as Redis sees it
    version,   \* how often the data behind a scope has changed
    outbox,    \* changes that are committed and not yet published
    inbox,     \* what was published and a process has not yet handled
    view,      \* the version a client has read
    owed       \* history: the version an observer must be told of

config == <<useRedis, host>>
vars == <<config, socket, alive, observers, commands, subscribed, version,
          outbox, inbox, view, owed>>

Init ==
    /\ useRedis \in RedisChoice
    /\ IF useRedis THEN host = Process ELSE \E p \in Process : host = {p}
    /\ socket = [w \in Socket |-> [pc |-> "idle", proc |-> NoProcess, scope |-> NoScope]]
    /\ alive = {}
    /\ observers = [p \in Process |-> [s \in Scope |-> {}]]
    /\ commands = [p \in Process |-> <<>>]
    /\ subscribed = [p \in Process |-> {}]
    /\ version = [s \in Scope |-> 0]
    /\ outbox = [p \in Process |-> <<>>]
    /\ inbox = [p \in Process |-> <<>>]
    /\ view = [w \in Socket |-> 0]
    /\ owed = [w \in Socket |-> 0]

------------------------------------------------------------------------------
(* The observers of a process.                                             *)

\* Mutant: a subscriber is taken for granted.
CommandAlways(p, op, s) ==
    commands' = [commands EXCEPT ![p] = Append(@, [op |-> op, scope |-> s])]

Command(p, op, s) ==
    commands' = IF useRedis
                THEN [commands EXCEPT ![p] = Append(@, [op |-> op, scope |-> s])]
                ELSE commands

\* Mutant: a process that is still subscribed does not subscribe.
AddToSubscribed(p, s, w) ==
    /\ observers' = [observers EXCEPT ![p][s] = @ \cup {w}]
    /\ IF observers[p][s] = {} /\ s \notin subscribed[p]
       THEN Command(p, "subscribe", s) ELSE UNCHANGED commands

\* addObserver
AddObserver(p, s, w) ==
    /\ observers' = [observers EXCEPT ![p][s] = @ \cup {w}]
    /\ IF observers[p][s] = {} THEN Command(p, "subscribe", s) ELSE UNCHANGED commands

\* Mutants: the scope goes with any of its observers; the subscription goes
\* with any of them; an observer that throws stays.
RemoveScope(p, s, W) ==
    /\ observers' = [observers EXCEPT ![p][s] = IF W = {} THEN @ ELSE {}]
    /\ IF observers[p][s] # {} /\ W # {}
       THEN Command(p, "unsubscribe", s) ELSE UNCHANGED commands
RemoveSubscription(p, s, W) ==
    /\ observers' = [observers EXCEPT ![p][s] = @ \ W]
    /\ IF observers[p][s] \cap W # {}
       THEN Command(p, "unsubscribe", s) ELSE UNCHANGED commands
RemoveNothing(p, s, W) == UNCHANGED <<observers, commands>>

\* removeObserver, for each of W: the scope goes with its last observer.
RemoveObservers(p, s, W) ==
    /\ observers' = [observers EXCEPT ![p][s] = @ \ W]
    /\ IF observers[p][s] # {} /\ observers[p][s] \subseteq W
       THEN Command(p, "unsubscribe", s) ELSE UNCHANGED commands

\* localNotifyObservers: the clients read again; a websocket that is closed
\* throws and is removed.
LocalNotify(p, s) ==
    /\ view' = [w \in Socket |->
          IF w \in observers[p][s] \cap alive THEN version[s] ELSE view[w]]
    /\ RemoveObservers(p, s, observers[p][s] \ alive)

------------------------------------------------------------------------------
(* The websocket routes.                                                   *)

\* The API routes look up the key, and the customer, before they do anything.
ConnectApi(w) ==
    /\ w \in ApiSocket
    /\ socket[w].pc = "idle"
    /\ \E p \in host, s \in Scope :
         socket' = [socket EXCEPT ![w] = [pc |-> "auth", proc |-> p, scope |-> s]]
    /\ alive' = alive \cup {w}
    /\ UNCHANGED <<config, observers, commands, subscribed, version, outbox, inbox,
                   view, owed>>

\* Nobody has asked meanwhile whether the websocket is still open.
Accept(w) ==
    /\ socket[w].pc = "auth"
    /\ socket' = [socket EXCEPT ![w].pc = "open"]
    /\ AddObserver(socket[w].proc, socket[w].scope, w)
    /\ UNCHANGED <<config, alive, subscribed, version, outbox, inbox, view, owed>>

Refuse(w) ==
    /\ socket[w].pc = "auth"
    /\ socket' = [socket EXCEPT ![w].pc = "closed"]
    /\ alive' = alive \ {w}
    /\ UNCHANGED <<config, observers, commands, subscribed, version, outbox, inbox,
                   view, owed>>

\* registerWebSocket adds the observer at once.
ConnectAdmin(w) ==
    /\ w \in Socket \ ApiSocket
    /\ socket[w].pc = "idle"
    /\ \E p \in host, s \in Scope :
         /\ socket' = [socket EXCEPT ![w] = [pc |-> "open", proc |-> p, scope |-> s]]
         /\ AddObserver(p, s, w)
    /\ alive' = alive \cup {w}
    /\ UNCHANGED <<config, subscribed, version, outbox, inbox, view, owed>>

\* The client hangs up.  Before the observer is added nobody listens to it.
HangUp(w) ==
    /\ w \in alive
    /\ alive' = alive \ {w}
    /\ IF socket[w].pc = "open"
       THEN /\ RemoveObservers(socket[w].proc, socket[w].scope, {w})
            /\ socket' = [socket EXCEPT ![w].pc = "closed"]
       ELSE UNCHANGED <<observers, commands, socket>>
    /\ UNCHANGED <<config, subscribed, version, outbox, inbox, view, owed>>

------------------------------------------------------------------------------
(* Redis executes what a process sends in its order.                       *)

Execute(p) ==
    /\ commands[p] # <<>>
    /\ LET c == Head(commands[p]) IN
         subscribed' = [subscribed EXCEPT ![p] =
             IF c.op = "subscribe" THEN @ \cup {c.scope} ELSE @ \ {c.scope}]
    /\ commands' = [commands EXCEPT ![p] = Tail(@)]
    /\ UNCHANGED <<config, socket, alive, observers, version, outbox, inbox, view, owed>>

\* An observer counts on a change once its process is subscribed for good.
Ready(p, s) == useRedis => /\ s \in subscribed[p]
                           /\ \A i \in DOMAIN commands[p] : commands[p][i].scope # s

\* Some business function commits a change, then calls notifyObservers.
Change(p, s) ==
    /\ p \in host
    /\ version[s] < MaxVersion
    /\ version' = [version EXCEPT ![s] = @ + 1]
    /\ outbox' = [outbox EXCEPT ![p] = Append(@, s)]
    /\ owed' = [w \in Socket |->
          IF \E q \in host : w \in observers[q][s] /\ Ready(q, s)
          THEN version[s] + 1 ELSE owed[w]]
    /\ UNCHANGED <<config, socket, alive, observers, commands, subscribed, inbox, view>>

\* notifyObservers: by Redis to the processes that are subscribed.
Publish(p) ==
    /\ useRedis
    /\ outbox[p] # <<>>
    /\ LET s == Head(outbox[p]) IN
         inbox' = [q \in Process |->
             IF s \in subscribed[q] THEN Append(inbox[q], s) ELSE inbox[q]]
    /\ outbox' = [outbox EXCEPT ![p] = Tail(@)]
    /\ UNCHANGED <<config, socket, alive, observers, commands, subscribed, version,
                   view, owed>>

\* notifyObservers without Redis.
NotifyLocally(p) ==
    /\ ~useRedis
    /\ outbox[p] # <<>>
    /\ LocalNotify(p, Head(outbox[p]))
    /\ outbox' = [outbox EXCEPT ![p] = Tail(@)]
    /\ UNCHANGED <<config, socket, alive, subscribed, version, inbox, owed>>

\* redisSubscriber.on('message')
Handle(p) ==
    /\ inbox[p] # <<>>
    /\ LocalNotify(p, Head(inbox[p]))
    /\ inbox' = [inbox EXCEPT ![p] = Tail(@)]
    /\ UNCHANGED <<config, socket, alive, subscribed, version, outbox, owed>>

Next ==
    \/ \E w \in Socket : \/ ConnectApi(w)
                         \/ Accept(w)
                         \/ Refuse(w)
                         \/ ConnectAdmin(w)
                         \/ HangUp(w)
    \/ \E p \in Process : \/ \E s \in Scope : Change(p, s)
                          \/ Execute(p)
                          \/ Publish(p)
                          \/ NotifyLocally(p)
                          \/ Handle(p)

Spec == Init /\ [][Next]_vars

\* Redis and the event loops get to what is queued; clients and changes come
\* as they like.
FairSpec == /\ Spec
            /\ \A p \in Process : /\ WF_vars(Execute(p))
                                  /\ WF_vars(Publish(p))
                                  /\ WF_vars(NotifyLocally(p))
                                  /\ WF_vars(Handle(p))
=============================================================================
