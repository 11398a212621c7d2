--------------------------- MODULE NotifierProofs ---------------------------
(* Theorems about Notifier, for any number of processes, scopes, websockets *)
(* and changes.                                                            *)
EXTENDS NotifierSafety, TLAPS

CommandSet == [op : {"subscribe", "unsubscribe"}, scope : Scope]
Place == [pc : {"idle", "auth", "open", "closed"},
          proc : Process \cup {NoProcess}, scope : Scope \cup {NoScope}]

Typed == /\ useRedis \in BOOLEAN /\ host \subseteq Process
         /\ socket \in [Socket -> Place]
         /\ alive \subseteq Socket
         /\ observers \in [Process -> [Scope -> SUBSET Socket]]
         /\ commands \in [Process -> Seq(CommandSet)]
         /\ subscribed \in [Process -> SUBSET Scope]
         /\ version \in [Scope -> 0..MaxVersion]
         /\ outbox \in [Process -> Seq(Scope)] /\ inbox \in [Process -> Seq(Scope)]
         /\ view \in [Socket -> 0..MaxVersion] /\ owed \in [Socket -> 0..MaxVersion]

\* Who runs: all with Redis, one without, and only those take part.
Hosted == /\ useRedis => host = Process
          /\ ~useRedis => \A p, q \in host : p = q
          /\ ~useRedis => \A p \in Process : commands[p] = <<>>
          /\ \A p \in Process \ host : outbox[p] = <<>>
          /\ \A w \in Socket : socket[w].pc # "idle" =>
               socket[w].proc \in host /\ socket[w].scope \in Scope

\* An observer is owed no version that is not there yet, and what it is owed
\* will reach its process: the subscription stands and nothing about it is on
\* its way.  Nobody owes anything to who is not accepted.
Owing == /\ \A w \in Socket : socket[w].pc \in {"idle", "auth"} => owed[w] = 0
         /\ \A w \in Socket, p \in Process, s \in Scope : w \in observers[p][s] =>
              /\ owed[w] <= version[s]
              /\ view[w] < owed[w] => Ready(p, s)

-----------------------------------------------------------------------------
(* What a process has sent, and what it comes to when Redis executes it.   *)

LEMMA AppendFacts ==
    ASSUME NEW S, NEW q \in Seq(S), NEW c \in S
    PROVE  /\ Append(q, c) \in Seq(S)
           /\ DOMAIN q = 1..Len(q) /\ Len(q) \in Nat
           /\ DOMAIN Append(q, c) = 1..(Len(q) + 1)
           /\ Append(q, c)[Len(q) + 1] = c
           /\ \A i \in DOMAIN q : i \in DOMAIN Append(q, c) /\ Append(q, c)[i] = q[i]
OBVIOUS

LEMMA TailFacts ==
    ASSUME NEW S, NEW q \in Seq(S), q # <<>>
    PROVE  /\ Tail(q) \in Seq(S)
           /\ Head(q) = q[1] /\ Head(q) \in S
           /\ DOMAIN q = 1..Len(q) /\ Len(q) \in Nat \ {0}
           /\ DOMAIN Tail(q) = 1..(Len(q) - 1)
           /\ \A i \in 1..(Len(q) - 1) : Tail(q)[i] = q[i + 1]
OBVIOUS

Sent(q, s) == {i \in DOMAIN q : q[i].scope = s}
LastOf(q, s, i) == i \in Sent(q, s) /\ \A j \in Sent(q, s) : j <= i

\* Whether a process that is subscribed to S and has sent q will be to s.
Will(q, S, s) == IF Sent(q, s) = {} THEN s \in S
                 ELSE \E i \in Sent(q, s) : LastOf(q, s, i) /\ q[i].op = "subscribe"

LEMMA FollowsByWill ==
    SubscriptionsFollow <=>
      \A p \in Process, s \in Scope : useRedis =>
        (Will(commands[p], subscribed[p], s) <=> observers[p][s] # {})
BY DEF SubscriptionsFollow, Will, Sent, LastOf

\* The last command about a scope decides.
LEMMA WillAppend ==
    ASSUME NEW q \in Seq(CommandSet), NEW c \in CommandSet, NEW S, NEW s
    PROVE  Will(Append(q, c), S, s) <=> IF c.scope = s THEN c.op = "subscribe"
                                        ELSE Will(q, S, s)
<1>. DEFINE r == Append(q, c)
            n == Len(q) + 1
<1>1. /\ n \in Nat \ {0} /\ DOMAIN q = 1..(n - 1) /\ DOMAIN r = 1..n
      /\ r[n] = c
      /\ \A i \in DOMAIN q : r[i] = q[i]
  BY AppendFacts
<1>. HIDE DEF r, n
<1>2. CASE c.scope = s
  <2>0. n \in DOMAIN r /\ \A j \in DOMAIN r : j <= n
    BY <1>1
  <2>1. n \in Sent(r, s) /\ \A j \in Sent(r, s) : j <= n
    BY <1>1, <1>2, <2>0 DEF Sent
  <2>2. \A i \in Sent(r, s) : LastOf(r, s, i) => i = n
    BY <1>1, <2>1 DEF LastOf, Sent
  <2>3. LastOf(r, s, n)
    BY <2>1 DEF LastOf
  <2>4. Will(r, S, s) <=> c.op = "subscribe"
    BY <1>1, <2>1, <2>2, <2>3 DEF Will
  <2>. QED  BY <1>2, <2>4 DEF r
<1>3. CASE c.scope # s
  <2>1. Sent(r, s) = Sent(q, s)
    BY <1>1, <1>3 DEF Sent
  <2>2. \A i \in Sent(q, s) : r[i] = q[i]
    BY <1>1 DEF Sent
  <2>3. \A i : LastOf(r, s, i) <=> LastOf(q, s, i)
    BY <2>1 DEF LastOf
  <2>4. Will(r, S, s) <=> Will(q, S, s)
    BY <2>1, <2>2, <2>3 DEF Will
  <2>. QED  BY <1>3, <2>4 DEF r
<1>. QED  BY <1>2, <1>3

\* Execution changes what is subscribed and what is still to be executed, and
\* not what they come to.
LEMMA WillTail ==
    ASSUME NEW q \in Seq(CommandSet), q # <<>>, NEW S, NEW T, NEW s,
           T = IF Head(q).op = "subscribe" THEN S \cup {Head(q).scope}
               ELSE S \ {Head(q).scope}
    PROVE  Will(Tail(q), T, s) <=> Will(q, S, s)
<1>. DEFINE r == Tail(q)
            n == Len(q)
<1>1. /\ n \in Nat \ {0} /\ DOMAIN q = 1..n /\ DOMAIN r = 1..(n - 1)
      /\ Head(q) = q[1] /\ Head(q) \in CommandSet
      /\ \A i \in 1..(n - 1) : r[i] = q[i + 1]
  BY TailFacts
<1>. HIDE DEF r, n
<1>2. \A i \in Sent(r, s) : i + 1 \in Sent(q, s) /\ r[i] = q[i + 1] /\ i \in Nat \ {0}
  BY <1>1 DEF Sent
<1>3. \A j \in Sent(q, s) : j \in Nat \ {0} /\ (j # 1 => j - 1 \in Sent(r, s))
  <2>. SUFFICES ASSUME NEW j \in Sent(q, s)
                PROVE  j \in Nat \ {0} /\ (j # 1 => j - 1 \in Sent(r, s))
    OBVIOUS
  <2>1. j \in 1..n /\ q[j].scope = s
    BY <1>1 DEF Sent
  <2>2. j # 1 => j - 1 \in 1..(n - 1) /\ r[j - 1] = q[j]
    BY <1>1, <2>1
  <2>. QED  BY <1>1, <2>1, <2>2 DEF Sent
<1>4. 1 \in Sent(q, s) <=> Head(q).scope = s
  BY <1>1 DEF Sent
<1>5. CASE Sent(r, s) = {}
  <2>1. Sent(q, s) \subseteq {1}
    BY <1>3, <1>5
  <2>2. Will(r, T, s) <=> s \in T
    BY <1>5 DEF Will
  <2>3. CASE Head(q).scope = s
    <3>1. Sent(q, s) = {1} /\ LastOf(q, s, 1)
      BY <1>4, <2>1, <2>3 DEF LastOf
    <3>2. Will(q, S, s) <=> q[1].op = "subscribe"
      BY <3>1 DEF Will
    <3>. QED  BY <1>1, <2>2, <2>3, <3>2 DEF r
  <2>4. CASE Head(q).scope # s
    <3>1. Sent(q, s) = {}
      BY <1>4, <2>1, <2>4
    <3>. QED  BY <2>2, <2>4, <3>1 DEF Will, r
  <2>. QED  BY <2>3, <2>4
<1>6. CASE Sent(r, s) # {}
  <2>1. Sent(q, s) # {}
    BY <1>2, <1>6
  <2>2. \A i \in Sent(r, s) : LastOf(r, s, i) => LastOf(q, s, i + 1)
    BY <1>2, <1>3 DEF LastOf
  <2>3. \A j \in Sent(q, s) : LastOf(q, s, j) => j - 1 \in Sent(r, s) /\ LastOf(r, s, j - 1)
    <3>. SUFFICES ASSUME NEW j \in Sent(q, s), LastOf(q, s, j)
                  PROVE  j - 1 \in Sent(r, s) /\ LastOf(r, s, j - 1)
      OBVIOUS
    <3>1. PICK i \in Sent(r, s) : TRUE
      BY <1>6
    <3>2. j # 1
      BY <1>2, <1>3, <3>1 DEF LastOf
    <3>. QED  BY <1>2, <1>3, <3>2 DEF LastOf
  <2>4. Will(r, T, s) => Will(q, S, s)
    <3>. SUFFICES ASSUME NEW i \in Sent(r, s), LastOf(r, s, i), r[i].op = "subscribe"
                  PROVE  Will(q, S, s)
      BY <1>6 DEF Will
    <3>. QED  BY <1>2, <2>1, <2>2 DEF Will
  <2>5. Will(q, S, s) => Will(r, T, s)
    <3>. SUFFICES ASSUME NEW j \in Sent(q, s), LastOf(q, s, j), q[j].op = "subscribe"
                  PROVE  Will(r, T, s)
      BY <2>1 DEF Will
    <3>1. j - 1 \in Sent(r, s) /\ LastOf(r, s, j - 1)
      BY <2>3
    <3>2. (j - 1) + 1 = j
      BY <1>3
    <3>3. r[j - 1] = q[j]
      BY <1>2, <3>1, <3>2
    <3>. QED  BY <1>6, <3>1, <3>3 DEF Will
  <2>. QED  BY <2>4, <2>5 DEF r
<1>. QED  BY <1>5, <1>6

-----------------------------------------------------------------------------
(* Who joins and who leaves.                                               *)

\* The observers of a scope at a process become O; whoever is the first or the
\* last sends a command.
Turn(p, s, O) ==
    /\ observers' = [observers EXCEPT ![p][s] = O]
    /\ IF observers[p][s] = {} <=> O = {} THEN UNCHANGED commands
       ELSE Command(p, IF O = {} THEN "unsubscribe" ELSE "subscribe", s)

LEMMA AddIsTurn ==
    ASSUME Typed, NEW p \in Process, NEW s \in Scope, NEW w, AddObserver(p, s, w)
    PROVE  Turn(p, s, observers[p][s] \cup {w})
BY DEF AddObserver, Turn, Typed

LEMMA RemoveIsTurn ==
    ASSUME Typed, NEW p \in Process, NEW s \in Scope, NEW W, RemoveObservers(p, s, W)
    PROVE  Turn(p, s, observers[p][s] \ W)
<1>1. observers[p][s] \ W = {} <=> observers[p][s] \subseteq W
  OBVIOUS
<1>2. observers' = [observers EXCEPT ![p][s] = observers[p][s] \ W]
  BY DEF RemoveObservers, Typed
<1>. QED  BY <1>1, <1>2 DEF RemoveObservers, Turn

LEMMA TurnObservers ==
    ASSUME Typed, NEW p \in Process, NEW s \in Scope, NEW O \in SUBSET Socket,
           Turn(p, s, O)
    PROVE  /\ observers' \in [Process -> [Scope -> SUBSET Socket]]
           /\ observers'[p][s] = O
           /\ \A q \in Process, t \in Scope : q # p \/ t # s =>
                observers'[q][t] = observers[q][t]
BY DEF Turn, Typed

LEMMA TurnCommands ==
    ASSUME Typed, NEW p \in Process, NEW s \in Scope, NEW O \in SUBSET Socket,
           Turn(p, s, O)
    PROVE  /\ commands' \in [Process -> Seq(CommandSet)]
           /\ ~useRedis => commands' = commands
           /\ (observers[p][s] = {} <=> O = {}) => commands' = commands
           /\ useRedis /\ ~(observers[p][s] = {} <=> O = {}) =>
                \E c \in CommandSet : /\ c.scope = s
                                      /\ c.op = "subscribe" <=> O # {}
                                      /\ commands'[p] = Append(commands[p], c)
           /\ \A q \in Process \ {p} : commands'[q] = commands[q]
<1>. DEFINE c == [op |-> IF O = {} THEN "unsubscribe" ELSE "subscribe", scope |-> s]
<1>1. c \in CommandSet /\ c.scope = s /\ (c.op = "subscribe" <=> O # {})
  BY DEF CommandSet
<1>2. \/ commands' = commands
      \/ /\ useRedis
         /\ commands' = [commands EXCEPT ![p] = Append(commands[p], c)]
  BY DEF Turn, Command, Typed
<1>3. (observers[p][s] = {} <=> O = {}) => commands' = commands
  BY DEF Turn
<1>4. useRedis /\ ~(observers[p][s] = {} <=> O = {}) =>
        commands' = [commands EXCEPT ![p] = Append(commands[p], c)]
  BY DEF Turn, Command, Typed
<1>. HIDE DEF c
<1>5. Append(commands[p], c) \in Seq(CommandSet)
  BY <1>1, AppendFacts DEF Typed
<1>. QED  BY <1>1, <1>2, <1>3, <1>4, <1>5 DEF Typed

LEMMA TurnFollows ==
    ASSUME Typed, SubscriptionsFollow, UNCHANGED <<useRedis, subscribed>>,
           NEW p \in Process, NEW s \in Scope, NEW O \in SUBSET Socket, Turn(p, s, O)
    PROVE  SubscriptionsFollow'
<1>. SUFFICES ASSUME NEW q \in Process, NEW t \in Scope, useRedis
              PROVE  Will(commands'[q], subscribed[q], t) <=> observers'[q][t] # {}
  BY FollowsByWill DEF SubscriptionsFollow, Will, Sent, LastOf
<1>1. Will(commands[q], subscribed[q], t) <=> observers[q][t] # {}
  BY FollowsByWill
<1>2. CASE q # p \/ commands' = commands
  <2>1. commands'[q] = commands[q]
    BY <1>2, TurnCommands
  <2>2. observers'[q][t] = {} <=> observers[q][t] = {}
    BY <1>2, TurnObservers, TurnCommands
  <2>. QED  BY <1>1, <2>1, <2>2
<1>3. CASE q = p /\ commands' # commands
  <2>1. PICK c \in CommandSet : /\ c.scope = s
                                /\ c.op = "subscribe" <=> O # {}
                                /\ commands'[p] = Append(commands[p], c)
    BY <1>3, TurnCommands
  <2>2. commands[p] \in Seq(CommandSet)
    BY DEF Typed
  <2>3. Will(commands'[q], subscribed[q], t) <=>
          IF t = s THEN O # {} ELSE Will(commands[q], subscribed[q], t)
    BY <1>3, <2>1, <2>2, WillAppend
  <2>. QED  BY <1>1, <1>3, <2>3, TurnObservers
<1>. QED  BY <1>2, <1>3

\* Who goes on being observed goes on being ready.
LEMMA TurnKeepsReady ==
    ASSUME Typed, UNCHANGED <<useRedis, subscribed>>,
           NEW p \in Process, NEW s \in Scope, NEW O \in SUBSET Socket, Turn(p, s, O),
           NEW q \in Process, NEW t \in Scope, Ready(q, t),
           observers[q][t] # {}, observers'[q][t] # {}
    PROVE  Ready(q, t)'
<1>1. CASE commands'[q] = commands[q]
  BY <1>1 DEF Ready
<1>2. CASE commands'[q] # commands[q]
  <2>1. q = p /\ useRedis /\ ~(observers[p][s] = {} <=> O = {})
    BY <1>2, TurnCommands
  <2>2. t # s
    BY <2>1, TurnObservers
  <2>3. PICK c \in CommandSet : c.scope = s /\ commands'[p] = Append(commands[p], c)
    BY <2>1, TurnCommands
  <2>4. \A i \in DOMAIN commands'[p] :
          \/ i \in DOMAIN commands[p] /\ commands'[p][i] = commands[p][i]
          \/ commands'[p][i] = c
    <3>1. commands[p] \in Seq(CommandSet)
      BY DEF Typed
    <3>. QED  BY <2>3, <3>1, AppendFacts
  <2>. QED  BY <2>1, <2>2, <2>3, <2>4 DEF Ready
<1>. QED  BY <1>1, <1>2

-----------------------------------------------------------------------------
(* What the actions come to.  A websocket joins the observers, or leaves    *)
(* them, or is no observer before and after.                               *)

Others(w) == \A v \in Socket \ {w} : socket'[v] = socket[v]

Joins(w, p, s) ==
    /\ socket' \in [Socket -> Place] /\ Others(w)
    /\ socket[w].pc \in {"idle", "auth"}
    /\ socket'[w].pc = "open" /\ socket'[w].proc = p /\ socket'[w].scope = s
    /\ p \in host /\ p \in Process /\ s \in Scope
    /\ Turn(p, s, observers[p][s] \cup {w})
    /\ alive' \in {alive, alive \cup {w}}
    /\ UNCHANGED <<config, subscribed, version, outbox, inbox, view, owed>>

Leaves(w, p, s) ==
    /\ socket' \in [Socket -> Place] /\ Others(w)
    /\ socket[w].pc = "open" /\ socket[w].proc = p /\ socket[w].scope = s
    /\ socket'[w].pc = "closed" /\ socket'[w].proc = p /\ socket'[w].scope = s
    /\ p \in host /\ p \in Process /\ s \in Scope
    /\ Turn(p, s, observers[p][s] \ {w})
    /\ alive' = alive \ {w}
    /\ UNCHANGED <<config, subscribed, version, outbox, inbox, view, owed>>

Waits(w) ==
    /\ socket' \in [Socket -> Place] /\ Others(w)
    /\ socket[w].pc # "open" /\ socket'[w].pc # "open"
    /\ socket'[w].pc \in {"idle", "auth"} => socket[w].pc \in {"idle", "auth"}
    /\ socket'[w].pc # "idle" => socket'[w].proc \in host /\ socket'[w].scope \in Scope
    /\ alive' \in {alive \cup {w}, alive \ {w}}
    /\ UNCHANGED <<config, observers, commands, subscribed, version, outbox, inbox,
                   view, owed>>

\* A process tells its observers of a scope.
Notified(p, s) ==
    /\ p \in Process /\ s \in Scope
    /\ view' \in [Socket -> 0..MaxVersion]
    /\ \A w \in Socket : view'[w] = IF w \in observers[p][s] \cap alive THEN version[s]
                                    ELSE view[w]
    /\ Turn(p, s, observers[p][s] \cap alive)
    /\ UNCHANGED <<config, socket, alive, subscribed, version, owed>>

LEMMA AcceptJoins ==
    ASSUME Typed, Hosted, NEW w \in Socket, Accept(w)
    PROVE  Joins(w, socket[w].proc, socket[w].scope)
<1>1. socket[w] \in Place /\ socket' = [socket EXCEPT ![w].pc = "open"]
  BY DEF Typed, Accept
<1>2. /\ socket' \in [Socket -> Place] /\ Others(w)
      /\ socket'[w].pc = "open" /\ socket'[w].proc = socket[w].proc
      /\ socket'[w].scope = socket[w].scope
  BY <1>1, ZenonT(60) DEF Typed, Place, Others
<1>3. socket[w].proc \in host /\ socket[w].proc \in Process /\ socket[w].scope \in Scope
  BY DEF Typed, Hosted, Accept
<1>. QED  BY <1>2, <1>3, AddIsTurn DEF Accept, Joins

LEMMA AdminJoins ==
    ASSUME Typed, NEW w \in Socket, ConnectAdmin(w)
    PROVE  \E p \in host, s \in Scope : Joins(w, p, s)
<1>1. PICK p \in host, s \in Scope :
         /\ socket' = [socket EXCEPT ![w] = [pc |-> "open", proc |-> p, scope |-> s]]
         /\ AddObserver(p, s, w)
  BY DEF ConnectAdmin
<1>2. p \in Process
  BY DEF Typed
<1>3. [pc |-> "open", proc |-> p, scope |-> s] \in Place
  BY <1>2 DEF Place
<1>4. /\ socket' \in [Socket -> Place] /\ Others(w)
      /\ socket'[w].pc = "open" /\ socket'[w].proc = p /\ socket'[w].scope = s
  BY <1>1, <1>3 DEF Typed, Others
<1>. QED  BY <1>1, <1>2, <1>4, AddIsTurn DEF ConnectAdmin, Joins

LEMMA HangUpLeaves ==
    ASSUME Typed, Hosted, NEW w \in Socket, HangUp(w)
    PROVE  Leaves(w, socket[w].proc, socket[w].scope) \/ Waits(w)
<1>0. socket[w] \in Place
  BY DEF Typed
<1>1. CASE socket[w].pc = "open"
  <2>1. socket' = [socket EXCEPT ![w].pc = "closed"]
    BY <1>1 DEF HangUp
  <2>2. /\ socket' \in [Socket -> Place] /\ Others(w)
        /\ socket'[w].pc = "closed" /\ socket'[w].proc = socket[w].proc
        /\ socket'[w].scope = socket[w].scope
    BY <1>0, <2>1, ZenonT(60) DEF Typed, Place, Others
  <2>3. socket[w].proc \in host /\ socket[w].proc \in Process /\ socket[w].scope \in Scope
    BY <1>1 DEF Typed, Hosted
  <2>. QED  BY <1>1, <2>2, <2>3, RemoveIsTurn DEF HangUp, Leaves
<1>2. CASE socket[w].pc # "open"
  BY <1>2 DEF HangUp, Waits, Others, Typed, Hosted
<1>. QED  BY <1>1, <1>2

LEMMA ApiWaits ==
    ASSUME Typed, Hosted, NEW w \in Socket, ConnectApi(w) \/ Refuse(w)
    PROVE  Waits(w)
<1>0. socket[w] \in Place
  BY DEF Typed
<1>1. CASE ConnectApi(w)
  <2>1. PICK p \in host, s \in Scope :
           socket' = [socket EXCEPT ![w] = [pc |-> "auth", proc |-> p, scope |-> s]]
    BY <1>1 DEF ConnectApi
  <2>2. [pc |-> "auth", proc |-> p, scope |-> s] \in Place
    BY DEF Place, Typed
  <2>3. /\ socket' \in [Socket -> Place] /\ Others(w)
        /\ socket'[w].pc = "auth" /\ socket'[w].proc = p /\ socket'[w].scope = s
    BY <2>1, <2>2 DEF Typed, Others
  <2>. QED  BY <1>1, <2>3 DEF ConnectApi, Waits
<1>2. CASE Refuse(w)
  <2>1. socket' = [socket EXCEPT ![w].pc = "closed"]
    BY <1>2 DEF Refuse
  <2>2. /\ socket' \in [Socket -> Place] /\ Others(w)
        /\ socket'[w].pc = "closed" /\ socket'[w].proc = socket[w].proc
        /\ socket'[w].scope = socket[w].scope
    BY <1>0, <2>1, ZenonT(60) DEF Typed, Place, Others
  <2>3. socket[w].proc \in host /\ socket[w].scope \in Scope
    BY <1>2 DEF Refuse, Hosted
  <2>. QED  BY <1>2, <2>2, <2>3 DEF Refuse, Waits
<1>. QED  BY <1>1, <1>2

LEMMA NotifyNotifies ==
    ASSUME Typed, NEW p \in Process, NEW s \in Scope, LocalNotify(p, s),
           UNCHANGED <<config, socket, alive, subscribed, version, owed>>
    PROVE  Notified(p, s)
<1>1. Turn(p, s, observers[p][s] \ (observers[p][s] \ alive))
  BY RemoveIsTurn DEF LocalNotify
<1>2. observers[p][s] \ (observers[p][s] \ alive) = observers[p][s] \cap alive
  OBVIOUS
<1>3. view' = [w \in Socket |-> IF w \in observers[p][s] \cap alive THEN version[s]
                                ELSE view[w]]
  BY DEF LocalNotify
<1>4. version[s] \in 0..MaxVersion /\ \A w \in Socket : view[w] \in 0..MaxVersion
  BY DEF Typed
<1>. QED  BY <1>1, <1>2, <1>3, <1>4 DEF Notified

-----------------------------------------------------------------------------
(* Queues.                                                                 *)

In(q, s) == \E i \in DOMAIN q : q[i] = s

LEMMA InAppend ==
    ASSUME NEW q \in Seq(Scope), NEW c \in Scope, NEW s
    PROVE  In(Append(q, c), s) <=> In(q, s) \/ c = s
<1>1. In(q, s) \/ c = s => In(Append(q, c), s)
  BY AppendFacts DEF In
<1>2. \A i \in DOMAIN Append(q, c) : i \in DOMAIN q \/ i = Len(q) + 1
  BY AppendFacts
<1>. QED  BY <1>1, <1>2, AppendFacts DEF In

LEMMA InTail ==
    ASSUME NEW q \in Seq(Scope), q # <<>>, NEW s
    PROVE  In(q, s) <=> Head(q) = s \/ In(Tail(q), s)
<1>1. \A i \in DOMAIN Tail(q) : i + 1 \in DOMAIN q /\ q[i + 1] = Tail(q)[i]
  BY TailFacts
<1>2. \A i \in DOMAIN q : i = 1 \/ (i - 1 \in DOMAIN Tail(q) /\ Tail(q)[i - 1] = q[i])
  <2>. SUFFICES ASSUME NEW i \in 1..Len(q), i # 1
                PROVE  i - 1 \in DOMAIN Tail(q) /\ Tail(q)[i - 1] = q[i]
    BY TailFacts
  <2>1. i - 1 \in 1..(Len(q) - 1) /\ (i - 1) + 1 = i
    BY TailFacts
  <2>. QED  BY <2>1, TailFacts
<1>3. 1 \in DOMAIN q /\ q[1] = Head(q)
  BY TailFacts
<1>. QED  BY <1>1, <1>2, <1>3 DEF In

LEMMA InHead == ASSUME NEW q \in Seq(Scope), q # <<>>
                PROVE  Head(q) \in Scope
BY TailFacts

\* One process takes the first of its queue.
LEMMA Popped ==
    ASSUME NEW S, NEW f \in [Process -> Seq(S)], NEW p \in Process, f[p] # <<>>,
           NEW g, g = [f EXCEPT ![p] = Tail(@)]
    PROVE  /\ g \in [Process -> Seq(S)]
           /\ Head(f[p]) \in S
           /\ g[p] = Tail(f[p])
           /\ \A q \in Process \ {p} : g[q] = f[q]
<1>1. Tail(f[p]) \in Seq(S) /\ Head(f[p]) \in S
  BY TailFacts
<1>. QED  BY <1>1

LEMMA PendingIn ==
    ASSUME NEW w \in Socket
    PROVE  /\ Pending(w) <=> \/ \E q \in host : In(outbox[q], socket[w].scope)
                             \/ In(inbox[socket[w].proc], socket[w].scope)
           /\ Pending(w)' <=> \/ \E q \in host' : In(outbox'[q], socket'[w].scope)
                              \/ In(inbox'[socket'[w].proc], socket'[w].scope)
BY DEF Pending, In

-----------------------------------------------------------------------------
(* Types, and who takes part.                                              *)

Basis == Typed /\ Hosted

LEMMA JoinsBasis == ASSUME Basis, NEW w \in Socket, NEW p, NEW s, Joins(w, p, s)
                    PROVE  Basis'
<1>1. observers[p][s] \cup {w} \in SUBSET Socket
  BY DEF Basis, Typed, Joins
<1>2. /\ observers' \in [Process -> [Scope -> SUBSET Socket]]
      /\ commands' \in [Process -> Seq(CommandSet)]
      /\ ~useRedis => commands' = commands
  BY <1>1, TurnObservers, TurnCommands DEF Basis, Joins
<1>3. Typed'
  BY <1>2 DEF Basis, Joins, Typed, config
<1>4. Hosted'
  BY <1>2 DEF Basis, Joins, Hosted, config, Others
<1>. QED  BY <1>3, <1>4 DEF Basis

LEMMA LeavesBasis == ASSUME Basis, NEW w \in Socket, NEW p, NEW s, Leaves(w, p, s)
                     PROVE  Basis'
<1>1. observers[p][s] \ {w} \in SUBSET Socket
  BY DEF Basis, Typed, Leaves
<1>2. /\ observers' \in [Process -> [Scope -> SUBSET Socket]]
      /\ commands' \in [Process -> Seq(CommandSet)]
      /\ ~useRedis => commands' = commands
  BY <1>1, TurnObservers, TurnCommands DEF Basis, Leaves
<1>3. Typed'
  BY <1>2 DEF Basis, Leaves, Typed, config
<1>4. Hosted'
  BY <1>2 DEF Basis, Leaves, Hosted, config, Others
<1>. QED  BY <1>3, <1>4 DEF Basis

LEMMA WaitsBasis == ASSUME Basis, NEW w \in Socket, Waits(w)
                    PROVE  Basis'
<1>1. Typed'
  BY DEF Basis, Waits, Typed, config
<1>2. Hosted'
  BY DEF Basis, Waits, Hosted, config, Others
<1>. QED  BY <1>1, <1>2 DEF Basis

LEMMA ExecuteBasis == ASSUME Basis, NEW p \in Process, Execute(p)
                      PROVE  Basis'
<1>1. /\ commands' \in [Process -> Seq(CommandSet)]
      /\ Head(commands[p]) \in CommandSet
  BY Popped DEF Basis, Typed, Execute
<1>2. useRedis
  BY DEF Basis, Hosted, Execute
<1>3. subscribed' \in [Process -> SUBSET Scope]
  BY <1>1 DEF Basis, Typed, Execute, CommandSet
<1>4. Typed'
  BY <1>1, <1>3 DEF Basis, Execute, Typed, config
<1>5. Hosted'
  BY <1>2 DEF Basis, Execute, Hosted, config
<1>. QED  BY <1>4, <1>5 DEF Basis

LEMMA ChangeBasis == ASSUME Basis, NEW p \in Process, NEW s \in Scope, Change(p, s),
                            MaxVersion \in Nat
                     PROVE  Basis'
<1>1. version[s] \in 0..MaxVersion /\ version[s] + 1 \in 0..MaxVersion
  BY DEF Basis, Typed, Change
<1>2. version' \in [Scope -> 0..MaxVersion]
  BY <1>1 DEF Basis, Typed, Change
<1>3. Append(outbox[p], s) \in Seq(Scope)
  BY AppendFacts DEF Basis, Typed
<1>4. /\ outbox' \in [Process -> Seq(Scope)]
      /\ \A q \in Process \ {p} : outbox'[q] = outbox[q]
  BY <1>3 DEF Basis, Typed, Change
<1>5. owed' \in [Socket -> 0..MaxVersion]
  BY <1>1 DEF Basis, Typed, Change
<1>6. Typed'
  BY <1>2, <1>4, <1>5 DEF Basis, Change, Typed, config
<1>7. Hosted'
  BY <1>4 DEF Basis, Change, Hosted, config
<1>. QED  BY <1>6, <1>7 DEF Basis

LEMMA PublishBasis == ASSUME Basis, NEW p \in Process, Publish(p)
                      PROVE  Basis'
<1>1. /\ outbox' \in [Process -> Seq(Scope)] /\ Head(outbox[p]) \in Scope
      /\ p \in host
      /\ \A q \in Process \ {p} : outbox'[q] = outbox[q]
  BY Popped DEF Basis, Typed, Hosted, Publish
<1>2. \A q \in Process : Append(inbox[q], Head(outbox[p])) \in Seq(Scope)
  BY <1>1, AppendFacts DEF Basis, Typed
<1>3. inbox' \in [Process -> Seq(Scope)]
  BY <1>2 DEF Basis, Typed, Publish
<1>4. Typed'
  BY <1>1, <1>3 DEF Basis, Publish, Typed, config
<1>5. Hosted'
  BY <1>1 DEF Basis, Publish, Hosted, config
<1>. QED  BY <1>4, <1>5 DEF Basis

LEMMA NotifiedBasis ==
    ASSUME Basis, NEW p, NEW s, Notified(p, s),
           outbox' \in [Process -> Seq(Scope)], inbox' \in [Process -> Seq(Scope)],
           \A q \in Process \ host : outbox'[q] = <<>>
    PROVE  Basis'
<1>1. observers[p][s] \cap alive \in SUBSET Socket
  BY DEF Basis, Typed
<1>2. /\ observers' \in [Process -> [Scope -> SUBSET Socket]]
      /\ commands' \in [Process -> Seq(CommandSet)]
      /\ ~useRedis => commands' = commands
  BY <1>1, TurnObservers, TurnCommands DEF Basis, Notified
<1>3. Typed'
  BY <1>2 DEF Basis, Notified, Typed, config
<1>4. Hosted'
  BY <1>2 DEF Basis, Notified, Hosted, config
<1>. QED  BY <1>3, <1>4 DEF Basis

\* A process has taken a notification of s from its queue and told its
\* observers: only they may have nothing pending any more.
Taken(p, s) ==
    /\ Notified(p, s)
    /\ outbox' \in [Process -> Seq(Scope)] /\ inbox' \in [Process -> Seq(Scope)]
    /\ \A q \in Process \ host : outbox'[q] = <<>>
    /\ \A w \in Socket : Watches(w) /\ Pending(w) =>
         Pending(w)' \/ (socket[w].proc = p /\ socket[w].scope = s)

LEMMA LocallyTakes ==
    ASSUME Basis, NEW p \in Process, NotifyLocally(p)
    PROVE  \E s \in Scope : Taken(p, s)
<1>. DEFINE s == Head(outbox[p])
<1>1. /\ s \in Scope /\ outbox' \in [Process -> Seq(Scope)]
      /\ outbox'[p] = Tail(outbox[p])
      /\ \A q \in Process \ {p} : outbox'[q] = outbox[q]
  BY Popped DEF Basis, Typed, NotifyLocally
<1>2. Notified(p, s)
  BY <1>1, NotifyNotifies DEF Basis, NotifyLocally, config
<1>3. p \in host /\ ~useRedis /\ UNCHANGED <<inbox, host, socket>>
  BY DEF Basis, Hosted, NotifyLocally, config
<1>4. \A t \in Scope : In(outbox[p], t) => In(outbox'[p], t) \/ t = s
  BY <1>1, InTail DEF Basis, Typed, NotifyLocally
<1>. HIDE DEF s
<1>5. inbox' \in [Process -> Seq(Scope)] /\ \A q \in Process \ host : outbox'[q] = <<>>
  BY <1>1, <1>3 DEF Basis, Typed, Hosted
<1>6. \A w \in Socket : Watches(w) => socket[w].proc = p /\ socket[w].scope \in Scope
  BY <1>3 DEF Basis, Hosted, Watches
<1>7. \A w \in Socket : Watches(w) /\ Pending(w) =>
         Pending(w)' \/ (socket[w].proc = p /\ socket[w].scope = s)
  BY <1>1, <1>3, <1>4, <1>6, PendingIn DEF Basis, Typed
<1>. QED  BY <1>1, <1>2, <1>5, <1>7 DEF Taken

LEMMA HandleTakes ==
    ASSUME Basis, NEW p \in Process, Handle(p)
    PROVE  \E s \in Scope : Taken(p, s)
<1>. DEFINE s == Head(inbox[p])
<1>1. /\ s \in Scope /\ inbox' \in [Process -> Seq(Scope)]
      /\ inbox'[p] = Tail(inbox[p])
      /\ \A q \in Process \ {p} : inbox'[q] = inbox[q]
  BY Popped DEF Basis, Typed, Handle
<1>2. Notified(p, s)
  BY <1>1, NotifyNotifies DEF Basis, Handle, config
<1>3. UNCHANGED <<outbox, host, socket>>
  BY DEF Handle, config
<1>4. \A t \in Scope : In(inbox[p], t) => In(inbox'[p], t) \/ t = s
  BY <1>1, InTail DEF Basis, Typed, Handle
<1>. HIDE DEF s
<1>5. outbox' \in [Process -> Seq(Scope)] /\ \A q \in Process \ host : outbox'[q] = <<>>
  BY <1>3 DEF Basis, Typed, Hosted
<1>6. \A w \in Socket : Watches(w) =>
         socket[w].proc \in Process /\ socket[w].scope \in Scope
  BY DEF Basis, Typed, Hosted, Watches
<1>7. \A w \in Socket : Watches(w) /\ Pending(w) =>
         Pending(w)' \/ (socket[w].proc = p /\ socket[w].scope = s)
  BY <1>1, <1>3, <1>4, <1>6, PendingIn
<1>. QED  BY <1>1, <1>2, <1>5, <1>7 DEF Taken

LEMMA TakenBasis == ASSUME Basis, NEW p, NEW s, Taken(p, s)
                    PROVE  Basis'
BY NotifiedBasis DEF Taken

-----------------------------------------------------------------------------
(* Each promise, kept by each kind of step.                                *)

Promise == OpenIsObserved /\ SubscriptionsFollow /\ Owing /\ NothingMissed

LEMMA JoinsPromise ==
    ASSUME Basis, Promise, NEW w \in Socket, NEW p, NEW s, Joins(w, p, s)
    PROVE  Promise'
<1>. DEFINE O == observers[p][s] \cup {w}
<1>1. /\ O \in SUBSET Socket /\ O # {} /\ Turn(p, s, O)
      /\ p \in Process /\ s \in Scope
      /\ UNCHANGED <<useRedis, host, subscribed, version, outbox, inbox, view, owed>>
  BY DEF Basis, Typed, Joins, config
<1>2. /\ observers'[p][s] = O
      /\ \A q \in Process, t \in Scope : q # p \/ t # s => observers'[q][t] = observers[q][t]
  BY <1>1, TurnObservers DEF Basis
<1>3. \A q \in Process, t \in Scope : w \notin observers[q][t]
  BY DEF Promise, OpenIsObserved, Joins
<1>4. OpenIsObserved'
  BY <1>1, <1>2, <1>3 DEF Promise, OpenIsObserved, Joins, Others
<1>5. SubscriptionsFollow'
  BY <1>1, TurnFollows DEF Basis, Promise
<1>6. Owing'
  <2>1. \A v \in Socket : socket'[v].pc \in {"idle", "auth"} => owed'[v] = 0
    BY <1>1 DEF Promise, Owing, Joins, Others
  <2>. SUFFICES ASSUME NEW v \in Socket, NEW q \in Process, NEW t \in Scope,
                       v \in observers'[q][t]
                PROVE  /\ owed[v] <= version[t]
                       /\ view[v] < owed[v] => Ready(q, t)'
    BY <1>1, <2>1 DEF Owing
  <2>2. CASE v = w
    BY <1>1, <2>2 DEF Basis, Typed, Promise, Owing, Joins
  <2>3. CASE v # w
    <3>1. v \in observers[q][t]
      BY <1>2, <2>3
    <3>. QED  BY <1>1, <3>1, TurnKeepsReady DEF Basis, Promise, Owing
  <2>. QED  BY <2>2, <2>3
<1>7. NothingMissed'
  <2>1. owed[w] = 0
    BY DEF Promise, Owing, Joins
  <2>. SUFFICES ASSUME NEW v \in Socket, Watches(v)', view[v] < owed[v]
                PROVE  Pending(v)'
    BY <1>1 DEF NothingMissed
  <2>2. v # w
    BY <2>1 DEF Basis, Typed
  <2>3. socket'[v] = socket[v] /\ Watches(v)
    BY <2>2 DEF Joins, Others, Watches
  <2>. QED  BY <1>1, <2>3 DEF Promise, NothingMissed, Pending
<1>. QED  BY <1>4, <1>5, <1>6, <1>7 DEF Promise

LEMMA LeavesPromise ==
    ASSUME Basis, Promise, NEW w \in Socket, NEW p, NEW s, Leaves(w, p, s)
    PROVE  Promise'
<1>. DEFINE O == observers[p][s] \ {w}
<1>1. /\ O \in SUBSET Socket /\ Turn(p, s, O)
      /\ p \in Process /\ s \in Scope
      /\ UNCHANGED <<useRedis, host, subscribed, version, outbox, inbox, view, owed>>
  BY DEF Basis, Typed, Leaves, config
<1>2. /\ observers'[p][s] = O
      /\ \A q \in Process, t \in Scope : q # p \/ t # s => observers'[q][t] = observers[q][t]
  BY <1>1, TurnObservers DEF Basis
<1>3. \A q \in Process, t \in Scope : w \notin observers'[q][t]
  BY <1>2 DEF Promise, OpenIsObserved, Leaves
<1>4. OpenIsObserved'
  BY <1>1, <1>2, <1>3 DEF Promise, OpenIsObserved, Leaves, Others
<1>5. SubscriptionsFollow'
  BY <1>1, TurnFollows DEF Basis, Promise
<1>6. Owing'
  <2>1. \A v \in Socket : socket'[v].pc \in {"idle", "auth"} => owed'[v] = 0
    BY <1>1 DEF Promise, Owing, Leaves, Others
  <2>. SUFFICES ASSUME NEW v \in Socket, NEW q \in Process, NEW t \in Scope,
                       v \in observers'[q][t]
                PROVE  /\ owed[v] <= version[t]
                       /\ view[v] < owed[v] => Ready(q, t)'
    BY <1>1, <2>1 DEF Owing
  <2>2. v \in observers[q][t]
    BY <1>2
  <2>. QED  BY <1>1, <2>2, TurnKeepsReady DEF Basis, Promise, Owing
<1>7. NothingMissed'
  <2>. SUFFICES ASSUME NEW v \in Socket, Watches(v)', view[v] < owed[v]
                PROVE  Pending(v)'
    BY <1>1 DEF NothingMissed
  <2>1. v # w
    BY DEF Leaves, Watches
  <2>2. socket'[v] = socket[v] /\ Watches(v)
    BY <2>1 DEF Leaves, Others, Watches
  <2>. QED  BY <1>1, <2>2 DEF Promise, NothingMissed, Pending
<1>. QED  BY <1>4, <1>5, <1>6, <1>7 DEF Promise

LEMMA WaitsPromise ==
    ASSUME Basis, Promise, NEW w \in Socket, Waits(w)
    PROVE  Promise'
<1>1. UNCHANGED <<useRedis, host, observers, commands, subscribed, version, outbox, inbox,
                  view, owed>>
  BY DEF Waits, config
<1>2. OpenIsObserved'
  BY <1>1 DEF Promise, OpenIsObserved, Waits, Others
<1>3. SubscriptionsFollow'
  BY <1>1 DEF Promise, SubscriptionsFollow
<1>4. Owing'
  BY <1>1 DEF Promise, Owing, Ready, Waits, Others
<1>5. NothingMissed'
  <2>. SUFFICES ASSUME NEW v \in Socket, Watches(v)', view[v] < owed[v]
                PROVE  Pending(v)'
    BY <1>1 DEF NothingMissed
  <2>1. v # w
    BY DEF Waits, Watches
  <2>2. socket'[v] = socket[v] /\ Watches(v)
    BY <2>1 DEF Waits, Others, Watches
  <2>. QED  BY <1>1, <2>2 DEF Promise, NothingMissed, Pending
<1>. QED  BY <1>2, <1>3, <1>4, <1>5 DEF Promise

LEMMA ExecutePromise ==
    ASSUME Basis, Promise, NEW p \in Process, Execute(p)
    PROVE  Promise'
<1>. DEFINE c == Head(commands[p])
            T == IF c.op = "subscribe" THEN subscribed[p] \cup {c.scope}
                 ELSE subscribed[p] \ {c.scope}
<1>1. /\ commands[p] # <<>> /\ commands[p] \in Seq(CommandSet)
      /\ commands'[p] = Tail(commands[p])
      /\ \A q \in Process \ {p} : commands'[q] = commands[q]
  BY Popped DEF Basis, Typed, Execute
<1>2. subscribed'[p] = T /\ \A q \in Process \ {p} : subscribed'[q] = subscribed[q]
  BY DEF Basis, Typed, Execute
<1>3. UNCHANGED <<useRedis, host, socket, alive, observers, version, outbox, inbox, view, owed>>
  BY DEF Execute, config
<1>4. OpenIsObserved'
  BY <1>3 DEF Promise, OpenIsObserved
<1>5. SubscriptionsFollow'
  <2>. SUFFICES ASSUME NEW q \in Process, NEW t \in Scope, useRedis
                PROVE  Will(commands'[q], subscribed'[q], t) <=> observers[q][t] # {}
    BY <1>3 DEF SubscriptionsFollow, Will, Sent, LastOf
  <2>1. Will(commands[q], subscribed[q], t) <=> observers[q][t] # {}
    BY FollowsByWill DEF Promise
  <2>2. Will(Tail(commands[p]), T, t) <=> Will(commands[p], subscribed[p], t)
    BY <1>1, WillTail
  <2>. QED  BY <1>1, <1>2, <2>1, <2>2
<1>6. \A q \in Process, t \in Scope : Ready(q, t) => Ready(q, t)'
  <2>. SUFFICES ASSUME NEW t \in Scope, Ready(p, t), useRedis
                PROVE  t \in T /\ \A i \in DOMAIN Tail(commands[p]) : Tail(commands[p])[i].scope # t
    BY <1>1, <1>2, <1>3 DEF Ready
  <2>1. 1 \in DOMAIN commands[p] /\ c = commands[p][1]
    BY <1>1, TailFacts
  <2>2. \A i \in DOMAIN Tail(commands[p]) :
          i + 1 \in DOMAIN commands[p] /\ Tail(commands[p])[i] = commands[p][i + 1]
    BY <1>1, TailFacts
  <2>. QED  BY <2>1, <2>2 DEF Ready
<1>7. Owing'
  BY <1>3, <1>6 DEF Promise, Owing
<1>8. NothingMissed'
  BY <1>3 DEF Promise, NothingMissed, Pending, Watches
<1>. QED  BY <1>4, <1>5, <1>7, <1>8 DEF Promise

LEMMA ChangePromise ==
    ASSUME Basis, Promise, NEW p \in Process, NEW s \in Scope, Change(p, s)
    PROVE  Promise'
<1>1. /\ p \in host
      /\ UNCHANGED <<useRedis, host, socket, alive, observers, commands, subscribed, inbox, view>>
  BY DEF Change, config
<1>2. /\ version'[s] = version[s] + 1 /\ version[s] \in Nat
      /\ \A t \in Scope : version[t] \in Nat /\ version[t] <= version'[t]
  BY DEF Basis, Typed, Change
<1>3. /\ In(outbox'[p], s)
      /\ \A q \in Process : \A t : In(outbox[q], t) => In(outbox'[q], t)
  BY InAppend DEF Basis, Typed, Change
<1>4. \A w \in Socket : \/ owed'[w] = owed[w]
                        \/ \E q \in host : /\ w \in observers[q][s] /\ Ready(q, s)
                                           /\ owed'[w] = version[s] + 1
  BY DEF Change
<1>5. \A w \in Socket, q \in Process, t \in Scope : w \in observers[q][t] =>
        q = socket[w].proc /\ t = socket[w].scope /\ socket[w].pc = "open"
  BY DEF Promise, OpenIsObserved
<1>6. \A q \in Process, t \in Scope : Ready(q, t)' <=> Ready(q, t)
  BY <1>1 DEF Ready
<1>7. OpenIsObserved'
  BY <1>1 DEF Promise, OpenIsObserved
<1>8. SubscriptionsFollow'
  BY <1>1 DEF Promise, SubscriptionsFollow
<1>9. Owing'
  <2>. SUFFICES ASSUME NEW w \in Socket
                PROVE  /\ socket[w].pc \in {"idle", "auth"} => owed'[w] = 0
                       /\ \A q \in Process, t \in Scope : w \in observers[q][t] =>
                            /\ owed'[w] <= version'[t]
                            /\ view[w] < owed'[w] => Ready(q, t)
    BY <1>1, <1>6 DEF Owing
  <2>0. owed[w] \in Nat
    BY DEF Basis, Typed
  <2>1. CASE owed'[w] = owed[w]
    <3>1. ASSUME NEW q \in Process, NEW t \in Scope, w \in observers[q][t]
          PROVE  owed[w] <= version'[t] /\ (view[w] < owed[w] => Ready(q, t))
      <4>1. owed[w] <= version[t] /\ (view[w] < owed[w] => Ready(q, t))
        BY <3>1 DEF Promise, Owing
      <4>2. version[t] \in Nat /\ version'[t] \in Nat /\ version[t] <= version'[t]
        BY <1>2 DEF Basis, Typed, Change
      <4>. QED  BY <2>0, <4>1, <4>2
    <3>. QED  BY <2>1, <3>1 DEF Promise, Owing
  <2>2. CASE owed'[w] # owed[w]
    <3>1. PICK q \in host : /\ w \in observers[q][s] /\ Ready(q, s)
                            /\ owed'[w] = version[s] + 1
      BY <1>4, <2>2
    <3>2. q \in Process
      BY DEF Basis, Typed
    <3>3. \A r \in Process, t \in Scope : w \in observers[r][t] => r = q /\ t = s
      BY <1>5, <3>1, <3>2
    <3>. QED  BY <1>2, <1>5, <3>1, <3>2, <3>3
  <2>. QED  BY <2>1, <2>2
<1>10. NothingMissed'
  <2>. SUFFICES ASSUME NEW w \in Socket, Watches(w), view[w] < owed'[w]
                PROVE  Pending(w)'
    BY <1>1 DEF NothingMissed, Watches
  <2>1. CASE owed'[w] = owed[w]
    <3>1. Pending(w) /\ host \subseteq Process
      BY <2>1 DEF Basis, Typed, Promise, NothingMissed
    <3>. QED  BY <1>1, <1>3, <3>1, PendingIn
  <2>2. CASE owed'[w] # owed[w]
    <3>1. PICK q \in host : w \in observers[q][s]
      BY <1>4, <2>2
    <3>2. socket[w].scope = s
      BY <1>5, <3>1 DEF Basis, Typed
    <3>. QED  BY <1>1, <1>3, <3>2, PendingIn
  <2>. QED  BY <2>1, <2>2
<1>. QED  BY <1>7, <1>8, <1>9, <1>10 DEF Promise

\* The notification reaches every process that somebody counts on it at.
LEMMA PublishPromise ==
    ASSUME Basis, Promise, NEW p \in Process, Publish(p)
    PROVE  Promise'
<1>. DEFINE s == Head(outbox[p])
<1>1. /\ useRedis
      /\ UNCHANGED <<useRedis, host, socket, alive, observers, commands, subscribed, version,
                     view, owed>>
  BY DEF Publish, config
<1>2. /\ s \in Scope /\ outbox[p] # <<>> /\ outbox[p] \in Seq(Scope)
      /\ outbox'[p] = Tail(outbox[p])
      /\ \A q \in Process \ {p} : outbox'[q] = outbox[q]
  BY Popped DEF Basis, Typed, Publish
<1>3. \A q \in Process : \A t : In(outbox[q], t) => In(outbox'[q], t) \/ t = s
  BY <1>2, InTail
<1>4. \A q \in Process : inbox'[q] = IF s \in subscribed[q] THEN Append(inbox[q], s)
                                     ELSE inbox[q]
  BY DEF Publish
<1>. HIDE DEF s
<1>5. \A q \in Process : \A t : /\ In(inbox[q], t) => In(inbox'[q], t)
                                /\ s \in subscribed[q] => In(inbox'[q], s)
  BY <1>2, <1>4, InAppend DEF Basis, Typed
<1>6. OpenIsObserved' /\ SubscriptionsFollow'
  BY <1>1 DEF Promise, OpenIsObserved, SubscriptionsFollow
<1>7. Owing'
  BY <1>1 DEF Promise, Owing, Ready
<1>8. NothingMissed'
  <2>. SUFFICES ASSUME NEW w \in Socket, Watches(w), view[w] < owed[w]
                PROVE  Pending(w)'
    BY <1>1 DEF NothingMissed, Watches
  <2>1. /\ Pending(w) /\ host \subseteq Process
        /\ socket[w].proc \in Process /\ socket[w].scope \in Scope
    BY DEF Basis, Typed, Hosted, Promise, NothingMissed, Watches
  <2>2. w \in observers[socket[w].proc][socket[w].scope]
    BY <2>1 DEF Promise, OpenIsObserved, Watches
  <2>3. socket[w].scope \in subscribed[socket[w].proc]
    BY <1>1, <2>1, <2>2 DEF Promise, Owing, Ready
  <2>. QED  BY <1>1, <1>3, <1>5, <2>1, <2>3, PendingIn
<1>. QED  BY <1>6, <1>7, <1>8 DEF Promise

\* Who is told has the version that is there, which is all it is owed.
LEMMA TakenPromise ==
    ASSUME Basis, Promise, NEW p, NEW s, Taken(p, s)
    PROVE  Promise'
<1>. DEFINE O == observers[p][s] \cap alive
<1>1. /\ O \in SUBSET Socket /\ Turn(p, s, O)
      /\ p \in Process /\ s \in Scope
      /\ UNCHANGED <<useRedis, host, socket, alive, subscribed, version, owed>>
  BY DEF Basis, Typed, Taken, Notified, config
<1>2. /\ observers'[p][s] = O
      /\ \A q \in Process, t \in Scope : q # p \/ t # s => observers'[q][t] = observers[q][t]
  BY <1>1, TurnObservers DEF Basis
<1>3. \A w \in Socket : view'[w] = IF w \in O THEN version[s] ELSE view[w]
  BY DEF Taken, Notified
<1>4. \A w \in O : owed[w] <= view'[w] /\ ~(view'[w] < owed[w])
  <2>. SUFFICES ASSUME NEW w \in O
                PROVE  owed[w] <= view'[w] /\ ~(view'[w] < owed[w])
    OBVIOUS
  <2>1. w \in Socket /\ owed[w] <= version[s] /\ owed[w] \in Nat /\ version[s] \in Nat
    BY <1>1 DEF Basis, Typed, Promise, Owing
  <2>. QED  BY <1>3, <2>1
<1>. HIDE DEF O
<1>5. \A w \in Socket, q \in Process, t \in Scope :
        w \in observers'[q][t] => w \in observers[q][t]
  BY <1>1, <1>2 DEF O
<1>6. OpenIsObserved'
  BY <1>1, <1>2 DEF Promise, OpenIsObserved, O
<1>7. SubscriptionsFollow'
  BY <1>1, TurnFollows DEF Basis, Promise
<1>8. Owing'
  <2>. SUFFICES ASSUME NEW w \in Socket, NEW q \in Process, NEW t \in Scope,
                       w \in observers'[q][t]
                PROVE  /\ owed[w] <= version[t]
                       /\ view'[w] < owed[w] => Ready(q, t)'
    BY <1>1 DEF Promise, Owing
  <2>1. w \in observers[q][t]
    BY <1>5
  <2>2. CASE w \in O
    BY <1>4, <2>1, <2>2 DEF Promise, Owing
  <2>3. CASE w \notin O
    BY <1>1, <1>3, <2>1, <2>3, TurnKeepsReady DEF Basis, Promise, Owing
  <2>. QED  BY <2>2, <2>3
<1>9. NothingMissed'
  <2>. SUFFICES ASSUME NEW w \in Socket, Watches(w), view'[w] < owed[w]
                PROVE  Pending(w)'
    BY <1>1 DEF NothingMissed, Watches
  <2>1. w \notin O /\ Pending(w)
    BY <1>3, <1>4 DEF Promise, NothingMissed
  <2>2. ~(socket[w].proc = p /\ socket[w].scope = s)
    BY <1>1, <2>1 DEF Promise, OpenIsObserved, Watches, O
  <2>. QED  BY <2>1, <2>2 DEF Taken
<1>. QED  BY <1>6, <1>7, <1>8, <1>9 DEF Promise

-----------------------------------------------------------------------------
LEMMA NotifierInit == ASSUME NotifierAssumption, Init
                      PROVE  Basis /\ Promise
<1>1. /\ useRedis \in BOOLEAN /\ host \subseteq Process
      /\ useRedis => host = Process
      /\ ~useRedis => \A p, q \in host : p = q
  BY DEF Init, NotifierAssumption
<1>2. socket \in [Socket -> Place] /\ \A w \in Socket : socket[w].pc = "idle"
  BY DEF Init, Place
<1>3. Typed
  BY <1>1, <1>2 DEF Init, NotifierAssumption, Typed
<1>4. Hosted
  BY <1>1, <1>2 DEF Init, Hosted
<1>5. OpenIsObserved
  BY <1>2 DEF Init, OpenIsObserved
<1>6. SubscriptionsFollow
  <2>1. \A p \in Process : \A s : Sent(commands[p], s) = {}
    BY DEF Init, Sent
  <2>. QED  BY <2>1, FollowsByWill DEF Init, Will
<1>7. Owing /\ NothingMissed
  BY <1>2 DEF Init, Owing, NothingMissed, Watches
<1>. QED  BY <1>3, <1>4, <1>5, <1>6, <1>7 DEF Basis, Promise

LEMMA NotifierStep == ASSUME NotifierAssumption, Basis, Promise, [Next]_vars
                      PROVE  Basis' /\ Promise'
<1>1. CASE UNCHANGED vars
  <2>. USE <1>1 DEF vars, config
  <2>1. Typed'
    BY DEF Basis, Typed
  <2>2. Hosted'
    BY DEF Basis, Hosted
  <2>3. OpenIsObserved' /\ SubscriptionsFollow'
    BY DEF Promise, OpenIsObserved, SubscriptionsFollow
  <2>4. Owing'
    BY DEF Promise, Owing, Ready
  <2>5. NothingMissed'
    BY DEF Promise, NothingMissed, Pending, Watches
  <2>. QED  BY <2>1, <2>2, <2>3, <2>4, <2>5 DEF Basis, Promise
<1>2. ASSUME NEW w \in Socket, NEW p, NEW s, Joins(w, p, s)
      PROVE  Basis' /\ Promise'
  BY <1>2, JoinsBasis, JoinsPromise
<1>3. ASSUME NEW w \in Socket, NEW p, NEW s, Leaves(w, p, s)
      PROVE  Basis' /\ Promise'
  BY <1>3, LeavesBasis, LeavesPromise
<1>4. ASSUME NEW w \in Socket, Waits(w)
      PROVE  Basis' /\ Promise'
  BY <1>4, WaitsBasis, WaitsPromise
<1>5. ASSUME NEW w \in Socket, ConnectApi(w) \/ Accept(w) \/ Refuse(w) \/ HangUp(w)
      PROVE  Basis' /\ Promise'
  BY <1>2, <1>3, <1>4, <1>5, ApiWaits, AcceptJoins, HangUpLeaves DEF Basis
<1>6. ASSUME NEW w \in Socket, ConnectAdmin(w)
      PROVE  Basis' /\ Promise'
  BY <1>2, <1>6, AdminJoins DEF Basis
<1>7. ASSUME NEW p \in Process, Execute(p)
      PROVE  Basis' /\ Promise'
  BY <1>7, ExecuteBasis, ExecutePromise
<1>8. ASSUME NEW p \in Process, NEW s \in Scope, Change(p, s)
      PROVE  Basis' /\ Promise'
  BY <1>8, ChangeBasis, ChangePromise DEF NotifierAssumption
<1>9. ASSUME NEW p \in Process, Publish(p)
      PROVE  Basis' /\ Promise'
  BY <1>9, PublishBasis, PublishPromise
<1>10. ASSUME NEW p \in Process, NotifyLocally(p) \/ Handle(p)
       PROVE  Basis' /\ Promise'
  BY <1>10, LocallyTakes, HandleTakes, TakenBasis, TakenPromise
<1>. QED  BY <1>1, <1>5, <1>6, <1>7, <1>8, <1>9, <1>10 DEF Next

LEMMA BasisTypes == Basis => TypeOK
<1>. SUFFICES ASSUME Basis
              PROVE  TypeOK
  OBVIOUS
<1>1. \A w \in Socket :
         /\ socket[w].pc \in {"idle", "auth", "open", "closed"}
         /\ socket[w].pc # "idle" => socket[w].proc \in host /\ socket[w].scope \in Scope
         /\ view[w] \in 0..MaxVersion /\ owed[w] \in 0..MaxVersion
  BY DEF Basis, Typed, Hosted, Place
<1>2. \A p \in Process : \A i \in DOMAIN commands[p] : commands[p][i] \in CommandSet
  BY DEF Basis, Typed
<1>. QED  BY <1>1, <1>2 DEF Basis, Typed, Hosted, TypeOK, CommandSet

NotifierInv == Basis /\ Promise

LEMMA NotifierHolds == Spec => []NotifierInv
<1>1. Init => NotifierInv
  BY NotifierInit, NotifierAssumption DEF NotifierInv
<1>2. NotifierInv /\ [Next]_vars => NotifierInv'
  BY NotifierStep, NotifierAssumption DEF NotifierInv
<1>. QED  BY <1>1, <1>2, PTL DEF Spec

(* The variables of the notifier have their types, and a process that does *)
(* not run has no part in anything.                                        *)
THEOREM TypeCorrect == Spec => []TypeOK
BY NotifierHolds, BasisTypes, PTL DEF NotifierInv

(* When Redis has executed what a process has sent, the process is         *)
(* subscribed to the scopes it has observers for and to no other, however  *)
(* many come and go at once (notifier.ts:30-46).                           *)
THEOREM SubscriptionsAreRight == Spec => []SubscriptionsFollow
<1>1. NotifierInv => SubscriptionsFollow
  BY DEF NotifierInv, Promise
<1>. QED  BY <1>1, NotifierHolds, PTL

(* A websocket that is open and accepted is an observer of its own scope at *)
(* its own process, and of nothing else, whoever leaves                    *)
(* (tokenapi.v1.ws.ts:43-62).                                              *)
THEOREM ObserversAreRight == Spec => []OpenIsObserved
<1>1. NotifierInv => OpenIsObserved
  BY DEF NotifierInv, Promise
<1>. QED  BY <1>1, NotifierHolds, PTL

(* A client never rests on old data: what changed after its process had    *)
(* subscribed it has read, or a notification is on its way                 *)
(* (notifier.ts:15-17, 48-53).                                             *)
THEOREM ChangesReachObservers == Spec => []NothingMissed
<1>1. NotifierInv => NothingMissed
  BY DEF NotifierInv, Promise
<1>. QED  BY <1>1, NotifierHolds, PTL
=============================================================================
