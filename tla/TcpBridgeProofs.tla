--------------------------- MODULE TcpBridgeProofs ---------------------------
(* Theorems about TcpBridge for every number of loops, connections, lines   *)
(* and answers.                                                             *)
EXTENDS TcpBridge, SequenceTheorems, FiniteSetTheorems, WellFoundedInduction, TLAPS

(* The functors of a loop in the order in which they will run.              *)
In(s, f)    == \E i \in 1..Len(s) : s[i] = f
OnceEach(s) == \A i, j \in 1..Len(s) : s[i] = s[j] /\ s[i].run # "send" => i = j

Queue(l)  == loop[l].running \o loop[l].pending
Has(l, f) == In(Queue(l), f)

(* What a loop's thread is at: events only after a poll, functors only      *)
(* after the events, a connection for each duty that needs one, and none    *)
(* but the sends queued twice.                                              *)
Orderly(l) ==
    /\ loop[l].at # "events" => loop[l].active = {}
    /\ loop[l].at # "functors" => loop[l].running = <<>>
    /\ loop[l].at = "poll" => loop[l].duty = "none"
    /\ loop[l].duty \in {"wakeup", "write", "join", "remove"} => loop[l].conn \in Conn
    /\ loop[l].duty \in {"write", "join", "remove"} => LoopOf(loop[l].conn) = l
    /\ OnceEach(Queue(l))

(* A ready connection is connected until its loop has handled it.           *)
ReadyIsConnected(l) ==
    /\ \A c \in Conn : \A event \in {"read", "write"} :
          Ready(event, c) \in loop[l].active => conn[c].state = "connected"
    /\ loop[l].duty = "write" => conn[loop[l].conn].state = "connected"

LoopInv == \A l \in Loop : Orderly(l) /\ ReadyIsConnected(l)

(* Connections wait for accept once each, and the one that is ready for it  *)
(* is the first.                                                            *)
BacklogInv ==
    /\ \A i \in 1..Len(backlog) :
          conn[backlog[i]].state = "none" /\ sock[backlog[i]].client # "none"
    /\ \A i, j \in 1..Len(backlog) : backlog[i] = backlog[j] => i = j
    /\ \A c \in Conn : Ready("accept", c) \in loop[Base].active =>
                          backlog # <<>> /\ Head(backlog) = c

(* The ways of a connection: one functor or one duty takes it to its next   *)
(* state.                                                                   *)
Establishes(c) == Has(LoopOf(c), Call("connectEstablished", c))
Closing(c)     == loop[LoopOf(c)].duty \in {"join", "remove"} /\ loop[LoopOf(c)].conn = c
Removed(c)     == Has(Base, Call("removeConnection", c))
Destroys(c)    == Has(LoopOf(c), Call("connectDestroyed", c))

Fresh(c) ==
    /\ ~conn[c].added /\ ~conn[c].reading /\ ~conn[c].writing
    /\ session[c].pull = "none" /\ sock[c].read = 0
    /\ ~Closing(c) /\ ~Removed(c) /\ ~Destroys(c)

Stage(c) ==
    \/ /\ conn[c].state = "none" /\ Fresh(c)
       /\ ~Establishes(c) /\ c \notin connections
    \/ /\ conn[c].state = "connecting" /\ Fresh(c)
       /\ Establishes(c) /\ c \in connections
    \/ /\ conn[c].state = "connected" /\ conn[c].added /\ conn[c].reading
       /\ session[c].pull \notin {"none", "exited"}
       /\ c \in connections
       /\ ~Establishes(c) /\ ~Closing(c) /\ ~Removed(c) /\ ~Destroys(c)
    \/ /\ conn[c].state = "disconnected" /\ ~conn[c].reading /\ ~conn[c].writing
       /\ session[c].pull # "none"
       /\ ~Establishes(c)
       /\ Closing(c) => conn[c].added /\ c \in connections /\ ~Removed(c) /\ ~Destroys(c)
       /\ Removed(c) => conn[c].added /\ c \in connections /\ ~Destroys(c)
       /\ Destroys(c) => conn[c].added

(* A PULL thread that sends has something to send.                          *)
SessionInv ==
    \A c \in Conn : session[c].pull \in {"send", "queue"} => session[c].hand \in Answer

(* A client connects before it sends, no more than its lines.               *)
SocketInv ==
    \A c \in Conn :
        /\ sock[c].client = "none" => conn[c].state = "none" /\ Sent(c) = 0
        /\ Sent(c) <= 2 * MaxLines
        /\ ~Pipelined => Sent(c) % 2 = 0

(* A send is only queued for a connection that has been established.        *)
SendsInv ==
    \A l \in Loop : \A f \in FunctorsOf(l) :
        Has(l, f) /\ f.run = "send" => conn[f.conn].state \in {"connected", "disconnected"}

ConnInv == \A c \in Conn : Stage(c)

(* NoLostWakeup, for the loops that run functors as well.                   *)
Noticed(l) ==
    \/ loop[l].wakeup
    \/ \E m \in Loop : loop[m].duty = "wakeup" /\ Woken(m, loop[m].conn) = l
    \/ \E c \in Conn : session[c].pull = "wakeup" /\ LoopOf(c) = l

WakeupInv ==
    \A l \in Loop : loop[l].at # "events" /\ loop[l].pending # <<>> => Noticed(l)

BridgeInv ==
    /\ TypeOK /\ LoopInv /\ BacklogInv /\ SessionInv /\ SocketInv
    /\ SendsInv /\ ConnInv /\ WakeupInv

------------------------------------------------------------------------------
(* Loops, functors and channels.                                            *)

LEMMA LoopNumbers ==
    /\ Base \in Loop
    /\ \A c \in Conn : LoopOf(c) \in Loop /\ LoopOf(c) # Base
<1>1. NumLoops \in Nat /\ NumLoops > 0 /\ MaxConns \in Nat
  BY BridgeAssumption
<1>2. ASSUME NEW c \in Conn
      PROVE  (c - 1) % NumLoops \in 0..(NumLoops - 1)
  <2>1. c - 1 \in Nat
    BY <1>1 DEF Conn
  <2>2. QED
    BY <1>1, <2>1
<1>3. QED
  BY <1>1, <1>2 DEF Base, Loop, LoopOf

LEMMA ConnNumbers == NoConn \notin Conn
BY DEF NoConn, Conn

(* What a functor of each kind is, and which it is not.                     *)
LEMMA CallFields ==
    \A name, c : Call(name, c).run = name /\ Call(name, c).conn = c
BY DEF Call

LEMMA SendFields ==
    \A c, a :
        /\ SendCall(c, a).run = "send"
        /\ SendCall(c, a).conn = c
        /\ SendCall(c, a).answer = a
BY DEF SendCall

LEMMA FunctorForms ==
    /\ \A c \in Conn :
          /\ Call("connectEstablished", c) \in IOFunctors
          /\ Call("connectDestroyed", c) \in IOFunctors
          /\ Call("removeConnection", c) \in Removals
    /\ \A c \in Conn, a \in Answer : SendCall(c, a) \in IOFunctors
    /\ \A f \in IOFunctors :
          /\ f.conn \in Conn
          /\ f.run \in {"connectEstablished", "connectDestroyed", "send"}
          /\ f.run = "send" => f.answer \in Answer
          /\ f.run # "send" => f = Call(f.run, f.conn)
    /\ \A f \in Removals : f.conn \in Conn /\ f = Call("removeConnection", f.conn)
BY CallFields, SendFields DEF IOFunctors, Removals

LEMMA FunctorsAtHome ==
    /\ \A c \in Conn :
          /\ Call("connectEstablished", c) \in FunctorsOf(LoopOf(c))
          /\ Call("connectDestroyed", c) \in FunctorsOf(LoopOf(c))
          /\ Call("removeConnection", c) \in FunctorsOf(Base)
    /\ \A c \in Conn, a \in Answer : SendCall(c, a) \in FunctorsOf(LoopOf(c))
    /\ \A l \in Loop : \A f \in FunctorsOf(l) :
          /\ f.conn \in Conn
          /\ l = Base => f = Call("removeConnection", f.conn)
          /\ l # Base =>
                /\ LoopOf(f.conn) = l
                /\ f.run \in {"connectEstablished", "connectDestroyed", "send"}
                /\ f.run = "send" => f.answer \in Answer
                /\ f.run # "send" => f = Call(f.run, f.conn)
    /\ \A l \in Loop : FunctorsOf(l) \subseteq Functors
<1>1. \A l \in Loop : FunctorsOf(l) \subseteq Functors
  BY DEF Functors
<1>2. QED
  BY <1>1, LoopNumbers, FunctorForms, CallFields, SendFields DEF FunctorsOf

LEMMA ChannelForms ==
    \A event, c, e, d : Ready(event, c) = Ready(e, d) <=> event = e /\ c = d
<1>1. \A event, c : Ready(event, c).event = event /\ Ready(event, c).conn = c
  BY DEF Ready
<1>2. ASSUME NEW event, NEW c, NEW e, NEW d, Ready(event, c) = Ready(e, d)
      PROVE  event = e /\ c = d
  BY <1>1, <1>2
<1>3. \A event, c, e, d : event = e /\ c = d => Ready(event, c) = Ready(e, d)
  BY DEF Ready
<1>4. QED
  BY <1>2, <1>3

LEMMA ChannelsAtHome ==
    \A l \in Loop :
        /\ ChannelsOf(l) \subseteq Channels
        /\ \A c \in Conn :
              Ready("read", c) \in ChannelsOf(l) \/ Ready("write", c) \in ChannelsOf(l)
                  => LoopOf(c) = l
<1>1. ASSUME NEW l \in Loop, NEW c \in Conn, NEW event \in {"read", "write"},
             Ready(event, c) \in ChannelsOf(l)
      PROVE  LoopOf(c) = l
  <2>1. event # "wakeup" /\ event # "accept"
    OBVIOUS
  <2>2. PICK d \in Conn : LoopOf(d) = l /\ \E e \in {"read", "write"} : Ready(event, c) = Ready(e, d)
    BY <1>1, <2>1, ChannelForms DEF ChannelsOf
  <2>3. QED
    BY <2>2, ChannelForms
<1>2. \A l \in Loop : ChannelsOf(l) \subseteq Channels
  BY DEF Channels
<1>3. QED
  BY <1>1, <1>2, Zenon

LEMMA ReadyAtHome ==
    ASSUME NEW l \in Loop
    PROVE  ReadyChannels(l) \subseteq ChannelsOf(l)
BY DEF ReadyChannels, ChannelsOf

------------------------------------------------------------------------------
(* Queues: what is in one after it has been appended to, run or swapped.    *)

LEMMA AppendedTo ==
    ASSUME NEW S, NEW s \in Seq(S), NEW f \in S
    PROVE  /\ Append(s, f) \in Seq(S) /\ Append(s, f) # <<>>
           /\ \A g : In(Append(s, f), g) <=> In(s, g) \/ g = f
           /\ OnceEach(s) /\ (f.run # "send" => ~In(s, f)) => OnceEach(Append(s, f))
<1> DEFINE t == Append(s, f)
<1>1. /\ t \in Seq(S) /\ t # <<>> /\ Len(s) \in Nat /\ Len(t) = Len(s) + 1
      /\ \A i \in 1..Len(s) : t[i] = s[i]
      /\ t[Len(s) + 1] = f
  OBVIOUS
<1> HIDE DEF t
<1>2. \A i \in 1..Len(t) : i \in 1..Len(s) \/ i = Len(s) + 1
  BY <1>1
<1>3. ASSUME NEW g
      PROVE  In(t, g) <=> In(s, g) \/ g = f
  <2>1. In(t, g) => In(s, g) \/ g = f
    BY <1>1, <1>2 DEF In
  <2>2. In(s, g) => In(t, g)
    BY <1>1 DEF In
  <2>3. g = f => In(t, g)
    <3>1. Len(s) + 1 \in 1..Len(t)
      BY <1>1
    <3>2. QED
      BY <3>1, <1>1 DEF In
  <2>4. QED
    BY <2>1, <2>2, <2>3
<1>4. ASSUME OnceEach(s), f.run # "send" => ~In(s, f)
      PROVE  OnceEach(t)
  BY <1>1, <1>2, <1>4 DEF OnceEach, In
<1>5. QED
  BY <1>1, <1>3, <1>4 DEF t

LEMMA RunFirst ==
    ASSUME NEW S, NEW s \in Seq(S), s # <<>>
    PROVE  /\ Tail(s) \in Seq(S) /\ Head(s) \in S /\ In(s, Head(s))
           /\ \A g : In(Tail(s), g) => In(s, g)
           /\ \A g : g # Head(s) => (In(Tail(s), g) <=> In(s, g))
           /\ OnceEach(s) => OnceEach(Tail(s))
           /\ OnceEach(s) /\ Head(s).run # "send" => ~In(Tail(s), Head(s))
<1> DEFINE t == Tail(s)  h == Head(s)
<1>1. /\ t \in Seq(S) /\ Len(s) \in Nat /\ Len(t) \in Nat /\ Len(t) = Len(s) - 1 /\ Len(s) > 0
      /\ h \in S /\ h = s[1]
      /\ \A i \in 1..Len(t) : t[i] = s[i + 1]
  OBVIOUS
<1> HIDE DEF t, h
<1>2. 1 \in 1..Len(s) /\ \A i \in 1..Len(t) : i + 1 \in 1..Len(s)
  BY <1>1
<1>3. \A i \in 1..Len(s) : i = 1 \/ (i - 1 \in 1..Len(t) /\ (i - 1) + 1 = i)
  BY <1>1
<1>4. In(s, h) /\ \A g : In(t, g) => In(s, g)
  BY <1>1, <1>2 DEF In
<1>5. ASSUME NEW g, g # h, In(s, g)
      PROVE  In(t, g)
  <2>1. PICK i \in 1..Len(s) : s[i] = g
    BY <1>5 DEF In
  <2>2. i # 1
    BY <2>1, <1>1, <1>5
  <2>3. t[i - 1] = g
    BY <2>1, <2>2, <1>1, <1>3
  <2>4. QED
    BY <2>2, <2>3, <1>3 DEF In
<1>6. ASSUME OnceEach(s)
      PROVE  OnceEach(t)
  BY <1>1, <1>2, <1>6, SMTT(30) DEF OnceEach
<1>7. ASSUME OnceEach(s), h.run # "send"
      PROVE  ~In(t, h)
  BY <1>1, <1>2, <1>7 DEF OnceEach, In
<1>8. QED
  BY <1>1, <1>4, <1>5, <1>6, <1>7 DEF t, h

LEMMA AppendedToConcat ==
    ASSUME NEW S, NEW r \in Seq(S), NEW p \in Seq(S), NEW f \in S
    PROVE  r \o Append(p, f) = Append(r \o p, f)
<1>1. Append(p, f) = p \o <<f>> /\ r \o p \in Seq(S) /\ <<f>> \in Seq(S)
  BY AppendIsConcat, ConcatProperties
<1>2. Append(r \o p, f) = (r \o p) \o <<f>>
  BY <1>1, AppendIsConcat
<1>3. QED
  BY <1>1, <1>2, ConcatAssociative

LEMMA RunOfConcat ==
    ASSUME NEW S, NEW r \in Seq(S), NEW p \in Seq(S), r # <<>>
    PROVE  r \o p # <<>> /\ Head(r \o p) = Head(r) /\ Tail(r \o p) = Tail(r) \o p
<1>1. /\ Head(r) \in S /\ Tail(r) \in Seq(S) /\ <<Head(r)>> \in Seq(S)
      /\ r = <<Head(r)>> \o Tail(r)
  OBVIOUS
<1>2. r \o p = <<Head(r)>> \o (Tail(r) \o p)
  BY <1>1, ConcatAssociative
<1>3. Tail(r) \o p \in Seq(S)
  BY <1>1, ConcatProperties
<1>4. ASSUME NEW h \in S, NEW t \in Seq(S)
      PROVE  <<h>> \o t # <<>> /\ Head(<<h>> \o t) = h /\ Tail(<<h>> \o t) = t
  <2>1. <<h>> \in Seq(S) /\ <<h>> # <<>>
    OBVIOUS
  <2> DEFINE u == <<h>> \o t
  <2>2. /\ u \in Seq(S) /\ Len(u) = 1 + Len(t) /\ Len(t) \in Nat /\ u[1] = h
        /\ \A i \in 1..Len(t) : u[i + 1] = t[i]
    OBVIOUS
  <2> HIDE DEF u
  <2>3. u # <<>> /\ Head(u) = h
    BY <2>2
  <2>4. Tail(u) \in Seq(S) /\ Len(Tail(u)) = Len(t) /\ \A i \in 1..Len(t) : Tail(u)[i] = t[i]
    BY <2>2, <2>3
  <2>5. Tail(u) = t
    BY <2>2, <2>4, SeqEqual
  <2>6. QED
    BY <2>3, <2>5 DEF u
<1>5. QED
  BY <1>1, <1>2, <1>3, <1>4

LEMMA QueueType ==
    ASSUME TypeOK, NEW l \in Loop
    PROVE  /\ loop[l].pending \in Seq(FunctorsOf(l)) /\ loop[l].running \in Seq(FunctorsOf(l))
           /\ Queue(l) \in Seq(FunctorsOf(l))
<1>1. loop[l].pending \in Seq(FunctorsOf(l)) /\ loop[l].running \in Seq(FunctorsOf(l))
  BY DEF TypeOK, AtHome
<1>2. QED
  BY <1>1 DEF Queue

LEMMA QueueKept ==
    ASSUME TypeOK, NEW l \in Loop,
           \/ loop'[l].pending = loop[l].pending /\ loop'[l].running = loop[l].running
           \/ /\ loop[l].running = <<>>
              /\ loop'[l].pending = <<>> /\ loop'[l].running = loop[l].pending
    PROVE  Queue(l)' = Queue(l)
<1>1. loop[l].pending \in Seq(FunctorsOf(l))
  BY QueueType
<1>2. loop[l].pending \o <<>> = loop[l].pending /\ <<>> \o loop[l].pending = loop[l].pending
  BY <1>1
<1>3. QED
  BY <1>2 DEF Queue

LEMMA QueueAppended ==
    ASSUME TypeOK, NEW l \in Loop, NEW f \in FunctorsOf(l),
           loop'[l].pending = Append(loop[l].pending, f),
           loop'[l].running = loop[l].running
    PROVE  Queue(l)' = Append(Queue(l), f)
<1>1. loop[l].pending \in Seq(FunctorsOf(l)) /\ loop[l].running \in Seq(FunctorsOf(l))
  BY QueueType
<1> DEFINE S == FunctorsOf(l)
<1>2. f \in S
  OBVIOUS
<1> HIDE DEF S
<1>3. \A r, p \in Seq(S) : r \o Append(p, f) = Append(r \o p, f)
  BY ONLY <1>2, AppendedToConcat
<1>4. QED
  BY <1>1, <1>3 DEF Queue, S

LEMMA QueueRan ==
    ASSUME TypeOK, NEW l \in Loop, loop[l].running # <<>>,
           loop'[l].pending = loop[l].pending,
           loop'[l].running = Tail(loop[l].running)
    PROVE  /\ Queue(l) # <<>> /\ Head(Queue(l)) = Head(loop[l].running)
           /\ Queue(l)' = Tail(Queue(l))
<1>1. loop[l].pending \in Seq(FunctorsOf(l)) /\ loop[l].running \in Seq(FunctorsOf(l))
  BY QueueType
<1>2. LET r == loop[l].running  p == loop[l].pending
      IN  r \o p # <<>> /\ Head(r \o p) = Head(r) /\ Tail(r \o p) = Tail(r) \o p
  BY ONLY <1>1, loop[l].running # <<>>, RunOfConcat
<1>3. QED
  BY <1>2 DEF Queue

------------------------------------------------------------------------------
(* What each action does, loop by loop and connection by connection.        *)

LEMMA TypeFacts ==
    ASSUME TypeOK
    PROVE  /\ sock \in [Conn -> SocketState] /\ conn \in [Conn -> ConnState]
           /\ session \in [Conn -> SessionState] /\ loop \in [Loop -> LoopState]
           /\ \A l \in Loop : AtHome(l)
BY DEF TypeOK

(* The record of a loop, a connection, a session or a socket after a step.  *)
LoopIs(l, at, duty, c, active, pending, running, wakeup) ==
    /\ loop'[l].at = at /\ loop'[l].duty = duty /\ loop'[l].conn = c
    /\ loop'[l].active = active /\ loop'[l].pending = pending
    /\ loop'[l].running = running /\ loop'[l].wakeup = wakeup

ConnIs(c, state, reading, writing, added, context, outputBuffer) ==
    /\ conn'[c].state = state /\ conn'[c].reading = reading
    /\ conn'[c].writing = writing /\ conn'[c].added = added
    /\ conn'[c].context = context /\ conn'[c].outputBuffer = outputBuffer

SessionIs(c, id, answers, pull, inbox, hand, relayed) ==
    /\ session'[c].id = id /\ session'[c].answers = answers
    /\ session'[c].pull = pull /\ session'[c].inbox = inbox
    /\ session'[c].hand = hand /\ session'[c].relayed = relayed

SockIs(c, client, arrived, read, out) ==
    /\ sock'[c].client = client /\ sock'[c].arrived = arrived
    /\ sock'[c].read = read /\ sock'[c].out = out

(* Nothing else of its kind has changed.                                    *)
OtherLoops(ls) ==
    loop' \in [Loop -> LoopState] /\ \A m \in Loop \ ls : loop'[m] = loop[m]

OtherConns(cs) ==
    conn' \in [Conn -> ConnState] /\ \A m \in Conn \ cs : conn'[m] = conn[m]

OtherSessions(cs) ==
    session' \in [Conn -> SessionState] /\ \A m \in Conn \ cs : session'[m] = session[m]

OtherSocks(cs) ==
    sock' \in [Conn -> SocketState] /\ \A m \in Conn \ cs : sock'[m] = sock[m]

LEMMA QueueUpdates ==
    \A r \in LoopState :
        /\ \A f \in Functors : Append(r.pending, f) \in Seq(Functors)
        /\ r.running # <<>> => Tail(r.running) \in Seq(Functors) /\ Head(r.running) \in Functors
BY DEF LoopState

(* The functor that runs.                                                   *)
LEMMA RunsHead ==
    ASSUME BridgeInv, NEW l \in Loop, NEW name, Runs(l, name)
    PROVE  LET h == Head(loop[l].running) IN
           /\ loop[l].running # <<>> /\ h \in FunctorsOf(l) /\ h.run = name
           /\ Has(l, h) /\ loop[l].at = "functors" /\ loop[l].duty = "none"
           /\ h.conn \in Conn
           /\ l = Base => name = "removeConnection" /\ h = Call(name, h.conn)
           /\ l # Base => /\ LoopOf(h.conn) = l /\ name # "removeConnection"
                          /\ name # "send" => h = Call(name, h.conn)
                          /\ name = "send" => h.answer \in Answer
<1> DEFINE h == Head(loop[l].running)
<1>1. /\ loop[l].running # <<>> /\ h.run = name
      /\ loop[l].at = "functors" /\ loop[l].duty = "none"
  BY DEF Runs, At, Duty
<1>2. /\ loop[l].running \in Seq(FunctorsOf(l)) /\ loop[l].pending \in Seq(FunctorsOf(l))
      /\ Queue(l) \in Seq(FunctorsOf(l))
  BY QueueType DEF BridgeInv
<1>3. h \in FunctorsOf(l)
  BY <1>1, <1>2
<1>4. Queue(l) # <<>> /\ Head(Queue(l)) = h
  BY <1>1, <1>2, RunOfConcat DEF Queue
<1>5. Has(l, h)
  BY ONLY <1>2, <1>4, RunFirst DEF Has
<1> HIDE DEF h
<1>6. /\ h.conn \in Conn
      /\ l = Base => h = Call("removeConnection", h.conn)
      /\ l # Base =>
            /\ LoopOf(h.conn) = l
            /\ h.run \in {"connectEstablished", "connectDestroyed", "send"}
            /\ h.run = "send" => h.answer \in Answer
            /\ h.run # "send" => h = Call(h.run, h.conn)
  BY <1>3, FunctorsAtHome
<1>7. l = Base => name = "removeConnection"
  BY <1>1, <1>6, CallFields
<1>8. QED
  BY <1>1, <1>3, <1>5, <1>6, <1>7 DEF h

LEMMA PollEffect ==
    ASSUME BridgeInv, NEW l \in Loop, Poll(l)
    PROVE  /\ OtherLoops({l})
           /\ LoopIs(l, "events", loop[l].duty, loop[l].conn,
                     ReadyChannels(l), loop[l].pending, loop[l].running,
                     loop[l].wakeup)
<1>1. loop \in [Loop -> LoopState]
  BY DEF BridgeInv, TypeOK
<1>2. l \in Loop /\ ReadyChannels(l) \in SUBSET Channels
  BY ReadyAtHome, ChannelsAtHome
<1>3. loop' = [loop EXCEPT ![l].at = "events", ![l].active = ReadyChannels(l)]
  BY DEF Poll
<1>4. loop'[l] = [loop[l] EXCEPT !.at = "events", !.active = ReadyChannels(l)]
  BY ONLY <1>1, <1>2, <1>3
<1>5. /\ \A m \in Loop \ {l} : loop'[m] = loop[m]
      /\ loop' = [m \in Loop |-> loop'[m]]
  BY ONLY <1>1, <1>2, <1>3
<1>6. loop[l] \in LoopState
  BY ONLY <1>1, <1>2
<1>7. LoopIs(l, "events", loop[l].duty, loop[l].conn,
            ReadyChannels(l), loop[l].pending, loop[l].running,
            loop[l].wakeup)
  BY ONLY <1>4, <1>6 DEF LoopState, LoopIs
<1>8. loop'[l] \in LoopState
  BY ONLY <1>2, <1>4, <1>6 DEF LoopState
<1>9. QED
  BY <1>1, <1>2, <1>5, <1>7, <1>8 DEF OtherLoops

LEMMA HandleWakeupEffect ==
    ASSUME BridgeInv, NEW l \in Loop, HandleWakeup(l)
    PROVE  /\ OtherLoops({l})
           /\ LoopIs(l, loop[l].at, loop[l].duty, loop[l].conn,
                     loop[l].active \ {Ready("wakeup", NoConn)},
                     loop[l].pending, loop[l].running, FALSE)
<1>1. loop \in [Loop -> LoopState]
  BY DEF BridgeInv, TypeOK
<1>2. l \in Loop
  OBVIOUS
<1>3. loop' = [loop EXCEPT ![l].wakeup = FALSE,
                            ![l].active = @ \ {Ready("wakeup", NoConn)}]
  BY DEF HandleWakeup
<1>4. loop'[l] = [loop[l] EXCEPT !.wakeup = FALSE, !.active = loop[l].active \ {Ready("wakeup", NoConn)}]
  BY ONLY <1>1, <1>2, <1>3
<1>5. /\ \A m \in Loop \ {l} : loop'[m] = loop[m]
      /\ loop' = [m \in Loop |-> loop'[m]]
  BY ONLY <1>1, <1>2, <1>3
<1>6. loop[l] \in LoopState
  BY ONLY <1>1, <1>2
<1>7. LoopIs(l, loop[l].at, loop[l].duty, loop[l].conn,
            loop[l].active \ {Ready("wakeup", NoConn)},
            loop[l].pending, loop[l].running, FALSE)
  BY ONLY <1>4, <1>6 DEF LoopState, LoopIs
<1>8. loop'[l] \in LoopState
  BY ONLY <1>2, <1>4, <1>6 DEF LoopState
<1>9. QED
  BY <1>1, <1>2, <1>5, <1>7, <1>8 DEF OtherLoops

LEMMA SwapFunctorsEffect ==
    ASSUME BridgeInv, NEW l \in Loop, SwapFunctors(l)
    PROVE  /\ OtherLoops({l})
           /\ LoopIs(l, "functors", loop[l].duty, loop[l].conn,
                     loop[l].active, <<>>, loop[l].pending, loop[l].wakeup)
<1>1. loop \in [Loop -> LoopState]
  BY DEF BridgeInv, TypeOK
<1>2. l \in Loop /\ <<>> \in Seq(Functors)
  OBVIOUS
<1>3. loop' = [loop EXCEPT ![l].at = "functors",
                            ![l].running = loop[l].pending,
                            ![l].pending = <<>>]
  BY DEF SwapFunctors
<1>4. loop'[l] = [loop[l] EXCEPT !.at = "functors", !.running = loop[l].pending, !.pending = <<>>]
  BY ONLY <1>1, <1>2, <1>3
<1>5. /\ \A m \in Loop \ {l} : loop'[m] = loop[m]
      /\ loop' = [m \in Loop |-> loop'[m]]
  BY ONLY <1>1, <1>2, <1>3
<1>6. loop[l] \in LoopState
  BY ONLY <1>1, <1>2
<1>7. LoopIs(l, "functors", loop[l].duty, loop[l].conn,
            loop[l].active, <<>>, loop[l].pending, loop[l].wakeup)
  BY ONLY <1>4, <1>6 DEF LoopState, LoopIs
<1>8. loop'[l] \in LoopState
  BY ONLY <1>2, <1>4, <1>6 DEF LoopState
<1>9. QED
  BY <1>1, <1>2, <1>5, <1>7, <1>8 DEF OtherLoops

LEMMA FunctorsDoneEffect ==
    ASSUME BridgeInv, NEW l \in Loop, FunctorsDone(l)
    PROVE  /\ OtherLoops({l})
           /\ LoopIs(l, "poll", loop[l].duty, loop[l].conn, loop[l].active,
                     loop[l].pending, loop[l].running, loop[l].wakeup)
<1>1. loop \in [Loop -> LoopState]
  BY DEF BridgeInv, TypeOK
<1>2. l \in Loop
  OBVIOUS
<1>3. loop' = [loop EXCEPT ![l].at = "poll"]
  BY DEF FunctorsDone
<1>4. loop'[l] = [loop[l] EXCEPT !.at = "poll"]
  BY ONLY <1>1, <1>2, <1>3
<1>5. /\ \A m \in Loop \ {l} : loop'[m] = loop[m]
      /\ loop' = [m \in Loop |-> loop'[m]]
  BY ONLY <1>1, <1>2, <1>3
<1>6. loop[l] \in LoopState
  BY ONLY <1>1, <1>2
<1>7. LoopIs(l, "poll", loop[l].duty, loop[l].conn, loop[l].active,
            loop[l].pending, loop[l].running, loop[l].wakeup)
  BY ONLY <1>4, <1>6 DEF LoopState, LoopIs
<1>8. loop'[l] \in LoopState
  BY ONLY <1>2, <1>4, <1>6 DEF LoopState
<1>9. QED
  BY <1>1, <1>2, <1>5, <1>7, <1>8 DEF OtherLoops

LEMMA WakeupEffect ==
    ASSUME BridgeInv, NEW l \in Loop, Wakeup(l)
    PROVE  LET k == Woken(l, loop[l].conn) IN
           /\ OtherLoops({k, l})
           /\ k \in Loop /\ k # l
           /\ LoopIs(k, loop[k].at, loop[k].duty, loop[k].conn,
                     loop[k].active, loop[k].pending, loop[k].running, TRUE)
           /\ LoopIs(l, loop[l].at, "none", NoConn, loop[l].active,
                     loop[l].pending, loop[l].running, loop[l].wakeup)
<1> DEFINE k == Woken(l, loop[l].conn)
<1>1. loop \in [Loop -> LoopState]
  BY DEF BridgeInv, TypeOK
<1>2. l \in Loop /\ k \in Loop /\ k # l
  BY LoopNumbers DEF BridgeInv, LoopInv, Orderly, Wakeup, Duty, Woken
<1>3. loop' = [loop EXCEPT ![k].wakeup = TRUE,
                            ![l].duty = "none", ![l].conn = NoConn]
  BY DEF Wakeup
<1> HIDE DEF k
<1>4. loop'[k] = [loop[k] EXCEPT !.wakeup = TRUE]
  BY ONLY <1>1, <1>2, <1>3
<1>5. loop'[l] = [loop[l] EXCEPT !.duty = "none", !.conn = NoConn]
  BY ONLY <1>1, <1>2, <1>3
<1>6. /\ \A m \in Loop \ {k, l} : loop'[m] = loop[m]
      /\ loop' = [m \in Loop |-> loop'[m]]
  BY ONLY <1>1, <1>2, <1>3
<1>7. loop[k] \in LoopState
  BY ONLY <1>1, <1>2
<1>8. LoopIs(k, loop[k].at, loop[k].duty, loop[k].conn,
            loop[k].active, loop[k].pending, loop[k].running, TRUE)
  BY ONLY <1>4, <1>7 DEF LoopState, LoopIs
<1>9. loop'[k] \in LoopState
  BY ONLY <1>2, <1>4, <1>7 DEF LoopState
<1>10. loop[l] \in LoopState
  BY ONLY <1>1, <1>2
<1>11. LoopIs(l, loop[l].at, "none", NoConn, loop[l].active,
            loop[l].pending, loop[l].running, loop[l].wakeup)
  BY ONLY <1>5, <1>10 DEF LoopState, LoopIs
<1>12. loop'[l] \in LoopState
  BY ONLY <1>2, <1>5, <1>10 DEF LoopState
<1>13. QED
  BY <1>1, <1>2, <1>6, <1>8, <1>9, <1>11, <1>12 DEF OtherLoops, k

LEMMA AcceptEffect ==
    ASSUME BridgeInv, NEW c \in Conn, Accept(c)
    PROVE  LET k == LoopOf(c)
                f == Call("connectEstablished", c)
                x == Ready("accept", c) IN
           /\ OtherLoops({k, Base})
           /\ k \in Loop /\ Base \in Loop /\ k # Base
           /\ f \in FunctorsOf(k)
           /\ LoopIs(k, loop[k].at, loop[k].duty, loop[k].conn,
                     loop[k].active, Append(loop[k].pending, f),
                     loop[k].running, loop[k].wakeup)
           /\ LoopIs(Base, loop[Base].at, "wakeup", c,
                     loop[Base].active \ {x}, loop[Base].pending,
                     loop[Base].running, loop[Base].wakeup)
<1> DEFINE k == LoopOf(c)
           f == Call("connectEstablished", c)
           x == Ready("accept", c)
<1>1. loop \in [Loop -> LoopState]
  BY DEF BridgeInv, TypeOK
<1>2. /\ c \in Conn /\ Base \in Loop /\ k \in Loop /\ k # Base
      /\ f \in Functors /\ f \in FunctorsOf(k)
  BY LoopNumbers, FunctorsAtHome
<1>3. loop' = [loop EXCEPT ![k].pending = Append(@, f),
                            ![Base].active = @ \ {x},
                            ![Base].duty = "wakeup", ![Base].conn = c]
  BY DEF Accept, NewConnection
<1> HIDE DEF k, f, x
<1>4. loop'[k] = [loop[k] EXCEPT !.pending = Append(loop[k].pending, f)]
  BY ONLY <1>1, <1>2, <1>3
<1>5. loop'[Base] = [loop[Base] EXCEPT !.active = loop[Base].active \ {x}, !.duty = "wakeup", !.conn = c]
  BY ONLY <1>1, <1>2, <1>3
<1>6. /\ \A m \in Loop \ {k, Base} : loop'[m] = loop[m]
      /\ loop' = [m \in Loop |-> loop'[m]]
  BY ONLY <1>1, <1>2, <1>3
<1>7. loop[k] \in LoopState
  BY ONLY <1>1, <1>2
<1>8. LoopIs(k, loop[k].at, loop[k].duty, loop[k].conn,
            loop[k].active, Append(loop[k].pending, f),
            loop[k].running, loop[k].wakeup)
  BY ONLY <1>4, <1>7 DEF LoopState, LoopIs
<1>9. Append(loop[k].pending, f) \in Seq(Functors)
  BY ONLY <1>2, <1>7, QueueUpdates
<1>10. loop'[k] \in LoopState
  BY ONLY <1>2, <1>4, <1>7, <1>9 DEF LoopState
<1>11. loop[Base] \in LoopState
  BY ONLY <1>1, <1>2
<1>12. LoopIs(Base, loop[Base].at, "wakeup", c,
            loop[Base].active \ {x}, loop[Base].pending,
            loop[Base].running, loop[Base].wakeup)
  BY ONLY <1>5, <1>11 DEF LoopState, LoopIs
<1>13. loop'[Base] \in LoopState
  BY ONLY <1>2, <1>5, <1>11 DEF LoopState
<1>14. QED
  BY <1>1, <1>2, <1>6, <1>8, <1>10, <1>12, <1>13 DEF OtherLoops, k, f, x

LEMMA RemoveConnectionInLoopEffect ==
    ASSUME BridgeInv, RemoveConnectionInLoop
    PROVE  LET c == Head(loop[Base].running).conn
                k == LoopOf(c)
                f == Call("connectDestroyed", c) IN
           /\ OtherLoops({k, Base})
           /\ c \in Conn /\ k \in Loop /\ Base \in Loop /\ k # Base
           /\ f \in FunctorsOf(k)
           /\ LoopIs(k, loop[k].at, loop[k].duty, loop[k].conn,
                     loop[k].active, Append(loop[k].pending, f),
                     loop[k].running, loop[k].wakeup)
           /\ LoopIs(Base, loop[Base].at, "wakeup", c, loop[Base].active,
                     loop[Base].pending, Tail(loop[Base].running),
                     loop[Base].wakeup)
<1> DEFINE c == Head(loop[Base].running).conn
           k == LoopOf(c)
           f == Call("connectDestroyed", c)
<1>1. loop \in [Loop -> LoopState]
  BY DEF BridgeInv, TypeOK
<1>2. /\ c \in Conn /\ Base \in Loop /\ k \in Loop /\ k # Base
      /\ f \in Functors /\ f \in FunctorsOf(k) /\ loop[Base].running # <<>>
  <2>1. Base \in Loop /\ Runs(Base, "removeConnection")
    BY LoopNumbers DEF RemoveConnectionInLoop
  <2>2. c \in Conn /\ loop[Base].running # <<>>
    BY <2>1, RunsHead
  <2> HIDE DEF c
  <2>3. k \in Loop /\ k # Base /\ f \in FunctorsOf(k)
    BY <2>2, LoopNumbers, FunctorsAtHome
  <2>4. f \in Functors
    BY <2>3 DEF Functors
  <2>5. QED
    BY <2>1, <2>2, <2>3, <2>4
<1>3. loop' = [loop EXCEPT ![k].pending = Append(@, f),
                            ![Base].running = Tail(@),
                            ![Base].duty = "wakeup", ![Base].conn = c]
  BY DEF RemoveConnectionInLoop
<1> HIDE DEF c, k, f
<1>4. loop'[k] = [loop[k] EXCEPT !.pending = Append(loop[k].pending, f)]
  BY ONLY <1>1, <1>2, <1>3
<1>5. loop'[Base] = [loop[Base] EXCEPT !.running = Tail(loop[Base].running), !.duty = "wakeup", !.conn = c]
  BY ONLY <1>1, <1>2, <1>3
<1>6. /\ \A m \in Loop \ {k, Base} : loop'[m] = loop[m]
      /\ loop' = [m \in Loop |-> loop'[m]]
  BY ONLY <1>1, <1>2, <1>3
<1>7. loop[k] \in LoopState
  BY ONLY <1>1, <1>2
<1>8. LoopIs(k, loop[k].at, loop[k].duty, loop[k].conn,
            loop[k].active, Append(loop[k].pending, f),
            loop[k].running, loop[k].wakeup)
  BY ONLY <1>4, <1>7 DEF LoopState, LoopIs
<1>9. Append(loop[k].pending, f) \in Seq(Functors)
  BY ONLY <1>2, <1>7, QueueUpdates
<1>10. loop'[k] \in LoopState
  BY ONLY <1>2, <1>4, <1>7, <1>9 DEF LoopState
<1>11. loop[Base] \in LoopState
  BY ONLY <1>1, <1>2
<1>12. LoopIs(Base, loop[Base].at, "wakeup", c, loop[Base].active,
            loop[Base].pending, Tail(loop[Base].running),
            loop[Base].wakeup)
  BY ONLY <1>5, <1>11 DEF LoopState, LoopIs
<1>13. Tail(loop[Base].running) \in Seq(Functors)
  BY ONLY <1>2, <1>11, QueueUpdates
<1>14. loop'[Base] \in LoopState
  BY ONLY <1>2, <1>5, <1>11, <1>13 DEF LoopState
<1>15. QED
  BY <1>1, <1>2, <1>6, <1>8, <1>10, <1>12, <1>14 DEF OtherLoops, c, k, f

LEMMA ConnectEstablishedEffect ==
    ASSUME BridgeInv, NEW l \in Loop, ConnectEstablished(l)
    PROVE  LET c == Head(loop[l].running).conn IN
           /\ OtherLoops({l})
           /\ LoopIs(l, loop[l].at, "test", c, loop[l].active,
                     loop[l].pending, Tail(loop[l].running), loop[l].wakeup)
<1> DEFINE c == Head(loop[l].running).conn
<1>1. loop \in [Loop -> LoopState]
  BY DEF BridgeInv, TypeOK
<1>2. l \in Loop /\ c \in Conn /\ loop[l].running # <<>>
  BY RunsHead DEF ConnectEstablished
<1>3. loop' = [loop EXCEPT ![l].running = Tail(@),
                            ![l].duty = "test", ![l].conn = c]
  BY DEF ConnectEstablished
<1> HIDE DEF c
<1>4. loop'[l] = [loop[l] EXCEPT !.running = Tail(loop[l].running), !.duty = "test", !.conn = c]
  BY ONLY <1>1, <1>2, <1>3
<1>5. /\ \A m \in Loop \ {l} : loop'[m] = loop[m]
      /\ loop' = [m \in Loop |-> loop'[m]]
  BY ONLY <1>1, <1>2, <1>3
<1>6. loop[l] \in LoopState
  BY ONLY <1>1, <1>2
<1>7. LoopIs(l, loop[l].at, "test", c, loop[l].active,
            loop[l].pending, Tail(loop[l].running), loop[l].wakeup)
  BY ONLY <1>4, <1>6 DEF LoopState, LoopIs
<1>8. Tail(loop[l].running) \in Seq(Functors)
  BY ONLY <1>2, <1>6, QueueUpdates
<1>9. loop'[l] \in LoopState
  BY ONLY <1>2, <1>4, <1>6, <1>8 DEF LoopState
<1>10. QED
  BY <1>1, <1>2, <1>5, <1>7, <1>9 DEF OtherLoops, c

LEMMA TestCounterEffect ==
    ASSUME BridgeInv, NEW l \in Loop, TestCounter(l)
    PROVE  /\ OtherLoops({l})
           /\ LoopIs(l, loop[l].at,
                     IF counter_port > LastId THEN "store" ELSE "none",
                     NoConn, loop[l].active, loop[l].pending,
                     loop[l].running, loop[l].wakeup)
<1>1. loop \in [Loop -> LoopState]
  BY DEF BridgeInv, TypeOK
<1>2. l \in Loop
  OBVIOUS
<1>3. loop' = [loop EXCEPT
           ![l].duty = IF counter_port > LastId THEN "store" ELSE "none",
           ![l].conn = NoConn]
  BY DEF TestCounter
<1>4. loop'[l] = [loop[l] EXCEPT !.duty = IF counter_port > LastId THEN "store" ELSE "none", !.conn = NoConn]
  BY ONLY <1>1, <1>2, <1>3
<1>5. /\ \A m \in Loop \ {l} : loop'[m] = loop[m]
      /\ loop' = [m \in Loop |-> loop'[m]]
  BY ONLY <1>1, <1>2, <1>3
<1>6. loop[l] \in LoopState
  BY ONLY <1>1, <1>2
<1>7. LoopIs(l, loop[l].at,
            IF counter_port > LastId THEN "store" ELSE "none",
            NoConn, loop[l].active, loop[l].pending,
            loop[l].running, loop[l].wakeup)
  BY ONLY <1>4, <1>6 DEF LoopState, LoopIs
<1>8. loop'[l] \in LoopState
  BY ONLY <1>2, <1>4, <1>6 DEF LoopState
<1>9. QED
  BY <1>1, <1>2, <1>5, <1>7, <1>8 DEF OtherLoops

LEMMA StoreCounterEffect ==
    ASSUME BridgeInv, NEW l \in Loop, StoreCounter(l)
    PROVE  /\ OtherLoops({l})
           /\ LoopIs(l, loop[l].at, "none", loop[l].conn, loop[l].active,
                     loop[l].pending, loop[l].running, loop[l].wakeup)
<1>1. loop \in [Loop -> LoopState]
  BY DEF BridgeInv, TypeOK
<1>2. l \in Loop
  OBVIOUS
<1>3. loop' = [loop EXCEPT ![l].duty = "none"]
  BY DEF StoreCounter
<1>4. loop'[l] = [loop[l] EXCEPT !.duty = "none"]
  BY ONLY <1>1, <1>2, <1>3
<1>5. /\ \A m \in Loop \ {l} : loop'[m] = loop[m]
      /\ loop' = [m \in Loop |-> loop'[m]]
  BY ONLY <1>1, <1>2, <1>3
<1>6. loop[l] \in LoopState
  BY ONLY <1>1, <1>2
<1>7. LoopIs(l, loop[l].at, "none", loop[l].conn, loop[l].active,
            loop[l].pending, loop[l].running, loop[l].wakeup)
  BY ONLY <1>4, <1>6 DEF LoopState, LoopIs
<1>8. loop'[l] \in LoopState
  BY ONLY <1>2, <1>4, <1>6 DEF LoopState
<1>9. QED
  BY <1>1, <1>2, <1>5, <1>7, <1>8 DEF OtherLoops

LEMMA HandleReadEffect ==
    ASSUME BridgeInv, NEW l \in Loop, NEW c \in Conn, HandleRead(l, c)
    PROVE  LET x == loop[l].active \ {Ready("read", c), Ready("write", c)} IN
           /\ OtherLoops({l})
           /\ LoopIs(l, loop[l].at,
                     IF AlsoWrites(l, c) THEN "write" ELSE "none",
                     IF AlsoWrites(l, c) THEN c ELSE NoConn, x,
                     loop[l].pending, loop[l].running, loop[l].wakeup)
<1> DEFINE x == loop[l].active \ {Ready("read", c), Ready("write", c)}
<1>1. loop \in [Loop -> LoopState]
  BY DEF BridgeInv, TypeOK
<1>2. /\ l \in Loop /\ c \in Conn /\ x \subseteq loop[l].active
      /\ AlsoWrites(l, c) \in BOOLEAN
  BY DEF AlsoWrites
<1>3. loop' = [loop EXCEPT
           ![l].active = x,
           ![l].duty = IF AlsoWrites(l, c) THEN "write" ELSE "none",
           ![l].conn = IF AlsoWrites(l, c) THEN c ELSE NoConn]
  BY DEF HandleRead, Rest
<1> HIDE DEF x
<1>4. loop'[l] = [loop[l] EXCEPT !.active = x, !.duty = IF AlsoWrites(l, c) THEN "write" ELSE "none", !.conn = IF AlsoWrites(l, c) THEN c ELSE NoConn]
  BY ONLY <1>1, <1>2, <1>3
<1>5. /\ \A m \in Loop \ {l} : loop'[m] = loop[m]
      /\ loop' = [m \in Loop |-> loop'[m]]
  BY ONLY <1>1, <1>2, <1>3
<1>6. loop[l] \in LoopState
  BY ONLY <1>1, <1>2
<1>7. LoopIs(l, loop[l].at,
            IF AlsoWrites(l, c) THEN "write" ELSE "none",
            IF AlsoWrites(l, c) THEN c ELSE NoConn, x,
            loop[l].pending, loop[l].running, loop[l].wakeup)
  BY ONLY <1>4, <1>6 DEF LoopState, LoopIs
<1>8. loop'[l] \in LoopState
  BY ONLY <1>2, <1>4, <1>6 DEF LoopState
<1>9. QED
  BY <1>1, <1>2, <1>5, <1>7, <1>8 DEF OtherLoops, x

LEMMA HandleCloseEffect ==
    ASSUME BridgeInv, NEW l \in Loop, NEW c \in Conn, HandleClose(l, c)
    PROVE  LET x == loop[l].active \ {Ready("read", c), Ready("write", c)} IN
           /\ OtherLoops({l})
           /\ LoopIs(l, loop[l].at, "join", c, x, loop[l].pending,
                     loop[l].running, loop[l].wakeup)
<1> DEFINE x == loop[l].active \ {Ready("read", c), Ready("write", c)}
<1>1. loop \in [Loop -> LoopState]
  BY DEF BridgeInv, TypeOK
<1>2. l \in Loop /\ c \in Conn /\ x \subseteq loop[l].active
  OBVIOUS
<1>3. loop' = [loop EXCEPT ![l].active = x,
                            ![l].duty = "join", ![l].conn = c]
  BY DEF HandleClose, Rest
<1> HIDE DEF x
<1>4. loop'[l] = [loop[l] EXCEPT !.active = x, !.duty = "join", !.conn = c]
  BY ONLY <1>1, <1>2, <1>3
<1>5. /\ \A m \in Loop \ {l} : loop'[m] = loop[m]
      /\ loop' = [m \in Loop |-> loop'[m]]
  BY ONLY <1>1, <1>2, <1>3
<1>6. loop[l] \in LoopState
  BY ONLY <1>1, <1>2
<1>7. LoopIs(l, loop[l].at, "join", c, x, loop[l].pending,
            loop[l].running, loop[l].wakeup)
  BY ONLY <1>4, <1>6 DEF LoopState, LoopIs
<1>8. loop'[l] \in LoopState
  BY ONLY <1>2, <1>4, <1>6 DEF LoopState
<1>9. QED
  BY <1>1, <1>2, <1>5, <1>7, <1>8 DEF OtherLoops, x

LEMMA JoinPullEffect ==
    ASSUME BridgeInv, NEW l \in Loop, JoinPull(l)
    PROVE  /\ OtherLoops({l})
           /\ LoopIs(l, loop[l].at, "remove", loop[l].conn, loop[l].active,
                     loop[l].pending, loop[l].running, loop[l].wakeup)
<1>1. loop \in [Loop -> LoopState]
  BY DEF BridgeInv, TypeOK
<1>2. l \in Loop
  OBVIOUS
<1>3. loop' = [loop EXCEPT ![l].duty = "remove"]
  BY DEF JoinPull
<1>4. loop'[l] = [loop[l] EXCEPT !.duty = "remove"]
  BY ONLY <1>1, <1>2, <1>3
<1>5. /\ \A m \in Loop \ {l} : loop'[m] = loop[m]
      /\ loop' = [m \in Loop |-> loop'[m]]
  BY ONLY <1>1, <1>2, <1>3
<1>6. loop[l] \in LoopState
  BY ONLY <1>1, <1>2
<1>7. LoopIs(l, loop[l].at, "remove", loop[l].conn, loop[l].active,
            loop[l].pending, loop[l].running, loop[l].wakeup)
  BY ONLY <1>4, <1>6 DEF LoopState, LoopIs
<1>8. loop'[l] \in LoopState
  BY ONLY <1>2, <1>4, <1>6 DEF LoopState
<1>9. QED
  BY <1>1, <1>2, <1>5, <1>7, <1>8 DEF OtherLoops

LEMMA RemoveConnectionEffect ==
    ASSUME BridgeInv, NEW l \in Loop, RemoveConnection(l)
    PROVE  LET c == loop[l].conn
                f == Call("removeConnection", c) IN
           /\ OtherLoops({Base, l})
           /\ c \in Conn /\ LoopOf(c) = l /\ Base \in Loop /\ l # Base
           /\ f \in FunctorsOf(Base)
           /\ LoopIs(Base, loop[Base].at, loop[Base].duty, loop[Base].conn,
                     loop[Base].active, Append(loop[Base].pending, f),
                     loop[Base].running, loop[Base].wakeup)
           /\ LoopIs(l, loop[l].at, "wakeup", loop[l].conn, loop[l].active,
                     loop[l].pending, loop[l].running, loop[l].wakeup)
<1> DEFINE c == loop[l].conn
           f == Call("removeConnection", c)
<1>1. loop \in [Loop -> LoopState]
  BY DEF BridgeInv, TypeOK
<1>2. /\ c \in Conn /\ LoopOf(c) = l /\ l \in Loop /\ Base \in Loop /\ l # Base
      /\ f \in Functors /\ f \in FunctorsOf(Base)
  BY LoopNumbers, FunctorsAtHome DEF RemoveConnection, Duty, BridgeInv, LoopInv, Orderly
<1>3. loop' = [loop EXCEPT ![Base].pending = Append(@, f),
                            ![l].duty = "wakeup"]
  BY DEF RemoveConnection
<1> HIDE DEF c, f
<1>4. loop'[Base] = [loop[Base] EXCEPT !.pending = Append(loop[Base].pending, f)]
  BY ONLY <1>1, <1>2, <1>3
<1>5. loop'[l] = [loop[l] EXCEPT !.duty = "wakeup"]
  BY ONLY <1>1, <1>2, <1>3
<1>6. /\ \A m \in Loop \ {Base, l} : loop'[m] = loop[m]
      /\ loop' = [m \in Loop |-> loop'[m]]
  BY ONLY <1>1, <1>2, <1>3
<1>7. loop[Base] \in LoopState
  BY ONLY <1>1, <1>2
<1>8. LoopIs(Base, loop[Base].at, loop[Base].duty, loop[Base].conn,
            loop[Base].active, Append(loop[Base].pending, f),
            loop[Base].running, loop[Base].wakeup)
  BY ONLY <1>4, <1>7 DEF LoopState, LoopIs
<1>9. Append(loop[Base].pending, f) \in Seq(Functors)
  BY ONLY <1>2, <1>7, QueueUpdates
<1>10. loop'[Base] \in LoopState
  BY ONLY <1>2, <1>4, <1>7, <1>9 DEF LoopState
<1>11. loop[l] \in LoopState
  BY ONLY <1>1, <1>2
<1>12. LoopIs(l, loop[l].at, "wakeup", loop[l].conn, loop[l].active,
            loop[l].pending, loop[l].running, loop[l].wakeup)
  BY ONLY <1>5, <1>11 DEF LoopState, LoopIs
<1>13. loop'[l] \in LoopState
  BY ONLY <1>2, <1>5, <1>11 DEF LoopState
<1>14. QED
  BY <1>1, <1>2, <1>6, <1>8, <1>10, <1>12, <1>13 DEF OtherLoops, c, f

LEMMA ConnectDestroyedEffect ==
    ASSUME BridgeInv, NEW l \in Loop, ConnectDestroyed(l)
    PROVE  /\ OtherLoops({l})
           /\ LoopIs(l, loop[l].at, loop[l].duty, loop[l].conn,
                     loop[l].active, loop[l].pending,
                     Tail(loop[l].running), loop[l].wakeup)
<1>1. loop \in [Loop -> LoopState]
  BY DEF BridgeInv, TypeOK
<1>2. l \in Loop /\ loop[l].running # <<>>
  BY DEF ConnectDestroyed, Runs
<1>3. loop' = [loop EXCEPT ![l].running = Tail(@)]
  BY DEF ConnectDestroyed
<1>4. loop'[l] = [loop[l] EXCEPT !.running = Tail(loop[l].running)]
  BY ONLY <1>1, <1>2, <1>3
<1>5. /\ \A m \in Loop \ {l} : loop'[m] = loop[m]
      /\ loop' = [m \in Loop |-> loop'[m]]
  BY ONLY <1>1, <1>2, <1>3
<1>6. loop[l] \in LoopState
  BY ONLY <1>1, <1>2
<1>7. LoopIs(l, loop[l].at, loop[l].duty, loop[l].conn,
            loop[l].active, loop[l].pending,
            Tail(loop[l].running), loop[l].wakeup)
  BY ONLY <1>4, <1>6 DEF LoopState, LoopIs
<1>8. Tail(loop[l].running) \in Seq(Functors)
  BY ONLY <1>2, <1>6, QueueUpdates
<1>9. loop'[l] \in LoopState
  BY ONLY <1>2, <1>4, <1>6, <1>8 DEF LoopState
<1>10. QED
  BY <1>1, <1>2, <1>5, <1>7, <1>9 DEF OtherLoops

LEMMA SendInLoopEffect ==
    ASSUME BridgeInv, NEW l \in Loop, SendInLoop(l)
    PROVE  /\ OtherLoops({l})
           /\ LoopIs(l, loop[l].at, loop[l].duty, loop[l].conn,
                     loop[l].active, loop[l].pending,
                     Tail(loop[l].running), loop[l].wakeup)
<1>1. loop \in [Loop -> LoopState]
  BY DEF BridgeInv, TypeOK
<1>2. l \in Loop /\ loop[l].running # <<>>
  BY DEF SendInLoop, Runs
<1>3. loop' = [loop EXCEPT ![l].running = Tail(@)]
  BY DEF SendInLoop
<1>4. loop'[l] = [loop[l] EXCEPT !.running = Tail(loop[l].running)]
  BY ONLY <1>1, <1>2, <1>3
<1>5. /\ \A m \in Loop \ {l} : loop'[m] = loop[m]
      /\ loop' = [m \in Loop |-> loop'[m]]
  BY ONLY <1>1, <1>2, <1>3
<1>6. loop[l] \in LoopState
  BY ONLY <1>1, <1>2
<1>7. LoopIs(l, loop[l].at, loop[l].duty, loop[l].conn,
            loop[l].active, loop[l].pending,
            Tail(loop[l].running), loop[l].wakeup)
  BY ONLY <1>4, <1>6 DEF LoopState, LoopIs
<1>8. Tail(loop[l].running) \in Seq(Functors)
  BY ONLY <1>2, <1>6, QueueUpdates
<1>9. loop'[l] \in LoopState
  BY ONLY <1>2, <1>4, <1>6, <1>8 DEF LoopState
<1>10. QED
  BY <1>1, <1>2, <1>5, <1>7, <1>9 DEF OtherLoops

LEMMA HandleWriteEffect ==
    ASSUME BridgeInv, NEW l \in Loop, NEW c \in Conn, HandleWrite(l, c)
    PROVE  LET x == Ready("write", c) IN
           /\ OtherLoops({l})
           /\ LoopIs(l, loop[l].at, "none", NoConn, loop[l].active \ {x},
                     loop[l].pending, loop[l].running, loop[l].wakeup)
<1> DEFINE x == Ready("write", c)
<1>1. loop \in [Loop -> LoopState]
  BY DEF BridgeInv, TypeOK
<1>2. l \in Loop
  OBVIOUS
<1>3. loop' = [loop EXCEPT ![l].active = @ \ {x},
                            ![l].duty = "none", ![l].conn = NoConn]
  BY DEF HandleWrite
<1> HIDE DEF x
<1>4. loop'[l] = [loop[l] EXCEPT !.active = loop[l].active \ {x}, !.duty = "none", !.conn = NoConn]
  BY ONLY <1>1, <1>2, <1>3
<1>5. /\ \A m \in Loop \ {l} : loop'[m] = loop[m]
      /\ loop' = [m \in Loop |-> loop'[m]]
  BY ONLY <1>1, <1>2, <1>3
<1>6. loop[l] \in LoopState
  BY ONLY <1>1, <1>2
<1>7. LoopIs(l, loop[l].at, "none", NoConn, loop[l].active \ {x},
            loop[l].pending, loop[l].running, loop[l].wakeup)
  BY ONLY <1>4, <1>6 DEF LoopState, LoopIs
<1>8. loop'[l] \in LoopState
  BY ONLY <1>2, <1>4, <1>6 DEF LoopState
<1>9. QED
  BY <1>1, <1>2, <1>5, <1>7, <1>8 DEF OtherLoops, x

LEMMA SendQueueEffect ==
    ASSUME BridgeInv, NEW c \in Conn, SendQueue(c)
    PROVE  LET k == LoopOf(c)
                f == SendCall(c, session[c].hand) IN
           /\ OtherLoops({k})
           /\ k \in Loop /\ k # Base /\ f \in FunctorsOf(k)
           /\ LoopIs(k, loop[k].at, loop[k].duty, loop[k].conn,
                     loop[k].active, Append(loop[k].pending, f),
                     loop[k].running, loop[k].wakeup)
<1> DEFINE k == LoopOf(c)
           f == SendCall(c, session[c].hand)
<1>1. loop \in [Loop -> LoopState]
  BY DEF BridgeInv, TypeOK
<1>2. k \in Loop /\ k # Base /\ f \in Functors /\ f \in FunctorsOf(k)
  BY LoopNumbers, FunctorsAtHome DEF SendQueue, PullAt, BridgeInv, SessionInv
<1>3. loop' = [loop EXCEPT ![k].pending = Append(@, f)]
  BY DEF SendQueue
<1> HIDE DEF k, f
<1>4. loop'[k] = [loop[k] EXCEPT !.pending = Append(loop[k].pending, f)]
  BY ONLY <1>1, <1>2, <1>3
<1>5. /\ \A m \in Loop \ {k} : loop'[m] = loop[m]
      /\ loop' = [m \in Loop |-> loop'[m]]
  BY ONLY <1>1, <1>2, <1>3
<1>6. loop[k] \in LoopState
  BY ONLY <1>1, <1>2
<1>7. LoopIs(k, loop[k].at, loop[k].duty, loop[k].conn,
            loop[k].active, Append(loop[k].pending, f),
            loop[k].running, loop[k].wakeup)
  BY ONLY <1>4, <1>6 DEF LoopState, LoopIs
<1>8. Append(loop[k].pending, f) \in Seq(Functors)
  BY ONLY <1>2, <1>6, QueueUpdates
<1>9. loop'[k] \in LoopState
  BY ONLY <1>2, <1>4, <1>6, <1>8 DEF LoopState
<1>10. QED
  BY <1>1, <1>2, <1>5, <1>7, <1>9 DEF OtherLoops, k, f

LEMMA SendWakeupEffect ==
    ASSUME BridgeInv, NEW c \in Conn, SendWakeup(c)
    PROVE  LET k == LoopOf(c) IN
           /\ OtherLoops({k})
           /\ k \in Loop /\ k # Base
           /\ LoopIs(k, loop[k].at, loop[k].duty, loop[k].conn,
                     loop[k].active, loop[k].pending, loop[k].running, TRUE)
<1> DEFINE k == LoopOf(c)
<1>1. loop \in [Loop -> LoopState]
  BY DEF BridgeInv, TypeOK
<1>2. k \in Loop /\ k # Base
  BY LoopNumbers
<1>3. loop' = [loop EXCEPT ![k].wakeup = TRUE]
  BY DEF SendWakeup
<1> HIDE DEF k
<1>4. loop'[k] = [loop[k] EXCEPT !.wakeup = TRUE]
  BY ONLY <1>1, <1>2, <1>3
<1>5. /\ \A m \in Loop \ {k} : loop'[m] = loop[m]
      /\ loop' = [m \in Loop |-> loop'[m]]
  BY ONLY <1>1, <1>2, <1>3
<1>6. loop[k] \in LoopState
  BY ONLY <1>1, <1>2
<1>7. LoopIs(k, loop[k].at, loop[k].duty, loop[k].conn,
            loop[k].active, loop[k].pending, loop[k].running, TRUE)
  BY ONLY <1>4, <1>6 DEF LoopState, LoopIs
<1>8. loop'[k] \in LoopState
  BY ONLY <1>2, <1>4, <1>6 DEF LoopState
<1>9. QED
  BY <1>1, <1>2, <1>5, <1>7, <1>8 DEF OtherLoops, k

(* ... to the records of connections, sessions and sockets.                 *)
LEMMA AcceptConn ==
    ASSUME BridgeInv, NEW c \in Conn, Accept(c)
    PROVE  /\ OtherConns({c})
           /\ ConnIs(c, "connecting", conn[c].reading, conn[c].writing,
                     conn[c].added, conn[c].context, conn[c].outputBuffer)
<1>1. conn \in [Conn -> ConnState]
  BY DEF BridgeInv, TypeOK
<1>2. c \in Conn
  OBVIOUS
<1>3. conn' = [conn EXCEPT ![c].state = "connecting"]
  BY DEF Accept, NewConnection
<1>4. conn'[c] = [conn[c] EXCEPT !.state = "connecting"]
  BY ONLY <1>1, <1>2, <1>3
<1>5. /\ \A m \in Conn \ {c} : conn'[m] = conn[m]
      /\ conn' = [m \in Conn |-> conn'[m]]
  BY ONLY <1>1, <1>2, <1>3
<1>6. conn[c] \in ConnState
  BY ONLY <1>1, <1>2
<1>7. ConnIs(c, "connecting", conn[c].reading, conn[c].writing,
            conn[c].added, conn[c].context, conn[c].outputBuffer)
  BY ONLY <1>4, <1>6 DEF ConnState, ConnIs
<1>8. conn'[c] \in ConnState
  BY ONLY <1>2, <1>4, <1>6 DEF ConnState
<1>9. QED
  BY <1>1, <1>2, <1>5, <1>7, <1>8 DEF OtherConns

LEMMA ConnectEstablishedConn ==
    ASSUME BridgeInv, NEW l \in Loop, ConnectEstablished(l)
    PROVE  LET c == Head(loop[l].running).conn IN
           /\ OtherConns({c})
           /\ c \in Conn
           /\ ConnIs(c, "connected", TRUE, conn[c].writing, TRUE, TRUE,
                     conn[c].outputBuffer)
<1> DEFINE c == Head(loop[l].running).conn
<1>1. conn \in [Conn -> ConnState]
  BY DEF BridgeInv, TypeOK
<1>2. c \in Conn
  BY RunsHead DEF ConnectEstablished
<1>3. conn' = [conn EXCEPT ![c].state = "connected", ![c].reading = TRUE,
                                  ![c].added = TRUE, ![c].context = TRUE]
  BY DEF ConnectEstablished
<1> HIDE DEF c
<1>4. conn'[c] = [conn[c] EXCEPT !.state = "connected", !.reading = TRUE, !.added = TRUE, !.context = TRUE]
  BY ONLY <1>1, <1>2, <1>3
<1>5. /\ \A m \in Conn \ {c} : conn'[m] = conn[m]
      /\ conn' = [m \in Conn |-> conn'[m]]
  BY ONLY <1>1, <1>2, <1>3
<1>6. conn[c] \in ConnState
  BY ONLY <1>1, <1>2
<1>7. ConnIs(c, "connected", TRUE, conn[c].writing, TRUE, TRUE,
            conn[c].outputBuffer)
  BY ONLY <1>4, <1>6 DEF ConnState, ConnIs
<1>8. conn'[c] \in ConnState
  BY ONLY <1>2, <1>4, <1>6 DEF ConnState
<1>9. QED
  BY <1>1, <1>2, <1>5, <1>7, <1>8 DEF OtherConns, c

LEMMA HandleCloseConn ==
    ASSUME BridgeInv, NEW l \in Loop, NEW c \in Conn, HandleClose(l, c)
    PROVE  /\ OtherConns({c})
           /\ ConnIs(c, "disconnected", FALSE, FALSE, conn[c].added,
                     conn[c].context, conn[c].outputBuffer)
<1>1. conn \in [Conn -> ConnState]
  BY DEF BridgeInv, TypeOK
<1>2. c \in Conn
  OBVIOUS
<1>3. conn' = [conn EXCEPT ![c].state = "disconnected", ![c].reading = FALSE,
                            ![c].writing = FALSE]
  BY DEF HandleClose
<1>4. conn'[c] = [conn[c] EXCEPT !.state = "disconnected", !.reading = FALSE, !.writing = FALSE]
  BY ONLY <1>1, <1>2, <1>3
<1>5. /\ \A m \in Conn \ {c} : conn'[m] = conn[m]
      /\ conn' = [m \in Conn |-> conn'[m]]
  BY ONLY <1>1, <1>2, <1>3
<1>6. conn[c] \in ConnState
  BY ONLY <1>1, <1>2
<1>7. ConnIs(c, "disconnected", FALSE, FALSE, conn[c].added,
            conn[c].context, conn[c].outputBuffer)
  BY ONLY <1>4, <1>6 DEF ConnState, ConnIs
<1>8. conn'[c] \in ConnState
  BY ONLY <1>2, <1>4, <1>6 DEF ConnState
<1>9. QED
  BY <1>1, <1>2, <1>5, <1>7, <1>8 DEF OtherConns

LEMMA ConnectDestroyedConn ==
    ASSUME BridgeInv, NEW l \in Loop, ConnectDestroyed(l)
    PROVE  LET c == Head(loop[l].running).conn IN
           /\ OtherConns({c})
           /\ c \in Conn
           /\ ConnIs(c, conn[c].state, conn[c].reading, conn[c].writing,
                     FALSE, conn[c].context, conn[c].outputBuffer)
<1> DEFINE c == Head(loop[l].running).conn
<1>1. conn \in [Conn -> ConnState]
  BY DEF BridgeInv, TypeOK
<1>2. c \in Conn
  BY RunsHead DEF ConnectDestroyed
<1>3. conn' = [conn EXCEPT ![c].added = FALSE]
  BY DEF ConnectDestroyed
<1> HIDE DEF c
<1>4. conn'[c] = [conn[c] EXCEPT !.added = FALSE]
  BY ONLY <1>1, <1>2, <1>3
<1>5. /\ \A m \in Conn \ {c} : conn'[m] = conn[m]
      /\ conn' = [m \in Conn |-> conn'[m]]
  BY ONLY <1>1, <1>2, <1>3
<1>6. conn[c] \in ConnState
  BY ONLY <1>1, <1>2
<1>7. ConnIs(c, conn[c].state, conn[c].reading, conn[c].writing,
            FALSE, conn[c].context, conn[c].outputBuffer)
  BY ONLY <1>4, <1>6 DEF ConnState, ConnIs
<1>8. conn'[c] \in ConnState
  BY ONLY <1>2, <1>4, <1>6 DEF ConnState
<1>9. QED
  BY <1>1, <1>2, <1>5, <1>7, <1>8 DEF OtherConns, c

LEMMA ConnectEstablishedSession ==
    ASSUME BridgeInv, NEW l \in Loop, ConnectEstablished(l)
    PROVE  LET c == Head(loop[l].running).conn IN
           /\ OtherSessions({c})
           /\ c \in Conn
           /\ SessionIs(c, counter_port, session[c].answers, "poll",
                        session[c].inbox, session[c].hand,
                        session[c].relayed)
<1> DEFINE c == Head(loop[l].running).conn
<1>1. session \in [Conn -> SessionState]
  BY DEF BridgeInv, TypeOK
<1>2. c \in Conn /\ counter_port \in Nat
  BY RunsHead DEF ConnectEstablished, BridgeInv, TypeOK
<1>3. session' = [session EXCEPT ![c].id = counter_port, ![c].pull = "poll"]
  BY DEF ConnectEstablished, NewSession
<1> HIDE DEF c
<1>4. session'[c] = [session[c] EXCEPT !.id = counter_port, !.pull = "poll"]
  BY ONLY <1>1, <1>2, <1>3
<1>5. /\ \A m \in Conn \ {c} : session'[m] = session[m]
      /\ session' = [m \in Conn |-> session'[m]]
  BY ONLY <1>1, <1>2, <1>3
<1>6. session[c] \in SessionState
  BY ONLY <1>1, <1>2
<1>7. SessionIs(c, counter_port, session[c].answers, "poll",
               session[c].inbox, session[c].hand,
               session[c].relayed)
  BY ONLY <1>4, <1>6 DEF SessionState, SessionIs
<1>8. session'[c] \in SessionState
  BY ONLY <1>2, <1>4, <1>6 DEF SessionState
<1>9. QED
  BY <1>1, <1>2, <1>5, <1>7, <1>8 DEF OtherSessions, c

LEMMA JoinPullSession ==
    ASSUME BridgeInv, NEW l \in Loop, JoinPull(l)
    PROVE  LET c == loop[l].conn IN
           /\ OtherSessions({c})
           /\ c \in Conn
           /\ SessionIs(c, session[c].id, session[c].answers,
                        session[c].pull, <<>>, session[c].hand,
                        session[c].relayed)
<1> DEFINE c == loop[l].conn
<1>1. session \in [Conn -> SessionState]
  BY DEF BridgeInv, TypeOK
<1>2. c \in Conn /\ <<>> \in Seq(Answer)
  BY DEF JoinPull, Duty, BridgeInv, LoopInv, Orderly
<1>3. session' = [session EXCEPT ![c].inbox = <<>>]
  BY DEF JoinPull
<1> HIDE DEF c
<1>4. session'[c] = [session[c] EXCEPT !.inbox = <<>>]
  BY ONLY <1>1, <1>2, <1>3
<1>5. /\ \A m \in Conn \ {c} : session'[m] = session[m]
      /\ session' = [m \in Conn |-> session'[m]]
  BY ONLY <1>1, <1>2, <1>3
<1>6. session[c] \in SessionState
  BY ONLY <1>1, <1>2
<1>7. SessionIs(c, session[c].id, session[c].answers,
               session[c].pull, <<>>, session[c].hand,
               session[c].relayed)
  BY ONLY <1>4, <1>6 DEF SessionState, SessionIs
<1>8. session'[c] \in SessionState
  BY ONLY <1>2, <1>4, <1>6 DEF SessionState
<1>9. QED
  BY <1>1, <1>2, <1>5, <1>7, <1>8 DEF OtherSessions, c

LEMMA SessionTypes ==
    ASSUME BridgeInv, NEW c \in Conn
    PROVE  /\ session[c].inbox \in Seq(Answer) /\ session[c].relayed \in Seq(Answer)
           /\ session[c].answers \in Nat /\ session[c].id \in Nat
           /\ session[c].inbox # <<>> => Head(session[c].inbox) \in Answer
<1>1. session[c] \in SessionState
  BY DEF BridgeInv, TypeOK
<1>2. QED
  BY <1>1 DEF SessionState

LEMMA PullReceiveSession ==
    ASSUME BridgeInv, NEW c \in Conn, PullReceive(c)
    PROVE  LET h == Head(session[c].inbox) IN
           /\ OtherSessions({c})
           /\ h \in Answer
           /\ SessionIs(c, session[c].id, session[c].answers, "send",
                        Tail(session[c].inbox), h, session[c].relayed)
<1> DEFINE h == Head(session[c].inbox)
<1>1. session \in [Conn -> SessionState]
  BY DEF BridgeInv, TypeOK
<1>2. c \in Conn /\ h \in Answer /\ session[c].inbox # <<>>
  BY SessionTypes DEF PullReceive
<1>3. session' = [session EXCEPT ![c].pull = "send",
                                  ![c].hand = h,
                                  ![c].inbox = Tail(@)]
  BY DEF PullReceive
<1> HIDE DEF h
<1>4. session'[c] = [session[c] EXCEPT !.pull = "send", !.hand = h, !.inbox = Tail(session[c].inbox)]
  BY ONLY <1>1, <1>2, <1>3
<1>5. /\ \A m \in Conn \ {c} : session'[m] = session[m]
      /\ session' = [m \in Conn |-> session'[m]]
  BY ONLY <1>1, <1>2, <1>3
<1>6. session[c] \in SessionState
  BY ONLY <1>1, <1>2
<1>7. SessionIs(c, session[c].id, session[c].answers, "send",
               Tail(session[c].inbox), h, session[c].relayed)
  BY ONLY <1>4, <1>6 DEF SessionState, SessionIs
<1>8. Tail(session[c].inbox) \in Seq(Answer)
  BY ONLY <1>2, <1>6 DEF SessionState
<1>9. session'[c] \in SessionState
  BY ONLY <1>2, <1>4, <1>6, <1>8 DEF SessionState
<1>10. QED
  BY <1>1, <1>2, <1>5, <1>7, <1>9 DEF OtherSessions, h

LEMMA SendTestConnected ==
    ASSUME BridgeInv, NEW c \in Conn, SendTest(c), conn[c].state = "connected"
    PROVE  /\ OtherSessions({c})
           /\ session[c].hand \in Answer
           /\ SessionIs(c, session[c].id, session[c].answers, "queue",
                        session[c].inbox, session[c].hand,
                        Append(session[c].relayed, session[c].hand))
<1>1. session \in [Conn -> SessionState]
  BY DEF BridgeInv, TypeOK
<1>2. c \in Conn /\ session[c].hand \in Answer
  BY DEF SendTest, PullAt, BridgeInv, SessionInv
<1>3. session' = [session EXCEPT ![c].pull = "queue",
                                 ![c].relayed = Append(@, session[c].hand)]
  BY DEF SendTest
<1>4. session'[c] = [session[c] EXCEPT !.pull = "queue", !.relayed = Append(session[c].relayed, session[c].hand)]
  BY ONLY <1>1, <1>2, <1>3
<1>5. /\ \A m \in Conn \ {c} : session'[m] = session[m]
      /\ session' = [m \in Conn |-> session'[m]]
  BY ONLY <1>1, <1>2, <1>3
<1>6. session[c] \in SessionState
  BY ONLY <1>1, <1>2
<1>7. SessionIs(c, session[c].id, session[c].answers, "queue",
               session[c].inbox, session[c].hand,
               Append(session[c].relayed, session[c].hand))
  BY ONLY <1>4, <1>6 DEF SessionState, SessionIs
<1>8. Append(session[c].relayed, session[c].hand) \in Seq(Answer)
  BY ONLY <1>2, <1>6 DEF SessionState
<1>9. session'[c] \in SessionState
  BY ONLY <1>2, <1>4, <1>6, <1>8 DEF SessionState
<1>10. QED
  BY <1>1, <1>2, <1>5, <1>7, <1>9 DEF OtherSessions

LEMMA SendTestClosed ==
    ASSUME BridgeInv, NEW c \in Conn, SendTest(c), conn[c].state # "connected"
    PROVE  /\ OtherSessions({c})
           /\ SessionIs(c, session[c].id, session[c].answers, "poll",
                        session[c].inbox, NoAnswer, session[c].relayed)
<1>1. session \in [Conn -> SessionState]
  BY DEF BridgeInv, TypeOK
<1>2. c \in Conn
  OBVIOUS
<1>3. session' = [session EXCEPT ![c].pull = "poll",
                                        ![c].hand = NoAnswer]
  BY DEF SendTest
<1>4. session'[c] = [session[c] EXCEPT !.pull = "poll", !.hand = NoAnswer]
  BY ONLY <1>1, <1>2, <1>3
<1>5. /\ \A m \in Conn \ {c} : session'[m] = session[m]
      /\ session' = [m \in Conn |-> session'[m]]
  BY ONLY <1>1, <1>2, <1>3
<1>6. session[c] \in SessionState
  BY ONLY <1>1, <1>2
<1>7. SessionIs(c, session[c].id, session[c].answers, "poll",
               session[c].inbox, NoAnswer, session[c].relayed)
  BY ONLY <1>4, <1>6 DEF SessionState, SessionIs
<1>8. session'[c] \in SessionState
  BY ONLY <1>2, <1>4, <1>6 DEF SessionState
<1>9. QED
  BY <1>1, <1>2, <1>5, <1>7, <1>8 DEF OtherSessions

LEMMA SendQueueSession ==
    ASSUME BridgeInv, NEW c \in Conn, SendQueue(c)
    PROVE  /\ OtherSessions({c})
           /\ SessionIs(c, session[c].id, session[c].answers, "wakeup",
                        session[c].inbox, NoAnswer, session[c].relayed)
<1>1. session \in [Conn -> SessionState]
  BY DEF BridgeInv, TypeOK
<1>2. c \in Conn
  OBVIOUS
<1>3. session' = [session EXCEPT ![c].pull = "wakeup", ![c].hand = NoAnswer]
  BY DEF SendQueue
<1>4. session'[c] = [session[c] EXCEPT !.pull = "wakeup", !.hand = NoAnswer]
  BY ONLY <1>1, <1>2, <1>3
<1>5. /\ \A m \in Conn \ {c} : session'[m] = session[m]
      /\ session' = [m \in Conn |-> session'[m]]
  BY ONLY <1>1, <1>2, <1>3
<1>6. session[c] \in SessionState
  BY ONLY <1>1, <1>2
<1>7. SessionIs(c, session[c].id, session[c].answers, "wakeup",
               session[c].inbox, NoAnswer, session[c].relayed)
  BY ONLY <1>4, <1>6 DEF SessionState, SessionIs
<1>8. session'[c] \in SessionState
  BY ONLY <1>2, <1>4, <1>6 DEF SessionState
<1>9. QED
  BY <1>1, <1>2, <1>5, <1>7, <1>8 DEF OtherSessions

LEMMA SendWakeupSession ==
    ASSUME BridgeInv, NEW c \in Conn, SendWakeup(c)
    PROVE  /\ OtherSessions({c})
           /\ SessionIs(c, session[c].id, session[c].answers, "poll",
                        session[c].inbox, session[c].hand,
                        session[c].relayed)
<1>1. session \in [Conn -> SessionState]
  BY DEF BridgeInv, TypeOK
<1>2. c \in Conn
  OBVIOUS
<1>3. session' = [session EXCEPT ![c].pull = "poll"]
  BY DEF SendWakeup
<1>4. session'[c] = [session[c] EXCEPT !.pull = "poll"]
  BY ONLY <1>1, <1>2, <1>3
<1>5. /\ \A m \in Conn \ {c} : session'[m] = session[m]
      /\ session' = [m \in Conn |-> session'[m]]
  BY ONLY <1>1, <1>2, <1>3
<1>6. session[c] \in SessionState
  BY ONLY <1>1, <1>2
<1>7. SessionIs(c, session[c].id, session[c].answers, "poll",
               session[c].inbox, session[c].hand,
               session[c].relayed)
  BY ONLY <1>4, <1>6 DEF SessionState, SessionIs
<1>8. session'[c] \in SessionState
  BY ONLY <1>2, <1>4, <1>6 DEF SessionState
<1>9. QED
  BY <1>1, <1>2, <1>5, <1>7, <1>8 DEF OtherSessions

LEMMA PullExitSession ==
    ASSUME BridgeInv, NEW c \in Conn, PullExit(c)
    PROVE  /\ OtherSessions({c})
           /\ SessionIs(c, session[c].id, session[c].answers, "exited",
                        session[c].inbox, session[c].hand,
                        session[c].relayed)
<1>1. session \in [Conn -> SessionState]
  BY DEF BridgeInv, TypeOK
<1>2. c \in Conn
  OBVIOUS
<1>3. session' = [session EXCEPT ![c].pull = "exited"]
  BY DEF PullExit
<1>4. session'[c] = [session[c] EXCEPT !.pull = "exited"]
  BY ONLY <1>1, <1>2, <1>3
<1>5. /\ \A m \in Conn \ {c} : session'[m] = session[m]
      /\ session' = [m \in Conn |-> session'[m]]
  BY ONLY <1>1, <1>2, <1>3
<1>6. session[c] \in SessionState
  BY ONLY <1>1, <1>2
<1>7. SessionIs(c, session[c].id, session[c].answers, "exited",
               session[c].inbox, session[c].hand,
               session[c].relayed)
  BY ONLY <1>4, <1>6 DEF SessionState, SessionIs
<1>8. session'[c] \in SessionState
  BY ONLY <1>2, <1>4, <1>6 DEF SessionState
<1>9. QED
  BY <1>1, <1>2, <1>5, <1>7, <1>8 DEF OtherSessions

LEMMA SendLineSock ==
    ASSUME BridgeInv, NEW c \in Conn, SendLine(c)
    PROVE  LET n == IF Pipelined THEN 1 ELSE 2 IN
           /\ OtherSocks({c})
           /\ SockIs(c, sock[c].client, sock[c].arrived + n, sock[c].read,
                     sock[c].out)
<1> DEFINE n == IF Pipelined THEN 1 ELSE 2
<1>1. sock \in [Conn -> SocketState]
  BY DEF BridgeInv, TypeOK
<1>2. c \in Conn /\ n \in Nat
  OBVIOUS
<1>3. sock' = [sock EXCEPT ![c].arrived = @ + n]
  BY DEF SendLine
<1> HIDE DEF n
<1>4. sock'[c] = [sock[c] EXCEPT !.arrived = sock[c].arrived + n]
  BY ONLY <1>1, <1>2, <1>3
<1>5. /\ \A m \in Conn \ {c} : sock'[m] = sock[m]
      /\ sock' = [m \in Conn |-> sock'[m]]
  BY ONLY <1>1, <1>2, <1>3
<1>6. sock[c] \in SocketState
  BY ONLY <1>1, <1>2
<1>7. SockIs(c, sock[c].client, sock[c].arrived + n, sock[c].read,
            sock[c].out)
  BY ONLY <1>4, <1>6 DEF SocketState, SockIs
<1>8. sock'[c] \in SocketState
  BY ONLY <1>2, <1>4, <1>6 DEF SocketState
<1>9. QED
  BY <1>1, <1>2, <1>5, <1>7, <1>8 DEF OtherSocks, n

LEMMA HangUpSock ==
    ASSUME BridgeInv, NEW c \in Conn, HangUp(c)
    PROVE  /\ OtherSocks({c})
           /\ SockIs(c, "closed", sock[c].arrived, sock[c].read,
                     sock[c].out)
<1>1. sock \in [Conn -> SocketState]
  BY DEF BridgeInv, TypeOK
<1>2. c \in Conn
  OBVIOUS
<1>3. sock' = [sock EXCEPT ![c].client = "closed"]
  BY DEF HangUp
<1>4. sock'[c] = [sock[c] EXCEPT !.client = "closed"]
  BY ONLY <1>1, <1>2, <1>3
<1>5. /\ \A m \in Conn \ {c} : sock'[m] = sock[m]
      /\ sock' = [m \in Conn |-> sock'[m]]
  BY ONLY <1>1, <1>2, <1>3
<1>6. sock[c] \in SocketState
  BY ONLY <1>1, <1>2
<1>7. SockIs(c, "closed", sock[c].arrived, sock[c].read,
            sock[c].out)
  BY ONLY <1>4, <1>6 DEF SocketState, SockIs
<1>8. sock'[c] \in SocketState
  BY ONLY <1>2, <1>4, <1>6 DEF SocketState
<1>9. QED
  BY <1>1, <1>2, <1>5, <1>7, <1>8 DEF OtherSocks

LEMMA SocketTypes ==
    ASSUME BridgeInv, NEW c \in Conn
    PROVE  /\ sock[c].arrived \in Nat /\ sock[c].read \in Nat
           /\ sock[c].client \in {"none", "open", "closed", "reset"}
           /\ sock[c].out \in Seq(Piece)
<1>1. sock[c] \in SocketState
  BY DEF BridgeInv, TypeOK
<1>2. QED
  BY <1>1 DEF SocketState

LEMMA HandleReadSock ==
    ASSUME BridgeInv, NEW l \in Loop, NEW c \in Conn, HandleRead(l, c)
    PROVE  LET n == sock[c].read + sock[c].arrived
                z == 0 IN
           /\ OtherSocks({c})
           /\ SockIs(c, sock[c].client, z, n, sock[c].out)
<1> DEFINE n == sock[c].read + sock[c].arrived
           z == 0
<1>1. sock \in [Conn -> SocketState]
  BY DEF BridgeInv, TypeOK
<1>2. c \in Conn /\ n \in Nat /\ z \in Nat
  BY SocketTypes
<1>3. sock' = [sock EXCEPT ![c].read = n, ![c].arrived = z]
  BY DEF HandleRead, OnMessage
<1> HIDE DEF n, z
<1>4. sock'[c] = [sock[c] EXCEPT !.read = n, !.arrived = z]
  BY ONLY <1>1, <1>2, <1>3
<1>5. /\ \A m \in Conn \ {c} : sock'[m] = sock[m]
      /\ sock' = [m \in Conn |-> sock'[m]]
  BY ONLY <1>1, <1>2, <1>3
<1>6. sock[c] \in SocketState
  BY ONLY <1>1, <1>2
<1>7. SockIs(c, sock[c].client, z, n, sock[c].out)
  BY ONLY <1>4, <1>6 DEF SocketState, SockIs
<1>8. sock'[c] \in SocketState
  BY ONLY <1>2, <1>4, <1>6 DEF SocketState
<1>9. QED
  BY <1>1, <1>2, <1>5, <1>7, <1>8 DEF OtherSocks, n, z

LEMMA ConnectEffect ==
    ASSUME BridgeInv, Connect
    PROVE  \E c \in Conn :
           /\ sock[c].client = "none" /\ backlog' = Append(backlog, c)
           /\ OtherSocks({c})
           /\ SockIs(c, "open", sock[c].arrived, sock[c].read, sock[c].out)
<1>1. PICK c \in Conn : /\ sock[c].client = "none" /\ backlog' = Append(backlog, c)
                        /\ sock' = [sock EXCEPT ![c].client = "open"]
  BY DEF Connect
<1>2. sock \in [Conn -> SocketState]
  BY DEF BridgeInv, TypeOK
<1>3. sock'[c] = [sock[c] EXCEPT !.client = "open"] /\ sock[c] \in SocketState
  BY ONLY <1>1, <1>2
<1>4. /\ \A m \in Conn \ {c} : sock'[m] = sock[m]
      /\ sock' = [m \in Conn |-> sock'[m]]
  BY ONLY <1>1, <1>2
<1>5. SockIs(c, "open", sock[c].arrived, sock[c].read, sock[c].out)
  BY ONLY <1>3 DEF SocketState, SockIs
<1>6. sock'[c] \in SocketState
  BY ONLY <1>3 DEF SocketState
<1>7. OtherSocks({c})
  BY ONLY <1>2, <1>4, <1>6 DEF OtherSocks
<1>8. QED
  BY <1>1, <1>5, <1>7

(* As many answers as a client can get.                                     *)
LEMMA EnoughAnswers ==
    ASSUME BridgeInv, NEW c \in Conn
    PROVE  /\ sock[c].read \in Nat /\ sock[c].read \div 2 \in 0..MaxLines
           /\ AnswersPerLine * (sock[c].read \div 2) <= MaxLines * AnswersPerLine
           /\ AnswersPerLine * (sock[c].read \div 2) \in Nat
<1>1. sock[c] \in SocketState
  BY DEF BridgeInv, TypeOK
<1>2. sock[c].read \in Nat /\ sock[c].arrived \in Nat
  BY <1>1 DEF SocketState
<1>3. sock[c].arrived + sock[c].read <= 2 * MaxLines
  BY DEF BridgeInv, SocketInv, Sent
<1>4. MaxLines \in Nat /\ AnswersPerLine \in Nat
  BY BridgeAssumption
<1>5. sock[c].read \div 2 \in 0..MaxLines
  BY ONLY <1>2, <1>3, <1>4
<1>6. \A a, m, n \in Nat : n <= m => a * n \in Nat /\ a * n <= m * a
  OBVIOUS
<1>7. QED
  BY <1>2, <1>4, <1>5, <1>6

LEMMA AnswerLineEffect ==
    ASSUME BridgeInv, NEW c \in Conn, AnswerLine(c)
    PROVE  \E d \in Conn :
           LET a == <<c, session[c].answers + 1>> IN
           /\ a \in Answer /\ Listens(d) /\ session[d].id = session[c].id
           /\ session' \in [Conn -> SessionState]
           /\ \A e \in Conn :
                 SessionIs(e, session[e].id,
                           IF e = c THEN session[e].answers + 1 ELSE session[e].answers,
                           session[e].pull,
                           IF e = d THEN Append(session[e].inbox, a) ELSE session[e].inbox,
                           session[e].hand, session[e].relayed)
<1> DEFINE a == <<c, session[c].answers + 1>>
<1>1. session \in [Conn -> SessionState]
  BY DEF BridgeInv, TypeOK
<1>2. PICK d \in Conn :
         /\ Listens(d) /\ session[d].id = session[c].id
         /\ session' = [session EXCEPT ![d].inbox = Append(@, a),
                                       ![c].answers = @ + 1]
  BY DEF AnswerLine
<1>3. session[c].answers + 1 \in 1..(MaxLines * AnswersPerLine)
  <2>1. session[c].answers < AnswersPerLine * (sock[c].read \div 2)
    BY DEF AnswerLine
  <2>2. session[c].answers \in Nat
    BY SessionTypes
  <2>3. MaxLines * AnswersPerLine \in Nat
    BY BridgeAssumption
  <2>4. /\ AnswersPerLine * (sock[c].read \div 2) <= MaxLines * AnswersPerLine
        /\ AnswersPerLine * (sock[c].read \div 2) \in Nat
    BY EnoughAnswers
  <2>5. QED
    BY <2>1, <2>2, <2>3, <2>4
<1>4. a \in Answer
  BY <1>3 DEF Answer
<1>5. c \in Conn /\ d \in Conn
  OBVIOUS
<1> HIDE DEF a
<1>6. /\ \A e \in Conn \ {c, d} : session'[e] = session[e]
      /\ session' = [e \in Conn |-> session'[e]]
      /\ \A e \in Conn : session[e] \in SessionState
  BY ONLY <1>1, <1>2, <1>5
<1>7. CASE c = d
  <2>1. session'[c] = [session[c] EXCEPT !.inbox = Append(@, a), !.answers = @ + 1]
    BY ONLY <1>1, <1>2, <1>5, <1>7
  <2>2. session[c] \in SessionState
    BY <1>6
  <2>3. Append(session[c].inbox, a) \in Seq(Answer) /\ session[c].answers + 1 \in Nat
    BY ONLY <2>2, <1>4 DEF SessionState
  <2>4. SessionIs(c, session[c].id, session[c].answers + 1, session[c].pull,
                  Append(session[c].inbox, a), session[c].hand, session[c].relayed)
    BY ONLY <2>1, <2>2 DEF SessionState, SessionIs
  <2>5. session'[c] \in SessionState
    BY ONLY <2>1, <2>2, <2>3 DEF SessionState
  <2>6. session' \in [Conn -> SessionState]
    BY ONLY <1>6, <1>7, <2>5
  <2>7. \A e \in Conn \ {c} : SessionIs(e, session[e].id, session[e].answers,
              session[e].pull, session[e].inbox, session[e].hand, session[e].relayed)
    BY ONLY <1>6, <1>7 DEF SessionIs
  <2>8. \A e \in Conn :
           SessionIs(e, session[e].id,
                     IF e = c THEN session[e].answers + 1 ELSE session[e].answers,
                     session[e].pull,
                     IF e = d THEN Append(session[e].inbox, a) ELSE session[e].inbox,
                     session[e].hand, session[e].relayed)
    BY ONLY <1>5, <1>7, <2>4, <2>7
  <2>9. QED
    BY <1>2, <1>4, <2>6, <2>8 DEF a
<1>8. CASE c # d
  <2>1. /\ session'[c] = [session[c] EXCEPT !.answers = @ + 1]
        /\ session'[d] = [session[d] EXCEPT !.inbox = Append(@, a)]
    BY ONLY <1>1, <1>2, <1>5, <1>8
  <2>2. session[c] \in SessionState /\ session[d] \in SessionState
    BY <1>6
  <2>3. Append(session[d].inbox, a) \in Seq(Answer) /\ session[c].answers + 1 \in Nat
    BY ONLY <2>2, <1>4 DEF SessionState
  <2>4. SessionIs(c, session[c].id, session[c].answers + 1, session[c].pull,
                  session[c].inbox, session[c].hand, session[c].relayed)
    BY ONLY <2>1, <2>2 DEF SessionState, SessionIs
  <2>5. SessionIs(d, session[d].id, session[d].answers, session[d].pull,
                  Append(session[d].inbox, a), session[d].hand, session[d].relayed)
    BY ONLY <2>1, <2>2 DEF SessionState, SessionIs
  <2>6. session'[c] \in SessionState
    BY ONLY <2>1, <2>2, <2>3 DEF SessionState
  <2>7. session'[d] \in SessionState
    BY ONLY <2>1, <2>2, <2>3 DEF SessionState
  <2>8. session' \in [Conn -> SessionState]
    BY ONLY <1>6, <1>8, <2>6, <2>7
  <2>9. \A e \in Conn \ {c, d} : SessionIs(e, session[e].id, session[e].answers,
              session[e].pull, session[e].inbox, session[e].hand, session[e].relayed)
    BY ONLY <1>6 DEF SessionIs
  <2>10. \A e \in Conn :
           SessionIs(e, session[e].id,
                     IF e = c THEN session[e].answers + 1 ELSE session[e].answers,
                     session[e].pull,
                     IF e = d THEN Append(session[e].inbox, a) ELSE session[e].inbox,
                     session[e].hand, session[e].relayed)
    BY ONLY <1>5, <1>8, <2>4, <2>5, <2>9
  <2>11. QED
    BY <1>2, <1>4, <2>8, <2>10 DEF a
<1>9. QED
  BY <1>7, <1>8

LEMMA WriteEffect ==
    ASSUME BridgeInv, NEW c \in Conn, NEW data \in Seq(Piece), NEW n \in 0..Len(data),
           Write(c, data, n)
    PROVE  /\ Taken(data, n) \in Seq(Piece) /\ Left(data, n) \in Seq(Piece)
           /\ \/ sock[c].client = "reset" /\ up' = FALSE /\ UNCHANGED <<sock, conn>>
              \/ /\ up' = up /\ sock[c].client # "reset"
                 /\ OtherConns({c})
                 /\ ConnIs(c, conn[c].state, conn[c].reading, Left(data, n) # <<>>,
                           conn[c].added, conn[c].context, Left(data, n))
                 /\ OtherSocks({c})
                 /\ \E after \in AfterWrite(c, n) :
                       SockIs(c, after, sock[c].arrived, sock[c].read,
                              sock[c].out \o Taken(data, n))
<1>1. Taken(data, n) \in Seq(Piece) /\ Left(data, n) \in Seq(Piece)
  <2>1. Len(data) \in Nat /\ n \in Nat /\ n <= Len(data)
    OBVIOUS
  <2>2. \A i \in 1..n : data[i] \in Piece
    BY <2>1
  <2>3. \A i \in (n + 1)..Len(data) : data[i] \in Piece
    BY <2>1
  <2>4. SubSeq(data, 1, n) \in Seq(Piece)
    BY ONLY <2>1, <2>2, data \in Seq(Piece), SubSeqProperties
  <2>5. SubSeq(data, n + 1, Len(data)) \in Seq(Piece)
    BY ONLY <2>1, <2>3, data \in Seq(Piece), SubSeqProperties
  <2>6. QED
    BY <2>4, <2>5 DEF Taken, Left
<1>2. CASE sock[c].client = "reset"
  BY <1>1, <1>2 DEF Write
<1>3. CASE sock[c].client # "reset"
  <2> DEFINE t == Taken(data, n)  r == Left(data, n)
  <2>1. PICK after \in AfterWrite(c, n) :
           sock' = [sock EXCEPT ![c].out = @ \o t, ![c].client = after]
    BY <1>3 DEF Write
  <2>2. conn' = [conn EXCEPT ![c].outputBuffer = r, ![c].writing = r # <<>>] /\ UNCHANGED up
    BY <1>3 DEF Write
  <2>3. t \in Seq(Piece) /\ r \in Seq(Piece) /\ c \in Conn
    BY <1>1
  <2>4. sock \in [Conn -> SocketState] /\ conn \in [Conn -> ConnState]
    BY DEF BridgeInv, TypeOK
  <2> HIDE DEF t, r
  <2>5. /\ sock'[c] = [sock[c] EXCEPT !.out = @ \o t, !.client = after]
        /\ sock[c] \in SocketState
    BY ONLY <2>1, <2>3, <2>4
  <2>6. /\ \A m \in Conn \ {c} : sock'[m] = sock[m]
        /\ sock' = [m \in Conn |-> sock'[m]]
    BY ONLY <2>1, <2>3, <2>4
  <2>7. /\ conn'[c] = [conn[c] EXCEPT !.outputBuffer = r, !.writing = r # <<>>]
        /\ conn[c] \in ConnState
    BY ONLY <2>2, <2>3, <2>4
  <2>8. /\ \A m \in Conn \ {c} : conn'[m] = conn[m]
        /\ conn' = [m \in Conn |-> conn'[m]]
    BY ONLY <2>2, <2>3, <2>4
  <2>9. SockIs(c, after, sock[c].arrived, sock[c].read, sock[c].out \o t)
    BY ONLY <2>5 DEF SocketState, SockIs
  <2>10. sock'[c] \in SocketState
    <3>1. sock[c].out \o t \in Seq(Piece)
      BY ONLY <2>3, <2>5, ConcatProperties DEF SocketState
    <3>2. after \in {"none", "open", "closed", "reset"}
      BY <2>5 DEF AfterWrite, SocketState
    <3>3. QED
      BY ONLY <2>5, <3>1, <3>2 DEF SocketState
  <2>11. ConnIs(c, conn[c].state, conn[c].reading, r # <<>>, conn[c].added,
                conn[c].context, r)
    BY ONLY <2>7 DEF ConnState, ConnIs
  <2>12. conn'[c] \in ConnState
    <3>1. (r # <<>>) \in BOOLEAN
      OBVIOUS
    <3>2. QED
      BY ONLY <2>3, <2>7, <3>1 DEF ConnState
  <2>13. OtherConns({c}) /\ OtherSocks({c})
    BY ONLY <2>4, <2>6, <2>8, <2>10, <2>12 DEF OtherConns, OtherSocks
  <2>14. QED
    BY <1>1, <1>3, <2>2, <2>9, <2>11, <2>13 DEF t, r
<1>4. QED
  BY <1>2, <1>3

------------------------------------------------------------------------------
(* What keeps each part of the invariant.                                   *)

(* Connection c is where it was on its way.                                 *)
SameCalls(c) ==
    /\ Establishes(c)' <=> Establishes(c)
    /\ Closing(c)' <=> Closing(c)
    /\ Removed(c)' <=> Removed(c)
    /\ Destroys(c)' <=> Destroys(c)

SameConn(c) ==
    /\ conn'[c].state = conn[c].state /\ conn'[c].added = conn[c].added
    /\ conn'[c].reading = conn[c].reading
    /\ conn'[c].writing = conn[c].writing \/ conn[c].state = "connected"
    /\ c \in connections' <=> c \in connections
    /\ sock'[c].read = sock[c].read \/ conn[c].state = "connected"
    /\ session'[c].pull = "none" <=> session[c].pull = "none"
    /\ conn[c].state = "connected" => session'[c].pull # "exited"

LEMMA StageKept ==
    ASSUME NEW c \in Conn, Stage(c), SameCalls(c), SameConn(c)
    PROVE  Stage(c)'
<1>1. CASE conn[c].state = "none"
  BY <1>1 DEF Stage, SameCalls, SameConn, Fresh
<1>2. CASE conn[c].state = "connecting"
  BY <1>2 DEF Stage, SameCalls, SameConn, Fresh
<1>3. CASE conn[c].state = "connected"
  BY <1>3 DEF Stage, SameCalls, SameConn
<1>4. CASE conn[c].state = "disconnected"
  BY <1>4 DEF Stage, SameCalls, SameConn
<1>5. QED
  BY <1>1, <1>2, <1>3, <1>4 DEF Stage

LEMMA HasKept ==
    ASSUME NEW l, Queue(l)' = Queue(l)
    PROVE  \A f : Has(l, f)' <=> Has(l, f)
BY DEF Has

LEMMA CallsKept ==
    ASSUME NEW c \in Conn, Queue(LoopOf(c))' = Queue(LoopOf(c)), Queue(Base)' = Queue(Base),
           Closing(c)' <=> Closing(c)
    PROVE  SameCalls(c)
<1>1. \A f : Has(LoopOf(c), f)' <=> Has(LoopOf(c), f)
  BY HasKept
<1>2. \A f : Has(Base, f)' <=> Has(Base, f)
  BY HasKept
<1>3. QED
  BY <1>1, <1>2 DEF SameCalls, Establishes, Removed, Destroys

LEMMA SendsKept ==
    ASSUME BridgeInv,
           \A l \in Loop : \A f \in FunctorsOf(l) :
               f.run = "send" /\ Has(l, f)' =>
                   Has(l, f) \/ conn[f.conn].state \in {"connected", "disconnected"},
           \A c \in Conn : conn[c].state \in {"connected", "disconnected"} =>
                               conn'[c].state \in {"connected", "disconnected"}
    PROVE  SendsInv'
<1>1. \A l \in Loop : \A f \in FunctorsOf(l) : f.conn \in Conn
  BY FunctorsAtHome
<1>2. ASSUME NEW l \in Loop, NEW f \in FunctorsOf(l), Has(l, f)', f.run = "send"
      PROVE  conn'[f.conn].state \in {"connected", "disconnected"}
  BY <1>1, <1>2 DEF BridgeInv, SendsInv
<1>3. QED
  BY <1>2 DEF SendsInv

LEMMA ReadyKept ==
    ASSUME BridgeInv, NEW l \in Loop,
           loop'[l].active \subseteq loop[l].active,
           loop'[l].duty = "write" => loop[l].duty = "write" /\ loop'[l].conn = loop[l].conn,
           \A c \in Conn : conn[c].state = "connected" => conn'[c].state = "connected"
    PROVE  ReadyIsConnected(l)'
<1>1. ReadyIsConnected(l) /\ Orderly(l)
  BY DEF BridgeInv, LoopInv
<1>2. QED
  BY <1>1 DEF ReadyIsConnected, Orderly

LEMMA OrderlyKept ==
    ASSUME NEW l, Orderly(l), loop'[l] = loop[l]
    PROVE  Orderly(l)' /\ Queue(l)' = Queue(l)
BY DEF Orderly, Queue

LEMMA NoticedKept ==
    ASSUME NEW l, Noticed(l),
           loop[l].wakeup => loop'[l].wakeup,
           \A m \in Loop : loop[m].duty = "wakeup" =>
               loop'[m].duty = "wakeup" /\ loop'[m].conn = loop[m].conn,
           \A c \in Conn : session[c].pull = "wakeup" => session'[c].pull = "wakeup"
    PROVE  Noticed(l)'
BY DEF Noticed, Woken

LEMMA BacklogKept ==
    ASSUME BridgeInv, backlog' = backlog,
           \A c \in Conn : conn[c].state = "none" => conn'[c].state = "none",
           \A c \in Conn : sock[c].client # "none" => sock'[c].client # "none",
           \A c \in Conn : Ready("accept", c) \in loop'[Base].active =>
                               Ready("accept", c) \in loop[Base].active
    PROVE  BacklogInv'
<1>1. BacklogInv /\ backlog \in Seq(Conn)
  BY DEF BridgeInv, TypeOK
<1>2. \A i \in 1..Len(backlog) : backlog[i] \in Conn
  BY <1>1
<1>3. QED
  BY <1>1, <1>2 DEF BacklogInv

LEMMA SessionKept ==
    ASSUME BridgeInv,
           \A c \in Conn : session'[c].pull = session[c].pull /\ session'[c].hand = session[c].hand
    PROVE  SessionInv'
BY DEF BridgeInv, SessionInv

LEMMA SocketKept ==
    ASSUME BridgeInv,
           \A c \in Conn :
               /\ sock'[c].client = "none" => sock[c].client = "none"
               /\ Sent(c)' = Sent(c)
               /\ conn[c].state = "none" => conn'[c].state = "none" \/ sock'[c].client # "none"
    PROVE  SocketInv'
BY DEF BridgeInv, SocketInv

------------------------------------------------------------------------------
(* Every action keeps the invariant: clients, nodes and PULL threads first. *)

LEMMA LoopsUntouched ==
    ASSUME BridgeInv, UNCHANGED <<loop, conn, connections>>,
           \A c \in Conn :
               /\ sock'[c].read = sock[c].read
               /\ session'[c].pull = "none" <=> session[c].pull = "none"
               /\ conn[c].state = "connected" => session'[c].pull # "exited"
    PROVE  /\ LoopInv' /\ SendsInv' /\ ConnInv'
           /\ loop' \in [Loop -> LoopState] /\ conn' \in [Conn -> ConnState]
           /\ \A l \in Loop : AtHome(l)'
           /\ connections' \subseteq Conn
<1>1. \A l \in Loop : Orderly(l)' /\ Queue(l)' = Queue(l)
  BY OrderlyKept DEF BridgeInv, LoopInv
<1>2. \A l \in Loop : ReadyIsConnected(l)'
  BY DEF BridgeInv, LoopInv, ReadyIsConnected
<1>3. SendsInv'
  <2>1. \A l \in Loop : \A f : Has(l, f)' <=> Has(l, f)
    BY <1>1, HasKept
  <2>2. QED
    BY <2>1, SendsKept
<1>4. ASSUME NEW c \in Conn
      PROVE  Stage(c)'
  <2>1. SameCalls(c)
    <3>1. LoopOf(c) \in Loop /\ Base \in Loop
      BY LoopNumbers
    <3>2. Closing(c)' <=> Closing(c)
      BY DEF Closing
    <3>3. QED
      BY <1>1, <3>1, <3>2, CallsKept
  <2>2. SameConn(c)
    BY DEF SameConn
  <2>3. Stage(c)
    BY DEF BridgeInv, ConnInv
  <2>4. QED
    BY ONLY <2>1, <2>2, <2>3, c \in Conn, StageKept
<1>5. \A l \in Loop : AtHome(l)'
  BY DEF BridgeInv, TypeOK, AtHome
<1>6. QED
  BY <1>1, <1>2, <1>3, <1>4, <1>5 DEF LoopInv, ConnInv, BridgeInv, TypeOK

LEMMA WakeupKept ==
    ASSUME BridgeInv,
           \A l \in Loop :
               /\ loop'[l].at # "events" /\ loop'[l].pending # <<>> =>
                      loop[l].at # "events" /\ loop[l].pending # <<>>
               /\ loop[l].wakeup /\ loop[l].at # "events" => loop'[l].wakeup
               /\ loop[l].duty = "wakeup" => loop'[l].duty = "wakeup" /\ loop'[l].conn = loop[l].conn,
           \A c \in Conn : session[c].pull = "wakeup" => session'[c].pull = "wakeup"
    PROVE  WakeupInv'
<1> SUFFICES ASSUME NEW l \in Loop, loop'[l].at # "events", loop'[l].pending # <<>>
             PROVE  Noticed(l)'
  BY DEF WakeupInv
<1>1. Noticed(l) /\ loop[l].at # "events"
  BY DEF BridgeInv, WakeupInv
<1>2. QED
  BY <1>1, NoticedKept

LEMMA ConnectKeeps ==
    ASSUME BridgeInv, Connect
    PROVE  BridgeInv'
<1>1. PICK c \in Conn :
         /\ sock[c].client = "none" /\ backlog' = Append(backlog, c)
         /\ OtherSocks({c})
         /\ SockIs(c, "open", sock[c].arrived, sock[c].read, sock[c].out)
  BY ConnectEffect
<1>2. UNCHANGED <<conn, session, loop, connections, counter_port, up>>
  BY DEF Connect
<1>3. /\ \A d \in Conn : sock'[d].read = sock[d].read /\ sock'[d].arrived = sock[d].arrived
      /\ \A d \in Conn \ {c} : sock'[d].client = sock[d].client
      /\ sock'[c].client = "open"
  BY <1>1 DEF OtherSocks, SockIs
<1>4. /\ LoopInv' /\ SendsInv' /\ ConnInv'
      /\ loop' \in [Loop -> LoopState] /\ conn' \in [Conn -> ConnState]
      /\ \A l \in Loop : AtHome(l)'
      /\ connections' \subseteq Conn
  <2>1. \A d \in Conn : conn[d].state = "connected" => session[d].pull # "exited"
    BY DEF BridgeInv, ConnInv, Stage
  <2>2. QED
    BY <1>2, <1>3, <2>1, LoopsUntouched
<1>5. backlog \in Seq(Conn)
  BY DEF BridgeInv, TypeOK
<1>6. TypeOK'
  BY <1>1, <1>2, <1>4, <1>5 DEF BridgeInv, TypeOK, OtherSocks
<1>7. BacklogInv'
  <2> DEFINE b == Append(backlog, c)
  <2>1. /\ Len(b) = Len(backlog) + 1 /\ Len(backlog) \in Nat
        /\ \A i \in 1..Len(backlog) : b[i] = backlog[i] /\ backlog[i] \in Conn
        /\ b[Len(backlog) + 1] = c
    BY <1>5
  <2> HIDE DEF b
  <2>2. \A i \in 1..Len(b) : i \in 1..Len(backlog) \/ i = Len(backlog) + 1
    BY <2>1
  <2>3. conn[c].state = "none"
    BY <1>1 DEF BridgeInv, SocketInv
  <2>4. \A i \in 1..Len(backlog) : backlog[i] # c
    BY <1>1 DEF BridgeInv, BacklogInv
  <2>5. \A i \in 1..Len(b) : conn[b[i]].state = "none" /\ sock'[b[i]].client # "none"
    BY <1>3, <2>1, <2>2, <2>3 DEF BridgeInv, BacklogInv
  <2>6. \A i, j \in 1..Len(b) : b[i] = b[j] => i = j
    BY <2>1, <2>2, <2>4 DEF BridgeInv, BacklogInv
  <2>7. backlog # <<>> => b # <<>> /\ Head(b) = Head(backlog)
    BY <1>5 DEF b
  <2>8. QED
    BY <1>1, <1>2, <2>5, <2>6, <2>7 DEF BridgeInv, BacklogInv, b
<1>8. SessionInv'
  BY <1>2, SessionKept
<1>9. SocketInv'
  BY <1>2, <1>3, SocketKept DEF Sent
<1>10. WakeupInv'
  BY <1>2, WakeupKept
<1>11. QED
  BY <1>4, <1>6, <1>7, <1>8, <1>9, <1>10 DEF BridgeInv

(* What a step of a client, a node or a PULL thread leaves to show.         *)
LEMMA UntouchedKeeps ==
    ASSUME BridgeInv, UNCHANGED <<loop, conn, connections, backlog, counter_port, up>>,
           sock' \in [Conn -> SocketState], session' \in [Conn -> SessionState],
           \A c \in Conn :
               /\ sock'[c].read = sock[c].read
               /\ sock[c].client # "none" => sock'[c].client # "none"
               /\ session'[c].pull = "none" <=> session[c].pull = "none"
               /\ conn[c].state = "connected" => session'[c].pull # "exited"
               /\ session[c].pull = "wakeup" => session'[c].pull = "wakeup",
           SessionInv', SocketInv'
    PROVE  BridgeInv'
<1>1. /\ LoopInv' /\ SendsInv' /\ ConnInv'
      /\ loop' \in [Loop -> LoopState] /\ conn' \in [Conn -> ConnState]
      /\ \A l \in Loop : AtHome(l)'
      /\ connections' \subseteq Conn
  BY LoopsUntouched
<1>2. TypeOK'
  BY <1>1 DEF BridgeInv, TypeOK
<1>3. BacklogInv'
  BY BacklogKept
<1>4. WakeupInv'
  BY WakeupKept
<1>5. QED
  BY <1>1, <1>2, <1>3, <1>4 DEF BridgeInv

LEMMA PullStates ==
    ASSUME BridgeInv, NEW c \in Conn, conn[c].state = "connected"
    PROVE  session[c].pull # "exited" /\ session[c].pull # "none"
BY DEF BridgeInv, ConnInv, Stage

LEMMA SendLineKeeps ==
    ASSUME BridgeInv, NEW c \in Conn, SendLine(c)
    PROVE  BridgeInv'
<1> DEFINE n == IF Pipelined THEN 1 ELSE 2
<1>1. /\ OtherSocks({c})
      /\ SockIs(c, sock[c].client, sock[c].arrived + n, sock[c].read, sock[c].out)
  BY SendLineSock
<1>2. /\ UNCHANGED <<conn, session, loop, connections, backlog, counter_port, up>>
      /\ sock[c].client = "open" /\ Sent(c) < 2 * MaxLines
  BY DEF SendLine
<1>3. /\ \A d \in Conn : sock'[d].read = sock[d].read /\ sock'[d].client = sock[d].client
      /\ \A d \in Conn \ {c} : sock'[d].arrived = sock[d].arrived
      /\ sock'[c].arrived = sock[c].arrived + n
  BY <1>1 DEF OtherSocks, SockIs
<1>4. SocketInv'
  <2>1. \A d \in Conn \ {c} : Sent(d)' = Sent(d)
    BY <1>3 DEF Sent
  <2>2. Sent(c)' = Sent(c) + n /\ Sent(c) \in Nat
    BY <1>3, SocketTypes DEF Sent
  <2>3. Sent(c)' <= 2 * MaxLines /\ (~Pipelined => Sent(c)' % 2 = 0)
    <3>1. MaxLines \in Nat /\ Pipelined \in BOOLEAN
      BY BridgeAssumption
    <3>2. ~Pipelined => Sent(c) % 2 = 0
      BY DEF BridgeInv, SocketInv
    <3>3. QED
      BY <1>2, <2>2, <3>1, <3>2
  <2>4. QED
    BY <1>2, <1>3, <2>1, <2>3 DEF BridgeInv, SocketInv
<1>5. SessionInv'
  BY <1>2, SessionKept
<1>6. session' \in [Conn -> SessionState] /\ sock' \in [Conn -> SocketState]
  BY <1>1, <1>2 DEF BridgeInv, TypeOK, OtherSocks
<1>7. QED
  BY <1>2, <1>3, <1>4, <1>5, <1>6, UntouchedKeeps, PullStates

LEMMA HangUpKeeps ==
    ASSUME BridgeInv, NEW c \in Conn, HangUp(c)
    PROVE  BridgeInv'
<1>1. /\ OtherSocks({c})
      /\ SockIs(c, "closed", sock[c].arrived, sock[c].read, sock[c].out)
  BY HangUpSock
<1>2. UNCHANGED <<conn, session, loop, connections, backlog, counter_port, up>>
  BY DEF HangUp
<1>3. /\ \A d \in Conn : sock'[d].read = sock[d].read /\ sock'[d].arrived = sock[d].arrived
      /\ \A d \in Conn : sock'[d].client = sock[d].client \/ sock'[d].client = "closed"
  BY <1>1 DEF OtherSocks, SockIs
<1>4. SocketInv'
  BY <1>2, <1>3, SocketKept DEF Sent
<1>5. SessionInv'
  BY <1>2, SessionKept
<1>6. session' \in [Conn -> SessionState] /\ sock' \in [Conn -> SocketState]
  BY <1>1, <1>2 DEF BridgeInv, TypeOK, OtherSocks
<1>7. QED
  BY <1>2, <1>3, <1>4, <1>5, <1>6, UntouchedKeeps, PullStates

LEMMA AnswerLineKeeps ==
    ASSUME BridgeInv, NEW c \in Conn, AnswerLine(c)
    PROVE  BridgeInv'
<1>1. /\ session' \in [Conn -> SessionState]
      /\ \A e \in Conn : session'[e].pull = session[e].pull /\ session'[e].hand = session[e].hand
  BY AnswerLineEffect DEF SessionIs
<1>2. UNCHANGED <<sock, conn, loop, connections, backlog, counter_port, up>>
  BY DEF AnswerLine
<1>3. SessionInv'
  BY <1>1, SessionKept
<1>4. SocketInv'
  BY <1>2, SocketKept DEF Sent
<1>5. sock' \in [Conn -> SocketState]
  BY <1>2 DEF BridgeInv, TypeOK
<1>6. QED
  BY <1>1, <1>2, <1>3, <1>4, <1>5, UntouchedKeeps, PullStates

(* A step of a PULL thread that leaves the loops alone.                     *)
LEMMA PullStepKeeps ==
    ASSUME BridgeInv, NEW c \in Conn, OtherSessions({c}),
           UNCHANGED <<sock, conn, loop, connections, backlog, counter_port, up>>,
           session[c].pull \notin {"none", "exited", "wakeup"},
           session'[c].pull # "none",
           conn[c].state = "connected" => session'[c].pull # "exited",
           session'[c].pull \in {"send", "queue"} => session'[c].hand \in Answer
    PROVE  BridgeInv'
<1>1. SessionInv'
  BY DEF BridgeInv, SessionInv, OtherSessions
<1>2. SocketInv'
  BY SocketKept DEF Sent
<1>3. session' \in [Conn -> SessionState] /\ sock' \in [Conn -> SocketState]
  BY DEF BridgeInv, TypeOK, OtherSessions
<1>4. \A d \in Conn :
         /\ session'[d].pull = "none" <=> session[d].pull = "none"
         /\ conn[d].state = "connected" => session'[d].pull # "exited"
         /\ session[d].pull = "wakeup" => session'[d].pull = "wakeup"
  BY PullStates DEF OtherSessions
<1>5. QED
  BY <1>1, <1>2, <1>3, <1>4, UntouchedKeeps

LEMMA PullReceiveKeeps ==
    ASSUME BridgeInv, NEW c \in Conn, PullReceive(c)
    PROVE  BridgeInv'
BY PullReceiveSession, PullStepKeeps DEF PullReceive, PullAt, SessionIs

LEMMA SendTestKeeps ==
    ASSUME BridgeInv, NEW c \in Conn, SendTest(c)
    PROVE  BridgeInv'
<1>1. /\ session[c].pull = "send" /\ session[c].hand \in Answer
      /\ UNCHANGED <<sock, conn, loop, connections, backlog, counter_port, up>>
  BY DEF SendTest, PullAt, BridgeInv, SessionInv
<1>2. CASE conn[c].state = "connected"
  <2>1. OtherSessions({c}) /\ session'[c].pull = "queue" /\ session'[c].hand = session[c].hand
    BY <1>2, SendTestConnected DEF SessionIs
  <2>2. QED
    BY <1>1, <2>1, PullStepKeeps
<1>3. CASE conn[c].state # "connected"
  <2>1. OtherSessions({c}) /\ session'[c].pull = "poll"
    BY <1>3, SendTestClosed DEF SessionIs
  <2>2. QED
    BY <1>1, <2>1, PullStepKeeps
<1>4. QED
  BY <1>2, <1>3

LEMMA PullExitKeeps ==
    ASSUME BridgeInv, NEW c \in Conn, PullExit(c)
    PROVE  BridgeInv'
BY PullExitSession, PullStepKeeps DEF PullExit, PullAt, SessionIs

(* The loops that only poll, wake one another or count ids: no queue and no *)
(* connection changes its place.                                            *)
LEMMA QuietKeeps ==
    ASSUME BridgeInv, connections' = connections,
           conn' \in [Conn -> ConnState], loop' \in [Loop -> LoopState],
           \A l \in Loop : Queue(l)' = Queue(l),
           \A c \in Conn : SameConn(c) /\ (Closing(c)' <=> Closing(c))
    PROVE  SendsInv' /\ ConnInv'
<1>1. SendsInv'
  <2>1. \A l \in Loop : \A f : Has(l, f)' <=> Has(l, f)
    BY HasKept
  <2>2. QED
    BY <2>1, SendsKept DEF SameConn
<1>2. ASSUME NEW c \in Conn
      PROVE  Stage(c)'
  <2>1. SameCalls(c)
    BY LoopNumbers, CallsKept
  <2>2. Stage(c)
    BY DEF BridgeInv, ConnInv
  <2>3. QED
    BY ONLY <2>1, <2>2, SameConn(c), c \in Conn, StageKept
<1>3. QED
  BY <1>1, <1>2 DEF ConnInv

(* The records of connections and sessions that no step of theirs touches.  *)
LEMMA SameConns ==
    ASSUME BridgeInv, UNCHANGED <<conn, session, connections>>,
           \A c \in Conn : sock'[c].read = sock[c].read \/ conn[c].state = "connected"
    PROVE  \A c \in Conn : SameConn(c)
BY PullStates DEF SameConn

(* A step of one loop that leaves its functors and its duties alone, but    *)
(* for those of handing on and counting.                                    *)
LEMMA QuietLoopKeeps ==
    ASSUME BridgeInv, NEW l \in Loop, OtherLoops({l}),
           UNCHANGED <<sock, conn, session, connections, backlog, up>>,
           counter_port' \in Nat,
           Queue(l)' = Queue(l), AtHome(l)',
           Orderly(l)', ReadyIsConnected(l)',
           loop[l].duty \notin {"join", "remove"},
           loop'[l].duty \notin {"join", "remove"},
           \A c \in Conn : Ready("accept", c) \in loop'[Base].active =>
               Ready("accept", c) \in loop[Base].active \/ (backlog # <<>> /\ Head(backlog) = c),
           WakeupInv'
    PROVE  BridgeInv'
<1>1. \A m \in Loop \ {l} : Orderly(m)' /\ Queue(m)' = Queue(m) /\ AtHome(m)'
  BY OrderlyKept DEF OtherLoops, BridgeInv, LoopInv, TypeOK, AtHome
<1>2. \A m \in Loop \ {l} : ReadyIsConnected(m)'
  BY ReadyKept DEF OtherLoops
<1>3. \A c \in Conn : Closing(c)' <=> Closing(c)
  BY LoopNumbers DEF Closing, OtherLoops
<1>4. SendsInv' /\ ConnInv'
  <2>1. \A c \in Conn : SameConn(c)
    BY SameConns
  <2>2. \A m \in Loop : Queue(m)' = Queue(m)
    BY <1>1
  <2>3. conn' \in [Conn -> ConnState]
    BY DEF BridgeInv, TypeOK
  <2>4. QED
    BY <1>3, <2>1, <2>2, <2>3, QuietKeeps DEF OtherLoops
<1>5. TypeOK'
  BY <1>1 DEF BridgeInv, TypeOK, OtherLoops
<1>6. BacklogInv'
  BY DEF BridgeInv, BacklogInv
<1>7. SessionInv' /\ SocketInv'
  <2>1. SocketInv'
    BY SocketKept DEF Sent
  <2>2. QED
    BY <2>1, SessionKept
<1>8. QED
  BY <1>1, <1>2, <1>4, <1>5, <1>6, <1>7 DEF BridgeInv, LoopInv

LEMMA PollKeeps ==
    ASSUME BridgeInv, NEW l \in Loop, Poll(l)
    PROVE  BridgeInv'
<1>1. /\ OtherLoops({l})
      /\ LoopIs(l, "events", loop[l].duty, loop[l].conn, ReadyChannels(l),
                loop[l].pending, loop[l].running, loop[l].wakeup)
  BY PollEffect
<1>2. /\ UNCHANGED <<sock, conn, session, connections, backlog, counter_port, up>>
      /\ loop[l].at = "poll"
  BY DEF Poll, At
<1>3. Queue(l)' = Queue(l)
  BY <1>1, QueueKept DEF LoopIs, BridgeInv
<1>4. AtHome(l)'
  BY <1>1, ReadyAtHome DEF LoopIs, BridgeInv, TypeOK, AtHome
<1>5. Orderly(l) /\ loop[l].duty = "none"
  BY <1>2 DEF BridgeInv, LoopInv, Orderly
<1>6. Orderly(l)'
  BY <1>1, <1>2, <1>3, <1>5 DEF LoopIs, Orderly
<1>7. ASSUME NEW c \in Conn, NEW event \in {"read", "write"}, Ready(event, c) \in ReadyChannels(l)
      PROVE  conn[c].state = "connected"
  <2>1. event # "wakeup" /\ event # "accept"
    OBVIOUS
  <2>2. conn[c].reading \/ conn[c].writing
    BY <1>7, <2>1, ChannelForms DEF ReadyChannels
  <2>3. Stage(c)
    BY DEF BridgeInv, ConnInv
  <2>4. QED
    BY <2>2, <2>3 DEF Stage, Fresh
<1>8. ReadyIsConnected(l)'
  BY <1>1, <1>2, <1>5, <1>7 DEF LoopIs, ReadyIsConnected
<1>9. ASSUME NEW c \in Conn, Ready("accept", c) \in loop'[Base].active
      PROVE  Ready("accept", c) \in loop[Base].active \/ (backlog # <<>> /\ Head(backlog) = c)
  <2>1. CASE l = Base
    <3>1. Ready("accept", c) \in ReadyChannels(l)
      BY <1>1, <1>9, <2>1 DEF LoopIs
    <3>2. QED
      BY <3>1, ChannelForms DEF ReadyChannels
  <2>2. CASE l # Base
    BY <1>1, <1>9, <2>2, LoopNumbers DEF OtherLoops
  <2>3. QED
    BY <2>1, <2>2
<1>10. WakeupInv'
  BY <1>1, <1>2, <1>5, WakeupKept DEF LoopIs, OtherLoops
<1>11. counter_port' \in Nat
  BY <1>2 DEF BridgeInv, TypeOK
<1>12. QED
  BY <1>1, <1>2, <1>3, <1>4, <1>5, <1>6, <1>8, <1>9, <1>10, <1>11, QuietLoopKeeps DEF LoopIs

LEMMA HandleWakeupKeeps ==
    ASSUME BridgeInv, NEW l \in Loop, HandleWakeup(l)
    PROVE  BridgeInv'
<1>1. /\ OtherLoops({l})
      /\ LoopIs(l, loop[l].at, loop[l].duty, loop[l].conn,
                loop[l].active \ {Ready("wakeup", NoConn)},
                loop[l].pending, loop[l].running, FALSE)
  BY HandleWakeupEffect
<1>2. /\ UNCHANGED <<sock, conn, session, connections, backlog, counter_port, up>>
      /\ loop[l].at = "events" /\ loop[l].duty = "none"
  BY DEF HandleWakeup, Handles, At, Duty
<1>3. Queue(l)' = Queue(l)
  BY <1>1, QueueKept DEF LoopIs, BridgeInv
<1>4. AtHome(l)'
  BY <1>1 DEF LoopIs, BridgeInv, TypeOK, AtHome
<1>5. Orderly(l)'
  BY <1>1, <1>2, <1>3 DEF LoopIs, Orderly, BridgeInv, LoopInv
<1>6. ReadyIsConnected(l)'
  BY <1>1, <1>2, ReadyKept DEF LoopIs
<1>7. \A c \in Conn : Ready("accept", c) \in loop'[Base].active =>
                          Ready("accept", c) \in loop[Base].active
  BY <1>1, LoopNumbers DEF LoopIs, OtherLoops
<1>8. WakeupInv'
  BY <1>1, <1>2, WakeupKept DEF LoopIs, OtherLoops
<1>9. counter_port' \in Nat
  BY <1>2 DEF BridgeInv, TypeOK
<1>10. QED
  BY <1>1, <1>2, <1>3, <1>4, <1>5, <1>6, <1>7, <1>8, <1>9, QuietLoopKeeps DEF LoopIs

(* The functors and channels that a loop takes up.                          *)

LEMMA SwapFunctorsKeeps ==
    ASSUME BridgeInv, NEW l \in Loop, SwapFunctors(l)
    PROVE  BridgeInv'
<1>1. /\ OtherLoops({l})
      /\ LoopIs(l, "functors", loop[l].duty, loop[l].conn, loop[l].active,
                <<>>, loop[l].pending, loop[l].wakeup)
  BY SwapFunctorsEffect
<1>2. /\ UNCHANGED <<sock, conn, session, connections, backlog, counter_port, up>>
      /\ loop[l].at = "events" /\ loop[l].duty = "none" /\ loop[l].active = {}
  BY DEF SwapFunctors, At, Duty
<1>3. Queue(l)' = Queue(l)
  <2>1. loop[l].running = <<>>
    BY <1>2 DEF BridgeInv, LoopInv, Orderly
  <2>2. QED
    BY <1>1, <2>1, QueueKept DEF LoopIs, BridgeInv
<1>4. AtHome(l)'
  <2>1. <<>> \in Seq(FunctorsOf(l))
    OBVIOUS
  <2>2. QED
    BY <1>1, <2>1 DEF LoopIs, BridgeInv, TypeOK, AtHome
<1>5. Orderly(l)'
  BY <1>1, <1>2, <1>3 DEF LoopIs, Orderly, BridgeInv, LoopInv
<1>6. ReadyIsConnected(l)'
  BY <1>1, <1>2, ReadyKept DEF LoopIs
<1>7. \A c \in Conn : Ready("accept", c) \in loop'[Base].active =>
                          Ready("accept", c) \in loop[Base].active
  BY <1>1, LoopNumbers DEF LoopIs, OtherLoops
<1>8. WakeupInv'
  BY <1>1, <1>2, WakeupKept DEF LoopIs, OtherLoops
<1>9. counter_port' \in Nat
  BY <1>2 DEF BridgeInv, TypeOK
<1>10. QED
  BY <1>1, <1>2, <1>3, <1>4, <1>5, <1>6, <1>7, <1>8, <1>9, QuietLoopKeeps DEF LoopIs

(* A step that changes no more of its loop than what its thread is at.      *)
LEMMA SmallStepKeeps ==
    ASSUME BridgeInv, NEW l \in Loop, OtherLoops({l}),
           UNCHANGED <<sock, conn, session, connections, backlog, up>>,
           counter_port' \in Nat,
           NEW at, NEW duty, NEW c,
           LoopIs(l, at, duty, c, loop[l].active, loop[l].pending,
                  loop[l].running, loop[l].wakeup),
           \/ at = loop[l].at
           \/ at = "poll" /\ loop[l].at = "functors" /\ loop[l].running = <<>>,
           loop[l].duty \in {"none", "test", "store"}, duty \in {"none", "store"},
           at = "poll" => duty = "none"
    PROVE  BridgeInv'
<1>1. Queue(l)' = Queue(l)
  BY QueueKept DEF LoopIs, BridgeInv
<1>2. AtHome(l)'
  BY DEF LoopIs, BridgeInv, TypeOK, AtHome
<1>3. Orderly(l)'
  BY <1>1 DEF LoopIs, Orderly, BridgeInv, LoopInv
<1>4. ReadyIsConnected(l)'
  BY ReadyKept DEF LoopIs
<1>5. \A d \in Conn : Ready("accept", d) \in loop'[Base].active =>
                          Ready("accept", d) \in loop[Base].active
  BY LoopNumbers DEF LoopIs, OtherLoops
<1>6. WakeupInv'
  BY WakeupKept DEF LoopIs, OtherLoops
<1>7. QED
  BY <1>1, <1>2, <1>3, <1>4, <1>5, <1>6, QuietLoopKeeps DEF LoopIs

LEMMA FunctorsDoneKeeps ==
    ASSUME BridgeInv, NEW l \in Loop, FunctorsDone(l)
    PROVE  BridgeInv'
<1>1. /\ OtherLoops({l})
      /\ LoopIs(l, "poll", loop[l].duty, loop[l].conn, loop[l].active,
                loop[l].pending, loop[l].running, loop[l].wakeup)
  BY FunctorsDoneEffect
<1>2. /\ UNCHANGED <<sock, conn, session, connections, backlog, counter_port, up>>
      /\ loop[l].at = "functors" /\ loop[l].duty = "none" /\ loop[l].running = <<>>
  BY DEF FunctorsDone, At, Duty
<1>3. counter_port' \in Nat
  BY <1>2 DEF BridgeInv, TypeOK
<1>4. QED
  BY <1>1, <1>2, <1>3, SmallStepKeeps

LEMMA TestCounterKeeps ==
    ASSUME BridgeInv, NEW l \in Loop, TestCounter(l)
    PROVE  BridgeInv'
<1> DEFINE duty == IF counter_port > LastId THEN "store" ELSE "none"
<1>1. /\ OtherLoops({l})
      /\ LoopIs(l, loop[l].at, duty, NoConn, loop[l].active,
                loop[l].pending, loop[l].running, loop[l].wakeup)
  BY TestCounterEffect
<1>2. /\ UNCHANGED <<sock, conn, session, connections, backlog, counter_port, up>>
      /\ loop[l].duty = "test"
  BY DEF TestCounter, Duty
<1>3. counter_port' \in Nat
  BY <1>2 DEF BridgeInv, TypeOK
<1>4. loop[l].at # "poll"
  BY <1>2 DEF BridgeInv, LoopInv, Orderly
<1>5. duty \in {"none", "store"}
  OBVIOUS
<1> HIDE DEF duty
<1>6. QED
  BY <1>1, <1>2, <1>3, <1>4, <1>5, SmallStepKeeps

LEMMA StoreCounterKeeps ==
    ASSUME BridgeInv, NEW l \in Loop, StoreCounter(l)
    PROVE  BridgeInv'
<1>1. /\ OtherLoops({l})
      /\ LoopIs(l, loop[l].at, "none", loop[l].conn, loop[l].active,
                loop[l].pending, loop[l].running, loop[l].wakeup)
  BY StoreCounterEffect
<1>2. /\ UNCHANGED <<sock, conn, session, connections, backlog, up>>
      /\ loop[l].duty = "store" /\ counter_port' = FirstId
  BY DEF StoreCounter, Duty
<1>3. counter_port' \in Nat
  BY <1>2, BridgeAssumption
<1>4. QED
  BY <1>1, <1>2, <1>3, SmallStepKeeps

(* Wake-ups, and the callbacks of a channel that is connected.              *)

(* Steps of two loops, or of a loop and a connection.                       *)
LEMMA QueuesKept ==
    ASSUME BridgeInv, NEW ls, OtherLoops(ls),
           \A l \in Loop \cap ls :
               loop'[l].pending = loop[l].pending /\ loop'[l].running = loop[l].running
    PROVE  \A l \in Loop : Queue(l)' = Queue(l)
BY QueueKept DEF BridgeInv, OtherLoops, Queue

LEMMA WakeupKeeps ==
    ASSUME BridgeInv, NEW l \in Loop, Wakeup(l)
    PROVE  BridgeInv'
<1> DEFINE k == Woken(l, loop[l].conn)
<1>1. /\ OtherLoops({k, l}) /\ k \in Loop /\ k # l
      /\ LoopIs(k, loop[k].at, loop[k].duty, loop[k].conn, loop[k].active,
                loop[k].pending, loop[k].running, TRUE)
      /\ LoopIs(l, loop[l].at, "none", NoConn, loop[l].active,
                loop[l].pending, loop[l].running, loop[l].wakeup)
  BY WakeupEffect
<1>2. /\ UNCHANGED <<sock, conn, session, connections, backlog, counter_port, up>>
      /\ loop[l].duty = "wakeup" /\ k = Woken(l, loop[l].conn)
  BY DEF Wakeup, Duty
<1> HIDE DEF k
<1>3. \A m \in Loop :
         /\ loop'[m].at = loop[m].at /\ loop'[m].active = loop[m].active
         /\ loop'[m].pending = loop[m].pending /\ loop'[m].running = loop[m].running
         /\ loop[m].wakeup => loop'[m].wakeup
         /\ m # l => loop'[m].duty = loop[m].duty /\ loop'[m].conn = loop[m].conn
  BY <1>1 DEF OtherLoops, LoopIs
<1>4. loop'[l].duty = "none" /\ loop'[k].wakeup
  BY <1>1 DEF LoopIs
<1>5. \A m \in Loop : Queue(m)' = Queue(m)
  BY <1>1, <1>3, QueuesKept
<1>6. \A m \in Loop : AtHome(m)' /\ Orderly(m)'
  BY <1>3, <1>4, <1>5 DEF BridgeInv, TypeOK, AtHome, LoopInv, Orderly
<1>7. \A m \in Loop : ReadyIsConnected(m)'
  BY <1>2, <1>3, <1>4, ReadyKept
<1>8. SendsInv' /\ ConnInv'
  <2>1. \A c \in Conn : SameConn(c)
    BY <1>2, SameConns
  <2>2. \A c \in Conn : Closing(c)' <=> Closing(c)
    BY <1>2, <1>3, <1>4, LoopNumbers DEF Closing
  <2>3. conn' \in [Conn -> ConnState] /\ loop' \in [Loop -> LoopState]
    BY <1>1, <1>2 DEF BridgeInv, TypeOK, OtherLoops
  <2>4. QED
    BY <1>2, <1>5, <2>1, <2>2, <2>3, QuietKeeps
<1>9. BacklogInv' /\ SessionInv' /\ SocketInv'
  <2>1. SocketInv' /\ SessionInv'
    BY <1>2, SocketKept, SessionKept DEF Sent
  <2>2. BacklogInv'
    BY <1>2, <1>3, LoopNumbers, BacklogKept
  <2>3. QED
    BY <2>1, <2>2
<1>10. ASSUME NEW m \in Loop, Noticed(m)
       PROVE  Noticed(m)'
  <2>1. CASE \E j \in Loop : loop[j].duty = "wakeup" /\ Woken(j, loop[j].conn) = m /\ j # l
    BY <1>3, <2>1 DEF Noticed, Woken
  <2>2. CASE m = k
    BY <1>4, <2>2 DEF Noticed
  <2>3. CASE loop[m].wakeup \/ \E c \in Conn : session[c].pull = "wakeup" /\ LoopOf(c) = m
    BY <1>2, <1>3, <2>3 DEF Noticed
  <2>4. QED
    BY <1>2, <1>10, <2>1, <2>2, <2>3 DEF Noticed
<1>11. WakeupInv'
  BY <1>3, <1>10 DEF BridgeInv, WakeupInv
<1>12. TypeOK'
  BY <1>1, <1>2, <1>6 DEF BridgeInv, TypeOK, OtherLoops
<1>13. QED
  BY <1>6, <1>7, <1>8, <1>9, <1>11, <1>12 DEF BridgeInv, LoopInv

LEMMA SendWakeupKeeps ==
    ASSUME BridgeInv, NEW c \in Conn, SendWakeup(c)
    PROVE  BridgeInv'
<1> DEFINE k == LoopOf(c)
<1>1. /\ OtherLoops({k}) /\ k \in Loop
      /\ LoopIs(k, loop[k].at, loop[k].duty, loop[k].conn, loop[k].active,
                loop[k].pending, loop[k].running, TRUE)
  BY SendWakeupEffect
<1>2. /\ UNCHANGED <<sock, conn, connections, backlog, counter_port, up>>
      /\ session[c].pull = "wakeup"
  BY DEF SendWakeup, PullAt
<1>3. OtherSessions({c}) /\ session'[c].pull = "poll"
  BY SendWakeupSession DEF SessionIs
<1>4. \A m \in Loop :
         /\ loop'[m].at = loop[m].at /\ loop'[m].active = loop[m].active
         /\ loop'[m].pending = loop[m].pending /\ loop'[m].running = loop[m].running
         /\ loop'[m].duty = loop[m].duty /\ loop'[m].conn = loop[m].conn
         /\ loop[m].wakeup => loop'[m].wakeup
         /\ m = LoopOf(c) => loop'[m].wakeup
  BY <1>1 DEF OtherLoops, LoopIs
<1> HIDE DEF k
<1>5. \A m \in Loop : Queue(m)' = Queue(m)
  BY <1>1, <1>4, QueuesKept
<1>6. \A m \in Loop : AtHome(m)' /\ Orderly(m)'
  BY <1>4, <1>5 DEF BridgeInv, TypeOK, AtHome, LoopInv, Orderly
<1>7. \A m \in Loop : ReadyIsConnected(m)'
  BY <1>2, <1>4, ReadyKept
<1>8. SendsInv' /\ ConnInv'
  <2>1. \A d \in Conn : SameConn(d)
    BY <1>2, <1>3, PullStates DEF SameConn, OtherSessions
  <2>2. \A d \in Conn : Closing(d)' <=> Closing(d)
    BY <1>4, LoopNumbers DEF Closing
  <2>3. conn' \in [Conn -> ConnState] /\ loop' \in [Loop -> LoopState]
    BY <1>1, <1>2 DEF BridgeInv, TypeOK, OtherLoops
  <2>4. QED
    BY <1>2, <1>5, <2>1, <2>2, <2>3, QuietKeeps
<1>9. BacklogInv' /\ SessionInv' /\ SocketInv'
  <2>1. SocketInv'
    BY <1>2, SocketKept DEF Sent
  <2>2. BacklogInv'
    BY <1>2, <1>4, LoopNumbers, BacklogKept
  <2>3. SessionInv'
    BY <1>3 DEF BridgeInv, SessionInv, OtherSessions
  <2>4. QED
    BY <2>1, <2>2, <2>3
<1>10. ASSUME NEW m \in Loop, Noticed(m)
       PROVE  Noticed(m)'
  <2>1. CASE m = LoopOf(c)
    BY <1>4, <2>1 DEF Noticed
  <2>2. CASE m # LoopOf(c)
    BY <1>3, <1>4, <1>10, <2>2 DEF Noticed, OtherSessions, Woken
  <2>3. QED
    BY <2>1, <2>2
<1>11. WakeupInv'
  BY <1>4, <1>10 DEF BridgeInv, WakeupInv
<1>12. TypeOK'
  BY <1>1, <1>2, <1>3, <1>6 DEF BridgeInv, TypeOK, OtherLoops, OtherSessions
<1>13. QED
  BY <1>6, <1>7, <1>8, <1>9, <1>11, <1>12 DEF BridgeInv, LoopInv

(* A channel that is ready is that of a connection of the loop, connected.  *)
LEMMA HandlesConnected ==
    ASSUME BridgeInv, NEW l \in Loop, NEW c \in Conn, NEW event \in {"read", "write"},
           Handles(l, event, c)
    PROVE  /\ LoopOf(c) = l /\ conn[c].state = "connected"
           /\ loop[l].at = "events" /\ loop[l].duty = "none"
<1>1. Ready(event, c) \in loop[l].active /\ loop[l].at = "events" /\ loop[l].duty = "none"
  BY DEF Handles, At, Duty
<1>2. loop[l].active \subseteq ChannelsOf(l)
  BY DEF BridgeInv, TypeOK, AtHome
<1>3. Ready("read", c) \in ChannelsOf(l) \/ Ready("write", c) \in ChannelsOf(l)
  BY <1>1, <1>2
<1>4. LoopOf(c) = l
  BY ONLY <1>3, ChannelsAtHome, l \in Loop, c \in Conn
<1>5. conn[c].state = "connected"
  BY <1>1 DEF BridgeInv, LoopInv, ReadyIsConnected
<1>6. QED
  BY <1>1, <1>4, <1>5

(* A step of one loop for one of its connections, which stays connected.    *)
LEMMA ServeKeeps ==
    ASSUME BridgeInv, NEW l \in Loop, NEW c \in Conn, OtherLoops({l}),
           conn[c].state = "connected",
           UNCHANGED <<session, connections, backlog, counter_port>>, up' \in BOOLEAN,
           loop'[l].at = loop[l].at, loop[l].at # "poll",
           loop'[l].active \subseteq loop[l].active,
           loop'[l].pending = loop[l].pending, loop'[l].running = loop[l].running,
           loop'[l].wakeup = loop[l].wakeup,
           loop[l].duty \in {"none", "write"},
           loop'[l].duty \in {"none", "write"},
           loop'[l].duty = "write" => loop'[l].conn = c /\ LoopOf(c) = l,
           OtherConns({c}), OtherSocks({c}),
           /\ conn'[c].state = "connected" /\ conn'[c].reading = conn[c].reading
           /\ conn'[c].added = conn[c].added,
           Sent(c)' = Sent(c), sock'[c].client = "none" => sock[c].client = "none"
    PROVE  BridgeInv'
<1>1. \A m \in Loop : Queue(m)' = Queue(m)
  BY QueuesKept
<1>2. \A d \in Conn : conn'[d].state = conn[d].state
  BY DEF OtherConns
<1>3. \A m \in Loop : AtHome(m)' /\ Orderly(m)'
  <2>1. AtHome(l)' /\ Orderly(l)'
    BY <1>1 DEF BridgeInv, TypeOK, AtHome, LoopInv, Orderly
  <2>2. \A m \in Loop \ {l} : AtHome(m)' /\ Orderly(m)'
    BY OrderlyKept DEF BridgeInv, TypeOK, AtHome, LoopInv, OtherLoops
  <2>3. QED
    BY <2>1, <2>2
<1>4. \A m \in Loop : ReadyIsConnected(m)'
  <2>1. ReadyIsConnected(l)'
    BY <1>2 DEF BridgeInv, LoopInv, ReadyIsConnected
  <2>2. \A m \in Loop \ {l} : ReadyIsConnected(m)'
    BY <1>2, ReadyKept DEF OtherLoops
  <2>3. QED
    BY <2>1, <2>2
<1>5. SendsInv' /\ ConnInv'
  <2>1. \A d \in Conn : SameConn(d)
    BY PullStates DEF SameConn, OtherConns, OtherSocks
  <2>2. \A d \in Conn : Closing(d)' <=> Closing(d)
    BY LoopNumbers DEF Closing, OtherLoops
  <2>3. conn' \in [Conn -> ConnState] /\ loop' \in [Loop -> LoopState]
    BY DEF OtherLoops, OtherConns
  <2>4. QED
    BY <1>1, <2>1, <2>2, <2>3, QuietKeeps
<1>6. BacklogInv' /\ SessionInv' /\ SocketInv'
  <2>1. \A d \in Conn : sock[d].client # "none" => sock'[d].client # "none"
    BY DEF OtherSocks
  <2>2. \A d \in Conn : Sent(d)' = Sent(d)
    BY DEF OtherSocks, Sent
  <2>3. \A d \in Conn : Ready("accept", d) \in loop'[Base].active =>
                            Ready("accept", d) \in loop[Base].active
    BY LoopNumbers DEF OtherLoops
  <2>4. QED
    BY <1>2, <2>1, <2>2, <2>3, BacklogKept, SessionKept, SocketKept
<1>7. WakeupInv'
  BY WakeupKept DEF OtherLoops
<1>8. TypeOK'
  BY <1>3 DEF BridgeInv, TypeOK, OtherLoops, OtherConns, OtherSocks
<1>9. QED
  BY <1>3, <1>4, <1>5, <1>6, <1>7, <1>8 DEF BridgeInv, LoopInv

LEMMA HandleReadKeeps ==
    ASSUME BridgeInv, NEW l \in Loop, NEW c \in Conn, HandleRead(l, c)
    PROVE  BridgeInv'
<1> DEFINE x == loop[l].active \ {Ready("read", c), Ready("write", c)}
<1>1. /\ OtherLoops({l})
      /\ LoopIs(l, loop[l].at, IF AlsoWrites(l, c) THEN "write" ELSE "none",
                IF AlsoWrites(l, c) THEN c ELSE NoConn, x, loop[l].pending,
                loop[l].running, loop[l].wakeup)
  BY HandleReadEffect
<1>2. /\ OtherSocks({c})
      /\ SockIs(c, sock[c].client, 0, sock[c].read + sock[c].arrived, sock[c].out)
  BY HandleReadSock
<1>3. UNCHANGED <<conn, session, connections, backlog, counter_port, up>> /\ Handles(l, "read", c)
  BY DEF HandleRead
<1>4. /\ LoopOf(c) = l /\ conn[c].state = "connected"
      /\ loop[l].at = "events" /\ loop[l].duty = "none"
  BY <1>3, HandlesConnected
<1>5. /\ loop'[l].at = loop[l].at /\ loop'[l].active \subseteq loop[l].active
      /\ loop'[l].pending = loop[l].pending /\ loop'[l].running = loop[l].running
      /\ loop'[l].wakeup = loop[l].wakeup
      /\ loop'[l].duty \in {"none", "write"}
      /\ loop'[l].duty = "write" => loop'[l].conn = c
  BY <1>1 DEF LoopIs
<1>6. Sent(c)' = Sent(c) /\ sock'[c].client = sock[c].client
  <2>1. sock[c].arrived \in Nat /\ sock[c].read \in Nat
    BY SocketTypes
  <2>2. 0 + (sock[c].read + sock[c].arrived) = sock[c].arrived + sock[c].read
    BY <2>1
  <2>3. QED
    BY <1>2, <2>2 DEF SockIs, Sent
<1>7. OtherConns({c}) /\ up' \in BOOLEAN
  BY <1>3 DEF OtherConns, BridgeInv, TypeOK
<1>8. QED
  BY <1>1, <1>2, <1>3, <1>4, <1>5, <1>6, <1>7, ServeKeeps

(* The write callback, for a connection whose loop is at it.                *)
LEMMA WriteTurnConnected ==
    ASSUME BridgeInv, NEW l \in Loop, NEW c \in Conn, WriteTurn(l, c)
    PROVE  /\ LoopOf(c) = l /\ conn[c].state = "connected"
           /\ loop[l].at # "poll" /\ loop[l].duty \in {"none", "write"} /\ up
<1>1. CASE Handles(l, "write", c)
  BY <1>1, HandlesConnected DEF Handles, At
<1>2. CASE Duty(l, "write") /\ loop[l].conn = c
  BY <1>2 DEF Duty, BridgeInv, LoopInv, Orderly, ReadyIsConnected
<1>3. QED
  BY <1>1, <1>2 DEF WriteTurn

LEMMA HandleWriteKeeps ==
    ASSUME BridgeInv, NEW l \in Loop, NEW c \in Conn, HandleWrite(l, c)
    PROVE  BridgeInv'
<1>1. /\ OtherLoops({l})
      /\ LoopIs(l, loop[l].at, "none", NoConn, loop[l].active \ {Ready("write", c)},
                loop[l].pending, loop[l].running, loop[l].wakeup)
  BY HandleWriteEffect
<1>2. UNCHANGED <<session, connections, backlog, counter_port>> /\ WriteTurn(l, c)
  BY DEF HandleWrite
<1>3. /\ LoopOf(c) = l /\ conn[c].state = "connected"
      /\ loop[l].at # "poll" /\ loop[l].duty \in {"none", "write"} /\ up
  BY <1>2, WriteTurnConnected
<1>4. /\ loop'[l].at = loop[l].at /\ loop'[l].active \subseteq loop[l].active
      /\ loop'[l].pending = loop[l].pending /\ loop'[l].running = loop[l].running
      /\ loop'[l].wakeup = loop[l].wakeup /\ loop'[l].duty = "none"
  BY <1>1 DEF LoopIs
<1>5. conn[c] \in ConnState /\ sock \in [Conn -> SocketState] /\ conn \in [Conn -> ConnState] /\ up \in BOOLEAN
  BY DEF BridgeInv, TypeOK
<1>6. conn[c].outputBuffer \in Seq(Piece)
  BY <1>5 DEF ConnState
<1>7. PICK n \in 1..Len(conn[c].outputBuffer) : Write(c, conn[c].outputBuffer, n)
  BY DEF HandleWrite
<1>8. n \in 0..Len(conn[c].outputBuffer)
  BY <1>6
<1>9. /\ OtherConns({c}) /\ OtherSocks({c}) /\ up' \in BOOLEAN
      /\ conn'[c].state = conn[c].state /\ conn'[c].reading = conn[c].reading
      /\ conn'[c].added = conn[c].added /\ Sent(c)' = Sent(c)
      /\ sock'[c].client = "none" => sock[c].client = "none"
  BY <1>5, <1>6, <1>7, <1>8, WriteEffect, ZenonT(60)
     DEF OtherConns, OtherSocks, ConnIs, SockIs, AfterWrite, Sent
<1>10. QED
  BY <1>1, <1>2, <1>3, <1>4, <1>9, ServeKeeps

(* Connections on their way: functors are queued and run.                   *)

LEMMA AppendedCalls ==
    ASSUME BridgeInv, NEW l \in Loop, NEW f \in FunctorsOf(l),
           loop'[l].pending = Append(loop[l].pending, f),
           loop'[l].running = loop[l].running
    PROVE  /\ loop'[l].pending \in Seq(FunctorsOf(l)) /\ loop'[l].running \in Seq(FunctorsOf(l))
           /\ Queue(l)' = Append(Queue(l), f)
           /\ \A g : Has(l, g)' <=> Has(l, g) \/ g = f
           /\ (f.run # "send" => ~Has(l, f)) => OnceEach(Queue(l)')
<1>1. TypeOK /\ OnceEach(Queue(l))
  BY DEF BridgeInv, LoopInv, Orderly
<1>2. /\ loop[l].pending \in Seq(FunctorsOf(l)) /\ loop[l].running \in Seq(FunctorsOf(l))
      /\ Queue(l) \in Seq(FunctorsOf(l))
  BY <1>1, QueueType
<1>3. Queue(l)' = Append(Queue(l), f)
  BY <1>1, QueueAppended
<1>4. /\ \A g : In(Append(Queue(l), f), g) <=> In(Queue(l), g) \/ g = f
      /\ (f.run # "send" => ~In(Queue(l), f)) => OnceEach(Append(Queue(l), f))
  BY ONLY <1>1, <1>2, f \in FunctorsOf(l), AppendedTo
<1>5. loop'[l].pending \in Seq(FunctorsOf(l)) /\ loop'[l].running \in Seq(FunctorsOf(l))
  BY <1>2
<1>6. QED
  BY <1>3, <1>4, <1>5 DEF Has

LEMMA RanCalls ==
    ASSUME BridgeInv, NEW l \in Loop, loop[l].running # <<>>,
           loop'[l].pending = loop[l].pending,
           loop'[l].running = Tail(loop[l].running)
    PROVE  LET h == Head(loop[l].running) IN
           /\ loop'[l].pending \in Seq(FunctorsOf(l)) /\ loop'[l].running \in Seq(FunctorsOf(l))
           /\ Queue(l) # <<>> /\ h = Head(Queue(l)) /\ Queue(l)' = Tail(Queue(l))
           /\ \A g : Has(l, g)' => Has(l, g)
           /\ \A g : g # h => (Has(l, g)' <=> Has(l, g))
           /\ h.run # "send" => ~In(Queue(l)', h)
           /\ OnceEach(Queue(l)')
<1> DEFINE h == Head(loop[l].running)
<1>1. TypeOK /\ OnceEach(Queue(l))
  BY DEF BridgeInv, LoopInv, Orderly
<1>2. /\ loop[l].pending \in Seq(FunctorsOf(l)) /\ loop[l].running \in Seq(FunctorsOf(l))
      /\ Queue(l) \in Seq(FunctorsOf(l))
  BY <1>1, QueueType
<1>3. Queue(l) # <<>> /\ Head(Queue(l)) = h /\ Queue(l)' = Tail(Queue(l))
  BY <1>1, QueueRan
<1>4. loop'[l].pending \in Seq(FunctorsOf(l)) /\ loop'[l].running \in Seq(FunctorsOf(l))
  BY <1>2, RunFirst
<1> HIDE DEF h
<1>5. /\ \A g : In(Tail(Queue(l)), g) => In(Queue(l), g)
      /\ \A g : g # h => (In(Tail(Queue(l)), g) <=> In(Queue(l), g))
      /\ OnceEach(Tail(Queue(l)))
      /\ h.run # "send" => ~In(Tail(Queue(l)), h)
  BY ONLY <1>1, <1>2, <1>3, RunFirst
<1>6. QED
  BY <1>3, <1>4, <1>5 DEF Has, h

(* A connection that a step of others leaves alone.                         *)
LEMMA ElsewhereKept ==
    ASSUME BridgeInv, NEW c \in Conn,
           \A f : f.conn = c => (Has(LoopOf(c), f)' <=> Has(LoopOf(c), f)),
           \A f : f.conn = c => (Has(Base, f)' <=> Has(Base, f)),
           Closing(c)' <=> Closing(c),
           conn'[c] = conn[c], sock'[c].read = sock[c].read, session'[c].pull = session[c].pull,
           c \in connections' <=> c \in connections
    PROVE  Stage(c)'
<1>1. SameCalls(c)
  BY CallFields DEF SameCalls, Establishes, Removed, Destroys
<1>2. SameConn(c)
  BY PullStates DEF SameConn
<1>3. Stage(c)
  BY DEF BridgeInv, ConnInv
<1>4. QED
  BY ONLY <1>1, <1>2, <1>3, c \in Conn, StageKept

LEMMA JoinPullKeeps ==
    ASSUME BridgeInv, NEW l \in Loop, JoinPull(l)
    PROVE  BridgeInv'
<1>1. /\ OtherLoops({l})
      /\ LoopIs(l, loop[l].at, "remove", loop[l].conn, loop[l].active,
                loop[l].pending, loop[l].running, loop[l].wakeup)
  BY JoinPullEffect
<1>2. /\ UNCHANGED <<sock, conn, connections, backlog, counter_port, up>>
      /\ loop[l].duty = "join" /\ loop[l].conn \in Conn
  BY DEF JoinPull, Duty, BridgeInv, LoopInv, Orderly
<1>3. /\ session' \in [Conn -> SessionState]
      /\ \A c \in Conn : session'[c].pull = session[c].pull /\ session'[c].hand = session[c].hand
  BY JoinPullSession DEF OtherSessions, SessionIs
<1>4. \A m \in Loop : Queue(m)' = Queue(m)
  BY <1>1, QueuesKept DEF LoopIs
<1>5. \A m \in Loop : AtHome(m)' /\ Orderly(m)'
  <2>1. AtHome(l)' /\ Orderly(l)'
    BY <1>1, <1>2, <1>4 DEF LoopIs, BridgeInv, TypeOK, AtHome, LoopInv, Orderly
  <2>2. \A m \in Loop \ {l} : AtHome(m)' /\ Orderly(m)'
    BY <1>1, OrderlyKept DEF BridgeInv, TypeOK, AtHome, LoopInv, OtherLoops
  <2>3. QED
    BY <2>1, <2>2
<1>6. \A m \in Loop : ReadyIsConnected(m)'
  BY <1>1, <1>2, ReadyKept DEF OtherLoops, LoopIs
<1>7. SendsInv' /\ ConnInv'
  <2>1. \A c \in Conn : SameConn(c)
    BY <1>2, <1>3, PullStates DEF SameConn
  <2>2. \A c \in Conn : Closing(c)' <=> Closing(c)
    BY <1>1, <1>2, LoopNumbers DEF Closing, OtherLoops, LoopIs
  <2>3. conn' \in [Conn -> ConnState] /\ loop' \in [Loop -> LoopState]
    BY <1>1, <1>2 DEF BridgeInv, TypeOK, OtherLoops
  <2>4. QED
    BY <1>2, <1>4, <2>1, <2>2, <2>3, QuietKeeps
<1>8. BacklogInv' /\ SessionInv' /\ SocketInv'
  <2>1. SocketInv' /\ SessionInv'
    BY <1>2, <1>3, SocketKept, SessionKept DEF Sent
  <2>2. BacklogInv'
    BY <1>1, <1>2, LoopNumbers, BacklogKept DEF OtherLoops, LoopIs
  <2>3. QED
    BY <2>1, <2>2
<1>9. WakeupInv'
  BY <1>1, <1>2, <1>3, WakeupKept DEF OtherLoops, LoopIs
<1>10. TypeOK'
  BY <1>1, <1>2, <1>3, <1>5 DEF BridgeInv, TypeOK, OtherLoops
<1>11. QED
  BY <1>5, <1>6, <1>7, <1>8, <1>9, <1>10 DEF BridgeInv, LoopInv

LEMMA HandleCloseKeeps ==
    ASSUME BridgeInv, NEW l \in Loop, NEW c \in Conn, HandleClose(l, c)
    PROVE  BridgeInv'
<1> DEFINE x == loop[l].active \ {Ready("read", c), Ready("write", c)}
<1>1. /\ OtherLoops({l})
      /\ LoopIs(l, loop[l].at, "join", c, x, loop[l].pending,
                loop[l].running, loop[l].wakeup)
  BY HandleCloseEffect
<1>2. /\ OtherConns({c})
      /\ ConnIs(c, "disconnected", FALSE, FALSE, conn[c].added,
                conn[c].context, conn[c].outputBuffer)
  BY HandleCloseConn
<1>3. UNCHANGED <<sock, session, connections, backlog, counter_port, up>> /\ Handles(l, "read", c)
  BY DEF HandleClose
<1>4. /\ LoopOf(c) = l /\ conn[c].state = "connected"
      /\ loop[l].at = "events" /\ loop[l].duty = "none"
  BY <1>3, HandlesConnected
<1>5. \A m \in Loop : Queue(m)' = Queue(m)
  BY <1>1, QueuesKept DEF LoopIs
<1>6. \A m \in Loop : AtHome(m)' /\ Orderly(m)'
  <2>1. AtHome(l)' /\ Orderly(l)'
    BY <1>1, <1>4, <1>5 DEF LoopIs, BridgeInv, TypeOK, AtHome, LoopInv, Orderly
  <2>2. \A m \in Loop \ {l} : AtHome(m)' /\ Orderly(m)'
    BY <1>1, OrderlyKept DEF BridgeInv, TypeOK, AtHome, LoopInv, OtherLoops
  <2>3. QED
    BY <2>1, <2>2
<1>7. \A m \in Loop : ReadyIsConnected(m)'
  <2>1. \A d \in Conn \ {c} : conn'[d] = conn[d]
    BY <1>2 DEF OtherConns
  <2>2. ReadyIsConnected(l)'
    <3>1. ASSUME NEW d \in Conn, NEW event \in {"read", "write"}, Ready(event, d) \in x
          PROVE  d # c /\ conn[d].state = "connected"
      BY <3>1 DEF BridgeInv, LoopInv, ReadyIsConnected
    <3>2. loop'[l].active = x /\ loop'[l].duty # "write"
      BY <1>1 DEF LoopIs
    <3>3. QED
      BY <2>1, <3>1, <3>2 DEF ReadyIsConnected
  <2>3. ASSUME NEW m \in Loop \ {l}
        PROVE  ReadyIsConnected(m)'
    <3>1. loop'[m] = loop[m] /\ ReadyIsConnected(m) /\ Orderly(m)
      BY <1>1 DEF OtherLoops, BridgeInv, LoopInv
    <3>2. loop[m].active \subseteq ChannelsOf(m)
      BY DEF BridgeInv, TypeOK, AtHome
    <3>3. ASSUME NEW event \in {"read", "write"}, Ready(event, c) \in loop[m].active
          PROVE  FALSE
      <4>1. Ready("read", c) \in ChannelsOf(m) \/ Ready("write", c) \in ChannelsOf(m)
        BY <3>2, <3>3
      <4>2. LoopOf(c) = m
        BY ONLY <4>1, ChannelsAtHome, m \in Loop, c \in Conn
      <4>3. QED
        BY <1>4, <4>2
    <3>4. loop[m].duty = "write" => loop[m].conn # c /\ loop[m].conn \in Conn
      BY <1>4, <3>1 DEF Orderly
    <3>5. QED
      BY <2>1, <3>1, <3>3, <3>4 DEF ReadyIsConnected
  <2>4. QED
    BY <2>2, <2>3
<1>8. SendsInv'
  <2>1. \A m \in Loop : \A f : Has(m, f)' <=> Has(m, f)
    BY <1>5, HasKept
  <2>2. QED
    BY <1>2, <2>1, SendsKept DEF OtherConns, ConnIs
<1>9. ConnInv'
  <2>1. ASSUME NEW d \in Conn
        PROVE  /\ \A f : Has(LoopOf(d), f)' <=> Has(LoopOf(d), f)
               /\ \A f : Has(Base, f)' <=> Has(Base, f)
    BY <1>5, HasKept, LoopNumbers
  <2>2. \A d \in Conn \ {c} : Closing(d)' <=> Closing(d)
    BY <1>1, <1>4, LoopNumbers DEF Closing, OtherLoops, LoopIs
  <2>3. \A d \in Conn \ {c} : Stage(d)'
    BY <1>2, <1>3, <2>1, <2>2, ElsewhereKept DEF OtherConns
  <2>4. Stage(c)'
    <3>1. Stage(c)
      BY DEF BridgeInv, ConnInv
    <3>2. /\ ~Establishes(c)' /\ ~Removed(c)' /\ ~Destroys(c)'
          /\ conn[c].added /\ c \in connections /\ session[c].pull # "none"
      BY <1>4, <2>1, <3>1 DEF Stage, Establishes, Removed, Destroys
    <3>3. QED
      BY <1>2, <1>3, <3>2 DEF Stage, ConnIs
  <2>5. QED
    BY <2>3, <2>4 DEF ConnInv
<1>10. BacklogInv' /\ SessionInv' /\ SocketInv'
  <2>1. \A d \in Conn : conn[d].state = "none" => conn'[d].state = "none"
    BY <1>2, <1>4 DEF OtherConns
  <2>2. SocketInv' /\ SessionInv'
    BY <1>3, <2>1, SocketKept, SessionKept DEF Sent
  <2>3. BacklogInv'
    BY <1>1, <1>3, <2>1, LoopNumbers, BacklogKept DEF OtherLoops, LoopIs
  <2>4. QED
    BY <2>2, <2>3
<1>11. WakeupInv'
  BY <1>1, <1>3, <1>4, WakeupKept DEF OtherLoops, LoopIs
<1>12. TypeOK'
  BY <1>1, <1>2, <1>3, <1>6 DEF BridgeInv, TypeOK, OtherLoops, OtherConns
<1>13. QED
  BY <1>6, <1>7, <1>8, <1>9, <1>10, <1>11, <1>12 DEF BridgeInv, LoopInv

LEMMA AcceptKeeps ==
    ASSUME BridgeInv, NEW c \in Conn, Accept(c)
    PROVE  BridgeInv'
<1> DEFINE k == LoopOf(c)
           f == Call("connectEstablished", c)
           x == Ready("accept", c)
<1>1. /\ OtherLoops({Base, k}) \/ OtherLoops({k, Base})
      /\ k \in Loop /\ Base \in Loop /\ k # Base /\ f \in FunctorsOf(k)
      /\ LoopIs(k, loop[k].at, loop[k].duty, loop[k].conn, loop[k].active,
                Append(loop[k].pending, f), loop[k].running, loop[k].wakeup)
      /\ LoopIs(Base, loop[Base].at, "wakeup", c, loop[Base].active \ {x},
                loop[Base].pending, loop[Base].running, loop[Base].wakeup)
  BY AcceptEffect
<1>2. /\ OtherConns({c})
      /\ ConnIs(c, "connecting", conn[c].reading, conn[c].writing, conn[c].added,
                conn[c].context, conn[c].outputBuffer)
  BY AcceptConn
<1>3. /\ UNCHANGED <<sock, session, counter_port, up>>
      /\ connections' = connections \cup {c} /\ backlog' = Tail(backlog)
      /\ x \in loop[Base].active /\ loop[Base].at = "events" /\ loop[Base].duty = "none"
  BY DEF Accept, NewConnection, Handles, At, Duty
<1>4. f.run = "connectEstablished" /\ f.conn = c
  BY CallFields
<1>5. /\ conn[c].state = "none" /\ Fresh(c) /\ ~Establishes(c) /\ c \notin connections
      /\ backlog # <<>> /\ Head(backlog) = c /\ sock[c].client # "none"
      /\ \A i \in 2..Len(backlog) : backlog[i] # c
  <2>1. backlog # <<>> /\ Head(backlog) = c /\ backlog \in Seq(Conn)
    BY <1>3 DEF BridgeInv, BacklogInv, TypeOK
  <2>2. Len(backlog) \in Nat /\ 1 \in 1..Len(backlog) /\ backlog[1] = c
    BY <2>1
  <2>3. conn[c].state = "none" /\ sock[c].client # "none"
    BY <2>2 DEF BridgeInv, BacklogInv
  <2>4. \A i \in 2..Len(backlog) : backlog[i] # c
    BY <2>2 DEF BridgeInv, BacklogInv
  <2>5. Stage(c)
    BY DEF BridgeInv, ConnInv
  <2>6. Fresh(c) /\ ~Establishes(c) /\ c \notin connections
    BY <2>3, <2>5 DEF Stage
  <2>7. QED
    BY <2>1, <2>3, <2>4, <2>6
<1> HIDE DEF f, x
<1>6. /\ loop'[k].pending \in Seq(FunctorsOf(k)) /\ loop'[k].running \in Seq(FunctorsOf(k))
      /\ \A g : In(Queue(k)', g) <=> Has(k, g) \/ g = f
      /\ OnceEach(Queue(k)')
  <2>1. ~Has(k, f)
    BY <1>5 DEF Establishes, f
  <2>2. loop'[k].pending = Append(loop[k].pending, f) /\ loop'[k].running = loop[k].running
    BY <1>1 DEF LoopIs
  <2>3. QED
    BY <1>1, <2>1, <2>2, AppendedCalls DEF Has
<1>7. \A m \in Loop \ {k} : Queue(m)' = Queue(m)
  BY <1>1, QueueKept DEF OtherLoops, LoopIs, BridgeInv, Queue
<1>8. \A m \in Loop : AtHome(m)' /\ Orderly(m)'
  <2>1. AtHome(k)'
    BY <1>1, <1>6 DEF LoopIs, BridgeInv, TypeOK, AtHome
  <2>2. Orderly(k)'
    BY <1>1, <1>6 DEF LoopIs, BridgeInv, LoopInv, Orderly
  <2>3. AtHome(Base)' /\ Orderly(Base)'
    BY <1>1, <1>3, <1>7 DEF LoopIs, BridgeInv, TypeOK, AtHome, LoopInv, Orderly
  <2>4. \A m \in Loop \ {Base, k} : AtHome(m)' /\ Orderly(m)'
    BY <1>1, OrderlyKept DEF BridgeInv, TypeOK, AtHome, LoopInv, OtherLoops
  <2>5. QED
    BY <2>1, <2>2, <2>3, <2>4
<1>9. \A d \in Conn \ {c} : conn'[d] = conn[d]
  BY <1>2 DEF OtherConns
<1>10. \A m \in Loop : ReadyIsConnected(m)'
  <2>1. \A d \in Conn : conn[d].state = "connected" => conn'[d].state = "connected"
    BY <1>5, <1>9
  <2>2. \A m \in Loop \ {Base} : ReadyIsConnected(m)'
    BY <1>1, <2>1, ReadyKept DEF OtherLoops, LoopIs
  <2>3. ReadyIsConnected(Base)'
    BY <1>1, <2>1, ReadyKept DEF LoopIs
  <2>4. QED
    BY <2>2, <2>3
<1>11. SendsInv'
  <2>1. \A m \in Loop : \A g \in FunctorsOf(m) : g.run = "send" /\ Has(m, g)' => Has(m, g)
    <3>1. \A g : Has(k, g)' => Has(k, g) \/ g = f
      BY <1>6 DEF Has
    <3>2. \A m \in Loop \ {k} : \A g : Has(m, g)' => Has(m, g)
      BY <1>7, HasKept
    <3>3. QED
      BY <1>4, <3>1, <3>2
  <2>2. QED
    BY <1>5, <1>9, <2>1, SendsKept
<1>12. ConnInv'
  <2>1. ASSUME NEW d \in Conn \ {c}
        PROVE  Stage(d)'
    <3>1. \A g : g.conn = d => (Has(LoopOf(d), g)' <=> Has(LoopOf(d), g))
      <4>1. CASE LoopOf(d) = k
        BY <1>4, <1>6, <4>1 DEF Has
      <4>2. CASE LoopOf(d) # k
        BY <1>7, <4>2, HasKept, LoopNumbers
      <4>3. QED
        BY <4>1, <4>2
    <3>2. \A g : g.conn = d => (Has(Base, g)' <=> Has(Base, g))
      BY <1>1, <1>7, HasKept
    <3>3. Closing(d)' <=> Closing(d)
      BY <1>1, LoopNumbers DEF Closing, OtherLoops, LoopIs
    <3>4. conn'[d] = conn[d] /\ (d \in connections' <=> d \in connections)
      BY <1>3, <1>9
    <3>5. QED
      BY <1>3, <3>1, <3>2, <3>3, <3>4, ElsewhereKept
  <2>2. Stage(c)'
    <3>1. Establishes(c)'
      BY <1>6 DEF Establishes, Has, f
    <3>2. ~Destroys(c)'
      <4>1. Call("connectDestroyed", c) # f
        BY <1>4, CallFields
      <4>2. QED
        BY <1>5, <1>6, <4>1 DEF Fresh, Destroys, Has
    <3>3. ~Removed(c)' /\ ~Closing(c)'
      <4>1. ~Removed(c)'
        BY <1>1, <1>5, <1>7, HasKept DEF Fresh, Removed
      <4>2. ~Closing(c)'
        BY <1>1, <1>5 DEF Fresh, Closing, LoopIs
      <4>3. QED
        BY <4>1, <4>2
    <3>4. Fresh(c)'
      BY <1>2, <1>3, <1>5, <3>2, <3>3 DEF Fresh, ConnIs
    <3>5. conn'[c].state = "connecting" /\ c \in connections'
      BY <1>2, <1>3 DEF ConnIs
    <3>6. QED
      BY <3>1, <3>4, <3>5 DEF Stage
  <2>3. QED
    BY <2>1, <2>2 DEF ConnInv
<1>13. BacklogInv'
  <2> DEFINE b == Tail(backlog)
  <2>1. backlog \in Seq(Conn) /\ backlog # <<>>
    BY <1>5 DEF BridgeInv, TypeOK
  <2>2. /\ Len(b) \in Nat /\ Len(backlog) = Len(b) + 1
        /\ \A i \in 1..Len(b) : b[i] = backlog[i + 1] /\ i + 1 \in 2..Len(backlog)
                                /\ b[i] \in Conn
    BY <2>1
  <2> HIDE DEF b
  <2>3. \A i \in 1..Len(b) : i + 1 \in 1..Len(backlog) /\ b[i] # c
    BY <1>5, <2>2
  <2>4. \A i \in 1..Len(b) : conn'[b[i]].state = "none" /\ sock'[b[i]].client # "none"
    BY <1>3, <1>9, <2>2, <2>3 DEF BridgeInv, BacklogInv
  <2>5. \A i, j \in 1..Len(b) : b[i] = b[j] => i = j
    <3> SUFFICES ASSUME NEW i \in 1..Len(b), NEW j \in 1..Len(b), b[i] = b[j]
                 PROVE  i = j
      OBVIOUS
    <3>1. i + 1 = j + 1
      BY <2>2, <2>3 DEF BridgeInv, BacklogInv
    <3>2. QED
      BY <2>2, <3>1
  <2>6. \A d \in Conn : Ready("accept", d) \notin loop'[Base].active
    <3>1. loop'[Base].active = loop[Base].active \ {x}
      BY <1>1 DEF LoopIs
    <3>2. \A d \in Conn : Ready("accept", d) \in loop[Base].active => d = c
      BY <1>5 DEF BridgeInv, BacklogInv
    <3>3. QED
      BY <3>1, <3>2 DEF x
  <2>7. QED
    BY <1>3, <2>4, <2>5, <2>6 DEF BacklogInv, b
<1>14. SocketInv' /\ SessionInv'
  BY <1>3, <1>5, <1>9, SocketKept, SessionKept DEF Sent
<1>15. WakeupInv'
  <2> SUFFICES ASSUME NEW m \in Loop, loop'[m].at # "events", loop'[m].pending # <<>>
               PROVE  Noticed(m)'
    BY DEF WakeupInv
  <2>1. CASE m = k
    <3>1. loop'[Base].duty = "wakeup" /\ Woken(Base, loop'[Base].conn) = k
      BY <1>1 DEF LoopIs, Woken
    <3>2. QED
      BY <1>1, <2>1, <3>1 DEF Noticed, Woken
  <2>2. CASE m # k
    <3>1. Noticed(m)
      BY <1>1, <1>3, <2>2 DEF OtherLoops, LoopIs, BridgeInv, WakeupInv
    <3>2. loop[m].wakeup => loop'[m].wakeup
      BY <1>1, <2>2 DEF OtherLoops, LoopIs
    <3>3. \A n \in Loop : loop[n].duty = "wakeup" =>
             loop'[n].duty = "wakeup" /\ loop'[n].conn = loop[n].conn
      BY <1>1, <1>3 DEF OtherLoops, LoopIs
    <3>4. \A d \in Conn : session[d].pull = "wakeup" => session'[d].pull = "wakeup"
      BY <1>3
    <3>5. QED
      BY ONLY <3>1, <3>2, <3>3, <3>4, NoticedKept
  <2>3. QED
    BY <2>1, <2>2
<1>16. TypeOK'
  <2>1. Tail(backlog) \in Seq(Conn)
    BY <1>5 DEF BridgeInv, TypeOK
  <2>2. QED
    BY <1>1, <1>2, <1>3, <1>8, <2>1 DEF BridgeInv, TypeOK, OtherLoops, OtherConns
<1>17. QED
  BY <1>8, <1>10, <1>11, <1>12, <1>13, <1>14, <1>15, <1>16 DEF BridgeInv, LoopInv

LEMMA PiecesType ==
    ASSUME NEW a \in Answer
    PROVE  Pieces(a) \in Seq(Piece) /\ Len(Pieces(a)) = 2
BY DEF Pieces, Piece

(* What sendInLoop does to the connection and its socket.                   *)
LEMMA SendInLoopConn ==
    ASSUME BridgeInv, NEW l \in Loop, SendInLoop(l)
    PROVE  LET h == Head(loop[l].running)
               c == h.conn
               data == Pieces(h.answer)
           IN
           /\ c \in Conn /\ data \in Seq(Piece) /\ Len(data) = 2
           /\ OtherConns({c}) /\ OtherSocks({c})
           /\ \/ /\ conn[c].state = "disconnected"
                 /\ UNCHANGED <<sock, conn, up>>
              \/ /\ conn[c].state # "disconnected" /\ ~CanWriteDirectly(c)
                 /\ UNCHANGED <<sock, up>>
                 /\ ConnIs(c, conn[c].state, conn[c].reading, TRUE, conn[c].added,
                           conn[c].context, conn[c].outputBuffer \o data)
              \/ /\ conn[c].state # "disconnected" /\ CanWriteDirectly(c)
                 /\ \E n \in 0..Len(data) : Write(c, data, n)
<1> DEFINE h == Head(loop[l].running)
           c == h.conn
           data == Pieces(h.answer)
<1>1. c \in Conn /\ h.answer \in Answer
  BY RunsHead DEF SendInLoop
<1>2. data \in Seq(Piece) /\ Len(data) = 2
  BY <1>1, PiecesType
<1>3. /\ sock \in [Conn -> SocketState] /\ conn \in [Conn -> ConnState]
      /\ conn[c] \in ConnState
  BY <1>1 DEF BridgeInv, TypeOK
<1>4. \/ /\ conn[c].state = "disconnected"
         /\ UNCHANGED <<sock, conn, up>>
      \/ /\ conn[c].state # "disconnected" /\ CanWriteDirectly(c)
         /\ \E n \in 0..Len(data) : Write(c, data, n)
      \/ /\ conn[c].state # "disconnected" /\ ~CanWriteDirectly(c)
         /\ conn' = [conn EXCEPT ![c].outputBuffer = @ \o data, ![c].writing = TRUE]
         /\ UNCHANGED <<sock, up>>
  BY DEF SendInLoop, Enqueue
<1> HIDE DEF h, c, data
<1>5. CASE conn[c].state = "disconnected" /\ UNCHANGED <<sock, conn, up>>
  <2>1. OtherConns({c}) /\ OtherSocks({c})
    BY ONLY <1>3, <1>5 DEF OtherConns, OtherSocks
  <2>2. QED
    BY <1>1, <1>2, <1>5, <2>1 DEF h, c, data
<1>6. CASE /\ conn[c].state # "disconnected" /\ CanWriteDirectly(c)
           /\ \E n \in 0..Len(data) : Write(c, data, n)
  <2>1. OtherConns({c}) /\ OtherSocks({c})
    BY <1>1, <1>2, <1>3, <1>6, WriteEffect DEF OtherConns, OtherSocks
  <2>2. QED
    BY <1>1, <1>2, <1>6, <2>1 DEF h, c, data
<1>7. CASE /\ conn[c].state # "disconnected" /\ ~CanWriteDirectly(c)
           /\ conn' = [conn EXCEPT ![c].outputBuffer = @ \o data, ![c].writing = TRUE]
           /\ UNCHANGED <<sock, up>>
  <2>1. conn'[c] = [conn[c] EXCEPT !.outputBuffer = @ \o data, !.writing = TRUE]
    BY ONLY <1>1, <1>3, <1>7
  <2>2. /\ \A m \in Conn \ {c} : conn'[m] = conn[m]
        /\ conn' = [m \in Conn |-> conn'[m]]
    BY ONLY <1>1, <1>3, <1>7
  <2>3. ConnIs(c, conn[c].state, conn[c].reading, TRUE, conn[c].added,
               conn[c].context, conn[c].outputBuffer \o data)
    BY ONLY <1>3, <2>1 DEF ConnState, ConnIs
  <2>4. conn[c].outputBuffer \o data \in Seq(Piece)
    BY ONLY <1>2, <1>3, ConcatProperties DEF ConnState
  <2>5. conn'[c] \in ConnState
    BY ONLY <1>3, <2>1, <2>4 DEF ConnState
  <2>6. OtherConns({c}) /\ OtherSocks({c})
    BY ONLY <1>3, <1>7, <2>2, <2>5 DEF OtherConns, OtherSocks
  <2>7. QED
    BY <1>1, <1>2, <1>7, <2>3, <2>6 DEF h, c, data
<1>8. QED
  BY <1>4, <1>5, <1>6, <1>7

(* A connection that has been established keeps its place.                  *)
LEMMA SendInLoopPlace ==
    ASSUME BridgeInv, NEW l \in Loop, SendInLoop(l)
    PROVE  LET c == Head(loop[l].running).conn
           IN
           /\ OtherConns({c}) /\ OtherSocks({c}) /\ up' \in BOOLEAN
           /\ conn'[c].state = conn[c].state /\ conn'[c].reading = conn[c].reading
           /\ conn'[c].added = conn[c].added
           /\ sock'[c].read = sock[c].read /\ sock'[c].arrived = sock[c].arrived
           /\ sock'[c].client = "none" => sock[c].client = "none"
           /\ conn'[c].writing = conn[c].writing \/ conn[c].state # "disconnected"
<1> DEFINE h == Head(loop[l].running)
           c == h.conn
           data == Pieces(h.answer)
<1>1. /\ c \in Conn /\ data \in Seq(Piece) /\ Len(data) = 2
      /\ OtherConns({c}) /\ OtherSocks({c})
      /\ \/ /\ conn[c].state = "disconnected"
            /\ UNCHANGED <<sock, conn, up>>
         \/ /\ conn[c].state # "disconnected" /\ ~CanWriteDirectly(c)
            /\ UNCHANGED <<sock, up>>
            /\ ConnIs(c, conn[c].state, conn[c].reading, TRUE, conn[c].added,
                      conn[c].context, conn[c].outputBuffer \o data)
         \/ /\ conn[c].state # "disconnected" /\ CanWriteDirectly(c)
            /\ \E n \in 0..Len(data) : Write(c, data, n)
  BY SendInLoopConn
<1>2. up \in BOOLEAN
  BY DEF BridgeInv, TypeOK
<1> HIDE DEF c, data
<1>3. CASE UNCHANGED <<sock, conn, up>>
  BY <1>1, <1>2, <1>3 DEF c
<1>4. CASE /\ conn[c].state # "disconnected" /\ UNCHANGED <<sock, up>>
           /\ ConnIs(c, conn[c].state, conn[c].reading, TRUE, conn[c].added,
                     conn[c].context, conn[c].outputBuffer \o data)
  BY <1>1, <1>2, <1>4 DEF ConnIs, c
<1>5. CASE conn[c].state # "disconnected" /\ \E n \in 0..Len(data) : Write(c, data, n)
  <2>1. PICK n \in 0..Len(data) : Write(c, data, n)
    BY <1>5
  <2>2. \/ up' = FALSE /\ UNCHANGED <<sock, conn>>
        \/ /\ up' = up
           /\ ConnIs(c, conn[c].state, conn[c].reading, Left(data, n) # <<>>,
                     conn[c].added, conn[c].context, Left(data, n))
           /\ \E after \in AfterWrite(c, n) :
                 SockIs(c, after, sock[c].arrived, sock[c].read,
                        sock[c].out \o Taken(data, n))
    BY <1>1, <2>1, WriteEffect
  <2>3. QED
    BY <1>1, <1>2, <1>5, <2>2 DEF ConnIs, SockIs, AfterWrite, c
<1>6. QED
  BY <1>1, <1>3, <1>4, <1>5

LEMMA SendInLoopKeeps ==
    ASSUME BridgeInv, NEW l \in Loop, SendInLoop(l)
    PROVE  BridgeInv'
<1> DEFINE h == Head(loop[l].running)  c == h.conn
<1>1. /\ OtherLoops({l})
      /\ LoopIs(l, loop[l].at, loop[l].duty, loop[l].conn, loop[l].active,
                loop[l].pending, Tail(loop[l].running), loop[l].wakeup)
  BY SendInLoopEffect
<1>2. UNCHANGED <<session, connections, backlog, counter_port>> /\ Runs(l, "send")
  BY DEF SendInLoop
<1>3. /\ loop[l].running # <<>> /\ h \in FunctorsOf(l) /\ h.run = "send"
      /\ Has(l, h) /\ loop[l].at = "functors" /\ loop[l].duty = "none"
      /\ c \in Conn /\ l # Base /\ LoopOf(c) = l /\ h.answer \in Answer
  <2>1. /\ loop[l].running # <<>> /\ h \in FunctorsOf(l) /\ h.run = "send"
        /\ Has(l, h) /\ loop[l].at = "functors" /\ loop[l].duty = "none"
        /\ c \in Conn
    BY <1>2, RunsHead
  <2>2. l # Base
    BY <1>2, RunsHead
  <2>3. LoopOf(c) = l /\ h.answer \in Answer
    BY <1>2, <2>2, RunsHead
  <2>4. QED
    BY <2>1, <2>2, <2>3
<1>4. conn[c].state \in {"connected", "disconnected"}
  BY <1>3 DEF BridgeInv, SendsInv
<1>5. /\ OtherConns({c}) /\ OtherSocks({c}) /\ up' \in BOOLEAN
      /\ conn'[c].state = conn[c].state /\ conn'[c].reading = conn[c].reading
      /\ conn'[c].added = conn[c].added
      /\ sock'[c].read = sock[c].read /\ sock'[c].arrived = sock[c].arrived
      /\ sock'[c].client = "none" => sock[c].client = "none"
      /\ conn'[c].writing = conn[c].writing \/ conn[c].state # "disconnected"
  BY SendInLoopPlace
<1>6. /\ loop'[l].at = loop[l].at /\ loop'[l].active = loop[l].active
      /\ loop'[l].pending = loop[l].pending /\ loop'[l].running = Tail(loop[l].running)
      /\ loop'[l].wakeup = loop[l].wakeup /\ loop'[l].duty = loop[l].duty
      /\ loop'[l].conn = loop[l].conn
  BY <1>1 DEF LoopIs
<1>7. /\ loop'[l].pending \in Seq(FunctorsOf(l)) /\ loop'[l].running \in Seq(FunctorsOf(l))
      /\ \A g : Has(l, g)' => Has(l, g)
      /\ \A g : g # h => (Has(l, g)' <=> Has(l, g))
      /\ OnceEach(Queue(l)')
  BY <1>3, <1>6, RanCalls
<1> HIDE DEF h, c
<1>8. \A m \in Loop \ {l} : Queue(m)' = Queue(m)
  BY <1>1 DEF OtherLoops, Queue
<1>9. \A m \in Loop : AtHome(m)' /\ Orderly(m)'
  <2>1. AtHome(l)' /\ Orderly(l)'
    BY <1>3, <1>6, <1>7 DEF BridgeInv, TypeOK, AtHome, LoopInv, Orderly
  <2>2. \A m \in Loop \ {l} : AtHome(m)' /\ Orderly(m)'
    BY <1>1, OrderlyKept DEF BridgeInv, TypeOK, AtHome, LoopInv, OtherLoops
  <2>3. QED
    BY <2>1, <2>2
<1>10. \A d \in Conn : conn'[d].state = conn[d].state
  BY <1>5 DEF OtherConns
<1>11. \A m \in Loop : ReadyIsConnected(m)'
  BY <1>1, <1>6, <1>10, ReadyKept DEF OtherLoops
<1>12. SendsInv'
  <2>1. \A m \in Loop : \A g : Has(m, g)' => Has(m, g)
    BY <1>7, <1>8, HasKept
  <2>2. QED
    BY <1>10, <2>1, SendsKept
<1>13. ConnInv'
  <2> SUFFICES ASSUME NEW d \in Conn
               PROVE  Stage(d)'
    BY DEF ConnInv
  <2>1. \A g : g.run # "send" => (Has(l, g)' <=> Has(l, g))
    BY <1>3, <1>7
  <2>2. \A m \in Loop : \A g : g.run # "send" => (Has(m, g)' <=> Has(m, g))
    BY <1>8, <2>1, HasKept
  <2>3. Closing(d)' <=> Closing(d)
    BY <1>1, <1>6, LoopNumbers DEF Closing, OtherLoops
  <2>4. SameCalls(d)
    BY <2>2, <2>3, CallFields, LoopNumbers DEF SameCalls, Establishes, Removed, Destroys
  <2>5. sock'[d].read = sock[d].read
    BY <1>5 DEF OtherSocks
  <2>6. SameConn(d)
    BY <1>2, <1>4, <1>5, <1>10, <2>5, PullStates DEF SameConn, OtherConns
  <2>7. Stage(d)
    BY DEF BridgeInv, ConnInv
  <2>8. QED
    BY ONLY <2>4, <2>6, <2>7, d \in Conn, StageKept
<1>14. BacklogInv' /\ SessionInv' /\ SocketInv'
  <2>1. \A d \in Conn : sock[d].client # "none" => sock'[d].client # "none"
    BY <1>5 DEF OtherSocks
  <2>2. \A d \in Conn : Sent(d)' = Sent(d)
    BY <1>5 DEF OtherSocks, Sent
  <2>3. \A d \in Conn : Ready("accept", d) \in loop'[Base].active =>
                            Ready("accept", d) \in loop[Base].active
    BY <1>1, <1>6, LoopNumbers DEF OtherLoops
  <2>4. QED
    BY <1>2, <1>10, <2>1, <2>2, <2>3, BacklogKept, SessionKept, SocketKept
<1>15. WakeupInv'
  BY <1>1, <1>2, <1>6, WakeupKept DEF OtherLoops
<1>16. TypeOK'
  BY <1>1, <1>2, <1>5, <1>9 DEF BridgeInv, TypeOK, OtherLoops, OtherConns, OtherSocks
<1>17. QED
  BY <1>9, <1>11, <1>12, <1>13, <1>14, <1>15, <1>16 DEF BridgeInv, LoopInv

LEMMA SendQueueKeeps ==
    ASSUME BridgeInv, NEW c \in Conn, SendQueue(c)
    PROVE  BridgeInv'
<1> DEFINE k == LoopOf(c)
           f == SendCall(c, session[c].hand)
<1>1. /\ OtherLoops({k}) /\ k \in Loop /\ k # Base /\ f \in FunctorsOf(k)
      /\ LoopIs(k, loop[k].at, loop[k].duty, loop[k].conn, loop[k].active,
                Append(loop[k].pending, f), loop[k].running, loop[k].wakeup)
  BY SendQueueEffect
<1>2. OtherSessions({c}) /\ session'[c].pull = "wakeup"
  BY SendQueueSession DEF SessionIs
<1>3. /\ UNCHANGED <<sock, conn, connections, backlog, counter_port, up>>
      /\ session[c].pull = "queue"
  BY DEF SendQueue, PullAt
<1>4. f.run = "send" /\ f.conn = c
  BY SendFields
<1> HIDE DEF f
<1>5. PICK g0 \in FunctorsOf(k) : g0 = f
  BY <1>1
<1>6. /\ loop'[k].pending = Append(loop[k].pending, g0) /\ loop'[k].running = loop[k].running
      /\ loop'[k].at = loop[k].at /\ loop'[k].duty = loop[k].duty
      /\ loop'[k].conn = loop[k].conn /\ loop'[k].active = loop[k].active
      /\ loop'[k].wakeup = loop[k].wakeup
  BY <1>1, <1>5 DEF LoopIs
<1>7. /\ loop'[k].pending \in Seq(FunctorsOf(k)) /\ loop'[k].running \in Seq(FunctorsOf(k))
      /\ \A g : Has(k, g)' <=> Has(k, g) \/ g = g0
      /\ OnceEach(Queue(k)')
  BY <1>1, <1>4, <1>5, <1>6, AppendedCalls
<1>8. g0.run = "send" /\ g0.conn = c
  BY <1>4, <1>5
<1>9. \A m \in Loop \ {k} : Queue(m)' = Queue(m)
  BY <1>1 DEF OtherLoops, Queue
<1>10. \A m \in Loop : AtHome(m)' /\ Orderly(m)'
  <2>1. AtHome(k)' /\ Orderly(k)'
    BY <1>1, <1>6, <1>7 DEF BridgeInv, TypeOK, AtHome, LoopInv, Orderly
  <2>2. \A m \in Loop \ {k} : AtHome(m)' /\ Orderly(m)'
    BY <1>1, OrderlyKept DEF BridgeInv, TypeOK, AtHome, LoopInv, OtherLoops
  <2>3. QED
    BY <2>1, <2>2
<1>11. \A m \in Loop : ReadyIsConnected(m)'
  BY <1>1, <1>3, <1>6, ReadyKept DEF OtherLoops
<1>12. conn[c].state \in {"connected", "disconnected"}
  BY <1>3 DEF BridgeInv, ConnInv, Stage, Fresh
<1>13. SendsInv'
  <2>1. \A m \in Loop : \A g : Has(m, g)' => Has(m, g) \/ g = g0
    BY <1>7, <1>9, HasKept
  <2>2. QED
    BY <1>3, <1>8, <1>12, <2>1, SendsKept
<1>14. ConnInv'
  <2> SUFFICES ASSUME NEW d \in Conn
               PROVE  Stage(d)'
    BY DEF ConnInv
  <2>1. \A g : g.run # "send" => (Has(k, g)' <=> Has(k, g))
    BY <1>7, <1>8
  <2>2. \A m \in Loop : \A g : g.run # "send" => (Has(m, g)' <=> Has(m, g))
    BY <1>9, <2>1, HasKept
  <2>3. Closing(d)' <=> Closing(d)
    BY <1>1, <1>6, LoopNumbers DEF Closing, OtherLoops
  <2>4. SameCalls(d)
    BY <2>2, <2>3, CallFields, LoopNumbers DEF SameCalls, Establishes, Removed, Destroys
  <2>5. SameConn(d)
    BY <1>2, <1>3, PullStates DEF SameConn, OtherSessions
  <2>6. Stage(d)
    BY DEF BridgeInv, ConnInv
  <2>7. QED
    BY ONLY <2>4, <2>5, <2>6, d \in Conn, StageKept
<1>15. BacklogInv' /\ SessionInv' /\ SocketInv'
  <2>1. \A d \in Conn : Ready("accept", d) \in loop'[Base].active =>
                            Ready("accept", d) \in loop[Base].active
    BY <1>1, LoopNumbers DEF OtherLoops
  <2>2. SessionInv'
    BY <1>2 DEF BridgeInv, SessionInv, OtherSessions
  <2>3. SocketInv'
    BY <1>3, SocketKept DEF Sent
  <2>4. BacklogInv'
    BY <1>3, <2>1, BacklogKept
  <2>5. QED
    BY <2>2, <2>3, <2>4
<1>16. WakeupInv'
  <2> SUFFICES ASSUME NEW m \in Loop, loop'[m].at # "events", loop'[m].pending # <<>>
               PROVE  Noticed(m)'
    BY DEF WakeupInv
  <2>1. CASE m = k
    BY <1>2, <2>1 DEF Noticed
  <2>2. CASE m # k
    <3>1. Noticed(m)
      BY <1>1, <2>2 DEF OtherLoops, BridgeInv, WakeupInv
    <3>2. loop[m].wakeup => loop'[m].wakeup
      BY <1>1, <2>2 DEF OtherLoops
    <3>3. \A n \in Loop : loop[n].duty = "wakeup" =>
             loop'[n].duty = "wakeup" /\ loop'[n].conn = loop[n].conn
      BY <1>1, <1>6 DEF OtherLoops
    <3>4. \A d \in Conn : session[d].pull = "wakeup" => session'[d].pull = "wakeup"
      BY <1>2 DEF OtherSessions
    <3>5. QED
      BY ONLY <3>1, <3>2, <3>3, <3>4, NoticedKept
  <2>3. QED
    BY <2>1, <2>2
<1>17. TypeOK'
  BY <1>1, <1>2, <1>3, <1>10 DEF BridgeInv, TypeOK, OtherLoops, OtherSessions
<1>18. QED
  BY <1>10, <1>11, <1>13, <1>14, <1>15, <1>16, <1>17 DEF BridgeInv, LoopInv

LEMMA RemoveConnectionKeeps ==
    ASSUME BridgeInv, NEW l \in Loop, RemoveConnection(l)
    PROVE  BridgeInv'
<1>1. PICK c \in Conn : c = loop[l].conn /\ LoopOf(c) = l
  BY RemoveConnectionEffect
<1> DEFINE f == Call("removeConnection", c)
<1>2. /\ OtherLoops({Base, l}) /\ Base \in Loop /\ l # Base /\ f \in FunctorsOf(Base)
      /\ LoopIs(Base, loop[Base].at, loop[Base].duty, loop[Base].conn,
                loop[Base].active, Append(loop[Base].pending, f),
                loop[Base].running, loop[Base].wakeup)
      /\ LoopIs(l, loop[l].at, "wakeup", c, loop[l].active,
                loop[l].pending, loop[l].running, loop[l].wakeup)
  BY <1>1, RemoveConnectionEffect
<1>3. /\ UNCHANGED <<sock, conn, session, connections, backlog, counter_port, up>>
      /\ loop[l].duty = "remove"
  BY DEF RemoveConnection, Duty
<1>4. f.run = "removeConnection" /\ f.conn = c
  BY CallFields
<1>5. /\ Closing(c) /\ conn[c].state = "disconnected" /\ ~Removed(c) /\ ~Destroys(c)
      /\ conn[c].added /\ c \in connections
  <2>1. Closing(c)
    BY <1>1, <1>3 DEF Closing
  <2>2. Stage(c)
    BY DEF BridgeInv, ConnInv
  <2>3. QED
    BY <2>1, <2>2 DEF Stage, Fresh
<1> HIDE DEF f
<1>6. /\ loop'[Base].pending \in Seq(FunctorsOf(Base))
      /\ loop'[Base].running \in Seq(FunctorsOf(Base))
      /\ \A g : Has(Base, g)' <=> Has(Base, g) \/ g = f
      /\ OnceEach(Queue(Base)')
  <2>1. ~Has(Base, f)
    BY <1>5 DEF Removed, f
  <2>2. /\ loop'[Base].pending = Append(loop[Base].pending, f)
        /\ loop'[Base].running = loop[Base].running
    BY <1>2 DEF LoopIs
  <2>3. QED
    BY <1>2, <2>1, <2>2, AppendedCalls
<1>7. \A m \in Loop \ {Base} : Queue(m)' = Queue(m)
  BY <1>2 DEF OtherLoops, LoopIs, Queue
<1>8. \A m \in Loop : AtHome(m)' /\ Orderly(m)'
  <2>1. AtHome(Base)' /\ Orderly(Base)'
    BY <1>2, <1>6 DEF LoopIs, BridgeInv, TypeOK, AtHome, LoopInv, Orderly
  <2>2. AtHome(l)' /\ Orderly(l)'
    BY <1>2, <1>3, <1>7 DEF LoopIs, BridgeInv, TypeOK, AtHome, LoopInv, Orderly
  <2>3. \A m \in Loop \ {Base, l} : AtHome(m)' /\ Orderly(m)'
    BY <1>2, OrderlyKept DEF BridgeInv, TypeOK, AtHome, LoopInv, OtherLoops
  <2>4. QED
    BY <2>1, <2>2, <2>3
<1>9. \A m \in Loop : ReadyIsConnected(m)'
  BY <1>2, <1>3, ReadyKept DEF OtherLoops, LoopIs
<1>10. SendsInv'
  <2>1. \A m \in Loop : \A g : Has(m, g)' => Has(m, g) \/ g = f
    BY <1>6, <1>7, HasKept
  <2>2. QED
    BY <1>3, <1>4, <2>1, SendsKept
<1>11. ConnInv'
  <2>1. ASSUME NEW d \in Conn
        PROVE  \A g : Has(LoopOf(d), g)' <=> Has(LoopOf(d), g)
    BY <1>7, HasKept, LoopNumbers
  <2>2. ASSUME NEW d \in Conn \ {c}
        PROVE  Stage(d)'
    <3>1. \A g : g.conn = d => (Has(Base, g)' <=> Has(Base, g))
      BY <1>4, <1>6
    <3>2. Closing(d)' <=> Closing(d)
      BY <1>1, <1>2, LoopNumbers DEF Closing, OtherLoops, LoopIs
    <3>3. QED
      BY <1>3, <2>1, <3>1, <3>2, ElsewhereKept
  <2>3. Stage(c)'
    <3>1. ~Closing(c)'
      BY <1>1, <1>2 DEF Closing, LoopIs
    <3>2. ~Establishes(c)' /\ ~Destroys(c)'
      BY <1>5, <2>1 DEF BridgeInv, ConnInv, Stage, Establishes, Destroys
    <3>3. Stage(c)
      BY DEF BridgeInv, ConnInv
    <3>4. QED
      BY <1>3, <1>5, <3>1, <3>2, <3>3 DEF Stage
  <2>4. QED
    BY <2>2, <2>3 DEF ConnInv
<1>12. BacklogInv' /\ SessionInv' /\ SocketInv'
  <2>1. SocketInv' /\ SessionInv'
    BY <1>3, SocketKept, SessionKept DEF Sent
  <2>2. BacklogInv'
    BY <1>2, <1>3, BacklogKept DEF LoopIs
  <2>3. QED
    BY <2>1, <2>2
<1>13. WakeupInv'
  <2> SUFFICES ASSUME NEW m \in Loop, loop'[m].at # "events", loop'[m].pending # <<>>
               PROVE  Noticed(m)'
    BY DEF WakeupInv
  <2>1. CASE m = Base
    <3>1. loop'[l].duty = "wakeup" /\ l # Base
      BY <1>2 DEF LoopIs
    <3>2. QED
      BY <2>1, <3>1 DEF Noticed, Woken
  <2>2. CASE m # Base
    <3>1. Noticed(m)
      BY <1>2, <2>2 DEF OtherLoops, LoopIs, BridgeInv, WakeupInv
    <3>2. loop[m].wakeup => loop'[m].wakeup
      BY <1>2, <2>2 DEF OtherLoops, LoopIs
    <3>3. \A n \in Loop : loop[n].duty = "wakeup" =>
             loop'[n].duty = "wakeup" /\ loop'[n].conn = loop[n].conn
      BY <1>2, <1>3 DEF OtherLoops, LoopIs
    <3>4. \A d \in Conn : session[d].pull = "wakeup" => session'[d].pull = "wakeup"
      BY <1>3
    <3>5. QED
      BY ONLY <3>1, <3>2, <3>3, <3>4, NoticedKept
  <2>3. QED
    BY <2>1, <2>2
<1>14. TypeOK'
  BY <1>2, <1>3, <1>8 DEF BridgeInv, TypeOK, OtherLoops
<1>15. QED
  BY <1>8, <1>9, <1>10, <1>11, <1>12, <1>13, <1>14 DEF BridgeInv, LoopInv

LEMMA RemoveConnectionInLoopKeeps ==
    ASSUME BridgeInv, RemoveConnectionInLoop
    PROVE  BridgeInv'
<1>0. Runs(Base, "removeConnection") /\ Base \in Loop
  BY LoopNumbers DEF RemoveConnectionInLoop
<1>1. PICK c \in Conn : c = Head(loop[Base].running).conn
  BY RemoveConnectionInLoopEffect
<1> DEFINE k == LoopOf(c)
           f == Call("connectDestroyed", c)
<1>2. /\ OtherLoops({k, Base}) /\ k \in Loop /\ k # Base /\ f \in FunctorsOf(k)
      /\ LoopIs(k, loop[k].at, loop[k].duty, loop[k].conn, loop[k].active,
                Append(loop[k].pending, f), loop[k].running, loop[k].wakeup)
      /\ LoopIs(Base, loop[Base].at, "wakeup", c, loop[Base].active,
                loop[Base].pending, Tail(loop[Base].running), loop[Base].wakeup)
  BY <1>1, RemoveConnectionInLoopEffect
<1>3. /\ UNCHANGED <<sock, conn, session, backlog, counter_port, up>>
      /\ connections' = connections \ {c}
  BY <1>1 DEF RemoveConnectionInLoop
<1>4. f.run = "connectDestroyed" /\ f.conn = c
  BY CallFields
<1>5. PICK h : /\ h = Head(loop[Base].running) /\ h = Call("removeConnection", c)
               /\ loop[Base].running # <<>> /\ Has(Base, h)
               /\ loop[Base].at = "functors" /\ loop[Base].duty = "none"
  BY <1>0, <1>1, RunsHead
<1>6. h.run = "removeConnection" /\ h.conn = c
  BY <1>5, CallFields
<1>7. /\ Removed(c) /\ conn[c].state = "disconnected" /\ conn[c].added
      /\ ~conn[c].reading /\ ~conn[c].writing
      /\ ~Closing(c) /\ ~Destroys(c) /\ ~Establishes(c) /\ session[c].pull # "none"
  <2>1. Removed(c)
    BY <1>5 DEF Removed
  <2>2. Stage(c)
    BY DEF BridgeInv, ConnInv
  <2>3. QED
    BY <2>1, <2>2 DEF Stage, Fresh
<1> HIDE DEF f
<1>8. /\ loop'[k].pending \in Seq(FunctorsOf(k)) /\ loop'[k].running \in Seq(FunctorsOf(k))
      /\ \A g : Has(k, g)' <=> Has(k, g) \/ g = f
      /\ OnceEach(Queue(k)')
  <2>1. ~Has(k, f)
    BY <1>7 DEF Destroys, f
  <2>2. /\ loop'[k].pending = Append(loop[k].pending, f)
        /\ loop'[k].running = loop[k].running
    BY <1>2 DEF LoopIs
  <2>3. QED
    BY <1>2, <2>1, <2>2, AppendedCalls
<1>9. /\ loop'[Base].pending \in Seq(FunctorsOf(Base))
      /\ loop'[Base].running \in Seq(FunctorsOf(Base))
      /\ \A g : Has(Base, g)' => Has(Base, g)
      /\ \A g : g # h => (Has(Base, g)' <=> Has(Base, g))
      /\ ~In(Queue(Base)', h)
      /\ OnceEach(Queue(Base)')
  <2>1. /\ loop'[Base].pending = loop[Base].pending
        /\ loop'[Base].running = Tail(loop[Base].running)
    BY <1>2 DEF LoopIs
  <2>2. QED
    BY <1>0, <1>5, <1>6, <2>1, RanCalls
<1>10. \A m \in Loop \ {k, Base} : Queue(m)' = Queue(m)
  BY <1>2 DEF OtherLoops, Queue
<1>11. \A m \in Loop : AtHome(m)' /\ Orderly(m)'
  <2>1. AtHome(k)' /\ Orderly(k)'
    BY <1>2, <1>8 DEF LoopIs, BridgeInv, TypeOK, AtHome, LoopInv, Orderly
  <2>2. AtHome(Base)' /\ Orderly(Base)'
    BY <1>0, <1>2, <1>5, <1>9 DEF LoopIs, BridgeInv, TypeOK, AtHome, LoopInv, Orderly
  <2>3. \A m \in Loop \ {k, Base} : AtHome(m)' /\ Orderly(m)'
    BY <1>2, OrderlyKept DEF BridgeInv, TypeOK, AtHome, LoopInv, OtherLoops
  <2>4. QED
    BY <2>1, <2>2, <2>3
<1>12. \A m \in Loop : ReadyIsConnected(m)'
  BY <1>2, <1>3, ReadyKept DEF OtherLoops, LoopIs
<1>13. SendsInv'
  <2>1. \A m \in Loop : \A g : Has(m, g)' => Has(m, g) \/ g = f
    BY <1>8, <1>9, <1>10, HasKept
  <2>2. QED
    BY <1>3, <1>4, <2>1, SendsKept
<1>14. ConnInv'
  <2>1. ASSUME NEW d \in Conn \ {c}
        PROVE  Stage(d)'
    <3>1. \A g : g.conn = d => (Has(Base, g)' <=> Has(Base, g))
      BY <1>6, <1>9
    <3>2. \A g : g.conn = d => (Has(LoopOf(d), g)' <=> Has(LoopOf(d), g))
      BY <1>4, <1>8, <1>10, HasKept, LoopNumbers
    <3>3. Closing(d)' <=> Closing(d)
      BY <1>2, LoopNumbers DEF Closing, OtherLoops, LoopIs
    <3>4. d \in connections' <=> d \in connections
      BY <1>3
    <3>5. QED
      BY <1>3, <3>1, <3>2, <3>3, <3>4, ElsewhereKept
  <2>2. Stage(c)'
    <3>1. ~Closing(c)'
      BY <1>2, <1>7 DEF Closing, LoopIs
    <3>2. ~Establishes(c)'
      <4>1. Call("connectEstablished", c) # f
        BY <1>4, CallFields
      <4>2. QED
        BY <1>7, <1>8, <4>1 DEF Establishes
    <3>3. ~Removed(c)'
      BY <1>5, <1>9 DEF Removed, Has
    <3>4. QED
      BY <1>3, <1>7, <3>1, <3>2, <3>3 DEF Stage
  <2>3. QED
    BY <2>1, <2>2 DEF ConnInv
<1>15. BacklogInv' /\ SessionInv' /\ SocketInv'
  <2>1. SocketInv' /\ SessionInv'
    BY <1>3, SocketKept, SessionKept DEF Sent
  <2>2. BacklogInv'
    BY <1>2, <1>3, BacklogKept DEF LoopIs
  <2>3. QED
    BY <2>1, <2>2
<1>16. WakeupInv'
  <2> SUFFICES ASSUME NEW m \in Loop, loop'[m].at # "events", loop'[m].pending # <<>>
               PROVE  Noticed(m)'
    BY DEF WakeupInv
  <2>1. CASE m = k
    <3>1. loop'[Base].duty = "wakeup" /\ Woken(Base, loop'[Base].conn) = k
      BY <1>2 DEF LoopIs, Woken
    <3>2. QED
      BY <1>0, <2>1, <3>1 DEF Noticed
  <2>2. CASE m # k
    <3>1. Noticed(m)
      BY <1>2, <2>2 DEF OtherLoops, LoopIs, BridgeInv, WakeupInv
    <3>2. loop[m].wakeup => loop'[m].wakeup
      BY <1>2, <2>2 DEF OtherLoops, LoopIs
    <3>3. \A n \in Loop : loop[n].duty = "wakeup" =>
             loop'[n].duty = "wakeup" /\ loop'[n].conn = loop[n].conn
      BY <1>2, <1>5 DEF OtherLoops, LoopIs
    <3>4. \A d \in Conn : session[d].pull = "wakeup" => session'[d].pull = "wakeup"
      BY <1>3
    <3>5. QED
      BY ONLY <3>1, <3>2, <3>3, <3>4, NoticedKept
  <2>3. QED
    BY <2>1, <2>2
<1>17. TypeOK'
  BY <1>2, <1>3, <1>11 DEF BridgeInv, TypeOK, OtherLoops
<1>18. QED
  BY <1>11, <1>12, <1>13, <1>14, <1>15, <1>16, <1>17 DEF BridgeInv, LoopInv

LEMMA ConnectDestroyedKeeps ==
    ASSUME BridgeInv, NEW l \in Loop, ConnectDestroyed(l)
    PROVE  BridgeInv'
<1>0. Runs(l, "connectDestroyed")
  BY DEF ConnectDestroyed
<1>1. PICK c \in Conn : c = Head(loop[l].running).conn
  BY <1>0, RunsHead
<1>2. /\ OtherLoops({l})
      /\ LoopIs(l, loop[l].at, loop[l].duty, loop[l].conn, loop[l].active,
                loop[l].pending, Tail(loop[l].running), loop[l].wakeup)
  BY ConnectDestroyedEffect
<1>3. UNCHANGED <<sock, session, connections, backlog, counter_port, up>>
  BY DEF ConnectDestroyed
<1>4. /\ OtherConns({c})
      /\ ConnIs(c, conn[c].state, conn[c].reading, conn[c].writing,
                FALSE, conn[c].context, conn[c].outputBuffer)
  BY <1>1, ConnectDestroyedConn
<1>5. PICK h : /\ h = Head(loop[l].running) /\ h = Call("connectDestroyed", c)
               /\ loop[l].running # <<>> /\ Has(l, h)
               /\ loop[l].at = "functors" /\ loop[l].duty = "none"
               /\ l # Base /\ LoopOf(c) = l
  BY <1>0, <1>1, RunsHead
<1>6. h.run = "connectDestroyed" /\ h.conn = c
  BY <1>5, CallFields
<1>7. /\ conn[c].state = "disconnected" /\ ~conn[c].reading /\ ~conn[c].writing
      /\ ~Closing(c) /\ ~Removed(c) /\ ~Establishes(c) /\ session[c].pull # "none"
  <2>1. Destroys(c)
    BY <1>5 DEF Destroys
  <2>2. Stage(c)
    BY DEF BridgeInv, ConnInv
  <2>3. QED
    BY <2>1, <2>2 DEF Stage, Fresh
<1>8. /\ loop'[l].pending \in Seq(FunctorsOf(l)) /\ loop'[l].running \in Seq(FunctorsOf(l))
      /\ \A g : Has(l, g)' => Has(l, g)
      /\ \A g : g # h => (Has(l, g)' <=> Has(l, g))
      /\ ~In(Queue(l)', h)
      /\ OnceEach(Queue(l)')
  <2>1. /\ loop'[l].pending = loop[l].pending /\ loop'[l].running = Tail(loop[l].running)
    BY <1>2 DEF LoopIs
  <2>2. QED
    BY <1>5, <1>6, <2>1, RanCalls
<1>9. \A m \in Loop \ {l} : Queue(m)' = Queue(m)
  BY <1>2 DEF OtherLoops, Queue
<1>10. \A m \in Loop : AtHome(m)' /\ Orderly(m)'
  <2>1. AtHome(l)' /\ Orderly(l)'
    BY <1>2, <1>5, <1>8 DEF LoopIs, BridgeInv, TypeOK, AtHome, LoopInv, Orderly
  <2>2. \A m \in Loop \ {l} : AtHome(m)' /\ Orderly(m)'
    BY <1>2, OrderlyKept DEF BridgeInv, TypeOK, AtHome, LoopInv, OtherLoops
  <2>3. QED
    BY <2>1, <2>2
<1>11. \A d \in Conn : conn'[d].state = conn[d].state
  BY <1>4 DEF OtherConns, ConnIs
<1>12. \A m \in Loop : ReadyIsConnected(m)'
  BY <1>2, <1>11, ReadyKept DEF OtherLoops, LoopIs
<1>13. SendsInv'
  <2>1. \A m \in Loop : \A g : Has(m, g)' => Has(m, g)
    BY <1>8, <1>9, HasKept
  <2>2. QED
    BY <1>11, <2>1, SendsKept
<1>14. ConnInv'
  <2>1. ASSUME NEW d \in Conn \ {c}
        PROVE  Stage(d)'
    <3>1. \A g : g.conn = d => (Has(Base, g)' <=> Has(Base, g))
      BY <1>5, <1>9, HasKept, LoopNumbers
    <3>2. \A g : g.conn = d => (Has(LoopOf(d), g)' <=> Has(LoopOf(d), g))
      BY <1>6, <1>8, <1>9, HasKept, LoopNumbers
    <3>3. Closing(d)' <=> Closing(d)
      BY <1>2, LoopNumbers DEF Closing, OtherLoops, LoopIs
    <3>4. conn'[d] = conn[d]
      BY <1>4 DEF OtherConns
    <3>5. QED
      BY <1>3, <3>1, <3>2, <3>3, <3>4, ElsewhereKept
  <2>2. Stage(c)'
    <3>1. ~Closing(c)'
      BY <1>2, <1>5, <1>7 DEF Closing, LoopIs
    <3>2. ~Establishes(c)'
      BY <1>5, <1>7, <1>8 DEF Establishes
    <3>3. ~Removed(c)'
      BY <1>5, <1>7, <1>9, HasKept, LoopNumbers DEF Removed
    <3>4. ~Destroys(c)'
      BY <1>5, <1>8 DEF Destroys, Has
    <3>5. QED
      BY <1>3, <1>4, <1>7, <3>1, <3>2, <3>3, <3>4 DEF Stage, ConnIs
  <2>3. QED
    BY <2>1, <2>2 DEF ConnInv
<1>15. BacklogInv' /\ SessionInv' /\ SocketInv'
  <2>1. SocketInv' /\ SessionInv'
    BY <1>3, <1>11, SocketKept, SessionKept DEF Sent
  <2>2. BacklogInv'
    BY <1>2, <1>3, <1>5, <1>11, LoopNumbers, BacklogKept DEF OtherLoops
  <2>3. QED
    BY <2>1, <2>2
<1>16. WakeupInv'
  BY <1>2, <1>3, WakeupKept DEF OtherLoops, LoopIs
<1>17. TypeOK'
  BY <1>2, <1>3, <1>4, <1>10 DEF BridgeInv, TypeOK, OtherLoops, OtherConns
<1>18. QED
  BY <1>10, <1>12, <1>13, <1>14, <1>15, <1>16, <1>17 DEF BridgeInv, LoopInv

LEMMA ConnectEstablishedKeeps ==
    ASSUME BridgeInv, NEW l \in Loop, ConnectEstablished(l)
    PROVE  BridgeInv'
<1>0. Runs(l, "connectEstablished")
  BY DEF ConnectEstablished
<1>1. PICK c \in Conn : c = Head(loop[l].running).conn
  BY <1>0, RunsHead
<1>2. /\ OtherLoops({l})
      /\ LoopIs(l, loop[l].at, "test", c, loop[l].active,
                loop[l].pending, Tail(loop[l].running), loop[l].wakeup)
  BY <1>1, ConnectEstablishedEffect
<1>3. UNCHANGED <<sock, connections, backlog, up>> /\ counter_port' \in Nat
  <2>1. UNCHANGED <<sock, connections, backlog, up>> /\ counter_port' = counter_port + 1
    BY Zenon DEF ConnectEstablished, NewSession
  <2>2. counter_port \in Nat
    BY DEF BridgeInv, TypeOK
  <2>3. QED
    BY <2>1, <2>2
<1>4. /\ OtherConns({c}) /\ OtherSessions({c})
      /\ ConnIs(c, "connected", TRUE, conn[c].writing, TRUE, TRUE, conn[c].outputBuffer)
      /\ session'[c].pull = "poll"
  BY <1>1, ConnectEstablishedConn, ConnectEstablishedSession DEF SessionIs
<1>5. PICK h : /\ h = Head(loop[l].running) /\ h = Call("connectEstablished", c)
               /\ loop[l].running # <<>> /\ Has(l, h)
               /\ loop[l].at = "functors" /\ loop[l].duty = "none"
               /\ l # Base /\ LoopOf(c) = l
  BY <1>0, <1>1, RunsHead
<1>6. h.run = "connectEstablished" /\ h.conn = c
  BY <1>5, CallFields
<1>7. /\ conn[c].state = "connecting" /\ c \in connections
      /\ ~Closing(c) /\ ~Removed(c) /\ ~Destroys(c) /\ session[c].pull = "none"
  <2>1. Establishes(c)
    BY <1>5 DEF Establishes
  <2>2. Stage(c)
    BY DEF BridgeInv, ConnInv
  <2>3. QED
    BY <2>1, <2>2 DEF Stage, Fresh
<1>8. /\ loop'[l].pending \in Seq(FunctorsOf(l)) /\ loop'[l].running \in Seq(FunctorsOf(l))
      /\ \A g : Has(l, g)' => Has(l, g)
      /\ \A g : g # h => (Has(l, g)' <=> Has(l, g))
      /\ ~In(Queue(l)', h)
      /\ OnceEach(Queue(l)')
  <2>1. /\ loop'[l].pending = loop[l].pending /\ loop'[l].running = Tail(loop[l].running)
    BY <1>2 DEF LoopIs
  <2>2. QED
    BY <1>5, <1>6, <2>1, RanCalls
<1>9. \A m \in Loop \ {l} : Queue(m)' = Queue(m)
  BY <1>2 DEF OtherLoops, Queue
<1>10. \A m \in Loop : AtHome(m)' /\ Orderly(m)'
  <2>1. AtHome(l)' /\ Orderly(l)'
    BY <1>2, <1>5, <1>8 DEF LoopIs, BridgeInv, TypeOK, AtHome, LoopInv, Orderly
  <2>2. \A m \in Loop \ {l} : AtHome(m)' /\ Orderly(m)'
    BY <1>2, OrderlyKept DEF BridgeInv, TypeOK, AtHome, LoopInv, OtherLoops
  <2>3. QED
    BY <2>1, <2>2
<1>11. \A d \in Conn \ {c} : conn'[d] = conn[d] /\ session'[d] = session[d]
  BY <1>4 DEF OtherConns, OtherSessions
<1>12. \A m \in Loop : ReadyIsConnected(m)'
  BY <1>2, <1>4, <1>11, ReadyKept DEF OtherLoops, LoopIs, ConnIs
<1>13. SendsInv'
  <2>1. \A m \in Loop : \A g : Has(m, g)' => Has(m, g)
    BY <1>8, <1>9, HasKept
  <2>2. QED
    BY <1>4, <1>11, <2>1, SendsKept DEF ConnIs
<1>14. ConnInv'
  <2>1. ASSUME NEW d \in Conn \ {c}
        PROVE  Stage(d)'
    <3>1. \A g : g.conn = d => (Has(Base, g)' <=> Has(Base, g))
      BY <1>5, <1>9, HasKept, LoopNumbers
    <3>2. \A g : g.conn = d => (Has(LoopOf(d), g)' <=> Has(LoopOf(d), g))
      BY <1>6, <1>8, <1>9, HasKept, LoopNumbers
    <3>3. Closing(d)' <=> Closing(d)
      BY <1>2, <1>5, LoopNumbers DEF Closing, OtherLoops, LoopIs
    <3>4. QED
      BY <1>3, <1>11, <3>1, <3>2, <3>3, ElsewhereKept
  <2>2. Stage(c)'
    <3>1. ~Closing(c)'
      BY <1>2, <1>5 DEF Closing, LoopIs
    <3>2. ~Establishes(c)'
      BY <1>5, <1>8 DEF Establishes, Has
    <3>3. ~Removed(c)'
      BY <1>5, <1>7, <1>9, HasKept, LoopNumbers DEF Removed
    <3>4. ~Destroys(c)'
      BY <1>5, <1>7, <1>8 DEF Destroys
    <3>5. QED
      BY <1>3, <1>4, <1>7, <3>1, <3>2, <3>3, <3>4 DEF Stage, ConnIs
  <2>3. QED
    BY <2>1, <2>2 DEF ConnInv
<1>15. BacklogInv' /\ SessionInv' /\ SocketInv'
  <2>1. \A d \in Conn : conn[d].state = "none" => conn'[d].state = "none"
    BY <1>7, <1>11
  <2>2. SocketInv'
    BY <1>3, <2>1, SocketKept DEF Sent
  <2>3. SessionInv'
    BY <1>4, <1>11 DEF BridgeInv, SessionInv
  <2>4. BacklogInv'
    BY <1>2, <1>3, <1>5, <2>1, LoopNumbers, BacklogKept DEF OtherLoops
  <2>5. QED
    BY <2>2, <2>3, <2>4
<1>16. WakeupInv'
  BY <1>2, <1>5, <1>7, <1>11, WakeupKept DEF OtherLoops, LoopIs
<1>17. TypeOK'
  BY <1>2, <1>3, <1>4, <1>10 DEF BridgeInv, TypeOK, OtherLoops, OtherConns, OtherSessions
<1>18. QED
  BY <1>10, <1>12, <1>13, <1>14, <1>15, <1>16, <1>17 DEF BridgeInv, LoopInv

------------------------------------------------------------------------------
(* The theorems.                                                            *)

(* Before the first client: nothing is queued, ready or connected.          *)
LEMMA InitTypes == Init => TypeOK
<1> SUFFICES ASSUME Init
             PROVE  TypeOK
  OBVIOUS
<1>1. sock \in [Conn -> SocketState]
  <2>1. <<>> \in Seq(Piece)
    OBVIOUS
  <2>2. QED
    BY <2>1 DEF Init, SocketState
<1>2. conn \in [Conn -> ConnState]
  <2>1. <<>> \in Seq(Piece)
    OBVIOUS
  <2>2. QED
    BY <2>1 DEF Init, ConnState
<1>3. session \in [Conn -> SessionState]
  <2>1. <<>> \in Seq(Answer)
    OBVIOUS
  <2>2. QED
    BY <2>1 DEF Init, SessionState
<1>4. \A l \in Loop :
         loop[l] = [at |-> "poll", duty |-> "none", conn |-> NoConn,
                    active |-> {}, pending |-> <<>>, running |-> <<>>, wakeup |-> FALSE]
  BY DEF Init
<1>5. loop \in [Loop -> LoopState]
  <2> DEFINE idle == [at |-> "poll", duty |-> "none", conn |-> NoConn,
                      active |-> {}, pending |-> <<>>, running |-> <<>>, wakeup |-> FALSE]
  <2>1. <<>> \in Seq(Functors)
    OBVIOUS
  <2>2. idle \in LoopState
    BY ONLY <2>1, {} \in SUBSET Channels DEF LoopState
  <2>3. loop = [l \in Loop |-> idle]
    BY DEF Init
  <2> HIDE DEF idle
  <2>4. QED
    BY ONLY <2>2, <2>3
<1>6. \A l \in Loop : AtHome(l)
  <2>1. \A S : <<>> \in Seq(S)
    OBVIOUS
  <2>2. \A l \in Loop : /\ loop[l].active = {}
                        /\ loop[l].pending = <<>> /\ loop[l].running = <<>>
    BY <1>4
  <2>3. QED
    BY <2>1, <2>2, Zenon DEF AtHome
<1>7. connections \subseteq Conn /\ backlog \in Seq(Conn) /\ up \in BOOLEAN
  BY DEF Init
<1>8. counter_port \in Nat
  BY BridgeAssumption DEF Init
<1>9. QED
  BY <1>1, <1>2, <1>3, <1>5, <1>6, <1>7, <1>8 DEF TypeOK

LEMMA BridgeInit == Init => BridgeInv
<1> SUFFICES ASSUME Init
             PROVE  BridgeInv
  OBVIOUS
<1>1. TypeOK
  BY InitTypes
<1>2. \A l \in Loop :
         /\ loop[l].at = "poll" /\ loop[l].duty = "none" /\ loop[l].active = {}
         /\ loop[l].pending = <<>> /\ loop[l].running = <<>>
  BY DEF Init
<1>3. \A l \in Loop : Queue(l) = <<>>
  <2>1. <<>> \o <<>> = <<>>
    OBVIOUS
  <2>2. QED
    BY <1>2, <2>1 DEF Queue
<1>4. \A l \in Loop : \A f : ~Has(l, f)
  <2>1. \A f : ~In(<<>>, f)
    BY DEF In
  <2>2. QED
    BY <1>3, <2>1 DEF Has
<1>5. LoopInv
  <2>1. OnceEach(<<>>)
    BY DEF OnceEach
  <2>2. QED
    BY <1>2, <1>3, <2>1 DEF LoopInv, Orderly, ReadyIsConnected
<1>6. BacklogInv
  <2>1. backlog = <<>> /\ Len(backlog) = 0 /\ 1..0 = {}
    BY DEF Init
  <2>2. \A c \in Conn : Ready("accept", c) \notin loop[Base].active
    BY <1>2, LoopNumbers
  <2>3. QED
    BY <2>1, <2>2 DEF BacklogInv
<1>7. \A c \in Conn :
         /\ sock[c].client = "none" /\ sock[c].read = 0 /\ sock[c].arrived = 0
         /\ conn[c].state = "none" /\ ~conn[c].added /\ ~conn[c].reading /\ ~conn[c].writing
         /\ session[c].pull = "none" /\ c \notin connections
  BY DEF Init
<1>8. SessionInv /\ SendsInv /\ WakeupInv
  BY <1>2, <1>4, <1>7 DEF SessionInv, SendsInv, WakeupInv
<1>9. SocketInv
  BY <1>7, BridgeAssumption DEF SocketInv, Sent
<1>10. ConnInv
  BY <1>2, <1>4, <1>7, LoopNumbers
     DEF ConnInv, Stage, Fresh, Establishes, Closing, Removed, Destroys
<1>11. QED
  BY <1>1, <1>5, <1>6, <1>8, <1>9, <1>10 DEF BridgeInv

LEMMA LoopStepKeeps ==
    ASSUME BridgeInv, NEW l \in Loop, LoopStep(l)
    PROVE  BridgeInv'
<1>1. CASE \E c \in Conn : HandleRead(l, c) \/ HandleClose(l, c) \/ HandleWrite(l, c)
  BY <1>1, HandleReadKeeps, HandleCloseKeeps, HandleWriteKeeps
<1>2. CASE \/ Poll(l) \/ HandleWakeup(l) \/ SwapFunctors(l) \/ FunctorsDone(l) \/ Wakeup(l)
           \/ TestCounter(l) \/ StoreCounter(l)
  BY <1>2, PollKeeps, HandleWakeupKeeps, SwapFunctorsKeeps, FunctorsDoneKeeps,
     WakeupKeeps, TestCounterKeeps, StoreCounterKeeps
<1>3. CASE \/ ConnectEstablished(l) \/ JoinPull(l) \/ RemoveConnection(l)
           \/ ConnectDestroyed(l) \/ SendInLoop(l)
  BY <1>3, ConnectEstablishedKeeps, JoinPullKeeps, RemoveConnectionKeeps,
     ConnectDestroyedKeeps, SendInLoopKeeps
<1>4. QED
  BY <1>1, <1>2, <1>3 DEF LoopStep

LEMMA BridgeStep == BridgeInv /\ [Next]_vars => BridgeInv'
<1> SUFFICES ASSUME BridgeInv, [Next]_vars
             PROVE  BridgeInv'
  OBVIOUS
<1>1. CASE Environment
  BY <1>1, ConnectKeeps, SendLineKeeps, HangUpKeeps, AnswerLineKeeps DEF Environment
<1>2. CASE BaseStep
  BY <1>2, AcceptKeeps, RemoveConnectionInLoopKeeps DEF BaseStep
<1>3. CASE \E l \in Loop : LoopStep(l)
  BY <1>3, LoopStepKeeps
<1>4. CASE \E c \in Conn : PullStep(c)
  BY <1>4, PullReceiveKeeps, SendTestKeeps, SendQueueKeeps, SendWakeupKeeps,
     PullExitKeeps DEF PullStep
<1>5. CASE UNCHANGED vars
  <2>1. SessionInv' /\ SocketInv'
    BY <1>5, SessionKept, SocketKept DEF vars, Sent
  <2>2. UNCHANGED <<loop, conn, connections, backlog, counter_port, up, sock, session>>
    BY <1>5 DEF vars
  <2>3. sock' \in [Conn -> SocketState] /\ session' \in [Conn -> SessionState]
    BY <2>2 DEF BridgeInv, TypeOK
  <2>4. \A c \in Conn : conn[c].state = "connected" => session'[c].pull # "exited"
    BY <2>2, PullStates
  <2>5. QED
    BY <2>1, <2>2, <2>3, <2>4, UntouchedKeeps
<1>6. QED
  BY <1>1, <1>2, <1>3, <1>4, <1>5 DEF Next

(* The invariant that the theorems below rest on: who runs what, in which   *)
(* state a connection is, and on whose queue its next functor waits         *)
(* (EventLoop.cc:84-190, TcpServer.cc:52-104, TcpConnection.cc).            *)
THEOREM BridgeInvariant == Spec => []BridgeInv
<1>1. Init => BridgeInv
  BY BridgeInit
<1>2. BridgeInv /\ [Next]_vars => BridgeInv'
  BY BridgeStep
<1>3. QED
  BY <1>1, <1>2, PTL DEF Spec

(* Every functor and every ready channel is found at the loop of its        *)
(* connection, and removals at the base loop, for every number of loops     *)
(* (EventLoop.cc:108-125, TcpConnection.cc:53-66, TcpServer.cc:88-104).     *)
THEOREM TypeCorrect == Spec => []TypeOK
<1>1. BridgeInv => TypeOK
  BY DEF BridgeInv
<1>2. QED
  BY <1>1, BridgeInvariant, PTL

(* No functor waits for the poll to time out: a loop that polls with one    *)
(* queued has a readable eventfd or a thread about to write to it           *)
(* (EventLoop.cc:108-125, 160-190).                                         *)
THEOREM WakeupsAreNotLost == Spec => []NoLostWakeup
<1>1. BridgeInv => NoLostWakeup
  BY DEF BridgeInv, WakeupInv, Noticed, NoLostWakeup
<1>2. QED
  BY <1>1, BridgeInvariant, PTL

(* The assertions of the reactor hold wherever they are evaluated           *)
(* (TcpServer.cc:95, Channel.cc:35, Poller.cc:146-153): no connection is    *)
(* established, closed, erased or destroyed twice or out of turn.           *)
THEOREM AssertionsAlwaysHold == Spec => []AssertionsHold
<1>1. ASSUME BridgeInv
      PROVE  AssertionsHold
  <2> SUFFICES ASSUME NEW l \in Loop
               PROVE  /\ \A c \in Conn :
                            (Handles(l, "read", c) /\ sock[c].arrived = 0)
                                => conn[c].state = "connected"
                      /\ Runs(l, "connectEstablished") =>
                            conn[Head(loop[l].running).conn].state = "connecting"
                      /\ Runs(l, "removeConnection") =>
                            Head(loop[l].running).conn \in connections
                      /\ Runs(l, "connectDestroyed") =>
                            LET c == Head(loop[l].running).conn
                            IN  /\ conn[c].state = "disconnected" /\ conn[c].added
                                /\ ~conn[c].reading /\ ~conn[c].writing
    BY DEF AssertionsHold
  <2> DEFINE c == Head(loop[l].running).conn
  <2>1. \A d \in Conn : Handles(l, "read", d) => conn[d].state = "connected"
    BY <1>1, HandlesConnected
  <2>2. ASSUME Runs(l, "connectEstablished")
        PROVE  conn[c].state = "connecting"
    <3>1. c \in Conn /\ Establishes(c)
      BY <1>1, <2>2, RunsHead DEF Establishes
    <3>2. Stage(c)
      BY <1>1, <3>1 DEF BridgeInv, ConnInv
    <3>3. QED
      BY <3>1, <3>2 DEF Stage, Fresh
  <2>3. ASSUME Runs(l, "removeConnection")
        PROVE  c \in connections
    <3>1. c \in Conn /\ Removed(c)
      BY <1>1, <2>3, RunsHead DEF Removed
    <3>2. Stage(c)
      BY <1>1, <3>1 DEF BridgeInv, ConnInv
    <3>3. QED
      BY <3>1, <3>2 DEF Stage, Fresh
  <2>4. ASSUME Runs(l, "connectDestroyed")
        PROVE  /\ conn[c].state = "disconnected" /\ conn[c].added
               /\ ~conn[c].reading /\ ~conn[c].writing
    <3>1. c \in Conn /\ Destroys(c)
      BY <1>1, <2>4, RunsHead DEF Destroys
    <3>2. Stage(c)
      BY <1>1, <3>1 DEF BridgeInv, ConnInv
    <3>3. QED
      BY <3>1, <3>2 DEF Stage, Fresh
  <2>5. QED
    BY <2>1, <2>2, <2>3, <2>4
<1>2. QED
  BY <1>1, BridgeInvariant, PTL

-----------------------------------------------------------------------------
(* What a session relays, through the functors of its loop and the output   *)
(* buffer to the socket, in order.                                          *)


(* Induction over the numbers, for a set of numbers.                        *)
LEMMA LeastNumber ==
    ASSUME NEW U \in SUBSET Nat, U # {}
    PROVE  \E x \in U : \A y \in U : ~(y < x)
<1>1. \E x \in U : \A y \in U : ~(<<y, x>> \in OpToRel(<, Nat))
  BY ONLY U \in SUBSET Nat, U # {}, NatLessThanWellFounded, WFMin
<1>2. \A x, y \in U : y < x => <<y, x>> \in OpToRel(<, Nat)
  BY DEF OpToRel
<1>3. QED
  BY <1>1, <1>2, Zenon

LEMMA NumbersBySteps ==
    ASSUME NEW T \in SUBSET Nat, 0 \in T, \A n \in T : n + 1 \in T
    PROVE  \A n \in Nat : n \in T
<1> SUFFICES ASSUME Nat \ T # {}
             PROVE  FALSE
  OBVIOUS
<1> DEFINE U == Nat \ T
<1>1. \E x \in U : \A y \in U : ~(y < x)
  <2>1. U \in SUBSET Nat /\ U # {}
    OBVIOUS
  <2> HIDE DEF U
  <2>2. QED
    BY ONLY <2>1, LeastNumber
<1>2. PICK x \in U : \A y \in U : ~(y < x)
  BY <1>1
<1>3. x # 0 /\ x - 1 \in Nat
  BY <1>2
<1>4. x - 1 \in T
  BY <1>2, <1>3
<1>5. QED
  BY <1>3, <1>4

(* The answers of the first n functors that are sends of c.                 *)
Gathers(g, functors, c) ==
    \A n \in 0..Len(functors) :
        g[n] = IF n = 0 THEN <<>>
               ELSE IF functors[n].run = "send" /\ functors[n].conn = c
                    THEN Append(g[n - 1], functors[n].answer)
                    ELSE g[n - 1]

LEMMA SendsAreGathered ==
    ASSUME NEW F, NEW s \in Seq(F), NEW c
    PROVE  \E g : Gathers(g, s, c) /\ SendsIn(s, c) = g[Len(s)]
<1> DEFINE body(g, n) == IF n = 0 THEN <<>>
                         ELSE IF s[n].run = "send" /\ s[n].conn = c
                              THEN Append(g[n - 1], s[n].answer)
                              ELSE g[n - 1]
           T == {k \in Nat : \E g : DOMAIN g = 0..k /\ \A n \in 0..k : g[n] = body(g, n)}
<1>1. 0 \in T
  <2> DEFINE g == [n \in 0..0 |-> <<>>]
  <2>1. DOMAIN g = 0..0 /\ \A n \in 0..0 : g[n] = body(g, n)
    OBVIOUS
  <2>2. QED
    BY <2>1
<1>2. ASSUME NEW k \in T
      PROVE  k + 1 \in T
  <2>1. PICK g : DOMAIN g = 0..k /\ \A n \in 0..k : g[n] = body(g, n)
    OBVIOUS
  <2> DEFINE h == [n \in 0..(k + 1) |-> IF n = k + 1 THEN body(g, k + 1) ELSE g[n]]
  <2>2. DOMAIN h = 0..(k + 1) /\ \A n \in 0..k : h[n] = g[n]
    OBVIOUS
  <2>3. h[k + 1] = body(g, k + 1)
    OBVIOUS
  <2> HIDE DEF h
  <2>4. \A n \in 0..(k + 1) : n = 0 \/ n - 1 \in 0..k
    OBVIOUS
  <2>5. \A n \in 0..(k + 1) : body(h, n) = body(g, n)
    BY <2>2, <2>4
  <2>6. k \in Nat /\ k + 1 \in Nat /\ \A n \in 0..(k + 1) : n \in 0..k \/ n = k + 1
    OBVIOUS
  <2> HIDE DEF body
  <2>7. \A n \in 0..(k + 1) : h[n] = body(h, n)
    BY <2>1, <2>2, <2>3, <2>5, <2>6
  <2>8. QED
    BY <2>2, <2>6, <2>7
<1>3. Len(s) \in T
  <2>1. T \in SUBSET Nat /\ Len(s) \in Nat
    OBVIOUS
  <2> HIDE DEF T
  <2>2. QED
    BY <1>1, <1>2, <2>1, NumbersBySteps
<1>4. PICK g0 : DOMAIN g0 = 0..Len(s) /\ \A n \in 0..Len(s) : g0[n] = body(g0, n)
  BY <1>3
<1> DEFINE g1 == [n \in 0..Len(s) |-> g0[n]]
<1>5. g1 = [n \in 0..Len(s) |-> body(g1, n)]
  <2>1. \A n \in 0..Len(s) : g1[n] = g0[n]
    OBVIOUS
  <2>2. \A n \in 0..Len(s) : n = 0 \/ n - 1 \in 0..Len(s)
    OBVIOUS
  <2>3. \A n \in 0..Len(s) : body(g1, n) = g0[n]
    BY <1>4, <2>1, <2>2
  <2>4. QED
    BY <2>3
<1> DEFINE g == CHOOSE g : g = [n \in 0..Len(s) |-> body(g, n)]
<1>6. g = [n \in 0..Len(s) |-> body(g, n)]
  BY <1>5
<1>7. SendsIn(s, c) = g[Len(s)]
  BY DEF SendsIn
<1>8. Gathers(g, s, c)
  <2> HIDE DEF g
  <2>1. QED
    BY <1>6 DEF Gathers
<1>9. QED
  BY <1>7, <1>8

(* What a queue's sends become when a functor is added, run, or another's.  *)
LEMMA GatheredAlike ==
    ASSUME NEW F, NEW s \in Seq(F), NEW t \in Seq(F), NEW c, NEW g, NEW h,
           Gathers(g, s, c), Gathers(h, t, c), Len(s) <= Len(t),
           \A i \in 1..Len(s) : t[i] = s[i]
    PROVE  g[Len(s)] = h[Len(s)]
<1> DEFINE T == {n \in Nat : n <= Len(s) => g[n] = h[n]}
<1>1. Len(s) \in Nat /\ Len(t) \in Nat
  OBVIOUS
<1>2. 0 \in T
  <2>1. 0 \in 0..Len(s) /\ 0 \in 0..Len(t)
    BY <1>1
  <2>2. g[0] = <<>> /\ h[0] = <<>>
    BY <2>1 DEF Gathers
  <2>3. QED
    BY <2>2
<1>3. ASSUME NEW n \in T
      PROVE  n + 1 \in T
  <2> SUFFICES ASSUME n + 1 <= Len(s)
               PROVE  g[n + 1] = h[n + 1]
    OBVIOUS
  <2>1. /\ n + 1 \in 0..Len(s) /\ n + 1 \in 0..Len(t) /\ n + 1 \in 1..Len(s)
        /\ n + 1 # 0 /\ (n + 1) - 1 = n /\ g[n] = h[n]
    BY <1>1
  <2>2. t[n + 1] = s[n + 1]
    BY <2>1
  <2> DEFINE m == n + 1
  <2>3. /\ g[m] = IF m = 0 THEN <<>>
                  ELSE IF s[m].run = "send" /\ s[m].conn = c
                       THEN Append(g[m - 1], s[m].answer) ELSE g[m - 1]
        /\ h[m] = IF m = 0 THEN <<>>
                  ELSE IF t[m].run = "send" /\ t[m].conn = c
                       THEN Append(h[m - 1], t[m].answer) ELSE h[m - 1]
    BY <2>1 DEF Gathers
  <2> HIDE DEF m
  <2>4. QED
    BY <2>1, <2>2, <2>3 DEF m
<1>4. \A n \in Nat : n \in T
  <2>1. T \in SUBSET Nat
    OBVIOUS
  <2> HIDE DEF T
  <2>2. QED
    BY <1>2, <1>3, <2>1, NumbersBySteps
<1>5. QED
  BY <1>1, <1>4

LEMMA SendsType ==
    ASSUME NEW F, \A f \in F : f.run = "send" => f.answer \in Answer,
           NEW s \in Seq(F), NEW c, NEW g, Gathers(g, s, c)
    PROVE  \A n \in 0..Len(s) : g[n] \in Seq(Answer)
<1> DEFINE T == {n \in Nat : n <= Len(s) => g[n] \in Seq(Answer)}
<1>1. Len(s) \in Nat
  OBVIOUS
<1>2. 0 \in T
  <2>1. 0 \in 0..Len(s)
    BY <1>1
  <2>2. g[0] = <<>>
    BY <2>1 DEF Gathers
  <2>3. <<>> \in Seq(Answer)
    OBVIOUS
  <2>4. QED
    BY <2>2, <2>3
<1>3. ASSUME NEW n \in T
      PROVE  n + 1 \in T
  <2> SUFFICES ASSUME n + 1 <= Len(s)
               PROVE  g[n + 1] \in Seq(Answer)
    OBVIOUS
  <2> DEFINE m == n + 1
  <2>1. /\ m \in 0..Len(s) /\ m # 0 /\ m - 1 = n /\ g[n] \in Seq(Answer) /\ s[m] \in F
    BY <1>1
  <2>2. g[m] = IF m = 0 THEN <<>>
               ELSE IF s[m].run = "send" /\ s[m].conn = c
                    THEN Append(g[m - 1], s[m].answer) ELSE g[m - 1]
    BY <2>1 DEF Gathers
  <2> HIDE DEF m
  <2>3. g[m] \in Seq(Answer)
    BY <2>1, <2>2
  <2>4. QED
    BY <2>3 DEF m
<1>4. \A n \in Nat : n \in T
  <2>1. T \in SUBSET Nat
    OBVIOUS
  <2> HIDE DEF T
  <2>2. QED
    BY <1>2, <1>3, <2>1, NumbersBySteps
<1>5. QED
  BY <1>1, <1>4

LEMMA SendsOfAppend ==
    ASSUME NEW F, NEW s \in Seq(F), NEW f \in F, NEW c
    PROVE  SendsIn(Append(s, f), c) = IF f.run = "send" /\ f.conn = c
                                      THEN Append(SendsIn(s, c), f.answer)
                                      ELSE SendsIn(s, c)
<1> DEFINE t == Append(s, f)
<1>1. /\ t \in Seq(F) /\ Len(s) \in Nat /\ Len(t) = Len(s) + 1 /\ t[Len(s) + 1] = f
      /\ \A i \in 1..Len(s) : t[i] = s[i]
  OBVIOUS
<1> HIDE DEF t
<1>2. PICK g : Gathers(g, s, c) /\ SendsIn(s, c) = g[Len(s)]
  BY SendsAreGathered
<1>3. PICK h : Gathers(h, t, c) /\ SendsIn(t, c) = h[Len(t)]
  BY <1>1, SendsAreGathered
<1>4. g[Len(s)] = h[Len(s)]
  BY <1>1, <1>2, <1>3, GatheredAlike
<1> DEFINE m == Len(s) + 1
<1>5. m \in 0..Len(t) /\ m # 0 /\ m - 1 = Len(s)
  BY <1>1
<1>6. h[m] = IF m = 0 THEN <<>>
             ELSE IF t[m].run = "send" /\ t[m].conn = c
                  THEN Append(h[m - 1], t[m].answer) ELSE h[m - 1]
  BY <1>3, <1>5 DEF Gathers
<1>7. t[m] = f /\ SendsIn(t, c) = h[m]
  BY <1>1, <1>3
<1> HIDE DEF m
<1>8. QED
  BY <1>2, <1>4, <1>5, <1>6, <1>7 DEF t

LEMMA SendsOfTail ==
    ASSUME NEW F, \A f \in F : f.run = "send" => f.answer \in Answer,
           NEW s \in Seq(F), s # <<>>, NEW c
    PROVE  LET f == Head(s) IN
           SendsIn(s, c) = IF f.run = "send" /\ f.conn = c
                           THEN <<f.answer>> \o SendsIn(Tail(s), c)
                           ELSE SendsIn(Tail(s), c)
<1> DEFINE f == Head(s)  t == Tail(s)
           first == IF f.run = "send" /\ f.conn = c THEN <<f.answer>> ELSE <<>>
<1>1. /\ f \in F /\ f = s[1] /\ t \in Seq(F) /\ Len(s) \in Nat /\ Len(t) \in Nat
      /\ Len(t) = Len(s) - 1 /\ Len(s) > 0
      /\ \A i \in 1..Len(t) : t[i] = s[i + 1]
  OBVIOUS
<1> HIDE DEF f, t
<1>2. PICK g : Gathers(g, s, c) /\ SendsIn(s, c) = g[Len(s)]
  BY SendsAreGathered
<1>3. PICK h : Gathers(h, t, c) /\ SendsIn(t, c) = h[Len(t)]
  BY <1>1, SendsAreGathered
<1>4. first \in Seq(Answer)
  BY <1>1
<1>5. /\ \A n \in 0..Len(t) : h[n] \in Seq(Answer)
      /\ \A n \in 0..Len(s) : g[n] \in Seq(Answer)
  BY <1>1, <1>2, <1>3, SendsType
<1> DEFINE T == {n \in Nat : n <= Len(t) => g[n + 1] = first \o h[n]}
<1>6. 0 \in T
  <2>1. 0 \in 0..Len(s) /\ 1 \in 0..Len(s) /\ 0 \in 0..Len(t)
    BY <1>1
  <2>2. g[0] = <<>> /\ h[0] = <<>>
    BY <2>1, <1>2, <1>3 DEF Gathers
  <2>3. g[1] = IF s[1].run = "send" /\ s[1].conn = c
               THEN Append(g[0], s[1].answer) ELSE g[0]
    <3>1. g[1] = IF 1 = 0 THEN <<>>
                 ELSE IF s[1].run = "send" /\ s[1].conn = c
                      THEN Append(g[1 - 1], s[1].answer) ELSE g[1 - 1]
      BY <2>1, <1>2, Zenon DEF Gathers
    <3>2. QED
      BY <3>1
  <2>4. g[1] = first
    BY <1>1, <2>2, <2>3
  <2> HIDE DEF first
  <2>5. first \o h[0] = first
    BY <1>4, <2>2
  <2>6. g[0 + 1] = first \o h[0]
    BY <2>4, <2>5
  <2>7. QED
    BY <2>6
<1> HIDE DEF first
<1>7. ASSUME NEW n \in T
      PROVE  n + 1 \in T
  <2> SUFFICES ASSUME n + 1 <= Len(t)
               PROVE  g[(n + 1) + 1] = first \o h[n + 1]
    OBVIOUS
  <2> DEFINE m == n + 1  k == m + 1
  <2>1. /\ n \in Nat /\ m \in 0..Len(t) /\ k \in 0..Len(s) /\ m # 0 /\ k # 0
        /\ m - 1 = n /\ k - 1 = m /\ n \in 0..Len(t) /\ m \in 1..Len(t)
        /\ g[m] = first \o h[n]
    BY <1>1
  <2>2. g[k] = IF k = 0 THEN <<>>
               ELSE IF s[k].run = "send" /\ s[k].conn = c
                    THEN Append(g[k - 1], s[k].answer) ELSE g[k - 1]
    BY <2>1, <1>2 DEF Gathers
  <2>3. h[m] = IF m = 0 THEN <<>>
               ELSE IF t[m].run = "send" /\ t[m].conn = c
                    THEN Append(h[m - 1], t[m].answer) ELSE h[m - 1]
    BY <2>1, <1>3 DEF Gathers
  <2>4. t[m] = s[k] /\ t[m] \in F
    BY <1>1, <2>1
  <2> HIDE DEF m, k
  <2>5. h[n] \in Seq(Answer)
    BY <1>5, <2>1
  <2>6. CASE t[m].run = "send" /\ t[m].conn = c
    <3>1. g[k] = Append(first \o h[n], t[m].answer) /\ h[m] = Append(h[n], t[m].answer)
      BY <2>1, <2>2, <2>3, <2>4, <2>6
    <3>2. t[m].answer \in Answer
      BY <2>4, <2>6
    <3>3. first \o Append(h[n], t[m].answer) = Append(first \o h[n], t[m].answer)
      BY ONLY <1>4, <2>5, <3>2, AppendedToConcat, SMTT(30)
    <3>4. QED
      BY <3>1, <3>3 DEF m, k
  <2>7. CASE ~(t[m].run = "send" /\ t[m].conn = c)
    <3>1. g[k] = first \o h[n] /\ h[m] = h[n]
      BY <2>1, <2>2, <2>3, <2>4, <2>7
    <3>2. QED
      BY <3>1 DEF m, k
  <2>8. QED
    BY <2>6, <2>7
<1>8. \A n \in Nat : n \in T
  <2>1. T \in SUBSET Nat
    OBVIOUS
  <2> HIDE DEF T
  <2>2. QED
    BY <1>6, <1>7, <2>1, NumbersBySteps
<1>9. g[Len(s)] = first \o h[Len(t)]
  <2>1. Len(t) \in T
    BY ONLY <1>1, <1>8
  <2>2. g[Len(t) + 1] = first \o h[Len(t)] /\ Len(t) + 1 = Len(s)
    BY <1>1, <2>1
  <2>3. QED
    BY <2>1, <2>2
<1>10. SendsIn(s, c) = first \o SendsIn(t, c) /\ SendsIn(t, c) \in Seq(Answer)
  <2>1. Len(t) \in 0..Len(t)
    BY <1>1
  <2>2. QED
    BY <1>2, <1>3, <1>5, <1>9, <2>1
<1>11. <<>> \o SendsIn(t, c) = SendsIn(t, c)
  BY <1>10
<1>12. QED
  BY <1>10, <1>11 DEF first, t, f

(* A queue without a send of c has none of its answers.                     *)
LEMMA NoSends ==
    ASSUME NEW F, NEW s \in Seq(F), NEW c,
           \A i \in 1..Len(s) : ~(s[i].run = "send" /\ s[i].conn = c)
    PROVE  SendsIn(s, c) = <<>>
<1>1. PICK g : Gathers(g, s, c) /\ SendsIn(s, c) = g[Len(s)]
  BY SendsAreGathered
<1> DEFINE T == {n \in Nat : n <= Len(s) => g[n] = <<>>}
<1>2. Len(s) \in Nat
  OBVIOUS
<1>3. 0 \in T
  <2>1. 0 \in 0..Len(s)
    BY <1>2
  <2>2. g[0] = <<>>
    BY <1>1, <2>1 DEF Gathers
  <2>3. QED
    BY <2>2
<1>4. ASSUME NEW n \in T
      PROVE  n + 1 \in T
  <2> SUFFICES ASSUME n + 1 <= Len(s)
               PROVE  g[n + 1] = <<>>
    OBVIOUS
  <2> DEFINE m == n + 1
  <2>1. m \in 0..Len(s) /\ m # 0 /\ m - 1 = n /\ g[n] = <<>> /\ m \in 1..Len(s)
    BY <1>2
  <2>2. g[m] = IF m = 0 THEN <<>>
               ELSE IF s[m].run = "send" /\ s[m].conn = c
                    THEN Append(g[m - 1], s[m].answer) ELSE g[m - 1]
    BY <1>1, <2>1 DEF Gathers
  <2> HIDE DEF m
  <2>3. g[m] = <<>>
    BY <2>1, <2>2
  <2>4. QED
    BY <2>3 DEF m
<1>5. \A n \in Nat : n \in T
  <2>1. T \in SUBSET Nat
    OBVIOUS
  <2> HIDE DEF T
  <2>2. QED
    BY <1>3, <1>4, <2>1, NumbersBySteps
<1>6. QED
  BY <1>1, <1>2, <1>5

(* The pieces of answers.                                                   *)
LEMMA PiecesTypes ==
    ASSUME NEW s \in Seq(Answer)
    PROVE  /\ AllPieces(s) \in Seq(Piece) /\ Len(AllPieces(s)) = 2 * Len(s)
           /\ \A i \in 1..(2 * Len(s)) :
                 AllPieces(s)[i] = <<s[(i + 1) \div 2], 2 - (i % 2)>>
<1>1. Len(s) \in Nat /\ 2 * Len(s) \in Nat
  OBVIOUS
<1>2. ASSUME NEW i \in 1..(2 * Len(s))
      PROVE  <<s[(i + 1) \div 2], 2 - (i % 2)>> \in Piece
  <2>1. (i + 1) \div 2 \in 1..Len(s) /\ 2 - (i % 2) \in {1, 2}
    BY <1>1
  <2>2. QED
    BY <2>1 DEF Piece
<1> DEFINE p == AllPieces(s)
<1>3. p = [i \in 1..(2 * Len(s)) |-> <<s[(i + 1) \div 2], 2 - (i % 2)>>]
  BY DEF AllPieces, Begins
<1> HIDE DEF p
<1>4. p \in Seq(Piece) /\ Len(p) = 2 * Len(s)
  BY <1>1, <1>2, <1>3
<1>5. QED
  BY <1>3, <1>4 DEF p

LEMMA PiecesOfAnswer ==
    ASSUME NEW a \in Answer
    PROVE  /\ Pieces(a) \in Seq(Piece) /\ Len(Pieces(a)) = 2
           /\ Pieces(a)[1] = <<a, 1>> /\ Pieces(a)[2] = <<a, 2>>
BY PiecesType DEF Pieces

LEMMA PiecesOfAppend ==
    ASSUME NEW r \in Seq(Answer), NEW a \in Answer
    PROVE  /\ AllPieces(r) \in Seq(Piece)
           /\ AllPieces(Append(r, a)) = AllPieces(r) \o Pieces(a)
<1> DEFINE t == Append(r, a)
<1>1. /\ t \in Seq(Answer) /\ Len(r) \in Nat /\ Len(t) = Len(r) + 1 /\ t[Len(r) + 1] = a
      /\ \A i \in 1..Len(r) : t[i] = r[i]
  OBVIOUS
<1> HIDE DEF t
<1>2. \A s \in Seq(Answer) :
         /\ AllPieces(s) \in Seq(Piece) /\ Len(AllPieces(s)) = 2 * Len(s)
         /\ \A i \in 1..(2 * Len(s)) :
               AllPieces(s)[i] = <<s[(i + 1) \div 2], 2 - (i % 2)>>
  BY PiecesTypes
<1> DEFINE L == Len(r)
<1>3. L \in Nat /\ 2 * L \in Nat /\ Len(t) = L + 1
  BY <1>1
<1>4. \A i \in 1..(2 * L) : (i + 1) \div 2 \in 1..L
  BY <1>3
<1>5. /\ ((2 * L + 1) + 1) \div 2 = L + 1 /\ (2 * L + 1) % 2 = 1
      /\ ((2 * L + 2) + 1) \div 2 = L + 1 /\ (2 * L + 2) % 2 = 0
  BY <1>3
<1> DEFINE u == AllPieces(r) \o Pieces(a)
<1>6. /\ Pieces(a) \in Seq(Piece) /\ Len(Pieces(a)) = 2
      /\ Pieces(a)[1] = <<a, 1>> /\ Pieces(a)[2] = <<a, 2>>
  BY PiecesOfAnswer
<1>7. /\ u \in Seq(Piece) /\ Len(u) = 2 * L + 2
      /\ \A i \in 1..(2 * L) : u[i] = AllPieces(r)[i]
      /\ u[2 * L + 1] = <<a, 1>> /\ u[2 * L + 2] = <<a, 2>>
  <2>1. AllPieces(r) \in Seq(Piece) /\ Len(AllPieces(r)) = 2 * L
    BY <1>2
  <2> DEFINE p == AllPieces(r)  q == Pieces(a)
  <2> HIDE DEF p, q, L, u
  <2>2. p \in Seq(Piece) /\ q \in Seq(Piece) /\ Len(p) = 2 * L /\ Len(q) = 2
    BY <2>1, <1>6 DEF p, q
  <2>3. p \o q \in Seq(Piece) /\ Len(p \o q) = Len(p) + Len(q)
    BY ONLY <2>2, ConcatProperties
  <2>4. \A i \in 1..(2 * L) : (p \o q)[i] = p[i]
    BY <1>3, <2>2
  <2>5. (p \o q)[2 * L + 1] = q[1] /\ (p \o q)[2 * L + 2] = q[2]
    <3>1. \A i \in 1..Len(q) : (p \o q)[Len(p) + i] = q[i]
      <4>1. \A i \in 1..(Len(p) + Len(q)) :
               (p \o q)[i] = IF i <= Len(p) THEN p[i] ELSE q[i - Len(p)]
        BY ONLY <2>2, ConcatProperties
      <4>2. \A i \in 1..Len(q) : /\ Len(p) + i \in 1..(Len(p) + Len(q))
                                 /\ ~(Len(p) + i <= Len(p)) /\ (Len(p) + i) - Len(p) = i
        BY ONLY <1>3, <2>2
      <4>3. QED
        BY ONLY <4>1, <4>2
    <3>2. 1 \in 1..Len(q) /\ 2 \in 1..Len(q)
      BY ONLY <2>2
    <3>3. (p \o q)[Len(p) + 1] = q[1] /\ (p \o q)[Len(p) + 2] = q[2]
      BY ONLY <3>1, <3>2
    <3>4. QED
      BY ONLY <2>2, <3>3
  <2>6. QED
    BY <1>6, <2>2, <2>3, <2>4, <2>5 DEF p, q, u
<1> DEFINE v == AllPieces(t)
<1>8. /\ v \in Seq(Piece) /\ Len(v) = 2 * L + 2
      /\ \A i \in 1..(2 * L + 2) : v[i] = <<t[(i + 1) \div 2], 2 - (i % 2)>>
  <2>1. 2 * (L + 1) = 2 * L + 2
    BY <1>3
  <2>2. QED
    BY <1>1, <1>2, <1>3, <2>1
<1>9. \A i \in 1..(2 * L) : AllPieces(r)[i] = <<r[(i + 1) \div 2], 2 - (i % 2)>>
  BY <1>2
<1> HIDE DEF L, u, v
<1>10. \A i \in 1..(2 * L) : v[i] = u[i]
  <2>1. \A i \in 1..(2 * L) : i \in 1..(2 * L + 2)
    BY <1>3
  <2>2. \A i \in 1..L : t[i] = r[i]
    BY <1>1 DEF L
  <2>3. QED
    BY ONLY <1>4, <1>7, <1>8, <1>9, <2>1, <2>2
<1>11. v[2 * L + 1] = <<a, 1>> /\ v[2 * L + 2] = <<a, 2>>
  <2>1. 2 * L + 1 \in 1..(2 * L + 2) /\ 2 * L + 2 \in 1..(2 * L + 2)
    BY <1>3
  <2>2. t[L + 1] = a
    BY <1>1 DEF L
  <2>3. /\ v[2 * L + 1] = <<t[L + 1], 2 - 1>>
        /\ v[2 * L + 2] = <<t[L + 1], 2 - 0>>
    BY ONLY <1>5, <1>8, <2>1
  <2>4. QED
    BY <2>2, <2>3
<1>12. \A i \in 1..(2 * L + 2) : i \in 1..(2 * L) \/ i = 2 * L + 1 \/ i = 2 * L + 2
  BY <1>3
<1>13. u = v
  <2>1. \A i \in 1..(2 * L + 2) : u[i] = v[i]
    BY <1>7, <1>10, <1>11, <1>12
  <2>2. QED
    BY ONLY <1>7, <1>8, <2>1, SeqEqual
<1>14. QED
  BY <1>2, <1>13 DEF u, v, t

LEMMA PiecesOfFirst ==
    ASSUME NEW r \in Seq(Answer), NEW a \in Answer
    PROVE  AllPieces(<<a>> \o r) = Pieces(a) \o AllPieces(r)
<1> DEFINE t == <<a>> \o r
<1>1. /\ t \in Seq(Answer) /\ Len(r) \in Nat /\ Len(t) = Len(r) + 1 /\ t[1] = a
      /\ \A i \in 1..Len(r) : t[i + 1] = r[i]
  OBVIOUS
<1> HIDE DEF t
<1>2. \A s \in Seq(Answer) :
         /\ AllPieces(s) \in Seq(Piece) /\ Len(AllPieces(s)) = 2 * Len(s)
         /\ \A i \in 1..(2 * Len(s)) :
               AllPieces(s)[i] = <<s[(i + 1) \div 2], 2 - (i % 2)>>
  BY PiecesTypes
<1> DEFINE L == Len(r)
<1>3. L \in Nat /\ 2 * L \in Nat /\ Len(t) = L + 1
  BY <1>1
<1>4. /\ Pieces(a) \in Seq(Piece) /\ Len(Pieces(a)) = 2
      /\ Pieces(a)[1] = <<a, 1>> /\ Pieces(a)[2] = <<a, 2>>
  BY PiecesOfAnswer
<1> DEFINE u == Pieces(a) \o AllPieces(r)
<1>5. /\ u \in Seq(Piece) /\ Len(u) = 2 * L + 2
      /\ u[1] = <<a, 1>> /\ u[2] = <<a, 2>>
      /\ \A i \in 1..(2 * L) : u[i + 2] = AllPieces(r)[i]
  <2>1. AllPieces(r) \in Seq(Piece) /\ Len(AllPieces(r)) = 2 * L
    BY <1>2
  <2> DEFINE p == AllPieces(r)  q == Pieces(a)
  <2> HIDE DEF p, q, L, u
  <2>2. p \in Seq(Piece) /\ q \in Seq(Piece) /\ Len(p) = 2 * L /\ Len(q) = 2
    BY <2>1, <1>4 DEF p, q
  <2>3. /\ q \o p \in Seq(Piece) /\ Len(q \o p) = Len(q) + Len(p)
        /\ \A i \in 1..(Len(q) + Len(p)) :
              (q \o p)[i] = IF i <= Len(q) THEN q[i] ELSE p[i - Len(q)]
    BY ONLY <2>2, ConcatProperties
  <2>4. /\ 1 \in 1..(2 + 2 * L) /\ 2 \in 1..(2 + 2 * L) /\ 2 + 2 * L = 2 * L + 2
        /\ \A i \in 1..(2 * L) : /\ i + 2 \in 1..(2 + 2 * L)
                                 /\ ~(i + 2 <= 2) /\ (i + 2) - 2 = i
    BY <1>3
  <2>5. (q \o p)[1] = q[1] /\ (q \o p)[2] = q[2]
    BY ONLY <2>2, <2>3, <2>4
  <2>6. \A i \in 1..(2 * L) : (q \o p)[i + 2] = p[i]
    BY ONLY <2>2, <2>3, <2>4
  <2>7. QED
    BY <1>4, <2>2, <2>3, <2>4, <2>5, <2>6 DEF p, q, u
<1> DEFINE v == AllPieces(t)
<1>6. /\ v \in Seq(Piece) /\ Len(v) = 2 * L + 2
      /\ \A i \in 1..(2 * L + 2) : v[i] = <<t[(i + 1) \div 2], 2 - (i % 2)>>
  <2>1. 2 * (L + 1) = 2 * L + 2
    BY <1>3
  <2>2. QED
    BY <1>1, <1>2, <1>3, <2>1
<1>7. \A i \in 1..(2 * L) : AllPieces(r)[i] = <<r[(i + 1) \div 2], 2 - (i % 2)>>
  BY <1>2
<1> HIDE DEF L, u, v
<1>8. \A i \in 1..(2 * L) : v[i + 2] = u[i + 2]
  <2>1. \A i \in 1..(2 * L) :
           /\ i + 2 \in 1..(2 * L + 2) /\ (i + 1) \div 2 \in 1..L
           /\ ((i + 2) + 1) \div 2 = ((i + 1) \div 2) + 1 /\ (i + 2) % 2 = i % 2
    BY <1>3
  <2>2. \A i \in 1..L : t[i + 1] = r[i]
    BY <1>1 DEF L
  <2>3. ASSUME NEW i \in 1..(2 * L)
        PROVE  v[i + 2] = u[i + 2]
    <3> DEFINE j == (i + 1) \div 2
    <3>1. i + 2 \in 1..(2 * L + 2) /\ j \in 1..L
          /\ ((i + 2) + 1) \div 2 = j + 1 /\ (i + 2) % 2 = i % 2
      BY ONLY <2>1
    <3>2. v[i + 2] = <<t[((i + 2) + 1) \div 2], 2 - ((i + 2) % 2)>>
      BY ONLY <1>6, <3>1
    <3>3. u[i + 2] = <<r[j], 2 - (i % 2)>>
      BY ONLY <1>5, <1>7
    <3> HIDE DEF j
    <3>4. t[j + 1] = r[j]
      BY ONLY <2>2, <3>1
    <3>5. QED
      BY ONLY <3>1, <3>2, <3>3, <3>4
  <2>4. QED
    BY <2>3
<1>9. v[1] = <<a, 1>> /\ v[2] = <<a, 2>>
  <2>1. /\ 1 \in 1..(2 * L + 2) /\ 2 \in 1..(2 * L + 2)
        /\ (1 + 1) \div 2 = 1 /\ 1 % 2 = 1 /\ (2 + 1) \div 2 = 1 /\ 2 % 2 = 0
    BY <1>3
  <2>2. v[1] = <<t[1], 2 - 1>> /\ v[2] = <<t[1], 2 - 0>>
    BY ONLY <1>6, <2>1
  <2>3. QED
    BY <1>1, <2>2
<1>10. \A i \in 1..(2 * L + 2) : i = 1 \/ i = 2 \/ (i - 2 \in 1..(2 * L) /\ (i - 2) + 2 = i)
  BY <1>3
<1>11. \A i \in 1..(2 * L + 2) : u[i] = v[i]
  <2>1. ASSUME NEW i \in 1..(2 * L + 2), i # 1, i # 2
        PROVE  u[i] = v[i]
    <3>1. i - 2 \in 1..(2 * L) /\ (i - 2) + 2 = i
      BY <1>10, <2>1
    <3>2. v[(i - 2) + 2] = u[(i - 2) + 2]
      BY ONLY <1>8, <3>1
    <3>3. QED
      BY ONLY <3>1, <3>2
  <2>2. QED
    BY <1>5, <1>9, <2>1
<1>12. u = v
  BY ONLY <1>5, <1>6, <1>11, SeqEqual
<1>13. QED
  BY <1>12 DEF u, v, t

(* Nothing has been written or relayed before a connection is established.  *)
Unused(c) ==
    conn[c].state \in {"none", "connecting"} =>
        session[c].relayed = <<>> /\ sock[c].out = <<>> /\ conn[c].outputBuffer = <<>>

StreamInv == \A c \in Conn : InOrder(c) /\ Unused(c)

(* What the order of a connection's answers is made of.                     *)
SameStream(c) ==
    /\ session'[c].relayed = session[c].relayed
    /\ sock'[c].out = sock[c].out
    /\ conn'[c].outputBuffer = conn[c].outputBuffer
    /\ QueuedSends(c)' = QueuedSends(c)
    /\ InHand(c)' = InHand(c)

LEMMA StreamTypes ==
    ASSUME BridgeInv, NEW c \in Conn
    PROVE  /\ session[c].relayed \in Seq(Answer)
           /\ AllPieces(session[c].relayed) \in Seq(Piece)
           /\ sock[c].out \in Seq(Piece) /\ conn[c].outputBuffer \in Seq(Piece)
           /\ QueuedSends(c) = SendsIn(Queue(LoopOf(c)), c)
           /\ QueuedSends(c) \in Seq(Answer) /\ InHand(c) \in Seq(Answer)
           /\ QueuedSends(c) \o InHand(c) \in Seq(Answer)
           /\ AllPieces(QueuedSends(c) \o InHand(c)) \in Seq(Piece)
<1>1. session[c] \in SessionState /\ sock[c] \in SocketState /\ conn[c] \in ConnState
  BY DEF BridgeInv, TypeOK
<1>2. /\ session[c].relayed \in Seq(Answer)
      /\ sock[c].out \in Seq(Piece) /\ conn[c].outputBuffer \in Seq(Piece)
  BY <1>1 DEF SessionState, SocketState, ConnState
<1>3. QueuedSends(c) = SendsIn(Queue(LoopOf(c)), c)
  BY DEF QueuedSends, Queue
<1>4. QueuedSends(c) \in Seq(Answer)
  <2> DEFINE F == FunctorsOf(LoopOf(c))  q == Queue(LoopOf(c))
  <2>1. q \in Seq(F) /\ \A f \in F : f.run = "send" => f.answer \in Answer
    BY LoopNumbers, QueueType, FunctorsAtHome DEF BridgeInv
  <2> HIDE DEF F, q
  <2>2. PICK g : Gathers(g, q, c) /\ SendsIn(q, c) = g[Len(q)]
    BY ONLY <2>1, SendsAreGathered
  <2>3. \A n \in 0..Len(q) : g[n] \in Seq(Answer)
    BY ONLY <2>1, <2>2, SendsType
  <2>4. Len(q) \in 0..Len(q)
    BY <2>1
  <2>5. QED
    BY <1>3, <2>2, <2>3, <2>4 DEF q
<1>5. InHand(c) \in Seq(Answer)
  <2>1. session[c].pull = "queue" => session[c].hand \in Answer
    BY DEF BridgeInv, SessionInv
  <2>2. QED
    BY <2>1 DEF InHand
<1>6. QueuedSends(c) \o InHand(c) \in Seq(Answer)
  BY <1>4, <1>5, ConcatProperties
<1>7. QED
  BY <1>2, <1>3, <1>4, <1>5, <1>6, PiecesTypes

LEMMA StreamKept ==
    ASSUME NEW c \in Conn, SameStream(c), InOrder(c), up' = up,
           conn'[c].state = conn[c].state
    PROVE  InOrder(c)'
BY DEF InOrder, SameStream

(* A connection that is closed, or a server that has died: what was written *)
(* is the beginning of what was relayed.                                    *)
LEMMA WrittenIsPrefix ==
    ASSUME BridgeInv, NEW c \in Conn, InOrder(c)
    PROVE  Begins(sock[c].out, AllPieces(session[c].relayed))
<1>1. CASE up /\ conn[c].state = "connected"
  <2> DEFINE r == AllPieces(session[c].relayed)
             w == sock[c].out
             b == conn[c].outputBuffer
             q == AllPieces(QueuedSends(c) \o InHand(c))
  <2>1. r = w \o b \o q
    BY <1>1 DEF InOrder
  <2>2. r \in Seq(Piece) /\ w \in Seq(Piece) /\ b \in Seq(Piece) /\ q \in Seq(Piece)
    BY StreamTypes
  <2> HIDE DEF r, w, b, q
  <2>3. r = w \o (b \o q) /\ b \o q \in Seq(Piece)
    BY ONLY <2>1, <2>2, ConcatAssociative, ConcatProperties
  <2> DEFINE t == b \o q
  <2>4. r = w \o t /\ t \in Seq(Piece)
    BY <2>3
  <2> HIDE DEF t
  <2>5. Len(r) = Len(w) + Len(t) /\ \A i \in 1..Len(w) : r[i] = w[i]
    BY ONLY <2>2, <2>4
  <2>6. QED
    BY <2>2, <2>4, <2>5 DEF r, w, Begins
<1>2. CASE ~(up /\ conn[c].state = "connected")
  BY <1>2 DEF InOrder
<1>3. QED
  BY <1>1, <1>2

LEMMA ClosedKept ==
    ASSUME BridgeInv, NEW c \in Conn, InOrder(c),
           ~up' \/ conn'[c].state # "connected",
           sock'[c].out = sock[c].out, session'[c].relayed = session[c].relayed
    PROVE  InOrder(c)'
<1>1. Begins(sock[c].out, AllPieces(session[c].relayed))
  BY WrittenIsPrefix
<1>2. QED
  BY <1>1 DEF InOrder

LEMMA UnusedKept ==
    ASSUME NEW c \in Conn, Unused(c), SameStream(c),
           conn'[c].state \in {"none", "connecting"} => conn[c].state \in {"none", "connecting"}
    PROVE  Unused(c)'
BY DEF Unused, SameStream

(* The sends of a connection in its loop's queue.                           *)
LEMMA SendsKeptByAppend ==
    ASSUME BridgeInv, NEW c \in Conn, NEW l \in Loop, NEW f \in FunctorsOf(l),
           loop'[l].pending = Append(loop[l].pending, f),
           loop'[l].running = loop[l].running,
           \A m \in Loop \ {l} : Queue(m)' = Queue(m),
           ~(f.run = "send" /\ f.conn = c)
    PROVE  QueuedSends(c)' = QueuedSends(c)
<1>1. QueuedSends(c) = SendsIn(Queue(LoopOf(c)), c) /\ QueuedSends(c)' = SendsIn(Queue(LoopOf(c))', c)
  BY DEF QueuedSends, Queue
<1>2. CASE LoopOf(c) # l
  BY <1>1, <1>2, LoopNumbers
<1>3. CASE LoopOf(c) = l
  <2>1. Queue(l)' = Append(Queue(l), f) /\ Queue(l) \in Seq(FunctorsOf(l))
    BY AppendedCalls, QueueType DEF BridgeInv
  <2>2. SendsIn(Append(Queue(l), f), c) = SendsIn(Queue(l), c)
    <3> DEFINE F == FunctorsOf(l)  q == Queue(l)
    <3>1. q \in Seq(F) /\ f \in F
      BY <2>1
    <3> HIDE DEF F, q
    <3>2. SendsIn(Append(q, f), c) = SendsIn(q, c)
      BY <3>1, SendsOfAppend
    <3>3. QED
      BY <3>2 DEF q
  <2>3. QED
    BY <1>1, <1>3, <2>1, <2>2
<1>4. QED
  BY <1>2, <1>3

LEMMA SendsKeptByRun ==
    ASSUME BridgeInv, NEW c \in Conn, NEW l \in Loop, loop[l].running # <<>>,
           loop'[l].pending = loop[l].pending,
           loop'[l].running = Tail(loop[l].running),
           \A m \in Loop \ {l} : Queue(m)' = Queue(m),
           ~(Head(loop[l].running).run = "send" /\ Head(loop[l].running).conn = c)
    PROVE  QueuedSends(c)' = QueuedSends(c)
<1>1. QueuedSends(c) = SendsIn(Queue(LoopOf(c)), c) /\ QueuedSends(c)' = SendsIn(Queue(LoopOf(c))', c)
  BY DEF QueuedSends, Queue
<1>2. CASE LoopOf(c) # l
  BY <1>1, <1>2, LoopNumbers
<1>3. CASE LoopOf(c) = l
  <2>1. /\ Queue(l) # <<>> /\ Head(loop[l].running) = Head(Queue(l))
        /\ Queue(l)' = Tail(Queue(l)) /\ Queue(l) \in Seq(FunctorsOf(l))
    BY RanCalls, QueueType DEF BridgeInv
  <2>2. SendsIn(Queue(l), c) = SendsIn(Tail(Queue(l)), c)
    <3> DEFINE F == FunctorsOf(l)  q == Queue(l)
    <3>1. /\ q \in Seq(F) /\ q # <<>>
          /\ \A f \in F : f.run = "send" => f.answer \in Answer
          /\ ~(Head(q).run = "send" /\ Head(q).conn = c)
      BY <1>3, <2>1, FunctorsAtHome, LoopNumbers
    <3> HIDE DEF F, q
    <3>2. SendsIn(q, c) = SendsIn(Tail(q), c)
      BY ONLY <3>1, SendsOfTail
    <3>3. QED
      BY <3>2 DEF q
  <2>3. QED
    BY <1>1, <1>3, <2>1, <2>2
<1>4. QED
  BY <1>2, <1>3

LEMMA SendsKeptByQueues ==
    ASSUME \A m \in Loop : Queue(m)' = Queue(m), NEW c \in Conn
    PROVE  QueuedSends(c)' = QueuedSends(c)
BY LoopNumbers DEF QueuedSends, Queue

LEMMA QuietStream ==
    ASSUME StreamInv, up' = up,
           \A c \in Conn : SameStream(c) /\ conn'[c].state = conn[c].state
    PROVE  StreamInv'
BY StreamKept, UnusedKept DEF StreamInv

(* Clients, nodes and the PULL threads: nothing on its way to a client.     *)
LEMMA EnvironmentStream ==
    ASSUME BridgeInv, StreamInv, Environment
    PROVE  StreamInv'
<1>1. UNCHANGED <<conn, loop, up>>
  BY DEF Environment, Connect, SendLine, HangUp, AnswerLine
<1>2. \A c \in Conn : QueuedSends(c)' = QueuedSends(c)
  BY <1>1 DEF QueuedSends
<1> DEFINE Same(c) == /\ sock'[c].out = sock[c].out
                      /\ session'[c].relayed = session[c].relayed
                      /\ session'[c].pull = session[c].pull
                      /\ session'[c].hand = session[c].hand
<1>3. \A c \in Conn : Same(c)
  <2>1. CASE Connect
    <3>1. session' = session
      BY <2>1 DEF Connect
    <3>2. PICK d \in Conn : /\ OtherSocks({d})
                            /\ SockIs(d, "open", sock[d].arrived, sock[d].read, sock[d].out)
      BY <2>1, ConnectEffect
    <3>3. QED
      BY <3>1, <3>2 DEF OtherSocks, SockIs
  <2>2. ASSUME NEW d \in Conn, SendLine(d)
        PROVE  \A c \in Conn : Same(c)
    <3>1. session' = session
      BY <2>2 DEF SendLine
    <3>2. QED
      BY <2>2, <3>1, SendLineSock DEF OtherSocks, SockIs
  <2>3. ASSUME NEW d \in Conn, HangUp(d)
        PROVE  \A c \in Conn : Same(c)
    <3>1. session' = session
      BY <2>3 DEF HangUp
    <3>2. QED
      BY <2>3, <3>1, HangUpSock DEF OtherSocks, SockIs
  <2>4. ASSUME NEW d \in Conn, AnswerLine(d)
        PROVE  \A c \in Conn : Same(c)
    <3>1. sock' = sock
      BY <2>4 DEF AnswerLine
    <3>2. QED
      BY <2>4, <3>1, AnswerLineEffect DEF SessionIs
  <2>5. QED
    BY <2>1, <2>2, <2>3, <2>4 DEF Environment
<1>4. QED
  BY <1>1, <1>2, <1>3, QuietStream DEF SameStream, InHand

(* The steps of a loop that queue, run and write nothing.                   *)
LEMMA QuietLoopStream ==
    ASSUME BridgeInv, StreamInv, NEW l \in Loop,
           \/ Poll(l) \/ HandleWakeup(l) \/ SwapFunctors(l) \/ FunctorsDone(l) \/ Wakeup(l)
           \/ TestCounter(l) \/ StoreCounter(l)
    PROVE  StreamInv'
<1>1. UNCHANGED <<sock, conn, session, up>>
  BY DEF Poll, HandleWakeup, SwapFunctors, FunctorsDone, Wakeup, TestCounter, StoreCounter
<1>2. \A m \in Loop : Queue(m)' = Queue(m)
  <2>1. CASE Poll(l)
    BY <2>1, PollEffect, QueuesKept DEF LoopIs
  <2>2. CASE HandleWakeup(l)
    BY <2>2, HandleWakeupEffect, QueuesKept DEF LoopIs
  <2>3. CASE SwapFunctors(l)
    <3>1. /\ OtherLoops({l}) /\ loop'[l].pending = <<>> /\ loop'[l].running = loop[l].pending
      BY <2>3, SwapFunctorsEffect DEF LoopIs
    <3>2. loop[l].at = "events"
      BY <2>3 DEF SwapFunctors, At
    <3>3. loop[l].running = <<>>
      BY <3>2 DEF BridgeInv, LoopInv, Orderly
    <3>4. QED
      BY <3>1, <3>3, QueueKept DEF BridgeInv, OtherLoops, Queue
  <2>4. CASE FunctorsDone(l)
    BY <2>4, FunctorsDoneEffect, QueuesKept DEF LoopIs
  <2>5. CASE Wakeup(l)
    <3> DEFINE k == Woken(l, loop[l].conn)
    <3>1. /\ OtherLoops({k, l})
          /\ loop'[k].pending = loop[k].pending /\ loop'[k].running = loop[k].running
          /\ loop'[l].pending = loop[l].pending /\ loop'[l].running = loop[l].running
      BY <2>5, WakeupEffect DEF LoopIs
    <3> HIDE DEF k
    <3>2. QED
      BY <3>1, QueuesKept
  <2>6. CASE TestCounter(l)
    BY <2>6, TestCounterEffect, QueuesKept DEF LoopIs
  <2>7. CASE StoreCounter(l)
    BY <2>7, StoreCounterEffect, QueuesKept DEF LoopIs
  <2>8. QED
    BY <2>1, <2>2, <2>3, <2>4, <2>5, <2>6, <2>7
<1>3. \A c \in Conn : QueuedSends(c)' = QueuedSends(c)
  BY <1>2, SendsKeptByQueues
<1>4. QED
  BY <1>1, <1>3, QuietStream DEF SameStream, InHand

LEMMA ReadStream ==
    ASSUME BridgeInv, StreamInv, NEW l \in Loop, NEW c \in Conn, HandleRead(l, c)
    PROVE  StreamInv'
<1>1. UNCHANGED <<conn, session, up>>
  BY DEF HandleRead
<1>2. \A m \in Loop : Queue(m)' = Queue(m)
  BY HandleReadEffect, QueuesKept DEF LoopIs
<1>3. \A d \in Conn : sock'[d].out = sock[d].out
  BY HandleReadSock DEF OtherSocks, SockIs
<1>4. \A d \in Conn : QueuedSends(d)' = QueuedSends(d)
  BY <1>2, SendsKeptByQueues
<1>5. QED
  BY <1>1, <1>3, <1>4, QuietStream DEF SameStream, InHand

LEMMA CloseStream ==
    ASSUME BridgeInv, StreamInv, NEW l \in Loop, NEW c \in Conn, HandleClose(l, c)
    PROVE  StreamInv'
<1>1. UNCHANGED <<sock, session, up>>
  BY DEF HandleClose
<1>2. /\ \A d \in Conn \ {c} : conn'[d] = conn[d]
      /\ conn'[c].state = "disconnected"
  BY HandleCloseConn DEF OtherConns, ConnIs
<1>3. \A m \in Loop : Queue(m)' = Queue(m)
  BY HandleCloseEffect, QueuesKept DEF LoopIs
<1>4. \A d \in Conn : QueuedSends(d)' = QueuedSends(d)
  BY <1>3, SendsKeptByQueues
<1>5. \A d \in Conn \ {c} : SameStream(d)
  BY <1>1, <1>2, <1>4 DEF SameStream, InHand
<1>6. \A d \in Conn \ {c} : InOrder(d)' /\ Unused(d)'
  BY <1>1, <1>2, <1>5, StreamKept, UnusedKept DEF StreamInv
<1>7. InOrder(c)' /\ Unused(c)'
  BY <1>1, <1>2, ClosedKept DEF StreamInv, Unused
<1>8. QED
  BY <1>6, <1>7 DEF StreamInv

LEMMA JoinStream ==
    ASSUME BridgeInv, StreamInv, NEW l \in Loop, JoinPull(l)
    PROVE  StreamInv'
<1>1. UNCHANGED <<sock, conn, up>>
  BY DEF JoinPull
<1>2. \A m \in Loop : Queue(m)' = Queue(m)
  BY JoinPullEffect, QueuesKept DEF LoopIs
<1>3. \A d \in Conn :
         /\ session'[d].relayed = session[d].relayed
         /\ session'[d].pull = session[d].pull /\ session'[d].hand = session[d].hand
  BY JoinPullSession DEF OtherSessions, SessionIs
<1>4. \A d \in Conn : QueuedSends(d)' = QueuedSends(d)
  BY <1>2, SendsKeptByQueues
<1>5. QED
  BY <1>1, <1>3, <1>4, QuietStream DEF SameStream, InHand

(* Functors that are not sends come and go.                                 *)
LEMMA RemoveStream ==
    ASSUME BridgeInv, StreamInv, NEW l \in Loop, RemoveConnection(l)
    PROVE  StreamInv'
<1>1. UNCHANGED <<sock, conn, session, up>>
  BY DEF RemoveConnection
<1>2. PICK c \in Conn : c = loop[l].conn
  BY RemoveConnectionEffect
<1> DEFINE f == Call("removeConnection", c)
<1>3. /\ OtherLoops({Base, l}) /\ Base \in Loop /\ l # Base /\ f \in FunctorsOf(Base)
      /\ loop'[Base].pending = Append(loop[Base].pending, f)
      /\ loop'[Base].running = loop[Base].running
      /\ loop'[l].pending = loop[l].pending /\ loop'[l].running = loop[l].running
  BY <1>2, RemoveConnectionEffect DEF LoopIs
<1>4. \A m \in Loop \ {Base} : Queue(m)' = Queue(m)
  BY <1>3 DEF OtherLoops, Queue
<1>5. f.run # "send"
  BY CallFields
<1> HIDE DEF f
<1>6. \A d \in Conn : QueuedSends(d)' = QueuedSends(d)
  BY <1>3, <1>4, <1>5, SendsKeptByAppend
<1>7. QED
  BY <1>1, <1>6, QuietStream DEF SameStream, InHand

LEMMA RemoveInLoopStream ==
    ASSUME BridgeInv, StreamInv, RemoveConnectionInLoop
    PROVE  StreamInv'
<1>1. UNCHANGED <<sock, conn, session, up>> /\ Runs(Base, "removeConnection") /\ Base \in Loop
  BY LoopNumbers DEF RemoveConnectionInLoop
<1>2. PICK c \in Conn : c = Head(loop[Base].running).conn
  BY RemoveConnectionInLoopEffect
<1> DEFINE k == LoopOf(c)
           f == Call("connectDestroyed", c)
<1>3. /\ OtherLoops({k, Base}) /\ k \in Loop /\ k # Base /\ f \in FunctorsOf(k)
      /\ loop'[k].pending = Append(loop[k].pending, f)
      /\ loop'[k].running = loop[k].running
  BY <1>2, RemoveConnectionInLoopEffect DEF LoopIs
<1>4. f.run # "send"
  BY CallFields
<1> HIDE DEF f
<1>5. \A d \in Conn : QueuedSends(d)' = QueuedSends(d)
  <2> TAKE d \in Conn
  <2> DEFINE m == LoopOf(d)
  <2>1. m \in Loop /\ m # Base
    BY LoopNumbers
  <2>2. QueuedSends(d) = SendsIn(Queue(m), d) /\ QueuedSends(d)' = SendsIn(Queue(m)', d)
    BY DEF QueuedSends, Queue
  <2> HIDE DEF m
  <2>3. CASE m # k
    BY <1>3, <2>1, <2>2, <2>3 DEF OtherLoops, Queue
  <2>4. CASE m = k
    <3>1. Queue(k)' = Append(Queue(k), f) /\ Queue(k) \in Seq(FunctorsOf(k))
      BY <1>3, AppendedCalls, QueueType DEF BridgeInv
    <3> DEFINE F == FunctorsOf(k)  q == Queue(k)
    <3>2. q \in Seq(F) /\ f \in F
      BY <1>3, <3>1
    <3> HIDE DEF F, q
    <3>3. SendsIn(Append(q, f), d) = SendsIn(q, d)
      BY <1>4, <3>2, SendsOfAppend
    <3>4. QED
      BY <2>2, <2>4, <3>1, <3>3 DEF q
  <2>5. QED
    BY <2>3, <2>4
<1>6. QED
  BY <1>1, <1>5, QuietStream DEF SameStream, InHand

LEMMA DestroyedStream ==
    ASSUME BridgeInv, StreamInv, NEW l \in Loop, ConnectDestroyed(l)
    PROVE  StreamInv'
<1>1. UNCHANGED <<sock, session, up>> /\ Runs(l, "connectDestroyed")
  BY DEF ConnectDestroyed
<1>2. \A d \in Conn : /\ conn'[d].state = conn[d].state
                      /\ conn'[d].outputBuffer = conn[d].outputBuffer
  BY ConnectDestroyedConn DEF OtherConns, ConnIs
<1>3. /\ OtherLoops({l}) /\ loop'[l].pending = loop[l].pending
      /\ loop'[l].running = Tail(loop[l].running)
  BY ConnectDestroyedEffect DEF LoopIs
<1>4. loop[l].running # <<>> /\ Head(loop[l].running).run # "send"
  BY <1>1, RunsHead
<1>5. \A m \in Loop \ {l} : Queue(m)' = Queue(m)
  BY <1>3 DEF OtherLoops, Queue
<1>6. \A d \in Conn : QueuedSends(d)' = QueuedSends(d)
  BY <1>3, <1>4, <1>5, SendsKeptByRun
<1>7. QED
  BY <1>1, <1>2, <1>6, QuietStream DEF SameStream, InHand

LEMMA AcceptStream ==
    ASSUME BridgeInv, StreamInv, NEW c \in Conn, Accept(c)
    PROVE  StreamInv'
<1>1. UNCHANGED <<sock, session, up>>
  BY DEF Accept
<1> DEFINE k == LoopOf(c)
           f == Call("connectEstablished", c)
<1>2. /\ OtherLoops({k, Base}) /\ k \in Loop /\ k # Base /\ f \in FunctorsOf(k)
      /\ loop'[k].pending = Append(loop[k].pending, f)
      /\ loop'[k].running = loop[k].running
      /\ loop'[Base].pending = loop[Base].pending /\ loop'[Base].running = loop[Base].running
  BY AcceptEffect DEF LoopIs
<1>3. /\ \A d \in Conn \ {c} : conn'[d] = conn[d]
      /\ conn'[c].state = "connecting" /\ conn'[c].outputBuffer = conn[c].outputBuffer
  BY AcceptConn DEF OtherConns, ConnIs
<1>4. f.run # "send"
  BY CallFields
<1> HIDE DEF f
<1>5. \A m \in Loop \ {k} : Queue(m)' = Queue(m)
  BY <1>2 DEF OtherLoops, Queue
<1>6. \A d \in Conn : QueuedSends(d)' = QueuedSends(d)
  BY <1>2, <1>4, <1>5, SendsKeptByAppend
<1>7. \A d \in Conn : SameStream(d)
  BY <1>1, <1>3, <1>6 DEF SameStream, InHand
<1>8. \A d \in Conn \ {c} : InOrder(d)' /\ Unused(d)'
  BY <1>1, <1>3, <1>7, StreamKept, UnusedKept DEF StreamInv
<1>9. conn[c].state = "none"
  <2>1. Ready("accept", c) \in loop[Base].active
    BY DEF Accept, Handles
  <2>2. backlog # <<>> /\ Head(backlog) = c /\ backlog \in Seq(Conn)
    BY <2>1 DEF BridgeInv, BacklogInv, TypeOK
  <2>3. 1 \in 1..Len(backlog) /\ backlog[1] = c
    BY <2>2
  <2>4. QED
    BY <2>3 DEF BridgeInv, BacklogInv
<1>10. InOrder(c)' /\ Unused(c)'
  BY <1>1, <1>3, <1>7, <1>9, ClosedKept, UnusedKept DEF StreamInv
<1>11. QED
  BY <1>8, <1>10 DEF StreamInv

LEMMA EstablishedStream ==
    ASSUME BridgeInv, StreamInv, NEW l \in Loop, ConnectEstablished(l)
    PROVE  StreamInv'
<1>1. UNCHANGED <<sock, up>> /\ Runs(l, "connectEstablished") /\ up
  BY DEF ConnectEstablished, Runs, At
<1>2. PICK c \in Conn : c = Head(loop[l].running).conn
  BY <1>1, RunsHead
<1>3. /\ \A d \in Conn \ {c} : conn'[d] = conn[d] /\ session'[d] = session[d]
      /\ conn'[c].state = "connected" /\ conn'[c].outputBuffer = conn[c].outputBuffer
      /\ session'[c].pull = "poll" /\ session'[c].relayed = session[c].relayed
  BY <1>2, ConnectEstablishedConn, ConnectEstablishedSession
     DEF OtherConns, OtherSessions, ConnIs, SessionIs
<1>4. /\ OtherLoops({l}) /\ loop'[l].pending = loop[l].pending
      /\ loop'[l].running = Tail(loop[l].running)
  BY ConnectEstablishedEffect DEF LoopIs
<1>5. /\ loop[l].running # <<>> /\ Head(loop[l].running).run # "send"
      /\ Has(l, Call("connectEstablished", c)) /\ LoopOf(c) = l
  BY <1>1, <1>2, RunsHead
<1>6. \A m \in Loop \ {l} : Queue(m)' = Queue(m)
  BY <1>4 DEF OtherLoops, Queue
<1>7. \A d \in Conn : QueuedSends(d)' = QueuedSends(d)
  BY <1>4, <1>5, <1>6, SendsKeptByRun
<1>8. \A d \in Conn \ {c} : SameStream(d)
  BY <1>1, <1>3, <1>7 DEF SameStream, InHand
<1>9. \A d \in Conn \ {c} : InOrder(d)' /\ Unused(d)'
  BY <1>1, <1>3, <1>8, StreamKept, UnusedKept DEF StreamInv
<1>10. conn[c].state = "connecting"
  <2>1. Establishes(c)
    BY <1>5 DEF Establishes
  <2>2. Stage(c)
    BY DEF BridgeInv, ConnInv
  <2>3. QED
    BY <2>1, <2>2 DEF Stage, Fresh
<1>11. session[c].relayed = <<>> /\ sock[c].out = <<>> /\ conn[c].outputBuffer = <<>>
  BY <1>10 DEF StreamInv, Unused
<1>12. QueuedSends(c) = <<>>
  <2> DEFINE F == FunctorsOf(l)  q == Queue(l)
  <2>1. q \in Seq(F)
    BY QueueType DEF BridgeInv
  <2>2. ASSUME NEW i \in 1..Len(q)
        PROVE  ~(q[i].run = "send" /\ q[i].conn = c)
    <3>1. q[i] \in F
      BY ONLY <2>1
    <3>2. Has(l, q[i])
      BY DEF Has, In
    <3>3. QED
      BY <1>10, <3>1, <3>2 DEF BridgeInv, SendsInv
  <2> HIDE DEF F, q
  <2>3. SendsIn(q, c) = <<>>
    BY ONLY <2>1, <2>2, NoSends
  <2>4. QED
    BY <1>5, <2>3 DEF QueuedSends, Queue, q
<1>13. InOrder(c)'
  <2>1. QueuedSends(c)' = <<>> /\ InHand(c)' = <<>>
    BY <1>3, <1>7, <1>12 DEF InHand
  <2>2. AllPieces(<<>>) = <<>>
    BY DEF AllPieces
  <2>3. <<>> \o <<>> = <<>>
    OBVIOUS
  <2>4. (AllPieces(QueuedSends(c) \o InHand(c)))' = <<>>
    BY <2>1, <2>2, <2>3
  <2>5. AllPieces(session'[c].relayed) = <<>>
    BY <1>3, <1>11, <2>2
  <2>6. sock'[c].out = <<>> /\ conn'[c].outputBuffer = <<>>
    BY <1>1, <1>3, <1>11
  <2>7. QED
    BY <1>1, <1>3, <2>3, <2>4, <2>5, <2>6 DEF InOrder
<1>14. QED
  BY <1>3, <1>9, <1>13 DEF StreamInv, Unused

(* What goes out of the buffer goes to the client.                          *)
LEMMA WrittenInOrder ==
    ASSUME NEW w \in Seq(Piece), NEW b \in Seq(Piece), NEW n \in 0..Len(b)
    PROVE  (w \o Taken(b, n)) \o Left(b, n) = w \o b
<1>1. Len(b) \in Nat
  OBVIOUS
<1>2. Taken(b, n) \in Seq(Piece) /\ Left(b, n) \in Seq(Piece)
  BY <1>1 DEF Taken, Left
<1>3. Taken(b, n) \o Left(b, n) = b
  <2> DEFINE t == Taken(b, n)  r == Left(b, n)  u == t \o r
  <2>1. /\ Len(t) = n /\ \A i \in 1..n : t[i] = b[i]
        /\ Len(r) = Len(b) - n /\ \A i \in 1..(Len(b) - n) : r[i] = b[n + i]
    BY <1>1 DEF Taken, Left
  <2>2. t \in Seq(Piece) /\ r \in Seq(Piece)
    BY <1>2
  <2> HIDE DEF t, r
  <2>3. /\ u \in Seq(Piece) /\ Len(u) = Len(t) + Len(r)
        /\ \A i \in 1..(Len(t) + Len(r)) : u[i] = IF i <= Len(t) THEN t[i] ELSE r[i - Len(t)]
    BY ONLY <2>2, ConcatProperties
  <2> HIDE DEF u
  <2>4. Len(u) = Len(b)
    BY ONLY <1>1, <2>1, <2>3, n \in 0..Len(b)
  <2>5. ASSUME NEW i \in 1..Len(u)
        PROVE  u[i] = b[i]
    <3>1. CASE i <= n
      BY <1>1, <2>1, <2>3, <2>4, <3>1
    <3>2. CASE ~(i <= n)
      <4>1. i - n \in 1..(Len(b) - n) /\ n + (i - n) = i
        BY <1>1, <2>4, <3>2
      <4>2. u[i] = r[i - n]
        BY <1>1, <2>1, <2>3, <3>2
      <4>3. QED
        BY ONLY <2>1, <4>1, <4>2
    <3>3. QED
      BY <3>1, <3>2
  <2>6. u = b
    BY ONLY <2>3, <2>4, <2>5, SeqEqual, b \in Seq(Piece)
  <2>7. QED
    BY <2>6 DEF u, t, r
<1>4. QED
  <2> DEFINE t == Taken(b, n)  r == Left(b, n)
  <2>1. t \in Seq(Piece) /\ r \in Seq(Piece) /\ t \o r = b
    BY <1>2, <1>3
  <2> HIDE DEF t, r
  <2>2. t \in Seq(Piece) /\ r \in Seq(Piece) /\ w \in Seq(Piece)
    BY <2>1
  <2>3. (w \o t) \o r = w \o (t \o r)
    BY ONLY <2>2, ConcatAssociative, SMTT(30)
  <2>4. QED
    BY <2>1, <2>3 DEF t, r

LEMMA WriteStream ==
    ASSUME BridgeInv, StreamInv, NEW l \in Loop, NEW c \in Conn, HandleWrite(l, c)
    PROVE  StreamInv'
<1>1. UNCHANGED session /\ WriteTurn(l, c)
  BY DEF HandleWrite
<1>2. conn[c].state = "connected" /\ up
  BY <1>1, WriteTurnConnected
<1>3. \A m \in Loop : Queue(m)' = Queue(m)
  BY HandleWriteEffect, QueuesKept DEF LoopIs
<1>4. \A d \in Conn : QueuedSends(d)' = QueuedSends(d)
  BY <1>3, SendsKeptByQueues
<1> DEFINE b == conn[c].outputBuffer
<1>5. b \in Seq(Piece) /\ sock[c].out \in Seq(Piece)
  BY StreamTypes
<1>6. PICK n \in 0..Len(b) : Write(c, b, n)
  <2>1. PICK n \in 1..Len(b) : Write(c, b, n)
    BY DEF HandleWrite
  <2>2. n \in 0..Len(b)
    BY <1>5
  <2>3. QED
    BY <2>1, <2>2
<1>7. \/ up' = FALSE /\ UNCHANGED <<sock, conn>>
      \/ /\ up' = up
         /\ \A d \in Conn \ {c} : conn'[d] = conn[d] /\ sock'[d] = sock[d]
         /\ conn'[c].state = conn[c].state /\ conn'[c].outputBuffer = Left(b, n)
         /\ sock'[c].out = sock[c].out \o Taken(b, n)
  <2> HIDE DEF b
  <2>1. QED
    BY <1>5, <1>6, WriteEffect DEF OtherConns, OtherSocks, ConnIs, SockIs
<1>8. CASE up' = FALSE /\ UNCHANGED <<sock, conn>>
  BY <1>1, <1>8, ClosedKept DEF StreamInv, Unused
<1>9. CASE /\ up' = up
           /\ \A d \in Conn \ {c} : conn'[d] = conn[d] /\ sock'[d] = sock[d]
           /\ conn'[c].state = conn[c].state /\ conn'[c].outputBuffer = Left(b, n)
           /\ sock'[c].out = sock[c].out \o Taken(b, n)
  <2>1. \A d \in Conn \ {c} : SameStream(d)
    BY <1>1, <1>4, <1>9 DEF SameStream, InHand
  <2>2. \A d \in Conn \ {c} : InOrder(d)' /\ Unused(d)'
    BY <1>9, <2>1, StreamKept, UnusedKept DEF StreamInv
  <2>3. sock'[c].out \o conn'[c].outputBuffer = sock[c].out \o b
    <3> HIDE DEF b
    <3>1. QED
      BY <1>5, <1>9, WrittenInOrder
  <2>4. InHand(c)' = InHand(c) /\ QueuedSends(c)' = QueuedSends(c)
    BY <1>1, <1>4 DEF InHand
  <2>5. InOrder(c)'
    BY <1>1, <1>2, <1>9, <2>3, <2>4 DEF StreamInv, InOrder
  <2>6. Unused(c)'
    BY <1>2, <1>9 DEF Unused
  <2>7. QED
    BY <2>2, <2>5, <2>6 DEF StreamInv
<1>10. QED
  BY <1>7, <1>8, <1>9

LEMMA SendTestStream ==
    ASSUME BridgeInv, StreamInv, NEW c \in Conn, SendTest(c)
    PROVE  StreamInv'
<1>1. UNCHANGED <<sock, conn, loop, up>> /\ session[c].pull = "send" /\ up
  BY DEF SendTest, PullAt
<1>2. \A d \in Conn : QueuedSends(d)' = QueuedSends(d)
  BY <1>1 DEF QueuedSends
<1>3. CASE conn[c].state # "connected"
  <2>1. /\ \A d \in Conn \ {c} : session'[d] = session[d]
        /\ session'[c].pull = "poll" /\ session'[c].relayed = session[c].relayed
    BY <1>3, SendTestClosed DEF OtherSessions, SessionIs
  <2>2. QED
    BY <1>1, <1>2, <2>1, QuietStream DEF SameStream, InHand
<1>4. CASE conn[c].state = "connected"
  <2> DEFINE a == session[c].hand
             r == session[c].relayed
             q == QueuedSends(c)
  <2>1. /\ \A d \in Conn \ {c} : session'[d] = session[d]
        /\ a \in Answer /\ session'[c].pull = "queue" /\ session'[c].hand = a
        /\ session'[c].relayed = Append(r, a)
    BY <1>4, SendTestConnected DEF OtherSessions, SessionIs
  <2>2. \A d \in Conn \ {c} : SameStream(d)
    BY <1>1, <1>2, <2>1 DEF SameStream, InHand
  <2>3. \A d \in Conn \ {c} : InOrder(d)' /\ Unused(d)'
    BY <1>1, <2>2, StreamKept, UnusedKept DEF StreamInv
  <2>4. r \in Seq(Answer) /\ q \in Seq(Answer)
    BY StreamTypes
  <2>5. InHand(c) = <<>> /\ InHand(c)' = <<a>> /\ QueuedSends(c)' = q
    BY <1>1, <1>2, <2>1 DEF InHand
  <2> DEFINE w == sock[c].out
             b == conn[c].outputBuffer
  <2>6. w \in Seq(Piece) /\ b \in Seq(Piece)
    BY StreamTypes
  <2>7. AllPieces(r) = w \o b \o AllPieces(q \o <<>>)
    BY <1>1, <1>4, <2>5 DEF StreamInv, InOrder
  <2> HIDE DEF a, r, q, w, b
  <2>8. q \o <<>> = q /\ q \o <<a>> = Append(q, a)
    BY ONLY <2>1, <2>4, AppendIsConcat, ConcatEmptySeq
  <2>9. AllPieces(Append(r, a)) = w \o b \o AllPieces(q \o <<a>>)
    <3> DEFINE x == AllPieces(r)  y == AllPieces(q)  z == Pieces(a)
    <3>1. x = w \o b \o y
      BY <2>7, <2>8
    <3>2. /\ AllPieces(Append(r, a)) = x \o z /\ AllPieces(q \o <<a>>) = y \o z
          /\ y \in Seq(Piece) /\ z \in Seq(Piece)
      BY <2>1, <2>4, <2>8, PiecesOfAppend, PiecesOfAnswer
    <3> HIDE DEF x, y, z
    <3>3. w \o b \in Seq(Piece)
      BY <2>6, ConcatProperties
    <3> DEFINE v == w \o b
    <3>4. v \in Seq(Piece) /\ x = v \o y
      BY <3>1, <3>3
    <3> HIDE DEF v
    <3>5. v \in Seq(Piece) /\ y \in Seq(Piece) /\ z \in Seq(Piece)
      BY <3>2, <3>4
    <3>6. (v \o y) \o z = v \o (y \o z)
      BY ONLY <3>5, ConcatAssociative
    <3>7. QED
      BY <3>2, <3>4, <3>6 DEF v
  <2>10. InOrder(c)'
    BY <1>1, <1>4, <2>1, <2>5, <2>9 DEF InOrder, w, b
  <2>11. Unused(c)'
    BY <1>1, <1>4 DEF Unused
  <2>12. QED
    BY <2>3, <2>10, <2>11 DEF StreamInv
<1>5. QED
  BY <1>3, <1>4

LEMMA SendQueueStream ==
    ASSUME BridgeInv, StreamInv, NEW c \in Conn, SendQueue(c)
    PROVE  StreamInv'
<1>1. UNCHANGED <<sock, conn, up>> /\ session[c].pull = "queue"
  BY DEF SendQueue, PullAt
<1> DEFINE k == LoopOf(c)
           a == session[c].hand
           f == SendCall(c, a)
           q == QueuedSends(c)
<1>2. /\ OtherLoops({k}) /\ k \in Loop /\ f \in FunctorsOf(k)
      /\ loop'[k].pending = Append(loop[k].pending, f)
      /\ loop'[k].running = loop[k].running
  BY SendQueueEffect DEF LoopIs
<1>3. /\ \A d \in Conn \ {c} : session'[d] = session[d]
      /\ session'[c].pull = "wakeup" /\ session'[c].relayed = session[c].relayed
  BY SendQueueSession DEF OtherSessions, SessionIs
<1>4. f.run = "send" /\ f.conn = c /\ f.answer = a
  BY SendFields
<1>5. \A m \in Loop \ {k} : Queue(m)' = Queue(m)
  BY <1>2 DEF OtherLoops, Queue
<1> HIDE DEF f
<1>6. \A d \in Conn \ {c} : QueuedSends(d)' = QueuedSends(d)
  BY <1>2, <1>4, <1>5, SendsKeptByAppend
<1>7. QueuedSends(c)' = Append(q, a)
  <2>1. Queue(k)' = Append(Queue(k), f) /\ Queue(k) \in Seq(FunctorsOf(k))
    BY <1>2, AppendedCalls, QueueType DEF BridgeInv
  <2> DEFINE F == FunctorsOf(k)  s == Queue(k)
  <2>2. s \in Seq(F) /\ f \in F
    BY <1>2, <2>1
  <2> HIDE DEF F, s
  <2>3. SendsIn(Append(s, f), c) = Append(SendsIn(s, c), a)
    BY <1>4, <2>2, SendsOfAppend
  <2>4. QED
    BY <2>1, <2>3 DEF s, QueuedSends, Queue
<1>8. \A d \in Conn \ {c} : SameStream(d)
  BY <1>1, <1>3, <1>6 DEF SameStream, InHand
<1>9. \A d \in Conn \ {c} : InOrder(d)' /\ Unused(d)'
  BY <1>1, <1>8, StreamKept, UnusedKept DEF StreamInv
<1>10. (QueuedSends(c) \o InHand(c))' = QueuedSends(c) \o InHand(c)
  <2>1. InHand(c) = <<a>> /\ InHand(c)' = <<>>
    BY <1>1, <1>3 DEF InHand
  <2>2. a \in Answer /\ q \in Seq(Answer)
    BY <1>1, StreamTypes DEF BridgeInv, SessionInv
  <2> HIDE DEF a, q
  <2>3. q \o <<a>> = Append(q, a) /\ Append(q, a) \o <<>> = Append(q, a)
    BY ONLY <2>2
  <2>4. QED
    BY <1>7, <2>1, <2>3 DEF q
<1>11. InOrder(c)'
  BY <1>1, <1>3, <1>10 DEF StreamInv, InOrder
<1>12. Unused(c)'
  BY <1>1, <1>3 DEF StreamInv, Unused
<1>13. QED
  BY <1>9, <1>11, <1>12 DEF StreamInv

LEMMA PullStream ==
    ASSUME BridgeInv, StreamInv, NEW c \in Conn,
           PullReceive(c) \/ SendWakeup(c) \/ PullExit(c)
    PROVE  StreamInv'
<1>1. UNCHANGED <<sock, conn, up>>
  BY DEF PullReceive, SendWakeup, PullExit
<1>2. /\ \A d \in Conn \ {c} : session'[d] = session[d]
      /\ session'[c].relayed = session[c].relayed
      /\ session[c].pull # "queue" /\ session'[c].pull # "queue"
  BY PullReceiveSession, SendWakeupSession, PullExitSession
     DEF OtherSessions, SessionIs, PullReceive, SendWakeup, PullExit, PullAt
<1>3. \A d \in Conn : QueuedSends(d)' = QueuedSends(d)
  <2>1. CASE PullReceive(c) \/ PullExit(c)
    BY <2>1 DEF PullReceive, PullExit, QueuedSends
  <2>2. CASE SendWakeup(c)
    <3>1. \A m \in Loop : Queue(m)' = Queue(m)
      BY <2>2, SendWakeupEffect, QueuesKept DEF LoopIs
    <3>2. QED
      BY <3>1, SendsKeptByQueues
  <2>3. QED
    BY <2>1, <2>2
<1>4. QED
  BY <1>1, <1>2, <1>3, QuietStream DEF SameStream, InHand

LEMMA SendInLoopStream ==
    ASSUME BridgeInv, StreamInv, NEW l \in Loop, SendInLoop(l)
    PROVE  StreamInv'
<1>1. UNCHANGED session /\ Runs(l, "send") /\ up
  BY DEF SendInLoop, Runs, At
<1>0. PICK h : h = Head(loop[l].running)
  OBVIOUS
<1> DEFINE c == h.conn
           a == h.answer
           data == Pieces(a)
           q == QueuedSends(c)
<1>2. /\ loop[l].running # <<>> /\ h \in FunctorsOf(l) /\ h.run = "send" /\ Has(l, h)
      /\ c \in Conn /\ LoopOf(c) = l /\ a \in Answer
  <2>1. /\ loop[l].running # <<>> /\ h \in FunctorsOf(l) /\ h.run = "send" /\ Has(l, h)
        /\ c \in Conn /\ l # Base
    BY <1>0, <1>1, RunsHead
  <2>2. LoopOf(c) = l /\ a \in Answer
    BY <1>0, <1>1, <2>1, RunsHead
  <2>3. QED
    BY <2>1, <2>2
<1>3. /\ OtherLoops({l}) /\ loop'[l].pending = loop[l].pending
      /\ loop'[l].running = Tail(loop[l].running)
  BY SendInLoopEffect DEF LoopIs
<1>4. \A m \in Loop \ {l} : Queue(m)' = Queue(m)
  BY <1>3 DEF OtherLoops, Queue
<1>5. \A d \in Conn \ {c} : QueuedSends(d)' = QueuedSends(d)
  BY <1>0, <1>2, <1>3, <1>4, SendsKeptByRun
<1>6. PICK rest \in Seq(Answer) : QueuedSends(c)' = rest /\ q = <<a>> \o rest
  <2> DEFINE F == FunctorsOf(l)  s == Queue(l)
  <2>1. /\ s # <<>> /\ h = Head(s) /\ Queue(l)' = Tail(s) /\ s \in Seq(F)
    BY <1>0, <1>2, <1>3, RanCalls, QueueType DEF BridgeInv
  <2>2. \A f \in F : f.run = "send" => f.answer \in Answer
    BY <1>2, FunctorsAtHome, LoopNumbers
  <2>3. q = SendsIn(s, c) /\ QueuedSends(c)' = SendsIn(Queue(l)', c)
    <3>1. \A d \in Conn : /\ QueuedSends(d) = SendsIn(Queue(LoopOf(d)), d)
                          /\ QueuedSends(d)' = SendsIn(Queue(LoopOf(d))', d)
      BY DEF QueuedSends, Queue
    <3>2. QED
      BY <1>2, <3>1
  <2>4. Head(s).run = "send" /\ Head(s).conn = c /\ Head(s).answer = a
    BY <1>2, <2>1
  <2> HIDE DEF F, s, c, a, q
  <2>5. SendsIn(s, c) = <<a>> \o SendsIn(Tail(s), c)
    <3>1. SendsIn(s, c) = IF Head(s).run = "send" /\ Head(s).conn = c
                          THEN <<Head(s).answer>> \o SendsIn(Tail(s), c)
                          ELSE SendsIn(Tail(s), c)
      BY ONLY <2>1, <2>2, SendsOfTail
    <3>2. QED
      BY <2>4, <3>1
  <2>6. SendsIn(Tail(s), c) \in Seq(Answer)
    <3> DEFINE t == Tail(s)
    <3>1. t \in Seq(F)
      BY <2>1
    <3> HIDE DEF t
    <3>2. PICK g : Gathers(g, t, c) /\ SendsIn(t, c) = g[Len(t)]
      BY ONLY <3>1, SendsAreGathered
    <3>3. \A n \in 0..Len(t) : g[n] \in Seq(Answer)
      BY ONLY <2>2, <3>1, <3>2, SendsType
    <3>4. Len(t) \in 0..Len(t)
      BY <3>1
    <3>5. QED
      BY <3>2, <3>3, <3>4 DEF t
  <2>7. QED
    BY <2>1, <2>3, <2>5, <2>6
<1>7. /\ data \in Seq(Piece) /\ Len(data) = 2
      /\ OtherConns({c}) /\ OtherSocks({c})
      /\ \/ /\ conn[c].state = "disconnected"
            /\ UNCHANGED <<sock, conn, up>>
         \/ /\ conn[c].state # "disconnected" /\ ~CanWriteDirectly(c)
            /\ UNCHANGED <<sock, up>>
            /\ ConnIs(c, conn[c].state, conn[c].reading, TRUE, conn[c].added,
                      conn[c].context, conn[c].outputBuffer \o data)
         \/ /\ conn[c].state # "disconnected" /\ CanWriteDirectly(c)
            /\ \E n \in 0..Len(data) : Write(c, data, n)
  BY <1>0, SendInLoopConn
<1>8. conn[c].state \in {"connected", "disconnected"}
  BY <1>2 DEF BridgeInv, SendsInv
<1> HIDE DEF c, a, q, data
<1>9. CASE UNCHANGED <<conn, sock>> /\ (conn[c].state = "disconnected" \/ up' = FALSE)
  <2>1. CASE up' = FALSE
    BY <1>1, <1>9, <2>1, ClosedKept DEF StreamInv, Unused
  <2>2. CASE conn[c].state = "disconnected" /\ up' = up
    <3>1. \A d \in Conn \ {c} : SameStream(d)
      BY <1>1, <1>5, <1>9 DEF SameStream, InHand
    <3>2. \A d \in Conn \ {c} : InOrder(d)' /\ Unused(d)'
      BY <1>9, <2>2, <3>1, StreamKept, UnusedKept DEF StreamInv
    <3>3. InOrder(c)' /\ Unused(c)'
      BY <1>1, <1>2, <1>9, <2>2, ClosedKept DEF StreamInv, Unused
    <3>4. QED
      BY <3>2, <3>3 DEF StreamInv
  <2>3. QED
    BY <1>7, <1>9, <2>1, <2>2 DEF CanWriteDirectly
<1>10. ASSUME conn[c].state = "connected", conn'[c].state = "connected", up' = up,
              (sock[c].out \o conn[c].outputBuffer) \o data
                  = sock'[c].out \o conn'[c].outputBuffer
       PROVE  StreamInv'
  <2>1. \A d \in Conn \ {c} : SameStream(d) /\ conn'[d].state = conn[d].state
    BY <1>1, <1>5, <1>7 DEF SameStream, InHand, OtherConns, OtherSocks
  <2>2. \A d \in Conn \ {c} : InOrder(d)' /\ Unused(d)'
    BY <1>10, <2>1, StreamKept, UnusedKept DEF StreamInv
  <2> DEFINE w == sock[c].out
             b == conn[c].outputBuffer
             hand == InHand(c)
             y == AllPieces(rest \o hand)
             v == w \o b
  <2>3. /\ w \in Seq(Piece) /\ b \in Seq(Piece) /\ hand \in Seq(Answer)
        /\ hand' = hand /\ a \in Answer
    BY <1>1, <1>2, StreamTypes DEF InHand
  <2>4. AllPieces(session[c].relayed) = v \o AllPieces(q \o hand)
    BY <1>1, <1>2, <1>10 DEF StreamInv, InOrder, q
  <2>5. v \in Seq(Piece)
    BY <2>3, ConcatProperties
  <2> HIDE DEF w, b, hand, v
  <2>6. AllPieces(q \o hand) = data \o y /\ y \in Seq(Piece)
    <3>1. <<a>> \in Seq(Answer)
      BY <2>3
    <3>2. (<<a>> \o rest) \o hand = <<a>> \o (rest \o hand)
      BY ONLY <2>3, <3>1, rest \in Seq(Answer), ConcatAssociative
    <3>3. rest \o hand \in Seq(Answer)
      BY ONLY <2>3, rest \in Seq(Answer), ConcatProperties
    <3> DEFINE t == rest \o hand
    <3>4. t \in Seq(Answer)
      BY <3>3
    <3> HIDE DEF t
    <3>5. AllPieces(<<a>> \o t) = data \o AllPieces(t) /\ AllPieces(t) \in Seq(Piece)
      BY <2>3, <3>4, PiecesOfFirst, PiecesTypes DEF data
    <3>6. QED
      BY <1>6, <3>2, <3>5 DEF t
  <2> HIDE DEF y
  <2>7. v \in Seq(Piece) /\ data \in Seq(Piece) /\ y \in Seq(Piece)
    BY <1>7, <2>5, <2>6
  <2>8. (v \o data) \o y = v \o (data \o y)
    BY ONLY <2>7, ConcatAssociative
  <2>9. AllPieces(session[c].relayed) = sock'[c].out \o conn'[c].outputBuffer \o y
    BY <1>10, <2>4, <2>6, <2>8 DEF v, w, b
  <2>10. (QueuedSends(c) \o InHand(c))' = rest \o hand
    BY <1>1, <1>2, <1>6, <2>3 DEF hand
  <2>11. InOrder(c)'
    BY <1>1, <1>10, <2>9, <2>10 DEF InOrder, y
  <2>12. Unused(c)'
    BY <1>10 DEF Unused
  <2>13. QED
    BY <2>2, <2>11, <2>12 DEF StreamInv
<1>11. sock[c].out \in Seq(Piece) /\ conn[c].outputBuffer \in Seq(Piece)
  BY <1>2, StreamTypes
<1>12. CASE /\ conn[c].state # "disconnected"
            /\ UNCHANGED <<sock, up>>
            /\ ConnIs(c, conn[c].state, conn[c].reading, TRUE, conn[c].added,
                      conn[c].context, conn[c].outputBuffer \o data)
  <2> DEFINE w == sock[c].out  b == conn[c].outputBuffer
  <2>1. w \in Seq(Piece) /\ b \in Seq(Piece) /\ data \in Seq(Piece)
    BY <1>7, <1>11
  <2> HIDE DEF w, b
  <2>2. (w \o b) \o data = w \o (b \o data)
    BY ONLY <2>1, ConcatAssociative
  <2>3. sock'[c].out = w /\ conn'[c].outputBuffer = b \o data
    BY <1>12 DEF ConnIs, w, b
  <2>4. (sock[c].out \o conn[c].outputBuffer) \o data = sock'[c].out \o conn'[c].outputBuffer
    BY <2>2, <2>3 DEF w, b
  <2>5. QED
    BY <1>8, <1>10, <1>12, <2>4 DEF ConnIs
<1>13. CASE /\ conn[c].state # "disconnected" /\ CanWriteDirectly(c)
            /\ \E n \in 0..Len(data) : Write(c, data, n)
  <2>1. PICK n \in 0..Len(data) : Write(c, data, n)
    BY <1>13
  <2>2. \/ up' = FALSE /\ UNCHANGED <<sock, conn>>
        \/ /\ up' = up
           /\ conn'[c].state = conn[c].state /\ conn'[c].outputBuffer = Left(data, n)
           /\ sock'[c].out = sock[c].out \o Taken(data, n)
    BY <1>2, <1>7, <2>1, WriteEffect DEF ConnIs, SockIs
  <2> DEFINE w == sock[c].out
  <2>3. w \in Seq(Piece) /\ data \in Seq(Piece) /\ conn[c].outputBuffer = <<>>
    BY <1>7, <1>11, <1>13 DEF CanWriteDirectly
  <2> HIDE DEF w
  <2>4. (w \o Taken(data, n)) \o Left(data, n) = w \o data
    BY <2>3, WrittenInOrder
  <2>5. w \o <<>> = w
    BY <2>3
  <2>6. QED
    BY <1>8, <1>9, <1>10, <1>13, <2>2, <2>3, <2>4, <2>5 DEF w
<1>14. QED
  BY <1>7, <1>9, <1>12, <1>13

LEMMA StreamInit == Init => StreamInv
<1> SUFFICES ASSUME Init, NEW c \in Conn
             PROVE  InOrder(c) /\ Unused(c)
  BY DEF StreamInv
<1>1. /\ conn[c].state = "none" /\ session[c].relayed = <<>>
      /\ sock[c].out = <<>> /\ conn[c].outputBuffer = <<>>
  BY DEF Init
<1>2. AllPieces(<<>>) = <<>> /\ Begins(<<>>, <<>>)
  BY DEF AllPieces, Begins
<1>3. QED
  BY <1>1, <1>2 DEF InOrder, Unused

LEMMA StreamStep == BridgeInv /\ StreamInv /\ [Next]_vars => StreamInv'
<1> SUFFICES ASSUME BridgeInv, StreamInv, [Next]_vars
             PROVE  StreamInv'
  OBVIOUS
<1>1. CASE Environment
  BY <1>1, EnvironmentStream
<1>2. CASE BaseStep
  BY <1>2, AcceptStream, RemoveInLoopStream DEF BaseStep
<1>3. ASSUME NEW l \in Loop, LoopStep(l)
      PROVE  StreamInv'
  <2>1. CASE \E c \in Conn : HandleRead(l, c) \/ HandleClose(l, c) \/ HandleWrite(l, c)
    BY <2>1, ReadStream, CloseStream, WriteStream
  <2>2. CASE \/ Poll(l) \/ HandleWakeup(l) \/ SwapFunctors(l) \/ FunctorsDone(l) \/ Wakeup(l)
             \/ TestCounter(l) \/ StoreCounter(l)
    BY ONLY <2>2, BridgeInv, StreamInv, l \in Loop, QuietLoopStream
  <2>3. CASE \/ ConnectEstablished(l) \/ JoinPull(l) \/ RemoveConnection(l)
             \/ ConnectDestroyed(l) \/ SendInLoop(l)
    BY <2>3, EstablishedStream, JoinStream, RemoveStream, DestroyedStream, SendInLoopStream
  <2>4. QED
    BY <1>3, <2>1, <2>2, <2>3 DEF LoopStep
<1>4. CASE \E c \in Conn : PullStep(c)
  BY <1>4, PullStream, SendTestStream, SendQueueStream DEF PullStep
<1>5. CASE UNCHANGED vars
  BY <1>5, QuietStream DEF vars, SameStream, InHand, QueuedSends
<1>6. QED
  BY <1>1, <1>2, <1>3, <1>4, <1>5 DEF Next

LEMMA StreamInvariant == Spec => []StreamInv
<1>1. Init => StreamInv
  BY StreamInit
<1>2. BridgeInv /\ StreamInv /\ [Next]_vars => StreamInv'
  BY StreamStep
<1>3. QED
  BY <1>1, <1>2, BridgeInvariant, PTL DEF Spec

(* Whatever a session relays reaches its client in this order and complete, *)
(* through the PULL thread's hand, the functors of the IO loop, the output  *)
(* buffer and partial writes; after a hang-up or the death of the server    *)
(* what was written is a beginning of it (TcpConnection.cc:68-124, 273-301).*)
THEOREM AnswersStayInOrder == Spec => []RelayedInOrder
<1>1. StreamInv => RelayedInOrder
  BY DEF StreamInv, RelayedInOrder
<1>2. QED
  BY <1>1, StreamInvariant, PTL

-----------------------------------------------------------------------------
(* Com ids, and answers that reach the client that asked.                   *)


Own(s, c) == \A i \in 1..Len(s) : s[i][1] = c

(* The com ids last, or one IO loop alone counts them (tcp_comm.cpp:33-38): *)
(* two loops that test and store the counter at its end may hand out the    *)
(* same id twice.                                                           *)
IdsSuffice ==
    \/ StartId + MaxConns <= LastId + 1
    \/ NumLoops = 1 /\ MaxConns <= LastId - FirstId + 1

(* The sessions that have a com id, and the loop that has just counted.     *)
Numbered  == {c \in Conn : session[c].pull # "none"}
Counts(l) == loop[l].duty \in {"test", "store"}

BeforeWrap ==
    /\ counter_port = StartId + Cardinality(Numbered)
    /\ \A c \in Numbered : StartId <= session[c].id /\ session[c].id < counter_port

AfterWrap ==
    /\ NumLoops = 1
    /\ counter_port + (LastId - StartId + 1) = FirstId + Cardinality(Numbered)
    /\ FirstId <= counter_port /\ counter_port < StartId
    /\ \A c \in Numbered : \/ FirstId <= session[c].id /\ session[c].id < counter_port
                           \/ StartId <= session[c].id /\ session[c].id <= LastId

CountInv ==
    /\ \A l \in Loop : loop[l].duty = "store" => counter_port > LastId
    /\ counter_port > LastId => NumLoops = 1 /\ counter_port = LastId + 1 /\ Counts(1)
    /\ BeforeWrap \/ AfterWrap

IdInv ==
    /\ ~Counts(Base)
    /\ \A c, d \in Numbered : session[c].id = session[d].id => c = d
    /\ Numbered = Conn \/ CountInv

(* Every answer is on its way to the session that asked.                    *)
HomeInv ==
    \A c \in Conn : /\ Own(session[c].inbox, c) /\ Own(session[c].relayed, c)
                    /\ session[c].pull = "send" => session[c].hand[1] = c

SessionsInv == IdInv /\ HomeInv

------------------------------------------------------------------------------
LEMMA OwnAppend ==
    ASSUME NEW s \in Seq(Answer), NEW a \in Answer, NEW c \in Conn, Own(s, c), a[1] = c
    PROVE  Own(Append(s, a), c)
<1>1. /\ Len(Append(s, a)) = Len(s) + 1
      /\ \A i \in 1..Len(s) : Append(s, a)[i] = s[i]
      /\ Append(s, a)[Len(s) + 1] = a
  OBVIOUS
<1>2. \A i \in 1..(Len(s) + 1) : i \in 1..Len(s) \/ i = Len(s) + 1
  OBVIOUS
<1>3. QED
  BY <1>1, <1>2 DEF Own

LEMMA OwnFirst ==
    ASSUME NEW s \in Seq(Answer), s # <<>>, NEW c \in Conn, Own(s, c)
    PROVE  Head(s)[1] = c /\ Own(Tail(s), c)
<1>1. 1 \in 1..Len(s) /\ Head(s) = s[1] /\ Len(Tail(s)) = Len(s) - 1
  OBVIOUS
<1>2. \A i \in 1..(Len(s) - 1) : Tail(s)[i] = s[i + 1] /\ i + 1 \in 1..Len(s)
  OBVIOUS
<1>3. QED
  BY <1>1, <1>2 DEF Own

(* Numbers and sets of connections.                                         *)
LEMMA ConnsCounted ==
    ASSUME NEW S \in SUBSET Conn
    PROVE  /\ Cardinality(S) \in Nat /\ Cardinality(S) <= MaxConns
           /\ S # Conn => Cardinality(S) < MaxConns
           /\ \A c \in Conn \ S : Cardinality(S \cup {c}) = Cardinality(S) + 1
<1>1. MaxConns \in Nat
  BY BridgeAssumption
<1>2. IsFiniteSet(Conn) /\ Cardinality(Conn) = MaxConns
  <2>1. IsFiniteSet(1..MaxConns)
    BY <1>1, FS_Interval
  <2>2. Cardinality(1..MaxConns) = IF 1 > MaxConns THEN 0 ELSE MaxConns - 1 + 1
    BY <1>1, FS_Interval
  <2>3. QED
    BY <1>1, <2>1, <2>2 DEF Conn
<1>3. /\ IsFiniteSet(S) /\ Cardinality(S) <= Cardinality(Conn)
      /\ Cardinality(Conn) = Cardinality(S) => Conn = S
  BY <1>2, FS_Subset
<1>4. Cardinality(S) \in Nat
  BY <1>3, FS_CardinalityType
<1>5. \A c \in Conn \ S : Cardinality(S \cup {c}) = Cardinality(S) + 1
  BY <1>3, FS_AddElement
<1>6. S # Conn => Cardinality(S) < MaxConns
  <2> SUFFICES ASSUME S # Conn
               PROVE  Cardinality(S) < MaxConns
    OBVIOUS
  <2>1. Cardinality(S) # Cardinality(Conn)
    BY <1>3
  <2> DEFINE n == Cardinality(S)
  <2>2. n \in Nat /\ n <= MaxConns /\ n # MaxConns
    BY <1>2, <1>3, <1>4, <2>1
  <2> HIDE DEF n
  <2>3. n < MaxConns
    BY <1>1, <2>2
  <2>4. QED
    BY <2>3 DEF n
<1>7. Cardinality(S) <= MaxConns
  BY <1>2, <1>3
<1>8. QED
  BY <1>4, <1>5, <1>6, <1>7

------------------------------------------------------------------------------
(* A step that numbers no session and leaves the counting loops alone.      *)
LEMMA IdsKept ==
    ASSUME IdInv, counter_port' = counter_port,
           \A c \in Conn : /\ session'[c].id = session[c].id
                           /\ session'[c].pull = "none" <=> session[c].pull = "none",
           \A l \in Loop : \/ loop'[l].duty = loop[l].duty
                           \/ ~Counts(l) /\ ~Counts(l)'
    PROVE  IdInv'
<1>1. Numbered' = Numbered
  BY DEF Numbered
<1>2. \A l \in Loop : /\ Counts(l)' = Counts(l)
                      /\ loop'[l].duty = "store" => loop[l].duty = "store"
  BY DEF Counts
<1>3. ~Counts(Base)'
  BY <1>2, LoopNumbers DEF IdInv
<1>4. \A c, d \in Numbered' : session'[c].id = session'[d].id => c = d
  BY <1>1 DEF IdInv, Numbered
<1>5. CountInv => CountInv'
  <2>1. ASSUME CountInv, counter_port > LastId
        PROVE  NumLoops = 1 /\ counter_port = LastId + 1 /\ Counts(1)'
    <3>1. NumLoops = 1 /\ counter_port = LastId + 1 /\ Counts(1)
      BY <2>1 DEF CountInv
    <3>2. 1 \in Loop
      BY <3>1 DEF Loop
    <3>3. QED
      BY <1>2, <3>1, <3>2
  <2>2. BeforeWrap => BeforeWrap'
    BY <1>1 DEF BeforeWrap, Numbered
  <2>3. AfterWrap => AfterWrap'
    BY <1>1 DEF AfterWrap, Numbered
  <2>4. CountInv => \A l \in Loop : loop'[l].duty = "store" => counter_port' > LastId
    BY <1>2 DEF CountInv
  <2>5. QED
    BY <2>1, <2>2, <2>3, <2>4 DEF CountInv
<1>6. QED
  BY <1>1, <1>3, <1>4, <1>5 DEF IdInv

(* The only IO loop, if it is the only one that counts.                     *)
LEMMA OneIOLoop ==
    ASSUME NumLoops = 1, NEW l \in Loop, l # Base
    PROVE  l = 1
BY DEF Loop, Base

LEMMA IdNumbers ==
    /\ FirstId \in Nat /\ LastId \in Nat /\ StartId \in Nat /\ MaxConns \in Nat
    /\ FirstId <= StartId /\ StartId <= LastId
    /\ \A c \in Conn : session \in [Conn -> SessionState] => session[c].id \in Nat
BY BridgeAssumption DEF SessionState

LEMMA CountLoop ==
    ASSUME BridgeInv, IdInv, NEW l \in Loop, loop[l].duty \in {"test", "store"}
    PROVE  l # Base
BY DEF IdInv, Counts

LEMMA EstablishIds ==
    ASSUME BridgeInv, IdInv, IdsSuffice, NEW l \in Loop, ConnectEstablished(l)
    PROVE  IdInv'
<1>0. PICK c : c = Head(loop[l].running).conn
  OBVIOUS
<1>1. Runs(l, "connectEstablished") /\ counter_port' = counter_port + 1
  BY DEF ConnectEstablished, NewSession
<1>2. c \in Conn /\ l # Base /\ LoopOf(c) = l /\ loop[l].duty = "none" /\ Establishes(c)
  BY <1>0, <1>1, RunsHead DEF Establishes
<1>3. session[c].pull = "none"
  <2>1. Stage(c)
    BY <1>2 DEF BridgeInv, ConnInv
  <2>2. QED
    BY <1>2, <2>1 DEF Stage, Fresh
<1>4. /\ \A d \in Conn \ {c} : session'[d] = session[d]
      /\ session'[c].id = counter_port /\ session'[c].pull = "poll"
  BY <1>0, ConnectEstablishedSession DEF OtherSessions, SessionIs
<1>5. /\ \A m \in Loop \ {l} : loop'[m] = loop[m]
      /\ loop'[l].duty = "test"
  BY ConnectEstablishedEffect DEF OtherLoops, LoopIs
<1>6. /\ Numbered' = Numbered \cup {c} /\ c \notin Numbered /\ Numbered \in SUBSET Conn
      /\ Numbered # Conn
  BY <1>2, <1>3, <1>4 DEF Numbered
<1>7. CountInv
  BY <1>6 DEF IdInv
<1>8. ~(counter_port > LastId)
  BY <1>2, <1>7, OneIOLoop DEF CountInv, Counts
<1> DEFINE n == Cardinality(Numbered)
<1>9. n \in Nat /\ Cardinality(Numbered') = n + 1
  BY <1>2, <1>6, ConnsCounted
<1>10. /\ FirstId \in Nat /\ LastId \in Nat /\ StartId \in Nat /\ MaxConns \in Nat
       /\ FirstId <= StartId /\ StartId <= LastId /\ counter_port \in Nat
       /\ \A d \in Conn : session[d].id \in Nat
  BY IdNumbers DEF BridgeInv, TypeOK
<1>11. ~Counts(Base)'
  BY <1>2, <1>5, LoopNumbers DEF IdInv, Counts
<1>12. \A d \in Numbered : session[d].id # counter_port
  BY <1>6, <1>7, <1>8, <1>10 DEF CountInv, BeforeWrap, AfterWrap
<1>13. \A d, e \in Numbered' : session'[d].id = session'[e].id => d = e
  BY <1>4, <1>6, <1>12 DEF IdInv
<1>14. ASSUME Numbered' # Conn
       PROVE  CountInv'
  <2>1. n + 1 < MaxConns
    <3>1. Numbered' \in SUBSET Conn
      BY <1>2, <1>6
    <3>2. PICK S : S = Numbered'
      OBVIOUS
    <3>3. Cardinality(S) < MaxConns
      BY <1>14, <3>1, <3>2, ConnsCounted
    <3>4. QED
      BY <1>9, <3>2, <3>3
  <2>2. \A m \in Loop : loop'[m].duty = "store" => FALSE
    BY <1>5, <1>7, <1>8 DEF CountInv
  <2> HIDE DEF n
  <2>3. BeforeWrap => counter_port = StartId + n
    BY DEF BeforeWrap, n
  <2>4. AfterWrap => /\ NumLoops = 1 /\ FirstId <= counter_port /\ counter_port < StartId
                     /\ counter_port + (LastId - StartId + 1) = FirstId + n
    BY DEF AfterWrap, n
  <2>5. counter_port + 1 > LastId => NumLoops = 1 /\ counter_port + 1 = LastId + 1
    BY <1>7, <1>8, <1>9, <1>10, <2>1, <2>3, <2>4 DEF CountInv, IdsSuffice
  <2>6. NumLoops = 1 => Counts(1)'
    BY <1>2, <1>5, OneIOLoop DEF Counts
  <2>7. BeforeWrap => BeforeWrap'
    <3> SUFFICES ASSUME BeforeWrap
                 PROVE  BeforeWrap'
      OBVIOUS
    <3>1. counter_port' = StartId + Cardinality(Numbered')
      BY <1>1, <1>9, <1>10, <2>3
    <3>2. \A d \in Numbered' : StartId <= session'[d].id /\ session'[d].id < counter_port'
      BY <1>1, <1>4, <1>6, <1>9, <1>10, <2>3 DEF BeforeWrap
    <3>3. QED
      BY <3>1, <3>2 DEF BeforeWrap
  <2>8. AfterWrap => AfterWrap'
    <3> SUFFICES ASSUME AfterWrap
                 PROVE  AfterWrap'
      OBVIOUS
    <3>1. counter_port' + (LastId - StartId + 1) = FirstId + Cardinality(Numbered')
      BY <1>1, <1>9, <1>10, <2>4
    <3>2. FirstId <= counter_port' /\ counter_port' < StartId
      BY <1>1, <1>9, <1>10, <2>1, <2>4 DEF IdsSuffice
    <3>3. \A d \in Numbered' : \/ FirstId <= session'[d].id /\ session'[d].id < counter_port'
                               \/ StartId <= session'[d].id /\ session'[d].id <= LastId
      <4>1. \A d \in Numbered : \/ FirstId <= session'[d].id /\ session'[d].id < counter_port'
                                \/ StartId <= session'[d].id /\ session'[d].id <= LastId
        BY <1>1, <1>4, <1>6, <1>10 DEF AfterWrap
      <4>2. QED
        BY <1>1, <1>4, <1>6, <1>10, <2>4, <4>1
    <3>4. QED
      BY <2>4, <3>1, <3>2, <3>3 DEF AfterWrap
  <2>9. QED
    BY <1>1, <1>7, <2>2, <2>5, <2>6, <2>7, <2>8 DEF CountInv
<1>15. QED
  BY <1>11, <1>13, <1>14 DEF IdInv

LEMMA TestIds ==
    ASSUME BridgeInv, IdInv, NEW l \in Loop, TestCounter(l)
    PROVE  IdInv'
<1>1. UNCHANGED <<session, counter_port>> /\ loop[l].duty = "test"
  BY DEF TestCounter, Duty
<1>2. /\ \A m \in Loop \ {l} : loop'[m] = loop[m]
      /\ loop'[l].duty = IF counter_port > LastId THEN "store" ELSE "none"
  BY TestCounterEffect DEF OtherLoops, LoopIs
<1>3. l # Base
  BY <1>1, CountLoop
<1>4. Numbered' = Numbered
  BY <1>1 DEF Numbered
<1>5. ~Counts(Base)'
  BY <1>2, <1>3, LoopNumbers DEF IdInv, Counts
<1>6. \A c, d \in Numbered' : session'[c].id = session'[d].id => c = d
  BY <1>1, <1>4 DEF IdInv
<1>7. CountInv => CountInv'
  <2>1. CountInv => \A m \in Loop : loop'[m].duty = "store" => counter_port' > LastId
    BY <1>1, <1>2 DEF CountInv
  <2>2. ASSUME CountInv, counter_port > LastId
        PROVE  NumLoops = 1 /\ counter_port = LastId + 1 /\ Counts(1)'
    <3>1. NumLoops = 1 /\ counter_port = LastId + 1
      BY <2>2 DEF CountInv
    <3>2. l = 1
      BY <1>3, <3>1, OneIOLoop
    <3>3. QED
      BY <1>2, <2>2, <3>1, <3>2 DEF Counts
  <2>3. BeforeWrap => BeforeWrap'
    BY <1>1, <1>4 DEF BeforeWrap
  <2>4. AfterWrap => AfterWrap'
    BY <1>1, <1>4 DEF AfterWrap
  <2>5. QED
    BY <1>1, <2>1, <2>2, <2>3, <2>4 DEF CountInv
<1>8. QED
  BY <1>4, <1>5, <1>6, <1>7 DEF IdInv

LEMMA StoreIds ==
    ASSUME BridgeInv, IdInv, IdsSuffice, NEW l \in Loop, StoreCounter(l)
    PROVE  IdInv'
<1>1. UNCHANGED session /\ counter_port' = FirstId /\ loop[l].duty = "store"
  BY DEF StoreCounter, Duty
<1>2. /\ \A m \in Loop \ {l} : loop'[m] = loop[m]
      /\ loop'[l].duty = "none"
  BY StoreCounterEffect DEF OtherLoops, LoopIs
<1>3. l # Base
  BY <1>1, CountLoop
<1>4. Numbered' = Numbered /\ Numbered \in SUBSET Conn
  BY <1>1 DEF Numbered
<1>5. ~Counts(Base)'
  BY <1>2, <1>3, LoopNumbers DEF IdInv, Counts
<1>6. \A c, d \in Numbered' : session'[c].id = session'[d].id => c = d
  BY <1>1, <1>4 DEF IdInv
<1>7. ASSUME Numbered # Conn
      PROVE  CountInv'
  <2> DEFINE n == Cardinality(Numbered)
  <2>1. n \in Nat /\ n < MaxConns
    BY <1>4, <1>7, ConnsCounted
  <2>2. /\ FirstId \in Nat /\ LastId \in Nat /\ StartId \in Nat /\ MaxConns \in Nat
        /\ FirstId <= StartId /\ StartId <= LastId /\ counter_port \in Nat
        /\ \A d \in Conn : session[d].id \in Nat
    BY IdNumbers DEF BridgeInv, TypeOK
  <2>3. CountInv /\ counter_port > LastId
    BY <1>1, <1>7 DEF IdInv, CountInv
  <2>4. NumLoops = 1 /\ counter_port = LastId + 1
    BY <2>3 DEF CountInv
  <2>5. ~AfterWrap
    BY <2>2, <2>3 DEF AfterWrap
  <2>6. BeforeWrap
    BY <2>3, <2>5 DEF CountInv
  <2>7. LastId + 1 = StartId + n
    BY <2>4, <2>6 DEF BeforeWrap
  <2>8. \A d \in Numbered : StartId <= session[d].id /\ session[d].id <= LastId
    BY <1>4, <2>2, <2>4, <2>6 DEF BeforeWrap
  <2>9. \A m \in Loop : loop'[m].duty # "store"
    <3>1. \A m \in Loop : m = l \/ m = Base
      BY <1>3, <2>4, OneIOLoop
    <3>2. QED
      BY <1>2, <1>5, <3>1 DEF Counts
  <2>10. AfterWrap'
    <3>1. FirstId + (LastId - StartId + 1) = FirstId + n
      BY <2>1, <2>2, <2>7
    <3>2. FirstId < StartId
      BY <2>1, <2>2, <2>7 DEF IdsSuffice
    <3>3. QED
      BY <1>1, <1>4, <2>2, <2>4, <2>8, <3>1, <3>2 DEF AfterWrap
  <2>11. ~(counter_port' > LastId)
    BY <1>1, <2>2
  <2>12. QED
    BY <2>9, <2>10, <2>11 DEF CountInv
<1>8. QED
  BY <1>4, <1>5, <1>6, <1>7 DEF IdInv

(* Which loop counts, and which sessions have numbers, in the other steps.  *)
QuietDuties ==
    \A l \in Loop : loop'[l].duty = loop[l].duty \/ (~Counts(l) /\ ~Counts(l)')

SameNumbers ==
    \A c \in Conn : /\ session'[c].id = session[c].id
                    /\ session'[c].pull = "none" <=> session[c].pull = "none"

LEMMA LoopDuties ==
    ASSUME BridgeInv, NEW l \in Loop, LoopStep(l),
           ~ConnectEstablished(l), ~TestCounter(l), ~StoreCounter(l)
    PROVE  QuietDuties /\ counter_port' = counter_port
<1>1. CASE Poll(l)
  BY <1>1, PollEffect DEF LoopIs, OtherLoops, QuietDuties, Poll
<1>2. CASE HandleWakeup(l)
  BY <1>2, HandleWakeupEffect DEF LoopIs, OtherLoops, QuietDuties, HandleWakeup
<1>3. CASE SwapFunctors(l)
  BY <1>3, SwapFunctorsEffect DEF LoopIs, OtherLoops, QuietDuties, SwapFunctors
<1>4. CASE FunctorsDone(l)
  BY <1>4, FunctorsDoneEffect DEF LoopIs, OtherLoops, QuietDuties, FunctorsDone
<1>5. CASE Wakeup(l)
  <2> DEFINE k == Woken(l, loop[l].conn)
  <2>1. /\ OtherLoops({k, l}) /\ loop'[k].duty = loop[k].duty /\ loop'[l].duty = "none"
    BY <1>5, WakeupEffect DEF LoopIs
  <2>2. loop[l].duty = "wakeup" /\ counter_port' = counter_port
    BY <1>5 DEF Wakeup, Duty
  <2> HIDE DEF k
  <2>3. QED
    BY <2>1, <2>2 DEF OtherLoops, QuietDuties, Counts
<1>6. ASSUME NEW c \in Conn, HandleRead(l, c)
      PROVE  QuietDuties /\ counter_port' = counter_port
  <2>1. OtherLoops({l}) /\ loop'[l].duty \in {"write", "none"}
    BY <1>6, HandleReadEffect DEF LoopIs
  <2>2. loop[l].duty = "none" /\ counter_port' = counter_port
    BY <1>6 DEF HandleRead, Handles, Duty
  <2>3. QED
    BY <2>1, <2>2 DEF OtherLoops, QuietDuties, Counts
<1>7. ASSUME NEW c \in Conn, HandleClose(l, c)
      PROVE  QuietDuties /\ counter_port' = counter_port
  <2>1. OtherLoops({l}) /\ loop'[l].duty = "join"
    BY <1>7, HandleCloseEffect DEF LoopIs
  <2>2. loop[l].duty = "none" /\ counter_port' = counter_port
    BY <1>7 DEF HandleClose, Handles, Duty
  <2>3. QED
    BY <2>1, <2>2 DEF OtherLoops, QuietDuties, Counts
<1>8. ASSUME NEW c \in Conn, HandleWrite(l, c)
      PROVE  QuietDuties /\ counter_port' = counter_port
  <2>1. OtherLoops({l}) /\ loop'[l].duty = "none"
    BY <1>8, HandleWriteEffect DEF LoopIs
  <2>2. loop[l].duty \in {"none", "write"} /\ counter_port' = counter_port
    BY <1>8, WriteTurnConnected DEF HandleWrite
  <2>3. QED
    BY <2>1, <2>2 DEF OtherLoops, QuietDuties, Counts
<1>9. CASE JoinPull(l)
  <2>1. OtherLoops({l}) /\ loop'[l].duty = "remove"
    BY <1>9, JoinPullEffect DEF LoopIs
  <2>2. loop[l].duty = "join" /\ counter_port' = counter_port
    BY <1>9 DEF JoinPull, Duty
  <2>3. QED
    BY <2>1, <2>2 DEF OtherLoops, QuietDuties, Counts
<1>10. CASE RemoveConnection(l)
  <2>1. OtherLoops({Base, l}) /\ loop'[Base].duty = loop[Base].duty /\ loop'[l].duty = "wakeup"
    BY <1>10, RemoveConnectionEffect DEF LoopIs
  <2>2. loop[l].duty = "remove" /\ counter_port' = counter_port
    BY <1>10 DEF RemoveConnection, Duty
  <2>3. QED
    BY <2>1, <2>2 DEF OtherLoops, QuietDuties, Counts
<1>11. CASE ConnectDestroyed(l)
  BY <1>11, ConnectDestroyedEffect DEF LoopIs, OtherLoops, QuietDuties, ConnectDestroyed
<1>12. CASE SendInLoop(l)
  BY <1>12, SendInLoopEffect DEF LoopIs, OtherLoops, QuietDuties, SendInLoop
<1>13. QED
  BY <1>1, <1>2, <1>3, <1>4, <1>5, <1>6, <1>7, <1>8, <1>9, <1>10, <1>11, <1>12
     DEF LoopStep

LEMMA BaseDuties ==
    ASSUME BridgeInv, BaseStep
    PROVE  QuietDuties /\ UNCHANGED <<session, counter_port>>
<1>1. ASSUME NEW c \in Conn, Accept(c)
      PROVE  QuietDuties /\ UNCHANGED <<session, counter_port>>
  <2> DEFINE k == LoopOf(c)
  <2>1. OtherLoops({k, Base}) /\ loop'[k].duty = loop[k].duty /\ loop'[Base].duty = "wakeup"
    BY <1>1, AcceptEffect DEF LoopIs
  <2>2. loop[Base].duty = "none" /\ UNCHANGED <<session, counter_port>>
    BY <1>1 DEF Accept, Handles, Duty
  <2> HIDE DEF k
  <2>3. QED
    BY <2>1, <2>2 DEF OtherLoops, QuietDuties, Counts
<1>2. CASE RemoveConnectionInLoop
  <2> DEFINE k == LoopOf(Head(loop[Base].running).conn)
  <2>1. OtherLoops({k, Base}) /\ loop'[k].duty = loop[k].duty /\ loop'[Base].duty = "wakeup"
    BY <1>2, RemoveConnectionInLoopEffect DEF LoopIs
  <2>2. loop[Base].duty = "none" /\ UNCHANGED <<session, counter_port>>
    BY <1>2 DEF RemoveConnectionInLoop, Runs, Duty
  <2> HIDE DEF k
  <2>3. QED
    BY <2>1, <2>2 DEF OtherLoops, QuietDuties, Counts
<1>3. QED
  BY <1>1, <1>2 DEF BaseStep

LEMMA PullDuties ==
    ASSUME BridgeInv, NEW c \in Conn, PullStep(c)
    PROVE  QuietDuties /\ SameNumbers /\ counter_port' = counter_port
<1>1. CASE PullReceive(c)
  <2>1. UNCHANGED <<loop, counter_port>> /\ session[c].pull = "poll"
    BY <1>1 DEF PullReceive, PullAt
  <2>2. QED
    BY <1>1, <2>1, PullReceiveSession DEF OtherSessions, SessionIs, QuietDuties, SameNumbers
<1>2. CASE SendTest(c)
  <2>1. UNCHANGED <<loop, counter_port>> /\ session[c].pull = "send"
    BY <1>2 DEF SendTest, PullAt
  <2>2. /\ OtherSessions({c}) /\ session'[c].id = session[c].id
        /\ session'[c].pull \in {"queue", "poll"}
    BY <1>2, SendTestConnected, SendTestClosed DEF SessionIs
  <2>3. QED
    BY <2>1, <2>2 DEF OtherSessions, QuietDuties, SameNumbers
<1>3. CASE SendQueue(c)
  <2>1. counter_port' = counter_port /\ session[c].pull = "queue"
    BY <1>3 DEF SendQueue, PullAt
  <2>2. SameNumbers
    BY <1>3, <2>1, SendQueueSession DEF OtherSessions, SessionIs, SameNumbers
  <2> DEFINE k == LoopOf(c)
  <2>3. OtherLoops({k}) /\ loop'[k].duty = loop[k].duty
    BY <1>3, SendQueueEffect DEF LoopIs
  <2> HIDE DEF k
  <2>4. QED
    BY <2>1, <2>2, <2>3 DEF OtherLoops, QuietDuties
<1>4. CASE SendWakeup(c)
  <2>1. counter_port' = counter_port /\ session[c].pull = "wakeup"
    BY <1>4 DEF SendWakeup, PullAt
  <2>2. SameNumbers
    BY <1>4, <2>1, SendWakeupSession DEF OtherSessions, SessionIs, SameNumbers
  <2> DEFINE k == LoopOf(c)
  <2>3. OtherLoops({k}) /\ loop'[k].duty = loop[k].duty
    BY <1>4, SendWakeupEffect DEF LoopIs
  <2> HIDE DEF k
  <2>4. QED
    BY <2>1, <2>2, <2>3 DEF OtherLoops, QuietDuties
<1>5. CASE PullExit(c)
  <2>1. UNCHANGED <<loop, counter_port>> /\ session[c].pull = "poll"
    BY <1>5 DEF PullExit, PullAt
  <2>2. QED
    BY <1>5, <2>1, PullExitSession DEF OtherSessions, SessionIs, QuietDuties, SameNumbers
<1>6. QED
  BY <1>1, <1>2, <1>3, <1>4, <1>5 DEF PullStep

LEMMA EnvironmentDuties ==
    ASSUME BridgeInv, Environment
    PROVE  QuietDuties /\ SameNumbers /\ counter_port' = counter_port
<1>1. UNCHANGED <<loop, counter_port>>
  BY DEF Environment, Connect, SendLine, HangUp, AnswerLine
<1>2. ASSUME NEW c \in Conn, AnswerLine(c)
      PROVE  SameNumbers
  BY <1>2, AnswerLineEffect DEF SessionIs, SameNumbers
<1>3. Connect \/ (\E c \in Conn : SendLine(c) \/ HangUp(c)) => session' = session
  BY DEF Connect, SendLine, HangUp
<1>4. SameNumbers
  BY <1>2, <1>3 DEF Environment, SameNumbers
<1>5. QED
  BY <1>1, <1>4 DEF QuietDuties

LEMMA LoopNumbersKept ==
    ASSUME BridgeInv, NEW l \in Loop, LoopStep(l), ~ConnectEstablished(l)
    PROVE  SameNumbers
<1>1. CASE JoinPull(l)
  BY <1>1, JoinPullSession DEF OtherSessions, SessionIs, SameNumbers
<1>2. ASSUME ~JoinPull(l)
      PROVE  session' = session
  BY <1>2 DEF LoopStep, Poll, HandleWakeup, SwapFunctors, FunctorsDone, Wakeup,
              TestCounter, StoreCounter, HandleRead, HandleClose, HandleWrite,
              RemoveConnection, ConnectDestroyed, SendInLoop
<1>3. QED
  BY <1>1, <1>2 DEF SameNumbers

LEMMA IdStep ==
    ASSUME BridgeInv, IdInv, IdsSuffice, [Next]_vars
    PROVE  IdInv'
<1>1. CASE Environment
  BY <1>1, EnvironmentDuties, IdsKept DEF QuietDuties, SameNumbers
<1>2. CASE BaseStep
  BY <1>2, BaseDuties, IdsKept DEF QuietDuties
<1>3. ASSUME NEW l \in Loop, LoopStep(l)
      PROVE  IdInv'
  <2>1. CASE ConnectEstablished(l)
    BY <2>1, EstablishIds
  <2>2. CASE TestCounter(l)
    BY <2>2, TestIds
  <2>3. CASE StoreCounter(l)
    BY <2>3, StoreIds
  <2>4. CASE ~ConnectEstablished(l) /\ ~TestCounter(l) /\ ~StoreCounter(l)
    BY <1>3, <2>4, LoopDuties, LoopNumbersKept, IdsKept DEF QuietDuties, SameNumbers
  <2>5. QED
    BY <2>1, <2>2, <2>3, <2>4
<1>4. ASSUME NEW c \in Conn, PullStep(c)
      PROVE  IdInv'
  BY <1>4, PullDuties, IdsKept DEF QuietDuties, SameNumbers
<1>5. CASE UNCHANGED vars
  BY <1>5, IdsKept DEF vars
<1>6. QED
  BY <1>1, <1>2, <1>3, <1>4, <1>5 DEF Next

------------------------------------------------------------------------------
(* Only a session that has its com id is asked for an answer.               *)
LEMMA AnsweredIsNumbered ==
    ASSUME BridgeInv, NEW c \in Conn, AnswerLine(c)
    PROVE  c \in Numbered
<1>1. sock[c].read # 0
  <2> SUFFICES ASSUME sock[c].read = 0
               PROVE  FALSE
    OBVIOUS
  <2>1. session[c].answers \in Nat /\ AnswersPerLine \in Nat
    BY SessionTypes, BridgeAssumption
  <2>2. session[c].answers < AnswersPerLine * (0 \div 2)
    BY DEF AnswerLine
  <2>3. QED
    BY <2>1, <2>2
<1>2. Stage(c)
  BY DEF BridgeInv, ConnInv
<1>3. QED
  BY <1>1, <1>2 DEF Stage, Fresh, Numbered

HomeOf(c) ==
    /\ Own(session[c].inbox, c) /\ Own(session[c].relayed, c)
    /\ session[c].pull = "send" => session[c].hand[1] = c

SameHome(c) ==
    /\ session'[c].inbox = session[c].inbox /\ session'[c].relayed = session[c].relayed
    /\ session'[c].pull = "send" => session[c].pull = "send" /\ session'[c].hand = session[c].hand

LEMMA HomeKept ==
    ASSUME NEW c \in Conn, SameHome(c), HomeOf(c)
    PROVE  HomeOf(c)'
BY DEF SameHome, HomeOf

LEMMA AnswerLineHome ==
    ASSUME BridgeInv, SessionsInv, NEW c \in Conn, AnswerLine(c)
    PROVE  HomeInv'
<1> DEFINE a == <<c, session[c].answers + 1>>
<1>1. PICK d \in Conn :
          /\ a \in Answer /\ Listens(d) /\ session[d].id = session[c].id
          /\ \A e \in Conn :
                 SessionIs(e, session[e].id,
                           IF e = c THEN session[e].answers + 1 ELSE session[e].answers,
                           session[e].pull,
                           IF e = d THEN Append(session[e].inbox, a) ELSE session[e].inbox,
                           session[e].hand, session[e].relayed)
  BY AnswerLineEffect
<1>2. d = c
  <2>1. c \in Numbered /\ d \in Numbered
    BY <1>1, AnsweredIsNumbered DEF Listens, Numbered
  <2>2. QED
    BY <1>1, <2>1 DEF SessionsInv, IdInv
<1>3. \A e \in Conn \ {c} : SameHome(e)
  BY <1>1, <1>2 DEF SessionIs, SameHome
<1>4. /\ session'[c].inbox = Append(session[c].inbox, a)
      /\ session'[c].relayed = session[c].relayed
      /\ session'[c].pull = session[c].pull /\ session'[c].hand = session[c].hand
  BY <1>1, <1>2 DEF SessionIs
<1>5. Own(Append(session[c].inbox, a), c)
  <2>1. session[c].inbox \in Seq(Answer) /\ Own(session[c].inbox, c)
    BY SessionTypes DEF SessionsInv, HomeInv
  <2>2. a \in Answer /\ a[1] = c
    BY <1>1
  <2> HIDE DEF a
  <2>3. QED
    BY <2>1, <2>2, OwnAppend
<1> HIDE DEF a
<1>6. HomeOf(c)'
  BY <1>4, <1>5 DEF SessionsInv, HomeInv, HomeOf
<1>7. \A e \in Conn \ {c} : HomeOf(e)'
  BY <1>3, HomeKept DEF SessionsInv, HomeInv, HomeOf
<1>8. QED
  BY <1>6, <1>7 DEF HomeInv, HomeOf

LEMMA PullHome ==
    ASSUME BridgeInv, HomeInv, NEW c \in Conn, PullStep(c)
    PROVE  HomeInv'
<1>1. session[c].inbox \in Seq(Answer) /\ session[c].relayed \in Seq(Answer)
  BY SessionTypes
<1>2. HomeOf(c)
  BY DEF HomeInv, HomeOf
<1>3. CASE PullReceive(c)
  <2>1. session[c].inbox # <<>>
    BY <1>3 DEF PullReceive
  <2>2. Head(session[c].inbox)[1] = c /\ Own(Tail(session[c].inbox), c)
    BY <1>1, <1>2, <2>1, OwnFirst DEF HomeOf
  <2>3. QED
    BY <1>2, <1>3, <2>2, PullReceiveSession DEF HomeInv, HomeOf, OtherSessions, SessionIs
<1>4. CASE SendTest(c)
  <2>1. CASE conn[c].state = "connected"
    <3>1. session[c].pull = "send" /\ session[c].hand \in Answer
      BY <1>4, <2>1, SendTestConnected DEF SendTest, PullAt
    <3>2. Own(Append(session[c].relayed, session[c].hand), c)
      BY <1>1, <1>2, <3>1, OwnAppend DEF HomeOf
    <3>3. QED
      BY <1>2, <1>4, <2>1, <3>2, SendTestConnected, ZenonT(60)
      DEF HomeInv, HomeOf, OtherSessions, SessionIs
  <2>2. CASE conn[c].state # "connected"
    BY <1>2, <1>4, <2>2, SendTestClosed DEF HomeInv, HomeOf, OtherSessions, SessionIs
  <2>3. QED
    BY <2>1, <2>2
<1>5. CASE SendQueue(c) \/ SendWakeup(c) \/ PullExit(c)
  BY <1>2, <1>5, SendQueueSession, SendWakeupSession, PullExitSession
     DEF HomeInv, HomeOf, OtherSessions, SessionIs
<1>6. QED
  BY <1>3, <1>4, <1>5 DEF PullStep

LEMMA LoopHome ==
    ASSUME BridgeInv, HomeInv, NEW l \in Loop, LoopStep(l)
    PROVE  HomeInv'
<1>1. CASE JoinPull(l)
  <2>1. PICK c \in Conn : /\ OtherSessions({c}) /\ session'[c].inbox = <<>>
                          /\ session'[c].relayed = session[c].relayed
                          /\ session'[c].pull = session[c].pull
                          /\ session'[c].hand = session[c].hand
    BY <1>1, JoinPullSession DEF SessionIs
  <2>2. Own(<<>>, c)
    BY DEF Own
  <2>3. QED
    BY <2>1, <2>2 DEF HomeInv, OtherSessions
<1>2. CASE ConnectEstablished(l)
  <2>1. PICK c \in Conn : /\ OtherSessions({c}) /\ session'[c].inbox = session[c].inbox
                          /\ session'[c].relayed = session[c].relayed
                          /\ session'[c].pull = "poll"
    BY <1>2, ConnectEstablishedSession DEF SessionIs
  <2>2. QED
    BY <2>1 DEF HomeInv, OtherSessions
<1>3. ASSUME ~JoinPull(l), ~ConnectEstablished(l)
      PROVE  HomeInv'
  <2>1. session' = session
    BY <1>3 DEF LoopStep, Poll, HandleWakeup, SwapFunctors, FunctorsDone, Wakeup,
                TestCounter, StoreCounter, HandleRead, HandleClose, HandleWrite,
                RemoveConnection, ConnectDestroyed, SendInLoop
  <2>2. QED
    BY <2>1 DEF HomeInv
<1>4. QED
  BY <1>1, <1>2, <1>3

LEMMA SessionsInit == Init => SessionsInv
<1> SUFFICES ASSUME Init
             PROVE  SessionsInv
  OBVIOUS
<1>1. \A c \in Conn : /\ session[c].pull = "none" /\ session[c].inbox = <<>>
                      /\ session[c].relayed = <<>>
  BY DEF Init
<1>2. \A l \in Loop : loop[l].duty = "none"
  BY DEF Init
<1>3. Numbered = {} /\ counter_port = StartId
  BY <1>1 DEF Init, Numbered
<1>4. CountInv
  <2>1. Cardinality({}) = 0
    BY FS_EmptySet
  <2>2. StartId \in Nat /\ LastId \in Nat /\ StartId <= LastId
    BY IdNumbers
  <2>3. BeforeWrap
    BY <1>3, <2>1, <2>2 DEF BeforeWrap
  <2>4. QED
    BY <1>2, <1>3, <2>2, <2>3 DEF CountInv
<1>5. IdInv
  BY <1>2, <1>3, <1>4, LoopNumbers DEF IdInv, Counts
<1>6. HomeInv
  BY <1>1 DEF HomeInv, Own
<1>7. QED
  BY <1>5, <1>6 DEF SessionsInv

LEMMA SessionsStep ==
    ASSUME IdsSuffice, BridgeInv, SessionsInv, [Next]_vars
    PROVE  SessionsInv'
<1>1. IdInv'
  BY IdStep DEF SessionsInv
<1>2. HomeInv'
  <2>1. CASE Environment
    <3>1. CASE \E c \in Conn : AnswerLine(c)
      BY <3>1, AnswerLineHome
    <3>2. CASE Connect \/ (\E c \in Conn : SendLine(c) \/ HangUp(c))
      <4>1. session' = session
        BY <3>2 DEF Connect, SendLine, HangUp
      <4>2. QED
        BY <4>1 DEF SessionsInv, HomeInv
    <3>3. QED
      BY <2>1, <3>1, <3>2 DEF Environment
  <2>2. CASE BaseStep
    <3>1. session' = session
      BY <2>2, BaseDuties
    <3>2. QED
      BY <3>1 DEF SessionsInv, HomeInv
  <2>3. CASE \E l \in Loop : LoopStep(l)
    BY <2>3, LoopHome DEF SessionsInv
  <2>4. CASE \E c \in Conn : PullStep(c)
    BY <2>4, PullHome DEF SessionsInv
  <2>5. CASE UNCHANGED vars
    BY <2>5 DEF vars, SessionsInv, HomeInv
  <2>6. QED
    BY <2>1, <2>2, <2>3, <2>4, <2>5 DEF Next
<1>3. QED
  BY <1>1, <1>2 DEF SessionsInv

(* What a client has read are pieces of answers to its own lines.           *)
LEMMA WrittenIsOwn ==
    ASSUME BridgeInv, StreamInv, HomeInv
    PROVE  AnswersGoHome
<1> SUFFICES ASSUME NEW c \in Conn, NEW i \in 1..Len(sock[c].out)
             PROVE  sock[c].out[i][1][1] = c
  BY DEF AnswersGoHome
<1> DEFINE w == sock[c].out
           r == session[c].relayed
<1>1. Begins(w, AllPieces(r))
  BY WrittenIsPrefix DEF StreamInv
<1>2. r \in Seq(Answer) /\ w \in Seq(Piece) /\ Own(r, c)
  BY StreamTypes DEF HomeInv
<1> HIDE DEF w, r
<1>3. /\ Len(AllPieces(r)) = 2 * Len(r)
      /\ \A j \in 1..(2 * Len(r)) : AllPieces(r)[j] = <<r[(j + 1) \div 2], 2 - (j % 2)>>
  BY ONLY <1>2, PiecesTypes
<1>4. i \in 1..Len(w) /\ i \in 1..(2 * Len(r)) /\ w[i] = AllPieces(r)[i]
  BY <1>1, <1>2, <1>3 DEF Begins, w
<1>5. (i + 1) \div 2 \in 1..Len(r)
  BY <1>2, <1>4
<1>6. w[i][1] = r[(i + 1) \div 2]
  BY <1>3, <1>4
<1>7. r[(i + 1) \div 2][1] = c
  BY <1>2, <1>5 DEF Own
<1>8. QED
  BY <1>6, <1>7 DEF w

LEMMA SessionsInvariant == IdsSuffice => (Spec => []SessionsInv)
<1> SUFFICES ASSUME IdsSuffice
             PROVE  Spec => []SessionsInv
  OBVIOUS
<1>1. Init => SessionsInv
  BY SessionsInit
<1>2. BridgeInv /\ SessionsInv /\ [Next]_vars => SessionsInv'
  BY SessionsStep
<1>3. QED
  BY <1>1, <1>2, BridgeInvariant, PTL DEF Spec

(* A client reads answers to its own lines only, as long as the com ids     *)
(* last or one loop alone counts them: every request carries the number of  *)
(* its session, and no two sessions have the same one (tcp_comm.cpp:33-38,  *)
(* remote_server.cpp:257, remote_action.cpp:35).                            *)
THEOREM AnswersReachTheirClient == IdsSuffice => (Spec => []AnswersGoHome)
<1> SUFFICES ASSUME IdsSuffice
             PROVE  Spec => []AnswersGoHome
  OBVIOUS
<1>1. Spec => []SessionsInv
  BY SessionsInvariant
<1>2. BridgeInv /\ StreamInv /\ SessionsInv => AnswersGoHome
  BY WrittenIsOwn DEF SessionsInv
<1>3. QED
  BY <1>1, <1>2, BridgeInvariant, StreamInvariant, PTL

(* Under the same condition sessions that are open at the same time have    *)
(* different com ids (tcp_comm.cpp:33-38).                                  *)
THEOREM ComIdsAreUnique == IdsSuffice => (Spec => []ComIdsUnique)
<1> SUFFICES ASSUME IdsSuffice
             PROVE  Spec => []ComIdsUnique
  OBVIOUS
<1>1. Spec => []SessionsInv
  BY SessionsInvariant
<1>2. SessionsInv => ComIdsUnique
  BY DEF SessionsInv, IdInv, Numbered, ComIdsUnique, Listens
<1>3. QED
  BY <1>1, <1>2, PTL

------------------------------------------------------------------------------
(* Why a client that hangs up does not take the server with it, as long as  *)
(* it has at most one answer to come.                                       *)

(* The answers to what unit-manager has read, and to all a client has sent. *)
Asked(c)    == AnswersPerLine * (sock[c].read \div 2)
Promised(c) == AnswersPerLine * (Sent(c) \div 2)

(* A session relays, or has still to relay, no more answers than were given.*)
Tally(c) ==
    /\ Len(session[c].relayed) + Len(session[c].inbox) <= session[c].answers
    /\ session[c].pull = "send" =>
           Len(session[c].relayed) + Len(session[c].inbox) < session[c].answers
    /\ session[c].answers <= Asked(c)

(* A client sends a line when it has all the answers to the ones before.    *)
Awaits(c) == sock[c].arrived > 0 => Len(sock[c].out) = 2 * Asked(c)

(* A client that has gone had at most one answer to come.                   *)
Parting(c) ==
    sock[c].client \in {"closed", "reset"} =>
        Promised(c) <= (Len(sock[c].out) \div 2) + 1

(* POLLOUT is asked for, and reported, only while output is waiting.        *)
Buffered(c) ==
    (conn[c].writing \/ Ready("write", c) \in loop[LoopOf(c)].active)
        => conn[c].outputBuffer # <<>>

(* A reset connection that is not yet closed: all that will ever be written *)
(* to it is in the output buffer, and the loop will see the hang-up before  *)
(* it writes again.                                                         *)
LastWords(c) ==
    sock[c].client = "reset" =>
        \/ conn[c].state = "disconnected"
        \/ /\ sock[c].arrived = 0
           /\ Len(sock[c].out) + Len(conn[c].outputBuffer) = 2 * Promised(c)
           /\ Ready("write", c) \in loop[LoopOf(c)].active
                  => Ready("read", c) \in loop[LoopOf(c)].active

Pace(c)   == Awaits(c) /\ Parting(c) /\ Buffered(c) /\ LastWords(c)
TallyInv  == \A c \in Conn : Tally(c)
NoTurn    == \A l \in Loop : loop[l].duty # "write"

PacedInv == up /\ NoTurn /\ TallyInv /\ \A c \in Conn : Pace(c)

Patient == ~Pipelined /\ MaxUnread <= 1

------------------------------------------------------------------------------
LEMMA Multiples ==
    ASSUME NEW m \in Nat, NEW i \in Nat, NEW j \in Nat, i <= j
    PROVE  m * i \in Nat /\ m * i <= m * j
<1>1. j - i \in Nat /\ m * (j - i) \in Nat /\ m * i \in Nat
  OBVIOUS
<1>2. m * j = m * i + m * (j - i)
  OBVIOUS
<1>3. QED
  BY <1>1, <1>2

LEMMA AskedNumbers ==
    ASSUME BridgeInv, NEW c \in Conn
    PROVE  /\ Asked(c) \in Nat /\ Promised(c) \in Nat /\ Asked(c) <= Promised(c)
           /\ sock[c].arrived \in Nat /\ sock[c].read \in Nat
           /\ sock[c].arrived = 0 => Asked(c) = Promised(c)
<1>1. /\ AnswersPerLine \in Nat /\ sock[c].arrived \in Nat /\ sock[c].read \in Nat
  BY BridgeAssumption DEF BridgeInv, TypeOK, SocketState
<1>2. /\ sock[c].read \div 2 \in Nat /\ Sent(c) \div 2 \in Nat
      /\ sock[c].read \div 2 <= Sent(c) \div 2
      /\ sock[c].arrived = 0 => Sent(c) = sock[c].read
  BY <1>1 DEF Sent
<1>3. QED
  BY <1>1, <1>2, Multiples DEF Asked, Promised

LEMMA TallyNumbers ==
    ASSUME BridgeInv, NEW c \in Conn, Tally(c)
    PROVE  LET r == Len(session[c].relayed)
               i == Len(session[c].inbox)
               a == session[c].answers
           IN  /\ r \in Nat /\ i \in Nat /\ a \in Nat
               /\ r + i <= a /\ a <= Asked(c)
               /\ session[c].pull = "send" => r + i < a
<1>1. /\ session[c].inbox \in Seq(Answer) /\ session[c].relayed \in Seq(Answer)
      /\ session[c].answers \in Nat
  BY SessionTypes
<1> DEFINE r == Len(session[c].relayed)  i == Len(session[c].inbox)  a == session[c].answers
<1>2. r \in Nat /\ i \in Nat /\ a \in Nat
  BY <1>1
<1>3. /\ r + i <= a /\ a <= Asked(c)
      /\ session[c].pull = "send" => r + i < a
  BY DEF Tally
<1> HIDE DEF r, i, a
<1>4. QED
  BY <1>2, <1>3 DEF r, i, a

LEMMA TallyFrom ==
    ASSUME NEW c \in Conn, NEW r, NEW i, NEW a,
           Len(session'[c].relayed) = r, Len(session'[c].inbox) = i, session'[c].answers = a,
           r + i <= a, session'[c].pull = "send" => r + i < a, a <= Asked(c)'
    PROVE  Tally(c)'
BY DEF Tally

LEMMA StreamNumbers ==
    ASSUME BridgeInv, StreamInv, NEW c \in Conn, up, Tally(c)
    PROVE  /\ Len(sock[c].out) \in Nat /\ Len(conn[c].outputBuffer) \in Nat
           /\ Len(session[c].relayed) \in Nat
           /\ Len(sock[c].out) <= 2 * Len(session[c].relayed)
           /\ Len(session[c].relayed) <= Asked(c)
           /\ conn[c].state = "connected" =>
                 \E q \in Nat :
                     /\ Len(sock[c].out) + Len(conn[c].outputBuffer) + 2 * q
                            = 2 * Len(session[c].relayed)
                     /\ QueuedSends(c) # <<>> => q > 0
<1> DEFINE r == session[c].relayed  w == sock[c].out  b == conn[c].outputBuffer
           q == QueuedSends(c)  h == InHand(c)  x == q \o h
<1>1. /\ r \in Seq(Answer) /\ w \in Seq(Piece) /\ b \in Seq(Piece)
      /\ q \in Seq(Answer) /\ h \in Seq(Answer) /\ x \in Seq(Answer)
      /\ AllPieces(x) \in Seq(Piece)
  BY StreamTypes
<1>2. Begins(w, AllPieces(r))
  BY WrittenIsPrefix DEF StreamInv
<1>3. Len(AllPieces(r)) = 2 * Len(r) /\ Len(AllPieces(x)) = 2 * Len(x)
  BY <1>1, PiecesTypes
<1>4. Len(r) \in Nat /\ Len(w) \in Nat /\ Len(b) \in Nat /\ Len(w) <= 2 * Len(r)
  BY <1>1, <1>2, <1>3 DEF Begins
<1>5. Len(r) <= Asked(c)
  <2> DEFINE i == Len(session[c].inbox)  a == session[c].answers  n == Len(r)
  <2>1. i \in Nat /\ a \in Nat /\ n \in Nat /\ Asked(c) \in Nat /\ n + i <= a /\ a <= Asked(c)
    BY TallyNumbers, AskedNumbers
  <2> HIDE DEF i, a, n
  <2>2. n <= Asked(c)
    BY <2>1
  <2>3. QED
    BY <2>2 DEF n
<1>6. ASSUME conn[c].state = "connected"
      PROVE  /\ Len(w) + Len(b) + 2 * Len(x) = 2 * Len(r)
             /\ Len(x) \in Nat
             /\ q # <<>> => Len(x) > 0
  <2>1. AllPieces(r) = w \o b \o AllPieces(x)
    BY <1>6 DEF StreamInv, InOrder
  <2> HIDE DEF r, w, b, x, q, h
  <2>2. Len(w \o b \o AllPieces(x)) = Len(w) + Len(b) + Len(AllPieces(x))
    BY ONLY <1>1
  <2>3. Len(x) = Len(q) + Len(h) /\ Len(q) \in Nat /\ Len(h) \in Nat
    BY <1>1 DEF x
  <2>4. q # <<>> => Len(q) > 0
    BY <1>1
  <2>5. QED
    BY <1>3, <1>4, <2>1, <2>2, <2>3, <2>4
<1>7. QED
  BY <1>4, <1>5, <1>6

(* While a line waits to be read nothing is being written.                  *)
LEMMA NothingToWrite ==
    ASSUME BridgeInv, StreamInv, NEW c \in Conn, up, Tally(c), Awaits(c),
           conn[c].state = "connected", sock[c].arrived > 0
    PROVE  conn[c].outputBuffer = <<>> /\ QueuedSends(c) = <<>>
<1> DEFINE w == Len(sock[c].out)  b == Len(conn[c].outputBuffer)
           r == Len(session[c].relayed)  a == Asked(c)
<1>1. /\ w \in Nat /\ b \in Nat /\ r \in Nat /\ r <= a
      /\ \E q \in Nat : w + b + 2 * q = 2 * r /\ (QueuedSends(c) # <<>> => q > 0)
  BY StreamNumbers
<1>2. w = 2 * a /\ a \in Nat
  BY AskedNumbers DEF Awaits
<1>3. conn[c].outputBuffer \in Seq(Piece)
  BY StreamTypes
<1> HIDE DEF w, b, r, a
<1>4. b = 0 /\ QueuedSends(c) = <<>>
  BY <1>1, <1>2
<1>5. QED
  BY <1>3, <1>4 DEF b

(* What is written to a client that has gone ends its answers.              *)
LEMMA LastAnswer ==
    ASSUME BridgeInv, StreamInv, NEW c \in Conn, up, Tally(c), Awaits(c), Parting(c),
           conn[c].state = "connected", sock[c].client \in {"closed", "reset"},
           conn[c].outputBuffer # <<>> \/ QueuedSends(c) # <<>>
    PROVE  /\ sock[c].arrived = 0
           /\ Len(sock[c].out) + Len(conn[c].outputBuffer)
                  + (IF QueuedSends(c) # <<>> THEN 2 ELSE 0) = 2 * Promised(c)
<1> DEFINE w == Len(sock[c].out)  b == Len(conn[c].outputBuffer)
           r == Len(session[c].relayed)  a == Asked(c)  p == Promised(c)
<1>1. /\ w \in Nat /\ b \in Nat /\ r \in Nat /\ r <= a
      /\ \E q \in Nat : w + b + 2 * q = 2 * r /\ (QueuedSends(c) # <<>> => q > 0)
  BY StreamNumbers
<1>2. a \in Nat /\ p \in Nat /\ a <= p /\ sock[c].arrived \in Nat
  BY AskedNumbers
<1>3. sock[c].arrived = 0
  BY <1>2, NothingToWrite
<1>4. p <= (w \div 2) + 1
  BY DEF Parting
<1>5. conn[c].outputBuffer # <<>> => b > 0
  BY StreamTypes
<1> HIDE DEF w, b, r, a, p
<1>6. PICK q \in Nat : w + b + 2 * q = 2 * r /\ (QueuedSends(c) # <<>> => q > 0)
  BY <1>1
<1>7. b + 2 * q <= 2 /\ (b > 0 \/ q > 0)
  BY <1>1, <1>2, <1>4, <1>5, <1>6
<1>8. CASE QueuedSends(c) # <<>>
  <2>1. q = 1 /\ b = 0
    BY <1>1, <1>6, <1>7, <1>8
  <2>2. w + 2 = 2 * p
    BY <1>1, <1>2, <1>4, <1>6, <2>1
  <2>3. QED
    BY <1>1, <1>3, <1>8, <2>1, <2>2 DEF w, b, p
<1>9. CASE QueuedSends(c) = <<>>
  <2>1. b > 0 /\ q = 0
    BY <1>1, <1>5, <1>6, <1>7, <1>9
  <2>2. w + b = 2 * p
    BY <1>1, <1>2, <1>4, <1>6, <1>7, <2>1
  <2>3. w + b + (IF QueuedSends(c) # <<>> THEN 2 ELSE 0) = 2 * p
    <3>1. w + b + 0 = 2 * p
      BY <1>1, <2>2
    <3>2. (IF QueuedSends(c) # <<>> THEN 2 ELSE 0) = 0
      BY <1>9
    <3>3. QED
      BY ONLY <3>1, <3>2
  <2>4. QED
    BY <1>3, <2>3 DEF w, b, p
<1>10. QED
  BY <1>8, <1>9

------------------------------------------------------------------------------
(* The steps that leave a connection's pace as it is.                       *)
SameEvents(c) ==
    \A event \in {"read", "write"} :
        Ready(event, c) \in loop'[LoopOf(c)].active
            <=> Ready(event, c) \in loop[LoopOf(c)].active

Calm ==
    /\ \A m \in Loop : loop'[m].duty = "write" => loop[m].duty = "write"
    /\ \A c \in Conn : SameEvents(c)

LEMMA PaceKept ==
    ASSUME NEW c \in Conn, Pace(c), SameEvents(c), sock'[c] = sock[c],
           conn'[c].outputBuffer = conn[c].outputBuffer,
           conn'[c].writing => conn[c].writing,
           conn[c].state = "disconnected" => conn'[c].state = "disconnected"
    PROVE  Pace(c)'
<1>1. Asked(c)' = Asked(c) /\ Promised(c)' = Promised(c)
  BY DEF Asked, Promised, Sent
<1>2. Awaits(c)' /\ Parting(c)'
  BY <1>1 DEF Pace, Awaits, Parting
<1>3. Buffered(c)'
  BY DEF Pace, Buffered, SameEvents
<1>4. LastWords(c)'
  BY <1>1 DEF Pace, LastWords, SameEvents
<1>5. QED
  BY <1>2, <1>3, <1>4 DEF Pace

LEMMA TallyKept ==
    ASSUME NEW c \in Conn, Tally(c), sock'[c].read = sock[c].read,
           session'[c].relayed = session[c].relayed, session'[c].inbox = session[c].inbox,
           session'[c].answers = session[c].answers,
           session'[c].pull = session[c].pull
               \/ (session[c].pull # "send" /\ session'[c].pull # "send")
    PROVE  Tally(c)'
BY DEF Tally, Asked

LEMMA NoTurnKept ==
    ASSUME Calm, NoTurn
    PROVE  NoTurn'
BY DEF Calm, NoTurn

LEMMA EventNames ==
    \A c, d : \A event \in {"read", "write"} :
        /\ Ready(event, c) # Ready("wakeup", d) /\ Ready(event, c) # Ready("accept", d)
        /\ \A other : Ready(event, c) = Ready(other, d) => c = d /\ event = other
BY DEF Ready

LEMMA LoopCalm ==
    ASSUME BridgeInv, NEW l \in Loop, LoopStep(l), ~Poll(l),
           \A c \in Conn : ~HandleRead(l, c) /\ ~HandleClose(l, c) /\ ~HandleWrite(l, c)
    PROVE  Calm
<1>0. \A c \in Conn : LoopOf(c) \in Loop
  BY LoopNumbers
<1>2. CASE HandleWakeup(l)
  <2>1. /\ OtherLoops({l}) /\ loop'[l].duty = loop[l].duty
        /\ loop'[l].active = loop[l].active \ {Ready("wakeup", NoConn)}
    BY <1>2, HandleWakeupEffect DEF LoopIs
  <2>2. QED
    BY <1>0, <2>1, EventNames DEF OtherLoops, Calm, SameEvents
<1>3. CASE SwapFunctors(l)
  BY <1>0, <1>3, SwapFunctorsEffect DEF LoopIs, OtherLoops, Calm, SameEvents
<1>4. CASE FunctorsDone(l)
  BY <1>0, <1>4, FunctorsDoneEffect DEF LoopIs, OtherLoops, Calm, SameEvents
<1>5. CASE Wakeup(l)
  <2> DEFINE k == Woken(l, loop[l].conn)
  <2>1. /\ OtherLoops({k, l}) /\ loop'[k].duty = loop[k].duty /\ loop'[l].duty = "none"
        /\ loop'[k].active = loop[k].active /\ loop'[l].active = loop[l].active
    BY <1>5, WakeupEffect DEF LoopIs
  <2> HIDE DEF k
  <2>2. QED
    BY <1>0, <2>1 DEF OtherLoops, Calm, SameEvents
<1>6. CASE ConnectEstablished(l)
  BY <1>0, <1>6, ConnectEstablishedEffect DEF LoopIs, OtherLoops, Calm, SameEvents
<1>7. CASE TestCounter(l)
  BY <1>0, <1>7, TestCounterEffect DEF LoopIs, OtherLoops, Calm, SameEvents
<1>8. CASE StoreCounter(l)
  BY <1>0, <1>8, StoreCounterEffect DEF LoopIs, OtherLoops, Calm, SameEvents
<1>9. CASE JoinPull(l)
  BY <1>0, <1>9, JoinPullEffect DEF LoopIs, OtherLoops, Calm, SameEvents
<1>10. CASE RemoveConnection(l)
  <2>1. OtherLoops({Base, l}) /\ loop'[Base].duty = loop[Base].duty /\ loop'[l].duty = "wakeup"
        /\ loop'[Base].active = loop[Base].active /\ loop'[l].active = loop[l].active
    BY <1>10, RemoveConnectionEffect DEF LoopIs
  <2>2. QED
    BY <1>0, <2>1 DEF OtherLoops, Calm, SameEvents
<1>11. CASE ConnectDestroyed(l)
  BY <1>0, <1>11, ConnectDestroyedEffect DEF LoopIs, OtherLoops, Calm, SameEvents
<1>12. CASE SendInLoop(l)
  BY <1>0, <1>12, SendInLoopEffect DEF LoopIs, OtherLoops, Calm, SameEvents
<1>13. QED
  BY <1>2, <1>3, <1>4, <1>5, <1>6, <1>7, <1>8, <1>9, <1>10, <1>11, <1>12 DEF LoopStep

LEMMA BaseCalm ==
    ASSUME BridgeInv, BaseStep
    PROVE  Calm
<1>0. \A c \in Conn : LoopOf(c) \in Loop /\ LoopOf(c) # Base
  BY LoopNumbers
<1>1. ASSUME NEW c \in Conn, Accept(c)
      PROVE  Calm
  <2> DEFINE k == LoopOf(c)
  <2>1. OtherLoops({k, Base}) /\ loop'[k].duty = loop[k].duty /\ loop'[Base].duty = "wakeup"
        /\ loop'[k].active = loop[k].active
    BY <1>1, AcceptEffect DEF LoopIs
  <2> HIDE DEF k
  <2>2. QED
    BY <1>0, <2>1 DEF OtherLoops, Calm, SameEvents
<1>2. CASE RemoveConnectionInLoop
  <2> DEFINE k == LoopOf(Head(loop[Base].running).conn)
  <2>1. OtherLoops({k, Base}) /\ loop'[k].duty = loop[k].duty /\ loop'[Base].duty = "wakeup"
        /\ loop'[k].active = loop[k].active
    BY <1>2, RemoveConnectionInLoopEffect DEF LoopIs
  <2> HIDE DEF k
  <2>2. QED
    BY <1>0, <2>1 DEF OtherLoops, Calm, SameEvents
<1>3. QED
  BY <1>1, <1>2 DEF BaseStep

LEMMA PullCalm ==
    ASSUME BridgeInv, NEW c \in Conn, PullStep(c)
    PROVE  Calm /\ UNCHANGED <<sock, conn, up>>
<1>0. \A d \in Conn : LoopOf(d) \in Loop
  BY LoopNumbers
<1>1. CASE PullReceive(c) \/ SendTest(c) \/ PullExit(c)
  BY <1>1 DEF PullReceive, SendTest, PullExit, Calm, SameEvents
<1>2. CASE SendQueue(c) \/ SendWakeup(c)
  <2> DEFINE k == LoopOf(c)
  <2>1. OtherLoops({k}) /\ loop'[k].duty = loop[k].duty /\ loop'[k].active = loop[k].active
    BY <1>2, SendQueueEffect, SendWakeupEffect DEF LoopIs
  <2>2. UNCHANGED <<sock, conn, up>>
    BY <1>2 DEF SendQueue, SendWakeup
  <2> HIDE DEF k
  <2>3. QED
    BY <1>0, <2>1, <2>2 DEF OtherLoops, Calm, SameEvents
<1>3. QED
  BY <1>1, <1>2 DEF PullStep

LEMMA WrittenLengths ==
    ASSUME NEW w \in Seq(Piece), NEW data \in Seq(Piece), NEW n \in 0..Len(data)
    PROVE  /\ Len(w \o Taken(data, n)) = Len(w) + n
           /\ Len(Left(data, n)) + n = Len(data)
<1>1. Len(data) \in Nat /\ Len(w) \in Nat /\ n \in Nat /\ n <= Len(data)
  OBVIOUS
<1>2. Taken(data, n) \in Seq(Piece) /\ Len(Taken(data, n)) = n
  BY <1>1 DEF Taken
<1>3. Len(Left(data, n)) = Len(data) - n
  BY <1>1 DEF Left
<1>4. QED
  BY <1>1, <1>2, <1>3

(* n pieces are written, d queued: d is 2 for a new answer.                 *)
LEMMA PaceWritten ==
    ASSUME BridgeInv, NEW c \in Conn, Pace(c), NEW n \in Nat, NEW d \in {0, 2},
           sock[c].client # "reset", sock[c].arrived = 0,
           sock[c].client = "closed" =>
               Len(sock[c].out) + Len(conn[c].outputBuffer) + d = 2 * Promised(c),
           sock'[c].arrived = sock[c].arrived, sock'[c].read = sock[c].read,
           sock'[c].client \in AfterWrite(c, n),
           Len(sock'[c].out) = Len(sock[c].out) + n,
           Len(conn'[c].outputBuffer) + n = Len(conn[c].outputBuffer) + d,
           conn'[c].outputBuffer \in Seq(Piece),
           conn'[c].writing => conn'[c].outputBuffer # <<>>,
           Ready("write", c) \notin loop'[LoopOf(c)].active
    PROVE  Pace(c)'
<1> DEFINE w == Len(sock[c].out)  v == Len(sock'[c].out)
           b == Len(conn[c].outputBuffer)  z == Len(conn'[c].outputBuffer)
           p == Promised(c)
<1>1. sock[c].out \in Seq(Piece) /\ conn[c].outputBuffer \in Seq(Piece)
  BY DEF BridgeInv, TypeOK, SocketState, ConnState
<1>2. w \in Nat /\ v = w + n /\ b \in Nat /\ z \in Nat /\ z + n = b + d /\ p \in Nat
  BY <1>1, AskedNumbers, SMTT(30)
<1>3. Promised(c)' = p
  BY DEF Promised, Sent
<1>4. Awaits(c)' /\ Buffered(c)'
  BY DEF Awaits, Buffered
<1>5. sock'[c].client \in {"closed", "reset"} => sock[c].client = "closed"
  BY DEF AfterWrite
<1>6. Parting(c)'
  <2>1. sock[c].client = "closed" => p <= (w \div 2) + 1
    BY DEF Pace, Parting
  <2> HIDE DEF w, v, b, z, p
  <2>2. sock[c].client = "closed" => p <= (v \div 2) + 1
    BY <1>2, <2>1
  <2>3. QED
    BY <1>3, <1>5, <2>2 DEF Parting, v
<1>7. LastWords(c)'
  <2>1. sock[c].client = "closed" => w + b + d = 2 * p
    OBVIOUS
  <2> HIDE DEF w, v, b, z, p
  <2>2. sock[c].client = "closed" => v + z = 2 * p
    BY <1>2, <2>1
  <2>3. QED
    BY <1>3, <1>5, <2>2 DEF LastWords, v, z
<1>8. QED
  BY <1>4, <1>6, <1>7 DEF Pace

(* A reset connection that is still connected is not written to.            *)
LEMMA ResetIsSilent ==
    ASSUME BridgeInv, StreamInv, NEW c \in Conn, up, Tally(c), Pace(c),
           conn[c].state = "connected", QueuedSends(c) # <<>>
    PROVE  sock[c].client # "reset" /\ sock[c].arrived = 0
<1> DEFINE w == Len(sock[c].out)  b == Len(conn[c].outputBuffer)  p == Promised(c)
<1>1. sock[c].arrived = 0
  BY NothingToWrite, AskedNumbers DEF Pace
<1>2. w \in Nat /\ b \in Nat /\ p \in Nat
  BY StreamNumbers, AskedNumbers
<1>3. ASSUME sock[c].client = "reset"
      PROVE  FALSE
  <2>1. w + b + 2 = 2 * p
    BY <1>3, LastAnswer DEF Pace
  <2>2. w + b = 2 * p
    BY <1>3 DEF Pace, LastWords
  <2> HIDE DEF w, b, p
  <2>3. QED
    BY <1>2, <2>1, <2>2
<1>4. QED
  BY <1>1, <1>3

LEMMA SendWaits ==
    ASSUME BridgeInv, NEW l \in Loop, Runs(l, "send")
    PROVE  LET c == Head(loop[l].running).conn IN
           /\ c \in Conn /\ LoopOf(c) = l /\ QueuedSends(c) # <<>>
           /\ conn[c].state \in {"connected", "disconnected"}
<1>0. PICK h : h = Head(loop[l].running)
  OBVIOUS
<1> DEFINE c == h.conn
<1>1. /\ loop[l].running # <<>> /\ h \in FunctorsOf(l) /\ h.run = "send" /\ Has(l, h)
      /\ c \in Conn /\ l # Base
  BY <1>0, RunsHead
<1>2. LoopOf(c) = l /\ h.answer \in Answer
  BY <1>0, <1>1, RunsHead
<1>3. conn[c].state \in {"connected", "disconnected"}
  BY <1>1 DEF BridgeInv, SendsInv
<1>4. QueuedSends(c) # <<>>
  <2> DEFINE F == FunctorsOf(l)  s == Queue(l)  a == h.answer
  <2>1. s # <<>> /\ h = Head(s) /\ s \in Seq(F)
    <3>1. /\ loop[l].running \in Seq(F) /\ loop[l].pending \in Seq(F) /\ s \in Seq(F)
      BY QueueType DEF BridgeInv
    <3>2. QED
      BY <1>0, <1>1, <3>1, RunOfConcat, ZenonT(60) DEF Queue
  <2>2. \A f \in F : f.run = "send" => f.answer \in Answer
    BY <1>1, FunctorsAtHome, LoopNumbers
  <2>3. QueuedSends(c) = SendsIn(s, c)
    BY <1>2 DEF QueuedSends, Queue
  <2>4. Head(s).run = "send" /\ Head(s).conn = c /\ Head(s).answer = a
    BY <1>1, <2>1
  <2> HIDE DEF F, s, c, a
  <2>5. SendsIn(s, c) = IF Head(s).run = "send" /\ Head(s).conn = c
                        THEN <<Head(s).answer>> \o SendsIn(Tail(s), c)
                        ELSE SendsIn(Tail(s), c)
    BY ONLY <2>1, <2>2, SendsOfTail
  <2> DEFINE t == Tail(s)
  <2>6. t \in Seq(F)
    BY <2>1
  <2> HIDE DEF t
  <2>7. SendsIn(t, c) \in Seq(Answer)
    <3>1. PICK g : Gathers(g, t, c) /\ SendsIn(t, c) = g[Len(t)]
      BY ONLY <2>6, SendsAreGathered
    <3>2. \A n \in 0..Len(t) : g[n] \in Seq(Answer)
      BY ONLY <2>2, <2>6, <3>1, SendsType
    <3>3. Len(t) \in 0..Len(t)
      BY <2>6
    <3>4. QED
      BY <3>1, <3>2, <3>3
  <2>8. SendsIn(s, c) = <<a>> \o SendsIn(t, c) /\ a \in Answer
    BY <1>2, <2>4, <2>5 DEF t, a
  <2>9. <<a>> \o SendsIn(t, c) # <<>>
    <3> DEFINE x == SendsIn(t, c)
    <3>1. x \in Seq(Answer) /\ a \in Answer
      BY <2>7, <2>8
    <3> HIDE DEF x
    <3>2. Len(<<a>> \o x) = 1 + Len(x) /\ Len(x) \in Nat
      BY <3>1
    <3>3. <<a>> \o x # <<>>
      BY <3>2
    <3>4. QED
      BY <3>3 DEF x
  <2>10. QED
    BY <2>3, <2>8, <2>9
<1>5. QED
  BY <1>0, <1>1, <1>2, <1>3, <1>4

------------------------------------------------------------------------------
(* The events of the connections that loop l does not handle now.           *)
LEMMA OtherEvents ==
    ASSUME NEW l \in Loop, OtherLoops({l}), NEW c \in Conn,
           loop'[l].active = loop[l].active \ {Ready("read", c), Ready("write", c)}
               \/ loop'[l].active = loop[l].active \ {Ready("write", c)}
    PROVE  \A d \in Conn \ {c} : SameEvents(d)
<1> SUFFICES ASSUME NEW d \in Conn \ {c}, NEW event \in {"read", "write"}
             PROVE  Ready(event, d) \in loop'[LoopOf(d)].active
                        <=> Ready(event, d) \in loop[LoopOf(d)].active
  BY DEF SameEvents
<1>1. LoopOf(d) \in Loop
  BY LoopNumbers
<1>2. Ready(event, d) \notin {Ready("read", c), Ready("write", c)}
  BY DEF Ready
<1>3. QED
  BY <1>1, <1>2 DEF OtherLoops

LEMMA PollPaced ==
    ASSUME BridgeInv, PacedInv, NEW l \in Loop, Poll(l)
    PROVE  PacedInv'
<1>1. UNCHANGED <<sock, conn, session, up>>
  BY DEF Poll
<1>2. /\ OtherLoops({l}) /\ loop'[l].duty = loop[l].duty
      /\ loop'[l].active = ReadyChannels(l)
  BY PollEffect DEF LoopIs
<1>3. NoTurn'
  BY <1>2 DEF PacedInv, NoTurn, OtherLoops
<1>4. TallyInv'
  BY <1>1, TallyKept DEF PacedInv, TallyInv
<1>5. ASSUME NEW c \in Conn
      PROVE  Pace(c)'
  <2>1. CASE LoopOf(c) # l
    <3>1. SameEvents(c)
      BY <1>2, <2>1, LoopNumbers DEF OtherLoops, SameEvents
    <3>2. QED
      BY <1>1, <3>1, PaceKept DEF PacedInv
  <2>2. CASE LoopOf(c) = l
    <3>1. Ready("write", c) \in loop'[l].active => conn[c].writing /\ conn[c].added
      BY <1>2 DEF ReadyChannels, Ready
    <3>2. conn[c].writing => conn[c].state = "connected" /\ conn[c].reading
      <4>1. Stage(c)
        BY DEF BridgeInv, ConnInv
      <4>2. QED
        BY <4>1 DEF Stage, Fresh
    <3>3. Ready("write", c) \in loop'[l].active /\ sock[c].client = "reset"
              => Ready("read", c) \in loop'[l].active
      BY <1>2, <2>2, <3>1, <3>2 DEF ReadyChannels
    <3>4. Pace(c)
      BY DEF PacedInv
    <3>5. Asked(c)' = Asked(c) /\ Promised(c)' = Promised(c)
      BY <1>1 DEF Asked, Promised, Sent
    <3>6. Awaits(c)' /\ Parting(c)'
      BY <1>1, <3>4, <3>5 DEF Pace, Awaits, Parting
    <3>7. Buffered(c)'
      BY <1>1, <2>2, <3>1, <3>4 DEF Pace, Buffered
    <3>8. LastWords(c)'
      BY <1>1, <2>2, <3>3, <3>4, <3>5 DEF Pace, LastWords
    <3>9. QED
      BY <3>6, <3>7, <3>8 DEF Pace
  <2>3. QED
    BY <2>1, <2>2
<1>6. QED
  BY <1>1, <1>3, <1>4, <1>5 DEF PacedInv

LEMMA ReadPaced ==
    ASSUME BridgeInv, StreamInv, PacedInv, NEW l \in Loop, NEW c \in Conn, HandleRead(l, c)
    PROVE  PacedInv'
<1>1. UNCHANGED <<conn, session, up>> /\ sock[c].arrived > 0 /\ Handles(l, "read", c)
  BY DEF HandleRead
<1>2. LoopOf(c) = l /\ conn[c].state = "connected" /\ Tally(c) /\ Pace(c) /\ up
  BY <1>1, HandlesConnected DEF PacedInv, TallyInv
<1>3. conn[c].outputBuffer = <<>>
  BY <1>1, <1>2, NothingToWrite DEF Pace
<1>4. ~AlsoWrites(l, c) /\ ~conn[c].writing
  BY <1>2, <1>3 DEF Pace, Buffered, AlsoWrites
<1>5. /\ OtherLoops({l}) /\ loop'[l].duty = "none"
      /\ loop'[l].active = loop[l].active \ {Ready("read", c), Ready("write", c)}
  BY <1>4, HandleReadEffect DEF LoopIs
<1>6. /\ \A d \in Conn \ {c} : sock'[d] = sock[d]
      /\ sock'[c].client = sock[c].client /\ sock'[c].arrived = 0
      /\ sock'[c].read = sock[c].read + sock[c].arrived /\ sock'[c].out = sock[c].out
  BY HandleReadSock DEF OtherSocks, SockIs
<1>7. NoTurn'
  BY <1>5 DEF PacedInv, NoTurn, OtherLoops
<1>8. ASSUME NEW d \in Conn \ {c}
      PROVE  Tally(d)' /\ Pace(d)'
  BY <1>1, <1>5, <1>6, OtherEvents, TallyKept, PaceKept DEF PacedInv, TallyInv
<1>9. Promised(c)' = Promised(c) /\ Asked(c)' = Promised(c)
  <2>1. sock[c].read \in Nat /\ sock[c].arrived \in Nat
    BY AskedNumbers
  <2>2. Sent(c)' = Sent(c) /\ sock'[c].read = Sent(c)
    BY <1>6, <2>1 DEF Sent
  <2>3. QED
    BY <2>2 DEF Promised, Asked
<1>10. Tally(c)'
  <2>1. session[c].answers <= Promised(c)
    <3> DEFINE n == session[c].answers  a == Asked(c)  p == Promised(c)
    <3>1. n \in Nat /\ a \in Nat /\ p \in Nat /\ n <= a /\ a <= p
      BY <1>2, SessionTypes, AskedNumbers DEF Tally
    <3> HIDE DEF n, a, p
    <3>2. n <= p
      BY <3>1
    <3>3. QED
      BY <3>2 DEF n, p
  <2>2. session'[c] = session[c]
    BY <1>1
  <2>3. QED
    BY <1>2, <1>9, <2>1, <2>2 DEF Tally
<1>11. Pace(c)'
  <2>0. Awaits(c)'
    BY <1>6 DEF Awaits
  <2>1. Parting(c)'
    BY <1>2, <1>6, <1>9 DEF Pace, Parting
  <2>2. Buffered(c)'
    BY <1>1, <1>2, <1>4, <1>5 DEF Buffered
  <2>3. sock[c].client # "reset"
    <3>1. sock[c].arrived # 0
      BY <1>1, AskedNumbers
    <3>2. LastWords(c) /\ conn[c].state # "disconnected"
      BY <1>2 DEF Pace
    <3>3. QED
      BY <3>1, <3>2, Zenon DEF LastWords
  <2>4. QED
    BY <1>6, <2>0, <2>1, <2>2, <2>3 DEF Pace, LastWords
<1>12. QED
  BY <1>1, <1>7, <1>8, <1>10, <1>11 DEF PacedInv, TallyInv

LEMMA ClosePaced ==
    ASSUME BridgeInv, PacedInv, NEW l \in Loop, NEW c \in Conn, HandleClose(l, c)
    PROVE  PacedInv'
<1>1. UNCHANGED <<sock, session, up>> /\ Handles(l, "read", c)
  BY DEF HandleClose
<1>2. LoopOf(c) = l
  BY <1>1, HandlesConnected
<1>3. /\ OtherLoops({l}) /\ loop'[l].duty = "join"
      /\ loop'[l].active = loop[l].active \ {Ready("read", c), Ready("write", c)}
  BY HandleCloseEffect DEF LoopIs
<1>4. /\ \A d \in Conn \ {c} : conn'[d] = conn[d]
      /\ conn'[c].state = "disconnected" /\ ~conn'[c].writing
      /\ conn'[c].outputBuffer = conn[c].outputBuffer
  BY HandleCloseConn DEF OtherConns, ConnIs
<1>5. NoTurn'
  BY <1>3 DEF PacedInv, NoTurn, OtherLoops
<1>6. TallyInv'
  BY <1>1, TallyKept DEF PacedInv, TallyInv
<1>7. \A d \in Conn \ {c} : Pace(d)'
  BY <1>1, <1>3, <1>4, OtherEvents, PaceKept DEF PacedInv
<1>8. Pace(c)'
  <2>1. Asked(c)' = Asked(c) /\ Promised(c)' = Promised(c)
    BY <1>1 DEF Asked, Promised, Sent
  <2>2. Awaits(c)' /\ Parting(c)'
    BY <1>1, <2>1 DEF PacedInv, Pace, Awaits, Parting
  <2>3. Buffered(c)' /\ LastWords(c)'
    BY <1>2, <1>3, <1>4 DEF Buffered, LastWords
  <2>4. QED
    BY <2>2, <2>3 DEF Pace
<1>9. QED
  BY <1>1, <1>5, <1>6, <1>7, <1>8 DEF PacedInv

LEMMA WritePaced ==
    ASSUME BridgeInv, StreamInv, PacedInv, NEW l \in Loop, NEW c \in Conn, HandleWrite(l, c)
    PROVE  PacedInv'
<1>1. session' = session /\ WriteTurn(l, c)
  BY DEF HandleWrite
<1>2. /\ LoopOf(c) = l /\ conn[c].state = "connected" /\ Tally(c) /\ Pace(c) /\ up
  BY <1>1, WriteTurnConnected DEF PacedInv, TallyInv
<1>3. Ready("write", c) \in loop[l].active /\ Ready("read", c) \notin loop[l].active
  BY <1>1 DEF WriteTurn, Handles, PacedInv, NoTurn, Duty
<1> DEFINE b == conn[c].outputBuffer
<1>4. b # <<>> /\ b \in Seq(Piece) /\ sock[c].out \in Seq(Piece)
  BY <1>2, <1>3, StreamTypes DEF Pace, Buffered
<1>5. sock[c].client # "reset"
  BY <1>2, <1>3 DEF Pace, LastWords
<1>6. sock[c].arrived = 0
  BY <1>2, <1>4, NothingToWrite, AskedNumbers DEF Pace
<1>7. sock[c].client = "closed" => Len(sock[c].out) + Len(b) + 0 = 2 * Promised(c)
  <2> SUFFICES ASSUME sock[c].client = "closed"
               PROVE  Len(sock[c].out) + Len(b) + 0 = 2 * Promised(c)
    OBVIOUS
  <2> DEFINE x == Len(sock[c].out)  y == Len(b)  p == Promised(c)
             z == IF QueuedSends(c) # <<>> THEN 2 ELSE 0
  <2>1. x + y + z = 2 * p
    BY <1>2, <1>4, LastAnswer DEF Pace
  <2>2. /\ x \in Nat /\ y \in Nat /\ p \in Nat /\ z \in {0, 2} /\ y > 0
    BY <1>4, AskedNumbers
  <2>3. z = 0
    <3>1. p <= (x \div 2) + 1
      BY <1>2 DEF Pace, Parting
    <3> HIDE DEF x, y, z, p
    <3>2. QED
      BY <2>1, <2>2, <3>1
  <2> HIDE DEF x, y, z, p
  <2>4. x + y + 0 = 2 * p
    BY <2>1, <2>2, <2>3
  <2>5. QED
    BY <2>4 DEF x, y, p
<1>8. /\ OtherLoops({l}) /\ loop'[l].duty = "none"
      /\ loop'[l].active = loop[l].active \ {Ready("write", c)}
  BY HandleWriteEffect DEF LoopIs
<1>9. PICK n \in 1..Len(b) : Write(c, b, n)
  BY DEF HandleWrite
<1>10. n \in 0..Len(b) /\ n \in Nat
  BY <1>4
<1> HIDE DEF b
<1>11. /\ up' = up
       /\ OtherConns({c}) /\ OtherSocks({c})
       /\ conn'[c].state = conn[c].state
       /\ conn'[c].writing = (Left(b, n) # <<>>)
       /\ conn'[c].outputBuffer = Left(b, n) /\ Left(b, n) \in Seq(Piece)
       /\ sock'[c].client \in AfterWrite(c, n)
       /\ sock'[c].arrived = sock[c].arrived /\ sock'[c].read = sock[c].read
       /\ sock'[c].out = sock[c].out \o Taken(b, n)
  <2>1. /\ up' = up /\ Left(b, n) \in Seq(Piece)
        /\ OtherConns({c}) /\ OtherSocks({c})
        /\ ConnIs(c, conn[c].state, conn[c].reading, Left(b, n) # <<>>,
                  conn[c].added, conn[c].context, Left(b, n))
        /\ \E after \in AfterWrite(c, n) :
              SockIs(c, after, sock[c].arrived, sock[c].read, sock[c].out \o Taken(b, n))
    BY <1>4, <1>5, <1>9, <1>10, WriteEffect
  <2>2. QED
    BY <2>1 DEF ConnIs, SockIs
<1>12. /\ Len(sock'[c].out) = Len(sock[c].out) + n
       /\ Len(conn'[c].outputBuffer) + n = Len(conn[c].outputBuffer)
  <2> DEFINE w == sock[c].out
  <2>1. w \in Seq(Piece) /\ b \in Seq(Piece) /\ n \in 0..Len(b)
    BY <1>4, <1>10
  <2> HIDE DEF w
  <2>2. Len(w \o Taken(b, n)) = Len(w) + n /\ Len(Left(b, n)) + n = Len(b)
    BY ONLY <2>1, WrittenLengths
  <2>3. QED
    BY <1>11, <2>2 DEF w, b
<1>13. Len(conn'[c].outputBuffer) + n = Len(conn[c].outputBuffer) + 0
  BY <1>4, <1>12 DEF b
<1>14. Ready("write", c) \notin loop'[LoopOf(c)].active
  BY <1>2, <1>8
<1>15. Pace(c)'
  BY <1>2, <1>5, <1>6, <1>7, <1>10, <1>11, <1>12, <1>13, <1>14, PaceWritten DEF b
<1>16. \A d \in Conn \ {c} : Pace(d)'
  BY <1>8, <1>11, OtherEvents, PaceKept DEF PacedInv, OtherConns, OtherSocks
<1>17. TallyInv'
  BY <1>1, <1>11, TallyKept DEF PacedInv, TallyInv, OtherSocks
<1>18. NoTurn'
  BY <1>8 DEF PacedInv, NoTurn, OtherLoops
<1>19. QED
  BY <1>2, <1>11, <1>15, <1>16, <1>17, <1>18 DEF PacedInv

LEMMA SendPaced ==
    ASSUME BridgeInv, StreamInv, PacedInv, NEW l \in Loop, SendInLoop(l)
    PROVE  PacedInv'
<1>0. PICK h : h = Head(loop[l].running)
  OBVIOUS
<1> DEFINE c == h.conn
           data == Pieces(h.answer)
<1>1. session' = session /\ Runs(l, "send") /\ loop[l].at = "functors" /\ up
  BY DEF SendInLoop, Runs, At
<1>2. /\ c \in Conn /\ LoopOf(c) = l /\ QueuedSends(c) # <<>>
      /\ conn[c].state \in {"connected", "disconnected"}
  BY <1>0, <1>1, SendWaits
<1>3. /\ data \in Seq(Piece) /\ Len(data) = 2
      /\ OtherConns({c}) /\ OtherSocks({c})
      /\ \/ /\ conn[c].state = "disconnected"
            /\ UNCHANGED <<sock, conn, up>>
         \/ /\ conn[c].state # "disconnected" /\ ~CanWriteDirectly(c)
            /\ UNCHANGED <<sock, up>>
            /\ ConnIs(c, conn[c].state, conn[c].reading, TRUE, conn[c].added,
                      conn[c].context, conn[c].outputBuffer \o data)
         \/ /\ conn[c].state # "disconnected" /\ CanWriteDirectly(c)
            /\ \E n \in 0..Len(data) : Write(c, data, n)
  BY <1>0, SendInLoopConn
<1>4. /\ OtherLoops({l}) /\ loop'[l].duty = loop[l].duty
      /\ loop'[l].active = loop[l].active
  BY SendInLoopEffect DEF LoopIs
<1>5. loop[l].active = {}
  BY <1>1 DEF BridgeInv, LoopInv, Orderly
<1> HIDE DEF c, data
<1>6. \A d \in Conn : SameEvents(d)
  BY <1>4, LoopNumbers DEF SameEvents, OtherLoops
<1>7. NoTurn'
  BY <1>4 DEF PacedInv, NoTurn, OtherLoops
<1>8. \A d \in Conn \ {c} : Pace(d)'
  BY <1>3, <1>6, PaceKept DEF PacedInv, OtherConns, OtherSocks
<1>9. Tally(c) /\ Pace(c)
  BY <1>2 DEF PacedInv, TallyInv
<1>10. conn[c].state = "connected" => sock[c].client # "reset" /\ sock[c].arrived = 0
  BY <1>1, <1>2, <1>9, ResetIsSilent
<1>11. Ready("write", c) \notin loop'[LoopOf(c)].active
  BY <1>2, <1>4, <1>5
<1>12. up' /\ Pace(c)' /\ sock'[c].read = sock[c].read
  <2>1. CASE conn[c].state = "disconnected" /\ UNCHANGED <<sock, conn, up>>
    BY <1>1, <1>2, <1>6, <1>9, <2>1, PaceKept
  <2>2. CASE /\ conn[c].state # "disconnected" /\ UNCHANGED <<sock, up>>
             /\ ConnIs(c, conn[c].state, conn[c].reading, TRUE, conn[c].added,
                       conn[c].context, conn[c].outputBuffer \o data)
    <3>1. Asked(c)' = Asked(c) /\ Promised(c)' = Promised(c)
      BY <2>2 DEF Asked, Promised, Sent
    <3>2. Awaits(c)' /\ Parting(c)'
      BY <1>9, <2>2, <3>1 DEF Pace, Awaits, Parting
    <3>3. conn[c].outputBuffer \in Seq(Piece)
      BY <1>2, StreamTypes
    <3>4. conn'[c].outputBuffer # <<>>
      <4> DEFINE b == conn[c].outputBuffer
      <4>0. b \in Seq(Piece) /\ data \in Seq(Piece) /\ Len(data) = 2
        BY <1>3, <3>3
      <4> HIDE DEF b
      <4>1. Len(b \o data) = Len(b) + Len(data)
        BY ONLY <4>0, ConcatProperties
      <4>2. b \o data # <<>>
        BY <4>0, <4>1
      <4>3. QED
        BY <2>2, <4>2 DEF ConnIs, b
    <3>5. Buffered(c)'
      BY <3>4 DEF Buffered
    <3>6. LastWords(c)'
      BY <1>2, <1>10, <2>2 DEF LastWords
    <3>7. QED
      BY <1>1, <2>2, <3>2, <3>5, <3>6 DEF Pace
  <2>3. CASE /\ conn[c].state # "disconnected" /\ CanWriteDirectly(c)
             /\ \E n \in 0..Len(data) : Write(c, data, n)
    <3>1. PICK n \in 0..Len(data) : Write(c, data, n)
      BY <2>3
    <3>2. n \in Nat /\ conn[c].state = "connected" /\ conn[c].outputBuffer = <<>>
      BY <1>2, <1>3, <2>3 DEF CanWriteDirectly
    <3>3. /\ up' = up /\ Left(data, n) \in Seq(Piece)
          /\ ConnIs(c, conn[c].state, conn[c].reading, Left(data, n) # <<>>,
                    conn[c].added, conn[c].context, Left(data, n))
          /\ \E after \in AfterWrite(c, n) :
                SockIs(c, after, sock[c].arrived, sock[c].read,
                       sock[c].out \o Taken(data, n))
      BY <1>2, <1>3, <1>10, <3>1, <3>2, WriteEffect
    <3>4. /\ conn'[c].writing = (Left(data, n) # <<>>)
          /\ conn'[c].outputBuffer = Left(data, n)
          /\ sock'[c].client \in AfterWrite(c, n)
          /\ sock'[c].arrived = sock[c].arrived /\ sock'[c].read = sock[c].read
          /\ sock'[c].out = sock[c].out \o Taken(data, n)
      BY <3>3 DEF ConnIs, SockIs
    <3> DEFINE w == sock[c].out
    <3>5. w \in Seq(Piece) /\ data \in Seq(Piece) /\ n \in 0..Len(data)
      BY <1>2, <1>3, <3>1, StreamTypes
    <3> HIDE DEF w
    <3>6. Len(w \o Taken(data, n)) = Len(w) + n /\ Len(Left(data, n)) + n = Len(data)
      BY ONLY <3>5, WrittenLengths
    <3>7. Len(conn[c].outputBuffer) = 0
      BY <3>2
    <3>8. /\ Len(sock'[c].out) = Len(sock[c].out) + n
          /\ Len(conn'[c].outputBuffer) + n = Len(conn[c].outputBuffer) + 2
      BY <1>3, <3>4, <3>6, <3>7 DEF w
    <3>9. sock[c].client = "closed" =>
              Len(sock[c].out) + Len(conn[c].outputBuffer) + 2 = 2 * Promised(c)
      BY <1>1, <1>2, <1>9, <3>2, LastAnswer DEF Pace
    <3>10. 2 \in {0, 2} /\ sock[c].client # "reset" /\ sock[c].arrived = 0
      BY <1>10, <3>2
    <3>11. Pace(c)'
      BY <1>2, <1>9, <1>11, <3>2, <3>3, <3>4, <3>8, <3>9, <3>10, PaceWritten
    <3>12. QED
      BY <1>1, <3>3, <3>4, <3>11
  <2>4. QED
    BY <1>3, <2>1, <2>2, <2>3
<1>13. \A d \in Conn : sock'[d].read = sock[d].read
  BY <1>3, <1>12 DEF OtherSocks
<1>14. TallyInv'
  BY <1>1, <1>13, TallyKept DEF PacedInv, TallyInv
<1>15. QED
  BY <1>7, <1>8, <1>12, <1>14 DEF PacedInv

LEMMA PullPaced ==
    ASSUME BridgeInv, PacedInv, NEW c \in Conn, PullStep(c)
    PROVE  PacedInv'
<1>1. Calm /\ UNCHANGED <<sock, conn, up>>
  BY PullCalm
<1>2. NoTurn' /\ \A d \in Conn : Pace(d)'
  BY <1>1, NoTurnKept, PaceKept DEF PacedInv, Calm
<1> DEFINE r == Len(session[c].relayed)  i == Len(session[c].inbox)  a == session[c].answers
<1>3. /\ r \in Nat /\ i \in Nat /\ a \in Nat
      /\ r + i <= a /\ a <= Asked(c)
      /\ session[c].pull = "send" => r + i < a
  BY TallyNumbers DEF PacedInv, TallyInv
<1>4. /\ session[c].inbox \in Seq(Answer) /\ session[c].relayed \in Seq(Answer)
  BY SessionTypes
<1>5. Asked(c)' = Asked(c)
  BY <1>1 DEF Asked
<1>6. CASE PullReceive(c)
  <2>1. session[c].inbox # <<>>
    BY <1>6 DEF PullReceive
  <2>2. /\ OtherSessions({c}) /\ session'[c].answers = a /\ session'[c].pull = "send"
        /\ session'[c].inbox = Tail(session[c].inbox)
        /\ Len(session'[c].relayed) = r
    BY <1>6, PullReceiveSession DEF SessionIs
  <2>3. Len(Tail(session[c].inbox)) = i - 1
    BY <1>4, <2>1
  <2> HIDE DEF r, i, a
  <2>4. Len(session'[c].inbox) = i - 1
    BY <2>2, <2>3
  <2>5. r + (i - 1) <= a /\ r + (i - 1) < a
    BY <1>3
  <2>6. Tally(c)'
    BY <1>3, <1>5, <2>2, <2>4, <2>5, TallyFrom
  <2>7. QED
    BY <1>1, <1>2, <2>2, <2>6, TallyKept DEF PacedInv, TallyInv, OtherSessions
<1>7. CASE SendTest(c)
  <2>1. session[c].pull = "send"
    BY <1>7 DEF SendTest, PullAt
  <2>2. /\ OtherSessions({c}) /\ session'[c].answers = a /\ session'[c].pull # "send"
        /\ Len(session'[c].inbox) = i
        /\ Len(session'[c].relayed) = r \/ Len(session'[c].relayed) = r + 1
    <3>1. CASE conn[c].state = "connected"
      <4>1. /\ OtherSessions({c}) /\ session'[c].answers = a /\ session'[c].pull # "send"
            /\ session'[c].inbox = session[c].inbox /\ session[c].hand \in Answer
            /\ session'[c].relayed = Append(session[c].relayed, session[c].hand)
        BY <1>7, <3>1, SendTestConnected DEF SessionIs
      <4>2. Len(Append(session[c].relayed, session[c].hand)) = r + 1
        BY <1>4, <4>1
      <4>3. QED
        BY <4>1, <4>2
    <3>2. CASE conn[c].state # "connected"
      BY <1>7, <3>2, SendTestClosed DEF SessionIs
    <3>3. QED
      BY <3>1, <3>2
  <2> HIDE DEF r, i, a
  <2>3. r + i <= a /\ r + 1 + i <= a
    BY <1>3, <2>1
  <2>4. Tally(c)'
    BY <1>3, <1>5, <2>2, <2>3, TallyFrom
  <2>5. QED
    BY <1>1, <1>2, <2>2, <2>4, TallyKept DEF PacedInv, TallyInv, OtherSessions
<1>8. CASE SendQueue(c) \/ SendWakeup(c) \/ PullExit(c)
  <2>1. session[c].pull # "send"
    BY <1>8 DEF SendQueue, SendWakeup, PullExit, PullAt
  <2>2. /\ OtherSessions({c}) /\ session'[c].answers = a /\ session'[c].pull # "send"
        /\ session'[c].inbox = session[c].inbox
        /\ session'[c].relayed = session[c].relayed
    BY <1>8, SendQueueSession, SendWakeupSession, PullExitSession DEF SessionIs
  <2>3. TallyInv'
    BY <1>1, <2>1, <2>2, TallyKept DEF PacedInv, TallyInv, OtherSessions
  <2>4. QED
    BY <1>1, <1>2, <2>3 DEF PacedInv
<1>9. QED
  BY <1>6, <1>7, <1>8 DEF PullStep

LEMMA BasePaced ==
    ASSUME BridgeInv, PacedInv, BaseStep
    PROVE  PacedInv'
<1>1. Calm /\ UNCHANGED <<sock, session, up>>
  BY BaseCalm DEF BaseStep, Accept, RemoveConnectionInLoop
<1>2. NoTurn' /\ TallyInv'
  BY <1>1, NoTurnKept, TallyKept DEF PacedInv, TallyInv
<1>3. ASSUME NEW c \in Conn, Accept(c)
      PROVE  \A d \in Conn : Pace(d)'
  <2>1. conn[c].state = "none"
    <3>1. Ready("accept", c) \in loop[Base].active
      BY <1>3 DEF Accept, Handles
    <3>2. backlog # <<>> /\ Head(backlog) = c /\ backlog \in Seq(Conn)
      BY <3>1 DEF BridgeInv, BacklogInv, TypeOK
    <3>3. 1 \in 1..Len(backlog) /\ backlog[1] = c
      BY <3>2
    <3>4. QED
      BY <3>3 DEF BridgeInv, BacklogInv
  <2>2. /\ OtherConns({c}) /\ conn'[c].outputBuffer = conn[c].outputBuffer
        /\ conn'[c].writing = conn[c].writing
    BY <1>3, AcceptConn DEF ConnIs
  <2>3. QED
    BY <1>1, <2>1, <2>2, PaceKept DEF PacedInv, Calm, OtherConns
<1>4. CASE RemoveConnectionInLoop
  <2>1. conn' = conn
    BY <1>4 DEF RemoveConnectionInLoop
  <2>2. \A d \in Conn : Pace(d)'
    BY <1>1, <2>1, PaceKept DEF PacedInv, Calm
  <2>3. QED
    BY <1>1, <1>2, <2>2 DEF PacedInv
<1>5. QED
  BY <1>1, <1>2, <1>3, <1>4 DEF BaseStep, PacedInv

(* The steps of a loop that neither poll, read, close nor write.            *)
LEMMA CalmLoopPaced ==
    ASSUME BridgeInv, PacedInv, NEW l \in Loop, LoopStep(l), ~Poll(l), ~SendInLoop(l),
           \A c \in Conn : ~HandleRead(l, c) /\ ~HandleClose(l, c) /\ ~HandleWrite(l, c)
    PROVE  PacedInv'
<1>1. Calm
  BY LoopCalm
<1>2. UNCHANGED <<sock, up>>
  BY DEF LoopStep, HandleWakeup, SwapFunctors, FunctorsDone, Wakeup, ConnectEstablished,
         TestCounter, StoreCounter, JoinPull, RemoveConnection, ConnectDestroyed
<1>3. NoTurn'
  BY <1>1, NoTurnKept DEF PacedInv
<1>4. CASE ConnectEstablished(l)
  <2>1. PICK c : c = Head(loop[l].running).conn
    OBVIOUS
  <2>2. Runs(l, "connectEstablished")
    BY <1>4 DEF ConnectEstablished
  <2>3. c \in Conn /\ Establishes(c)
    BY <2>1, <2>2, RunsHead DEF Establishes
  <2>4. conn[c].state = "connecting" /\ session[c].pull = "none"
    <3>1. Stage(c)
      BY <2>3 DEF BridgeInv, ConnInv
    <3>2. QED
      BY <2>3, <3>1 DEF Stage, Fresh
  <2>5. /\ OtherConns({c}) /\ conn'[c].outputBuffer = conn[c].outputBuffer
        /\ conn'[c].writing = conn[c].writing
    BY <1>4, <2>1, ConnectEstablishedConn DEF ConnIs
  <2>6. /\ OtherSessions({c}) /\ session'[c].inbox = session[c].inbox
        /\ session'[c].relayed = session[c].relayed
        /\ session'[c].answers = session[c].answers /\ session'[c].pull = "poll"
    BY <1>4, <2>1, ConnectEstablishedSession DEF SessionIs
  <2>7. \A d \in Conn : Pace(d)'
    BY <1>1, <1>2, <2>4, <2>5, PaceKept DEF PacedInv, Calm, OtherConns
  <2>8. TallyInv'
    BY <1>2, <2>4, <2>6, TallyKept DEF PacedInv, TallyInv, OtherSessions
  <2>9. QED
    BY <1>2, <1>3, <2>7, <2>8 DEF PacedInv
<1>5. CASE ConnectDestroyed(l)
  <2>1. PICK c \in Conn : /\ OtherConns({c}) /\ conn'[c].state = conn[c].state
                          /\ conn'[c].writing = conn[c].writing
                          /\ conn'[c].outputBuffer = conn[c].outputBuffer
    BY <1>5, ConnectDestroyedConn DEF ConnIs
  <2>2. session' = session
    BY <1>5 DEF ConnectDestroyed
  <2>3. \A d \in Conn : Pace(d)'
    BY <1>1, <1>2, <2>1, PaceKept DEF PacedInv, Calm, OtherConns
  <2>4. TallyInv'
    BY <1>2, <2>2, TallyKept DEF PacedInv, TallyInv
  <2>5. QED
    BY <1>2, <1>3, <2>3, <2>4 DEF PacedInv
<1>6. CASE JoinPull(l)
  <2>1. PICK c \in Conn : /\ OtherSessions({c}) /\ session'[c].inbox = <<>>
                          /\ session'[c].relayed = session[c].relayed
                          /\ session'[c].answers = session[c].answers
                          /\ session'[c].pull = session[c].pull
    BY <1>6, JoinPullSession DEF SessionIs
  <2>2. conn' = conn
    BY <1>6 DEF JoinPull
  <2>3. \A d \in Conn : Pace(d)'
    BY <1>1, <1>2, <2>2, PaceKept DEF PacedInv, Calm
  <2>4. Tally(c)'
    <3> DEFINE r == Len(session[c].relayed)  i == Len(session[c].inbox)
               a == session[c].answers
    <3>1. /\ r \in Nat /\ i \in Nat /\ a \in Nat
          /\ r + i <= a /\ a <= Asked(c)
          /\ session[c].pull = "send" => r + i < a
      BY TallyNumbers DEF PacedInv, TallyInv
    <3>2. Asked(c)' = Asked(c)
      BY <1>2 DEF Asked
    <3>3. Len(session'[c].relayed) = r /\ Len(session'[c].inbox) = 0 /\ session'[c].answers = a
      BY <2>1
    <3> HIDE DEF r, i, a
    <3>4. r + 0 <= a /\ (session'[c].pull = "send" => r + 0 < a)
      BY <2>1, <3>1
    <3>5. QED
      BY <3>1, <3>2, <3>3, <3>4, TallyFrom
  <2>5. TallyInv'
    BY <1>2, <2>1, <2>4, TallyKept DEF PacedInv, TallyInv, OtherSessions
  <2>6. QED
    BY <1>2, <1>3, <2>3, <2>5 DEF PacedInv
<1>7. CASE UNCHANGED <<conn, session>>
  <2>1. \A d \in Conn : Pace(d)'
    BY <1>1, <1>2, <1>7, PaceKept DEF PacedInv, Calm
  <2>2. TallyInv'
    BY <1>2, <1>7, TallyKept DEF PacedInv, TallyInv
  <2>3. QED
    BY <1>2, <1>3, <2>1, <2>2 DEF PacedInv
<1>8. ConnectEstablished(l) \/ ConnectDestroyed(l) \/ JoinPull(l) \/ UNCHANGED <<conn, session>>
  BY DEF LoopStep, HandleWakeup, SwapFunctors, FunctorsDone, Wakeup,
         TestCounter, StoreCounter, RemoveConnection
<1>9. QED
  BY <1>4, <1>5, <1>6, <1>7, <1>8

(* Clients and nodes.                                                       *)
LEMMA SendLinePaced ==
    ASSUME BridgeInv, StreamInv, PacedInv, Patient, NEW c \in Conn, SendLine(c)
    PROVE  PacedInv'
<1>1. UNCHANGED <<conn, session, loop, up>> /\ sock[c].client = "open" /\ Unread(c) = 0
  BY DEF SendLine, Patient
<1>2. /\ \A d \in Conn \ {c} : sock'[d] = sock[d]
      /\ sock'[c].client = "open" /\ sock'[c].read = sock[c].read
      /\ sock'[c].out = sock[c].out
  BY <1>1, SendLineSock DEF OtherSocks, SockIs
<1>3. Calm
  BY <1>1 DEF Calm, SameEvents
<1>4. NoTurn'
  BY <1>3, NoTurnKept DEF PacedInv
<1>5. TallyInv'
  BY <1>1, <1>2, TallyKept DEF PacedInv, TallyInv
<1>6. \A d \in Conn \ {c} : Pace(d)'
  BY <1>1, <1>2, <1>3, PaceKept DEF PacedInv, Calm
<1>7. Len(sock[c].out) = 2 * Asked(c)
  <2> DEFINE w == Len(sock[c].out)  r == Len(session[c].relayed)
             a == Asked(c)  p == Promised(c)
  <2>1. w \in Nat /\ r \in Nat /\ w <= 2 * r /\ r <= a
    BY StreamNumbers DEF PacedInv, TallyInv
  <2>2. a \in Nat /\ p \in Nat /\ a <= p
    BY AskedNumbers
  <2>3. p - (w \div 2) = 0
    BY <1>1 DEF Unread, Promised
  <2> HIDE DEF w, r, a, p
  <2>4. w = 2 * a
    BY <2>1, <2>2, <2>3
  <2>5. QED
    BY <2>4 DEF w, a
<1>8. Pace(c)'
  <2>1. Awaits(c)'
    BY <1>2, <1>7 DEF Awaits, Asked
  <2>2. Parting(c)' /\ LastWords(c)'
    BY <1>2 DEF Parting, LastWords
  <2>3. Buffered(c)'
    BY <1>1 DEF PacedInv, Pace, Buffered
  <2>4. QED
    BY <2>1, <2>2, <2>3 DEF Pace
<1>9. QED
  BY <1>1, <1>4, <1>5, <1>6, <1>8 DEF PacedInv

LEMMA HangUpPaced ==
    ASSUME BridgeInv, PacedInv, Patient, NEW c \in Conn, HangUp(c)
    PROVE  PacedInv'
<1>1. UNCHANGED <<conn, session, loop, up>> /\ Unread(c) <= MaxUnread
  BY DEF HangUp
<1>2. /\ \A d \in Conn \ {c} : sock'[d] = sock[d]
      /\ sock'[c].client = "closed" /\ sock'[c].read = sock[c].read
      /\ sock'[c].arrived = sock[c].arrived /\ sock'[c].out = sock[c].out
  BY HangUpSock DEF OtherSocks, SockIs
<1>3. Calm
  BY <1>1 DEF Calm, SameEvents
<1>4. NoTurn'
  BY <1>3, NoTurnKept DEF PacedInv
<1>5. TallyInv'
  BY <1>1, <1>2, TallyKept DEF PacedInv, TallyInv
<1>6. \A d \in Conn \ {c} : Pace(d)'
  BY <1>1, <1>2, <1>3, PaceKept DEF PacedInv, Calm
<1>7. Promised(c) <= (Len(sock[c].out) \div 2) + 1
  <2> DEFINE v == Len(sock[c].out) \div 2  p == Promised(c)
  <2>1. v \in Nat
    <3>1. sock[c].out \in Seq(Piece)
      BY DEF BridgeInv, TypeOK, SocketState
    <3>2. \A s \in Seq(Piece) : Len(s) \div 2 \in Nat
      OBVIOUS
    <3>3. QED
      BY <3>1, <3>2
  <2>2. p \in Nat /\ p - v <= MaxUnread /\ MaxUnread \in Nat /\ MaxUnread <= 1
    BY <1>1, AskedNumbers, BridgeAssumption DEF Unread, Promised, Patient
  <2> HIDE DEF v, p
  <2>3. p <= v + 1
    BY <2>1, <2>2
  <2>4. QED
    BY <2>3 DEF v, p
<1>8. Pace(c)'
  <2>1. Asked(c)' = Asked(c) /\ Promised(c)' = Promised(c)
    BY <1>2 DEF Asked, Promised, Sent
  <2>2. Awaits(c)'
    BY <1>2, <2>1 DEF PacedInv, Pace, Awaits
  <2>3. Parting(c)' /\ LastWords(c)'
    BY <1>2, <1>7, <2>1 DEF Parting, LastWords
  <2>4. Buffered(c)'
    BY <1>1 DEF PacedInv, Pace, Buffered
  <2>5. QED
    BY <2>2, <2>3, <2>4 DEF Pace
<1>9. QED
  BY <1>1, <1>4, <1>5, <1>6, <1>8 DEF PacedInv

LEMMA AnswerLinePaced ==
    ASSUME BridgeInv, SessionsInv, PacedInv, NEW c \in Conn, AnswerLine(c)
    PROVE  PacedInv'
<1>1. UNCHANGED <<sock, conn, loop, up>> /\ session[c].answers < Asked(c)
  BY DEF AnswerLine, Asked
<1> DEFINE b == <<c, session[c].answers + 1>>
<1>2. PICK d \in Conn :
          /\ b \in Answer /\ Listens(d) /\ session[d].id = session[c].id
          /\ \A e \in Conn :
                 SessionIs(e, session[e].id,
                           IF e = c THEN session[e].answers + 1 ELSE session[e].answers,
                           session[e].pull,
                           IF e = d THEN Append(session[e].inbox, b) ELSE session[e].inbox,
                           session[e].hand, session[e].relayed)
  BY AnswerLineEffect
<1>3. d = c
  <2>1. c \in Numbered /\ d \in Numbered
    BY <1>2, AnsweredIsNumbered DEF Listens, Numbered
  <2>2. QED
    BY <1>2, <2>1 DEF SessionsInv, IdInv
<1>4. Calm
  BY <1>1 DEF Calm, SameEvents
<1>5. NoTurn' /\ \A e \in Conn : Pace(e)'
  BY <1>1, <1>4, NoTurnKept, PaceKept DEF PacedInv, Calm
<1>6. ASSUME NEW e \in Conn \ {c}
      PROVE  Tally(e)'
  <2>1. /\ session'[e].relayed = session[e].relayed /\ session'[e].inbox = session[e].inbox
        /\ session'[e].answers = session[e].answers /\ session'[e].pull = session[e].pull
    BY <1>2, <1>3 DEF SessionIs
  <2>2. QED
    BY <1>1, <2>1, TallyKept DEF PacedInv, TallyInv
<1>7. Tally(c)'
  <2> DEFINE r == Len(session[c].relayed)  i == Len(session[c].inbox)
             a == session[c].answers  z == Asked(c)
  <2>1. /\ r \in Nat /\ i \in Nat /\ a \in Nat /\ z \in Nat
        /\ r + i <= a /\ a < z
        /\ session[c].pull = "send" => r + i < a
    BY <1>1, TallyNumbers, AskedNumbers DEF PacedInv, TallyInv
  <2>2. Asked(c)' = z
    BY <1>1 DEF Asked
  <2>3. /\ session'[c].relayed = session[c].relayed
        /\ session'[c].inbox = Append(session[c].inbox, b)
        /\ session'[c].answers = a + 1 /\ session'[c].pull = session[c].pull
    BY <1>2, <1>3 DEF SessionIs
  <2>4. session[c].inbox \in Seq(Answer) /\ b \in Answer
    BY <1>2, SessionTypes
  <2> HIDE DEF b
  <2>5. Len(Append(session[c].inbox, b)) = i + 1
    BY <2>4
  <2> HIDE DEF r, i, a, z
  <2>6. Len(session'[c].relayed) = r /\ Len(session'[c].inbox) = i + 1
    BY <2>3, <2>5 DEF r
  <2>7. r + (i + 1) <= a + 1 /\ a + 1 <= z /\ (session[c].pull = "send" => r + (i + 1) < a + 1)
    BY <2>1
  <2>8. QED
    BY <2>2, <2>3, <2>6, <2>7, TallyFrom
<1>8. QED
  BY <1>1, <1>5, <1>6, <1>7 DEF PacedInv, TallyInv

LEMMA ConnectPaced ==
    ASSUME BridgeInv, PacedInv, Connect
    PROVE  PacedInv'
<1>1. UNCHANGED <<conn, session, loop, up>>
  BY DEF Connect
<1>2. PICK c \in Conn : /\ OtherSocks({c})
                        /\ SockIs(c, "open", sock[c].arrived, sock[c].read, sock[c].out)
  BY ConnectEffect
<1>3. /\ \A d \in Conn \ {c} : sock'[d] = sock[d]
      /\ sock'[c].client = "open" /\ sock'[c].read = sock[c].read
      /\ sock'[c].arrived = sock[c].arrived /\ sock'[c].out = sock[c].out
  BY <1>2 DEF OtherSocks, SockIs
<1>4. Calm
  BY <1>1 DEF Calm, SameEvents
<1>5. NoTurn' /\ TallyInv'
  BY <1>1, <1>3, <1>4, NoTurnKept, TallyKept DEF PacedInv, TallyInv
<1>6. \A d \in Conn \ {c} : Pace(d)'
  BY <1>1, <1>3, <1>4, PaceKept DEF PacedInv, Calm
<1>7. Pace(c)'
  <2>1. Asked(c)' = Asked(c)
    BY <1>3 DEF Asked
  <2>2. Awaits(c)'
    BY <1>3, <2>1 DEF PacedInv, Pace, Awaits
  <2>3. Parting(c)' /\ LastWords(c)'
    BY <1>3 DEF Parting, LastWords
  <2>4. Buffered(c)'
    BY <1>1 DEF PacedInv, Pace, Buffered
  <2>5. QED
    BY <2>2, <2>3, <2>4 DEF Pace
<1>8. QED
  BY <1>1, <1>5, <1>6, <1>7 DEF PacedInv

LEMMA PacedInit == Init => PacedInv
<1> SUFFICES ASSUME Init
             PROVE  PacedInv
  OBVIOUS
<1>1. up /\ NoTurn
  BY DEF Init, NoTurn
<1>2. ASSUME NEW c \in Conn
      PROVE  Tally(c) /\ Pace(c)
  <2>1. /\ sock[c].client = "none" /\ sock[c].arrived = 0 /\ sock[c].read = 0
        /\ ~conn[c].writing
        /\ session[c].answers = 0 /\ session[c].inbox = <<>> /\ session[c].relayed = <<>>
        /\ session[c].pull = "none"
    BY <1>2 DEF Init
  <2>2. loop[LoopOf(c)].active = {}
    BY <1>2, LoopNumbers DEF Init
  <2>3. Asked(c) = 0
    <3>1. AnswersPerLine \in Nat
      BY BridgeAssumption
    <3>2. AnswersPerLine * (0 \div 2) = 0
      BY <3>1
    <3>3. QED
      BY <2>1, <3>2 DEF Asked
  <2>4. Tally(c)
    BY <2>1, <2>3 DEF Tally
  <2>5. QED
    BY <2>1, <2>2, <2>4 DEF Pace, Awaits, Parting, Buffered, LastWords
<1>3. QED
  BY <1>1, <1>2 DEF PacedInv, TallyInv

LEMMA PacedStep ==
    ASSUME Patient, BridgeInv, StreamInv, SessionsInv, PacedInv, [Next]_vars
    PROVE  PacedInv'
<1>1. CASE Environment
  BY <1>1, ConnectPaced, SendLinePaced, HangUpPaced, AnswerLinePaced DEF Environment
<1>2. CASE BaseStep
  BY <1>2, BasePaced
<1>3. ASSUME NEW l \in Loop, LoopStep(l)
      PROVE  PacedInv'
  BY <1>3, PollPaced, ReadPaced, ClosePaced, WritePaced, SendPaced, CalmLoopPaced
<1>4. ASSUME NEW c \in Conn, PullStep(c)
      PROVE  PacedInv'
  BY <1>4, PullPaced
<1>5. CASE UNCHANGED vars
  <2>1. Calm /\ UNCHANGED <<sock, conn, session, up>>
    BY <1>5 DEF vars, Calm, SameEvents
  <2>2. QED
    BY <2>1, NoTurnKept, TallyKept, PaceKept DEF PacedInv, TallyInv, Calm
<1>6. QED
  BY <1>1, <1>2, <1>3, <1>4, <1>5 DEF Next

(* A client that hangs up with at most one answer to come, after it has     *)
(* read the answers to each line before it sent the next, does not take     *)
(* unit-manager with it: the loop sees the hang-up before it could write to *)
(* the reset connection (TcpConnection.cc:104-114; no handler for SIGPIPE). *)
THEOREM PatientClientsSpareTheServer ==
    IdsSuffice /\ Patient => (Spec => []ServerSurvives)
<1> SUFFICES ASSUME IdsSuffice, Patient
             PROVE  Spec => []ServerSurvives
  OBVIOUS
<1>1. Spec => []SessionsInv
  BY SessionsInvariant
<1>2. Init => PacedInv
  BY PacedInit
<1>3. BridgeInv /\ StreamInv /\ SessionsInv /\ PacedInv /\ [Next]_vars => PacedInv'
  BY PacedStep
<1>4. PacedInv => ServerSurvives
  BY DEF PacedInv, ServerSurvives
<1>5. QED
  BY <1>1, <1>2, <1>3, <1>4, BridgeInvariant, StreamInvariant, PTL DEF Spec

==============================================================================
