------------------------------ MODULE TcpBridge ------------------------------
(***************************************************************************)
(* The TCP front door of unit-manager: the reactor of src/network           *)
(* (EventLoop, Channel, Poller, Acceptor, TcpServer, TcpConnection), the     *)
(* sessions of tcp_comm.cpp, session.h and zmq_bus.cpp, and the ZMQ PULL     *)
(* thread of each session (pzmq.hpp).                                        *)
(*                                                                          *)
(* Threads:                                                                 *)
(*   - the base loop accepts connections and owns connections_;             *)
(*   - NumLoops IO loops serve the connections, dealt out in turn;          *)
(*   - a PULL thread per session takes the answers of the nodes and hands   *)
(*     them to the connection's IO loop.                                    *)
(* They share the queues of functors, the eventfds, counter_port and, from  *)
(* a PULL thread's point of view, the connection's state_.  An action is    *)
(* what a thread does up to its next access to one of these.                *)
(*                                                                          *)
(* A connection is named by nextConnId_.  A line of a client has two        *)
(* halves, the second one ending in the newline; an answer is two pieces,   *)
(* so that a read or a write may stop in the middle of one.  Clients, the   *)
(* kernel's sockets and the nodes are the environment.                      *)
(***************************************************************************)
EXTENDS Naturals, Sequences, FiniteSets

CONSTANTS NumLoops,       (* setThreadNum                                   *)
          MaxConns,       (* bound: connections                             *)
          MaxLines,       (* bound: lines a client sends                    *)
          AnswersPerLine, (* answers to one line: more than 1 for a stream  *)
          MaxUnread,      (* answers still to come when a client hangs up   *)
          Pipelined,      (* FALSE: clients await the answers to a line     *)
                          (* before the next one, and a line arrives whole  *)
          FirstId,        (* 8000                                           *)
          LastId,         (* 65535                                          *)
          StartId         (* counter_port, after earlier sessions have gone *)

ASSUME BridgeAssumption ==
    /\ NumLoops \in Nat \ {0} /\ MaxConns \in Nat /\ MaxLines \in Nat
    /\ AnswersPerLine \in Nat \ {0} /\ MaxUnread \in Nat
    /\ Pipelined \in BOOLEAN
    /\ FirstId \in Nat /\ LastId \in Nat /\ StartId \in FirstId..LastId

Conn == 1..MaxConns
Base == 0
Loop == 0..NumLoops

(* getNextLoop deals the IO loops out in turn.                              *)
LoopOf(c) == ((c - 1) % NumLoops) + 1

NoConn   == 0
NoAnswer == <<>>
Answer   == Conn \X (1..(MaxLines * AnswersPerLine))

(* A functor of pendingFunctors_, or a ready channel of activeChannels_.    *)
Call(name, c)    == [run |-> name, conn |-> c, answer |-> NoAnswer]
SendCall(c, a)   == [run |-> "send", conn |-> c, answer |-> a]
Ready(event, c)  == [event |-> event, conn |-> c]

VARIABLES sock,         (* the kernel's side of each connection             *)
          conn,         (* TcpConnection with its Channel                   *)
          session,      (* TcpSession with its PULL socket and thread       *)
          loop,         (* EventLoop with what its thread is doing          *)
          connections,  (* TcpServer::connections_                          *)
          backlog,      (* connections the kernel holds for accept          *)
          counter_port, (* the next com id                                  *)
          up            (* FALSE once a signal has killed unit-manager      *)

vars == <<sock, conn, session, loop, connections, backlog, counter_port, up>>

Init ==
    /\ sock = [c \in Conn |->
           [client |-> "none", arrived |-> 0, read |-> 0, out |-> <<>>]]
    /\ conn = [c \in Conn |->
           [state |-> "none", reading |-> FALSE, writing |-> FALSE,
            added |-> FALSE, context |-> FALSE, outputBuffer |-> <<>>]]
    /\ session = [c \in Conn |->
           [id |-> 0, pull |-> "none", inbox |-> <<>>, hand |-> NoAnswer,
            answers |-> 0, relayed |-> <<>>]]
    /\ loop = [l \in Loop |->
           [at |-> "poll", duty |-> "none", conn |-> NoConn,
            active |-> {}, pending |-> <<>>, running |-> <<>>,
            wakeup |-> FALSE]]
    /\ connections = {}
    /\ backlog = <<>>
    /\ counter_port = StartId
    /\ up = TRUE

-----------------------------------------------------------------------------
(* Clients and nodes                                                        *)

(* Half-lines a client has sent, and the answers it has still to read.      *)
Sent(c)   == sock[c].arrived + sock[c].read
Unread(c) == AnswersPerLine * (Sent(c) \div 2) - (Len(sock[c].out) \div 2)

Connect ==
    \E c \in Conn :
        /\ sock[c].client = "none"
        /\ \A d \in 1..(c - 1) : sock[d].client # "none"
        /\ sock' = [sock EXCEPT ![c].client = "open"]
        /\ backlog' = Append(backlog, c)
        /\ UNCHANGED <<conn, session, loop, connections, counter_port, up>>

SendLine(c) ==
    /\ sock[c].client = "open"
    /\ Sent(c) < 2 * MaxLines
    /\ Pipelined \/ Unread(c) = 0
    /\ sock' = [sock EXCEPT ![c].arrived = @ + IF Pipelined THEN 1 ELSE 2]
    /\ UNCHANGED <<conn, session, loop, connections, backlog, counter_port, up>>

HangUp(c) ==
    /\ sock[c].client = "open"
    /\ Unread(c) <= MaxUnread
    /\ sock' = [sock EXCEPT ![c].client = "closed"]
    /\ UNCHANGED <<conn, session, loop, connections, backlog, counter_port, up>>

(* A node, or unit-manager itself for an error, answers a request of c: it  *)
(* pushes to the socket file of c's com id, where any session that listens  *)
(* under that id may get it.                                                *)
Listens(d) == session[d].pull \notin {"none", "exited"}

AnswerLine(c) ==
    /\ session[c].answers < AnswersPerLine * (sock[c].read \div 2)
    /\ \E d \in {e \in Conn : Listens(e) /\ session[e].id = session[c].id} :
          session' = [session EXCEPT
              ![d].inbox = Append(@, <<c, session[c].answers + 1>>),
              ![c].answers = @ + 1]
    /\ UNCHANGED <<sock, conn, loop, connections, backlog, counter_port, up>>

-----------------------------------------------------------------------------
(* EventLoop::loop                                                          *)

(* What a thread is about to do, as long as there is a process.             *)
At(l, where)     == up /\ loop[l].at = where
Duty(l, what)    == up /\ loop[l].duty = what
PullAt(c, where) == up /\ session[c].pull = where

(* epoll is level-triggered: what is ready when the loop polls.             *)
ReadyChannels(l) ==
    LET own == {c \in Conn : LoopOf(c) = l /\ conn[c].added}
        readable == {c \in own : /\ conn[c].reading
                                 /\ \/ sock[c].arrived > 0
                                    \/ sock[c].client # "open"}
        writable == {c \in own : conn[c].writing}
    IN  {Ready("read", c) : c \in readable}
          \cup {Ready("write", c) : c \in writable}
          \cup {Ready("accept", c) :
                   c \in {d \in Conn : l = Base /\ backlog # <<>> /\ Head(backlog) = d}}
          \cup (IF loop[l].wakeup THEN {Ready("wakeup", NoConn)} ELSE {})

(* The poll returns with what is ready, or after kPollTimeMs with nothing   *)
(* (which changes nothing unless a functor is waiting).                     *)
Poll(l) ==
    /\ At(l, "poll")
    /\ ReadyChannels(l) # {} \/ loop[l].pending # <<>>
    /\ loop' = [loop EXCEPT ![l].at = "events", ![l].active = ReadyChannels(l)]
    /\ UNCHANGED <<sock, conn, session, connections, backlog, counter_port, up>>

(* The thread may take the next event, in any order of the channels.        *)
Handles(l, event, c) ==
    /\ At(l, "events") /\ Duty(l, "none")
    /\ Ready(event, c) \in loop[l].active

HandleWakeup(l) ==
    /\ Handles(l, "wakeup", NoConn)
    /\ loop' = [loop EXCEPT ![l].wakeup = FALSE,
                            ![l].active = @ \ {Ready("wakeup", NoConn)}]
    /\ UNCHANGED <<sock, conn, session, connections, backlog, counter_port, up>>

(* doPendingFunctors, after the last event: it takes the whole queue.       *)
SwapFunctors(l) ==
    /\ At(l, "events") /\ Duty(l, "none") /\ loop[l].active = {}
    /\ loop' = [loop EXCEPT ![l].at = "functors",
                            ![l].running = loop[l].pending,
                            ![l].pending = <<>>]
    /\ UNCHANGED <<sock, conn, session, connections, backlog, counter_port, up>>

(* Faulty variant: the eventfd is drained after the functors have run.      *)
FunctorsDoneDrain(l) ==
    /\ At(l, "functors") /\ Duty(l, "none")
    /\ loop[l].running = <<>>
    /\ loop' = [loop EXCEPT ![l].at = "poll", ![l].wakeup = FALSE]
    /\ UNCHANGED <<sock, conn, session, connections, backlog, counter_port, up>>

FunctorsDone(l) ==
    /\ At(l, "functors") /\ Duty(l, "none")
    /\ loop[l].running = <<>>
    /\ loop' = [loop EXCEPT ![l].at = "poll"]
    /\ UNCHANGED <<sock, conn, session, connections, backlog, counter_port, up>>

Runs(l, name) ==
    /\ At(l, "functors") /\ Duty(l, "none")
    /\ loop[l].running # <<>> /\ Head(loop[l].running).run = name

(* The loop that a thread of loop l wakes up after it queued a functor of   *)
(* connection c there.                                                      *)
Woken(l, c) == IF l = Base THEN LoopOf(c) ELSE Base

(* The second half of queueInLoop: every caller is another thread.          *)
Wakeup(l) ==
    /\ Duty(l, "wakeup")
    /\ loop' = [loop EXCEPT ![Woken(l, loop[l].conn)].wakeup = TRUE,
                            ![l].duty = "none", ![l].conn = NoConn]
    /\ UNCHANGED <<sock, conn, session, connections, backlog, counter_port, up>>

-----------------------------------------------------------------------------
(* The base loop: Acceptor::handleRead with TcpServer::newConnection, and   *)
(* TcpServer::removeConnectionInLoop                                        *)

NewConnection(c) ==
    /\ connections' = connections \cup {c}
    /\ conn' = [conn EXCEPT ![c].state = "connecting"]
    /\ loop' = [loop EXCEPT
           ![LoopOf(c)].pending = Append(@, Call("connectEstablished", c)),
           ![Base].active = @ \ {Ready("accept", c)},
           ![Base].duty = "wakeup", ![Base].conn = c]

Accept(c) ==
    /\ Handles(Base, "accept", c)
    /\ backlog' = Tail(backlog)
    /\ NewConnection(c)
    /\ UNCHANGED <<sock, session, counter_port, up>>

RemoveConnectionInLoop ==
    /\ Runs(Base, "removeConnection")
    /\ LET c == Head(loop[Base].running).conn IN
          /\ connections' = connections \ {c}
          /\ loop' = [loop EXCEPT
                 ![LoopOf(c)].pending = Append(@, Call("connectDestroyed", c)),
                 ![Base].running = Tail(@),
                 ![Base].duty = "wakeup", ![Base].conn = c]
    /\ UNCHANGED <<sock, conn, session, backlog, counter_port, up>>

-----------------------------------------------------------------------------
(* The IO loops: TcpConnection and onConnection                             *)

(* Faulty variant: the com id is read and not counted up.                   *)
NewSessionLoad(c) ==
    /\ session' = [session EXCEPT ![c].id = counter_port, ![c].pull = "poll"]
    /\ UNCHANGED counter_port

(* onConnection of a new connection: a session under the next com id, with  *)
(* its PULL socket bound and its thread started.                            *)
NewSession(c) ==
    /\ session' = [session EXCEPT ![c].id = counter_port, ![c].pull = "poll"]
    /\ counter_port' = counter_port + 1

(* context_ holds the session, and the session holds the connection.        *)
ConnectEstablished(l) ==
    /\ Runs(l, "connectEstablished")
    /\ LET c == Head(loop[l].running).conn IN
          /\ conn' = [conn EXCEPT ![c].state = "connected", ![c].reading = TRUE,
                                  ![c].added = TRUE, ![c].context = TRUE]
          /\ NewSession(c)
          /\ loop' = [loop EXCEPT ![l].running = Tail(@),
                                  ![l].duty = "test", ![l].conn = c]
    /\ UNCHANGED <<sock, connections, backlog, up>>

(* "if (counter_port > 65535) counter_port.store(8000)": two accesses.      *)
TestCounter(l) ==
    /\ Duty(l, "test")
    /\ loop' = [loop EXCEPT
           ![l].duty = IF counter_port > LastId THEN "store" ELSE "none",
           ![l].conn = NoConn]
    /\ UNCHANGED <<sock, conn, session, connections, backlog, counter_port, up>>

StoreCounter(l) ==
    /\ Duty(l, "store")
    /\ counter_port' = FirstId
    /\ loop' = [loop EXCEPT ![l].duty = "none"]
    /\ UNCHANGED <<sock, conn, session, connections, backlog, up>>

(* handleEvent calls the read callback before the write callback.           *)
AlsoWrites(l, c) == Ready("write", c) \in loop[l].active
Rest(l, c)       == loop[l].active \ {Ready("read", c), Ready("write", c)}

(* onMessage: all that has arrived is one request.                          *)
OnMessage(c) ==
    sock' = [sock EXCEPT ![c].read = @ + sock[c].arrived, ![c].arrived = 0]

HandleRead(l, c) ==
    /\ Handles(l, "read", c)
    /\ sock[c].arrived > 0
    /\ OnMessage(c)
    /\ loop' = [loop EXCEPT
           ![l].active = Rest(l, c),
           ![l].duty = IF AlsoWrites(l, c) THEN "write" ELSE "none",
           ![l].conn = IF AlsoWrites(l, c) THEN c ELSE NoConn]
    /\ UNCHANGED <<conn, session, connections, backlog, counter_port, up>>

(* Faulty variant: the channel stays enabled.                               *)
HandleCloseEnabled(l, c) ==
    /\ Handles(l, "read", c)
    /\ sock[c].arrived = 0
    /\ conn' = [conn EXCEPT ![c].state = "disconnected"]
    /\ loop' = [loop EXCEPT ![l].active = Rest(l, c),
                            ![l].duty = "join", ![l].conn = c]
    /\ UNCHANGED <<sock, session, connections, backlog, counter_port, up>>

(* handleClose up to the join in ~pzmq: state_, disableAll, and of the      *)
(* second half of onConnection flage_ and zmq_ctx_shutdown (an answer that  *)
(* the thread takes in between is dropped as one that it never takes).  A   *)
(* write callback of the same event finds the channel not writing.          *)
HandleClose(l, c) ==
    /\ Handles(l, "read", c)
    /\ sock[c].arrived = 0
    /\ conn' = [conn EXCEPT ![c].state = "disconnected", ![c].reading = FALSE,
                            ![c].writing = FALSE]
    /\ loop' = [loop EXCEPT ![l].active = Rest(l, c),
                            ![l].duty = "join", ![l].conn = c]
    /\ UNCHANGED <<sock, session, connections, backlog, counter_port, up>>

(* The IO loop waits for the PULL thread; close_zmq drops its messages.     *)
JoinPull(l) ==
    /\ Duty(l, "join")
    /\ session[loop[l].conn].pull = "exited"
    /\ session' = [session EXCEPT ![loop[l].conn].inbox = <<>>]
    /\ loop' = [loop EXCEPT ![l].duty = "remove"]
    /\ UNCHANGED <<sock, conn, connections, backlog, counter_port, up>>

(* closeCallback_: TcpServer::removeConnection queues to the base loop.     *)
RemoveConnection(l) ==
    /\ Duty(l, "remove")
    /\ loop' = [loop EXCEPT
           ![Base].pending = Append(@, Call("removeConnection", loop[l].conn)),
           ![l].duty = "wakeup"]
    /\ UNCHANGED <<sock, conn, session, connections, backlog, counter_port, up>>

(* Of a connection that is still connected connectDestroyed would also do   *)
(* what handleClose does; only ~TcpServer can call it on one.               *)
ConnectDestroyed(l) ==
    /\ Runs(l, "connectDestroyed")
    /\ LET c == Head(loop[l].running).conn IN
          conn' = [conn EXCEPT ![c].added = FALSE]
    /\ loop' = [loop EXCEPT ![l].running = Tail(@)]
    /\ UNCHANGED <<sock, session, connections, backlog, counter_port, up>>

-----------------------------------------------------------------------------
(* Writing                                                                  *)

Pieces(a) == <<<<a, 1>>, <<a, 2>>>>
Taken(data, n) == SubSeq(data, 1, n)
Left(data, n)  == SubSeq(data, n + 1, Len(data))

(* write(2) of the first n pieces.  A peer that has closed its socket       *)
(* resets the connection after it got data, sooner or later.  Writing to a  *)
(* connection that is reset raises SIGPIPE, for which no handler is set.    *)
AfterWrite(c, n) ==
    IF sock[c].client = "closed" /\ n > 0 THEN {"closed", "reset"}
                                          ELSE {sock[c].client}

(* Faulty variant: the rest is kept, but nobody asks for POLLOUT.           *)
WriteNotEnabled(c, data, n) ==
    IF sock[c].client = "reset"
    THEN up' = FALSE /\ UNCHANGED <<sock, conn>>
    ELSE /\ \E after \in AfterWrite(c, n) :
               sock' = [sock EXCEPT ![c].out = @ \o Taken(data, n),
                                    ![c].client = after]
         /\ conn' = [conn EXCEPT ![c].outputBuffer = Left(data, n)]
         /\ UNCHANGED up

Write(c, data, n) ==
    IF sock[c].client = "reset"
    THEN up' = FALSE /\ UNCHANGED <<sock, conn>>
    ELSE /\ \E after \in AfterWrite(c, n) :
               sock' = [sock EXCEPT ![c].out = @ \o Taken(data, n),
                                    ![c].client = after]
         /\ conn' = [conn EXCEPT ![c].outputBuffer = Left(data, n),
                                 ![c].writing = Left(data, n) # <<>>]
         /\ UNCHANGED up

(* sendInLoop: given up, written as far as the socket takes it, or queued   *)
(* behind what is already waiting.                                          *)
Enqueue(c, data) ==
    conn' = [conn EXCEPT ![c].outputBuffer = @ \o data, ![c].writing = TRUE]

(* Faulty variant: writes although output is waiting.                       *)
CanAlwaysWrite(c) == TRUE

CanWriteDirectly(c) == ~conn[c].writing /\ conn[c].outputBuffer = <<>>

SendInLoop(l) ==
    /\ Runs(l, "send")
    /\ LET c == Head(loop[l].running).conn
           data == Pieces(Head(loop[l].running).answer)
       IN \/ /\ conn[c].state = "disconnected"
             /\ UNCHANGED <<sock, conn, up>>
          \/ /\ conn[c].state # "disconnected" /\ CanWriteDirectly(c)
             /\ \E n \in 0..Len(data) : Write(c, data, n)
          \/ /\ conn[c].state # "disconnected" /\ ~CanWriteDirectly(c)
             /\ Enqueue(c, data)
             /\ UNCHANGED <<sock, up>>
    /\ loop' = [loop EXCEPT ![l].running = Tail(@)]
    /\ UNCHANGED <<session, connections, backlog, counter_port>>

(* Faulty variant: the write callback may come before the read callback.    *)
WriteTurnAnyOrder(l, c) ==
    \/ Duty(l, "write") /\ loop[l].conn = c
    \/ Handles(l, "write", c)

(* handleWrite, after the read callback of the same channel if both are     *)
(* ready.  The socket has room, so it takes something.                      *)
WriteTurn(l, c) ==
    \/ Duty(l, "write") /\ loop[l].conn = c
    \/ Handles(l, "write", c) /\ Ready("read", c) \notin loop[l].active

HandleWrite(l, c) ==
    /\ WriteTurn(l, c)
    /\ \E n \in 1..Len(conn[c].outputBuffer) : Write(c, conn[c].outputBuffer, n)
    /\ loop' = [loop EXCEPT ![l].active = @ \ {Ready("write", c)},
                            ![l].duty = "none", ![l].conn = NoConn]
    /\ UNCHANGED <<session, connections, backlog, counter_port>>

-----------------------------------------------------------------------------
(* The PULL thread: zmq_event_loop with TcpSession::send_data               *)

PullReceive(c) ==
    /\ PullAt(c, "poll") /\ conn[c].state = "connected"
    /\ session[c].inbox # <<>>
    /\ session' = [session EXCEPT ![c].pull = "send",
                                  ![c].hand = Head(session[c].inbox),
                                  ![c].inbox = Tail(@)]
    /\ UNCHANGED <<sock, conn, loop, connections, backlog, counter_port, up>>

(* TcpConnection::send reads state_ without a lock ...                      *)
SendTest(c) ==
    /\ PullAt(c, "send")
    /\ \/ /\ conn[c].state = "connected"
          /\ session' = [session EXCEPT ![c].pull = "queue",
                                 ![c].relayed = Append(@, session[c].hand)]
       \/ /\ conn[c].state # "connected"
          /\ session' = [session EXCEPT ![c].pull = "poll",
                                        ![c].hand = NoAnswer]
    /\ UNCHANGED <<sock, conn, loop, connections, backlog, counter_port, up>>

(* ... and queues the functor, whatever has happened since.                 *)
SendQueue(c) ==
    /\ PullAt(c, "queue")
    /\ loop' = [loop EXCEPT
           ![LoopOf(c)].pending = Append(@, SendCall(c, session[c].hand))]
    /\ session' = [session EXCEPT ![c].pull = "wakeup", ![c].hand = NoAnswer]
    /\ UNCHANGED <<sock, conn, connections, backlog, counter_port, up>>

SendWakeup(c) ==
    /\ PullAt(c, "wakeup")
    /\ loop' = [loop EXCEPT ![LoopOf(c)].wakeup = TRUE]
    /\ session' = [session EXCEPT ![c].pull = "poll"]
    /\ UNCHANGED <<sock, conn, connections, backlog, counter_port, up>>

(* Faulty variant: without zmq_ctx_shutdown the thread sees flage_ only     *)
(* when a message wakes it.                                                 *)
PullExitOnMessage(c) ==
    /\ PullAt(c, "poll") /\ conn[c].state = "disconnected"
    /\ session[c].inbox # <<>>
    /\ session' = [session EXCEPT ![c].pull = "exited"]
    /\ UNCHANGED <<sock, conn, loop, connections, backlog, counter_port, up>>

(* ~pzmq has set flage_ and shut the context down: zmq_poll returns -1.     *)
PullExit(c) ==
    /\ PullAt(c, "poll") /\ conn[c].state = "disconnected"
    /\ session' = [session EXCEPT ![c].pull = "exited"]
    /\ UNCHANGED <<sock, conn, loop, connections, backlog, counter_port, up>>

-----------------------------------------------------------------------------
LoopStep(l) ==
    \/ Poll(l) \/ HandleWakeup(l) \/ SwapFunctors(l) \/ FunctorsDone(l)
    \/ Wakeup(l)
    \/ ConnectEstablished(l) \/ TestCounter(l) \/ StoreCounter(l)
    \/ \E c \in Conn : HandleRead(l, c)
    \/ \E c \in Conn : HandleClose(l, c)
    \/ \E c \in Conn : HandleWrite(l, c)
    \/ JoinPull(l) \/ RemoveConnection(l) \/ ConnectDestroyed(l)
    \/ SendInLoop(l)

BaseStep == RemoveConnectionInLoop \/ \E c \in Conn : Accept(c)

PullStep(c) ==
    \/ PullReceive(c) \/ SendTest(c) \/ SendQueue(c) \/ SendWakeup(c)
    \/ PullExit(c)

Environment ==
    \/ Connect
    \/ \E c \in Conn : SendLine(c) \/ HangUp(c) \/ AnswerLine(c)

Next ==
    \/ Environment
    \/ BaseStep
    \/ \E l \in Loop : LoopStep(l)
    \/ \E c \in Conn : PullStep(c)

Spec == Init /\ [][Next]_vars

(* Every thread that can take a step does; each has one kind of step at a   *)
(* time.  Clients and nodes owe nothing.                                    *)
Fairness ==
    /\ \A l \in Loop : WF_vars(LoopStep(l))
    /\ WF_vars(BaseStep)
    /\ \A c \in Conn : WF_vars(PullStep(c))

FairSpec == Spec /\ Fairness
-----------------------------------------------------------------------------
(* Correctness                                                              *)

IOFunctors ==
    {Call(name, c) : name \in {"connectEstablished", "connectDestroyed"}, c \in Conn}
      \cup {SendCall(c, a) : c \in Conn, a \in Answer}

Removals == {Call("removeConnection", c) : c \in Conn}

FunctorsOf(l) == IF l = Base THEN Removals ELSE {f \in IOFunctors : LoopOf(f.conn) = l}

ChannelsOf(l) ==
    {Ready(event, c) : event \in {"read", "write"}, c \in {d \in Conn : LoopOf(d) = l}}
      \cup {Ready("wakeup", NoConn)}
      \cup (IF l = Base THEN {Ready("accept", c) : c \in Conn} ELSE {})

Functors == UNION {FunctorsOf(l) : l \in Loop}
Channels == UNION {ChannelsOf(l) : l \in Loop}

Piece == Answer \X {1, 2}

SocketState == [client  : {"none", "open", "closed", "reset"},
                arrived : Nat, read : Nat, out : Seq(Piece)]

ConnState == [state   : {"none", "connecting", "connected", "disconnected"},
              reading : BOOLEAN, writing : BOOLEAN, added : BOOLEAN,
              context : BOOLEAN, outputBuffer : Seq(Piece)]

SessionState == [id      : Nat, answers : Nat,
                 pull    : {"none", "poll", "send", "queue", "wakeup", "exited"},
                 inbox   : Seq(Answer), hand : Answer \cup {NoAnswer},
                 relayed : Seq(Answer)]

LoopState == [at      : {"poll", "events", "functors"},
              duty    : {"none", "wakeup", "test", "store", "write", "join", "remove"},
              conn    : Conn \cup {NoConn},
              active  : SUBSET Channels,
              pending : Seq(Functors),
              running : Seq(Functors),
              wakeup  : BOOLEAN]

AtHome(l) ==
    /\ loop[l].active \subseteq ChannelsOf(l)
    /\ loop[l].pending \in Seq(FunctorsOf(l))
    /\ loop[l].running \in Seq(FunctorsOf(l))

(* Type invariant: a functor or a ready channel is only ever found at the   *)
(* loop of its connection, removals at the base loop.                       *)
TypeOK ==
    /\ sock \in [Conn -> SocketState] /\ conn \in [Conn -> ConnState]
    /\ session \in [Conn -> SessionState] /\ loop \in [Loop -> LoopState]
    /\ \A l \in Loop : AtHome(l)
    /\ connections \subseteq Conn
    /\ backlog \in Seq(Conn)
    /\ counter_port \in Nat /\ up \in BOOLEAN

(* A loop that polls with a functor waiting has a readable eventfd, or a    *)
(* thread that is about to write to it (EventLoop.cc:108-125, 160-190): no  *)
(* functor waits for the ten seconds of kPollTimeMs.                        *)
NoLostWakeup ==
    \A l \in Loop :
        (loop[l].at = "poll" /\ loop[l].pending # <<>>) =>
            \/ loop[l].wakeup
            \/ \E m \in Loop : loop[m].duty = "wakeup" /\ Woken(m, loop[m].conn) = l
            \/ \E c \in Conn : session[c].pull = "wakeup" /\ LoopOf(c) = l

(* The assertions of the reactor hold wherever they are about to be         *)
(* evaluated: a connection is established once, closed while it is          *)
(* connected, erased while connections_ holds it (TcpServer.cc:95), and     *)
(* its channel is removed while the poller knows it and with no event       *)
(* enabled (Channel.cc:35, Poller.cc:146-153).                              *)
AssertionsHold ==
    \A l \in Loop :
        /\ \A c \in Conn :
              (Handles(l, "read", c) /\ sock[c].arrived = 0)
                  => conn[c].state = "connected"
        /\ Runs(l, "connectEstablished") =>
              conn[Head(loop[l].running).conn].state = "connecting"
        /\ Runs(l, "removeConnection") =>
              Head(loop[l].running).conn \in connections
        /\ Runs(l, "connectDestroyed") =>
              LET c == Head(loop[l].running).conn
              IN  /\ conn[c].state = "disconnected" /\ conn[c].added
                  /\ ~conn[c].reading /\ ~conn[c].writing

(* What a session has relayed is, in this order: written, in the output     *)
(* buffer, in a functor of the IO loop, in the hand of the PULL thread.     *)
(* Nothing is lost, doubled or overtaken on the way through two threads and *)
(* partial writes (TcpConnection.cc:68-124, 273-301); once the connection   *)
(* is closed, what was written is a beginning of it.                        *)
AllPieces(answers) ==
    [i \in 1..(2 * Len(answers)) |-> <<answers[(i + 1) \div 2], 2 - (i % 2)>>]

SendsIn(functors, c) ==
    LET sends[n \in 0..Len(functors)] ==
            IF n = 0 THEN <<>>
            ELSE IF functors[n].run = "send" /\ functors[n].conn = c
                 THEN Append(sends[n - 1], functors[n].answer)
                 ELSE sends[n - 1]
    IN  sends[Len(functors)]

QueuedSends(c) == SendsIn(loop[LoopOf(c)].running \o loop[LoopOf(c)].pending, c)

InHand(c) == IF session[c].pull = "queue" THEN <<session[c].hand>> ELSE <<>>

Begins(s, t) == Len(s) <= Len(t) /\ \A i \in 1..Len(s) : s[i] = t[i]

InOrder(c) ==
    LET relayed == AllPieces(session[c].relayed)
        written == sock[c].out
    IN  IF up /\ conn[c].state = "connected"
        THEN relayed = written \o conn[c].outputBuffer
                               \o AllPieces(QueuedSends(c) \o InHand(c))
        ELSE Begins(written, relayed)

RelayedInOrder == \A c \in Conn : InOrder(c)

(* A client reads answers to its own lines only (tcp_comm.cpp:33 numbers    *)
(* the sessions; remote_server.cpp:257 and remote_action.cpp:35 put the     *)
(* number into every request).                                              *)
AnswersGoHome ==
    \A c \in Conn : \A i \in 1..Len(sock[c].out) : sock[c].out[i][1][1] = c

(* Sessions that are open at the same time have different com ids           *)
(* (tcp_comm.cpp:33-38; remote_action.cpp:32-33).                           *)
ComIdsUnique ==
    \A c, d \in Conn :
        (/\ conn[c].state = "connected" /\ conn[d].state = "connected"
         /\ Listens(c) /\ Listens(d) /\ session[c].id = session[d].id) => c = d

(* A client that hangs up does not take the server with it: a failed write  *)
(* is an error of that connection (TcpConnection.cc:104-114).               *)
ServerSurvives == up

(* One request of onMessage is one line of the client (tcp_comm.cpp:70-76,  *)
(* zmq_bus.cpp:109-118).                                                    *)
OneLinePerMessage ==
    [][\A c \in Conn :
          sock'[c].read # sock[c].read =>
              sock[c].read % 2 = 0 /\ sock'[c].read = sock[c].read + 2]_vars

(* An answer that has reached a session's socket is written completely,     *)
(* unless the client hangs up, whatever the loop was doing and however      *)
(* little each write took.                                                  *)
AnswersAreWritten ==
    \A c \in Conn :
        session[c].inbox # <<>> ~>
            \/ sock[c].client # "open"
            \/ session[c].inbox = <<>> /\ sock[c].out = AllPieces(session[c].relayed)

(* After a hang-up the PULL thread is joined, connections_ and the poller   *)
(* forget the connection: no thread waits for another in a circle.          *)
Forgotten(c) ==
    c \notin connections /\ ~conn[c].added /\ session[c].pull = "exited"

ClosedIsForgotten ==
    \A c \in Conn : sock[c].client = "closed" ~> Forgotten(c)

(* What holds a TcpConnection: connections_, a functor, a callback of its   *)
(* own that is running, and its session (session.h:26), which its context_  *)
(* holds in turn (tcp_comm.cpp:32) and nobody takes out.                    *)
Holders(c) ==
    (IF c \in connections THEN {"connections"} ELSE {})
      \cup (IF \E l \in Loop : \E i \in 1..Len(loop[l].pending \o loop[l].running) :
                   (loop[l].pending \o loop[l].running)[i].conn = c
            THEN {"functor"} ELSE {})
      \cup (IF conn[c].context THEN {"session"} ELSE {})

(* The socket of a client that has gone is closed: its TcpConnection, whose *)
(* destructor closes it (TcpConnection.cc:307), loses its last holder.      *)
SocketsAreClosed ==
    \A c \in Conn : sock[c].client = "closed" ~> Holders(c) = {}
==============================================================================
