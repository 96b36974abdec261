# A TLA+ development of Edge-Flow-Infra

Edge-Flow-Infra serves language, speech-recognition and speech-synthesis models
on one edge device. Clients speak JSON lines over TCP (or HTTP through a Python
gateway) to `unit-manager`, which forwards their requests over ZMQ to *nodes*
that wrap the model engines. This directory holds TLA+ models of that system,
TLC configurations that check them on small instances, and theorems about them
whose proofs TLAPS checks.

All paths below are relative to the root of the repository.

## 1. The system

```
 HTTP client --> gateway (FastAPI)                               runtime supervisor
                    | TCP, JSON lines                             (starts/stops all)
 TCP client ------> | unit-manager
                    |   TCP bridge      tcp_comm.cpp, zmq_bus.cpp, session.h, network/
                    |   dispatch        remote_action.cpp, remote_server.cpp
                    |   unit registry   remote_server.cpp, unit_data.cpp, all.h
                    | RPC (REQ/REP): setup, exit, taskinfo, pause, register, release
                    | PUB/SUB: inference;  PUSH/PULL: answers and results
 node (llm|asr|tts) StackFlow event thread, one llm_channel_obj per session,
                    NodeJobQueue, one worker thread, model engine
```

| Component | Source | State | Operations | Modelled by |
|---|---|---|---|---|
| Node job queue | `infra-controller/include/NodeJobQueue.h`, worker loops of the nodes | `jobs_`, `running_`, who waits on `cv_` | `push`, `wait_pop`, `stop`, join | `NodeJobQueue` |
| Unit registry | `unit-manager/src/remote_server.cpp`, `unit_data.cpp` | `port_list`, `key_sql`, `work_id_number_counter`, heap of `unit_data` | `register_unit`, `release_unit`, inference look-up, exit dispatch | `UnitRegistry` |
| Message dispatch | `unit-manager/src/remote_server.cpp`, `remote_action.cpp`, `zmq_bus.cpp` | `unit_action_match_mtx` | `unit_action_match`, `zmq_bus_publisher_push`, `remote_call` | `UnitRegistry`, `PzmqRpc`, `TcpBridge`, `Gateway` |
| StackFlow base class | `infra-controller/src/StackFlow.cpp`, `include/StackFlow.h` | `event_queue_`, `llm_task_channel_`, `status_`, `exit_flage_` | setup, exit, taskinfo, pause, `send`, register/release, construction, destruction | `InferenceNode`, `NodeLifecycle` |
| Task channel | `infra-controller/src/channel.cpp` | `zmq_`, push URL, `request_id_`, `work_id_` | `subscriber_work_id`, `stop_subscriber`, `send`, `set_push_url` | `InferenceNode` |
| Nodes llm, asr, tts | `node/*/src/main.cpp` | `tasks_`, `jobs_`, worker | `setup`, `exit`, `taskinfo`, `on_inference`, `worker_loop`, constructor, destructor | `InferenceNode`, `NodeLifecycle` |
| ZMQ wrapper | `hybrid-comm/` | sockets, timeouts, linger, RPC table | `call_rpc_action`, `register_rpc_action`, event loop, `close_zmq`, parameter encoding | `PzmqRpc`, `RemoteCall`, `ParamCodec`; PUSH and PUB in `InferenceNode`, the PULL thread in `TcpBridge` |
| TCP bridge | `unit-manager/src/tcp_comm.cpp`, `zmq_bus.cpp`, `include/session.h` | `counter_port`, contexts, com ids | `onConnection`, `onMessage`, `work`, `stop`, `send_data` | `TcpBridge` |
| Network reactor | `network/` | loop queues, eventfds, connection states, buffers | accept, `send`, read, write, close; `Buffer` | `TcpBridge`, `Buffer` |
| Gateway | `gateway/app/` | one session per stage of an HTTP request | setup, inference, stream, exit, cleanup | `Gateway` |
| Supervisor | `scripts/` | pid files, stop request | start, guard, stop | `Supervisor` |
| Start-up of unit-manager | `unit-manager/src/main.cpp`, `config.cpp` | counters from the configuration | load, register actions | the restart in `Gateway`, the registration in `PzmqRpc` |
| Vue console | `web-vue/src/` | chat, SSE reader | send, abort, read | not modelled |

`PROJECT.json` lists every component, those without a model too, with the reason.

**How the parts interact.** A *setup* request is an RPC of unit-manager to the
node, whose RPC thread only appends an event; the event thread later registers a
unit (an RPC back to unit-manager), builds a channel, and answers through a PUSH
socket addressed to the TCP session. An *inference* takes another way: it is
published on the unit's PUB socket and reaches the session's own SUB thread,
which pushes a job; the worker sends the result through the channel. *exit* is
an event again. So one request is served by up to five threads in two
processes, and nothing orders the two ways. The gateway adds a thread per HTTP
request and two TCP connections per stage; the supervisor starts each process
again when it ends, with none of its state.

**What is hard here.** (1) Three threads of a node write one channel without a
lock: the event thread (exit, taskinfo), the SUB thread (each request) and the
worker (each job). (2) Notifications of the job queue are made after its mutex is
released. (3) unit-manager reads a pointer under a spinlock and uses it after the
unlock, while another thread deletes the object. (4) Closing a socket whose
peer is gone waits for the peer, and it is the event thread or a session under
`unit_action_match_mtx` that closes. (5) A unit is
registered before the session limit is tested, so every refusal has to give it
back. (6) Ports come from a scan that can end without a port. (7) A TCP connection is
shared by a base loop, an IO loop and a PULL thread, which the IO loop joins when the
client hangs up. (8) An RPC that times out may still be executed. (9) The event
thread of a node runs while the object it calls is built and destroyed. (10) The
gateway takes the next line it receives for its answer, and unit-manager counts
connections and work ids from the start again after a restart. (11) The
scripts share pid files and take no lock.

**What makes each component correct.**

- Job queue: no lost wake-up, FIFO within its bound, each accepted job served
  once, `stop` drains and returns.
- Registry: two units never share a port, the bitmap is exact on every path, no
  pointer outlives its object, a released unit is really freed.
- Node: a result reaches the TCP session that asked, under the request's own id,
  exactly once; no session leaks; no thread crashes or blocks.
- Life of a node: its end terminates, its destructors find what they look up,
  and no orderly path forgets a unit.
- RPC: a reply belongs to its call and means that the action ran; an action runs
  at most once; every call returns.
- TCP bridge: a com id names one session, answers go to their session in order and
  completely, one line is one message, a closed session leaves nothing behind.
- Reactor: no functor waits for a sleeping loop, the assertions of the connection's
  life cycle hold, a lost client costs its own connection only, a buffer is a queue
  of bytes.
- Gateway: a session that was set up is exited on every path, an answer is read by
  the request it belongs to, every request ends.
- Supervisor: "runtime stopped" is true, no service runs twice, a service that
  ended comes back.

## 2. The modules

| Module | Kind | Contents |
|---|---|---|
| `BoundedFifo` | abstract | a queue with a bound that can be closed |
| `NodeJobQueue` | detailed | `push`, `wait_pop`, `stop`, join by critical sections |
| `PortLease` | abstract | units lease two ports each |
| `UnitRegistry` | detailed | registry, release, inference and exit dispatch |
| `UnitRegistryProofs` | proofs | section 5 |
| `RequestReply` | abstract | a request is answered once, where it was asked |
| `InferenceNode` | detailed, composed | users, event thread, channels, SUB threads, job queue, worker |
| `InferenceNodeProofs` | proofs | section 5 |
| `RemoteCall` | abstract | what the caller of an RPC may rely on |
| `PzmqRpc` | detailed | callers, sockets, event loops, processes that stop and crash |
| `PzmqRpcProofs` | proofs | section 5 |
| `ParamCodec` | functions | two strings behind one char |
| `NodeLifecycle` | detailed, composed | main thread and event thread from constructor to destructor |
| `StackFlowProofs` | proofs | section 5, of `NodeJobQueue`, `NodeLifecycle` and `ParamCodec` |
| `TcpBridge` | detailed, composed | base loop, IO loops, connections, sessions, PULL threads |
| `TcpBridgeProofs` | proofs | section 5 |
| `ByteQueue` | abstract | bytes in, bytes out |
| `Buffer` | detailed | the vector with its two indices |
| `BufferProofs` | proofs | section 5 |
| `Gateway` | composed | HTTP requests, sessions of nodes, a restart of unit-manager |
| `GatewayProofs` | proofs | section 5 |
| `Supervisor` | detailed | supervisor loop, start and stop scripts, pid files |
| `SupervisorProofs` | proofs | section 5 |
| `MC...` | TLC | one per detailed module |

Definitions whose comment begins with "Faulty variant" are plausible bugs of the
definition that follows them. No specification uses them; they are there to show
that each property notices a bug (`PROJECT.json`, "mutants").

### NodeJobQueue

One action is one critical section of `mutex_` or one call on `cv_` outside of
it. `PushAccept`/`PushRefuse` are the critical section of `push` and `NotifyOne`
its `notify_one` (line 34, after the unlock); `Pop`, `Wait`, `PopFails` are the
three outcomes of the predicate in `wait_pop`; `SpuriousWakeup` is what
`condition_variable::wait` may do; `Stop`, `NotifyAll`, `Join` are the node's
destructor. `served` is a history variable. The state `busy` of a consumer stands
for the body of `worker_loop`. The specification is `QueueSpec`, with `QueueInit` and
`QueueNext`, so that `StackFlowProofs` can extend this module and `NodeLifecycle`.

### UnitRegistry

The *sys* RPC thread serves `register_unit` and `release_unit` one call at a time
(REP socket), so its state `sys` says what is left of the current call. The TCP
IO threads run `unit_action_match` under one mutex, so one variable `io` is
enough. An action reaches up to the next access to `key_sql` or the next use or
deletion of a `unit_data`, because these are what the two threads share:
`AllocateUnit`; `PublishUnit`; `ReleaseLookup`; `DeleteUnit` (delete **before**
the erase, as the code has it); `EraseUnit`; `InferenceLookup`;
`InferenceSend`/`InferenceMiss`; `DispatchExit`. The nodes are the environment:
`SetupEnds`, `NodeCrash`. The constant `LateInference` tells whether clients send
inferences to a unit whose setup is unanswered or whose exit is on its way.

### InferenceNode

`ev` is the program counter of `StackFlow::even_loop`: *admit* (unit registered,
capacity not tested yet), *answer*, *refuse*, *stop* (an exit about to drop its
sockets), *unknown*, *list*, *release*, *blocked*. `sub[k]` is the SUB thread of
unit `k`, between taking over the request's URL and id (`SubTake`) and pushing the
job (`SubDispatch`). `worker` is the worker between `wait_pop` (`WorkerTake`), the
end of the model run (`WorkerRun`) and `channel->send` (`WorkerSend`). `channel[k]`
holds what the three threads share without a lock: the push URL, whether its
socket still holds an undelivered message, `request_id_`, whether the PUB socket
is there, and how far the subscription is.

The registry is asked in one step (its own interleavings are `UnitRegistry`'s),
and the job queue pushes and pops in one step, which is what `BoundedFifo`
promises and `StackFlowProofs` proves of the code. The rkllm node keeps the
erased task alive until its `exit` returns and sets the channel's id again in its
callback; asr and tts do neither, and may refuse a setup for lack of a stream.
That is the constant `Streaming`.

### PzmqRpc and RemoteCall

`caller[c]` is a thread in `call_rpc_action`: *idle*; *waiting* for the reply until
it comes or `timeout_` passes (`Timeout`); *called*, when the callback has been or
is about to be given whatever came, and the socket is closed. `unsent` holds the
callers whose request has not left their socket: ZMQ connects and sends behind the
caller's back (`Transmit`), and `close_zmq` returns only afterwards (`CallEnds`).
`Parsers` are callers whose callback takes the reply apart (`sys_register_unit`);
without one it throws, which ends their process (`CallbackThrows`). `Serial` are
unit-manager's sessions, which call under `unit_action_match_mtx`.

A server's main thread binds, starts the event loop and enters its first action
under one lock (`Bind`, `RegisterFirst`), then the others (`RegisterNext`). The
loop receives, looks the action up under the lock, runs it, replies
(`LoopReceive`, `LoopMatch`, `LoopRun`, `LoopReply`). `Crash` leaves the socket
file behind, so that a later call finds it and waits; `Stop`, `LoopExit`,
`CloseServer` are `~pzmq`. `outcome` and `runs` say what each call came to and how
often its action ran: the variables of `RemoteCall`, in which a call whose time ran
out has run, may run later, or never.

### NodeLifecycle and ParamCodec

`main` is the main thread's place from the constructor of `StackFlow` (*serving*:
actions registered, *status*: the event thread started), through the derived
class's constructor (*base*, *members*), `main`'s loop (*ready*), the derived
destructor (*worker*, *clear*, *gone*), to the base class's (*flag*, *wake*,
*join*, *look*, *unbind*). `loop` is `even_loop` meanwhile; a setup is *register*
(the RPC), *setup* (the virtual call: whatever class the object is at that moment),
then *release* if it was refused; an exit is *exit*, *stop*, *release*.

An RPC to unit-manager does what `RemoteCall` promises: a registration without an
answer has run or not, and ends the process (`RegisterFails`). `ReleaseAndAbort` is
the second round of `~StackFlow`, which uses an invalidated iterator and joins
a joined thread. `excused` is a history variable: units lost by a crash, an abort or
an RPC without an answer; `budget` counts these for their bounds.

An event carries what `SetParam` has packed, and the event thread reads it with
`GetParam`: `ParamCodec` has the length of the first string in one char of
`CharValues` values, signed or not.

### TcpBridge

`loop[l]` is an `EventLoop` and its thread: `at` says whether it polls, handles
`active` channels or runs the functors it has swapped into `running`; `duty` says
what is left of the current callback before the thread goes on: write to the other
loop's eventfd (*wakeup*), test and reset `counter_port`, join the PULL thread,
queue the removal, or the write callback after the read callback of one channel.
`queueInLoop` is two steps, the push under the mutex and the write to the eventfd.
`conn[c]` is a `TcpConnection` with its `Channel` (`added`: the poller knows it),
`session[c]` a `TcpSession` with its PULL socket and thread, `sock[c]` the kernel's
side. A step of a thread reaches up to its next access to something another thread
writes: the functor queues, the eventfds, `counter_port`, `state_`.

The path of an answer is `AnswerLine` (a node pushes to the com id), `PullReceive`,
`SendTest` (`state_` read without a lock), `SendQueue`, `SendWakeup`, `SendInLoop`,
`HandleWrite`. The path of a hang-up is `HandleClose`, `PullExit`, `JoinPull`,
`RemoveConnection`, `RemoveConnectionInLoop`, `ConnectDestroyed`. A write to a socket
whose client has closed it may provoke a reset, and a write after the reset raises
SIGPIPE, which ends the process (`up`).

### Buffer and ByteQueue

The methods of `Buffer` that change it are operators on a record of the vector and
its two indices (`Appended`, `EnsureWritableBytes`, `MakeSpace`, `ReadInto`,
`Retrieve`, `Unwritten`, `Prepended`), with the copies as the code makes them; an
action calls one of them with any piece of data its assertion permits. `ReadInto` is
`readFd`: the free end of the vector and `extrabuf` are filled in turn, and what
went to the second is appended. `ByteQueue` keeps the contents only. `io` names the
last call for it, `header` says whether bytes were prepended since the buffer was
last empty.

### Gateway

`pc[r]` is the thread of an HTTP request: *open* a connection and ask for a setup,
*setup*, *infer*, *yield* (the generator of a streamed chat, which its client may
abandon), *cleanup* and *exit* (a second connection), then the next stage. A chat
has one stage, a voice conversation one per unit. A node is a record: its event
queue, the answer in the event thread's hand, `tasks_` and `llm_task_channel_`, the
channels with their push URL and the lines they hold, the job queue, and the worker.
Sessions are numbered by the epoch of unit-manager and the work id, because a
restarted unit-manager counts ids and connections from the beginning while the
nodes keep sessions, URLs and undelivered lines of the epoch before. `owner` and
`lapses` are history variables: who asked for a session; where a request left before
its answer or could not clean up.

This module composes what the others show in detail, and is coarser than they are:
an RPC puts its event into the node's queue in the step that asks for it.

### Supervisor

A supervisor is a bash process with a program counter: *begin* (its own pid file),
*top* (the stop request), then for each service *look*, *spawn*, *write*; `stop_all`
is *stop*, which returns to where it was called, since the trap on TERM does not
leave the loop. The operator runs `start_runtime.sh` (`Start`,
`StartSupervisor`, `WriteSupervisorPid`) or `stop_runtime.sh` (by pid files, then
three rounds of what `pgrep` finds, then the files). One step reads or writes one
pid file, so that a signal or another script may come in between. Services end by
themselves (`ServiceEnds`), supervisors are signalled from outside (`Signal`).

## 3. The runs

| Run | Result | What it shows |
|---|---|---|
| `job_queue` | passes | 2 producers, 2 consumers, 2 places: no lost wake-up, a bounded FIFO, drained and joined at the end. A node has one worker; two make `notify_one` wake the wrong one |
| `unit_registry` | passes | 4 units, 2 at once, one node crash, one inference in flight: exclusive ports and an exact bitmap (`PortsHeldOnce`), no use after delete, exits free their unit, the registry is a `PortLease` |
| `node_llm` | passes | 2 patient users that reconnect, 1 session: no unit leaks, no thread crashes or blocks, and every request is answered once, on its own connection (`RequestReply`) |
| `node_asr` | passes | 3 patient users, 3 sessions, a queue of one job: a request that meets a full queue is refused with an answer of its own |
| `node_exit_midway` | violation | an exit during a run takes the sockets away: null dereference |
| `bridge_stream` | passes | streams of answers through partial writes and hang-ups: relayed in order, written completely; closed sessions are joined and forgotten |
| `bridge_sessions` | passes | two sessions on one IO loop at the wrap-around of the com ids: no lost wake-up, no failing assertion, answers go home |
| `rpc` | passes | two sessions and a node's event thread call each other's process while the node ends once: every call is a `RemoteCall`, every call returns, every orderly stop ends |
| `buffer` | passes | every sequence of calls on a small buffer, through moves and growth: a queue of bytes, room where it was asked for, the header's room in front |
| `lifecycle` | passes | two lives of a node with three requests, a crash and a silent RPC: destructors find their channels, the stop ends, units are accounted for, parameters are read as sent |
| `gateway` | passes | a streamed chat and a voice conversation share one-session nodes across lapses, dead nodes and a restart of unit-manager: requests end, sessions are given back, answers are read by whom they belong to |
| `supervisor` | passes | three scripts and one fault against the supervisor's loop: "runtime stopped" is true, nothing runs twice, services come back |

The node runs differ in the constant `Patient`. Patient users wait
for each answer before they ask again or reconnect, and after setup until the
subscription exists, as `sample/test_rkllm.py` and its siblings do (they sleep
after setup). For them everything holds. The gateway and interactive clients are
not patient: an HTTP client that goes away makes the gateway send *exit* on
another connection in the middle of a stream (`gateway/app/main.py` cleanup).
That alone gives `node_exit_midway` and three rows of section 4. The run `gateway`
has such clients; its `NodesSurviveOrderlyUse` speaks of the requests that stay.

**Bounds.** *Registry.* Registration, release and registration on top of a returned
port need three units with two at once; the run has four. As many ports as four
units take, so that the scan ends without a port only where section 4 says so.
*Node.* Setup, inference and exit plus one request out of place need
four requests per user. Two connections, so that an old URL and a new one exist
together. One session (a second user meets the limit) or three (the limit is out of
the way). `MaxAside` bounds the requests that touch no session (taskinfo, pause, an
exit without a session). One place in the queue, so two users fill it. `MaxCrashes`
and `MaxRequests` bound the crashes and inference requests of the registry.
*Bridge.* Two sessions are enough for one to be closed while the other is served; a
line with two answers of two pieces each gives an answer behind
one that is partly written. The com ids are the real ones, 8000 to 65535; `StartId`
starts the counter at its end, as after many sessions that are gone, so nothing is
scaled down. `MaxUnread` says how many answers a client that hangs up may leave: with
one, no write follows the one that provokes the reset and everything holds; with two
the server ends. The clients of the passing runs send a line at a time, as the gateway
and the samples do (`Pipelined` FALSE).
*RPC.* One session calls *setup* twice, so that a late reply to the first call could
reach the second; the other calls *exit*, which is not the action registered first;
the node's event thread calls `register_unit`. The node ends once, by a crash or a
stop at any point, and starts again; unit-manager stays (172,344 states).
*Buffer.* `kCheapPrepend` and the initial size are 2, `extrabuf` 2, a piece at most 3
and a vector at most 7 bytes: a piece fits, fits after a move, fits after growth, and
fills both vectors of `readFd` (106,447 states).
*Lifecycle.* Three requests, two starts, one crash, one silent RPC: two sessions, or
one and its exit, at any point of either life. A signed char of eight values counts
to three, and the longest URL has three characters (405,357 states).
*Gateway.* The voice conversation needs asr and then the rkllm node that the chat
uses; one session per node makes the second setup meet the limit; two parts are a
stream that can be cut; two inferences on asr are two chunks of audio; one restart.
`MaxIds` is the number of stages, so no setup of an epoch is ever without a number
(454,477 states).
*Supervisor.* unit-manager, which binds a port, and one node, which does not; three
scripts are start, stop, start or any other order; one fault; 12 pids, of which
no behaviour uses more than 11; three rounds as in the script
(296,663 states).

**Deadlock checking** is on for `buffer`, where some call is always possible. It is
off elsewhere: users, callers and scripts stop at their bounds, and a
stopped queue has nothing left to do.

**Fairness.** Each thread that can run does (weak fairness per thread); model
runs end. In the registry a node's `release_unit` call gets its turn among the
callers of the REP socket, which ZMQ serves in turn: strong fairness of
`ReleaseLookup`. In the bridge every loop and every PULL thread runs; a socket that
epoll reports as writable takes at least a byte. In `PzmqRpc` time passes
(`Timeout`), ZMQ connects again and sends (`Transmit`), callbacks return, the
threads of a server run, and a process that is down is started, which is what
`Supervisor` shows of the services. In `NodeLifecycle` the two threads run. In
`Gateway` only the requests' threads are fair: nodes and unit-manager owe them
nothing, since every wait of the gateway has a time-out. In `Supervisor` only the
supervisors' loops are fair. Users, operators, crashes, registrations, stops, signals
and spurious wake-ups owe nothing.

**Symmetry** is not used: most runs check temporal properties.

## 4. Findings

One run has a property that TLC violates, `node_exit_midway`: `channel.cpp:120,132`,
exit clears the sockets that a worker is about to use (`PROJECT.json` has the quoted
line).

The modules state more that the code does not keep. TLC refutes each of the following
on the instance named; they are not among the runs, and the passing properties next to
them say under which conditions the code is right.

| Property | Instance | What TLC finds |
|---|---|---|
| `PortsInConfiguredRange` | `UnitRegistry`, `NPorts = 3`, `MaxUnits = 2`, no crash | `remote_server.cpp:57,83`: the port is uninitialised when the scan finds none; the default range 5010..5555 gives an odd number of ports |
| `MissesAreReported` | the same, `MaxRequests = 1` | `zmq_bus.cpp:87-91`: the `else` belongs to an `if` inside `ALOGW`, so a missing unit is not an error |
| `NoUseAfterFree` | `NPorts = 4`, `MaxUnits = 2`, `LateInference = TRUE` | `zmq_bus.cpp:84-86` and `remote_server.cpp:127`: an inference sent while its unit is released uses the pointer after the delete |
| `ResultsGoHome` | `InferenceNode` as in `node_exit_midway` | `channel.cpp:149`: one push URL per session, taken over by whoever asks last, so a running inference's result goes to another connection |
| `EventsAreDispatched` | the same, `MaxSent = 4`, `FairSpec` | `StackFlow.h:142`, `pzmq.hpp:350`: closing the answer's socket never returns when the TCP session is gone; the event thread is the only one of its node |
| `ServerSurvives` | `bridge_stream`, `MaxUnread = 2` | `SocketsOps.cc:155`: the first write to a client that has gone provokes a reset, the second raises SIGPIPE, which nothing in unit-manager ignores; `TcpConnection.cc:109` waits for EPIPE in vain |
| `SocketsAreClosed` | the same | `tcp_comm.cpp:32`, `session.h:26`: session and connection own each other, so the destructor that closes the descriptor never runs |
| `OneLinePerMessage` | `bridge_stream`, `Pipelined = TRUE` | `tcp_comm.cpp:70`: there is no framing; whatever a read returns is taken for a line |
| `ComIdsUnique` | `bridge_stream`, `NumLoops = 2`, `MaxConns = 4`, `MaxLines = 0`, `StartId = 65535` | `tcp_comm.cpp:33-38`: increment, test and reset are three steps of two IO threads; both may reset, and two sessions get 8000 |
| `RepliesCanBeRead` | `rpc` | `StackFlow.cpp:204-210`: after a time-out, a refusal or "NotAction" the callback reads a reply that is not there and `std::stoi` throws on the event thread; `README.md:63-64` has the wrapper take care of time-outs |
| `WholeObject` | `lifecycle` | `StackFlow.cpp:32`: the event thread runs before the derived class is built, and still after its destructor; a setup may be dispatched to either |
| `NeverDropped` | `lifecycle` | `StackFlow.h:81,94`: an event read before `status_` is set is dropped without an answer |
| `ChannelsNotShared` | `lifecycle` | `node/llm/src/main.cpp:263`: the destructor looks into the map of channels while the event thread, which takes no lock for it, may change it |
| `StopReleasesUnits` | `lifecycle` | `StackFlow.cpp:42-51`: when a session is left, the first round of the loop releases one unit, and then the joined thread is joined again; the other units stay registered |
| `AnswersAreOwnAlways` | `gateway` | com ids start again with unit-manager (`config.cpp`): lines that a node kept for an old connection arrive on a new one of the same number, and the gateway looks at neither `request_id` nor `work_id` |
| `ExitsOwnSession` | `gateway` | work ids start again as well: an exit reaches the session of the epoch before |
| `NodesSurvive` | `gateway` | an abandoned stream's exit meets the running job, as in `node_exit_midway` |
| `OneRkllmRequest` | `gateway` | `gateway/README.md:30-31` speaks of a global lock that serialises RKLLM requests; `gateway/app/` has none, and the node's session limit refuses the second |
| `OneInstanceAlways` | `supervisor` | a supervisor killed between `spawn` and `write` leaves a service that no pid file names; the next starts it again, unless its port tells |
| `TermEnds` | `supervisor` | `runtime_supervisor.sh:31`: the trap runs `stop_all` and the loop goes on; when the stop request is not there, the services start again |
| `ServicesComeBack` | `supervisor`, `Recycled = TRUE` | `runtime_lib.sh:53`: `kill -0` asks for any process; a pid given out again makes a dead service look alive |

## 5. What is proved

For all values of the constants that satisfy the modules' ASSUMEs.

**`StackFlowProofs`**, first part, about `NodeJobQueue`: type correctness, `NoLostWakeup`, `StopIsClean`
(`NoSleeperAfterStop` and `StoppedMeansDrained`), and that the queue implements
`BoundedFifo`. `NoLostWakeup` is inductive once it is stated with the numbers of
producers about to notify and consumers about to look: a push adds a job and a
notifier, a notify trades a notifier for a consumer that looks, a pop takes both,
and a consumer goes to sleep only on an empty queue. The proof counts with the
theorems about `Cardinality` of finite sets. Assumption: finite sets of threads,
a bound of at least one (which `read_size_env` enforces).

**`UnitRegistryProofs`**: type correctness, `EntriesLive`, `PortsHeldOnce`
(`PortsExclusive` and `BitmapExact`), `NoUseAfterFree`, and that the registry
implements `PortLease`.
Three strengthenings are needed. `TableInv` ties the sys thread's program counter
to heap, table and counter (a unit between *publish* and *erase* is in exactly one
of them, units not yet numbered are in none). `PortInv` says, while no scan has
failed, that the bitmap is the union of the ports of live units and that these are
disjoint: each of the two needs the other to be preserved. `UseInv` says that the
unit an IO thread found stays in the heap while it holds the mutex, because its
exit cannot be dispatched before; it is about clients for which `LateInference` is
FALSE, and the theorem names that assumption. `PortsHeldOnce` and
the refinement speak of registries whose scans have found ports, and the
refinement theorem assumes that no scan fails.

**`InferenceNodeProofs`**: type correctness (with the bound of the job queue) and
`NoUnitLeaks`, for both kinds of nodes and for users that wait as well as users
that do not. Types alone are not inductive: a SUB thread reads the URL of the
request at the head of its inbox, so `InFlight` says that whatever a queue or a
thread holds was asked, that the worker's job names a unit, and that a channel
with a PUB socket has a PUSH socket; and that a request which was asked never
changes needs `AskedInOrder` (a user's requests take the numbers from 1 on, so the
next one is new). `UnitInv` then says, for each value of the event thread's program
counter, by which unit registry and channels may differ from `tasks_`: by none, or
by the one between its registration and its admission, or between the loss of its
task and its release. A blocked event thread never comes back, so nothing is
claimed of it.

Under `Patient`, the assumption that each user waits for its answer, the module
also proves `NoCrash`, `NothingBlocks`, `ResultsGoHome` and that every step is a step
of `RequestReply` or none. The assumption is needed: `node_exit_midway` is the run
without it. `PatientInv` has eight parts. `Asking`: a user has at most one request
without an answer, asked over the connection it still has and about the unit it
still owns. `Owned`: no unit has two users, and a unit keeps its PUB socket until its
own user's exit is about to be answered. `Queued` and `Handling`: the events are awaited
requests, none queued twice or queued and handled at once. `Founding`: the unit of a
setup under way is nobody's yet. `InOrder` and `OnePlace`: an awaited inference is in
exactly one of inbox, SUB thread, job queue and worker, and from the SUB thread on its
unit's channel holds its URL and its id. From these follows the one fact the four theorems
share: a unit has at most one request on its way (`OneInference`), so nothing
overwrites the URL, the id or the socket between the SUB thread and the worker's send.
`Calm` (no crash, no undelivered message in a socket) rides along.

**`PzmqRpcProofs`**: type correctness, `FirstActionIsKnown`, and that every step of
the wrapper is a step of `RemoteCall` or none, for any processes, callers and
actions, and any number of calls, crashes and stops. The invariant has three parts
besides the types. `ServerInv`: before its first action is in the table the main
thread of a server holds the lock, so a loop that looks one up finds at least one.
`CallerInv`: a waiting caller's call is open, a called one's is not, and a call not
yet made has the outcome *new* and never ran. `RequestInv`: a request is in exactly
one place, unsent, in one inbox or in one loop's hand, no two places hold the
same call, what is there before *run* has not run, and what a loop is about to reply
to has run once. `Run` of the abstract specification needs the third (at most once),
`Return` the fourth.

**`BufferProofs`**: the order of the indices, `HeaderFits`, `SpaceIsMade`, and that
a buffer implements `ByteQueue`, for every header, initial size, size of `extrabuf`
and set of bytes. The lemmas say what each method does to the contents (`CopyTo`
moves a stretch, `Written`, `Appended`, `ReadInto` append, `Retrieve` and
`Unwritten` cut); the refinement applies one per action. The invariant adds to the
indices that the reader is at least at `CheapPrepend` unless bytes were prepended,
which is what lets `makeSpace` move towards the front.

**`StackFlowProofs`**, second part, about `NodeLifecycle`: type correctness, `TasksHaveChannels`,
`UnitsAccountedFor`, `ReadAsSent`, and `CodecRoundTrip` about `ParamCodec`. `LifeInv`
says for each step of the event thread how `tasks_` and `llm_task_channel_` differ
(a unit registered and not yet admitted, or one whose task is gone), in which
phases of the main thread there are no tasks or no event thread, and that every
unit has a channel or an excuse. `ReadAsSent` is proved under `UrlsFit`: a URL is
shorter than `CharValues`, or than half of that when char is signed, which
`CodecRoundTrip` needs; unit-manager's URLs have about 20 characters.

**`TcpBridgeProofs`**: type correctness, `NoLostWakeup`, `AssertionsHold`,
`RelayedInOrder`, `AnswersGoHome`, `ComIdsUnique` and `ServerSurvives`, for any number
of IO loops, connections, lines and answers.

- `BridgeInv` is about the control. `Stage` says for each state of a connection which
  of its functors are queued, once each (`connectEstablished` while it is connecting,
  `removeConnection` and `connectDestroyed` one after the other when it is
  disconnected, sends at any time), whether `connections_` and the poller know it, and
  where its session and PULL thread are. `Orderly` ties `active`, `running` and
  `duty` to the place of the loop's thread; `BacklogInv` and `SocketInv` do the same for
  accept queue and kernel. `WakeupInv` says of a loop with a functor
  queued, unless it still has events to handle, that its eventfd is written or that a
  thread is between its push and its write.
- `StreamInv` adds that, at any time, what was written, what waits in the output buffer,
  the sends among the functors of the loop and the PULL thread's hand are together
  what was relayed. The sends of a loop are a
  subsequence of its functors: the lemmas say how they change when functors are
  swapped, run or appended, and need an induction over the length of a sequence. It is
  done with sets instead of an operator parameter: the least number (`WFMin` of
  `WellFoundedInduction`) outside of a set that has 0 and is closed under
  successor (`NumbersBySteps`).
- `SessionsInv` (`IdInv` and `HomeInv`) counts the sessions that have a com id: the
  counter is as far from its start as there are such sessions, before the reset or
  after it. The theorems assume `IdsSuffice`: the counter does not reach 65535, or one
  IO loop counts alone and gives out at most one round of numbers. Otherwise the code
  does hand out an id twice (`ComIdsUnique` in section 4).
- `PacedInv` says why `up` stays TRUE for clients that send a line when they have the
  answers to the ones before and leave at most one answer unread (`Patient` there):
  after a reset everything that will be written is in the output buffer, and the
  loop sees the hang-up, which comes first among the events of a poll, before it
  writes again. `MaxUnread = 2` is in section 4.

**`GatewayProofs`**: type correctness, `AnswersAreOwn`, `SessionsAreGivenBack` and
`NodesSurviveOrderlyUse`, for any number of requests, stages, units, sessions and
restarts. `GatewayInv` (types, `StageInv`, `ConnInv`, `MadeInv`) says that the numbers
of connections are different within an epoch, and that a session bears a number that
was given out. Each theorem has an invariant of its own on top of it, needed because
what could go wrong is under way in a queue long before it shows.

- `OwnInv`: whatever can write to a TCP session (a queued event, the event thread's
  answer, a channel with its URL) acts for one request, the one that opened it; and
  the lines held, the jobs and the exits on their way are about sessions their request
  asked for. It is claimed of the first epoch only: afterwards numbers are given out
  again (`AnswersAreOwnAlways` in section 4).
- `TokenInv`: the answer to a request's setup is in exactly one place, the queued
  event, the event thread or an inbox, as long as the request waits for it. `BackInv`
  then says of every session in `tasks_`, of whichever epoch, that an exit is queued,
  or that its request is about to learn of it, or uses it and will clean up.
  A node that dies takes its sessions with it, and a restart of unit-manager changes
  neither, so nothing is assumed of them.
- `OrderlyInv`, about requests that never left early, in the first epoch: a job belongs to
  a request that is inferring, each request has one, its channel is directed to
  that request's connection and holds no lines; nothing is behind the last line
  of an answer, and then the job is gone; an exit on its way is about a session whose request
  is at its exit, and a setup on its way is for the connection its request has. From
  this follows that the worker always finds its reader (`WorkerReaches`) and that no
  job is left of a session that is being exited (`NoneLeft`).

**`SupervisorProofs`**: type correctness, `StopLeavesNothing` and `OneInstance`, for
every non-empty list of different services, any number of commands, faults and
process ids, and for pids that are given out again as well as for pids that are not.
The last two assume `Rounds >= 2`; `stop_runtime.sh` makes three rounds, and with one
the supervisor that the first round ends may still start a service behind it.

- `ShapeInv` adds to the types where `stop_all` goes back to: it runs from the trap at
  any place of the loop and from its end, and keeps the service and the pid in hand.
- `StopInv` says that no supervisor runs from the second round on. Hence nothing is
  started while the script goes through the services once more, and a service that
  it has passed stays away.
- `CountInv` is about a runtime no supervisor of which was signalled from outside.
  Each part needs the others. `OneOfEach` says that a name has at most one process.
  `KnowInv` is why: a supervisor that goes on knows every service that runs, by its pid
  file or because it has started it and not yet written its pid, also when `TERM` came
  in between; so it never starts what runs already. `PhaseInv` follows the operator's
  script: a supervisor is started when nothing runs; while `stop_runtime.sh` goes
  through the pid files of the services, every supervisor is exiting, because it has ended
  the one that the supervisor's own pid file names before that; and until it has
  read that file, the file does name the supervisor, which has had no `TERM` and, if it
  stops, does so for the stop request.

**Only model-checked.** All liveness (`AcceptedJobsAreServed`, `StopReturns`,
`ExitFreesUnit`, `EveryRequestAnswered`, `AnswersAreWritten`, `ClosedIsForgotten`,
`CallsReturn`, `StopsEnd`, `StopEnds`, `RequestsEnd`, `ServicesComeBack`): TLAPS does
not reason about fairness and ENABLED. Each invariant and each refinement or action
property that a run checks is stated by a theorem, where section 5 names the hypotheses.

Every detailed module has a `TypeOK` (that of `NodeJobQueue` is `QueueTypeOK`, that of
`Supervisor` is in its proofs), which is in no run: that of `NodeJobQueue`,
`UnitRegistry`, `InferenceNode`, `Buffer`, `PzmqRpc`, `NodeLifecycle`, `TcpBridge`,
`Gateway` and `Supervisor` is proved.

## 6. What is abstracted or left out

- JSON, `work_id` strings and error texts: a request is a member of a small set, a
  work id its number. JSON that does not parse is answered before any state
  changes.
- Data races. The accesses to `channel`'s map and strings are unordered in C++;
  the models treat each as one step and so show lost or mixed-up updates, not
  torn ones. `WorkerSend` is one step: an exit between its test of the socket and
  `zmq_send` is not separated from one just before it.
- The registry's `sql_select`, `sql_set`, `sql_unset`: readers and writers of
  plain strings in `key_sql` that touch no unit.
- A PUB socket drops what it sends before the subscriber has joined
  (`AskInference`); ZMQ's queue limits (1000 messages) are not reached.
- Model engines: a run is a step that ends with one result (`InferenceNode`) or a
  few parts (`Gateway`); text, audio and their conversions are left out, in the
  engines, in the nodes and in the gateway.
- `PzmqRpc`: `unregister_rpc_action` and `list_action` are called by nobody. The
  `catch (...)` of the event loop, which is meant for a missing action, also
  answers "NotAction" for an action that throws; the actions of the models do not.
- `NodeLifecycle`: sessions have no traffic here, which is `InferenceNode`'s subject;
  a signal that comes twice is one that came.
- `TcpBridge`: a reset is noticed through the end of file that precedes it, and
  `handleError`, which only logs, is left out; a node's PUSH socket is taken to
  connect anew for each answer. `unit_action_match` is the subject of `UnitRegistry`;
  here a request is only counted. `shutdown`, `forceClose`, `stopRead` and the
  write-complete callback are never used by unit-manager. `~TcpServer` and the
  joins of unit-manager run inside a signal handler, where C++ defines
  nothing.
- `Connector` and `TcpClient`, and the integers of `Buffer` (`appendInt32` and its
  siblings), which nothing outside of `network/` uses.
- `Gateway`: the ports of units (an old SUB socket on a port that is leased again
  after a restart), a full job queue (more jobs than sessions cannot wait there),
  and a worker that stays in the destruction of a channel. HTTP validation comes
  before any state.
- `Supervisor`: `pgrep` looks for the default paths, so a binary named by a `*_BIN`
  variable is found by its pid file only; the runs have the default paths.
  `status_runtime.sh` and the smoke test change nothing, and the test for missing
  files in `preflight_runtime` comes before any step.
- The Vue console and the older static console: sequential code behind one fetch.
- Vendored code. `utils/json.hpp` alone is about three quarters of the
  repository's C++ and has no state of this system; `libzmq/zmq.h` and the
  engines' headers are declarations.

## 7. Plan

In order of importance; a module with proofs is written without RECURSIVE.

| Next | Modules | Properties and theorems |
|---|---|---|
| 1 | `Gateway` with ports | what an old SUB socket hears on a port that is leased again |
| 2 | the stop of unit-manager, `TcpClient`, the console's SSE reader | `~TcpServer` against running loops; `retry`; reassembly of events |
