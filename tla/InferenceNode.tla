---------------------------- MODULE InferenceNode ----------------------------
(***************************************************************************)
(* One inference node (node/llm, node/asr or node/tts) built on the         *)
(* StackFlow base class, with the users that reach it through unit-manager. *)
(*                                                                          *)
(* Threads of the node:                                                     *)
(*   - the event thread (StackFlow::even_loop) takes setup, exit, taskinfo  *)
(*     and pause requests from event_queue_, one at a time.  It alone       *)
(*     changes tasks_ and llm_task_channel_;                                *)
(*   - each session's SUB thread (pzmq::zmq_event_loop) takes its inference *)
(*     requests and pushes jobs;                                            *)
(*   - the worker runs the jobs and sends the results.                      *)
(* All of them write to the session's llm_channel_obj, which has no lock:   *)
(* an action is what a thread does between two of its accesses to state     *)
(* that another thread writes.                                              *)
(*                                                                          *)
(* External to the node: the unit registry (module UnitRegistry), which is  *)
(* asked in one step here, and the path of a request from a user's TCP      *)
(* connection to the node.  The job queue does push and wait_pop in one     *)
(* step, as module BoundedFifo allows.                                      *)
(***************************************************************************)
EXTENDS Naturals, Sequences, FiniteSets

CONSTANTS Users,
          MaxConn,      (* bound: TCP connections of one user               *)
          MaxSent,      (* bound: requests of one user                      *)
          MaxUnit,      (* bound: setup requests, hence work ids            *)
          MaxAside,     (* bound: taskinfo, pause, exit without a session   *)
          MaxSessions,  (* max_sessions_                                    *)
          MaxQueue,     (* max_queue_size_                                  *)
          Streaming,    (* TRUE: the rkllm node; FALSE: asr and tts         *)
          Patient       (* TRUE: users wait for each answer, and after      *)
                        (* setup for the subscription, as sample/*.py do    *)

ASSUME NodeAssumption ==
    /\ IsFiniteSet(Users)
    /\ MaxConn \in Nat \ {0} /\ MaxSent \in Nat
    /\ MaxUnit \in Nat /\ MaxAside \in Nat
    /\ MaxSessions \in Nat \ {0} /\ MaxQueue \in Nat \ {0}
    /\ Streaming \in BOOLEAN /\ Patient \in BOOLEAN

(* The push URL of a TCP session names one connection of one user.          *)
Url     == Users \X (1..MaxConn)
Request == Users \X (1..MaxSent)
Unit    == 1..MaxUnit
NoUnit  == 0
NoUrl   == <<>>
NoLabel == <<>>

VARIABLES conn,      (* the number of each user's open connection           *)
          asked,     (* what each request asks: its kind, URL and unit      *)
          replies,   (* lines that open connections received for it         *)
          work,      (* the unit each user knows of                         *)
          units,     (* how many work ids the registry has handed out       *)
          registered,(* the node's units in the registry                    *)
          events,    (* event_queue_                                        *)
          ev,        (* the event thread                                    *)
          tasks,     (* keys of tasks_                                      *)
          mapped,    (* keys of llm_task_channel_                           *)
          channel,   (* the llm_channel_obj of each unit                    *)
          inbox,     (* inference requests that reached the SUB socket      *)
          sub,       (* the SUB thread of each unit                         *)
          jobs,      (* jobs_                                               *)
          worker,    (* the worker thread                                   *)
          crashed    (* a null pzmq was dereferenced                        *)

userVars    == <<conn, asked, work>>
registryVars == <<units, registered>>
tables      == <<tasks, mapped>>
subVars     == <<inbox, sub>>
workerVars  == <<jobs, worker, crashed>>
vars == <<userVars, replies, registryVars, events, ev, tables, channel,
          subVars, workerVars>>

Idle    == [step |-> "idle"]
Unasked == [kind |-> "none"]

Kind(r)   == asked[r].kind
From(r)   == asked[r].from
UnitOf(r) == asked[r].unit

NoChannel == [push |-> NoUrl, held |-> FALSE, label |-> NoLabel,
              pub |-> FALSE, link |-> "none"]

Label == Request \cup {NoLabel}
Job   == [req : Request, label : Label]

Question == [kind : {"setup", "exit", "taskinfo", "pause", "inference"},
             from : Url, unit : Unit \cup {NoUnit}]
Line     == [to : Url, label : Label]
Channel  == [push : Url \cup {NoUrl}, held : BOOLEAN, label : Label,
             pub : BOOLEAN, link : {"none", "joining", "joined"}]

(* What a thread has still to do.                                           *)
EventStep  == [step : {"admit", "answer", "refuse", "stop", "unknown", "list",
                       "release", "blocked"},
               req : Request, unit : Unit \cup {NoUnit}]
SubStep    == [step : {"dispatch", "blocked"}, req : Request]
WorkerStep == [step : {"run", "send"}, job : Job]

TypeOK ==
    /\ conn \in [Users -> 1..MaxConn]
    /\ asked \in [Request -> {Unasked} \cup Question]
    /\ replies \in [Request -> Seq(Line)]
    /\ work \in [Users -> Unit \cup {NoUnit}]
    /\ units \in 0..MaxUnit
    /\ registered \in SUBSET Unit
    /\ events \in Seq(Request)
    /\ ev \in {Idle} \cup EventStep
    /\ tasks \in SUBSET Unit
    /\ mapped \in SUBSET Unit
    /\ channel \in [Unit -> Channel]
    /\ inbox \in [Unit -> Seq(Request)]
    /\ sub \in [Unit -> {Idle} \cup SubStep]
    /\ jobs \in Seq(Job) /\ Len(jobs) <= MaxQueue
    /\ worker \in {Idle} \cup WorkerStep
    /\ crashed \in BOOLEAN

Init ==
    /\ conn = [u \in Users |-> 1]
    /\ asked = [r \in Request |-> Unasked]
    /\ replies = [r \in Request |-> <<>>]
    /\ work = [u \in Users |-> NoUnit]
    /\ units = 0
    /\ registered = {}
    /\ events = <<>>
    /\ ev = Idle
    /\ tasks = {}
    /\ mapped = {}
    /\ channel = [k \in Unit |-> NoChannel]
    /\ inbox = [k \in Unit |-> <<>>]
    /\ sub = [k \in Unit |-> Idle]
    /\ jobs = <<>>
    /\ worker = Idle
    /\ crashed = FALSE

------------------------------------------------------------------------------
(* Sockets.                                                                 *)

Open(url) == conn[url[1]] = url[2]

(* A line for request r arrives at the unit-manager session behind url.     *)
Arrives(url, r, label) ==
    replies' = [replies EXCEPT ![r] = Append(@, [to |-> url, label |-> label])]

(* llm_channel_obj::set_push_url: another URL replaces the PUSH socket.     *)
(* Closing the old one waits for ever (ZMQ_LINGER keeps its default of -1)  *)
(* while it holds a message for a session that is gone.                     *)
Redirect(c, url) ==
    IF c.push = url THEN c ELSE [c EXCEPT !.push = url, !.held = FALSE]

CloseBlocks(c, url) == c.push # url /\ c.held

(* llm_channel_obj::send: first to the PUB socket, then to the PUSH socket, *)
(* labelled with the channel's request_id_.  stop_subscriber("") erases     *)
(* both, and send_raw_to_pub dereferences the null zmq_[-1].                *)
ChannelSend(k, r) ==
    IF ~channel[k].pub
    THEN /\ crashed' = TRUE
         /\ UNCHANGED <<replies, channel>>
    ELSE /\ UNCHANGED crashed
         /\ IF Open(channel[k].push)
            THEN /\ Arrives(channel[k].push, r, channel[k].label)
                 /\ UNCHANGED channel
            ELSE /\ channel' = [channel EXCEPT ![k].held = TRUE]
                 /\ UNCHANGED replies

------------------------------------------------------------------------------
(* The users.                                                               *)

IsAsked(r) == asked[r] # Unasked
Sent(u)    == Cardinality({n \in 1..MaxSent : IsAsked(<<u, n>>)})
Awaits(u)  == \E n \in 1..MaxSent : IsAsked(<<u, n>>) /\ replies[<<u, n>>] = <<>>
Setups     == {r \in Request : Kind(r) = "setup"}
Asides     == {r \in Request : \/ Kind(r) \in {"taskinfo", "pause"}
                               \/ Kind(r) = "exit" /\ UnitOf(r) = NoUnit}

Ask(u, kind, unit) ==
    /\ Sent(u) < MaxSent
    /\ Patient => ~Awaits(u)
    /\ asked' = [asked EXCEPT ![<<u, Sent(u) + 1>>] =
                    [kind |-> kind, from |-> <<u, conn[u]>>, unit |-> unit]]

(* setup, exit, taskinfo and pause are RPCs of unit-manager to the node,    *)
(* whose handlers put the request into event_queue_.                        *)
AskEvent(u, kind) ==
    /\ \/ kind = "setup" /\ work[u] = NoUnit /\ Cardinality(Setups) < MaxUnit
       \/ kind = "exit" /\ work[u] # NoUnit
       \/ kind \in {"exit", "taskinfo", "pause"} /\ Cardinality(Asides) < MaxAside
    /\ Ask(u, kind, work[u])
    /\ events' = Append(events, <<u, Sent(u) + 1>>)
    /\ UNCHANGED <<conn, work, replies, registryVars, ev, tables, channel,
                   subVars, workerVars>>

(* unit-manager publishes an inference on the unit's PUB socket.  Nobody    *)
(* gets it before the node's subscription has arrived there.                *)
AskInference(u) ==
    /\ work[u] # NoUnit
    /\ Patient => channel[work[u]].link = "joined"
    /\ Ask(u, "inference", work[u])
    /\ inbox' = IF channel[work[u]].link = "joined" /\ work[u] \in registered
                THEN [inbox EXCEPT ![work[u]] = Append(@, <<u, Sent(u) + 1>>)]
                ELSE inbox
    /\ UNCHANGED <<conn, work, replies, registryVars, events, ev, tables,
                   channel, sub, workerVars>>

(* A user closes its TCP connection and opens another one.                  *)
Reconnect(u) ==
    /\ conn[u] < MaxConn
    /\ Patient => ~Awaits(u)
    /\ conn' = [conn EXCEPT ![u] = @ + 1]
    /\ UNCHANGED <<asked, work, replies, registryVars, events, ev, tables,
                   channel, subVars, workerVars>>

------------------------------------------------------------------------------
(* The event thread: setup.                                                 *)

(* The event thread takes request r from event_queue_.                      *)
Dequeue(r) ==
    /\ ev = Idle
    /\ events # <<>>
    /\ r = Head(events)
    /\ events' = Tail(events)

(* sys_register_unit, then the new channel is told where its results go.    *)
SetupBegin(r) ==
    /\ Dequeue(r)
    /\ Kind(r) = "setup"
    /\ units < MaxUnit
    /\ units' = units + 1
    /\ registered' = registered \cup {units + 1}
    /\ mapped' = mapped \cup {units + 1}
    /\ channel' = [channel EXCEPT ![units + 1] =
                      [push |-> From(r), held |-> FALSE, label |-> r,
                       pub |-> TRUE, link |-> "none"]]
    /\ ev' = [step |-> "admit", req |-> r, unit |-> units + 1]
    /\ UNCHANGED <<userVars, replies, tasks, subVars, workerVars>>

(* Faulty variant: the capacity test lets one session too many in.          *)
FullOffByOne == Cardinality(tasks) > MaxSessions

Full == Cardinality(tasks) >= MaxSessions

(* Code -21, or -11 when the asr node gets no stream for the session.       *)
SetupRefuse ==
    /\ ev.step = "admit"
    /\ Full \/ ~Streaming
    /\ ev' = [ev EXCEPT !.step = "refuse"]
    /\ UNCHANGED <<userVars, replies, registryVars, events, tables, channel,
                   subVars, workerVars>>

(* The subscription starts and the task is stored.  (setup tests the        *)
(* capacity again before it stores the task; only this thread adds tasks,   *)
(* so the second test cannot fail.)                                         *)
SetupAccept ==
    /\ ev.step = "admit"
    /\ ~Full
    /\ channel' = [channel EXCEPT ![ev.unit].link = "joining"]
    /\ tasks' = tasks \cup {ev.unit}
    /\ ev' = [ev EXCEPT !.step = "answer"]
    /\ UNCHANGED <<userVars, replies, registryVars, events, mapped, subVars,
                   workerVars>>

------------------------------------------------------------------------------
(* The event thread: exit, taskinfo, pause.                                 *)

(* StackFlow::exit, taskinfo: the unit's channel, if there is one, is       *)
(* pointed to the caller, whoever that is.                                  *)
PointToCaller(r, next) ==
    IF UnitOf(r) \in mapped
    THEN IF CloseBlocks(channel[UnitOf(r)], From(r))
         THEN /\ ev' = [step |-> "blocked", req |-> r, unit |-> UnitOf(r)]
              /\ UNCHANGED channel
         ELSE /\ ev' = [step |-> next, req |-> r, unit |-> UnitOf(r)]
              /\ channel' = [channel EXCEPT ![UnitOf(r)] = Redirect(@, From(r))]
    ELSE /\ ev' = [step |-> next, req |-> r, unit |-> UnitOf(r)]
         /\ UNCHANGED channel

(* The task is erased from tasks_, if it is there.                          *)
ExitBegin(r) ==
    /\ Dequeue(r)
    /\ Kind(r) = "exit"
    /\ PointToCaller(r, IF UnitOf(r) \in tasks THEN "stop" ELSE "unknown")
    /\ tasks' = IF ev'.step = "stop" THEN tasks \ {UnitOf(r)} ELSE tasks
    /\ UNCHANGED <<userVars, replies, registryVars, mapped, subVars, workerVars>>

TaskInfo(r) ==
    /\ Dequeue(r)
    /\ Kind(r) = "taskinfo"
    /\ PointToCaller(r, "list")
    /\ UNCHANGED <<userVars, replies, registryVars, tables, subVars, workerVars>>

(* _pause takes the URL for the request: it finds neither a work_id nor a   *)
(* request_id in it, and answers that there is no such action.              *)
Pause(r) ==
    /\ Dequeue(r)
    /\ Kind(r) = "pause"
    /\ ev' = [step |-> "list", req |-> r, unit |-> NoUnit]
    /\ UNCHANGED <<userVars, replies, registryVars, tables, channel, subVars,
                   workerVars>>

(* stop_subscriber("") drops all sockets of the channel.  It waits for the  *)
(* SUB thread, and for the peers of undelivered results.                    *)
ExitStop ==
    /\ ev.step = "stop"
    /\ sub[ev.unit] = Idle
    /\ ~channel[ev.unit].held
    /\ channel' = [channel EXCEPT ![ev.unit].pub = FALSE,
                                  ![ev.unit].push = NoUrl,
                                  ![ev.unit].link = "none"]
    /\ inbox' = [inbox EXCEPT ![ev.unit] = <<>>]
    /\ ev' = [ev EXCEPT !.step = "answer"]
    /\ UNCHANGED <<userVars, replies, registryVars, events, tables, sub,
                   workerVars>>

------------------------------------------------------------------------------
(* The event thread: answers and release.                                   *)

(* After an accepted exit and a refused setup the unit is released.         *)
MustRelease ==
    \/ ev.step = "refuse"
    \/ ev.step = "answer" /\ Kind(ev.req) = "exit"

(* StackFlow::send, a PUSH socket of its own for one line: closing it waits *)
(* for ever if the session is gone.                                         *)
Answer ==
    /\ ev.step \in {"answer", "refuse", "unknown", "list"}
    /\ IF Open(From(ev.req))
       THEN /\ Arrives(From(ev.req), ev.req,
                       IF Kind(ev.req) = "pause" THEN NoLabel ELSE ev.req)
            /\ ev' = IF MustRelease THEN [ev EXCEPT !.step = "release"] ELSE Idle
            /\ work' = [work EXCEPT ![ev.req[1]] =
                           IF ev.step = "answer" /\ Kind(ev.req) = "setup"
                           THEN ev.unit
                           ELSE IF Kind(ev.req) = "exit" THEN NoUnit ELSE @]
       ELSE /\ ev' = [ev EXCEPT !.step = "blocked"]
            /\ UNCHANGED <<replies, work>>
    /\ UNCHANGED <<conn, asked, registryVars, events, tables, channel, subVars,
                   workerVars>>

(* Faulty variant: the unit of a refused setup is not given back.           *)
ReleaseAfterExitOnly(k) ==
    IF Kind(ev.req) = "exit" THEN registered \ {k} ELSE registered

Released(k) == registered \ {k}

(* sys_release_unit.                                                        *)
Release ==
    /\ ev.step = "release"
    /\ registered' = Released(ev.unit)
    /\ mapped' = mapped \ {ev.unit}
    /\ ev' = Idle
    /\ UNCHANGED <<userVars, replies, units, events, tasks, channel, subVars,
                   workerVars>>

------------------------------------------------------------------------------
(* The SUB threads.                                                         *)

(* The subscription reaches unit-manager's PUB socket.                      *)
Join(k) ==
    /\ channel[k].link = "joining"
    /\ channel' = [channel EXCEPT ![k].link = "joined"]
    /\ UNCHANGED <<userVars, replies, registryVars, events, ev, tables, subVars,
                   workerVars>>

(* Faulty variant: the channel keeps the request_id it has.                 *)
KeepLabel(c, r) == Redirect(c, From(r))

TakeOver(c, r) == [Redirect(c, From(r)) EXCEPT !.label = r]

(* subscriber_event_call: the channel takes over the URL and the id of the  *)
(* request, whatever the worker is doing.                                   *)
SubTake(k) ==
    /\ sub[k] = Idle
    /\ inbox[k] # <<>>
    /\ inbox' = [inbox EXCEPT ![k] = Tail(@)]
    /\ LET r == Head(inbox[k])
       IN IF CloseBlocks(channel[k], From(r))
          THEN /\ sub' = [sub EXCEPT ![k] = [step |-> "blocked", req |-> r]]
               /\ UNCHANGED channel
          ELSE /\ sub' = [sub EXCEPT ![k] = [step |-> "dispatch", req |-> r]]
               /\ channel' = [channel EXCEPT ![k] = TakeOver(@, r)]
    /\ UNCHANGED <<userVars, replies, registryVars, events, ev, tables,
                   workerVars>>

(* Is the weak_ptr to the task of unit k alive?  The rkllm node's exit      *)
(* holds the erased task until it returns.                                  *)
TaskAlive(k) ==
    \/ k \in tasks
    \/ /\ Streaming
       /\ ev.step \in {"stop", "answer"} /\ ev.unit = k /\ Kind(ev.req) = "exit"

HasRoom == Len(jobs) < MaxQueue

(* Faulty variant: a job that finds the queue full is dropped silently.     *)
RefuseSilently(k, r) == UNCHANGED <<replies, channel, crashed>>

(* Code -22.                                                                *)
RefuseJob(k, r) == ChannelSend(k, r)

(* on_inference: push a job with the channel's request_id_, or refuse it.   *)
SubDispatch(k) ==
    /\ sub[k].step = "dispatch"
    /\ sub' = [sub EXCEPT ![k] = Idle]
    /\ IF ~TaskAlive(k)
       THEN UNCHANGED <<jobs, replies, channel, crashed>>
       ELSE IF HasRoom
       THEN /\ jobs' = Append(jobs, [req |-> sub[k].req, label |-> channel[k].label])
            /\ UNCHANGED <<replies, channel, crashed>>
       ELSE /\ RefuseJob(k, sub[k].req)
            /\ UNCHANGED jobs
    /\ UNCHANGED <<userVars, registryVars, events, ev, tables, inbox, worker>>

------------------------------------------------------------------------------
(* The worker.                                                              *)

(* channel->request_id_ = job.request_id.                                   *)
LabelForJob(c, job) == [c EXCEPT !.label = job.label]

(* wait_pop; a job of a session that is gone is dropped.                    *)
WorkerTake ==
    /\ worker = Idle
    /\ jobs # <<>>
    /\ jobs' = Tail(jobs)
    /\ LET job == Head(jobs)
           k   == UnitOf(job.req)
       IN IF TaskAlive(k) /\ k \in mapped
          THEN /\ worker' = [step |-> "run", job |-> job]
               /\ channel' = [channel EXCEPT ![k] = LabelForJob(@, job)]
          ELSE UNCHANGED <<worker, channel>>
    /\ UNCHANGED <<userVars, replies, registryVars, events, ev, tables, subVars,
                   crashed>>

(* The model run ends.  The rkllm node's callback sets request_id_ again.   *)
WorkerRun ==
    /\ worker.step = "run"
    /\ worker' = [worker EXCEPT !.step = "send"]
    /\ channel' = IF Streaming
                  THEN [channel EXCEPT ![UnitOf(worker.job.req)] =
                            LabelForJob(@, worker.job)]
                  ELSE channel
    /\ UNCHANGED <<userVars, replies, registryVars, events, ev, tables, subVars,
                   jobs, crashed>>

(* Faulty variant: the job's result is sent a second time.                  *)
SendAgain(w) == [w EXCEPT !.step = "run"]

JobDone(w) == Idle

WorkerSend ==
    /\ worker.step = "send"
    /\ ChannelSend(UnitOf(worker.job.req), worker.job.req)
    /\ worker' = JobDone(worker)
    /\ UNCHANGED <<userVars, registryVars, events, ev, tables, subVars, jobs>>

------------------------------------------------------------------------------
EventThread ==
    /\ ~crashed
    /\ \/ \E r \in Request : SetupBegin(r) \/ ExitBegin(r) \/ TaskInfo(r) \/ Pause(r)
       \/ SetupRefuse \/ SetupAccept \/ ExitStop \/ Answer \/ Release

SubThread(k) == ~crashed /\ (Join(k) \/ SubTake(k) \/ SubDispatch(k))

Worker == ~crashed /\ (WorkerTake \/ WorkerRun \/ WorkerSend)

UserStep(u) ==
    \/ \E kind \in {"setup", "exit", "taskinfo", "pause"} : AskEvent(u, kind)
    \/ AskInference(u)
    \/ Reconnect(u)

Next ==
    \/ EventThread
    \/ \E k \in Unit : SubThread(k)
    \/ Worker
    \/ \E u \in Users : UserStep(u)

(* Every thread of the node that can run does.  Users owe nothing.          *)
Fairness ==
    /\ WF_vars(EventThread)
    /\ WF_vars(Worker)
    /\ \A k \in Unit : WF_vars(SubThread(k))

Spec == Init /\ [][Next]_vars

FairSpec == Spec /\ Fairness
------------------------------------------------------------------------------
(* Properties.                                                              *)

(* Between two events the registry, tasks_ and llm_task_channel_ name the   *)
(* same units, at most max_sessions_ of them: setups refused at the limit   *)
(* or for lack of a stream, exits, repeated exits and exits of unknown      *)
(* units neither leak a unit nor let a session in too many.                 *)
NoUnitLeaks ==
    ev = Idle =>
        /\ registered = tasks /\ mapped = tasks
        /\ Cardinality(tasks) <= MaxSessions

RightLabel(r) == IF Kind(r) = "pause" THEN NoLabel ELSE r

(* A result arrives on the TCP session that sent the request, under the     *)
(* request's own id, although the SUB thread, the worker and the event      *)
(* thread all write the channel's URL and request_id_ without a lock.       *)
(* (pause is always answered without an id: _pause loses the request.)      *)
ResultsGoHome ==
    \A r \in Request :
        \A i \in DOMAIN replies[r] :
            replies[r][i] = [to |-> From(r), label |-> RightLabel(r)]

(* A job sends its result while its channel has its PUB socket: the exit of *)
(* a session never pulls the sockets away from under the worker.            *)
NoCrash == ~crashed

(* No thread waits for ever in the close of a PUSH socket whose session is  *)
(* gone.                                                                    *)
NothingBlocks ==
    /\ ev.step # "blocked"
    /\ \A k \in Unit : sub[k].step # "blocked"
    /\ ev.step = "stop" => ~channel[ev.unit].held

(* Every request is answered: none is lost between the RPC thread, the      *)
(* event queue, the SUB thread, a full job queue and the worker.            *)
EveryRequestAnswered ==
    \A r \in Request : IsAsked(r) ~> replies[r] # <<>>

Status(r) ==
    IF ~IsAsked(r) THEN "new"
    ELSE IF replies[r] = <<>> THEN "asked"
    ELSE IF replies[r] = <<[to |-> From(r), label |-> RightLabel(r)]>>
         THEN "answered"
    ELSE "broken"

(* The node answers each request exactly once, and only what was asked.     *)
Service == INSTANCE RequestReply WITH status <- [r \in Request |-> Status(r)]

ImplementsRequestReply == Service!Spec

(* README.md: StackFlow turns each RPC request into a local event and       *)
(* dispatches it to the virtual functions.  Every queued event is           *)
(* dispatched, unless the node crashes.                                     *)
EventsAreDispatched ==
    \A r \in Request :
        (\E i \in DOMAIN events : events[i] = r)
            ~> (crashed \/ \A i \in DOMAIN events : events[i] # r)
==============================================================================
