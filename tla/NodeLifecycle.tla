---------------------------- MODULE NodeLifecycle ----------------------------
(***************************************************************************)
(* The birth and death of a node: the constructors and destructors of       *)
(* StackFlow and of the class derived from it (rkllm_node, AsrNode,         *)
(* TtsNode), run by the main thread while the RPC thread already or still   *)
(* enqueues events and the event thread already or still dispatches them.   *)
(*                                                                          *)
(* The base class is complete before the derived one and outlives it, and   *)
(* its event thread runs all the time: a virtual call meets whatever the    *)
(* object is at that moment.  status_ keeps events back until the base is   *)
(* built, exit_flage_ and an empty event get the thread to leave.           *)
(*                                                                          *)
(* Serving sessions is InferenceNode's subject; here a session is a unit    *)
(* that unit-manager has registered, a channel, and a task.  An RPC to      *)
(* unit-manager does what RemoteCall promises and no more: without an       *)
(* answer it has run or not.                                                *)
(***************************************************************************)
EXTENDS ParamCodec, FiniteSets

CONSTANTS Requests,   (* calls of clients, by unit-manager                  *)
          Url, Json,  (* the two parameters of each                         *)
          MaxStarts,  (* bound: starts of the process                       *)
          MaxCrashes, (* bound: crashes                                     *)
          MaxSilent   (* bound: RPCs of the node that get no answer         *)

ASSUME LifecycleAssumption ==
    /\ Url \in [Requests -> Seq(0..(CharValues - 1))]
    /\ Json \in [Requests -> Seq(0..(CharValues - 1))]
    /\ MaxStarts \in Nat /\ MaxCrashes \in Nat /\ MaxSilent \in Nat

VARIABLES main,      (* where the main thread is                            *)
          term,      (* main_exit_flage: SIGTERM has come                   *)
          status,    (* status_                                             *)
          exitFlag,  (* exit_flage_                                         *)
          queue,     (* event_queue_                                        *)
          loop,      (* where even_loop is                                  *)
          batch,     (* the events that process() has taken                 *)
          hand,      (* the unit that even_loop works on                    *)
          channels,  (* keys of llm_task_channel_                           *)
          tasks,     (* keys of tasks_                                      *)
          units,     (* units registered at unit-manager                    *)
          counter,   (* its work_id_number_counter                          *)
          fate,      (* what has become of each request                     *)
          read,      (* the parameters even_loop has read for it            *)
          excused,   (* units lost by a crash, an abort or a silent RPC     *)
          budget     (* starts, crashes and silent RPCs so far              *)

mainVars == <<main, term, status, exitFlag>>
loopVars == <<loop, batch, hand>>
nodeVars == <<channels, tasks>>
userVars == <<fate, read>>
vars == <<mainVars, queue, loopVars, nodeVars, units, counter, userVars, excused, budget>>

None == 0

(* The main thread: in the constructor of StackFlow, of the derived class,  *)
(* in main's loop, in ~Node, in ~StackFlow, in ~pzmq.                       *)
Phase == {"down", "serving", "status", "base", "members", "ready",
          "worker", "clear", "gone", "flag", "wake", "join", "look", "unbind"}

Step == {"off", "test", "wait", "next", "register", "setup", "exit", "stop", "release", "done"}

Event == [req : Requests \cup {None}, op : {"none", "setup", "exit"}, unit : Nat, raw : Seq(Int)]

Unit == 1..counter

TypeOK ==
    /\ main \in Phase /\ loop \in Step
    /\ term \in BOOLEAN /\ status \in BOOLEAN /\ exitFlag \in BOOLEAN
    /\ queue \in Seq(Event) /\ batch \in Seq(Event)
    /\ counter \in Nat /\ hand \in Unit \cup {None}
    /\ channels \subseteq Unit /\ tasks \subseteq Unit
    /\ units \subseteq Unit /\ excused \subseteq Unit
    /\ fate \in [Requests -> {"new", "queued", "dropped", "served", "refused", "lost"}]
    /\ DOMAIN read = Requests
    /\ budget \in [starts : Nat, crashes : Nat, silent : Nat]

Init ==
    /\ main = "down" /\ term = FALSE /\ status = FALSE /\ exitFlag = FALSE
    /\ queue = <<>> /\ loop = "off" /\ batch = <<>> /\ hand = None
    /\ channels = {} /\ tasks = {} /\ units = {} /\ counter = 0
    /\ fate = [r \in Requests |-> "new"]
    /\ read = [r \in Requests |-> <<>>]
    /\ excused = {}
    /\ budget = [starts |-> 0, crashes |-> 0, silent |-> 0]

------------------------------------------------------------------------------
(* Clients.                                                                 *)

(* The RPC server is there from the registration of the actions to the end  *)
(* of ~StackFlow; _rpc_setup and _rpc_exit enqueue and say "None".          *)
Request(r, op, u) ==
    /\ fate[r] = "new"
    /\ main # "down"
    /\ op = "exit" => u \in units
    /\ op = "setup" => u = None
    /\ queue' = Append(queue, [req |-> r, op |-> op, unit |-> u,
                               raw |-> SetParam(Url[r], Json[r])])
    /\ fate' = [fate EXCEPT ![r] = "queued"]
    /\ UNCHANGED <<mainVars, loopVars, nodeVars, units, counter, read, excused, budget>>

------------------------------------------------------------------------------
(* The main thread: construction.                                           *)

To(next) == main' = next

(* The constructor of StackFlow, up to the registration of the RPC actions. *)
StartProcess ==
    /\ main = "down"
    /\ budget.starts < MaxStarts
    /\ budget' = [budget EXCEPT !.starts = @ + 1]
    /\ To("serving")
    /\ UNCHANGED <<term, status, exitFlag, queue, loopVars, nodeVars, units, counter, userVars, excused>>

StartLoop ==
    /\ main = "serving"
    /\ status' = FALSE /\ exitFlag' = FALSE
    /\ loop' = "test"
    /\ To("status")
    /\ UNCHANGED <<term, queue, batch, hand, nodeVars, units, counter, userVars, excused, budget>>

SetStatus ==
    /\ main = "status"
    /\ status' = TRUE
    /\ To("base")
    /\ UNCHANGED <<term, exitFlag, queue, loopVars, nodeVars, units, counter, userVars, excused, budget>>

(* The derived class: its virtual functions come first, its members after.  *)
BuildDerived ==
    /\ main \in {"base", "members"}
    /\ To(IF main = "base" THEN "members" ELSE "ready")
    /\ UNCHANGED <<term, status, exitFlag, queue, loopVars, nodeVars, units, counter, userVars, excused, budget>>

Sigterm ==
    /\ main # "down"
    /\ term' = TRUE
    /\ UNCHANGED <<main, status, exitFlag, queue, loopVars, nodeVars, units, counter, userVars, excused, budget>>

------------------------------------------------------------------------------
(* The main thread: destruction.                                            *)

LeaveMain ==
    /\ main = "ready" /\ term
    /\ To("worker")
    /\ UNCHANGED <<term, status, exitFlag, queue, loopVars, nodeVars, units, counter, userVars, excused, budget>>

(* jobs_.stop() and the join, which NodeJobQueue shows to return.           *)
StopWorker ==
    /\ main = "worker"
    /\ To("clear")
    /\ UNCHANGED <<term, status, exitFlag, queue, loopVars, nodeVars, units, counter, userVars, excused, budget>>

(* One round of ~rkllm_node, under tasks_mutex_; get_channel would throw    *)
(* for a task without a channel.                                            *)
ClearTask ==
    /\ main = "clear"
    /\ \E u \in tasks : tasks' = tasks \ {u}
    /\ UNCHANGED <<mainVars, queue, loopVars, channels, units, counter, userVars, excused, budget>>

TasksCleared ==
    /\ main = "clear" /\ tasks = {}
    /\ To("gone")
    /\ UNCHANGED <<term, status, exitFlag, queue, loopVars, nodeVars, units, counter, userVars, excused, budget>>

EnterBase ==
    /\ main = "gone"
    /\ tasks' = {}
    /\ To("flag")
    /\ UNCHANGED <<term, status, exitFlag, queue, loopVars, channels, units, counter, userVars, excused, budget>>

WakeUp == Append(queue, [req |-> None, op |-> "none", unit |-> None, raw |-> <<>>])

(* Faulty variant: the thread is woken first and told to leave after.       *)
LeaveOrderSwapped ==
    \/ /\ main = "flag"
       /\ queue' = WakeUp /\ To("wake") /\ UNCHANGED exitFlag
    \/ /\ main = "wake"
       /\ exitFlag' = TRUE /\ To("join") /\ UNCHANGED queue

(* The flag first, then the empty event: two steps.                         *)
LeaveOrder ==
    \/ /\ main = "flag"
       /\ exitFlag' = TRUE /\ To("wake") /\ UNCHANGED queue
    \/ /\ main = "wake"
       /\ queue' = WakeUp /\ To("join") /\ UNCHANGED exitFlag

TellLoop ==
    /\ LeaveOrder
    /\ UNCHANGED <<term, status, loopVars, nodeVars, units, counter, userVars, excused, budget>>

JoinLoop ==
    /\ main = "join" /\ loop = "done"
    /\ loop' = "off"
    /\ To("look")
    /\ UNCHANGED <<term, status, exitFlag, queue, batch, hand, nodeVars, units, counter, userVars, excused, budget>>

NoChannelLeft ==
    /\ main = "look" /\ channels = {}
    /\ To("unbind")
    /\ UNCHANGED <<term, status, exitFlag, queue, loopVars, nodeVars, units, counter, userVars, excused, budget>>

(* What the process leaves when it ends: events nobody will dispatch.       *)
Ends ==
    /\ main' = "down" /\ term' = FALSE /\ status' = FALSE /\ exitFlag' = FALSE
    /\ queue' = <<>> /\ loop' = "off" /\ batch' = <<>> /\ hand' = None
    /\ channels' = {} /\ tasks' = {}
    /\ fate' = [r \in Requests |-> IF fate[r] = "queued" THEN "lost" ELSE fate[r]]

Unbind ==
    /\ main = "unbind"
    /\ Ends
    /\ UNCHANGED <<units, counter, read, excused, budget>>

(* A channel is left: its unit is released, and then the iterator is used   *)
(* that sys_release_unit has just invalidated, and the joined thread joined *)
(* again: system_error in a destructor.                                     *)
ReleaseAndAbort ==
    /\ main = "look"
    /\ \E u \in channels :
          \E released \in BOOLEAN :
              /\ released \/ budget.silent < MaxSilent
              /\ units' = IF released THEN units \ {u} ELSE units
              /\ budget' = [budget EXCEPT !.silent = IF released THEN @ ELSE @ + 1]
              /\ excused' = excused \cup (channels \cap units')
    /\ Ends
    /\ UNCHANGED <<counter, read>>

------------------------------------------------------------------------------
(* The event thread.                                                        *)

TestFlag ==
    /\ loop = "test"
    /\ loop' = IF exitFlag THEN "done" ELSE "wait"
    /\ UNCHANGED <<mainVars, queue, batch, hand, nodeVars, units, counter, userVars, excused, budget>>

(* wait() and the swap that process() begins with.                          *)
TakeEvents ==
    /\ loop = "wait" /\ queue # <<>>
    /\ batch' = queue /\ queue' = <<>>
    /\ loop' = "next"
    /\ UNCHANGED <<mainVars, hand, nodeVars, units, counter, userVars, excused, budget>>

BatchDone ==
    /\ loop = "next" /\ batch = <<>>
    /\ loop' = "test"
    /\ UNCHANGED <<mainVars, queue, batch, hand, nodeVars, units, counter, userVars, excused, budget>>

(* _none_event does nothing.  _setup and _exit read the parameters and look *)
(* at status_; an event before it is set is dropped, with no answer.        *)
Dispatch ==
    /\ loop = "next" /\ batch # <<>>
    /\ LET e == Head(batch) IN
       /\ batch' = Tail(batch)
       /\ IF e.op = "none" THEN UNCHANGED <<loop, hand, userVars>>
          ELSE /\ read' = [read EXCEPT ![e.req] = <<GetParam(0, e.raw), GetParam(1, e.raw)>>]
               /\ hand' = IF status THEN e.unit ELSE None
               /\ loop' = IF ~status THEN "next" ELSE IF e.op = "setup" THEN "register" ELSE "exit"
               /\ fate' = [fate EXCEPT ![e.req] = IF status THEN @ ELSE "dropped"]
    /\ UNCHANGED <<mainVars, queue, nodeVars, units, counter, excused, budget>>

(* The request that even_loop works on: the one it read last.               *)
Answer(outcome) ==
    \E r \in Requests :
        /\ fate[r] = "queued" /\ read[r] # <<>>
        /\ fate' = [fate EXCEPT ![r] = outcome]

(* The work id that sys_allocate_unit gives out.                            *)
NextUnit == counter + 1

RegisterUnit ==
    /\ loop = "register"
    /\ counter' = counter + 1
    /\ units' = units \cup {NextUnit}
    /\ channels' = channels \cup {NextUnit}
    /\ hand' = NextUnit
    /\ loop' = "setup"
    /\ UNCHANGED <<mainVars, queue, batch, tasks, userVars, excused, budget>>

(* No answer: std::stoi throws in the event thread, the process ends.  The  *)
(* registration may have happened.                                          *)
RegisterFails ==
    /\ loop = "register"
    /\ budget.silent < MaxSilent
    /\ budget' = [budget EXCEPT !.silent = @ + 1]
    /\ \E ran \in {0, 1} :
          /\ counter' = counter + ran
          /\ units' = units \cup {n \in {counter + 1} : ran = 1}
    /\ excused' = excused \cup units'
    /\ Ends
    /\ UNCHANGED read

(* What the object is when the event thread calls a virtual function: the   *)
(* base class, the derived one, or one whose members are not there.         *)
Derived  == main \in {"ready", "worker", "clear"}
Half     == main \in {"members", "gone"}

(* The derived setup admits the session ...                                 *)
SetupAdmits ==
    /\ loop = "setup" /\ (Derived \/ Half)
    /\ tasks' = tasks \cup {hand}
    /\ Answer("served")
    /\ loop' = "next" /\ hand' = None
    /\ UNCHANGED <<mainVars, queue, batch, channels, units, counter, read, excused, budget>>

(* Faulty variant: what setup returns is ignored.                           *)
KeepsUnit == "next"

(* A setup that has not returned 0 has its unit released.                   *)
AfterRefusal == "release"

(* ... or refuses it, and the base class answers -18.                       *)
SetupRefuses ==
    /\ loop = "setup"
    /\ Answer("refused")
    /\ loop' = AfterRefusal
    /\ UNCHANGED <<mainVars, queue, batch, hand, nodeVars, units, counter, read, excused, budget>>

(* Faulty variant: the task stays in the table.                             *)
EraseNever(u) == UNCHANGED tasks

(* The derived exit takes the task out of the table before anything else.   *)
EraseFirst(u) == tasks' = tasks \ {u}

ExitFound ==
    /\ loop = "exit" /\ (Derived \/ Half) /\ hand \in tasks
    /\ EraseFirst(hand)
    /\ loop' = "stop"
    /\ UNCHANGED <<mainVars, queue, batch, hand, channels, units, counter, userVars, excused, budget>>


(* "Unit Does Not Exist".                                                   *)
AnswerUnknown == Answer("refused")

ExitUnknown ==
    /\ loop = "exit" /\ (Derived \/ Half) /\ hand \notin tasks
    /\ AnswerUnknown
    /\ loop' = "next" /\ hand' = None
    /\ UNCHANGED <<mainVars, queue, batch, nodeVars, units, counter, read, excused, budget>>

(* The base class answers -18 and returns 0: the unit is released.          *)
ExitBase ==
    /\ loop = "exit" /\ ~(Derived \/ Half)
    /\ Answer("refused")
    /\ loop' = "release"
    /\ UNCHANGED <<mainVars, queue, batch, hand, nodeVars, units, counter, read, excused, budget>>

ExitStops ==
    /\ loop = "stop"
    /\ Answer("served")
    /\ loop' = "release"
    /\ UNCHANGED <<mainVars, queue, batch, hand, nodeVars, units, counter, read, excused, budget>>

(* The channel goes whatever the RPC has come to.                           *)
ReleaseUnit ==
    /\ loop = "release"
    /\ \E released \in BOOLEAN :
          /\ released \/ budget.silent < MaxSilent
          /\ units' = IF released THEN units \ {hand} ELSE units
          /\ excused' = IF released THEN excused ELSE excused \cup ({hand} \cap units)
          /\ budget' = [budget EXCEPT !.silent = IF released THEN @ ELSE @ + 1]
    /\ channels' = channels \ {hand}
    /\ loop' = "next" /\ hand' = None
    /\ UNCHANGED <<mainVars, queue, batch, tasks, counter, userVars>>

------------------------------------------------------------------------------
(* A crash, or the undefined behaviour of a virtual call on an object whose *)
(* members are not there.                                                   *)
Crash ==
    /\ main # "down"
    /\ \/ /\ budget.crashes < MaxCrashes
          /\ budget' = [budget EXCEPT !.crashes = @ + 1]
       \/ /\ Half /\ loop \in {"setup", "exit"}
          /\ UNCHANGED budget
    /\ excused' = excused \cup units
    /\ Ends
    /\ UNCHANGED <<units, counter, read>>

Construct == StartLoop \/ SetStatus \/ BuildDerived
Destroy == LeaveMain \/ StopWorker \/ ClearTask \/ TasksCleared \/ EnterBase
           \/ TellLoop \/ JoinLoop \/ NoChannelLeft \/ ReleaseAndAbort \/ Unbind
Main == Construct \/ Destroy

EvenLoop ==
    \/ TestFlag \/ TakeEvents \/ BatchDone \/ Dispatch
    \/ RegisterUnit \/ RegisterFails \/ SetupAdmits \/ SetupRefuses
    \/ ExitFound \/ ExitUnknown \/ ExitBase \/ ExitStops \/ ReleaseUnit

Next ==
    \/ StartProcess \/ Sigterm \/ Crash \/ Main \/ EvenLoop
    \/ \E r \in Requests, op \in {"setup", "exit"}, u \in units \cup {None} : Request(r, op, u)

Spec == Init /\ [][Next]_vars

(* Both threads run.  Nobody has to call, to start, to stop or to crash it. *)
FairSpec == Spec /\ WF_vars(Main) /\ WF_vars(EvenLoop)

------------------------------------------------------------------------------
(* get_channel(task.first) in the destructors (llm main.cpp:263, asr        *)
(* main.cpp:227) and in exit (llm main.cpp:233) would throw for a task      *)
(* without a channel: there is none, although the event thread registers    *)
(* and releases units while the destructor runs.                            *)
TasksHaveChannels == tasks \subseteq channels

(* A unit that unit-manager still has belongs to a channel, or was lost by  *)
(* a crash, an abort or a call without an answer: no orderly path forgets   *)
(* one; and a node that serves keeps no channel without a task but the one  *)
(* that the event thread works on (StackFlow.cpp:36-53, 76-90, 108-125,     *)
(* 217-236).                                                                *)
UnitsAccountedFor ==
    /\ units \subseteq channels \cup excused
    /\ main = "ready" => channels \subseteq tasks \cup {hand}

(* What the event thread reads is what unit-manager has sent                *)
(* (pzmq_data.cpp:40-63, StackFlow.h:72-95, remote_action.cpp:39).          *)
ReadAsSent ==
    \A r \in Requests : read[r] # <<>> => read[r] = <<Url[r], Json[r]>>

(* SIGTERM ends the process: the event thread cannot miss that it has to    *)
(* leave, because the flag is set before the event that wakes it            *)
(* (StackFlow.cpp:40-42, 59-62).                                            *)
StopEnds == (main = "ready" /\ term) ~> (main = "down")

(* A request that was taken is dealt with, or the node's end is the reason. *)
RequestsEnd == \A r \in Requests : (fate[r] = "queued") ~> (fate[r] # "queued")

(* Four statements that do not hold.  An event is dispatched to a whole     *)
(* object (StackFlow.cpp:32 starts the thread before the derived class is   *)
(* built); a request that was answered "None" is not dropped                *)
(* (StackFlow.h:81, 94); main and the event thread do not use the map of    *)
(* the channels at once (llm main.cpp:263); an orderly stop leaves no unit  *)
(* (StackFlow.cpp:42-51).                                                   *)
WholeObject == loop \in {"setup", "exit"} => Derived
NeverDropped == \A r \in Requests : fate[r] # "dropped"
ChannelsNotShared == ~(main = "clear" /\ tasks # {} /\ loop \in {"register", "release"})
StopReleasesUnits ==
    budget.crashes = 0 /\ budget.silent = 0 /\ main = "down" => units = {}
==============================================================================
