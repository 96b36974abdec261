------------------------------- MODULE PzmqRpc -------------------------------
(***************************************************************************)
(* RPC over ZMQ as hybrid-comm/include/pzmq.hpp has it, between the          *)
(* processes of the system: unit-manager's sessions call the nodes           *)
(* (remote_call), the nodes call unit-manager (sys_register_unit,            *)
(* sys_release_unit).                                                        *)
(*                                                                          *)
(* Every call makes a REQ socket of its own, sends, waits for the reply for  *)
(* timeout_, runs the callback on whatever has come, and closes the socket,  *)
(* which waits until the request has left it (ZMQ's linger).  A server is a  *)
(* REP socket bound to a file under /tmp and an event loop thread; the main  *)
(* thread registers the actions under zmq_fun_mtx_, the first one together   *)
(* with the bind and the start of the thread.  A process may crash, which    *)
(* leaves the file behind, and is started again by the supervisor.           *)
(*                                                                          *)
(* ZMQ is modelled as the code uses it: a request leaves the caller's socket *)
(* when a server is bound to the file, is received in order, and is neither  *)
(* repeated nor lost while its server lives; a reply to a socket that has    *)
(* been closed is dropped.                                                   *)
(***************************************************************************)
EXTENDS Naturals, Sequences, FiniteSets

CONSTANTS Servers,     (* processes with an RPC server                      *)
          Callers,     (* threads that call                                 *)
          Host,        (* the process a caller is a thread of               *)
          Target,      (* the server it calls                               *)
          Wanted,      (* the actions it may ask for                        *)
          Parsers,     (* callers whose callback reads the reply, and       *)
                       (* throws when there is none to read                 *)
          Serial,      (* callers under unit_action_match_mtx               *)
          ActionsOf,   (* what each server registers, in order              *)
          MaxCalls,    (* bound: calls of each caller                       *)
          MaxEnds      (* bound: crashes and orderly stops of each process  *)

Action == UNION {{ActionsOf[s][i] : i \in DOMAIN ActionsOf[s]} : s \in Servers}

ASSUME RpcAssumption ==
    /\ Host \in [Callers -> Servers] /\ Target \in [Callers -> Servers]
    /\ \A s \in Servers : ActionsOf[s] \in Seq(STRING) /\ Len(ActionsOf[s]) > 0
    /\ Wanted \in [Callers -> SUBSET Action]
    /\ Parsers \subseteq Callers /\ Serial \subseteq Callers
    /\ MaxCalls \in [Callers -> Nat] /\ MaxEnds \in [Servers -> Nat]

Call    == UNION {{c} \X (1..MaxCalls[c]) : c \in Callers}
Request == [call : Call, action : Action]
Outcome == {"new", "open", "answered", "refused", "unknown", "silent", "died"}

NoRequest == [call |-> <<>>, action |-> ""]

VARIABLES caller,     (* where each caller is in call_rpc_action            *)
          calls,      (* how many calls it has made                         *)
          wants,      (* the action of its present call                     *)
          unsent,     (* callers whose request has not left their socket    *)
          outcome,    (* what each call has come to                         *)
          proc,       (* the state of each process                          *)
          registered, (* how many of its actions are in zmq_fun_            *)
          lock,       (* who holds zmq_fun_mtx_                             *)
          file,       (* the servers whose socket file exists               *)
          inbox,      (* the requests its REP socket has received           *)
          loop,       (* where its event loop is                            *)
          current,    (* the request the loop serves                        *)
          ends,       (* crashes and stops of each process                  *)
          runs        (* how often the action of each call has run          *)

callerVars == <<caller, calls, wants, unsent>>
serverVars == <<proc, registered, lock, file, inbox, loop, current, ends>>
vars == <<callerVars, serverVars, outcome, runs>>

TypeOK ==
    /\ caller     \in [Callers -> {"idle", "waiting", "called"}]
    /\ calls      \in [Callers -> Nat]
    /\ wants      \in [Callers -> Action \cup {""}]
    /\ unsent     \subseteq Callers
    /\ outcome    \in [Call -> Outcome]
    /\ proc       \in [Servers -> {"down", "starting", "up", "stopping"}]
    /\ registered \in [Servers -> Nat]
    /\ \A s \in Servers : registered[s] <= Len(ActionsOf[s])
    /\ lock       \in [Servers -> {"free", "main", "loop"}]
    /\ file       \subseteq Servers
    /\ inbox      \in [Servers -> Seq(Request)]
    /\ loop       \in [Servers -> {"off", "recv", "match", "run", "reply", "refuse"}]
    /\ current    \in [Servers -> Request \cup {NoRequest}]
    /\ ends       \in [Servers -> Nat]
    /\ runs       \in [Call -> Nat]

Init ==
    /\ caller     = [c \in Callers |-> "idle"]
    /\ calls      = [c \in Callers |-> 0]
    /\ wants      = [c \in Callers |-> ""]
    /\ unsent     = {}
    /\ outcome    = [k \in Call |-> "new"]
    /\ proc       = [s \in Servers |-> "down"]
    /\ registered = [s \in Servers |-> 0]
    /\ lock       = [s \in Servers |-> "free"]
    /\ file       = {}
    /\ inbox      = [s \in Servers |-> <<>>]
    /\ loop       = [s \in Servers |-> "off"]
    /\ current    = [s \in Servers |-> NoRequest]
    /\ ends       = [s \in Servers |-> 0]
    /\ runs       = [k \in Call |-> 0]

(* The call that caller c is in.                                            *)
Open(c) == <<c, calls[c]>>

(* A server whose socket is bound: its event loop thread has been started.  *)
Bound(s) == loop[s] # "off"

IdleCaller(c) ==
    /\ caller[c] = "idle"
    /\ proc[Host[c]] = "up"
    /\ calls[c] < MaxCalls[c]
    /\ c \in Serial => \A d \in Serial : caller[d] = "idle"

------------------------------------------------------------------------------
(* The client: call_rpc_action.                                             *)

(* creat_req finds no socket file: -1, and the callback does not run.  A    *)
(* parser then reads a value it never got (std::stoi of an empty string).   *)
CallRefused(c) ==
    /\ IdleCaller(c)
    /\ Target[c] \notin file
    /\ calls'   = [calls EXCEPT ![c] = @ + 1]
    /\ outcome' = [outcome EXCEPT ![<<c, calls[c] + 1>>] = "refused"]
    /\ caller'  = [caller EXCEPT ![c] = IF c \in Parsers THEN "called" ELSE "idle"]
    /\ UNCHANGED <<wants, unsent, serverVars, runs>>

CallSent(c) ==
    /\ IdleCaller(c)
    /\ Target[c] \in file
    /\ \E a \in Wanted[c] : wants' = [wants EXCEPT ![c] = a]
    /\ calls'   = [calls EXCEPT ![c] = @ + 1]
    /\ outcome' = [outcome EXCEPT ![<<c, calls[c] + 1>>] = "open"]
    /\ caller'  = [caller EXCEPT ![c] = "waiting"]
    /\ unsent'  = unsent \cup {c}
    /\ UNCHANGED <<serverVars, runs>>

(* ZMQ connects to whoever is bound to the file now, and the request goes.  *)
Transmit(c) ==
    /\ c \in unsent
    /\ Bound(Target[c])
    /\ proc[Target[c]] # "stopping"
    /\ unsent' = unsent \ {c}
    /\ inbox'  = [inbox EXCEPT ![Target[c]] =
                     Append(@, [call |-> Open(c), action |-> wants[c]])]
    /\ UNCHANGED <<caller, calls, wants, outcome, proc, registered, lock, file,
                   loop, current, ends, runs>>

(* Faulty variant: ZMQ_RCVTIMEO is not set.                                 *)
NeverGivesUp(c) == FALSE

(* timeout_ may run out whenever the reply has not come.                    *)
GivesUp(c) == caller[c] = "waiting"

(* zmq_msg_recv gives up; what it returns is not looked at, the callback    *)
(* gets an empty message.                                                   *)
Timeout(c) ==
    /\ GivesUp(c)
    /\ caller'  = [caller EXCEPT ![c] = "called"]
    /\ outcome' = [outcome EXCEPT ![Open(c)] = "silent"]
    /\ UNCHANGED <<calls, wants, unsent, serverVars, runs>>

(* The callback of most callers ignores its message.  After it close_zmq:   *)
(* zmq_ctx_destroy waits for a request that has not left.                   *)
CallEnds(c) ==
    /\ caller[c] = "called"
    /\ c \in Parsers => outcome[Open(c)] = "answered"
    /\ c \notin unsent
    /\ caller' = [caller EXCEPT ![c] = "idle"]
    /\ wants'  = [wants EXCEPT ![c] = ""]
    /\ UNCHANGED <<calls, unsent, outcome, serverVars, runs>>

------------------------------------------------------------------------------
(* The server: register_rpc_action on the main thread.                      *)

(* Faulty variant: the table is unlocked while the socket is created.       *)
NotLocked == "free"

(* Who holds zmq_fun_mtx_ between the bind and the first entry.             *)
LockedBy == "main"

(* A process starts: the first registration binds and starts the event loop *)
(* thread before it enters its own action into the table.                   *)
Bind(s) ==
    /\ proc[s] = "down"
    /\ proc' = [proc EXCEPT ![s] = "starting"]
    /\ lock' = [lock EXCEPT ![s] = LockedBy]
    /\ file' = file \cup {s}
    /\ loop' = [loop EXCEPT ![s] = "recv"]
    /\ UNCHANGED <<callerVars, outcome, registered, inbox, current, ends, runs>>

(* The process serves its purpose once every action is in the table.        *)
Enter(s) ==
    /\ registered' = [registered EXCEPT ![s] = @ + 1]
    /\ proc' = [proc EXCEPT ![s] = IF registered[s] + 1 = Len(ActionsOf[s])
                                   THEN "up" ELSE @]

RegisterFirst(s) ==
    /\ proc[s] = "starting"
    /\ registered[s] = 0
    /\ Enter(s)
    /\ lock' = [lock EXCEPT ![s] = "free"]
    /\ UNCHANGED <<callerVars, outcome, file, inbox, loop, current, ends, runs>>

RegisterNext(s) ==
    /\ proc[s] = "starting"
    /\ registered[s] > 0
    /\ lock[s] = "free"
    /\ Enter(s)
    /\ UNCHANGED <<callerVars, outcome, lock, file, inbox, loop, current, ends, runs>>

------------------------------------------------------------------------------
(* The server: zmq_event_loop.                                              *)

LoopReceive(s) ==
    /\ loop[s] = "recv"
    /\ proc[s] # "stopping"
    /\ inbox[s] # <<>>
    /\ current' = [current EXCEPT ![s] = Head(inbox[s])]
    /\ inbox'   = [inbox EXCEPT ![s] = Tail(@)]
    /\ loop'    = [loop EXCEPT ![s] = "match"]
    /\ UNCHANGED <<callerVars, outcome, proc, registered, lock, file, ends, runs>>

Known(s, a) == \E i \in 1..registered[s] : ActionsOf[s][i] = a

(* zmq_fun_.at throws for an action that is not registered: "NotAction".    *)
LoopMatch(s) ==
    /\ loop[s] = "match"
    /\ lock[s] = "free"
    /\ IF Known(s, current[s].action)
       THEN /\ lock' = [lock EXCEPT ![s] = "loop"]
            /\ loop' = [loop EXCEPT ![s] = "run"]
       ELSE /\ loop' = [loop EXCEPT ![s] = "refuse"]
            /\ UNCHANGED lock
    /\ UNCHANGED <<callerVars, outcome, proc, registered, file, inbox, current, ends, runs>>

LoopRun(s) ==
    /\ loop[s] = "run"
    /\ runs' = [runs EXCEPT ![current[s].call] = @ + 1]
    /\ lock' = [lock EXCEPT ![s] = "free"]
    /\ loop' = [loop EXCEPT ![s] = "reply"]
    /\ UNCHANGED <<callerVars, outcome, proc, registered, file, inbox, current, ends>>

(* Faulty variant: a caller that waits takes any reply for its own, as one  *)
(* would that keeps its socket for the next call.                           *)
AwaitsAnything(k) == caller[k[1]] = "waiting"

(* The socket of call k is still there and waits.                           *)
Awaits(k) == caller[k[1]] = "waiting" /\ Open(k[1]) = k

(* zmq_send of the reply.  It fails once the context has been shut down.    *)
LoopReply(s) ==
    /\ loop[s] \in {"reply", "refuse"}
    /\ LET k == current[s].call IN
       IF proc[s] # "stopping" /\ Awaits(k)
       THEN /\ caller'  = [caller EXCEPT ![k[1]] = "called"]
            /\ outcome' = [outcome EXCEPT ![Open(k[1])] =
                              IF loop[s] = "reply" THEN "answered" ELSE "unknown"]
       ELSE UNCHANGED <<caller, outcome>>
    /\ loop'    = [loop EXCEPT ![s] = "recv"]
    /\ current' = [current EXCEPT ![s] = NoRequest]
    /\ UNCHANGED <<calls, wants, unsent, proc, registered, lock, file, inbox, ends, runs>>

------------------------------------------------------------------------------
(* The end of a process.                                                    *)

Hosted(s) == {c \in Callers : Host[c] = s}

(* Its threads and sockets go, its socket file stays.                       *)
Dies(s) ==
    /\ proc'    = [proc EXCEPT ![s] = "down"]
    /\ lock'    = [lock EXCEPT ![s] = "free"]
    /\ inbox'   = [inbox EXCEPT ![s] = <<>>]
    /\ loop'    = [loop EXCEPT ![s] = "off"]
    /\ current' = [current EXCEPT ![s] = NoRequest]
    /\ caller'  = [c \in Callers |-> IF c \in Hosted(s) THEN "idle" ELSE caller[c]]
    /\ unsent'  = unsent \ Hosted(s)
    /\ wants'   = [c \in Callers |-> IF c \in Hosted(s) THEN "" ELSE wants[c]]
    /\ outcome' = [k \in Call |-> IF k[1] \in Hosted(s) /\ outcome[k] = "open"
                                  THEN "died" ELSE outcome[k]]
    /\ registered' = [registered EXCEPT ![s] = 0]
    /\ UNCHANGED <<calls, file, runs>>

Crash(s) ==
    /\ proc[s] # "down"
    /\ ends[s] < MaxEnds[s]
    /\ ends' = [ends EXCEPT ![s] = @ + 1]
    /\ Dies(s)

(* The callback of sys_register_unit takes the reply apart (get_param) and  *)
(* makes a number of it (std::stoi): with no reply, or "NotAction", both    *)
(* throw, nobody catches, and the process of the caller ends.               *)
CallbackThrows(c) ==
    /\ caller[c] = "called"
    /\ c \in Parsers
    /\ outcome[Open(c)] # "answered"
    /\ Dies(Host[c])
    /\ UNCHANGED ends

(* ~pzmq: the flag, zmq_ctx_shutdown, the join of the loop, close_zmq.      *)
Stop(s) ==
    /\ proc[s] = "up"
    /\ ends[s] < MaxEnds[s]
    /\ \A c \in Hosted(s) : caller[c] = "idle"
    /\ proc' = [proc EXCEPT ![s] = "stopping"]
    /\ ends' = [ends EXCEPT ![s] = @ + 1]
    /\ UNCHANGED <<callerVars, outcome, registered, lock, file, inbox, loop, current, runs>>

(* Faulty variant: without zmq_ctx_shutdown the loop sleeps in recv until   *)
(* one more request comes.                                                  *)
LeavesReceiveOnRequest(s) == loop[s] = "recv" /\ inbox[s] # <<>>

LeavesReceive(s) == loop[s] = "recv"

LoopExit(s) ==
    /\ proc[s] = "stopping"
    /\ LeavesReceive(s)
    /\ loop' = [loop EXCEPT ![s] = "off"]
    /\ UNCHANGED <<callerVars, outcome, proc, registered, lock, file, inbox, current, ends, runs>>

(* After the join: the socket and its file go, and what it had received.    *)
CloseServer(s) ==
    /\ proc[s] = "stopping"
    /\ loop[s] = "off"
    /\ proc'  = [proc EXCEPT ![s] = "down"]
    /\ file'  = file \ {s}
    /\ inbox' = [inbox EXCEPT ![s] = <<>>]
    /\ registered' = [registered EXCEPT ![s] = 0]
    /\ UNCHANGED <<callerVars, outcome, lock, loop, current, ends, runs>>

------------------------------------------------------------------------------
CallerStep(c) ==
    \/ CallRefused(c) \/ CallSent(c) \/ Transmit(c) \/ Timeout(c)
    \/ CallEnds(c) \/ CallbackThrows(c)

ServerStep(s) ==
    \/ Bind(s) \/ RegisterFirst(s) \/ RegisterNext(s)
    \/ LoopReceive(s) \/ LoopMatch(s) \/ LoopRun(s) \/ LoopReply(s)
    \/ LoopExit(s) \/ CloseServer(s)

Next ==
    \/ \E c \in Callers : CallerStep(c)
    \/ \E s \in Servers : ServerStep(s) \/ Crash(s) \/ Stop(s)

Spec == Init /\ [][Next]_vars

(* What has begun goes on: time passes, ZMQ connects again, the threads of  *)
(* a server run, and the supervisor starts a process that is down.  Nobody  *)
(* has to call, crash or stop.                                              *)
Fairness ==
    /\ \A c \in Callers : /\ WF_vars(Transmit(c)) /\ WF_vars(Timeout(c))
                           /\ WF_vars(CallEnds(c) \/ CallbackThrows(c))
    /\ \A s \in Servers : WF_vars(ServerStep(s))

FairSpec == Spec /\ Fairness

------------------------------------------------------------------------------
(* Every call behaves as RemoteCall promises: pzmq.hpp:148-184 and 287-346  *)
(* run an action at most once, hand a reply only to the call it answers,    *)
(* and never run what was refused or unknown, however the processes crash.  *)
Promise == INSTANCE RemoteCall WITH Calls <- Call, runs <- runs, outcome <- outcome
ImplementsRemoteCall == Promise!Spec

(* Calls to the action that a server registers first never meet             *)
(* "NotAction": pzmq.hpp:129-137 binds and starts the thread under the lock *)
(* that the event loop needs.  For a node this is setup.                    *)
FirstActionIsKnown ==
    \A s \in Servers : loop[s] = "refuse" => current[s].action # ActionsOf[s][1]

(* No call lasts for ever, although closing its socket waits for a server   *)
(* that has crashed (pzmq.hpp:350-351) and other sessions wait for the      *)
(* mutex meanwhile.                                                         *)
CallsReturn ==
    \A c \in Callers : (caller[c] # "idle") ~> (caller[c] = "idle")

(* ~pzmq (pzmq.hpp:365-378) always gets its event loop to leave.            *)
StopsEnd ==
    \A s \in Servers : (proc[s] = "stopping") ~> (proc[s] = "down")

(* README.md:63-64: the wrapper takes care of time-outs, "so that the       *)
(* business layer need not deal with ZMQ's details".  A callback that reads *)
(* its reply always has one.                                                *)
RepliesCanBeRead ==
    \A c \in Parsers : caller[c] = "called" => outcome[Open(c)] = "answered"
==============================================================================
