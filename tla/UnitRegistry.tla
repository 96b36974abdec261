---------------------------- MODULE UnitRegistry -----------------------------
(***************************************************************************)
(* The unit registry of unit-manager: unit-manager/src/remote_server.cpp    *)
(* (allocation and release of units, dispatch of client requests) with the  *)
(* inference path of zmq_bus.cpp and the table key_sql of all.h.            *)
(*                                                                          *)
(* Two kinds of threads share the state.                                    *)
(*   - The "sys" RPC thread runs register_unit and release_unit for the     *)
(*     nodes, one call at a time (a REP socket).  Only this thread touches  *)
(*     port_list and creates or deletes unit_data objects.                  *)
(*   - The TCP IO threads run unit_action_match for the clients, one at a   *)
(*     time under unit_action_match_mtx.  An inference reads the pointer to *)
(*     the unit under key_sql_lock and uses it after the lock is released.  *)
(* The spinlock key_sql_lock covers single reads and writes of key_sql, so  *)
(* one action is what a thread does up to and including one access to       *)
(* key_sql, or one use or deletion of a unit_data object.                   *)
(*                                                                          *)
(* The nodes are the environment: they register a unit for every setup      *)
(* request, and release it when its setup fails or its exit is dispatched.  *)
(* A node that crashes forgets its units without releasing them.            *)
(***************************************************************************)
EXTENDS Naturals, FiniteSets

CONSTANTS NPorts,         (* port_list.size(): config max_port - min_port   *)
          MaxUnits,       (* bound: units registered in one run             *)
          MaxOwned,       (* units the nodes hold at once: session limits   *)
          MaxCrashes,     (* bound: crashes of nodes                        *)
          MaxRequests,    (* bound: inference requests                      *)
          LateInference   (* may clients send an inference for a unit whose *)
                          (* setup is unanswered or whose exit was sent?    *)

ASSUME RegistryAssumption ==
    /\ NPorts \in Nat /\ MaxUnits \in Nat /\ MaxOwned \in Nat
    /\ MaxCrashes \in Nat /\ MaxRequests \in Nat
    /\ LateInference \in BOOLEAN

(* A unit is named by its number: work_id_number_counter never repeats one. *)
Unit == 0..(MaxUnits - 1)

(* Ports are counted from config_zmq_min_port.  NPorts itself stands for    *)
(* every int outside of the configured range.                               *)
Port == 0..(NPorts - 1)
AnyPort == 0..NPorts

VARIABLES counter,    (* work_id_number_counter                             *)
          port_list,  (* port_list: TRUE for a port in use                  *)
          heap,       (* units whose unit_data object is allocated          *)
          out,        (* port in the unit's output_url                      *)
          inf,        (* port in the unit's inference_url                   *)
          key_sql,    (* units with an entry in key_sql                     *)
          sys,        (* the sys thread: what it does, and for which unit   *)
          io,         (* the IO thread that holds unit_action_match_mtx     *)
          session,    (* what the nodes and clients know of each unit       *)
          owned,      (* units that a running node holds                    *)
          crashes,    (* crashes so far                                     *)
          requests,   (* inference requests so far                          *)
          errors,     (* "inference data push false" replies so far         *)
          misses,     (* inference requests whose unit was not found        *)
          badUse,     (* a deleted unit_data object was used                *)
          exhausted   (* a port scan ended without a free port              *)

vars == <<counter, port_list, heap, out, inf, key_sql, sys, io, session,
          owned, crashes, requests, errors, misses, badUse, exhausted>>

registry == <<counter, port_list, heap, out, inf, exhausted>>
clients  == <<io, requests, errors, misses, badUse>>
nodes    == <<session, owned, crashes>>

Idle == [step |-> "idle"]

(* Steps left to the sys thread once the current one is done.               *)
SysState ==
    {Idle} \cup [step : {"publish", "delete", "erase"}, unit : Unit]

(* An IO thread between the look-up of a unit and the use of the result.    *)
IoState == {Idle} \cup [step : {"found", "missing"}, unit : Unit]

TypeOK ==
    /\ counter   \in 0..MaxUnits
    /\ port_list \in [Port -> BOOLEAN]
    /\ heap      \in SUBSET Unit
    /\ out       \in [Unit -> AnyPort]
    /\ inf       \in [Unit -> AnyPort]
    /\ key_sql   \in SUBSET Unit
    /\ sys       \in SysState
    /\ io        \in IoState
    /\ session   \in [Unit -> {"none", "setup", "open", "closing"}]
    /\ owned     \in SUBSET Unit
    /\ crashes   \in 0..MaxCrashes
    /\ requests  \in 0..MaxRequests
    /\ errors    \in Nat
    /\ misses    \in Nat
    /\ badUse    \in BOOLEAN
    /\ exhausted \in BOOLEAN

Init ==
    /\ counter   = 0
    /\ port_list = [p \in Port |-> FALSE]
    /\ heap      = {}
    /\ out       = [u \in Unit |-> NPorts]
    /\ inf       = [u \in Unit |-> NPorts]
    /\ key_sql   = {}
    /\ sys       = Idle
    /\ io        = Idle
    /\ session   = [u \in Unit |-> "none"]
    /\ owned     = {}
    /\ crashes   = 0
    /\ requests  = 0
    /\ errors    = 0
    /\ misses    = 0
    /\ badUse    = FALSE
    /\ exhausted = FALSE

------------------------------------------------------------------------------
(* sys_allocate_unit.                                                       *)

Free(list) == {p \in Port : ~list[p]}

(* The scan for the first free port.  Without one the loop leaves "int      *)
(* port" uninitialised, and the unit gets whatever it holds.                *)
Scan(list) ==
    IF Free(list) = {}
    THEN AnyPort
    ELSE {p \in Free(list) : \A q \in Free(list) : p <= q}

(* Faulty variant: the scan does not mark the port it found.                *)
MarkNothing(list, p) == list

Mark(list, p) ==
    IF Free(list) = {} THEN list ELSE [list EXCEPT ![p] = TRUE]

(* The first half of sys_allocate_unit: number, two ports, object, PUB      *)
(* socket.  Nothing of it is visible to the IO threads yet.                 *)
AllocateUnit ==
    /\ sys = Idle
    /\ counter < MaxUnits
    /\ Cardinality(owned) < MaxOwned
    /\ \E o \in Scan(port_list) :
         \E i \in Scan(Mark(port_list, o)) :
            /\ port_list' = Mark(Mark(port_list, o), i)
            /\ out' = [out EXCEPT ![counter] = o]
            /\ inf' = [inf EXCEPT ![counter] = i]
            /\ exhausted' = (\/ exhausted
                             \/ Free(port_list) = {}
                             \/ Free(Mark(port_list, o)) = {})
    /\ heap'    = heap \cup {counter}
    /\ owned'   = owned \cup {counter}
    /\ session' = [session EXCEPT ![counter] = "setup"]
    /\ sys'     = [step |-> "publish", unit |-> counter]
    /\ counter' = counter + 1
    /\ UNCHANGED <<key_sql, clients, crashes>>

(* The SAFE_SETTINGs that end sys_allocate_unit.                            *)
PublishUnit ==
    /\ sys.step = "publish"
    /\ key_sql' = key_sql \cup {sys.unit}
    /\ sys'     = Idle
    /\ UNCHANGED <<registry, clients, nodes>>

------------------------------------------------------------------------------
(* sys_release_unit.  A unit that is not in key_sql returns -1 and changes  *)
(* nothing; the nodes release a unit once, so it is there.                  *)

ReleaseLookup(u) ==
    /\ sys = Idle
    /\ u \in owned \cap key_sql
    /\ session[u] = "closing"
    /\ sys' = [step |-> "delete", unit |-> u]
    /\ UNCHANGED <<registry, key_sql, clients, nodes>>

(* Faulty variant: every port from the unit's output port on is given back. *)
ClearFromOutput(list, u) ==
    [p \in Port |-> IF p >= out[u] THEN FALSE ELSE list[p]]

(* Both ports, read back from the unit's URLs, become free.  (A port out of *)
(* range writes past the vector; only an exhausted scan produces one.)      *)
ClearPorts(list, u) ==
    [p \in Port |-> IF p \in {out[u], inf[u]} THEN FALSE ELSE list[p]]

(* delete unit_p comes before the SAFE_ERASE of its entry.                  *)
DeleteUnit ==
    /\ sys.step = "delete"
    /\ port_list' = ClearPorts(port_list, sys.unit)
    /\ heap'      = heap \ {sys.unit}
    /\ sys'       = [sys EXCEPT !.step = "erase"]
    /\ UNCHANGED <<counter, out, inf, exhausted, key_sql, clients, nodes>>

(* Faulty variant: the whole table is cleared.                              *)
EraseEverything(u) == {}

EraseEntry(u) == key_sql \ {u}

EraseUnit ==
    /\ sys.step = "erase"
    /\ key_sql' = EraseEntry(sys.unit)
    /\ owned'   = owned \ {sys.unit}
    /\ sys'     = Idle
    /\ UNCHANGED <<registry, clients, session, crashes>>

------------------------------------------------------------------------------
(* unit_action_match: one IO thread at a time.                              *)

(* Faulty variant: unit_action_match_mtx is not taken.                      *)
NoMutex == TRUE

MutexFree == io = Idle

(* May a client name this unit in an inference?  A client that waits for    *)
(* the answers to setup and exit names an open unit, or one that never was. *)
MayName(u) == LateInference \/ session[u] \in {"none", "open"}

(* zmq_bus_publisher_push reads the pointer to the unit ...                 *)
InferenceLookup(u) ==
    /\ MutexFree
    /\ requests < MaxRequests
    /\ MayName(u)
    /\ requests' = requests + 1
    /\ io' = [step |-> IF u \in key_sql THEN "found" ELSE "missing", unit |-> u]
    /\ UNCHANGED <<registry, key_sql, sys, nodes, errors, misses, badUse>>

(* log_level and SAMPLE_LOG_WARN.                                           *)
LogLevel      == 6
SampleLogWarn == 4

(* The "else" after ALOGW belongs to the "if (log_level >= ...)" inside of  *)
(* the macro, so the result does not depend on unit_p.                      *)
PushFails == ~(LogLevel >= SampleLogWarn)

ReportPush == errors' = IF PushFails THEN errors + 1 ELSE errors

(* ... and sends through it after key_sql_lock was released.                *)
InferenceSend ==
    /\ io.step = "found"
    /\ badUse' = (badUse \/ io.unit \notin heap)
    /\ ReportPush
    /\ io' = Idle
    /\ UNCHANGED <<registry, key_sql, sys, nodes, requests, misses>>

InferenceMiss ==
    /\ io.step = "missing"
    /\ misses' = misses + 1
    /\ ReportPush
    /\ io' = Idle
    /\ UNCHANGED <<registry, key_sql, sys, nodes, requests, badUse>>

(* An exit request is forwarded to the node that runs the unit.             *)
DispatchExit(u) ==
    /\ MutexFree
    /\ session[u] = "open"
    /\ session' = [session EXCEPT ![u] = "closing"]
    /\ UNCHANGED <<registry, key_sql, sys, clients, owned, crashes>>

------------------------------------------------------------------------------
(* The nodes: a setup ends in a session that its client knows, or it fails  *)
(* and StackFlow::setup releases the unit again.                            *)

SetupEnds(u) ==
    /\ session[u] = "setup"
    /\ u \in key_sql \cap owned
    /\ \E s \in {"open", "closing"} : session' = [session EXCEPT ![u] = s]
    /\ UNCHANGED <<registry, key_sql, sys, clients, owned, crashes>>

(* A crash takes the sessions of one node with it.                          *)
NodeCrash ==
    /\ crashes < MaxCrashes
    /\ crashes' = crashes + 1
    /\ \E lost \in SUBSET owned \ {{}} : owned' = owned \ lost
    /\ UNCHANGED <<registry, key_sql, sys, clients, session>>

------------------------------------------------------------------------------
SysThread == AllocateUnit \/ PublishUnit \/ DeleteUnit \/ EraseUnit

Next ==
    \/ SysThread
    \/ \E u \in Unit :
         ReleaseLookup(u) \/ InferenceLookup(u) \/ DispatchExit(u) \/ SetupEnds(u)
    \/ InferenceSend \/ InferenceMiss
    \/ NodeCrash

(* The sys thread finishes what it began and serves every caller in turn (a *)
(* REP socket queues fairly); an IO thread finishes its request.  Clients,  *)
(* node crashes and new registrations owe nothing.                          *)
Fairness ==
    /\ WF_vars(PublishUnit) /\ WF_vars(DeleteUnit) /\ WF_vars(EraseUnit)
    /\ \A u \in Unit : SF_vars(ReleaseLookup(u))
    /\ WF_vars(InferenceSend) /\ WF_vars(InferenceMiss)

Spec == Init /\ [][Next]_vars

FairSpec == Spec /\ Fairness

------------------------------------------------------------------------------
(* Properties.                                                              *)

PortsOf(u) == {out[u], inf[u]}

(* As long as the scan finds free ports, two units never share a port and   *)
(* the two URLs of one unit differ: a PUB socket bound twice to one path    *)
(* would take over the other unit's traffic.                                *)
PortsExclusive ==
    ~exhausted =>
        \A u \in heap :
            /\ out[u] # inf[u]
            /\ \A v \in heap \ {u} : PortsOf(u) \cap PortsOf(v) = {}

(* port_list says exactly which ports the live units hold, across every     *)
(* order of registrations, failed setups, exits and node crashes: no port   *)
(* is lost, and none is handed out twice.                                   *)
BitmapExact ==
    ~exhausted =>
        \A p \in Port : port_list[p] <=> (\E u \in heap : p \in PortsOf(u))

(* Every port is held once, or free.                                        *)
PortsHeldOnce == PortsExclusive /\ BitmapExact

(* An entry of key_sql points to a live object, except for the moment       *)
(* between the delete and the SAFE_ERASE of sys_release_unit.               *)
EntriesLive ==
    \A u \in key_sql \ heap : sys = [step |-> "erase", unit |-> u]

(* The IO thread never sends through a deleted unit_data, although it uses  *)
(* the pointer outside of key_sql_lock.  Holds for clients that send        *)
(* nothing to a unit once they sent its exit: unit_action_match_mtx keeps   *)
(* the exit behind the inference that came first.                           *)
NoUseAfterFree == ~badUse

(* A unit whose exit was dispatched, or whose setup failed, is freed unless *)
(* its node crashes first.                                                  *)
ExitFreesUnit ==
    \A u \in Unit :
        (session[u] = "closing" /\ u \in owned) ~> (u \notin heap \/ u \notin owned)

(* The registry leases ports as PortLease says.                             *)
Lease == INSTANCE PortLease WITH
            lease <- [u \in Unit |-> IF u \in heap THEN PortsOf(u) ELSE {}]

ImplementsLease == Lease!Spec

(* README.md: the default configuration gives the ZMQ URLs the ports from   *)
(* config_zmq_min_port to config_zmq_max_port.                              *)
PortsInConfiguredRange == \A u \in heap : PortsOf(u) \subseteq Port

(* remote_server.cpp answers "inference data push false" when the push      *)
(* fails, and zmq_bus.cpp returns -1 when there is no such work_id: every   *)
(* inference whose unit was missing got that answer.                        *)
MissesAreReported == errors = misses
==============================================================================
