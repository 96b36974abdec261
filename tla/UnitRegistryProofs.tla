------------------------- MODULE UnitRegistryProofs --------------------------
(* Theorems about UnitRegistry for every number of ports, units, crashes    *)
(* and requests.                                                            *)
EXTENDS UnitRegistry, TLAPS

(* What the threads' states look like once their step is known.             *)
LEMMA ThreadStates ==
    ASSUME TypeOK
    PROVE  /\ sys.step \in {"publish", "delete", "erase"} =>
                 /\ sys.unit \in Unit
                 /\ sys = [step |-> sys.step, unit |-> sys.unit]
           /\ sys.step = "idle" <=> sys = Idle
           /\ io.step \in {"found", "missing"} => io.unit \in Unit
           /\ io.step = "idle" <=> io = Idle
  BY DEF TypeOK, SysState, IoState, Idle

(* The port scan returns free ports only, if there are any.                 *)
LEMMA ScanFindsFree ==
    ASSUME NEW list \in [Port -> BOOLEAN], NEW p \in Scan(list)
    PROVE  /\ p \in AnyPort
           /\ Mark(list, p) \in [Port -> BOOLEAN]
           /\ Free(list) # {} => /\ p \in Port
                                 /\ ~list[p]
                                 /\ Mark(list, p) = [list EXCEPT ![p] = TRUE]
  BY RegistryAssumption DEF Scan, Free, Mark, Port, AnyPort

(* One step of any thread keeps the types.                                  *)
LEMMA TypeNext == TypeOK /\ [Next]_vars => TypeOK'
<1> SUFFICES ASSUME TypeOK, [Next]_vars
             PROVE  TypeOK'
  OBVIOUS
<1> USE RegistryAssumption DEF TypeOK, registry, clients, nodes
<1>0. Idle \in SysState /\ Idle \in IoState
  BY DEF SysState, IoState
<1>1. CASE AllocateUnit
  <2>0. PICK o \in Scan(port_list) :
            \E i \in Scan(Mark(port_list, o)) :
                /\ port_list' = Mark(Mark(port_list, o), i)
                /\ out' = [out EXCEPT ![counter] = o]
                /\ inf' = [inf EXCEPT ![counter] = i]
                /\ exhausted' = (\/ exhausted
                                 \/ Free(port_list) = {}
                                 \/ Free(Mark(port_list, o)) = {})
    BY <1>1 DEF AllocateUnit
  <2>1. PICK i \in Scan(Mark(port_list, o)) :
            /\ port_list' = Mark(Mark(port_list, o), i)
            /\ out' = [out EXCEPT ![counter] = o]
            /\ inf' = [inf EXCEPT ![counter] = i]
            /\ exhausted' = (\/ exhausted
                             \/ Free(port_list) = {}
                             \/ Free(Mark(port_list, o)) = {})
    BY <2>0
  <2>2. o \in AnyPort /\ Mark(port_list, o) \in [Port -> BOOLEAN]
    BY ScanFindsFree
  <2>3. i \in AnyPort /\ port_list' \in [Port -> BOOLEAN]
    BY <2>1, <2>2, ScanFindsFree
  <2>4. counter \in Unit /\ counter + 1 \in 0..MaxUnits
    BY <1>1 DEF AllocateUnit, Unit
  <2>5. sys' \in SysState
    BY <1>1, <2>4 DEF AllocateUnit, SysState
  <2>6. exhausted' \in BOOLEAN
    BY <2>1
  <2>7. out' \in [Unit -> AnyPort] /\ inf' \in [Unit -> AnyPort]
    BY <2>1, <2>2, <2>3
  <2>8. session' \in [Unit -> {"none", "setup", "open", "closing"}]
    BY <1>1, <2>4 DEF AllocateUnit
  <2>9. QED
    BY <1>1, <2>3, <2>4, <2>5, <2>6, <2>7, <2>8 DEF AllocateUnit
<1>2. CASE PublishUnit
  BY <1>2, <1>0, ThreadStates DEF PublishUnit
<1>3. CASE DeleteUnit
  <2>1. sys' \in SysState
    BY <1>3, ThreadStates DEF DeleteUnit, SysState
  <2>2. port_list' \in [Port -> BOOLEAN]
    BY <1>3 DEF DeleteUnit, ClearPorts
  <2>3. QED
    BY <1>3, <2>1, <2>2 DEF DeleteUnit
<1>4. CASE EraseUnit
  BY <1>4, <1>0 DEF EraseUnit, EraseEntry
<1>5. ASSUME NEW u \in Unit, ReleaseLookup(u)
      PROVE  TypeOK'
  <2>1. sys' \in SysState
    BY <1>5 DEF ReleaseLookup, SysState
  <2>2. QED
    BY <1>5, <2>1 DEF ReleaseLookup
<1>6. ASSUME NEW u \in Unit, InferenceLookup(u)
      PROVE  TypeOK'
  <2>1. io' \in IoState
    BY <1>6 DEF InferenceLookup, IoState
  <2>2. QED
    BY <1>6, <2>1 DEF InferenceLookup
<1>7. ASSUME NEW u \in Unit, DispatchExit(u)
      PROVE  TypeOK'
  BY <1>7 DEF DispatchExit
<1>8. ASSUME NEW u \in Unit, SetupEnds(u)
      PROVE  TypeOK'
  BY <1>8 DEF SetupEnds
<1>9. CASE InferenceSend
  BY <1>9, <1>0 DEF InferenceSend, ReportPush
<1>10. CASE InferenceMiss
  BY <1>10, <1>0 DEF InferenceMiss, ReportPush
<1>11. CASE NodeCrash
  BY <1>11 DEF NodeCrash
<1>12. CASE UNCHANGED vars
  BY <1>12 DEF vars
<1>13. QED
  BY <1>1, <1>2, <1>3, <1>4, <1>5, <1>6, <1>7, <1>8, <1>9, <1>10, <1>11, <1>12
     DEF Next, SysThread

(* The registry's state always has its type.                                *)
THEOREM TypeCorrect == Spec => []TypeOK
<1>1. ASSUME Init
      PROVE  TypeOK
  <2>1. Idle \in SysState /\ Idle \in IoState
    BY DEF SysState, IoState
  <2>2. NPorts \in AnyPort
    BY RegistryAssumption DEF AnyPort
  <2>3. /\ counter \in 0..MaxUnits
        /\ crashes \in 0..MaxCrashes
        /\ requests \in 0..MaxRequests
        /\ errors \in Nat /\ misses \in Nat
    BY <1>1, RegistryAssumption DEF Init
  <2>4. /\ port_list \in [Port -> BOOLEAN]
        /\ out \in [Unit -> AnyPort]
        /\ inf \in [Unit -> AnyPort]
        /\ session \in [Unit -> {"none", "setup", "open", "closing"}]
    BY <1>1, <2>2 DEF Init
  <2>5. /\ heap \in SUBSET Unit /\ key_sql \in SUBSET Unit
        /\ owned \in SUBSET Unit
    BY <1>1 DEF Init
  <2>6. /\ sys \in SysState /\ io \in IoState
        /\ badUse \in BOOLEAN /\ exhausted \in BOOLEAN
    BY <1>1, <2>1 DEF Init
  <2>7. QED
    BY <2>3, <2>4, <2>5, <2>6 DEF TypeOK
<1>2. QED
  BY <1>1, TypeNext, PTL DEF Spec

------------------------------------------------------------------------------
(* The table and the objects.                                               *)

(* Units below counter exist, and an object is deleted before its entry is  *)
(* erased, in one release that nothing can overtake.                        *)
TableInv ==
    /\ \A u \in heap \cup key_sql \cup owned : u < counter /\ session[u] # "none"
    /\ sys.step \in {"publish", "delete"} => sys.unit \in heap
    /\ sys.step \in {"delete", "erase"} => session[sys.unit] = "closing"
    /\ EntriesLive

(* One step of any thread keeps table and objects in step.                  *)
LEMMA TableNext == TypeOK /\ TableInv /\ [Next]_vars => TableInv'
<1> SUFFICES ASSUME TypeOK, TableInv, [Next]_vars
             PROVE  TableInv'
  OBVIOUS
<1> USE RegistryAssumption DEF TableInv, EntriesLive, TypeOK, Unit, Idle,
                               registry, clients, nodes
<1>0. /\ sys.step \in {"publish", "delete", "erase"} =>
             sys.unit \in Unit /\ sys = [step |-> sys.step, unit |-> sys.unit]
      /\ sys.step = "idle" <=> sys = Idle
  BY ThreadStates
<1>1. CASE AllocateUnit
  BY <1>1 DEF AllocateUnit
<1>2. CASE PublishUnit
  BY <1>2, <1>0 DEF PublishUnit
<1>3. CASE DeleteUnit
  <2>1. sys' = [step |-> "erase", unit |-> sys.unit]
    BY <1>3, <1>0 DEF DeleteUnit
  <2>2. QED
    BY <1>3, <1>0, <2>1 DEF DeleteUnit
<1>4. CASE EraseUnit
  BY <1>4, <1>0 DEF EraseUnit, EraseEntry
<1>5. ASSUME NEW u \in Unit, ReleaseLookup(u)
      PROVE  TableInv'
  BY <1>5 DEF ReleaseLookup
<1>6. ASSUME NEW u \in Unit, InferenceLookup(u)
      PROVE  TableInv'
  BY <1>6 DEF InferenceLookup
<1>7. ASSUME NEW u \in Unit, DispatchExit(u) \/ SetupEnds(u)
      PROVE  TableInv'
  BY <1>7, <1>0, ZenonT(60) DEF DispatchExit, SetupEnds
<1>8. CASE InferenceSend \/ InferenceMiss
  BY <1>8 DEF InferenceSend, InferenceMiss
<1>9. CASE NodeCrash
  BY <1>9 DEF NodeCrash
<1>10. CASE UNCHANGED vars
  BY <1>10 DEF vars
<1>11. QED
  BY <1>1, <1>2, <1>3, <1>4, <1>5, <1>6, <1>7, <1>8, <1>9, <1>10
     DEF Next, SysThread

LEMMA TableInvariant == Spec => []TableInv
<1>1. Init => TableInv
  BY DEF Init, TableInv, EntriesLive, Idle
<1>2. QED
  BY <1>1, TableNext, TypeCorrect, PTL DEF Spec

(* Only a release in progress leaves an entry of key_sql without an object. *)
THEOREM TableIsLive == Spec => []EntriesLive
  BY TableInvariant, PTL DEF TableInv

------------------------------------------------------------------------------
(* Ports.                                                                   *)

(* The strengthening of PortsExclusive and BitmapExact: as long as no scan  *)
(* has failed, live units also have ports in range.                         *)
PortInv ==
    /\ ~exhausted => \A u \in heap : out[u] \in Port /\ inf[u] \in Port
    /\ PortsExclusive
    /\ BitmapExact

(* What a registration does while ports are free: it leases two of them.    *)
LEMMA AllocateLeases ==
    ASSUME TypeOK, PortInv, AllocateUnit, ~exhausted'
    PROVE  \E o, i \in Port :
              /\ ~exhausted
              /\ o # i
              /\ ~port_list[o] /\ ~port_list[i]
              /\ out' = [out EXCEPT ![counter] = o]
              /\ inf' = [inf EXCEPT ![counter] = i]
              /\ port_list' = [p \in Port |-> p \in {o, i} \/ port_list[p]]
<1>1. PICK o \in Scan(port_list) :
          \E i \in Scan(Mark(port_list, o)) :
              /\ port_list' = Mark(Mark(port_list, o), i)
              /\ out' = [out EXCEPT ![counter] = o]
              /\ inf' = [inf EXCEPT ![counter] = i]
              /\ exhausted' = (\/ exhausted
                               \/ Free(port_list) = {}
                               \/ Free(Mark(port_list, o)) = {})
  BY DEF AllocateUnit
<1>2. PICK i \in Scan(Mark(port_list, o)) :
          /\ port_list' = Mark(Mark(port_list, o), i)
          /\ out' = [out EXCEPT ![counter] = o]
          /\ inf' = [inf EXCEPT ![counter] = i]
          /\ exhausted' = (\/ exhausted
                           \/ Free(port_list) = {}
                           \/ Free(Mark(port_list, o)) = {})
  BY <1>1
<1>3. /\ ~exhausted
      /\ Free(port_list) # {}
      /\ Free(Mark(port_list, o)) # {}
  BY <1>2
<1>4. port_list \in [Port -> BOOLEAN]
  BY DEF TypeOK
<1>5. /\ o \in Port /\ ~port_list[o]
      /\ Mark(port_list, o) \in [Port -> BOOLEAN]
      /\ Mark(port_list, o) = [port_list EXCEPT ![o] = TRUE]
  BY <1>3, <1>4, ScanFindsFree
<1>6. /\ i \in Port /\ ~Mark(port_list, o)[i]
      /\ port_list' = [Mark(port_list, o) EXCEPT ![i] = TRUE]
  BY <1>2, <1>3, <1>5, ScanFindsFree
<1>7. o # i /\ ~port_list[i]
  BY <1>4, <1>5, <1>6
<1>8. port_list' = [p \in Port |-> p \in {o, i} \/ port_list[p]]
  BY <1>4, <1>5, <1>6
<1>9. QED
  BY <1>2, <1>3, <1>5, <1>6, <1>7, <1>8

(* One step of any thread keeps the ports exclusive and the bitmap exact.   *)
LEMMA PortNext == TypeOK /\ TableInv /\ PortInv /\ [Next]_vars => PortInv'
<1> SUFFICES ASSUME TypeOK, TableInv, PortInv, [Next]_vars
             PROVE  PortInv'
  OBVIOUS
<1>1. CASE AllocateUnit
  <2> SUFFICES ASSUME ~exhausted'
               PROVE  PortInv'
    BY DEF PortInv, PortsExclusive, BitmapExact
  <2>1. PICK o \in Port, i \in Port :
            /\ ~exhausted
            /\ o # i
            /\ ~port_list[o] /\ ~port_list[i]
            /\ out' = [out EXCEPT ![counter] = o]
            /\ inf' = [inf EXCEPT ![counter] = i]
            /\ port_list' = [p \in Port |-> p \in {o, i} \/ port_list[p]]
    BY <1>1, AllocateLeases
  <2>2. /\ counter \in Unit /\ counter \notin heap
        /\ heap' = heap \cup {counter}
        /\ out'[counter] = o /\ inf'[counter] = i
        /\ \A u \in heap : out'[u] = out[u] /\ inf'[u] = inf[u]
    BY <1>1, <2>1, RegistryAssumption
    DEF AllocateUnit, TypeOK, TableInv, Unit
  <2>3. \A u \in heap : o \notin PortsOf(u) /\ i \notin PortsOf(u)
    BY <2>1 DEF PortInv, BitmapExact
  <2>4. \A u \in heap' : out'[u] \in Port /\ inf'[u] \in Port
    BY <2>1, <2>2 DEF PortInv
  <2>5. PortsExclusive'
    BY <2>1, <2>2, <2>3 DEF PortInv, PortsExclusive, PortsOf
  <2>6. ASSUME NEW p \in Port
        PROVE  port_list'[p] <=> \E u \in heap' : p \in {out'[u], inf'[u]}
    <3>1. port_list'[p] <=> p \in {o, i} \/ port_list[p]
      BY <2>1
    <3>2. port_list[p] <=> \E u \in heap : p \in {out[u], inf[u]}
      BY <2>1 DEF PortInv, BitmapExact, PortsOf
    <3>3. QED
      BY <3>1, <3>2, <2>2
  <2>7. QED
    BY <2>4, <2>5, <2>6 DEF PortInv, BitmapExact, PortsOf
<1>2. CASE DeleteUnit
  <2> SUFFICES ASSUME ~exhausted'
               PROVE  PortInv'
    BY DEF PortInv, PortsExclusive, BitmapExact
  <2>1. /\ ~exhausted /\ out' = out /\ inf' = inf
        /\ sys.unit \in heap
        /\ heap' = heap \ {sys.unit}
        /\ port_list' = [p \in Port |-> IF p \in PortsOf(sys.unit)
                                        THEN FALSE ELSE port_list[p]]
    BY <1>2 DEF DeleteUnit, ClearPorts, PortsOf, TableInv
  <2>2. PortsExclusive'
    BY <2>1 DEF PortInv, PortsExclusive, PortsOf
  <2>3. ASSUME NEW p \in Port
        PROVE  port_list'[p] <=> \E u \in heap' : p \in PortsOf(u)
    <3>1. port_list[p] <=> \E u \in heap : p \in PortsOf(u)
      BY <2>1 DEF PortInv, BitmapExact
    <3>2. \A u \in heap \ {sys.unit} :
              p \in PortsOf(u) => p \notin PortsOf(sys.unit)
      BY <2>1 DEF PortInv, PortsExclusive
    <3>3. QED
      BY <2>1, <3>1, <3>2
  <2>4. BitmapExact'
    BY <2>1, <2>3 DEF BitmapExact, PortsOf
  <2>5. QED
    BY <2>1, <2>2, <2>4 DEF PortInv
<1>3. ASSUME UNCHANGED registry
      PROVE  PortInv'
  BY <1>3 DEF registry, PortInv, PortsExclusive, BitmapExact, PortsOf
<1>4. CASE PublishUnit \/ EraseUnit \/ InferenceSend \/ InferenceMiss \/ NodeCrash
  BY <1>4, <1>3
  DEF PublishUnit, EraseUnit, InferenceSend, InferenceMiss, NodeCrash
<1>5. ASSUME NEW u \in Unit,
             \/ ReleaseLookup(u) \/ InferenceLookup(u)
             \/ DispatchExit(u) \/ SetupEnds(u)
      PROVE  PortInv'
  BY <1>5, <1>3 DEF ReleaseLookup, InferenceLookup, DispatchExit, SetupEnds
<1>6. CASE UNCHANGED vars
  BY <1>6, <1>3 DEF vars, registry
<1>7. QED
  BY <1>1, <1>2, <1>4, <1>5, <1>6 DEF Next, SysThread

LEMMA PortInvariant == Spec => []PortInv
<1>1. Init => PortInv
  BY DEF Init, PortInv, PortsExclusive, BitmapExact, PortsOf
<1>2. QED
  BY <1>1, PortNext, TypeCorrect, TableInvariant, PTL DEF Spec

(* No two live units ever share a port, no port leaks and none is booked    *)
(* twice, for any number of ports and units.                                *)
THEOREM PortsAreHeldOnce == Spec => []PortsHeldOnce
<1>1. PortInv => PortsHeldOnce
  BY DEF PortInv, PortsHeldOnce
<1>2. QED
  BY <1>1, PortInvariant, PTL

------------------------------------------------------------------------------
(* The pointer an IO thread holds.                                          *)

(* With clients that wait for setup and exit, the unit between look-up and  *)
(* send is open, so no release of it can have begun: its exit needs the     *)
(* mutex that the IO thread holds.                                          *)
UseInv ==
    /\ ~badUse
    /\ io.step = "found" => session[io.unit] = "open" /\ io.unit \in heap

(* One step of any thread keeps the pointer valid.                          *)
LEMMA UseNext ==
    ASSUME ~LateInference
    PROVE  TypeOK /\ TableInv /\ UseInv /\ [Next]_vars => UseInv'
<1> SUFFICES ASSUME TypeOK, TableInv, UseInv, [Next]_vars
             PROVE  UseInv'
  OBVIOUS
<1> USE DEF UseInv, TypeOK, Unit, Idle, clients, nodes, registry
<1>0. io.step \in {"found", "missing"} => io.unit \in Unit
  BY ThreadStates
<1>1. CASE AllocateUnit
  <2>1. /\ io' = io /\ badUse' = badUse
        /\ heap' = heap \cup {counter}
        /\ session' = [session EXCEPT ![counter] = "setup"]
    BY <1>1 DEF AllocateUnit
  <2>2. CASE io.step = "found"
    <3>1. io.unit \in Unit /\ io.unit \in heap /\ session[io.unit] = "open"
      BY <1>0, <2>2
    <3>2. io.unit # counter
      BY <3>1 DEF TableInv
    <3>3. session'[io.unit] = "open"
      BY <2>1, <3>1, <3>2
    <3>4. QED
      BY <2>1, <3>1, <3>3
  <2>3. CASE io.step # "found"
    BY <2>1, <2>3
  <2>4. QED
    BY <2>2, <2>3
<1>2. CASE PublishUnit \/ EraseUnit
  <2>1. UNCHANGED <<heap, session, io, badUse>>
    BY <1>2 DEF PublishUnit, EraseUnit
  <2>2. QED
    BY <2>1
<1>3. CASE DeleteUnit
  BY <1>3, <1>0 DEF DeleteUnit, TableInv
<1>4. ASSUME NEW u \in Unit, ReleaseLookup(u)
      PROVE  UseInv'
  BY <1>4 DEF ReleaseLookup
<1>5. ASSUME NEW u \in Unit, InferenceLookup(u)
      PROVE  UseInv'
  <2>1. CASE u \in key_sql
    <3>1. session[u] = "open"
      BY <1>5, <2>1 DEF InferenceLookup, MayName, TableInv
    <3>2. u \in heap
      BY <2>1, <3>1 DEF TableInv, EntriesLive
    <3>3. QED
      BY <1>5, <2>1, <3>1, <3>2 DEF InferenceLookup
  <2>2. CASE u \notin key_sql
    BY <1>5, <2>2 DEF InferenceLookup
  <2>3. QED
    BY <2>1, <2>2
<1>6. ASSUME NEW u \in Unit, DispatchExit(u)
      PROVE  UseInv'
  BY <1>6 DEF DispatchExit, MutexFree
<1>7. ASSUME NEW u \in Unit, SetupEnds(u)
      PROVE  UseInv'
  BY <1>7, <1>0 DEF SetupEnds
<1>8. CASE InferenceSend \/ InferenceMiss
  BY <1>8 DEF InferenceSend, InferenceMiss
<1>9. CASE NodeCrash
  BY <1>9 DEF NodeCrash
<1>10. CASE UNCHANGED vars
  BY <1>10 DEF vars
<1>11. QED
  BY <1>1, <1>2, <1>3, <1>4, <1>5, <1>6, <1>7, <1>8, <1>9, <1>10
     DEF Next, SysThread

(* Clients that send nothing to a unit before its setup or after its exit   *)
(* never make an IO thread send through a deleted unit_data.                *)
THEOREM PointersStayValid ==
    ASSUME ~LateInference
    PROVE  Spec => []NoUseAfterFree
<1>1. Init => UseInv
  BY DEF Init, UseInv, Idle
<1>2. TypeOK /\ TableInv /\ UseInv /\ [Next]_vars => UseInv'
  BY UseNext
<1>3. UseInv => NoUseAfterFree
  BY DEF UseInv, NoUseAfterFree
<1>4. QED
  BY <1>1, <1>2, <1>3, TypeCorrect, TableInvariant, PTL DEF Spec

------------------------------------------------------------------------------
(* The registry implements the leases, as long as no port scan fails.       *)

NeverExhausted == ~exhausted

(* A step of the registry grants one lease, returns one, or changes none.   *)
LEMMA LeaseNext ==
    /\ TypeOK /\ TableInv /\ PortInv /\ NeverExhausted /\ NeverExhausted'
    /\ [Next]_vars
    => [Lease!Next]_([u \in Unit |-> IF u \in heap THEN PortsOf(u) ELSE {}])
<1> DEFINE lease == [u \in Unit |-> IF u \in heap THEN PortsOf(u) ELSE {}]
<1> SUFFICES ASSUME TypeOK, TableInv, PortInv, NeverExhausted, NeverExhausted',
                    [Next]_vars
             PROVE  Lease!Next \/ lease' = lease
  OBVIOUS
<1>1. CASE AllocateUnit
  <2>1. PICK o \in Port, i \in Port :
            /\ o # i
            /\ ~port_list[o] /\ ~port_list[i]
            /\ out' = [out EXCEPT ![counter] = o]
            /\ inf' = [inf EXCEPT ![counter] = i]
    BY <1>1, AllocateLeases DEF NeverExhausted
  <2>2. /\ counter \in Unit /\ counter \notin heap
        /\ heap' = heap \cup {counter}
        /\ out'[counter] = o /\ inf'[counter] = i
        /\ \A u \in Unit \ {counter} : out'[u] = out[u] /\ inf'[u] = inf[u]
    BY <1>1, <2>1, RegistryAssumption
    DEF AllocateUnit, TypeOK, TableInv, Unit
  <2>3. lease' = [lease EXCEPT ![counter] = {o, i}]
    BY <2>2 DEF PortsOf
  <2>4. {o, i} \cap UNION {lease[u] : u \in Unit} = {}
    BY <2>1 DEF PortInv, BitmapExact, NeverExhausted
  <2>5. lease[counter] = {}
    BY <2>2
  <2>6. Lease!Grant(counter, o, i)
    BY <2>1, <2>3, <2>4, <2>5 DEF Lease!Grant, Lease!Leased
  <2>7. QED
    BY <2>1, <2>2, <2>6 DEF Lease!Next
<1>2. CASE DeleteUnit
  <2>1. PICK w \in Unit : w = sys.unit /\ w \in heap
    BY <1>2, ThreadStates DEF DeleteUnit, TableInv
  <2>2. heap' = heap \ {w} /\ out' = out /\ inf' = inf
    BY <1>2, <2>1 DEF DeleteUnit
  <2>3. lease' = [lease EXCEPT ![w] = {}]
    BY <2>1, <2>2 DEF PortsOf
  <2>4. lease[w] # {}
    BY <2>1 DEF PortsOf
  <2>5. Lease!Return(w)
    BY <2>3, <2>4 DEF Lease!Return
  <2>6. QED
    BY <2>5 DEF Lease!Next
<1>3. ASSUME UNCHANGED registry
      PROVE  lease' = lease
  BY <1>3 DEF registry, PortsOf
<1>4. CASE PublishUnit \/ EraseUnit \/ InferenceSend \/ InferenceMiss \/ NodeCrash
  BY <1>4, <1>3
  DEF PublishUnit, EraseUnit, InferenceSend, InferenceMiss, NodeCrash
<1>5. ASSUME NEW u \in Unit,
             \/ ReleaseLookup(u) \/ InferenceLookup(u)
             \/ DispatchExit(u) \/ SetupEnds(u)
      PROVE  lease' = lease
  BY <1>5, <1>3 DEF ReleaseLookup, InferenceLookup, DispatchExit, SetupEnds
<1>6. CASE UNCHANGED vars
  BY <1>6, <1>3 DEF vars, registry
<1>7. QED
  BY <1>1, <1>2, <1>4, <1>5, <1>6 DEF Next, SysThread

(* While there are free ports for every registration, the registry is a     *)
(* PortLease.                                                               *)
THEOREM RegistryIsLease == Spec /\ []NeverExhausted => ImplementsLease
<1>1. Init => Lease!Init
  BY DEF Init, Lease!Init
<1>2. QED
  BY <1>1, LeaseNext, TypeCorrect, TableInvariant, PortInvariant, PTL
  DEF Spec, ImplementsLease, Lease!Spec
==============================================================================
