-------------------------- MODULE SupervisorProofs ---------------------------
(* Theorems about Supervisor for every list of services, every number of    *)
(* scripts, of faults and of process ids, given out again or not.           *)
EXTENDS Supervisor, FiniteSetTheorems, TLAPS

------------------------------------------------------------------------------
(* Types.                                                                   *)

PidOrNone == Pids \cup {NoPid}

(* Where stop_all goes back to: the command, the service, the pid in hand.  *)
Back == {"top", "look", "spawn", "write", "exit"} \X (1..Len(Services)) \X PidOrNone

SupervisorState ==
    [at       : {"begin", "top", "look", "spawn", "write", "stop", "exit"},
     i        : 0..Len(Services),
     pid      : PidOrNone,
     stopping : BOOLEAN,
     term     : BOOLEAN,
     back     : Back \cup {<<>>}]

OperatorState ==
    [at    : {"idle", "spawn", "write", "files", "orphans", "supervisors", "clean",
              "stopped"},
     i     : 0..Len(Services) + 1,
     pid   : PidOrNone,
     round : 0..Rounds]

TypeOK ==
    /\ proc \in [Pids -> Names \cup {Sup, Nil}]
    /\ last \in Nat
    /\ file \in [Names \cup {Sup} -> PidOrNone]
    /\ stopFile \in BOOLEAN
    /\ sup \in [Pids -> SupervisorState]
    /\ op \in OperatorState
    /\ commands \in Nat /\ faults \in Nat /\ signalled \in BOOLEAN

(* A supervisor is in or behind stop_all exactly when it has a place to go  *)
(* back to; only within stop_all is it at no service.                       *)
PlaceInv ==
    \A p \in Pids :
        /\ sup[p].stopping => sup[p].back \in Back
        /\ sup[p].at \in {"stop", "exit"} => sup[p].stopping
        /\ sup[p].at # "stop" => sup[p].i # 0

(* The operator's script counts services while it looks for orphans, and    *)
(* removes the request to stop at its end.                                  *)
RoundInv ==
    /\ op.at = "orphans" => op.i <= Len(Services) /\ op.round >= 1
    /\ op.at = "supervisors" => op.round >= 1
    /\ op.at = "write" => op.pid \in Pids
    /\ op.at = "stopped" => ~stopFile

ShapeInv == TypeOK /\ PlaceInv /\ RoundInv

------------------------------------------------------------------------------
(* What stop_runtime leaves.                                                *)

Nothing == \A p \in Pids : proc[p] = Nil

(* From the second round on no supervisor runs, so that what the first one  *)
(* left behind is found and nothing new is started.                         *)
StopInv ==
    /\ (op.at \in {"orphans", "supervisors"} /\ op.round >= 2) =>
           \A p \in Pids : proc[p] # Sup
    /\ (op.at = "orphans" /\ op.round >= 2) =>
           \A j \in 1..Len(Services) : j > op.i =>
               \A p \in Pids : proc[p] # Services[j]
    /\ (op.at = "supervisors" /\ op.round >= 2) => Nothing
    /\ op.at \in {"clean", "stopped"} => Nothing

------------------------------------------------------------------------------
(* How many of each run.                                                    *)

Exiting(p) == sup[p].at = "exit"

(* What the operator's script knows of the supervisors at each place.       *)
IdleInv ==
    op.at = "idle" =>
        /\ ~stopFile
        /\ (\A p \in Pids : proc[p] # Sup) => Nothing
        /\ \A p \in Pids : proc[p] = Sup =>
               file[Sup] = p /\ ~sup[p].term /\ ~sup[p].stopping

StartInv ==
    /\ op.at = "spawn" => ~stopFile /\ Nothing
    /\ op.at = "write" =>
           /\ ~stopFile
           /\ \A p \in Pids : proc[p] = Sup <=> p = op.pid
           /\ ~sup[op.pid].term /\ ~sup[op.pid].stopping

FilesInv ==
    op.at = "files" =>
        \A p \in Pids : proc[p] = Sup =>
            IF op.i <= Len(Services) THEN Exiting(p)
            ELSE IF op.pid # NoPid THEN p = op.pid \/ Exiting(p)
            ELSE /\ ~sup[p].term
                 /\ \/ Exiting(p)
                    \/ /\ file[Sup] = p
                       /\ sup[p].stopping => sup[p].at = "stop" /\ sup[p].back[1] = "exit"

OrphansInv ==
    op.at \in {"orphans", "supervisors"} =>
        \A p \in Pids : proc[p] = Sup => Exiting(p)

(* The service and the pid that a supervisor at x has in hand: it has       *)
(* started the one and not yet written the other, maybe because TERM came   *)
(* between.                                                                 *)
InHand(x, n, q) ==
    \/ x.at = "write" /\ Services[x.i] = n /\ x.pid = q
    \/ /\ x.at = "stop" /\ x.back[1] = "write"
       /\ Services[x.back[2]] = n /\ x.back[3] = q

(* The service that a supervisor is about to start, now or after stop_all.  *)
AboutToStart(x, n) ==
    \/ x.at = "spawn" /\ Services[x.i] = n
    \/ x.at = "stop" /\ x.back[1] = "spawn" /\ Services[x.back[2]] = n

(* A supervisor at x that goes on knows every service that runs.            *)
Knows(x) ==
    \A n \in Names, q \in Pids : proc[q] = n =>
        /\ file[n] = q \/ InHand(x, n, q)
        /\ \A r \in PidOrNone : InHand(x, n, r) => r = q
        /\ ~AboutToStart(x, n)

StopsByFile(x) ==
    x.at = "stop" /\ x.i > 0 /\ x.pid # NoPid => file[Services[x.i]] = x.pid

KnowInv ==
    \A p \in Pids : proc[p] = Sup /\ ~Exiting(p) =>
        Knows(sup[p]) /\ StopsByFile(sup[p])

OneOfEach ==
    \A n \in Names \cup {Sup} : \A p, q \in Pids :
        proc[p] = n /\ proc[q] = n => p = q

PhaseInv == IdleInv /\ StartInv /\ FilesInv /\ OrphansInv

CountNow == PhaseInv /\ KnowInv /\ OneOfEach

CountInv == ~signalled => CountNow

------------------------------------------------------------------------------
(* The constants, and the helpers of the model.                             *)

LEMMA Constant ==
    /\ Len(Services) \in Nat /\ Len(Services) >= 1
    /\ Rounds \in Nat
    /\ \A i \in 1..Len(Services) : Services[i] \in Names
    /\ \A n \in Names : \E i \in 1..Len(Services) : Services[i] = n
    /\ Sup \notin Names /\ Nil \notin Names /\ Sup # Nil
    /\ NoPid \notin Pids /\ IsFiniteSet(Pids)
<1>1. /\ Services \in Seq(Names) /\ Services # <<>>
      /\ {Sup, Nil} \cap Names = {} /\ Rounds \in Nat /\ MaxPid \in Nat
  BY SupervisorAssumption
<1>2. /\ Len(Services) \in Nat /\ DOMAIN Services = 1..Len(Services)
      /\ Len(Services) >= 1 /\ \A i \in 1..Len(Services) : Services[i] \in Names
  BY <1>1
<1>3. \A n \in Names : \E i \in 1..Len(Services) : Services[i] = n
  BY <1>2 DEF Names, ToSet
<1>4. NoPid \notin Pids
  BY <1>1 DEF Pids, NoPid
<1>5. IsFiniteSet(Pids)
  BY <1>1, FS_Interval DEF Pids
<1>6. Sup \notin Names /\ Nil \notin Names /\ Sup # Nil
  BY <1>1 DEF Sup, Nil
<1>7. QED
  BY <1>1, <1>2, <1>3, <1>4, <1>5, <1>6

(* One supervisor goes on and the others stay where they are.               *)
LEMMA GoesEffect ==
    ASSUME TypeOK, NEW p \in Pids, NEW x \in SupervisorState, Goes(p, x)
    PROVE  /\ sup' \in [Pids -> SupervisorState]
           /\ sup'[p] = x
           /\ \A q \in Pids : q # p => sup'[q] = sup[q]
  BY DEF Goes, TypeOK

LEMMA NewSupTyped ==
    /\ NewSup \in SupervisorState
    /\ NewSup.at = "begin" /\ NewSup.i = 1 /\ NewSup.pid = NoPid
    /\ ~NewSup.stopping /\ ~NewSup.term
  BY Constant DEF NewSup, SupervisorState, PidOrNone

LEMMA OnwardTyped ==
    ASSUME TypeOK, NEW p \in Pids, sup[p].i # 0
    PROVE  /\ Onward(p) \in SupervisorState
           /\ Onward(p).at \in {"top", "look"} /\ Onward(p).i # 0
           /\ Onward(p).stopping = sup[p].stopping /\ Onward(p).term = sup[p].term
           /\ Onward(p).back = sup[p].back
<1>1. sup[p] \in SupervisorState /\ NoPid \in PidOrNone
  BY DEF TypeOK, PidOrNone
<1>2. PICK x \in SupervisorState : x = sup[p]
  BY <1>1
<1>3. x.i \in 1..Len(Services)
  BY <1>2, Constant DEF SupervisorState
<1>4. CASE x.i = Len(Services)
  <2>1. Onward(p) = [x EXCEPT !.at = "top", !.i = 1, !.pid = NoPid]
    BY <1>2, <1>4 DEF Onward
  <2>2. 1 \in 0..Len(Services)
    BY Constant
  <2>3. Onward(p) \in SupervisorState
    BY <2>1, <2>2, <1>1 DEF SupervisorState
  <2>4. QED
    BY <2>1, <2>3, <1>2 DEF SupervisorState
<1>5. CASE x.i # Len(Services)
  <2>1. Onward(p) = [x EXCEPT !.at = "look", !.i = x.i + 1, !.pid = NoPid]
    BY <1>2, <1>5 DEF Onward
  <2>2. x.i + 1 \in 0..Len(Services) /\ x.i + 1 # 0
    BY <1>3, <1>5, Constant
  <2>3. QED
    BY <2>1, <2>2, <1>1, <1>2, ZenonT(60) DEF SupervisorState
<1>6. QED
  BY <1>4, <1>5

(* stop_all, called from back: the second time it does nothing.             *)
Called(p, back, x) ==
    /\ x.stopping /\ ~x.term /\ x.back \in Back
    /\ IF sup[p].stopping
       THEN x.at = back[1] /\ x.i = back[2] /\ x.pid = back[3] /\ x.back = sup[p].back
       ELSE x.at = "stop" /\ x.i = Len(Services) /\ x.pid = NoPid /\ x.back = back

LEMMA CallEffect ==
    ASSUME TypeOK, PlaceInv, NEW p \in Pids, NEW back \in Back, CallStopAll(p, back)
    PROVE  \E x \in SupervisorState : Goes(p, x) /\ Called(p, back, x)
<1>1. sup[p] \in SupervisorState /\ NoPid \in PidOrNone
  BY DEF TypeOK, PidOrNone
<1>2. PICK y \in SupervisorState : y = sup[p]
  BY <1>1
<1>3. /\ back[1] \in {"top", "look", "spawn", "write", "exit"}
      /\ back[2] \in 1..Len(Services) /\ back[3] \in PidOrNone
  BY DEF Back
<1>4. CASE y.stopping
  <2> DEFINE x == [y EXCEPT !.at = back[1], !.i = back[2], !.pid = back[3], !.term = FALSE]
  <2>1. Goes(p, x)
    BY <1>2, <1>4 DEF CallStopAll
  <2>2. y.back \in Back
    BY <1>2, <1>4 DEF PlaceInv
  <2>3. back[2] \in 0..Len(Services)
    BY <1>3, Constant
  <2>4. x \in SupervisorState
    BY <1>3, <2>3 DEF SupervisorState
  <2>5. Called(p, back, x)
    BY <1>2, <1>4, <2>2 DEF SupervisorState, Called
  <2>6. QED
    BY <2>1, <2>4, <2>5
<1>5. CASE ~y.stopping
  <2> DEFINE x == [y EXCEPT !.at = "stop", !.i = Len(Services), !.pid = NoPid,
                            !.stopping = TRUE, !.term = FALSE, !.back = back]
  <2>1. Goes(p, x)
    BY <1>2, <1>5 DEF CallStopAll
  <2>2. Len(Services) \in 0..Len(Services)
    BY Constant
  <2>3. x \in SupervisorState
    BY <1>1, <2>2 DEF SupervisorState
  <2>4. Called(p, back, x)
    BY <1>2, <1>5 DEF SupervisorState, Called
  <2>5. QED
    BY <2>1, <2>3, <2>4
<1>6. QED
  BY <1>4, <1>5

LEMMA SpawnEffect ==
    ASSUME TypeOK, NEW p \in FreePids, NEW n \in Names \cup {Sup}, Spawn(p, n)
    PROVE  /\ p \in Pids /\ proc[p] = Nil
           /\ proc' \in [Pids -> Names \cup {Sup, Nil}]
           /\ proc'[p] = n
           /\ \A q \in Pids : q # p => proc'[q] = proc[q]
           /\ last' \in Nat
<1>1. p \in Pids /\ proc[p] = Nil
  BY DEF FreePids
<1>2. p \in Nat
  BY <1>1, SupervisorAssumption DEF Pids
<1>3. QED
  BY <1>1, <1>2 DEF Spawn, TypeOK

LEMMA DeleteEffect ==
    ASSUME TypeOK, NEW n \in Names \cup {Sup}, Delete(n)
    PROVE  /\ file' \in [Names \cup {Sup} -> PidOrNone]
           /\ file'[n] = NoPid
           /\ \A m \in Names \cup {Sup} : m # n => file'[m] = file[m]
  BY DEF Delete, TypeOK, PidOrNone

LEMMA RunsFacts ==
    ASSUME TypeOK, NEW n \in Names \cup {Sup}
    PROVE  /\ file[n] \in PidOrNone
           /\ FileRuns(n) <=> file[n] \in Pids /\ proc[file[n]] # Nil
  BY Constant DEF FileRuns, Runs, TypeOK, PidOrNone

------------------------------------------------------------------------------
(* What each step of a supervisor does, in the shape the proofs use.        *)

Like(p, x) == /\ x.stopping = sup[p].stopping /\ x.term = sup[p].term
              /\ x.back = sup[p].back

FileSame == file' = file

FileDrops(n) == /\ file' \in [Names \cup {Sup} -> PidOrNone] /\ file'[n] = NoPid
                /\ \A m \in Names \cup {Sup} : m # n => file'[m] = file[m]

FileSets(n, q) == /\ file' \in [Names \cup {Sup} -> PidOrNone] /\ file'[n] = q
                  /\ \A m \in Names \cup {Sup} : m # n => file'[m] = file[m]

(* What a step of a supervisor leaves alone.                                *)
Apart == UNCHANGED <<stopFile, op, commands, faults, signalled>>

LEMMA ServiceTyped ==
    ASSUME ShapeInv, NEW p \in Pids, sup[p].i # 0
    PROVE  /\ sup[p] \in SupervisorState /\ sup[p].i \in 1..Len(Services)
           /\ Service(p) \in Names
<1>1. sup[p] \in SupervisorState
  BY DEF ShapeInv, TypeOK
<1>2. sup[p].i \in 1..Len(Services)
  BY <1>1, Constant DEF SupervisorState
<1>3. QED
  BY <1>1, <1>2, Constant DEF Service

LEMMA BeginEffect ==
    ASSUME ShapeInv, NEW p \in Pids, Begin(p)
    PROVE  \E x \in SupervisorState :
              /\ Goes(p, x) /\ Like(p, x) /\ x.at = "top" /\ x.i # 0
              /\ FileSets(Sup, p) /\ Apart /\ UNCHANGED <<proc, last>>
<1> DEFINE x == [sup[p] EXCEPT !.at = "top"]
<1>1. sup[p].i # 0
  BY DEF Begin, At, ShapeInv, PlaceInv
<1>2. sup[p] \in SupervisorState
  BY <1>1, ServiceTyped
<1>3. x \in SupervisorState /\ Like(p, x) /\ x.at = "top" /\ x.i # 0
  BY <1>1, <1>2 DEF SupervisorState, Like
<1>4. FileSets(Sup, p)
  BY DEF Begin, ShapeInv, TypeOK, PidOrNone, FileSets
<1>5. QED
  BY <1>3, <1>4 DEF Begin, Apart, counters

LEMMA TopEffect ==
    ASSUME ShapeInv, NEW p \in Pids, Top(p)
    PROVE  \E x \in SupervisorState :
              /\ Goes(p, x) /\ FileSame /\ Apart /\ UNCHANGED <<proc, last>>
              /\ IF stopFile THEN \E b \in Back : b[1] = "exit" /\ Called(p, b, x)
                 ELSE Like(p, x) /\ x.at = "look" /\ x.i = 1
<1>1. UNCHANGED <<proc, last>> /\ FileSame /\ Apart
  BY DEF Top, FileSame, Apart, counters
<1>2. CASE stopFile
  <2> DEFINE b == <<"exit", 1, NoPid>>
  <2>1. b \in Back /\ b[1] = "exit"
    BY Constant DEF Back, PidOrNone
  <2>2. CallStopAll(p, b)
    BY <1>2 DEF Top
  <2> HIDE DEF b
  <2>3. QED
    BY <1>1, <1>2, <2>1, <2>2, CallEffect DEF ShapeInv
<1>3. CASE ~stopFile
  <2> DEFINE x == [sup[p] EXCEPT !.at = "look", !.i = 1]
  <2>1. sup[p] \in SupervisorState /\ 1 \in 0..Len(Services)
    BY Constant DEF ShapeInv, TypeOK
  <2>2. x \in SupervisorState /\ Like(p, x) /\ x.at = "look" /\ x.i = 1
    BY <2>1 DEF SupervisorState, Like
  <2>3. Goes(p, x)
    BY <1>3 DEF Top
  <2>4. QED
    BY <1>1, <1>3, <2>2, <2>3
<1>4. QED
  BY <1>2, <1>3

LEMMA HandleTermEffect ==
    ASSUME ShapeInv, NEW p \in Pids, HandleTerm(p)
    PROVE  /\ sup[p].at \in {"top", "look", "spawn", "write"}
           /\ \E x \in SupervisorState, b \in Back :
              /\ Goes(p, x) /\ Called(p, b, x)
              /\ b = <<sup[p].at, sup[p].i, sup[p].pid>>
              /\ FileSame /\ Apart /\ UNCHANGED <<proc, last>>
<1> DEFINE b == <<sup[p].at, sup[p].i, sup[p].pid>>
<1>1. sup[p].at \in {"top", "look", "spawn", "write"} /\ sup[p].i # 0
  BY DEF HandleTerm, ShapeInv, PlaceInv
<1>2. sup[p].i \in 1..Len(Services) /\ sup[p].pid \in PidOrNone
  BY <1>1, ServiceTyped DEF SupervisorState
<1>3. b \in Back
  BY <1>1, <1>2 DEF Back
<1>4. CallStopAll(p, b)
  BY DEF HandleTerm
<1>5. UNCHANGED <<proc, last>> /\ FileSame /\ Apart
  BY DEF HandleTerm, FileSame, Apart, counters
<1> HIDE DEF b
<1>6. PICK x \in SupervisorState : Goes(p, x) /\ Called(p, b, x)
  BY <1>3, <1>4, CallEffect DEF ShapeInv
<1>7. QED
  BY <1>1, <1>3, <1>5, <1>6 DEF b

LEMMA LookEffect ==
    ASSUME ShapeInv, NEW p \in Pids, Look(p)
    PROVE  /\ Service(p) \in Names
           /\ \E x \in SupervisorState :
              /\ Goes(p, x) /\ Like(p, x) /\ x.i # 0
              /\ Apart /\ UNCHANGED <<proc, last>>
              /\ FileSame \/ (FileDrops(Service(p)) /\ ~FileRuns(Service(p)))
              /\ \/ x.at \in {"top", "look"}
                 \/ x.at = "spawn" /\ x.i = sup[p].i /\ ~FileRuns(Service(p))
<1>1. sup[p].i # 0
  BY DEF Look, At, ShapeInv, PlaceInv
<1>2. sup[p] \in SupervisorState /\ Service(p) \in Names /\ TypeOK
  BY <1>1, ServiceTyped DEF ShapeInv
<1>3. Apart /\ UNCHANGED <<proc, last>>
  BY DEF Look, Apart, counters
<1>4. CASE FileRuns(Service(p))
  BY <1>1, <1>2, <1>3, <1>4, OnwardTyped DEF Look, Like, FileSame
<1>5. CASE ~FileRuns(Service(p))
  <2>1. FileDrops(Service(p))
    BY <1>2, <1>5, DeleteEffect DEF Look, FileDrops
  <2>2. CASE PortTaken(Service(p))
    BY <1>1, <1>2, <1>3, <1>5, <2>1, <2>2, OnwardTyped DEF Look, Like
  <2>3. CASE ~PortTaken(Service(p))
    <3> DEFINE x == [sup[p] EXCEPT !.at = "spawn"]
    <3>1. x \in SupervisorState /\ Like(p, x) /\ x.at = "spawn" /\ x.i = sup[p].i
      BY <1>2 DEF SupervisorState, Like
    <3>2. Goes(p, x)
      BY <1>5, <2>3 DEF Look
    <3>3. QED
      BY <1>1, <1>2, <1>3, <1>5, <2>1, <3>1, <3>2
  <2>4. QED
    BY <2>2, <2>3
<1>6. QED
  BY <1>4, <1>5

LEMMA StartServiceEffect ==
    ASSUME ShapeInv, NEW p \in Pids, StartService(p)
    PROVE  /\ Service(p) \in Names
           /\ \E x \in SupervisorState, c \in Pids :
              /\ Goes(p, x) /\ Like(p, x) /\ x.at = "write" /\ x.i = sup[p].i /\ x.i # 0
              /\ x.pid = c /\ proc[c] = Nil
              /\ proc' \in [Pids -> Names \cup {Sup, Nil}] /\ proc'[c] = Service(p)
              /\ \A q \in Pids : q # c => proc'[q] = proc[q]
              /\ last' \in Nat /\ FileSame /\ Apart
<1>1. sup[p].i # 0
  BY DEF StartService, At, ShapeInv, PlaceInv
<1>2. sup[p] \in SupervisorState /\ Service(p) \in Names /\ TypeOK
  BY <1>1, ServiceTyped DEF ShapeInv
<1>3. PICK c \in FreePids : /\ Spawn(c, Service(p))
                            /\ Goes(p, [sup[p] EXCEPT !.at = "write", !.pid = c])
  BY DEF StartService
<1>4. /\ c \in Pids /\ proc[c] = Nil
      /\ proc' \in [Pids -> Names \cup {Sup, Nil}] /\ proc'[c] = Service(p)
      /\ \A q \in Pids : q # c => proc'[q] = proc[q]
      /\ last' \in Nat
  BY <1>2, <1>3, SpawnEffect
<1> DEFINE x == [sup[p] EXCEPT !.at = "write", !.pid = c]
<1>5. /\ x \in SupervisorState /\ Like(p, x) /\ x.at = "write" /\ x.i = sup[p].i
      /\ x.pid = c
  BY <1>2, <1>4 DEF SupervisorState, Like, PidOrNone
<1>6. Apart /\ FileSame
  BY DEF StartService, Apart, FileSame, counters
<1>7. QED
  BY <1>1, <1>2, <1>3, <1>4, <1>5, <1>6

LEMMA WritePidEffect ==
    ASSUME ShapeInv, NEW p \in Pids, WritePid(p)
    PROVE  /\ Service(p) \in Names
           /\ \E x \in SupervisorState :
              /\ Goes(p, x) /\ Like(p, x) /\ x.at \in {"top", "look"} /\ x.i # 0
              /\ FileSets(Service(p), sup[p].pid) /\ Apart /\ UNCHANGED <<proc, last>>
<1>1. sup[p].i # 0
  BY DEF WritePid, At, ShapeInv, PlaceInv
<1>2. sup[p] \in SupervisorState /\ Service(p) \in Names /\ TypeOK
  BY <1>1, ServiceTyped DEF ShapeInv
<1>3. sup[p].pid \in PidOrNone
  BY <1>2 DEF SupervisorState
<1>4. FileSets(Service(p), sup[p].pid)
  BY <1>2, <1>3 DEF WritePid, TypeOK, FileSets
<1>5. Apart /\ UNCHANGED <<proc, last>>
  BY DEF WritePid, Apart, counters
<1>6. QED
  BY <1>1, <1>2, <1>4, <1>5, OnwardTyped DEF WritePid, Like

LEMMA StopServiceEffect ==
    ASSUME ShapeInv, NEW p \in Pids, StopService(p)
    PROVE  /\ Service(p) \in Names /\ sup[p].at = "stop" /\ sup[p].pid = NoPid
           /\ \E x \in SupervisorState :
              /\ Goes(p, x) /\ Like(p, x) /\ x.at = "stop"
              /\ Apart /\ UNCHANGED <<proc, last>>
              /\ \/ /\ FileSame /\ x.i = sup[p].i /\ x.pid = file[Service(p)]
                 \/ /\ FileDrops(Service(p)) /\ ~FileRuns(Service(p)) /\ x.pid = NoPid
<1>1. sup[p].i # 0 /\ sup[p].at = "stop" /\ sup[p].pid = NoPid
  BY DEF StopService, At
<1>2. /\ sup[p] \in SupervisorState /\ sup[p].i \in 1..Len(Services)
      /\ Service(p) \in Names /\ TypeOK
  BY <1>1, ServiceTyped DEF ShapeInv
<1>3. Apart /\ UNCHANGED <<proc, last>>
  BY DEF StopService, Apart, counters
<1>4. CASE FileRuns(Service(p))
  <2> DEFINE x == [sup[p] EXCEPT !.pid = file[Service(p)]]
  <2>1. file[Service(p)] \in PidOrNone
    BY <1>2, RunsFacts
  <2>2. /\ x \in SupervisorState /\ Like(p, x) /\ x.at = sup[p].at /\ x.i = sup[p].i
        /\ x.pid = file[Service(p)]
    BY <1>2, <2>1 DEF SupervisorState, Like
  <2>3. Goes(p, x) /\ FileSame
    BY <1>4 DEF StopService, FileSame
  <2>4. QED
    BY <1>1, <1>2, <1>3, <2>2, <2>3
<1>5. CASE ~FileRuns(Service(p))
  <2> DEFINE x == [sup[p] EXCEPT !.i = sup[p].i - 1]
  <2>1. sup[p].i - 1 \in 0..Len(Services)
    BY <1>2, Constant
  <2>2. x \in SupervisorState /\ Like(p, x) /\ x.at = sup[p].at /\ x.pid = sup[p].pid
    BY <1>2, <2>1 DEF SupervisorState, Like
  <2>3. Goes(p, x) /\ Delete(Service(p))
    BY <1>5 DEF StopService
  <2>4. FileDrops(Service(p))
    BY <1>2, <2>3, DeleteEffect DEF FileDrops
  <2>5. QED
    BY <1>1, <1>2, <1>3, <1>5, <2>2, <2>3, <2>4
<1>6. QED
  BY <1>4, <1>5

LEMMA StoppedServiceEffect ==
    ASSUME ShapeInv, NEW p \in Pids, StoppedService(p)
    PROVE  /\ Service(p) \in Names /\ sup[p].at = "stop"
           /\ sup[p].i > 0 /\ sup[p].pid # NoPid /\ sup[p].pid \in Pids
           /\ proc' \in [Pids -> Names \cup {Sup, Nil}]
           /\ proc'[sup[p].pid] = Nil
           /\ \A q \in Pids : q # sup[p].pid => proc'[q] = proc[q]
           /\ \E x \in SupervisorState :
              /\ Goes(p, x) /\ Like(p, x) /\ x.at = "stop" /\ x.pid = NoPid
              /\ FileDrops(Service(p)) /\ Apart /\ last' = last
<1>1. sup[p].i # 0 /\ sup[p].i > 0 /\ sup[p].at = "stop" /\ sup[p].pid # NoPid
  BY DEF StoppedService, At
<1>2. /\ sup[p] \in SupervisorState /\ sup[p].i \in 1..Len(Services)
      /\ Service(p) \in Names /\ TypeOK
  BY <1>1, ServiceTyped DEF ShapeInv
<1>3. sup[p].pid \in Pids
  BY <1>1, <1>2 DEF SupervisorState, PidOrNone
<1>4. /\ proc' \in [Pids -> Names \cup {Sup, Nil}]
      /\ proc'[sup[p].pid] = Nil
      /\ \A q \in Pids : q # sup[p].pid => proc'[q] = proc[q]
  BY <1>2, <1>3 DEF StoppedService, TypeOK
<1> DEFINE x == [sup[p] EXCEPT !.i = sup[p].i - 1, !.pid = NoPid]
<1>5. sup[p].i - 1 \in 0..Len(Services) /\ NoPid \in PidOrNone
  BY <1>2, Constant DEF PidOrNone
<1>6. x \in SupervisorState /\ Like(p, x) /\ x.at = sup[p].at /\ x.pid = NoPid
  BY <1>2, <1>5 DEF SupervisorState, Like
<1>7. Goes(p, x) /\ Delete(Service(p)) /\ Apart /\ last' = last
  BY DEF StoppedService, Apart, counters
<1>8. FileDrops(Service(p))
  BY <1>2, <1>7, DeleteEffect DEF FileDrops
<1>9. QED
  BY <1>1, <1>2, <1>3, <1>4, <1>6, <1>7, <1>8

LEMMA StopAllReturnsEffect ==
    ASSUME ShapeInv, NEW p \in Pids, StopAllReturns(p)
    PROVE  /\ sup[p].at = "stop" /\ sup[p].stopping /\ sup[p].back \in Back
           /\ \E x \in SupervisorState :
              /\ Goes(p, x) /\ Like(p, x) /\ x.at = sup[p].back[1]
              /\ x.i = sup[p].back[2] /\ x.i # 0 /\ x.pid = sup[p].back[3]
              /\ FileDrops(Sup) /\ Apart /\ UNCHANGED <<proc, last>>
<1>1. sup[p].at = "stop" /\ sup[p].stopping /\ sup[p].back \in Back
  BY DEF StopAllReturns, At, ShapeInv, PlaceInv
<1>2. sup[p] \in SupervisorState /\ TypeOK
  BY DEF ShapeInv, TypeOK
<1>3. PICK b \in Back : b = sup[p].back
  BY <1>1
<1>4. /\ b[1] \in {"top", "look", "spawn", "write", "exit"}
      /\ b[2] \in 1..Len(Services) /\ b[3] \in PidOrNone
  BY DEF Back
<1>5. b[2] \in 0..Len(Services) /\ b[2] # 0
  BY <1>4, Constant
<1> DEFINE x == [sup[p] EXCEPT !.at = b[1], !.i = b[2], !.pid = b[3]]
<1>6. /\ x \in SupervisorState /\ Like(p, x)
      /\ x.at = b[1] /\ x.i = b[2] /\ x.pid = b[3]
  BY <1>2, <1>4, <1>5 DEF SupervisorState, Like
<1>7. Goes(p, x) /\ Delete(Sup) /\ Apart /\ UNCHANGED <<proc, last>>
  BY <1>3 DEF StopAllReturns, Apart, counters
<1>8. FileDrops(Sup)
  BY <1>2, <1>7, DeleteEffect DEF FileDrops
<1>9. QED
  BY <1>1, <1>3, <1>5, <1>6, <1>7, <1>8

LEMMA ExitEffect ==
    ASSUME ShapeInv, NEW p \in Pids, Exit(p)
    PROVE  /\ sup[p].at = "exit"
           /\ proc' \in [Pids -> Names \cup {Sup, Nil}] /\ proc'[p] = Nil
           /\ \A q \in Pids : q # p => proc'[q] = proc[q]
           /\ Goes(p, NewSup) /\ FileSame /\ Apart /\ last' = last
  BY DEF Exit, At, ShapeInv, TypeOK, FileSame, Apart, counters

------------------------------------------------------------------------------
(* The shape.                                                               *)

LEMMA ShapeInit == Init => ShapeInv
<1> SUFFICES ASSUME Init
             PROVE  ShapeInv
  OBVIOUS
<1>1. NewSup \in SupervisorState /\ \A p \in Pids : sup[p] = NewSup
  BY NewSupTyped DEF Init
<1>2. op \in OperatorState /\ op.at = "idle"
  BY Constant DEF Init, Idle, OperatorState, PidOrNone
<1>3. TypeOK
  BY <1>1, <1>2 DEF Init, TypeOK, PidOrNone
<1>4. PlaceInv
  BY <1>1, NewSupTyped DEF PlaceInv
<1>5. RoundInv
  BY <1>2 DEF RoundInv
<1>6. QED
  BY <1>3, <1>4, <1>5 DEF ShapeInv

(* A supervisor goes on, and the operator's script does not.                *)
LEMMA ShapeGoes ==
    ASSUME ShapeInv, NEW p \in Pids, NEW x \in SupervisorState, Goes(p, x), Apart,
           x.stopping => x.back \in Back,
           x.at \in {"stop", "exit"} => x.stopping,
           x.at # "stop" => x.i # 0,
           proc' \in [Pids -> Names \cup {Sup, Nil}], last' \in Nat,
           file' \in [Names \cup {Sup} -> PidOrNone]
    PROVE  ShapeInv'
<1>1. /\ sup' \in [Pids -> SupervisorState] /\ sup'[p] = x
      /\ \A q \in Pids : q # p => sup'[q] = sup[q]
  BY GoesEffect DEF ShapeInv
<1>2. TypeOK'
  BY <1>1 DEF ShapeInv, TypeOK, Apart
<1>3. PlaceInv'
  BY <1>1 DEF ShapeInv, PlaceInv
<1>4. RoundInv'
  BY DEF ShapeInv, RoundInv, Apart
<1>5. QED
  BY <1>2, <1>3, <1>4 DEF ShapeInv

LEMMA ShapeSupervisor ==
    ASSUME ShapeInv, NEW p \in Pids, SupervisorStep(p)
    PROVE  ShapeInv'
<1> USE DEF Like, FileSame, FileSets, FileDrops
<1>1. /\ proc \in [Pids -> Names \cup {Sup, Nil}] /\ last \in Nat
      /\ file \in [Names \cup {Sup} -> PidOrNone]
      /\ sup[p].stopping => sup[p].back \in Back
      /\ sup[p].at \in {"stop", "exit"} => sup[p].stopping
      /\ sup[p].at # "stop" => sup[p].i # 0
  BY DEF ShapeInv, TypeOK, PlaceInv
<1>2. CASE Begin(p)
  <2>1. PICK x \in SupervisorState :
           /\ Goes(p, x) /\ Like(p, x) /\ x.at = "top" /\ x.i # 0
           /\ FileSets(Sup, p) /\ Apart /\ UNCHANGED <<proc, last>>
    BY <1>2, BeginEffect
  <2>2. QED
    BY <1>1, <2>1, ShapeGoes
<1>called. ASSUME NEW x \in SupervisorState, NEW b \in Back, Called(p, b, x)
           PROVE  /\ x.stopping => x.back \in Back
                  /\ x.at \in {"stop", "exit"} => x.stopping
                  /\ x.at # "stop" => x.i # 0
  <2>1. b[2] \in 1..Len(Services) /\ b[2] # 0
    BY Constant DEF Back
  <2>2. QED
    BY <1>called, <2>1, Constant DEF Called
<1>3. CASE Top(p)
  <2>1. PICK x \in SupervisorState :
           /\ Goes(p, x) /\ FileSame /\ Apart /\ UNCHANGED <<proc, last>>
           /\ IF stopFile THEN \E b \in Back : b[1] = "exit" /\ Called(p, b, x)
              ELSE Like(p, x) /\ x.at = "look" /\ x.i = 1
    BY <1>3, TopEffect
  <2>2. /\ x.stopping => x.back \in Back
        /\ x.at \in {"stop", "exit"} => x.stopping
        /\ x.at # "stop" => x.i # 0
    BY <1>1, <1>called, <2>1
  <2>3. QED
    BY <1>1, <2>1, <2>2, ShapeGoes
<1>4. CASE HandleTerm(p)
  <2>1. PICK x \in SupervisorState, b \in Back :
           /\ Goes(p, x) /\ Called(p, b, x)
           /\ FileSame /\ Apart /\ UNCHANGED <<proc, last>>
    BY <1>4, HandleTermEffect
  <2>2. QED
    BY <1>1, <1>called, <2>1, ShapeGoes
<1>5. CASE Look(p)
  <2>1. PICK x \in SupervisorState :
           /\ Goes(p, x) /\ Like(p, x) /\ x.i # 0 /\ Apart /\ UNCHANGED <<proc, last>>
           /\ FileSame \/ FileDrops(Service(p))
           /\ x.at \in {"top", "look", "spawn"}
    BY <1>5, LookEffect
  <2>2. QED
    BY <1>1, <2>1, ShapeGoes
<1>6. CASE StartService(p)
  <2>1. PICK x \in SupervisorState :
           /\ Goes(p, x) /\ Like(p, x) /\ x.at = "write" /\ x.i # 0
           /\ proc' \in [Pids -> Names \cup {Sup, Nil}]
           /\ last' \in Nat /\ FileSame /\ Apart
    BY <1>6, StartServiceEffect
  <2>2. QED
    BY <1>1, <2>1, ShapeGoes
<1>7. CASE WritePid(p)
  <2>1. PICK x \in SupervisorState :
           /\ Goes(p, x) /\ Like(p, x) /\ x.at \in {"top", "look"} /\ x.i # 0
           /\ FileSets(Service(p), sup[p].pid) /\ Apart /\ UNCHANGED <<proc, last>>
    BY <1>7, WritePidEffect
  <2>2. QED
    BY <1>1, <2>1, ShapeGoes
<1>8. CASE StopService(p)
  <2>1. sup[p].at = "stop"
    BY <1>8, StopServiceEffect
  <2>2. PICK x \in SupervisorState :
           /\ Goes(p, x) /\ Like(p, x) /\ x.at = "stop"
           /\ Apart /\ UNCHANGED <<proc, last>> /\ (FileSame \/ FileDrops(Service(p)))
    BY <1>8, StopServiceEffect
  <2>3. QED
    BY <1>1, <2>1, <2>2, ShapeGoes
<1>9. CASE StoppedService(p)
  <2>1. sup[p].at = "stop" /\ proc' \in [Pids -> Names \cup {Sup, Nil}]
    BY <1>9, StoppedServiceEffect
  <2>2. PICK x \in SupervisorState :
           /\ Goes(p, x) /\ Like(p, x) /\ x.at = "stop"
           /\ FileDrops(Service(p)) /\ Apart /\ last' = last
    BY <1>9, StoppedServiceEffect
  <2>3. QED
    BY <1>1, <2>1, <2>2, ShapeGoes
<1>10. CASE StopAllReturns(p)
  <2>1. sup[p].at = "stop" /\ sup[p].stopping /\ sup[p].back \in Back
    BY <1>10, StopAllReturnsEffect
  <2>2. PICK x \in SupervisorState :
           /\ Goes(p, x) /\ Like(p, x) /\ x.i # 0
           /\ FileDrops(Sup) /\ Apart /\ UNCHANGED <<proc, last>>
    BY <1>10, StopAllReturnsEffect
  <2>3. QED
    BY <1>1, <2>1, <2>2, ShapeGoes
<1>11. CASE Exit(p)
  <2>1. /\ proc' \in [Pids -> Names \cup {Sup, Nil}]
        /\ Goes(p, NewSup) /\ FileSame /\ Apart /\ last' = last
    BY <1>11, ExitEffect
  <2>2. QED
    BY <1>1, <2>1, NewSupTyped, ShapeGoes
<1>12. QED
  BY <1>2, <1>3, <1>4, <1>5, <1>6, <1>7, <1>8, <1>9, <1>10, <1>11 DEF SupervisorStep

------------------------------------------------------------------------------
(* What each step of the operator's scripts does.                           *)

Steady == UNCHANGED <<last, faults, signalled>>

LEMMA IdleTyped ==
    /\ Idle \in OperatorState
    /\ Idle.at = "idle" /\ Idle.pid = NoPid
  BY Constant DEF Idle, OperatorState, PidOrNone

LEMMA StartEffect ==
    ASSUME ShapeInv, Start
    PROVE  /\ op.at = "idle" /\ ~stopFile' /\ stopFile' \in BOOLEAN
           /\ commands' \in Nat /\ Steady /\ UNCHANGED <<proc, sup>>
           /\ \/ FileRuns(Sup) /\ FileSame /\ op' = op
              \/ /\ ~FileRuns(Sup) /\ FileDrops(Sup) /\ op' \in OperatorState
                 /\ op'.at \in {"idle", "spawn"}
<1>1. op.at = "idle" /\ TypeOK
  BY IdleTyped DEF Start, ShapeInv
<1>2. ~stopFile' /\ stopFile' \in BOOLEAN /\ commands' \in Nat
  <2>1. stopFile' = FALSE /\ commands' = commands + 1
    BY DEF Start
  <2>2. commands' \in Nat
    BY <1>1, <2>1 DEF TypeOK
  <2>3. ~stopFile' /\ stopFile' \in BOOLEAN
    BY <2>1
  <2>4. QED
    BY <2>2, <2>3
<1>3. Steady /\ UNCHANGED <<proc, sup>>
  BY DEF Start, Steady
<1>4. CASE FileRuns(Sup)
  BY <1>1, <1>2, <1>3, <1>4 DEF Start, FileSame
<1>5. CASE ~FileRuns(Sup)
  <2>1. FileDrops(Sup)
    BY <1>1, <1>5, DeleteEffect DEF Start, FileDrops
  <2>2. op' = Idle \/ op' = [Idle EXCEPT !.at = "spawn"]
    BY <1>5 DEF Start
  <2>3. op' \in OperatorState /\ op'.at \in {"idle", "spawn"}
    BY <2>2, IdleTyped DEF OperatorState
  <2>4. QED
    BY <1>1, <1>2, <1>3, <1>5, <2>1, <2>3
<1>6. QED
  BY <1>4, <1>5

LEMMA StartSupervisorEffect ==
    ASSUME ShapeInv, StartSupervisor
    PROVE  /\ op.at = "spawn" /\ FileSame /\ UNCHANGED <<stopFile, counters>>
           /\ last' \in Nat /\ proc' \in [Pids -> Names \cup {Sup, Nil}]
           /\ op' \in OperatorState /\ op'.at = "write"
           /\ \E p \in Pids :
              /\ op'.pid = p /\ proc[p] = Nil /\ proc'[p] = Sup
              /\ \A q \in Pids : q # p => proc'[q] = proc[q]
              /\ sup' = [sup EXCEPT ![p] = NewSup]
<1>1. PICK p \in FreePids : /\ Spawn(p, Sup) /\ sup' = [sup EXCEPT ![p] = NewSup]
                            /\ op' = [op EXCEPT !.at = "write", !.pid = p]
  BY DEF StartSupervisor
<1>2. /\ p \in Pids /\ proc[p] = Nil
      /\ proc' \in [Pids -> Names \cup {Sup, Nil}] /\ proc'[p] = Sup
      /\ \A q \in Pids : q # p => proc'[q] = proc[q]
      /\ last' \in Nat
  BY <1>1, SpawnEffect DEF ShapeInv
<1>3. op' \in OperatorState /\ op'.at = "write" /\ op'.pid = p
  BY <1>1, <1>2 DEF OperatorState, ShapeInv, TypeOK, PidOrNone
<1>4. QED
  BY <1>1, <1>2, <1>3 DEF StartSupervisor, FileSame

LEMMA WriteSupervisorPidEffect ==
    ASSUME ShapeInv, WriteSupervisorPid
    PROVE  /\ op.at = "write" /\ op.pid \in Pids /\ FileSets(Sup, op.pid) /\ op' = Idle
           /\ UNCHANGED <<proc, last, stopFile, sup, counters>>
  BY DEF WriteSupervisorPid, ShapeInv, TypeOK, RoundInv, FileSets, PidOrNone

LEMMA StopEffect ==
    ASSUME ShapeInv, Stop
    PROVE  /\ op.at = "idle" /\ stopFile' /\ stopFile' \in BOOLEAN
           /\ commands' \in Nat /\ Steady /\ UNCHANGED <<proc, sup>> /\ FileSame
           /\ op' \in OperatorState /\ op'.at = "files" /\ op'.pid = NoPid
           /\ op'.i = Len(Services) + 1
<1>1. op.at = "idle" /\ TypeOK
  BY IdleTyped DEF Stop, ShapeInv
<1>2. Len(Services) + 1 \in 0..Len(Services) + 1
  BY Constant
<1>3. op' = [Idle EXCEPT !.at = "files", !.i = Len(Services) + 1]
  BY DEF Stop
<1>4. /\ op' \in OperatorState /\ op'.at = "files" /\ op'.pid = NoPid
      /\ op'.i = Len(Services) + 1
  BY <1>2, <1>3, IdleTyped DEF OperatorState
<1>5. QED
  BY <1>1, <1>4 DEF Stop, Steady, FileSame, TypeOK

LEMMA TargetTyped ==
    ASSUME ShapeInv, op.i > 0
    PROVE  /\ Target \in Names \cup {Sup}
           /\ op.i > Len(Services) => Target = Sup
           /\ op.i <= Len(Services) => Target \in Names
           /\ op.i \in 1..Len(Services) + 1 /\ op.i - 1 \in 0..Len(Services)
<1>1. op.i \in 0..Len(Services) + 1
  BY DEF ShapeInv, TypeOK, OperatorState
<1>2. op.i \in 1..Len(Services) + 1 /\ op.i - 1 \in 0..Len(Services)
  BY <1>1, Constant
<1>3. op.i <= Len(Services) => op.i \in 1..Len(Services)
  BY <1>2, Constant
<1>4. QED
  BY <1>2, <1>3, Constant DEF Target

(* A supervisor is told to end, or moves on by itself: its place is kept.   *)
Terms(p) == sup'[p] = [sup[p] EXCEPT !.term = TRUE]

LEMMA StopByFileEffect ==
    ASSUME ShapeInv, StopByFile
    PROVE  /\ op.at = "files" /\ op.i > 0 /\ op.pid = NoPid
           /\ UNCHANGED <<proc, last, stopFile, counters>>
           /\ op' \in OperatorState /\ op'.at = "files"
           /\ \/ /\ FileRuns(Target) /\ FileSame
                 /\ op'.i = op.i /\ op'.pid = file[Target] /\ op'.pid \in Pids
                 /\ sup' \in [Pids -> SupervisorState]
                 /\ \A q \in Pids : sup'[q] = sup[q] \/ Terms(q)
              \/ /\ ~FileRuns(Target) /\ FileDrops(Target)
                 /\ op'.i = op.i - 1 /\ op'.pid = NoPid /\ sup' = sup
<1>1. /\ op.at = "files" /\ op.i > 0 /\ op.pid = NoPid
      /\ UNCHANGED <<proc, last, stopFile, counters>>
  BY DEF StopByFile
<1>2. /\ Target \in Names \cup {Sup} /\ op.i - 1 \in 0..Len(Services)
      /\ op \in OperatorState /\ TypeOK
  BY <1>1, TargetTyped DEF ShapeInv, TypeOK
<1>3. CASE FileRuns(Target)
  <2>1. file[Target] \in Pids
    BY <1>2, <1>3, RunsFacts
  <2>2. op' = [op EXCEPT !.pid = file[Target]] /\ FileSame
    BY <1>3 DEF StopByFile, FileSame
  <2>3. /\ op' \in OperatorState /\ op'.at = op.at /\ op'.i = op.i
        /\ op'.pid = file[Target]
    BY <1>2, <2>1, <2>2 DEF OperatorState, PidOrNone
  <2>4. sup' = sup \/ sup' = [sup EXCEPT ![file[Target]].term = TRUE]
    BY <1>3 DEF StopByFile
  <2>5. PICK f \in Pids : f = file[Target]
    BY <2>1
  <2>6. sup' = sup \/ sup' = [sup EXCEPT ![f] = [sup[f] EXCEPT !.term = TRUE]]
    BY <2>4, <2>5
  <2>7. [sup[f] EXCEPT !.term = TRUE] \in SupervisorState
    BY <1>2 DEF TypeOK, SupervisorState
  <2>8. sup' \in [Pids -> SupervisorState] /\ \A q \in Pids : sup'[q] = sup[q] \/ Terms(q)
    BY <1>2, <2>6, <2>7 DEF TypeOK, Terms
  <2>9. QED
    BY <1>1, <1>3, <2>1, <2>2, <2>3, <2>8
<1>4. CASE ~FileRuns(Target)
  <2>1. op' = [op EXCEPT !.i = op.i - 1] /\ Delete(Target) /\ sup' = sup
    BY <1>4 DEF StopByFile
  <2>2. FileDrops(Target)
    BY <1>2, <2>1, DeleteEffect DEF FileDrops
  <2>3. op.i - 1 \in 0..Len(Services) + 1
    BY <1>2, Constant
  <2>4. op' \in OperatorState /\ op'.at = op.at /\ op'.i = op.i - 1 /\ op'.pid = op.pid
    BY <1>2, <2>1, <2>3 DEF OperatorState
  <2>5. QED
    BY <1>1, <1>4, <2>1, <2>2, <2>4
<1>5. QED
  BY <1>3, <1>4

LEMMA StoppedByFileEffect ==
    ASSUME ShapeInv, StoppedByFile
    PROVE  /\ op.at = "files" /\ op.i > 0 /\ op.pid \in Pids
           /\ UNCHANGED <<last, stopFile, counters>>
           /\ proc' \in [Pids -> Names \cup {Sup, Nil}] /\ proc'[op.pid] = Nil
           /\ \A q \in Pids : q # op.pid => proc'[q] = proc[q]
           /\ FileDrops(Target) /\ sup' = [sup EXCEPT ![op.pid] = NewSup]
           /\ op' \in OperatorState /\ op'.at = "files"
           /\ op'.i = op.i - 1 /\ op'.pid = NoPid
<1>1. /\ op.at = "files" /\ op.i > 0 /\ op.pid # NoPid
      /\ UNCHANGED <<last, stopFile, counters>>
      /\ sup' = [sup EXCEPT ![op.pid] = NewSup]
  BY DEF StoppedByFile
<1>2. /\ Target \in Names \cup {Sup} /\ op.i - 1 \in 0..Len(Services)
      /\ op \in OperatorState /\ TypeOK
  BY <1>1, TargetTyped DEF ShapeInv, TypeOK
<1>3. op.pid \in Pids
  BY <1>1, <1>2 DEF OperatorState, PidOrNone
<1>4. /\ proc' \in [Pids -> Names \cup {Sup, Nil}] /\ proc'[op.pid] = Nil
      /\ \A q \in Pids : q # op.pid => proc'[q] = proc[q]
  BY <1>2, <1>3 DEF StoppedByFile, TypeOK
<1>5. FileDrops(Target)
  BY <1>2, DeleteEffect DEF StoppedByFile, FileDrops
<1>6. op.i - 1 \in 0..Len(Services) + 1 /\ NoPid \in PidOrNone
  BY <1>2, Constant DEF PidOrNone
<1>7. op' = [op EXCEPT !.i = op.i - 1, !.pid = NoPid]
  BY DEF StoppedByFile
<1>8. op' \in OperatorState /\ op'.at = op.at /\ op'.i = op.i - 1 /\ op'.pid = NoPid
  BY <1>2, <1>6, <1>7 DEF OperatorState
<1>9. QED
  BY <1>1, <1>3, <1>4, <1>5, <1>8

LEMMA LookForOrphansEffect ==
    ASSUME ShapeInv, LookForOrphans
    PROVE  /\ op.at = "files" /\ op.i = 0
           /\ UNCHANGED <<proc, last, file, stopFile, sup, counters>>
           /\ op' \in OperatorState
           /\ \/ Rounds = 0 /\ op'.at = "clean"
              \/ op'.at = "orphans" /\ op'.round = 1 /\ op'.i = Len(Services)
<1>1. CASE Rounds = 0
  <2>1. op' = [Idle EXCEPT !.at = "clean"]
    BY <1>1 DEF LookForOrphans, OrphanRounds
  <2>2. op' \in OperatorState /\ op'.at = "clean"
    BY <2>1, IdleTyped DEF OperatorState
  <2>3. QED
    BY <1>1, <2>2 DEF LookForOrphans
<1>2. CASE Rounds # 0
  <2>1. op' = [Idle EXCEPT !.at = "orphans", !.i = Len(Services), !.round = 1]
    BY <1>2 DEF LookForOrphans, OrphanRounds
  <2>2. Len(Services) \in 0..Len(Services) + 1 /\ 1 \in 0..Rounds
    BY <1>2, Constant
  <2>3. /\ op' \in OperatorState /\ op'.at = "orphans" /\ op'.round = 1
        /\ op'.i = Len(Services)
    BY <2>1, <2>2, IdleTyped DEF OperatorState
  <2>4. QED
    BY <2>3 DEF LookForOrphans
<1>3. QED
  BY <1>1, <1>2

LEMMA StopOrphansEffect ==
    ASSUME ShapeInv, StopOrphans
    PROVE  /\ op.at = "orphans" /\ op.i \in 1..Len(Services)
           /\ UNCHANGED <<last, file, stopFile, sup, counters>>
           /\ proc' \in [Pids -> Names \cup {Sup, Nil}]
           /\ \A q \in Pids : /\ proc'[q] # Services[op.i]
                              /\ proc'[q] = proc[q] \/ proc'[q] = Nil
                              /\ proc[q] = Sup => proc'[q] = Sup
           /\ op' \in OperatorState /\ op'.at = "orphans" /\ op'.i = op.i - 1
           /\ op'.round = op.round
<1>1. op.at = "orphans" /\ op.i > 0
  BY DEF StopOrphans
<1>2. op.i \in 1..Len(Services) + 1 /\ op.i <= Len(Services)
  BY <1>1, TargetTyped DEF ShapeInv, RoundInv
<1>3. op.i \in 1..Len(Services) /\ op.i - 1 \in 0..Len(Services) + 1
  BY <1>2, Constant
<1>4. Services[op.i] \in Names /\ Sup \notin Names /\ Nil \notin Names
  BY <1>3, Constant
<1>5. proc' = [q \in Pids |-> IF proc[q] = Services[op.i] THEN Nil ELSE proc[q]]
  BY DEF StopOrphans
<1>6. /\ proc' \in [Pids -> Names \cup {Sup, Nil}]
      /\ \A q \in Pids : /\ proc'[q] # Services[op.i]
                         /\ proc'[q] = proc[q] \/ proc'[q] = Nil
                         /\ proc[q] = Sup => proc'[q] = Sup
  BY <1>4, <1>5 DEF ShapeInv, TypeOK
<1>7. op' = [op EXCEPT !.i = op.i - 1] /\ op \in OperatorState
  BY DEF StopOrphans, ShapeInv, TypeOK
<1>8. /\ op' \in OperatorState /\ op'.at = op.at /\ op'.i = op.i - 1
      /\ op'.round = op.round
  BY <1>3, <1>7 DEF OperatorState
<1>9. QED
  BY <1>1, <1>3, <1>6, <1>8 DEF StopOrphans

LEMMA TermSupervisorsEffect ==
    ASSUME ShapeInv, TermSupervisors
    PROVE  /\ op.at = "orphans" /\ op.i = 0
           /\ UNCHANGED <<proc, last, file, stopFile, counters>>
           /\ sup' \in [Pids -> SupervisorState]
           /\ \A q \in Pids : sup'[q] = sup[q] \/ Terms(q)
           /\ op' \in OperatorState /\ op'.at = "supervisors" /\ op'.round = op.round
<1>1. /\ sup' = [p \in Pids |-> IF proc[p] = Sup THEN [sup[p] EXCEPT !.term = TRUE]
                                ELSE sup[p]]
      /\ op' = [op EXCEPT !.at = "supervisors"]
  BY DEF TermSupervisors
<1>2. \A q \in Pids : [sup[q] EXCEPT !.term = TRUE] \in SupervisorState
  BY DEF ShapeInv, TypeOK, SupervisorState
<1>3. sup' \in [Pids -> SupervisorState] /\ \A q \in Pids : sup'[q] = sup[q] \/ Terms(q)
  BY <1>1, <1>2 DEF ShapeInv, TypeOK, Terms
<1>4. op' \in OperatorState /\ op'.at = "supervisors" /\ op'.round = op.round
  BY <1>1 DEF OperatorState, ShapeInv, TypeOK
<1>5. QED
  BY <1>3, <1>4 DEF TermSupervisors

LEMMA KillSupervisorsEffect ==
    ASSUME ShapeInv, KillSupervisors
    PROVE  /\ op.at = "supervisors" /\ op.round \in 0..Rounds
           /\ UNCHANGED <<last, file, stopFile, counters>>
           /\ proc' \in [Pids -> Names \cup {Sup, Nil}]
           /\ \A q \in Pids : /\ proc'[q] # Sup
                              /\ proc'[q] = proc[q] \/ proc'[q] = Nil
           /\ sup' = [p \in Pids |-> NewSup]
           /\ op' \in OperatorState
           /\ \/ /\ op'.at = "orphans" /\ op'.round = op.round + 1
                 /\ op'.i = Len(Services)
              \/ op'.at = "clean" /\ op.round >= Rounds
<1>1. op.at = "supervisors" /\ op.round \in 0..Rounds /\ op \in OperatorState
  BY DEF KillSupervisors, ShapeInv, TypeOK, OperatorState
<1>2. proc' = [p \in Pids |-> IF proc[p] = Sup THEN Nil ELSE proc[p]]
  BY DEF KillSupervisors
<1>3. /\ proc' \in [Pids -> Names \cup {Sup, Nil}]
      /\ \A q \in Pids : /\ proc'[q] # Sup
                         /\ proc'[q] = proc[q] \/ proc'[q] = Nil
  BY <1>2, Constant DEF ShapeInv, TypeOK
<1>4. CASE op.round < Rounds
  <2>1. op' = [op EXCEPT !.at = "orphans", !.i = Len(Services), !.round = op.round + 1]
    BY <1>4 DEF KillSupervisors, OrphanRounds
  <2>2. op.round + 1 \in 0..Rounds /\ Len(Services) \in 0..Len(Services) + 1
    BY <1>1, <1>4, Constant
  <2>3. /\ op' \in OperatorState /\ op'.at = "orphans" /\ op'.round = op.round + 1
        /\ op'.i = Len(Services)
    BY <1>1, <2>1, <2>2 DEF OperatorState
  <2>4. QED
    BY <1>1, <1>3, <2>3 DEF KillSupervisors
<1>5. CASE ~(op.round < Rounds)
  <2>1. op' = [Idle EXCEPT !.at = "clean"]
    BY <1>5 DEF KillSupervisors, OrphanRounds
  <2>2. op' \in OperatorState /\ op'.at = "clean"
    BY <2>1, IdleTyped DEF OperatorState
  <2>3. op.round >= Rounds
    BY <1>1, <1>5, Constant
  <2>4. QED
    BY <1>1, <1>3, <2>2, <2>3 DEF KillSupervisors
<1>6. QED
  BY <1>4, <1>5

LEMMA CleanUpEffect ==
    ASSUME ShapeInv, CleanUp
    PROVE  /\ op.at = "clean" /\ UNCHANGED <<proc, last, sup, counters>>
           /\ file' \in [Names \cup {Sup} -> PidOrNone]
           /\ ~stopFile' /\ stopFile' \in BOOLEAN
           /\ op' \in OperatorState /\ op'.at = "stopped"
<1>1. op' = [Idle EXCEPT !.at = "stopped"]
  BY DEF CleanUp
<1>2. op' \in OperatorState /\ op'.at = "stopped"
  BY <1>1, IdleTyped DEF OperatorState
<1>3. file' \in [Names \cup {Sup} -> PidOrNone]
  BY DEF CleanUp, PidOrNone
<1>4. stopFile' = FALSE
  BY DEF CleanUp
<1>5. QED
  BY <1>2, <1>3, <1>4 DEF CleanUp

------------------------------------------------------------------------------

(* A supervisor that is told to end, that has ended or that is left alone.  *)
LEMMA PlaceTold ==
    ASSUME ShapeInv,
           \A q \in Pids : sup'[q] = sup[q] \/ Terms(q) \/ sup'[q] = NewSup
    PROVE  PlaceInv'
<1>1. ASSUME NEW q \in Pids
      PROVE  /\ sup'[q].stopping => sup'[q].back \in Back
             /\ sup'[q].at \in {"stop", "exit"} => sup'[q].stopping
             /\ sup'[q].at # "stop" => sup'[q].i # 0
  <2>1. /\ sup[q].stopping => sup[q].back \in Back
        /\ sup[q].at \in {"stop", "exit"} => sup[q].stopping
        /\ sup[q].at # "stop" => sup[q].i # 0
        /\ sup[q] \in SupervisorState
    BY DEF ShapeInv, PlaceInv, TypeOK
  <2>2. CASE Terms(q)
    BY <2>1, <2>2 DEF Terms, SupervisorState
  <2>3. CASE sup'[q] = NewSup
    BY <2>3, NewSupTyped
  <2>4. QED
    BY <2>1, <2>2, <2>3
<1>2. QED
  BY <1>1 DEF PlaceInv

(* The operator's script goes on.                                           *)
LEMMA ShapeOperates ==
    ASSUME ShapeInv, op' \in OperatorState, RoundInv',
           proc' \in [Pids -> Names \cup {Sup, Nil}], last' \in Nat,
           file' \in [Names \cup {Sup} -> PidOrNone], stopFile' \in BOOLEAN,
           commands' \in Nat, UNCHANGED <<faults, signalled>>,
           sup' \in [Pids -> SupervisorState],
           \A q \in Pids : sup'[q] = sup[q] \/ Terms(q) \/ sup'[q] = NewSup
    PROVE  ShapeInv'
<1>1. TypeOK'
  BY DEF ShapeInv, TypeOK
<1>2. PlaceInv'
  BY PlaceTold
<1>3. QED
  BY <1>1, <1>2 DEF ShapeInv

LEMMA ShapeOperator ==
    ASSUME ShapeInv, Operator
    PROVE  ShapeInv'
<1> USE DEF FileSame, FileSets, FileDrops, Steady, counters
<1>1. /\ TypeOK /\ RoundInv
      /\ proc \in [Pids -> Names \cup {Sup, Nil}] /\ last \in Nat
      /\ file \in [Names \cup {Sup} -> PidOrNone] /\ stopFile \in BOOLEAN
      /\ commands \in Nat /\ sup \in [Pids -> SupervisorState] /\ op \in OperatorState
      /\ op.i \in 0..Len(Services) + 1 /\ op.round \in 0..Rounds
  BY DEF ShapeInv, TypeOK, OperatorState
<1>2. CASE Start
  <2>1. /\ op.at = "idle" /\ ~stopFile' /\ stopFile' \in BOOLEAN
        /\ commands' \in Nat /\ Steady /\ UNCHANGED <<proc, sup>>
        /\ \/ FileSame /\ op' = op
           \/ FileDrops(Sup) /\ op' \in OperatorState /\ op'.at \in {"idle", "spawn"}
    BY <1>2, StartEffect
  <2>2. RoundInv'
    BY <1>1, <2>1 DEF RoundInv
  <2>3. QED
    BY <1>1, <2>1, <2>2, ShapeOperates
<1>3. CASE StartSupervisor
  <2>1. /\ FileSame /\ UNCHANGED <<stopFile, counters>>
        /\ last' \in Nat /\ proc' \in [Pids -> Names \cup {Sup, Nil}]
        /\ op' \in OperatorState /\ op'.at = "write" /\ op'.pid \in Pids
        /\ \E p \in Pids : sup' = [sup EXCEPT ![p] = NewSup]
    BY <1>3, StartSupervisorEffect
  <2>2. /\ sup' \in [Pids -> SupervisorState]
        /\ \A q \in Pids : sup'[q] = sup[q] \/ sup'[q] = NewSup
    BY <1>1, <2>1, NewSupTyped
  <2>3. RoundInv'
    BY <2>1 DEF RoundInv
  <2>4. QED
    BY <1>1, <2>1, <2>2, <2>3, ShapeOperates
<1>4. CASE WriteSupervisorPid
  <2>1. /\ FileSets(Sup, op.pid) /\ op' = Idle
        /\ UNCHANGED <<proc, last, stopFile, sup, counters>>
    BY <1>4, WriteSupervisorPidEffect
  <2>2. op' \in OperatorState /\ RoundInv'
    BY <2>1, IdleTyped DEF RoundInv
  <2>3. QED
    BY <1>1, <2>1, <2>2, ShapeOperates
<1>5. CASE Stop
  <2>1. /\ stopFile' \in BOOLEAN /\ commands' \in Nat /\ Steady
        /\ UNCHANGED <<proc, sup>> /\ FileSame
        /\ op' \in OperatorState /\ op'.at = "files"
    BY <1>5, StopEffect
  <2>2. RoundInv'
    BY <2>1 DEF RoundInv
  <2>3. QED
    BY <1>1, <2>1, <2>2, ShapeOperates
<1>6. CASE StopByFile
  <2>1. /\ UNCHANGED <<proc, last, stopFile, counters>>
        /\ op' \in OperatorState /\ op'.at = "files"
        /\ FileSame \/ FileDrops(Target)
        /\ sup' \in [Pids -> SupervisorState]
        /\ \A q \in Pids : sup'[q] = sup[q] \/ Terms(q)
    BY <1>1, <1>6, StopByFileEffect
  <2>2. RoundInv'
    BY <2>1 DEF RoundInv
  <2>3. QED
    BY <1>1, <2>1, <2>2, ShapeOperates
<1>7. CASE StoppedByFile
  <2>1. /\ UNCHANGED <<last, stopFile, counters>> /\ op.pid \in Pids
        /\ proc' \in [Pids -> Names \cup {Sup, Nil}]
        /\ FileDrops(Target) /\ sup' = [sup EXCEPT ![op.pid] = NewSup]
        /\ op' \in OperatorState /\ op'.at = "files"
    BY <1>7, StoppedByFileEffect
  <2>2. /\ sup' \in [Pids -> SupervisorState]
        /\ \A q \in Pids : sup'[q] = sup[q] \/ sup'[q] = NewSup
    BY <1>1, <2>1, NewSupTyped
  <2>3. RoundInv'
    BY <2>1 DEF RoundInv
  <2>4. QED
    BY <1>1, <2>1, <2>2, <2>3, ShapeOperates
<1>8. CASE LookForOrphans
  <2>1. /\ UNCHANGED <<proc, last, file, stopFile, sup, counters>>
        /\ op' \in OperatorState
        /\ \/ op'.at = "clean"
           \/ op'.at = "orphans" /\ op'.round = 1 /\ op'.i = Len(Services)
    BY <1>8, LookForOrphansEffect
  <2>2. RoundInv'
    BY <2>1, Constant DEF RoundInv
  <2>3. QED
    BY <1>1, <2>1, <2>2, ShapeOperates
<1>9. CASE StopOrphans
  <2>1. /\ UNCHANGED <<last, file, stopFile, sup, counters>>
        /\ proc' \in [Pids -> Names \cup {Sup, Nil}]
        /\ op.at = "orphans" /\ op.i \in 1..Len(Services)
        /\ op' \in OperatorState /\ op'.at = "orphans" /\ op'.i = op.i - 1
        /\ op'.round = op.round
    BY <1>9, StopOrphansEffect
  <2>2. op'.i <= Len(Services) /\ op'.round >= 1
    BY <1>1, <2>1, Constant DEF RoundInv
  <2>3. RoundInv'
    BY <2>1, <2>2 DEF RoundInv
  <2>4. QED
    BY <1>1, <2>1, <2>3, ShapeOperates
<1>10. CASE TermSupervisors
  <2>1. /\ UNCHANGED <<proc, last, file, stopFile, counters>> /\ op.at = "orphans"
        /\ sup' \in [Pids -> SupervisorState]
        /\ \A q \in Pids : sup'[q] = sup[q] \/ Terms(q)
        /\ op' \in OperatorState /\ op'.at = "supervisors" /\ op'.round = op.round
    BY <1>10, TermSupervisorsEffect
  <2>2. RoundInv'
    BY <1>1, <2>1 DEF RoundInv
  <2>3. QED
    BY <1>1, <2>1, <2>2, ShapeOperates
<1>11. CASE KillSupervisors
  <2>1. /\ UNCHANGED <<last, file, stopFile, counters>>
        /\ proc' \in [Pids -> Names \cup {Sup, Nil}]
        /\ sup' = [p \in Pids |-> NewSup]
        /\ op' \in OperatorState /\ op.round \in 0..Rounds
        /\ \/ op'.at = "orphans" /\ op'.round = op.round + 1 /\ op'.i = Len(Services)
           \/ op'.at = "clean"
    BY <1>11, KillSupervisorsEffect
  <2>2. sup' \in [Pids -> SupervisorState] /\ \A q \in Pids : sup'[q] = NewSup
    BY <2>1, NewSupTyped
  <2>3. RoundInv'
    BY <2>1, Constant DEF RoundInv
  <2>4. QED
    BY <1>1, <2>1, <2>2, <2>3, ShapeOperates
<1>12. CASE CleanUp
  <2>1. /\ UNCHANGED <<proc, last, sup, counters>>
        /\ file' \in [Names \cup {Sup} -> PidOrNone] /\ stopFile' \in BOOLEAN
        /\ ~stopFile'
        /\ op' \in OperatorState /\ op'.at = "stopped"
    BY <1>12, CleanUpEffect
  <2>2. RoundInv'
    BY <2>1 DEF RoundInv
  <2>3. QED
    BY <1>1, <2>1, <2>2, ShapeOperates
<1>13. CASE Stopped
  <2>1. op' = Idle /\ UNCHANGED <<proc, last, file, stopFile, sup, counters>>
    BY <1>13 DEF Stopped
  <2>2. op' \in OperatorState /\ RoundInv'
    BY <2>1, IdleTyped DEF RoundInv
  <2>3. QED
    BY <1>1, <2>1, <2>2, ShapeOperates
<1>14. QED
  BY <1>2, <1>3, <1>4, <1>5, <1>6, <1>7, <1>8, <1>9, <1>10, <1>11, <1>12, <1>13
     DEF Operator

LEMMA ServiceEndsEffect ==
    ASSUME ShapeInv, NEW p \in Pids, ServiceEnds(p)
    PROVE  /\ proc[p] \in Names
           /\ proc' \in [Pids -> Names \cup {Sup, Nil}]
           /\ proc'[p] = Nil /\ \A q \in Pids : q # p => proc'[q] = proc[q]
           /\ faults' \in Nat
           /\ UNCHANGED <<last, file, stopFile, sup, op, commands, signalled>>
<1>1. proc[p] \in Names /\ proc' = [proc EXCEPT ![p] = Nil] /\ faults' = faults + 1
  BY DEF ServiceEnds
<1>2. faults' \in Nat
  BY <1>1 DEF ShapeInv, TypeOK
<1>3. /\ proc' \in [Pids -> Names \cup {Sup, Nil}]
      /\ proc'[p] = Nil /\ \A q \in Pids : q # p => proc'[q] = proc[q]
  BY <1>1 DEF ShapeInv, TypeOK
<1>4. QED
  BY <1>1, <1>2, <1>3 DEF ServiceEnds

LEMMA SignalEffect ==
    ASSUME ShapeInv, NEW p \in Pids, Signal(p)
    PROVE  /\ signalled' /\ signalled' \in BOOLEAN /\ faults' \in Nat
           /\ UNCHANGED <<last, file, stopFile, op, commands>>
           /\ proc' \in [Pids -> Names \cup {Sup, Nil}]
           /\ \A q \in Pids : proc'[q] = proc[q] \/ proc'[q] = Nil
           /\ sup' \in [Pids -> SupervisorState]
           /\ \A q \in Pids : sup'[q] = sup[q] \/ Terms(q) \/ sup'[q] = NewSup
<1>1. /\ faults' = faults + 1 /\ signalled' = TRUE
      /\ UNCHANGED <<last, file, stopFile, op, commands>>
      /\ \/ sup' = [sup EXCEPT ![p].term = TRUE] /\ proc' = proc
         \/ proc' = [proc EXCEPT ![p] = Nil] /\ sup' = [sup EXCEPT ![p] = NewSup]
  BY DEF Signal
<1>2. faults' \in Nat
  BY <1>1 DEF ShapeInv, TypeOK
<1>3. signalled' /\ signalled' \in BOOLEAN
  BY <1>1
<1>4. /\ proc \in [Pids -> Names \cup {Sup, Nil}] /\ sup \in [Pids -> SupervisorState]
      /\ [sup[p] EXCEPT !.term = TRUE] \in SupervisorState
  BY DEF ShapeInv, TypeOK, SupervisorState
<1>5. /\ proc' \in [Pids -> Names \cup {Sup, Nil}]
      /\ \A q \in Pids : proc'[q] = proc[q] \/ proc'[q] = Nil
  BY <1>1, <1>4
<1>6. /\ sup' \in [Pids -> SupervisorState]
      /\ \A q \in Pids : sup'[q] = sup[q] \/ Terms(q) \/ sup'[q] = NewSup
  <2>1. CASE sup' = [sup EXCEPT ![p].term = TRUE]
    <3>1. sup' = [sup EXCEPT ![p] = [sup[p] EXCEPT !.term = TRUE]]
      BY <2>1
    <3>2. QED
      BY <1>4, <3>1 DEF Terms
  <2>2. CASE sup' = [sup EXCEPT ![p] = NewSup]
    BY <1>4, <2>2, NewSupTyped
  <2>3. QED
    BY <1>1, <2>1, <2>2
<1>7. QED
  BY <1>1, <1>2, <1>3, <1>5, <1>6

LEMMA ShapeNext == ShapeInv /\ [Next]_vars => ShapeInv'
<1> SUFFICES ASSUME ShapeInv, [Next]_vars
             PROVE  ShapeInv'
  OBVIOUS
<1>1. ASSUME NEW p \in Pids, SupervisorStep(p)
      PROVE  ShapeInv'
  BY <1>1, ShapeSupervisor
<1>2. ASSUME NEW p \in Pids, ServiceEnds(p)
      PROVE  ShapeInv'
  BY <1>2, ServiceEndsEffect DEF ShapeInv, TypeOK, PlaceInv, RoundInv
<1>3. ASSUME NEW p \in Pids, Signal(p)
      PROVE  ShapeInv'
  <2>1. /\ signalled' \in BOOLEAN /\ faults' \in Nat
        /\ UNCHANGED <<last, file, stopFile, op, commands>>
        /\ proc' \in [Pids -> Names \cup {Sup, Nil}]
        /\ sup' \in [Pids -> SupervisorState]
        /\ \A q \in Pids : sup'[q] = sup[q] \/ Terms(q) \/ sup'[q] = NewSup
    BY <1>3, SignalEffect
  <2>2. TypeOK' /\ RoundInv'
    BY <2>1 DEF ShapeInv, TypeOK, RoundInv
  <2>3. PlaceInv'
    BY <2>1, PlaceTold DEF ShapeInv
  <2>4. QED
    BY <2>2, <2>3 DEF ShapeInv
<1>4. CASE Operator
  BY <1>4, ShapeOperator
<1>5. CASE UNCHANGED vars
  BY <1>5 DEF vars, counters, ShapeInv, TypeOK, PlaceInv, RoundInv
<1>6. QED
  BY <1>1, <1>2, <1>3, <1>4, <1>5 DEF Next

LEMMA ShapeInvariant == Spec => []ShapeInv
  BY ShapeInit, ShapeNext, PTL DEF Spec

(* Every pid file and every hand holds a process id or none, and the        *)
(* scripts are where they can be.                                           *)
THEOREM TypeCorrect == Spec => []TypeOK
<1>1. ShapeInv => TypeOK
  BY DEF ShapeInv
<1>2. QED
  BY <1>1, ShapeInvariant, PTL

------------------------------------------------------------------------------
(* What stop_runtime leaves.                                                *)

(* A step that starts nothing and leaves the operator's script alone.       *)
LEMMA StopShrinks ==
    ASSUME StopInv, op' = op, \A q \in Pids : proc'[q] = proc[q] \/ proc'[q] = Nil,
           TypeOK
    PROVE  StopInv'
<1>1. \A i \in 1..Len(Services) : Services[i] # Nil
  BY Constant
<1>2. Sup # Nil
  BY Constant
<1>3. QED
  BY <1>1, <1>2 DEF StopInv, Nothing

(* Only a supervisor starts a service, and in the phases that matter none   *)
(* runs.                                                                    *)
LEMMA StopSupervisor ==
    ASSUME ShapeInv, StopInv, NEW p \in Pids, SupervisorStep(p)
    PROVE  StopInv'
<1>1. CASE StartService(p)
  <2>1. proc[p] = Sup /\ op' = op
    BY <1>1 DEF StartService, At
  <2>2. Sup # Nil
    BY Constant
  <2>3. /\ ~(op.at \in {"orphans", "supervisors"} /\ op.round >= 2)
        /\ op.at \notin {"clean", "stopped"}
    BY <2>1, <2>2 DEF StopInv, Nothing
  <2>4. QED
    BY <2>1, <2>3 DEF StopInv
<1>2. CASE StoppedService(p)
  <2>1. op' = op
    BY <1>2 DEF StoppedService
  <2>2. \A q \in Pids : proc'[q] = proc[q] \/ proc'[q] = Nil
    BY <1>2, StoppedServiceEffect
  <2>3. QED
    BY <2>1, <2>2, StopShrinks DEF ShapeInv
<1>3. CASE Exit(p)
  <2>1. op' = op
    BY <1>3 DEF Exit
  <2>2. \A q \in Pids : proc'[q] = proc[q] \/ proc'[q] = Nil
    BY <1>3, ExitEffect
  <2>3. QED
    BY <2>1, <2>2, StopShrinks DEF ShapeInv
<1>4. CASE ~(StartService(p) \/ StoppedService(p) \/ Exit(p))
  <2>1. op' = op /\ proc' = proc
    BY <1>4 DEF SupervisorStep, Begin, Top, HandleTerm, Look, WritePid, StopService,
                StopAllReturns
  <2>2. QED
    BY <2>1, StopShrinks DEF ShapeInv
<1>5. QED
  BY <1>1, <1>2, <1>3, <1>4

LEMMA StopOperator ==
    ASSUME ShapeInv, StopInv, Rounds >= 2, Operator
    PROVE  StopInv'
<1>1. CASE Start
  <2>1. proc' = proc /\ (op' = op \/ op'.at \in {"idle", "spawn"})
    BY <1>1, StartEffect
  <2>2. QED
    BY <2>1 DEF StopInv, Nothing
<1>2. CASE StartSupervisor
  <2>1. op'.at = "write"
    BY <1>2, StartSupervisorEffect
  <2>2. QED
    BY <2>1 DEF StopInv
<1>3. CASE WriteSupervisorPid
  <2>1. op'.at = "idle"
    BY <1>3, IdleTyped, WriteSupervisorPidEffect
  <2>2. QED
    BY <2>1 DEF StopInv
<1>4. CASE Stop
  <2>1. op'.at = "files"
    BY <1>4, StopEffect
  <2>2. QED
    BY <2>1 DEF StopInv
<1>5. CASE StopByFile
  <2>1. op'.at = "files"
    BY <1>5, StopByFileEffect
  <2>2. QED
    BY <2>1 DEF StopInv
<1>6. CASE StoppedByFile
  <2>1. op'.at = "files"
    BY <1>6, StoppedByFileEffect
  <2>2. QED
    BY <2>1 DEF StopInv
<1>7. CASE LookForOrphans
  <2>1. op'.at = "orphans" /\ op'.round = 1
    BY <1>7, LookForOrphansEffect, Constant
  <2>2. QED
    BY <2>1 DEF StopInv
<1>8. CASE StopOrphans
  <2>1. /\ op.at = "orphans" /\ op.i \in 1..Len(Services)
        /\ \A q \in Pids : /\ proc'[q] # Services[op.i]
                           /\ proc'[q] = proc[q] \/ proc'[q] = Nil
        /\ op'.at = "orphans" /\ op'.i = op.i - 1
        /\ op'.round = op.round
    BY <1>8, StopOrphansEffect
  <2>2. Sup # Nil /\ \A j \in 1..Len(Services) : Services[j] # Nil
    BY Constant
  <2>3. op'.round >= 2 => \A q \in Pids : proc'[q] # Sup
    BY <2>1, <2>2 DEF StopInv
  <2>4. ASSUME op'.round >= 2, NEW j \in 1..Len(Services), j > op'.i, NEW q \in Pids
        PROVE  proc'[q] # Services[j]
    <3>1. j = op.i \/ j > op.i
      BY <2>1, <2>4
    <3>2. j > op.i => proc[q] # Services[j]
      BY <2>1, <2>4 DEF StopInv
    <3>3. QED
      BY <2>1, <2>2, <3>1, <3>2
  <2>5. QED
    BY <2>1, <2>3, <2>4 DEF StopInv
<1>9. CASE TermSupervisors
  <2>1. /\ op.at = "orphans" /\ op.i = 0 /\ proc' = proc
        /\ op'.at = "supervisors" /\ op'.round = op.round
    BY <1>9, TermSupervisorsEffect
  <2>2. ASSUME op.round >= 2, NEW q \in Pids
        PROVE  proc[q] = Nil
    <3>1. proc[q] # Sup
      BY <2>1, <2>2 DEF StopInv
    <3>2. ASSUME NEW n \in Names, proc[q] = n
          PROVE  FALSE
      <4>1. PICK j \in 1..Len(Services) : Services[j] = n
        BY Constant
      <4>2. j > op.i
        BY <2>1
      <4>3. QED
        BY <2>1, <2>2, <3>2, <4>1, <4>2 DEF StopInv
    <3>3. proc[q] \in Names \cup {Sup, Nil}
      BY DEF ShapeInv, TypeOK
    <3>4. QED
      BY <3>1, <3>2, <3>3
  <2>3. op'.round >= 2 => Nothing' /\ \A q \in Pids : proc'[q] # Sup
    BY <2>1, <2>2, Constant DEF Nothing
  <2>4. QED
    BY <2>1, <2>3 DEF StopInv
<1>10. CASE KillSupervisors
  <2>1. /\ op.at = "supervisors" /\ op.round \in 0..Rounds
        /\ \A q \in Pids : /\ proc'[q] # Sup
                           /\ proc'[q] = proc[q] \/ proc'[q] = Nil
        /\ \/ op'.at = "orphans" /\ op'.i = Len(Services)
           \/ op'.at = "clean" /\ op.round >= Rounds
    BY <1>10, KillSupervisorsEffect
  <2>2. CASE op'.at = "orphans" /\ op'.i = Len(Services)
    <3>1. \A j \in 1..Len(Services) : ~(j > op'.i)
      BY <2>2, Constant
    <3>2. QED
      BY <2>1, <2>2, <3>1 DEF StopInv
  <2>3. CASE op'.at = "clean" /\ op.round >= Rounds
    <3>1. op.round >= 2
      BY <2>1, <2>3, Constant
    <3>2. Nothing'
      BY <2>1, <3>1 DEF StopInv, Nothing
    <3>3. QED
      BY <2>3, <3>2 DEF StopInv
  <2>4. QED
    BY <2>1, <2>2, <2>3
<1>11. CASE CleanUp
  <2>1. op.at = "clean" /\ proc' = proc /\ op'.at = "stopped"
    BY <1>11, CleanUpEffect
  <2>2. QED
    BY <2>1 DEF StopInv, Nothing
<1>12. CASE Stopped
  <2>1. op'.at = "idle"
    BY <1>12, IdleTyped DEF Stopped
  <2>2. QED
    BY <2>1 DEF StopInv
<1>13. QED
  BY <1>1, <1>2, <1>3, <1>4, <1>5, <1>6, <1>7, <1>8, <1>9, <1>10, <1>11, <1>12
     DEF Operator

LEMMA StopNext ==
    ASSUME Rounds >= 2
    PROVE  ShapeInv /\ StopInv /\ [Next]_vars => StopInv'
<1> SUFFICES ASSUME ShapeInv, StopInv, [Next]_vars
             PROVE  StopInv'
  OBVIOUS
<1>1. ASSUME NEW p \in Pids, SupervisorStep(p)
      PROVE  StopInv'
  BY <1>1, StopSupervisor
<1>2. ASSUME NEW p \in Pids, ServiceEnds(p)
      PROVE  StopInv'
  <2>1. op' = op /\ \A q \in Pids : proc'[q] = proc[q] \/ proc'[q] = Nil
    BY <1>2, ServiceEndsEffect
  <2>2. QED
    BY <2>1, StopShrinks DEF ShapeInv
<1>3. ASSUME NEW p \in Pids, Signal(p)
      PROVE  StopInv'
  <2>1. op' = op /\ \A q \in Pids : proc'[q] = proc[q] \/ proc'[q] = Nil
    BY <1>3, SignalEffect
  <2>2. QED
    BY <2>1, StopShrinks DEF ShapeInv
<1>4. CASE Operator
  BY <1>4, StopOperator
<1>5. CASE UNCHANGED vars
  BY <1>5 DEF vars, StopInv, Nothing
<1>6. QED
  BY <1>1, <1>2, <1>3, <1>4, <1>5 DEF Next

LEMMA StopInvariant ==
    ASSUME Rounds >= 2
    PROVE  Spec => []StopInv
<1>1. Init => StopInv
  BY IdleTyped DEF Init, StopInv
<1>2. ShapeInv /\ StopInv /\ [Next]_vars => StopInv'
  BY StopNext
<1>3. QED
  BY <1>1, <1>2, ShapeInvariant, PTL DEF Spec

(* "runtime stopped" is true: whatever the supervisors were doing, and      *)
(* whatever had become of the pid files, nothing of the runtime runs.  Two  *)
(* rounds of the search for orphans are enough; the script makes three.     *)
THEOREM StopIsComplete ==
    ASSUME Rounds >= 2
    PROVE  Spec => []StopLeavesNothing
<1>1. StopInv => StopLeavesNothing
  BY DEF StopInv, Nothing, StopLeavesNothing
<1>2. Spec => []StopInv
  BY StopInvariant
<1>3. QED
  BY <1>1, <1>2, PTL

------------------------------------------------------------------------------
(* How many of each run: the supervisors.                                   *)

(* How a supervisor may go on without upsetting what the operator's script  *)
(* knows of it.                                                             *)
Orderly(p, x) ==
    /\ proc[p] = Sup /\ UNCHANGED <<op, stopFile>>
    /\ \A q \in Pids : proc'[q] = Sup => proc[q] = Sup
    /\ (~stopFile /\ ~sup[p].stopping /\ ~sup[p].term) =>
           /\ ~x.stopping /\ ~x.term
           /\ file'[Sup] \in {file[Sup], p}
           /\ \A q \in Pids : proc[q] = Sup => proc'[q] = Sup
    /\ Exiting(p) => proc'[p] # Sup
    /\ (~Exiting(p) /\ ~sup[p].term
           /\ (sup[p].stopping => sup[p].at = "stop" /\ sup[p].back[1] = "exit")) =>
           /\ ~x.term
           /\ \/ x.at = "exit"
              \/ /\ file'[Sup] \in {file[Sup], p}
                 /\ x.stopping => x.at = "stop" /\ x.back[1] = "exit"

(* The operator's script counts in numbers.                                 *)
LEMMA OperatorCounts ==
    ASSUME ShapeInv
    PROVE  /\ op.i \in Nat /\ Len(Services) \in Nat
           /\ op.i <= Len(Services) \/ op.i > Len(Services)
<1>1. op.i \in 0..Len(Services) + 1
  BY DEF ShapeInv, TypeOK, OperatorState
<1>2. QED
  BY <1>1, Constant

LEMMA PhaseGoes ==
    ASSUME ShapeInv, CountNow, NEW p \in Pids, NEW x \in SupervisorState,
           Goes(p, x), Orderly(p, x)
    PROVE  PhaseInv'
<1>1. /\ sup'[p] = x /\ \A q \in Pids : q # p => sup'[q] = sup[q]
  BY GoesEffect DEF ShapeInv
<1>2. proc[p] = Sup /\ UNCHANGED <<op, stopFile>>
  BY DEF Orderly
<1>3. \A q \in Pids : proc'[q] = Sup => proc[q] = Sup /\ q = p
  BY <1>2, Constant DEF Orderly, CountNow, OneOfEach
<1>4. IdleInv'
  <2>1. ASSUME op.at = "idle"
        PROVE  /\ ~stopFile /\ file[Sup] = p /\ ~sup[p].term /\ ~sup[p].stopping
    BY <1>2, <2>1 DEF CountNow, PhaseInv, IdleInv
  <2>2. ASSUME op.at = "idle"
        PROVE  ~x.stopping /\ ~x.term /\ file'[Sup] = p /\ proc'[p] = Sup
    BY <1>2, <2>1, <2>2 DEF Orderly
  <2>3. QED
    BY <1>1, <1>2, <1>3, <2>1, <2>2 DEF IdleInv
<1>5. StartInv'
  <2>1. op.at # "spawn"
    BY <1>2, Constant DEF CountNow, PhaseInv, StartInv, Nothing
  <2>2. ASSUME op.at = "write"
        PROVE  p = op.pid /\ ~stopFile /\ ~sup[p].term /\ ~sup[p].stopping
    BY <1>2, <2>2 DEF CountNow, PhaseInv, StartInv
  <2>3. ASSUME op.at = "write"
        PROVE  ~x.stopping /\ ~x.term /\ proc'[p] = Sup
    BY <1>2, <2>2, <2>3 DEF Orderly
  <2>4. QED
    BY <1>1, <1>2, <1>3, <2>1, <2>2, <2>3 DEF StartInv
<1>6. FilesInv'
  <2>1. SUFFICES ASSUME op.at = "files", proc'[p] = Sup
                 PROVE  IF op.i <= Len(Services) THEN x.at = "exit"
                        ELSE IF op.pid # NoPid THEN p = op.pid \/ x.at = "exit"
                        ELSE /\ ~x.term
                             /\ \/ x.at = "exit"
                                \/ /\ file'[Sup] = p
                                   /\ x.stopping => x.at = "stop" /\ x.back[1] = "exit"
    BY <1>1, <1>2, <1>3 DEF FilesInv, Exiting
  <2>2. IF op.i <= Len(Services) THEN Exiting(p)
        ELSE IF op.pid # NoPid THEN p = op.pid \/ Exiting(p)
        ELSE /\ ~sup[p].term
             /\ \/ Exiting(p)
                \/ /\ file[Sup] = p
                   /\ sup[p].stopping => sup[p].at = "stop" /\ sup[p].back[1] = "exit"
    BY <1>2, <2>1 DEF CountNow, PhaseInv, FilesInv
  <2>3. ~Exiting(p)
    BY <2>1 DEF Orderly
  <2>4. CASE op.i > Len(Services) /\ op.pid = NoPid
    <3>1. ~sup[p].term
      BY <2>2, <2>4, OperatorCounts
    <3>2. /\ file[Sup] = p
          /\ sup[p].stopping => sup[p].at = "stop" /\ sup[p].back[1] = "exit"
      BY <2>2, <2>3, <2>4, OperatorCounts
    <3>3. QED
      BY <2>3, <2>4, <3>1, <3>2, OperatorCounts DEF Orderly
  <2>5. QED
    BY <2>2, <2>3, <2>4, OperatorCounts
<1>7. OrphansInv'
  BY <1>1, <1>2, <1>3 DEF CountNow, PhaseInv, OrphansInv, Orderly, Exiting
<1>8. QED
  BY <1>4, <1>5, <1>6, <1>7 DEF PhaseInv

------------------------------------------------------------------------------
(* How many of each run: what a supervisor knows of the services.           *)

(* The same is in hand, or about to be started, at x and at y.              *)
SameHand(x, y) ==
    /\ \A n \in Names : \A q \in PidOrNone : InHand(x, n, q) => InHand(y, n, q)
    /\ \A n \in Names : \A q \in PidOrNone : InHand(y, n, q) => InHand(x, n, q)
    /\ \A n \in Names : AboutToStart(x, n) => AboutToStart(y, n)

LEMMA KnowsSame ==
    ASSUME NEW x, NEW y, Knows(y), SameHand(x, y),
           \A q \in Pids : proc'[q] \in Names => proc'[q] = proc[q],
           \A n \in Names : file'[n] = file[n]
    PROVE  Knows(x)'
<1> SUFFICES ASSUME NEW n \in Names, NEW q \in Pids, proc'[q] = n
             PROVE  /\ file'[n] = q \/ InHand(x, n, q)
                    /\ \A r \in PidOrNone : InHand(x, n, r) => r = q
                    /\ ~AboutToStart(x, n)
  BY DEF Knows, InHand, AboutToStart
<1>1. proc[q] = n /\ file'[n] = file[n] /\ q \in PidOrNone
  BY DEF PidOrNone
<1>2. /\ file[n] = q \/ InHand(y, n, q)
      /\ \A r \in PidOrNone : InHand(y, n, r) => r = q
      /\ ~AboutToStart(y, n)
  BY <1>1 DEF Knows
<1>3. QED
  BY <1>1, <1>2 DEF SameHand

(* The only supervisor that does not leave is the one that moves.           *)
LEMMA KnowGoes ==
    ASSUME ShapeInv, CountNow, NEW p \in Pids, NEW x \in SupervisorState, Goes(p, x),
           proc[p] = Sup, \A q \in Pids : proc'[q] = Sup => proc[q] = Sup,
           (proc'[p] = Sup /\ x.at # "exit") => Knows(x)' /\ StopsByFile(x)'
    PROVE  KnowInv'
<1>1. sup'[p] = x
  BY GoesEffect DEF ShapeInv
<1>2. \A q \in Pids : proc'[q] = Sup => q = p
  BY Constant DEF CountNow, OneOfEach
<1>3. ASSUME NEW q \in Pids, (proc[q] = Sup)', ~Exiting(q)'
      PROVE  Knows(sup[q])' /\ StopsByFile(sup[q])'
  <2>1. q = p
    BY <1>2, <1>3
  <2>2. Knows(x)' /\ StopsByFile(x)'
    BY <1>1, <1>3, <2>1 DEF Exiting
  <2>3. QED
    BY <1>1, <2>1, <2>2 DEF Knows, StopsByFile, InHand, AboutToStart
<1>4. QED
  BY <1>3 DEF KnowInv

LEMMA CountMoves ==
    ASSUME ShapeInv, CountNow, NEW p \in Pids, NEW x \in SupervisorState, Goes(p, x),
           Orderly(p, x), OneOfEach',
           (proc'[p] = Sup /\ x.at # "exit") => Knows(x)' /\ StopsByFile(x)'
    PROVE  CountNow'
<1>1. PhaseInv'
  BY PhaseGoes
<1>2. KnowInv'
  BY KnowGoes DEF Orderly
<1>3. QED
  BY <1>1, <1>2 DEF CountNow

LEMMA OneOfEachShrinks ==
    ASSUME TypeOK, OneOfEach, \A q \in Pids : proc'[q] = proc[q] \/ proc'[q] = Nil
    PROVE  OneOfEach'
<1>1. Nil \notin Names \cup {Sup}
  BY Constant
<1>2. QED
  BY <1>1 DEF OneOfEach

(* What holds of the supervisor that takes a step.                          *)
LEMMA Mover ==
    ASSUME ShapeInv, CountNow, NEW p \in Pids, SupervisorStep(p)
    PROVE  /\ proc[p] = Sup /\ OneOfEach /\ TypeOK
           /\ sup[p] \in SupervisorState
           /\ ~Exiting(p) => Knows(sup[p]) /\ StopsByFile(sup[p])
           /\ sup[p].at = "stop" => sup[p].stopping /\ sup[p].back \in Back
           /\ Sup \notin Names
<1>1. proc[p] = Sup
  BY DEF SupervisorStep, Begin, Top, HandleTerm, Look, StartService, WritePid,
         StopService, StoppedService, StopAllReturns, Exit, At
<1>2. QED
  BY <1>1, Constant DEF ShapeInv, TypeOK, PlaceInv, CountNow, KnowInv

LEMMA CountBegin ==
    ASSUME ShapeInv, CountNow, NEW p \in Pids, Begin(p)
    PROVE  CountNow'
<1>1. /\ proc[p] = Sup /\ OneOfEach /\ TypeOK /\ Sup \notin Names
      /\ ~Exiting(p) => Knows(sup[p])
  BY Mover DEF SupervisorStep
<1>2. PICK x \in SupervisorState :
         /\ Goes(p, x) /\ Like(p, x) /\ x.at = "top"
         /\ FileSets(Sup, p) /\ Apart /\ UNCHANGED proc
  BY BeginEffect
<1>3. sup[p].at = "begin"
  BY DEF Begin, At
<1>4. Orderly(p, x)
  BY <1>1, <1>2, <1>3 DEF Orderly, Like, FileSets, Apart, Exiting
<1>5. SameHand(x, sup[p])
  BY <1>2, <1>3 DEF SameHand, InHand, AboutToStart
<1>6. \A n \in Names : file'[n] = file[n]
  BY <1>1, <1>2 DEF FileSets
<1>7. Knows(x)' /\ StopsByFile(x)'
  <2>1. Knows(x)'
    BY <1>1, <1>2, <1>3, <1>5, <1>6, KnowsSame DEF Exiting
  <2>2. QED
    BY <1>2, <2>1 DEF StopsByFile
<1>8. OneOfEach'
  BY <1>1, <1>2, OneOfEachShrinks
<1>9. QED
  BY <1>2, <1>4, <1>7, <1>8, CountMoves

LEMMA CountTop ==
    ASSUME ShapeInv, CountNow, NEW p \in Pids, Top(p)
    PROVE  CountNow'
<1>1. /\ proc[p] = Sup /\ OneOfEach /\ TypeOK
      /\ ~Exiting(p) => Knows(sup[p])
  BY Mover DEF SupervisorStep
<1>2. PICK x \in SupervisorState :
         /\ Goes(p, x) /\ FileSame /\ Apart /\ UNCHANGED proc
         /\ IF stopFile THEN \E b \in Back : b[1] = "exit" /\ Called(p, b, x)
            ELSE Like(p, x) /\ x.at = "look"
  BY TopEffect
<1>3. sup[p].at = "top"
  BY DEF Top, At
<1>4. OneOfEach'
  BY <1>1, <1>2, OneOfEachShrinks
<1>5. CASE stopFile
  <2>1. PICK b \in Back : b[1] = "exit" /\ Called(p, b, x)
    BY <1>2, <1>5
  <2>2. /\ ~x.term
        /\ \/ x.at = "exit"
           \/ x.at = "stop" /\ x.back = b /\ x.pid = NoPid
    BY <2>1 DEF Called
  <2>3. Orderly(p, x)
    BY <1>1, <1>2, <1>3, <1>5, <2>1, <2>2 DEF Orderly, FileSame, Apart, Exiting
  <2>4. ASSUME x.at # "exit"
        PROVE  Knows(x)' /\ StopsByFile(x)'
    <3>1. SameHand(x, sup[p])
      BY <1>3, <2>1, <2>2, <2>4 DEF SameHand, InHand, AboutToStart
    <3>2. Knows(x)'
      BY <1>1, <1>2, <1>3, <3>1, KnowsSame DEF Exiting, FileSame
    <3>3. QED
      BY <2>2, <2>4, <3>2 DEF StopsByFile
  <2>5. QED
    BY <1>2, <1>4, <2>3, <2>4, CountMoves
<1>6. CASE ~stopFile
  <2>1. Orderly(p, x)
    BY <1>1, <1>2, <1>3, <1>6 DEF Orderly, Like, FileSame, Apart, Exiting
  <2>2. SameHand(x, sup[p])
    BY <1>2, <1>3, <1>6 DEF SameHand, InHand, AboutToStart
  <2>3. Knows(x)' /\ StopsByFile(x)'
    <3>1. Knows(x)'
      BY <1>1, <1>2, <1>3, <2>2, KnowsSame DEF Exiting, FileSame
    <3>2. QED
      BY <1>2, <1>6, <3>1 DEF StopsByFile
  <2>4. QED
    BY <1>2, <1>4, <2>1, <2>3, CountMoves
<1>7. QED
  BY <1>5, <1>6

LEMMA CountHandleTerm ==
    ASSUME ShapeInv, CountNow, NEW p \in Pids, HandleTerm(p)
    PROVE  CountNow'
<1>1. /\ proc[p] = Sup /\ OneOfEach /\ TypeOK
      /\ ~Exiting(p) => Knows(sup[p])
  BY Mover DEF SupervisorStep
<1>2. sup[p].term /\ sup[p].at \in {"top", "look", "spawn", "write"}
  BY DEF HandleTerm
<1>3. PICK x \in SupervisorState, b \in Back :
         /\ Goes(p, x) /\ Called(p, b, x)
         /\ b = <<sup[p].at, sup[p].i, sup[p].pid>>
         /\ FileSame /\ Apart /\ UNCHANGED proc
  BY HandleTermEffect
<1>4. OneOfEach'
  BY <1>1, <1>3, OneOfEachShrinks
<1>5. Orderly(p, x)
  BY <1>1, <1>2, <1>3 DEF Orderly, FileSame, Apart, Exiting
<1>6. b[1] = sup[p].at /\ b[2] = sup[p].i /\ b[3] = sup[p].pid
  BY <1>3
<1>7. \/ x.at = sup[p].at /\ x.i = sup[p].i /\ x.pid = sup[p].pid
      \/ x.at = "stop" /\ x.back = b /\ x.pid = NoPid
  BY <1>3, <1>6 DEF Called
<1>8. SameHand(x, sup[p])
  BY <1>2, <1>6, <1>7 DEF SameHand, InHand, AboutToStart
<1>9. Knows(x)' /\ StopsByFile(x)'
  <2>1. Knows(x)'
    BY <1>1, <1>2, <1>3, <1>8, KnowsSame DEF Exiting, FileSame
  <2>2. QED
    BY <1>2, <1>7, <2>1 DEF StopsByFile
<1>10. QED
  BY <1>3, <1>4, <1>5, <1>9, CountMoves

(* No process of a service runs that a supervisor does not know of.         *)
LEMMA NotRunning ==
    ASSUME ShapeInv, NEW y, Knows(y), NEW n \in Names, ~FileRuns(n),
           NEW q \in Pids, proc[q] = n
    PROVE  InHand(y, n, q)
<1>1. file[n] # q
  BY Constant, RunsFacts DEF ShapeInv
<1>2. QED
  BY <1>1 DEF Knows

(* What is dropped from the pid files is no longer known of by them.        *)
LEMMA KnowsDropped ==
    ASSUME NEW x, NEW y, Knows(y), SameHand(x, y), NEW n \in Names, FileDrops(n),
           \A q \in Pids : proc'[q] \in Names => proc'[q] = proc[q],
           \A q \in Pids : proc'[q] = n => InHand(y, n, q)
    PROVE  Knows(x)'
<1> SUFFICES ASSUME NEW m \in Names, NEW q \in Pids, proc'[q] = m
             PROVE  /\ file'[m] = q \/ InHand(x, m, q)
                    /\ \A r \in PidOrNone : InHand(x, m, r) => r = q
                    /\ ~AboutToStart(x, m)
  BY DEF Knows, InHand, AboutToStart
<1>1. proc[q] = m /\ q \in PidOrNone
  BY DEF PidOrNone
<1>2. /\ file[m] = q \/ InHand(y, m, q)
      /\ \A r \in PidOrNone : InHand(y, m, r) => r = q
      /\ ~AboutToStart(y, m)
  BY <1>1 DEF Knows
<1>3. m = n \/ file'[m] = file[m]
  BY DEF FileDrops
<1>4. QED
  BY <1>1, <1>2, <1>3 DEF SameHand

LEMMA CountLook ==
    ASSUME ShapeInv, CountNow, NEW p \in Pids, Look(p)
    PROVE  CountNow'
<1>1. /\ proc[p] = Sup /\ OneOfEach /\ TypeOK /\ Sup \notin Names
      /\ ~Exiting(p) => Knows(sup[p])
  BY Mover DEF SupervisorStep
<1>2. sup[p].at = "look" /\ Service(p) \in Names
  BY LookEffect DEF Look, At
<1>3. PICK n \in Names : n = Service(p)
  BY <1>2
<1>4. PICK x \in SupervisorState :
         /\ Goes(p, x) /\ Like(p, x) /\ Apart /\ UNCHANGED proc
         /\ FileSame \/ (FileDrops(n) /\ ~FileRuns(n))
         /\ \/ x.at \in {"top", "look"}
            \/ x.at = "spawn" /\ x.i = sup[p].i /\ ~FileRuns(n)
  BY <1>3, LookEffect
<1>5. OneOfEach'
  BY <1>1, <1>4, OneOfEachShrinks
<1>6. file'[Sup] = file[Sup]
  BY <1>1, <1>4 DEF FileSame, FileDrops
<1>7. Orderly(p, x)
  BY <1>1, <1>2, <1>4, <1>6 DEF Orderly, Like, Apart, Exiting
<1>8. Knows(sup[p])
  BY <1>1, <1>2 DEF Exiting
<1>9. \A m \in Names, q \in PidOrNone : ~InHand(sup[p], m, q) /\ ~InHand(x, m, q)
  BY <1>2, <1>4 DEF InHand
<1>10. ~FileRuns(n) => \A q \in Pids : proc[q] # n
  BY <1>8, <1>9, NotRunning DEF PidOrNone
<1>11. ASSUME NEW m \in Names, NEW q \in Pids, proc'[q] = m
       PROVE  /\ file'[m] = q \/ InHand(x, m, q)
              /\ \A r \in PidOrNone : InHand(x, m, r) => r = q
              /\ ~AboutToStart(x, m)
  <2>1. proc[q] = m /\ q \in PidOrNone
    BY <1>4, <1>11 DEF PidOrNone
  <2>2. file[m] = q
    BY <1>8, <1>9, <2>1 DEF Knows
  <2>3. file'[m] = q
    BY <1>4, <1>10, <2>1, <2>2 DEF FileSame, FileDrops
  <2>4. ~AboutToStart(x, m)
    BY <1>3, <1>4, <1>10, <2>1 DEF AboutToStart, Service
  <2>5. QED
    BY <1>9, <2>3, <2>4
<1>12. Knows(x)'
  BY <1>11 DEF Knows, InHand, AboutToStart
<1>13. StopsByFile(x)'
  BY <1>4 DEF StopsByFile
<1>14. QED
  BY <1>4, <1>5, <1>7, <1>12, <1>13, CountMoves

LEMMA CountStartService ==
    ASSUME ShapeInv, CountNow, NEW p \in Pids, StartService(p)
    PROVE  CountNow'
<1>1. /\ proc[p] = Sup /\ OneOfEach /\ TypeOK /\ Sup \notin Names
      /\ ~Exiting(p) => Knows(sup[p])
  BY Mover DEF SupervisorStep
<1>2. sup[p].at = "spawn" /\ Service(p) \in Names
  BY StartServiceEffect DEF StartService, At
<1>3. PICK n \in Names : n = Service(p)
  BY <1>2
<1>4. PICK x \in SupervisorState, c \in Pids :
         /\ Goes(p, x) /\ Like(p, x) /\ x.at = "write" /\ x.i = sup[p].i
         /\ x.pid = c /\ proc[c] = Nil /\ proc'[c] = n
         /\ \A q \in Pids : q # c => proc'[q] = proc[q]
         /\ FileSame /\ Apart
  BY <1>3, StartServiceEffect
<1>5. Knows(sup[p])
  BY <1>1, <1>2 DEF Exiting
<1>6. \A q \in Pids : proc[q] # n
  <2>1. AboutToStart(sup[p], n)
    BY <1>2, <1>3 DEF AboutToStart, Service
  <2>2. QED
    BY <1>5, <2>1 DEF Knows
<1>7. OneOfEach'
  BY <1>1, <1>4, <1>6 DEF OneOfEach
<1>8. \A q \in Pids : (proc'[q] = Sup <=> proc[q] = Sup)
  BY <1>1, <1>4, Constant
<1>9. Orderly(p, x)
  BY <1>1, <1>2, <1>4, <1>8 DEF Orderly, Like, FileSame, Apart, Exiting
<1>10. \A m, q : InHand(x, m, q) <=> m = n /\ q = c
  BY <1>3, <1>4 DEF InHand, Service
<1>11. \A m \in Names, q \in PidOrNone : ~InHand(sup[p], m, q)
  BY <1>2 DEF InHand
<1>12. ASSUME NEW m \in Names, NEW q \in Pids, proc'[q] = m
       PROVE  /\ file'[m] = q \/ InHand(x, m, q)
              /\ \A r \in PidOrNone : InHand(x, m, r) => r = q
              /\ ~AboutToStart(x, m)
  <2>1. ~AboutToStart(x, m)
    BY <1>4 DEF AboutToStart
  <2>2. CASE q = c
    <3>1. m = n
      BY <1>4, <1>12, <2>2
    <3>2. QED
      BY <1>10, <2>1, <2>2, <3>1
  <2>3. CASE q # c
    <3>1. proc[q] = m /\ q \in PidOrNone
      BY <1>4, <1>12, <2>3 DEF PidOrNone
    <3>2. m # n
      BY <1>6, <3>1
    <3>3. file[m] = q
      BY <1>5, <1>11, <3>1 DEF Knows
    <3>4. QED
      BY <1>4, <1>10, <2>1, <3>2, <3>3 DEF FileSame
  <2>4. QED
    BY <2>2, <2>3
<1>13. Knows(x)'
  BY <1>12 DEF Knows, InHand, AboutToStart
<1>14. StopsByFile(x)'
  BY <1>4 DEF StopsByFile
<1>15. QED
  BY <1>4, <1>7, <1>9, <1>13, <1>14, CountMoves

LEMMA CountWritePid ==
    ASSUME ShapeInv, CountNow, NEW p \in Pids, WritePid(p)
    PROVE  CountNow'
<1>1. /\ proc[p] = Sup /\ OneOfEach /\ TypeOK /\ Sup \notin Names
      /\ ~Exiting(p) => Knows(sup[p])
      /\ sup[p] \in SupervisorState
  BY Mover DEF SupervisorStep
<1>2. sup[p].at = "write" /\ Service(p) \in Names
  BY WritePidEffect DEF WritePid, At
<1>3. PICK n \in Names : n = Service(p)
  BY <1>2
<1>4. PICK x \in SupervisorState :
         /\ Goes(p, x) /\ Like(p, x) /\ x.at \in {"top", "look"}
         /\ FileSets(n, sup[p].pid) /\ Apart /\ UNCHANGED proc
  BY <1>3, WritePidEffect
<1>5. Knows(sup[p]) /\ sup[p].pid \in PidOrNone
  BY <1>1, <1>2 DEF Exiting, SupervisorState
<1>6. OneOfEach'
  BY <1>1, <1>4, OneOfEachShrinks
<1>7. file'[Sup] = file[Sup]
  BY <1>1, <1>4 DEF FileSets
<1>8. Orderly(p, x)
  BY <1>1, <1>2, <1>4, <1>7 DEF Orderly, Like, Apart, Exiting
<1>9. \A m, q : InHand(sup[p], m, q) <=> m = n /\ q = sup[p].pid
  BY <1>2, <1>3 DEF InHand, Service
<1>10. \A m, q : ~InHand(x, m, q) /\ ~AboutToStart(x, m)
  BY <1>4 DEF InHand, AboutToStart
<1>11. ASSUME NEW m \in Names, NEW q \in Pids, proc'[q] = m
       PROVE  file'[m] = q
  <2>1. proc[q] = m
    BY <1>4, <1>11
  <2>2. /\ file[m] = q \/ InHand(sup[p], m, q)
        /\ \A r \in PidOrNone : InHand(sup[p], m, r) => r = q
    BY <1>5, <2>1 DEF Knows
  <2>3. CASE m = n
    BY <1>4, <1>5, <1>9, <2>2, <2>3 DEF FileSets
  <2>4. CASE m # n
    BY <1>4, <1>9, <2>2, <2>4 DEF FileSets
  <2>5. QED
    BY <2>3, <2>4
<1>12. Knows(x)'
  <2>1. \A m \in Names, q \in Pids : proc'[q] = m => file'[m] = q
    BY <1>11
  <2>2. QED
    BY <1>10, <2>1 DEF Knows, InHand, AboutToStart
<1>13. StopsByFile(x)'
  BY <1>4 DEF StopsByFile
<1>14. QED
  BY <1>4, <1>6, <1>8, <1>12, <1>13, CountMoves

LEMMA CountStopService ==
    ASSUME ShapeInv, CountNow, NEW p \in Pids, StopService(p)
    PROVE  CountNow'
<1>1. /\ proc[p] = Sup /\ OneOfEach /\ TypeOK /\ Sup \notin Names
      /\ ~Exiting(p) => Knows(sup[p])
      /\ sup[p].at = "stop" => sup[p].stopping /\ sup[p].back \in Back
  BY Mover DEF SupervisorStep
<1>2. sup[p].at = "stop" /\ sup[p].pid = NoPid /\ Service(p) \in Names
  BY StopServiceEffect
<1>3. PICK n \in Names : n = Service(p)
  BY <1>2
<1>4. PICK x \in SupervisorState :
         /\ Goes(p, x) /\ Like(p, x) /\ x.at = "stop" /\ Apart /\ UNCHANGED proc
         /\ \/ FileSame /\ x.i = sup[p].i /\ x.pid = file[n]
            \/ FileDrops(n) /\ ~FileRuns(n) /\ x.pid = NoPid
  BY <1>3, StopServiceEffect
<1>5. Knows(sup[p])
  BY <1>1, <1>2 DEF Exiting
<1>6. OneOfEach'
  BY <1>1, <1>4, OneOfEachShrinks
<1>7. file'[Sup] = file[Sup]
  BY <1>1, <1>4 DEF FileSame, FileDrops
<1>8. Orderly(p, x)
  BY <1>1, <1>2, <1>4, <1>7 DEF Orderly, Like, Apart, Exiting
<1>9. SameHand(x, sup[p])
  BY <1>2, <1>4 DEF SameHand, InHand, AboutToStart, Like
<1>10. CASE FileSame /\ x.i = sup[p].i /\ x.pid = file[n]
  <2>1. Knows(x)'
    BY <1>4, <1>5, <1>9, <1>10, KnowsSame DEF FileSame
  <2>2. StopsByFile(x)'
    BY <1>3, <1>10 DEF StopsByFile, FileSame, Service
  <2>3. QED
    BY <1>4, <1>6, <1>8, <2>1, <2>2, CountMoves
<1>11. CASE FileDrops(n) /\ ~FileRuns(n) /\ x.pid = NoPid
  <2>1. \A q \in Pids : proc[q] = n => InHand(sup[p], n, q)
    BY <1>5, <1>11, NotRunning
  <2>2. Knows(x)'
    BY <1>4, <1>5, <1>9, <1>11, <2>1, KnowsDropped
  <2>3. StopsByFile(x)'
    BY <1>11 DEF StopsByFile
  <2>4. QED
    BY <1>4, <1>6, <1>8, <2>2, <2>3, CountMoves
<1>12. QED
  BY <1>4, <1>10, <1>11

LEMMA CountStoppedService ==
    ASSUME ShapeInv, CountNow, NEW p \in Pids, StoppedService(p)
    PROVE  CountNow'
<1>1. /\ proc[p] = Sup /\ OneOfEach /\ TypeOK /\ Sup \notin Names
      /\ ~Exiting(p) => Knows(sup[p]) /\ StopsByFile(sup[p])
      /\ sup[p].at = "stop" => sup[p].stopping /\ sup[p].back \in Back
  BY Mover DEF SupervisorStep
<1>2. /\ Service(p) \in Names /\ sup[p].at = "stop"
      /\ sup[p].i > 0 /\ sup[p].pid # NoPid /\ sup[p].pid \in Pids
      /\ proc'[sup[p].pid] = Nil
      /\ \A q \in Pids : q # sup[p].pid => proc'[q] = proc[q]
  BY StoppedServiceEffect
<1>3. PICK n \in Names : n = Service(p)
  BY <1>2
<1>4. PICK x \in SupervisorState :
         /\ Goes(p, x) /\ Like(p, x) /\ x.at = "stop" /\ x.pid = NoPid
         /\ FileDrops(n) /\ Apart
  BY <1>3, StoppedServiceEffect
<1>5. Knows(sup[p]) /\ file[n] = sup[p].pid
  BY <1>1, <1>2, <1>3 DEF Exiting, StopsByFile, Service
<1>6. \A q \in Pids : proc'[q] = proc[q] \/ proc'[q] = Nil
  BY <1>2
<1>7. OneOfEach'
  BY <1>1, <1>6, OneOfEachShrinks
<1>8. file'[Sup] = file[Sup] /\ Sup # Nil /\ Nil \notin Names
  BY <1>1, <1>4, Constant DEF FileDrops
<1>9. Orderly(p, x)
  BY <1>1, <1>2, <1>4, <1>6, <1>8 DEF Orderly, Like, Apart, Exiting
<1>10. SameHand(x, sup[p])
  BY <1>2, <1>4 DEF SameHand, InHand, AboutToStart, Like
<1>11. ASSUME NEW q \in Pids, proc'[q] = n
       PROVE  InHand(sup[p], n, q)
  <2>1. q # sup[p].pid /\ proc[q] = n
    BY <1>2, <1>8, <1>11
  <2>2. QED
    BY <1>5, <2>1 DEF Knows
<1>12. \A q \in Pids : proc'[q] \in Names => proc'[q] = proc[q]
  BY <1>6, <1>8
<1>13. Knows(x)'
  BY <1>4, <1>5, <1>10, <1>11, <1>12, KnowsDropped
<1>14. StopsByFile(x)'
  BY <1>4 DEF StopsByFile
<1>15. QED
  BY <1>4, <1>7, <1>9, <1>13, <1>14, CountMoves

LEMMA CountStopAllReturns ==
    ASSUME ShapeInv, CountNow, NEW p \in Pids, StopAllReturns(p)
    PROVE  CountNow'
<1>1. /\ proc[p] = Sup /\ OneOfEach /\ TypeOK /\ Sup \notin Names
      /\ ~Exiting(p) => Knows(sup[p])
  BY Mover DEF SupervisorStep
<1>2. sup[p].at = "stop" /\ sup[p].stopping /\ sup[p].back \in Back
  BY StopAllReturnsEffect
<1>3. PICK x \in SupervisorState :
         /\ Goes(p, x) /\ Like(p, x) /\ x.at = sup[p].back[1]
         /\ x.i = sup[p].back[2] /\ x.pid = sup[p].back[3]
         /\ FileDrops(Sup) /\ Apart /\ UNCHANGED proc
  BY StopAllReturnsEffect
<1>4. x.at \in {"top", "look", "spawn", "write", "exit"}
  BY <1>2, <1>3 DEF Back
<1>5. OneOfEach'
  BY <1>1, <1>3, OneOfEachShrinks
<1>6. Orderly(p, x)
  BY <1>1, <1>2, <1>3 DEF Orderly, Like, Apart, Exiting
<1>7. SameHand(x, sup[p])
  BY <1>2, <1>3, <1>4 DEF SameHand, InHand, AboutToStart
<1>8. \A n \in Names : file'[n] = file[n]
  BY <1>1, <1>3 DEF FileDrops
<1>9. Knows(x)' /\ StopsByFile(x)'
  <2>1. Knows(x)'
    BY <1>1, <1>2, <1>3, <1>7, <1>8, KnowsSame DEF Exiting
  <2>2. QED
    BY <1>4, <2>1 DEF StopsByFile
<1>10. QED
  BY <1>3, <1>5, <1>6, <1>9, CountMoves

LEMMA CountExit ==
    ASSUME ShapeInv, CountNow, NEW p \in Pids, Exit(p)
    PROVE  CountNow'
<1>1. proc[p] = Sup /\ OneOfEach /\ TypeOK /\ Sup \notin Names
  BY Mover DEF SupervisorStep
<1>2. /\ sup[p].at = "exit" /\ proc'[p] = Nil
      /\ \A q \in Pids : q # p => proc'[q] = proc[q]
      /\ Goes(p, NewSup) /\ FileSame /\ Apart
  BY ExitEffect
<1>3. sup[p].stopping /\ Sup # Nil
  BY <1>2, Constant DEF ShapeInv, PlaceInv
<1>4. OneOfEach'
  BY <1>1, <1>2, OneOfEachShrinks
<1>5. Orderly(p, NewSup)
  BY <1>1, <1>2, <1>3 DEF Orderly, FileSame, Apart, Exiting
<1>6. QED
  BY <1>2, <1>3, <1>4, <1>5, NewSupTyped, CountMoves

------------------------------------------------------------------------------
(* How many of each run: the operator's scripts.                            *)

(* To be told to end changes nothing of what a supervisor knows.            *)
LEMMA KnowStill ==
    ASSUME ShapeInv, KnowInv,
           \A q \in Pids : sup'[q] = sup[q] \/ Terms(q),
           \A q \in Pids : proc'[q] = Sup => proc[q] = Sup,
           \A q \in Pids : proc'[q] \in Names => proc'[q] = proc[q],
           \A n \in Names : file'[n] = file[n]
    PROVE  KnowInv'
<1>1. ASSUME NEW p \in Pids, (proc[p] = Sup)', ~Exiting(p)'
      PROVE  Knows(sup[p])' /\ StopsByFile(sup[p])'
  <2>1. PICK y \in SupervisorState : y = sup[p]
    BY DEF ShapeInv, TypeOK
  <2>2. sup'[p] = y \/ sup'[p] = [y EXCEPT !.term = TRUE]
    BY <2>1 DEF Terms
  <2>3. PICK x : x = sup'[p]
    OBVIOUS
  <2>4. /\ x.at = y.at /\ x.i = y.i /\ x.pid = y.pid /\ x.back = y.back
    BY <2>2, <2>3 DEF SupervisorState
  <2>5. Knows(y) /\ StopsByFile(y)
    BY <1>1, <2>1, <2>3, <2>4 DEF KnowInv, Exiting
  <2>6. SameHand(x, y)
    BY <2>4 DEF SameHand, InHand, AboutToStart
  <2>7. Knows(x)'
    BY <2>5, <2>6, KnowsSame
  <2>8. StopsByFile(x)'
    <3>1. y.at = "stop" /\ y.i > 0 => Services[y.i] \in Names
      <4>1. y.i \in 0..Len(Services)
        BY DEF SupervisorState
      <4>2. y.i > 0 => y.i \in 1..Len(Services)
        BY <4>1, Constant
      <4>3. QED
        BY <4>2, Constant
    <3>2. QED
      BY <2>4, <2>5, <3>1 DEF StopsByFile
  <2>9. QED
    BY <2>3, <2>7, <2>8 DEF Knows, StopsByFile, InHand, AboutToStart
<1>2. QED
  BY <1>1 DEF KnowInv

(* When every supervisor leaves, none needs to know anything.               *)
LEMMA KnowNobody ==
    ASSUME \A q \in Pids : proc'[q] = Sup => sup'[q].at = "exit"
    PROVE  KnowInv'
  BY DEF KnowInv, Exiting

LEMMA CountStart ==
    ASSUME ShapeInv, CountNow, Start
    PROVE  CountNow'
<1>1. /\ op.at = "idle" /\ ~stopFile' /\ UNCHANGED <<proc, sup>>
      /\ \/ FileRuns(Sup) /\ FileSame /\ op' = op
         \/ /\ ~FileRuns(Sup) /\ FileDrops(Sup)
            /\ op'.at \in {"idle", "spawn"}
  BY StartEffect
<1>2. /\ (\A p \in Pids : proc[p] # Sup) => Nothing
      /\ \A p \in Pids : proc[p] = Sup =>
             file[Sup] = p /\ ~sup[p].term /\ ~sup[p].stopping
  BY <1>1 DEF CountNow, PhaseInv, IdleInv
<1>3. \A n \in Names : file'[n] = file[n]
  BY <1>1, Constant DEF FileSame, FileDrops
<1>4. KnowInv' /\ OneOfEach'
  BY <1>1, <1>3, KnowStill, OneOfEachShrinks DEF CountNow, ShapeInv
<1>5. CASE FileSame /\ op' = op
  <2>1. PhaseInv'
    BY <1>1, <1>2, <1>5 DEF PhaseInv, IdleInv, StartInv, FilesInv, OrphansInv, FileSame,
                            Nothing
  <2>2. QED
    BY <1>4, <2>1 DEF CountNow
<1>6. CASE ~FileRuns(Sup) /\ op'.at \in {"idle", "spawn"}
  <2>1. \A p \in Pids : proc[p] # Sup
    BY <1>2, <1>6, RunsFacts, Constant DEF ShapeInv
  <2>2. Nothing
    BY <1>2, <2>1
  <2>3. PhaseInv'
    BY <1>1, <1>6, <2>1, <2>2 DEF PhaseInv, IdleInv, StartInv, FilesInv, OrphansInv,
                                  Nothing
  <2>4. QED
    BY <1>4, <2>3 DEF CountNow
<1>7. QED
  BY <1>1, <1>5, <1>6

LEMMA CountStartSupervisor ==
    ASSUME ShapeInv, CountNow, StartSupervisor
    PROVE  CountNow'
<1>1. /\ op.at = "spawn" /\ FileSame /\ stopFile' = stopFile /\ op'.at = "write"
  BY StartSupervisorEffect DEF counters
<1>2. PICK p \in Pids :
         /\ op'.pid = p /\ proc'[p] = Sup
         /\ \A q \in Pids : q # p => proc'[q] = proc[q]
         /\ sup' = [sup EXCEPT ![p] = NewSup]
  BY StartSupervisorEffect
<1>3. ~stopFile /\ Nothing
  BY <1>1 DEF CountNow, PhaseInv, StartInv
<1>4. /\ Sup # Nil /\ Sup \notin Names /\ Nil \notin Names
      /\ \A q \in Pids : q # p => proc'[q] = Nil
  BY <1>2, <1>3, Constant DEF Nothing
<1>5. sup'[p] = NewSup
  BY <1>2 DEF ShapeInv, TypeOK
<1>6. OneOfEach'
  BY <1>2, <1>4 DEF OneOfEach
<1>7. KnowInv'
  <2>1. ASSUME NEW q \in Pids, (proc[q] = Sup)'
        PROVE  Knows(sup[q])' /\ StopsByFile(sup[q])'
    <3>1. q = p
      BY <1>2, <1>4, <2>1
    <3>2. Knows(sup[q])'
      BY <1>2, <1>4 DEF Knows
    <3>3. StopsByFile(sup[q])'
      BY <1>5, <3>1, NewSupTyped DEF StopsByFile
    <3>4. QED
      BY <3>2, <3>3
  <2>2. QED
    BY <2>1 DEF KnowInv
<1>8. PhaseInv'
  BY <1>1, <1>2, <1>3, <1>4, <1>5, NewSupTyped
     DEF PhaseInv, IdleInv, StartInv, FilesInv, OrphansInv
<1>9. QED
  BY <1>6, <1>7, <1>8 DEF CountNow

LEMMA CountWriteSupervisorPid ==
    ASSUME ShapeInv, CountNow, WriteSupervisorPid
    PROVE  CountNow'
<1>1. /\ op.at = "write" /\ op.pid \in Pids /\ FileSets(Sup, op.pid) /\ op'.at = "idle"
      /\ UNCHANGED <<proc, stopFile, sup>>
  BY WriteSupervisorPidEffect, IdleTyped
<1>2. /\ ~stopFile /\ \A p \in Pids : proc[p] = Sup <=> p = op.pid
      /\ ~sup[op.pid].term /\ ~sup[op.pid].stopping
  BY <1>1 DEF CountNow, PhaseInv, StartInv
<1>3. \A n \in Names : file'[n] = file[n]
  BY <1>1, Constant DEF FileSets
<1>4. KnowInv' /\ OneOfEach'
  BY <1>1, <1>3, KnowStill, OneOfEachShrinks DEF CountNow, ShapeInv
<1>5. PhaseInv'
  BY <1>1, <1>2 DEF PhaseInv, IdleInv, StartInv, FilesInv, OrphansInv, FileSets
<1>6. QED
  BY <1>4, <1>5 DEF CountNow

LEMMA CountStop ==
    ASSUME ShapeInv, CountNow, Stop
    PROVE  CountNow'
<1>1. /\ op.at = "idle" /\ UNCHANGED <<proc, sup>> /\ FileSame
      /\ op'.at = "files" /\ op'.pid = NoPid /\ op'.i = Len(Services) + 1
  BY StopEffect
<1>2. \A p \in Pids : proc[p] = Sup =>
          file[Sup] = p /\ ~sup[p].term /\ ~sup[p].stopping
  BY <1>1 DEF CountNow, PhaseInv, IdleInv
<1>3. KnowInv' /\ OneOfEach'
  BY <1>1, KnowStill, OneOfEachShrinks DEF CountNow, ShapeInv, FileSame
<1>4. ~(op'.i <= Len(Services))
  BY <1>1, Constant
<1>5. PhaseInv'
  BY <1>1, <1>2, <1>4 DEF PhaseInv, IdleInv, StartInv, FilesInv, OrphansInv, FileSame
<1>6. QED
  BY <1>3, <1>5 DEF CountNow

(* Every supervisor leaves, so that nothing is left to show of them.        *)
LEMMA AllLeave ==
    ASSUME TypeOK, OneOfEach, op'.at \in {"files", "orphans", "supervisors"},
           op'.at = "files" => op'.i <= Len(Services),
           \A q \in Pids : proc'[q] = Sup => sup'[q].at = "exit",
           \A q \in Pids : proc'[q] = proc[q] \/ proc'[q] = Nil
    PROVE  CountNow'
<1>1. KnowInv' /\ OneOfEach'
  BY KnowNobody, OneOfEachShrinks
<1>2. PhaseInv'
  BY DEF PhaseInv, IdleInv, StartInv, FilesInv, OrphansInv, Exiting
<1>3. QED
  BY <1>1, <1>2 DEF CountNow

(* Where a supervisor is does not change when it is told to end.            *)
LEMMA TermsKeep ==
    ASSUME ShapeInv, NEW q \in Pids, sup'[q] = sup[q] \/ Terms(q)
    PROVE  /\ sup'[q].at = sup[q].at /\ sup'[q].stopping = sup[q].stopping
           /\ sup'[q].back = sup[q].back
  BY DEF ShapeInv, TypeOK, SupervisorState, Terms

LEMMA CountStopByFile ==
    ASSUME ShapeInv, CountNow, StopByFile
    PROVE  CountNow'
<1>1. /\ op.at = "files" /\ op.i > 0 /\ op.pid = NoPid /\ proc' = proc
      /\ op'.at = "files"
      /\ \/ /\ FileRuns(Target) /\ FileSame
            /\ op'.i = op.i /\ op'.pid = file[Target] /\ op'.pid \in Pids
            /\ \A q \in Pids : sup'[q] = sup[q] \/ Terms(q)
         \/ /\ ~FileRuns(Target) /\ FileDrops(Target)
            /\ op'.i = op.i - 1 /\ op'.pid = NoPid /\ sup' = sup
  BY StopByFileEffect
<1>2. /\ op.i \in 1..Len(Services) + 1 /\ Len(Services) \in Nat
      /\ op.i > Len(Services) => Target = Sup
      /\ TypeOK /\ OneOfEach
  BY <1>1, TargetTyped, Constant DEF ShapeInv, CountNow
<1>3. \A q \in Pids : sup'[q].at = sup[q].at
  BY <1>1, TermsKeep
<1>4. CASE op.i <= Len(Services)
  <2>1. \A q \in Pids : proc[q] = Sup => sup[q].at = "exit"
    BY <1>1, <1>4 DEF CountNow, PhaseInv, FilesInv, Exiting
  <2>2. op'.i <= Len(Services)
    BY <1>1, <1>2, <1>4
  <2>3. QED
    BY <1>1, <1>2, <1>3, <2>1, <2>2, AllLeave
<1>5. CASE op.i = Len(Services) + 1
  <2>1. /\ Target = Sup /\ ~(op.i <= Len(Services))
    BY <1>2, <1>5
  <2>2. \A q \in Pids : proc[q] = Sup => sup[q].at = "exit" \/ file[Sup] = q
    BY <1>1, <2>1 DEF CountNow, PhaseInv, FilesInv, Exiting
  <2>3. CASE FileRuns(Sup)
    <3>1. /\ op'.i = op.i /\ op'.pid = file[Sup] /\ op'.pid \in Pids /\ FileSame
          /\ \A q \in Pids : sup'[q] = sup[q] \/ Terms(q)
      BY <1>1, <2>1, <2>3
    <3>2. KnowInv' /\ OneOfEach'
      BY <1>1, <1>2, <3>1, KnowStill, OneOfEachShrinks DEF CountNow, FileSame
    <3>3. op'.pid # NoPid
      BY <3>1, Constant
    <3>4. PhaseInv'
      BY <1>1, <1>3, <2>1, <2>2, <3>1, <3>3
         DEF PhaseInv, IdleInv, StartInv, FilesInv, OrphansInv, Exiting
    <3>5. QED
      BY <3>2, <3>4 DEF CountNow
  <2>4. CASE ~FileRuns(Sup)
    <3>1. op'.i = op.i - 1
      BY <1>1, <2>1, <2>4
    <3>2. op'.i <= Len(Services)
      BY <1>2, <1>5, <3>1
    <3>3. \A q \in Pids : proc[q] = Sup => sup[q].at = "exit"
      BY <1>2, <2>2, <2>4, RunsFacts, Constant
    <3>4. QED
      BY <1>1, <1>2, <1>3, <3>2, <3>3, AllLeave
  <2>5. QED
    BY <2>3, <2>4
<1>6. QED
  BY <1>2, <1>4, <1>5

LEMMA CountStoppedByFile ==
    ASSUME ShapeInv, CountNow, StoppedByFile
    PROVE  CountNow'
<1>1. /\ op.at = "files" /\ op.i > 0 /\ op.pid \in Pids
      /\ proc'[op.pid] = Nil
      /\ \A q \in Pids : q # op.pid => proc'[q] = proc[q]
      /\ sup' = [sup EXCEPT ![op.pid] = NewSup]
      /\ op'.at = "files" /\ op'.i = op.i - 1
  BY StoppedByFileEffect
<1>2. /\ op'.i <= Len(Services) /\ op.pid # NoPid /\ Sup # Nil
  BY <1>1, TargetTyped, Constant
<1>3. ASSUME NEW q \in Pids, proc'[q] = Sup
      PROVE  sup'[q].at = "exit"
  <2>1. q # op.pid /\ proc[q] = Sup
    BY <1>1, <1>2, <1>3
  <2>2. sup[q].at = "exit"
    BY <1>1, <1>2, <2>1 DEF CountNow, PhaseInv, FilesInv, Exiting
  <2>3. sup'[q] = sup[q]
    BY <1>1, <2>1 DEF ShapeInv, TypeOK
  <2>4. QED
    BY <2>2, <2>3
<1>4. QED
  BY <1>1, <1>2, <1>3, AllLeave DEF ShapeInv, CountNow

(* Nothing runs, whatever the script does next.                             *)
LEMMA NothingCounts ==
    ASSUME Nothing', op'.at \in {"clean", "stopped"} \/ (op'.at = "idle" /\ ~stopFile')
    PROVE  CountNow'
<1>1. Sup # Nil /\ Sup \notin Names /\ Nil \notin Names
  BY Constant
<1>2. KnowInv' /\ OneOfEach'
  BY <1>1 DEF Nothing, KnowInv, OneOfEach
<1>3. PhaseInv'
  BY <1>1 DEF Nothing, PhaseInv, IdleInv, StartInv, FilesInv, OrphansInv
<1>4. QED
  BY <1>2, <1>3 DEF CountNow

LEMMA CountOrphans ==
    ASSUME ShapeInv, CountNow, Rounds >= 2,
           LookForOrphans \/ StopOrphans \/ TermSupervisors
    PROVE  CountNow'
<1>1. CASE LookForOrphans
  <2>1. /\ op.at = "files" /\ op.i = 0 /\ UNCHANGED <<proc, sup>> /\ op'.at = "orphans"
    BY <1>1, LookForOrphansEffect, Constant
  <2>2. op.i <= Len(Services)
    BY <2>1, Constant
  <2>3. \A q \in Pids : proc[q] = Sup => sup[q].at = "exit"
    BY <2>1, <2>2 DEF CountNow, PhaseInv, FilesInv, Exiting
  <2>4. QED
    BY <2>1, <2>3, AllLeave DEF ShapeInv, CountNow
<1>2. CASE StopOrphans
  <2>1. /\ op.at = "orphans" /\ op'.at = "orphans" /\ sup' = sup
        /\ \A q \in Pids : proc'[q] = proc[q] \/ proc'[q] = Nil
    BY <1>2, StopOrphansEffect
  <2>2. \A q \in Pids : proc'[q] = Sup => sup'[q].at = "exit"
    BY <2>1, Constant DEF CountNow, PhaseInv, OrphansInv, Exiting
  <2>3. QED
    BY <2>1, <2>2, AllLeave DEF ShapeInv, CountNow
<1>3. CASE TermSupervisors
  <2>1. /\ op.at = "orphans" /\ op'.at = "supervisors" /\ proc' = proc
        /\ \A q \in Pids : sup'[q] = sup[q] \/ Terms(q)
    BY <1>3, TermSupervisorsEffect
  <2>2. \A q \in Pids : proc'[q] = Sup => sup'[q].at = "exit"
    BY <2>1, TermsKeep DEF CountNow, PhaseInv, OrphansInv, Exiting
  <2>3. QED
    BY <2>1, <2>2, AllLeave DEF ShapeInv, CountNow
<1>4. QED
  BY <1>1, <1>2, <1>3

LEMMA CountKillSupervisors ==
    ASSUME ShapeInv, StopInv', CountNow, KillSupervisors
    PROVE  CountNow'
<1>1. /\ \A q \in Pids : /\ proc'[q] # Sup
                         /\ proc'[q] = proc[q] \/ proc'[q] = Nil
      /\ op'.at \in {"orphans", "clean"}
  BY KillSupervisorsEffect
<1>2. CASE op'.at = "orphans"
  BY <1>1, <1>2, AllLeave DEF ShapeInv, CountNow
<1>3. CASE op'.at = "clean"
  BY <1>3, NothingCounts DEF StopInv
<1>4. QED
  BY <1>1, <1>2, <1>3

LEMMA CountCleanUp ==
    ASSUME ShapeInv, StopInv, CountNow, CleanUp \/ Stopped
    PROVE  CountNow'
<1>1. CASE CleanUp
  <2>1. op.at = "clean" /\ proc' = proc /\ op'.at = "stopped"
    BY <1>1, CleanUpEffect
  <2>2. Nothing'
    BY <2>1 DEF StopInv, Nothing
  <2>3. QED
    BY <2>1, <2>2, NothingCounts
<1>2. CASE Stopped
  <2>1. op.at = "stopped" /\ UNCHANGED <<proc, stopFile>> /\ op'.at = "idle"
    BY <1>2, IdleTyped DEF Stopped
  <2>2. Nothing'
    BY <2>1 DEF StopInv, Nothing
  <2>3. ~stopFile'
    BY <2>1 DEF ShapeInv, RoundInv
  <2>4. QED
    BY <2>1, <2>2, <2>3, NothingCounts
<1>3. QED
  BY <1>1, <1>2

------------------------------------------------------------------------------
(* How many of each run: any step.                                          *)

LEMMA CountSupervisor ==
    ASSUME ShapeInv, CountNow, NEW p \in Pids, SupervisorStep(p)
    PROVE  CountNow'
  BY CountBegin, CountTop, CountHandleTerm, CountLook, CountStartService, CountWritePid,
     CountStopService, CountStoppedService, CountStopAllReturns, CountExit
     DEF SupervisorStep

LEMMA CountOperator ==
    ASSUME ShapeInv, StopInv, StopInv', CountNow, Rounds >= 2, Operator
    PROVE  CountNow'
  BY CountStart, CountStartSupervisor, CountWriteSupervisorPid, CountStop,
     CountStopByFile, CountStoppedByFile, CountOrphans, CountKillSupervisors, CountCleanUp
     DEF Operator

LEMMA CountServiceEnds ==
    ASSUME ShapeInv, CountNow, NEW p \in Pids, ServiceEnds(p)
    PROVE  CountNow'
<1>1. /\ proc[p] \in Names /\ proc'[p] = Nil
      /\ \A q \in Pids : q # p => proc'[q] = proc[q]
      /\ UNCHANGED <<file, stopFile, sup, op>>
  BY ServiceEndsEffect
<1>2. /\ Sup # Nil /\ Sup \notin Names /\ Nil \notin Names
      /\ \A q \in Pids : proc'[q] = proc[q] \/ proc'[q] = Nil
      /\ \A q \in Pids : (proc'[q] = Sup <=> proc[q] = Sup)
  BY <1>1, Constant
<1>3. KnowInv' /\ OneOfEach'
  BY <1>1, <1>2, KnowStill, OneOfEachShrinks DEF CountNow, ShapeInv
<1>4. PhaseInv'
  BY <1>1, <1>2
     DEF CountNow, PhaseInv, IdleInv, StartInv, FilesInv, OrphansInv, Exiting, Nothing
<1>5. QED
  BY <1>3, <1>4 DEF CountNow

LEMMA CountInit == Init => CountInv
<1> SUFFICES ASSUME Init
             PROVE  CountNow
  BY DEF CountInv
<1>1. Nothing /\ op.at = "idle" /\ ~stopFile
  BY IdleTyped DEF Init, Nothing
<1>2. Sup # Nil /\ Sup \notin Names /\ Nil \notin Names
  BY Constant
<1>3. KnowInv /\ OneOfEach
  BY <1>1, <1>2 DEF Nothing, KnowInv, OneOfEach
<1>4. PhaseInv
  BY <1>1, <1>2 DEF Nothing, PhaseInv, IdleInv, StartInv, FilesInv, OrphansInv
<1>5. QED
  BY <1>3, <1>4 DEF CountNow

LEMMA CountNext ==
    ASSUME Rounds >= 2
    PROVE  ShapeInv /\ StopInv /\ StopInv' /\ CountInv /\ [Next]_vars => CountInv'
<1> SUFFICES ASSUME ShapeInv, StopInv, StopInv', CountInv, [Next]_vars, ~signalled'
             PROVE  CountNow'
  BY DEF CountInv
<1>1. ASSUME NEW p \in Pids, SupervisorStep(p)
      PROVE  CountNow'
  <2>1. signalled' = signalled
    BY <1>1 DEF SupervisorStep, Begin, Top, HandleTerm, Look, StartService, WritePid,
                StopService, StoppedService, StopAllReturns, Exit, counters
  <2>2. QED
    BY <1>1, <2>1, CountSupervisor DEF CountInv
<1>2. ASSUME NEW p \in Pids, ServiceEnds(p)
      PROVE  CountNow'
  <2>1. signalled' = signalled
    BY <1>2, ServiceEndsEffect
  <2>2. QED
    BY <1>2, <2>1, CountServiceEnds DEF CountInv
<1>3. ASSUME NEW p \in Pids, Signal(p)
      PROVE  FALSE
  BY <1>3, SignalEffect
<1>4. CASE Operator
  <2>1. signalled' = signalled
    BY <1>4 DEF Operator, Start, StartSupervisor, WriteSupervisorPid, Stop, StopByFile,
                StoppedByFile, LookForOrphans, StopOrphans, TermSupervisors,
                KillSupervisors, CleanUp, Stopped, counters
  <2>2. QED
    BY <1>4, <2>1, CountOperator DEF CountInv
<1>5. CASE UNCHANGED vars
  BY <1>5 DEF vars, counters, CountInv, CountNow, PhaseInv, IdleInv, StartInv, FilesInv,
              OrphansInv, Exiting, Nothing, KnowInv, Knows, StopsByFile, InHand,
              AboutToStart, OneOfEach
<1>6. QED
  BY <1>1, <1>2, <1>3, <1>4, <1>5 DEF Next

LEMMA CountInvariant ==
    ASSUME Rounds >= 2
    PROVE  Spec => []CountInv
<1>1. ShapeInv /\ StopInv /\ StopInv' /\ CountInv /\ [Next]_vars => CountInv'
  BY CountNext
<1>2. Spec => []StopInv
  BY StopInvariant
<1>3. QED
  BY <1>1, <1>2, CountInit, ShapeInvariant, PTL DEF Spec

(* At most one process of a name.                                           *)
LEMMA AtMostOne ==
    ASSUME NEW S, S \subseteq Pids, \A p, q \in S : p = q
    PROVE  Cardinality(S) <= 1
<1>1. CASE S = {}
  BY <1>1, FS_EmptySet
<1>2. ASSUME NEW p \in S
      PROVE  Cardinality(S) <= 1
  <2>1. S = {p}
    OBVIOUS
  <2>2. QED
    BY <2>1, FS_Singleton
<1>3. QED
  BY <1>1, <1>2

(* As long as nobody signals a supervisor, no service and no supervisor     *)
(* runs twice: whatever ends by itself, at whatever place of its loop the   *)
(* supervisor is stopped, however often the runtime is started and stopped, *)
(* and although a pid may come to belong to another service.                *)
THEOREM OneInstanceHolds ==
    ASSUME Rounds >= 2
    PROVE  Spec => []OneInstance
<1>1. CountInv => OneInstance
  <2>1. SUFFICES ASSUME CountInv, ~signalled, NEW n \in Names \cup {Sup}
                 PROVE  Cardinality(Running(n)) <= 1
    BY DEF OneInstance
  <2>2. Running(n) \subseteq Pids /\ \A p, q \in Running(n) : p = q
    BY <2>1 DEF CountInv, CountNow, OneOfEach, Running
  <2>3. QED
    BY <2>2, AtMostOne
<1>2. Spec => []CountInv
  BY CountInvariant
<1>3. QED
  BY <1>1, <1>2, PTL
==============================================================================
