----------------------------- MODULE Supervisor -----------------------------
(***************************************************************************)
(* The runtime scripts: start_runtime.sh starts a supervisor in the back-   *)
(* ground, which starts the services that do not run and looks after them;  *)
(* stop_runtime.sh ends them all.  The scripts share nothing but pid files  *)
(* and the file stop-requested, and take no lock.                           *)
(*                                                                          *)
(* Processes: the operator runs one script at a time; every supervisor is a *)
(* bash process, which handles TERM between two commands; services start,   *)
(* end by themselves, and are killed.  A script reads and writes one pid    *)
(* file per step, so that a signal or another script comes in between.      *)
(*                                                                          *)
(* Abstracted: the tests of preflight_runtime for missing files; the time   *)
(* that stop_pid_file waits before kill -9, which may come at any moment.   *)
(***************************************************************************)
EXTENDS Naturals, Sequences, FiniteSets, SequencesExt

CONSTANTS Services,     (* the services, in the order they are started      *)
          PortServices, (* those started after a test of their port         *)
          Rounds,       (* how often stop_runtime looks for orphans: 3      *)
          Recycled,     (* TRUE: the kernel gives a pid out again           *)
          MaxPid,       (* bound: process ids                               *)
          MaxCommands,  (* bound: scripts run by the operator               *)
          MaxFaults     (* bound: services that end by themselves, and      *)
                        (* signals to a supervisor from outside             *)

Names == ToSet(Services)
Sup   == "supervisor"
Nil   == "none"
Pids  == 1..MaxPid
NoPid == 0

ASSUME SupervisorAssumption ==
    /\ Services \in Seq(Names) /\ Services # <<>>
    /\ IsInjective(Services) /\ {Sup, Nil} \cap Names = {}
    /\ PortServices \subseteq Names
    /\ Recycled \in BOOLEAN
    /\ \A n \in {Rounds, MaxPid, MaxCommands, MaxFaults} : n \in Nat

VARIABLES proc,     (* what runs under each pid                            *)
          last,     (* the highest pid given out                           *)
          file,     (* the pid files                                       *)
          stopFile, (* does STOP_REQUEST_FILE exist?                       *)
          sup,      (* where each supervisor is                            *)
          op,       (* where the operator's script is                      *)
          commands, faults,  (* counters for the bounds                    *)
          signalled (* history: was a supervisor signalled from outside?   *)

counters == <<commands, faults, signalled>>
vars == <<proc, last, file, stopFile, sup, op, counters>>

(* A supervisor: the command it comes to, the service it is at, the pid it  *)
(* has in hand; STOPPING; a TERM it has not handled; and where it was when  *)
(* stop_all was called.                                                     *)
NewSup == [at |-> "begin", i |-> 1, pid |-> NoPid, stopping |-> FALSE,
           term |-> FALSE, back |-> <<>>]

Idle == [at |-> "idle", i |-> 0, pid |-> NoPid, round |-> 0]

Init ==
    /\ proc = [p \in Pids |-> Nil]
    /\ last = 0
    /\ file = [n \in Names \cup {Sup} |-> NoPid]
    /\ stopFile = FALSE
    /\ sup = [p \in Pids |-> NewSup]
    /\ op = Idle
    /\ commands = 0 /\ faults = 0 /\ signalled = FALSE

Runs(p)       == p # NoPid /\ proc[p] # Nil
Running(n)    == {p \in Pids : proc[p] = n}
Supervisors   == Running(Sup)

(* Faulty variant: a pid file is believed without a look at the process.    *)
FileExists(n) == file[n] # NoPid

(* is_pid_file_running.                                                     *)
FileRuns(n) == Runs(file[n])

(* port_in_use, for a service that binds a port.                            *)
PortTaken(n) == n \in PortServices /\ Running(n) # {}

FreePids == {p \in Pids : proc[p] = Nil /\ (Recycled \/ p > last)}

Spawn(p, n) ==
    /\ p \in FreePids
    /\ \A q \in FreePids : p <= q
    /\ proc' = [proc EXCEPT ![p] = n]
    /\ last' = IF p > last THEN p ELSE last

Delete(n) == file' = [file EXCEPT ![n] = NoPid]

------------------------------------------------------------------------------
(* The supervisor p.                                                        *)

Goes(p, state) == sup' = [sup EXCEPT ![p] = state]
At(p, at)      == proc[p] = Sup /\ sup[p].at = at
Service(p)     == Services[sup[p].i]

(* The next service, or sleep and the loop again.                           *)
Onward(p) == IF sup[p].i = Len(Services)
             THEN [sup[p] EXCEPT !.at = "top", !.i = 1, !.pid = NoPid]
             ELSE [sup[p] EXCEPT !.at = "look", !.i = @ + 1, !.pid = NoPid]

Begin(p) ==
    /\ At(p, "begin")
    /\ file' = [file EXCEPT ![Sup] = p]
    /\ Goes(p, [sup[p] EXCEPT !.at = "top"])
    /\ UNCHANGED <<proc, last, stopFile, op, counters>>

(* stop_all begins: it does nothing the second time.                        *)
CallStopAll(p, back) ==
    Goes(p, IF sup[p].stopping
            THEN [sup[p] EXCEPT !.at = back[1], !.i = back[2], !.pid = back[3],
                                !.term = FALSE]
            ELSE [sup[p] EXCEPT !.at = "stop", !.i = Len(Services), !.pid = NoPid,
                                !.stopping = TRUE, !.term = FALSE, !.back = back])

(* exit 0 runs stop_all by the trap on EXIT.                                *)
Top(p) ==
    /\ At(p, "top")
    /\ IF stopFile THEN CallStopAll(p, <<"exit", 1, NoPid>>)
       ELSE Goes(p, [sup[p] EXCEPT !.at = "look", !.i = 1])
    /\ UNCHANGED <<proc, last, file, stopFile, op, counters>>

(* trap stop_all INT TERM: the loop goes on where it was.                   *)
HandleTerm(p) ==
    /\ proc[p] = Sup /\ sup[p].term
    /\ sup[p].at \in {"top", "look", "spawn", "write"}
    /\ CallStopAll(p, <<sup[p].at, sup[p].i, sup[p].pid>>)
    /\ UNCHANGED <<proc, last, file, stopFile, op, counters>>

(* start_service, start_port_service: remove a stale pid file, and go on if *)
(* the service runs.                                                        *)
Look(p) ==
    /\ At(p, "look")
    /\ IF FileRuns(Service(p))
       THEN UNCHANGED file /\ Goes(p, Onward(p))
       ELSE /\ Delete(Service(p))
            /\ Goes(p, IF PortTaken(Service(p)) THEN Onward(p)
                       ELSE [sup[p] EXCEPT !.at = "spawn"])
    /\ UNCHANGED <<proc, last, stopFile, op, counters>>

StartService(p) ==
    /\ At(p, "spawn")
    /\ \E child \in FreePids :
          /\ Spawn(child, Service(p))
          /\ Goes(p, [sup[p] EXCEPT !.at = "write", !.pid = child])
    /\ UNCHANGED <<file, stopFile, op, counters>>

WritePid(p) ==
    /\ At(p, "write")
    /\ file' = [file EXCEPT ![Service(p)] = sup[p].pid]
    /\ Goes(p, Onward(p))
    /\ UNCHANGED <<proc, last, stopFile, op, counters>>

(* stop_pid_file within stop_all: read the file and TERM the process ...    *)
StopService(p) ==
    /\ At(p, "stop") /\ sup[p].i > 0 /\ sup[p].pid = NoPid
    /\ IF FileRuns(Service(p))
       THEN /\ Goes(p, [sup[p] EXCEPT !.pid = file[Service(p)]])
            /\ UNCHANGED file
       ELSE /\ Goes(p, [sup[p] EXCEPT !.i = @ - 1])
            /\ Delete(Service(p))
    /\ UNCHANGED <<proc, last, stopFile, op, counters>>

(* ... and when it has ended, by then or by kill -9, remove the file.       *)
StoppedService(p) ==
    /\ At(p, "stop") /\ sup[p].i > 0 /\ sup[p].pid # NoPid
    /\ proc' = [proc EXCEPT ![sup[p].pid] = Nil]
    /\ Delete(Service(p))
    /\ Goes(p, [sup[p] EXCEPT !.i = @ - 1, !.pid = NoPid])
    /\ UNCHANGED <<last, stopFile, op, counters>>

StopAllReturns(p) ==
    /\ At(p, "stop") /\ sup[p].i = 0
    /\ Delete(Sup)
    /\ LET back == sup[p].back
       IN Goes(p, [sup[p] EXCEPT !.at = back[1], !.i = back[2], !.pid = back[3]])
    /\ UNCHANGED <<proc, last, stopFile, op, counters>>

Exit(p) ==
    /\ At(p, "exit")
    /\ proc' = [proc EXCEPT ![p] = Nil]
    /\ Goes(p, NewSup)
    /\ UNCHANGED <<last, file, stopFile, op, counters>>

SupervisorStep(p) ==
    \/ Begin(p) \/ Top(p) \/ HandleTerm(p) \/ Look(p) \/ StartService(p)
    \/ WritePid(p) \/ StopService(p) \/ StoppedService(p) \/ StopAllReturns(p)
    \/ Exit(p)

------------------------------------------------------------------------------
(* start_runtime.sh.                                                        *)

(* preflight_runtime: the ports are free, or ours.                          *)
Preflight == \A n \in PortServices : FileRuns(n) \/ ~PortTaken(n)

Start ==
    /\ op = Idle /\ commands < MaxCommands
    /\ commands' = commands + 1
    /\ stopFile' = FALSE
    /\ IF FileRuns(Sup)
       THEN UNCHANGED <<file, op>>
       ELSE /\ Delete(Sup)
            /\ op' = IF Preflight THEN [Idle EXCEPT !.at = "spawn"] ELSE Idle
    /\ UNCHANGED <<proc, last, sup, faults, signalled>>

StartSupervisor ==
    /\ op.at = "spawn"
    /\ \E p \in FreePids :
          /\ Spawn(p, Sup)
          /\ sup' = [sup EXCEPT ![p] = NewSup]
          /\ op' = [op EXCEPT !.at = "write", !.pid = p]
    /\ UNCHANGED <<file, stopFile, counters>>

WriteSupervisorPid ==
    /\ op.at = "write"
    /\ file' = [file EXCEPT ![Sup] = op.pid]
    /\ op' = Idle
    /\ UNCHANGED <<proc, last, stopFile, sup, counters>>

------------------------------------------------------------------------------
(* stop_runtime.sh: the supervisor and the services by their pid files (the *)
(* last service first), then what pgrep finds, then the files.              *)

Stop ==
    /\ op = Idle /\ commands < MaxCommands
    /\ commands' = commands + 1
    /\ stopFile' = TRUE
    /\ op' = [Idle EXCEPT !.at = "files", !.i = Len(Services) + 1]
    /\ UNCHANGED <<proc, last, file, sup, faults, signalled>>

Target == IF op.i > Len(Services) THEN Sup ELSE Services[op.i]

(* stop_pid_file: TERM to the process of the file, if it runs ...           *)
StopByFile ==
    /\ op.at = "files" /\ op.i > 0 /\ op.pid = NoPid
    /\ IF FileRuns(Target)
       THEN /\ op' = [op EXCEPT !.pid = file[Target]]
            /\ sup' = IF proc[file[Target]] = Sup
                      THEN [sup EXCEPT ![file[Target]].term = TRUE] ELSE sup
            /\ UNCHANGED file
       ELSE /\ op' = [op EXCEPT !.i = @ - 1]
            /\ Delete(Target)
            /\ UNCHANGED sup
    /\ UNCHANGED <<proc, last, stopFile, counters>>

(* ... and the file, when it has ended or was killed.                       *)
StoppedByFile ==
    /\ op.at = "files" /\ op.i > 0 /\ op.pid # NoPid
    /\ proc' = [proc EXCEPT ![op.pid] = Nil]
    /\ Delete(Target)
    /\ op' = [op EXCEPT !.i = @ - 1, !.pid = NoPid]
    /\ sup' = [sup EXCEPT ![op.pid] = NewSup]
    /\ UNCHANGED <<last, stopFile, counters>>

(* Faulty variants: the pid files are taken for all there is; pgrep is      *)
(* asked once.                                                              *)
NoRounds == 0
OneRound == 1

OrphanRounds == Rounds

LookForOrphans ==
    /\ op.at = "files" /\ op.i = 0
    /\ op' = IF OrphanRounds = 0 THEN [Idle EXCEPT !.at = "clean"]
             ELSE [Idle EXCEPT !.at = "orphans", !.i = Len(Services), !.round = 1]
    /\ UNCHANGED <<proc, last, file, stopFile, sup, counters>>

(* stop_matching_processes for a service: TERM, then kill -9 for what pgrep *)
(* still finds.                                                             *)
StopOrphans ==
    /\ op.at = "orphans" /\ op.i > 0
    /\ proc' = [p \in Pids |-> IF proc[p] = Services[op.i] THEN Nil ELSE proc[p]]
    /\ op' = [op EXCEPT !.i = @ - 1]
    /\ UNCHANGED <<last, file, stopFile, sup, counters>>

(* The same for the supervisors, which may handle the TERM first.           *)
TermSupervisors ==
    /\ op.at = "orphans" /\ op.i = 0
    /\ sup' = [p \in Pids |-> IF proc[p] = Sup THEN [sup[p] EXCEPT !.term = TRUE]
                              ELSE sup[p]]
    /\ op' = [op EXCEPT !.at = "supervisors"]
    /\ UNCHANGED <<proc, last, file, stopFile, counters>>

KillSupervisors ==
    /\ op.at = "supervisors"
    /\ proc' = [p \in Pids |-> IF proc[p] = Sup THEN Nil ELSE proc[p]]
    /\ op' = IF op.round < OrphanRounds
             THEN [op EXCEPT !.at = "orphans", !.i = Len(Services), !.round = @ + 1]
             ELSE [Idle EXCEPT !.at = "clean"]
    /\ sup' = [p \in Pids |-> NewSup]
    /\ UNCHANGED <<last, file, stopFile, counters>>

CleanUp ==
    /\ op.at = "clean"
    /\ file' = [n \in Names \cup {Sup} |-> NoPid]
    /\ stopFile' = FALSE
    /\ op' = [Idle EXCEPT !.at = "stopped"]
    /\ UNCHANGED <<proc, last, sup, counters>>

(* "runtime stopped".                                                       *)
Stopped ==
    /\ op.at = "stopped"
    /\ op' = Idle
    /\ UNCHANGED <<proc, last, file, stopFile, sup, counters>>

Operator ==
    \/ Start \/ StartSupervisor \/ WriteSupervisorPid
    \/ Stop \/ StopByFile \/ StoppedByFile \/ LookForOrphans \/ StopOrphans
    \/ TermSupervisors \/ KillSupervisors \/ CleanUp \/ Stopped

------------------------------------------------------------------------------
(* What comes from outside.                                                 *)

ServiceEnds(p) ==
    /\ proc[p] \in Names /\ faults < MaxFaults
    /\ faults' = faults + 1
    /\ proc' = [proc EXCEPT ![p] = Nil]
    /\ UNCHANGED <<last, file, stopFile, sup, op, commands, signalled>>

(* Somebody sends a supervisor TERM, or KILL.                               *)
Signal(p) ==
    /\ proc[p] = Sup /\ faults < MaxFaults
    /\ faults' = faults + 1
    /\ signalled' = TRUE
    /\ \/ /\ sup' = [sup EXCEPT ![p].term = TRUE]
          /\ UNCHANGED proc
       \/ /\ proc' = [proc EXCEPT ![p] = Nil]
          /\ sup' = [sup EXCEPT ![p] = NewSup]
    /\ UNCHANGED <<last, file, stopFile, op, commands>>

Next ==
    \/ \E p \in Pids : SupervisorStep(p) \/ ServiceEnds(p) \/ Signal(p)
    \/ Operator

(* A supervisor that runs takes its next step; the operator owes nothing.   *)
Spec == Init /\ [][Next]_vars

FairSpec == Spec /\ \A p \in Pids : WF_vars(SupervisorStep(p))

------------------------------------------------------------------------------
(* Properties.                                                              *)

(* When stop_runtime says "runtime stopped", nothing of the runtime runs: no*)
(* service that a supervisor started between two steps of the script, or    *)
(* whose pid it did not live to write, and no supervisor that had lost its  *)
(* own pid file.                                                            *)
StopLeavesNothing ==
    op.at = "stopped" => \A p \in Pids : proc[p] = Nil

(* Unless somebody signals a supervisor, no service runs twice: through     *)
(* services that end, stops at any point of the supervisor's loop, and new  *)
(* starts.                                                                  *)
OneInstance ==
    ~signalled => \A n \in Names \cup {Sup} : Cardinality(Running(n)) <= 1

(* README.md: start_runtime.sh starts and guards ("启动并守护") the services. *)
(* As long as a supervisor runs, a service that ended is started again.     *)
ServicesComeBack ==
    \A n \in Names : []<>(Running(n) # {} \/ Supervisors = {})

------------------------------------------------------------------------------
(* What one might expect of the code, and TLC refutes.                      *)

(* ... no service runs twice after a signal to the supervisor either.       *)
OneInstanceAlways == \A n \in Names : Cardinality(Running(n)) <= 1

(* A supervisor that was sent TERM ends.                                    *)
TermEnds == \A p \in Pids : (proc[p] = Sup /\ sup[p].term) ~> proc[p] # Sup
==============================================================================
