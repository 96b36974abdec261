----------------------------- MODULE RemoteCall ------------------------------
(***************************************************************************)
(* What the caller of pzmq's call_rpc_action may rely on, whatever sockets, *)
(* threads, time-outs and crashes are behind: its action runs at most once; *)
(* a reply that is not "NotAction" means that it ran; a call that was       *)
(* refused (-1) or met "NotAction" never runs; a call whose time ran out    *)
(* ("silent") may have run, may run later, or never.                        *)
(***************************************************************************)
EXTENDS Naturals

CONSTANT Calls

VARIABLES runs,      (* how often the action of each call has run           *)
          outcome    (* what the call has returned with                     *)

vars == <<runs, outcome>>

Init ==
    /\ runs    = [k \in Calls |-> 0]
    /\ outcome = [k \in Calls |-> "new"]

Invoke(k) ==
    /\ outcome[k] = "new"
    /\ outcome' = [outcome EXCEPT ![k] = "open"]
    /\ UNCHANGED runs

Run(k) ==
    /\ runs[k] = 0
    /\ outcome[k] \in {"open", "silent", "died"}
    /\ runs' = [runs EXCEPT ![k] = 1]
    /\ UNCHANGED outcome

(* No server: the call returns at once.                                     *)
Refuse(k) ==
    /\ outcome[k] = "new"
    /\ outcome' = [outcome EXCEPT ![k] = "refused"]
    /\ UNCHANGED runs

Return(k, result) ==
    /\ outcome[k] = "open"
    /\ result = "answered" => runs[k] = 1
    /\ result = "unknown"  => runs[k] = 0
    /\ outcome' = [outcome EXCEPT ![k] = result]
    /\ UNCHANGED runs

(* The process of several callers ends.                                     *)
Die ==
    /\ outcome' \in [Calls -> {"new", "open", "answered", "refused", "unknown", "silent", "died"}]
    /\ \A k \in Calls :
          outcome'[k] # outcome[k] => outcome[k] = "open" /\ outcome'[k] = "died"
    /\ UNCHANGED runs

Next ==
    \/ \E k \in Calls :
          \/ Invoke(k)
          \/ Refuse(k)
          \/ Run(k)
          \/ \E result \in {"answered", "unknown", "silent"} : Return(k, result)
    \/ Die

Spec == Init /\ [][Next]_vars
==============================================================================
