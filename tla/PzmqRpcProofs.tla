---------------------------- MODULE PzmqRpcProofs -----------------------------
(* Theorems about PzmqRpc for every number of processes, callers, actions,  *)
(* calls, crashes and stops.                                                *)
EXTENDS PzmqRpc, TLAPS

(* The loop works on a request.                                             *)
Serving(s) == loop[s] \in {"match", "run", "reply", "refuse"}

(* What a process that has begun to serve has registered and who holds its  *)
(* lock: the main thread until the first action is entered, the loop while  *)
(* it runs one.                                                             *)
Orderly(s) ==
    /\ proc[s] = "down" => loop[s] = "off" /\ registered[s] = 0
    /\ proc[s] = "starting" => registered[s] < Len(ActionsOf[s])
    /\ proc[s] # "down" /\ registered[s] = 0 => lock[s] = "main"
    /\ loop[s] = "run" => lock[s] = "loop"
    /\ Serving(s) => current[s] \in Request

ServerInv == \A s \in Servers : Orderly(s)

(* How far the present call of a caller can have come.                      *)
Progress(c) ==
    /\ calls[c] <= MaxCalls[c]
    /\ \A n \in 1..MaxCalls[c] :
          n > calls[c] => outcome[<<c, n>>] = "new" /\ runs[<<c, n>>] = 0
    /\ caller[c] = "waiting" => calls[c] > 0 /\ outcome[Open(c)] = "open"
    /\ c \in unsent => /\ calls[c] > 0 /\ caller[c] # "idle"
                       /\ wants[c] \in Action
                       /\ outcome[Open(c)] \in {"open", "silent"}
                       /\ runs[Open(c)] = 0

CallerInv == \A c \in Callers : Progress(c)

(* A call whose request server s has received: made to s, sent, and without *)
(* a reply so far.                                                          *)
Received(s, k) ==
    /\ k \in Call
    /\ Target[k[1]] = s
    /\ k[2] <= calls[k[1]]
    /\ outcome[k] \in {"open", "silent", "died"}
    /\ k[1] \in unsent => k # Open(k[1])

(* A request is in one place, and its action has run when the reply is due, *)
(* and not before.                                                          *)
Distinct(s) ==
    /\ \A i \in 1..Len(inbox[s]) :
          Received(s, inbox[s][i].call) /\ runs[inbox[s][i].call] = 0
    /\ \A i, j \in 1..Len(inbox[s]) :
          inbox[s][i].call = inbox[s][j].call => i = j
    /\ Serving(s) =>
          /\ Received(s, current[s].call)
          /\ runs[current[s].call] = IF loop[s] = "reply" THEN 1 ELSE 0
          /\ \A i \in 1..Len(inbox[s]) : inbox[s][i].call # current[s].call

RequestInv == \A s \in Servers : Distinct(s)

RpcInv == TypeOK /\ ServerInv /\ CallerInv /\ RequestInv

------------------------------------------------------------------------------
(* A call is a caller and a number.                                         *)
LEMMA CallForm ==
    /\ \A c \in Callers, n \in Nat :
          n > 0 /\ n <= MaxCalls[c] => <<c, n>> \in Call
    /\ \A k \in Call :
          /\ k[1] \in Callers /\ k[2] \in Nat
          /\ k[2] > 0 /\ k[2] <= MaxCalls[k[1]]
          /\ k = <<k[1], k[2]>>
<1>1. \A c \in Callers : MaxCalls[c] \in Nat
  BY RpcAssumption
<1>2. ASSUME NEW c \in Callers, NEW n \in Nat, n > 0, n <= MaxCalls[c]
      PROVE  <<c, n>> \in Call
  <2>1. n \in 1..MaxCalls[c]
    BY <1>1, <1>2
  <2>2. <<c, n>> \in {c} \X (1..MaxCalls[c])
    BY <2>1
  <2>3. QED
    BY <2>2 DEF Call
<1>3. ASSUME NEW k \in Call
      PROVE  /\ k[1] \in Callers /\ k[2] \in Nat
             /\ k[2] > 0 /\ k[2] <= MaxCalls[k[1]]
             /\ k = <<k[1], k[2]>>
  <2>1. PICK c \in Callers : k \in {c} \X (1..MaxCalls[c])
    BY DEF Call
  <2>2. QED
    BY <1>1, <2>1
<1>4. QED
  BY <1>2, <1>3

(* A caller that waits, or whose request is unsent, is in a call.           *)
LEMMA OpenIsCall ==
    ASSUME TypeOK, CallerInv, NEW c \in Callers,
           caller[c] = "waiting" \/ c \in unsent
    PROVE  Open(c) \in Call /\ calls[c] \in Nat
  BY CallForm, ZenonT(60) DEF TypeOK, CallerInv, Progress, Open

(* The next call of an idle caller is new.                                  *)
LEMMA NextIsCall ==
    ASSUME TypeOK, CallerInv, NEW c \in Callers, IdleCaller(c)
    PROVE  /\ <<c, calls[c] + 1>> \in Call
           /\ calls[c] + 1 \in Nat /\ calls[c] + 1 <= MaxCalls[c]
           /\ outcome[<<c, calls[c] + 1>>] = "new"
           /\ runs[<<c, calls[c] + 1>>] = 0
           /\ c \notin unsent
<1>1. calls[c] \in Nat /\ MaxCalls[c] \in Nat /\ calls[c] < MaxCalls[c]
  BY RpcAssumption DEF TypeOK, IdleCaller
<1>2. calls[c] + 1 \in 1..MaxCalls[c] /\ calls[c] + 1 > calls[c]
  BY <1>1
<1>3. QED
  BY <1>1, <1>2, CallForm DEF CallerInv, Progress, IdleCaller

(* What a server works on is a request.                                     *)
LEMMA InboxIsRequests ==
    ASSUME TypeOK, NEW s \in Servers
    PROVE  /\ Len(inbox[s]) \in Nat
           /\ \A i \in 1..Len(inbox[s]) : inbox[s][i] \in Request
<1>1. inbox \in [Servers -> Seq(Request)]
  BY DEF TypeOK
<1>2. inbox[s] \in Seq(Request)
  BY <1>1
<1>3. QED
  BY <1>2

(* A server has at least one action.                                        *)
LEMMA ActionsCounted ==
    \A s \in Servers : Len(ActionsOf[s]) \in Nat /\ Len(ActionsOf[s]) > 0
<1>1. ASSUME NEW s \in Servers
      PROVE  Len(ActionsOf[s]) \in Nat /\ Len(ActionsOf[s]) > 0
  <2>1. ActionsOf[s] \in Seq(STRING) /\ Len(ActionsOf[s]) > 0
    BY RpcAssumption
  <2>2. QED
    BY <2>1
<1>2. QED
  BY <1>1

(* Receiving takes the first request of the inbox.                          *)
LEMMA ReceiveShifts ==
    ASSUME TypeOK, NEW s \in Servers, inbox[s] # <<>>
    PROVE  /\ Head(inbox[s]) = inbox[s][1] /\ 1 \in 1..Len(inbox[s])
           /\ Head(inbox[s]) \in Request
           /\ Tail(inbox[s]) \in Seq(Request)
           /\ \A i \in 1..Len(Tail(inbox[s])) :
                 i + 1 \in 1..Len(inbox[s]) /\ Tail(inbox[s])[i] = inbox[s][i + 1]
<1>1. inbox[s] \in Seq(Request)
  BY DEF TypeOK
<1>2. QED
  BY <1>1
------------------------------------------------------------------------------
(* The types.                                                               *)

LEMMA DiesTypes ==
    ASSUME TypeOK, NEW s \in Servers, Dies(s), ends' \in [Servers -> Nat]
    PROVE  TypeOK'
<1>1. /\ caller' \in [Callers -> {"idle", "waiting", "called"}]
      /\ wants' \in [Callers -> Action \cup {""}]
      /\ unsent' \subseteq Callers
  BY DEF TypeOK, Dies
<1>2. outcome' \in [Call -> Outcome]
  BY DEF TypeOK, Dies, Outcome
<1>3. /\ registered' \in [Servers -> Nat]
      /\ \A t \in Servers : registered'[t] <= Len(ActionsOf[t])
  <2>1. /\ registered \in [Servers -> Nat]
        /\ \A t \in Servers : registered[t] <= Len(ActionsOf[t])
        /\ registered' = [registered EXCEPT ![s] = 0]
    BY DEF TypeOK, Dies
  <2>2. QED
    BY <2>1, ActionsCounted
<1>4. inbox' \in [Servers -> Seq(Request)]
  <2>1. inbox \in [Servers -> Seq(Request)] /\ inbox' = [inbox EXCEPT ![s] = <<>>]
    BY DEF TypeOK, Dies
  <2>2. <<>> \in Seq(Request)
    OBVIOUS
  <2>3. QED
    BY <2>1, <2>2
<1>5. /\ proc' \in [Servers -> {"down", "starting", "up", "stopping"}]
      /\ lock' \in [Servers -> {"free", "main", "loop"}]
      /\ loop' \in [Servers -> {"off", "recv", "match", "run", "reply", "refuse"}]
      /\ current' \in [Servers -> Request \cup {NoRequest}]
  BY DEF TypeOK, Dies
<1>6. calls' = calls /\ file' = file /\ runs' = runs
  BY DEF Dies
<1>7. QED
  BY <1>1, <1>2, <1>3, <1>4, <1>5, <1>6 DEF TypeOK

LEMMA CallerTypes ==
    ASSUME RpcInv, NEW c \in Callers, CallerStep(c)
    PROVE  TypeOK'
<1>1. CASE CallRefused(c)
  <2>1. <<c, calls[c] + 1>> \in Call /\ calls[c] + 1 \in Nat
    BY <1>1, NextIsCall DEF CallRefused, RpcInv
  <2>2. QED
    BY <1>1, <2>1 DEF CallRefused, RpcInv, TypeOK, Outcome, serverVars
<1>2. CASE CallSent(c)
  <2>1. <<c, calls[c] + 1>> \in Call /\ calls[c] + 1 \in Nat
    BY <1>2, NextIsCall DEF CallSent, RpcInv
  <2>2. PICK a \in Wanted[c] : wants' = [wants EXCEPT ![c] = a]
    BY <1>2 DEF CallSent
  <2>3. a \in Action
    BY <2>2, RpcAssumption
  <2>4. wants' \in [Callers -> Action \cup {""}]
    BY <2>2, <2>3 DEF RpcInv, TypeOK
  <2>5. QED
    BY <1>2, <2>1, <2>4 DEF CallSent, RpcInv, TypeOK, Outcome, serverVars
<1>3. CASE Transmit(c)
  <2>1. Open(c) \in Call /\ wants[c] \in Action
    BY <1>3, OpenIsCall DEF Transmit, RpcInv, CallerInv, Progress
  <2>2. [call |-> Open(c), action |-> wants[c]] \in Request
    BY <2>1 DEF Request
  <2>3. Target[c] \in Servers
    BY RpcAssumption
  <2>4. inbox' \in [Servers -> Seq(Request)]
    <3>1. /\ inbox \in [Servers -> Seq(Request)]
          /\ inbox' = [inbox EXCEPT ![Target[c]] =
                 Append(@, [call |-> Open(c), action |-> wants[c]])]
      BY <1>3 DEF Transmit, RpcInv, TypeOK
    <3>2. Append(inbox[Target[c]], [call |-> Open(c), action |-> wants[c]])
             \in Seq(Request)
      BY <2>2, <2>3, <3>1
    <3>3. QED
      BY <3>1, <3>2
  <2>5. QED
    BY <1>3, <2>4 DEF Transmit, RpcInv, TypeOK
<1>4. CASE Timeout(c)
  BY <1>4, OpenIsCall DEF Timeout, GivesUp, RpcInv, TypeOK, Outcome, serverVars
<1>5. CASE CallEnds(c)
  BY <1>5 DEF CallEnds, RpcInv, TypeOK, serverVars
<1>6. CASE CallbackThrows(c)
  <2>1. Host[c] \in Servers
    BY RpcAssumption
  <2>2. QED
    BY <1>6, <2>1, DiesTypes DEF CallbackThrows, RpcInv, TypeOK
<1>7. QED
  BY <1>1, <1>2, <1>3, <1>4, <1>5, <1>6 DEF CallerStep

LEMMA ServerTypes ==
    ASSUME RpcInv, NEW s \in Servers, ServerStep(s) \/ Crash(s) \/ Stop(s)
    PROVE  TypeOK'
<1> USE DEF RpcInv, callerVars
<1>1. CASE Bind(s)
  BY <1>1 DEF Bind, LockedBy, TypeOK
<1>2. CASE RegisterFirst(s) \/ RegisterNext(s)
  <2>1. registered[s] < Len(ActionsOf[s])
    BY <1>2 DEF RegisterFirst, RegisterNext, ServerInv, Orderly
  <2>2. /\ registered' \in [Servers -> Nat]
        /\ \A t \in Servers : registered'[t] <= Len(ActionsOf[t])
    <3>1. /\ registered \in [Servers -> Nat]
          /\ \A t \in Servers : registered[t] <= Len(ActionsOf[t])
          /\ registered' = [registered EXCEPT ![s] = @ + 1]
      BY <1>2 DEF RegisterFirst, RegisterNext, Enter, TypeOK
    <3>2. QED
      BY <2>1, <3>1, ActionsCounted
  <2>3. proc' \in [Servers -> {"down", "starting", "up", "stopping"}]
    <3>1. /\ proc \in [Servers -> {"down", "starting", "up", "stopping"}]
          /\ \/ proc' = [proc EXCEPT ![s] = "up"]
             \/ proc' = [proc EXCEPT ![s] = proc[s]]
      BY <1>2 DEF RegisterFirst, RegisterNext, Enter, TypeOK
    <3>2. QED
      BY <3>1
  <2>4. lock' \in [Servers -> {"free", "main", "loop"}]
    BY <1>2 DEF RegisterFirst, RegisterNext, TypeOK
  <2>5. QED
    BY <1>2, <2>2, <2>3, <2>4 DEF RegisterFirst, RegisterNext, TypeOK
<1>3. CASE LoopReceive(s)
  <2>1. Head(inbox[s]) \in Request /\ Tail(inbox[s]) \in Seq(Request)
    BY <1>3, ReceiveShifts DEF LoopReceive
  <2>2. QED
    BY <1>3, <2>1 DEF LoopReceive, TypeOK
<1>4. CASE LoopMatch(s)
  BY <1>4 DEF LoopMatch, TypeOK
<1>5. CASE LoopRun(s)
  <2>1. current[s].call \in Call
    BY <1>5 DEF LoopRun, RequestInv, Distinct, Serving, Received
  <2>2. runs' \in [Call -> Nat]
    <3>1. /\ runs \in [Call -> Nat]
          /\ runs' = [runs EXCEPT ![current[s].call] = @ + 1]
      BY <1>5 DEF LoopRun, TypeOK
    <3>2. QED
      BY <2>1, <3>1
  <2>3. QED
    BY <1>5, <2>2 DEF LoopRun, TypeOK
<1>6. CASE LoopReply(s)
  <2>1. current[s].call \in Call /\ current[s].call[1] \in Callers
    BY <1>6, CallForm DEF LoopReply, RequestInv, Distinct, Serving, Received
  <2>2. outcome' \in [Call -> Outcome]
    BY <1>6, <2>1 DEF LoopReply, TypeOK, Outcome, Awaits
  <2>3. caller' \in [Callers -> {"idle", "waiting", "called"}]
    BY <1>6, <2>1 DEF LoopReply, TypeOK
  <2>4. QED
    BY <1>6, <2>2, <2>3 DEF LoopReply, TypeOK
<1>7. CASE LoopExit(s)
  BY <1>7 DEF LoopExit, TypeOK
<1>8. CASE CloseServer(s)
  <2>1. inbox' \in [Servers -> Seq(Request)]
    <3>1. inbox \in [Servers -> Seq(Request)] /\ inbox' = [inbox EXCEPT ![s] = <<>>]
      BY <1>8 DEF CloseServer, TypeOK
    <3>2. <<>> \in Seq(Request)
      OBVIOUS
    <3>3. QED
      BY <3>1, <3>2
  <2>2. /\ registered' \in [Servers -> Nat]
        /\ \A t \in Servers : registered'[t] <= Len(ActionsOf[t])
    <3>1. /\ registered \in [Servers -> Nat]
          /\ \A t \in Servers : registered[t] <= Len(ActionsOf[t])
          /\ registered' = [registered EXCEPT ![s] = 0]
      BY <1>8 DEF CloseServer, TypeOK
    <3>2. QED
      BY <3>1, ActionsCounted
  <2>3. QED
    BY <1>8, <2>1, <2>2 DEF CloseServer, TypeOK
<1>9. CASE Crash(s)
  <2>1. ends' \in [Servers -> Nat]
    <3>1. ends \in [Servers -> Nat] /\ ends' = [ends EXCEPT ![s] = @ + 1]
      BY <1>9 DEF Crash, TypeOK
    <3>2. QED
      BY <3>1
  <2>2. QED
    BY <1>9, <2>1, DiesTypes DEF Crash
<1>10. CASE Stop(s)
  <2>1. ends' \in [Servers -> Nat]
    <3>1. ends \in [Servers -> Nat] /\ ends' = [ends EXCEPT ![s] = @ + 1]
      BY <1>10 DEF Stop, TypeOK
    <3>2. QED
      BY <3>1
  <2>2. QED
    BY <1>10, <2>1 DEF Stop, TypeOK
<1>11. QED
  BY <1>1, <1>2, <1>3, <1>4, <1>5, <1>6, <1>7, <1>8, <1>9, <1>10 DEF ServerStep
------------------------------------------------------------------------------
(* The servers.                                                             *)

LEMMA DiesServer ==
    ASSUME RpcInv, NEW s \in Servers, Dies(s)
    PROVE  ServerInv'
<1>1. ASSUME NEW t \in Servers
      PROVE  Orderly(t)'
  <2>1. CASE t = s
    BY <2>1 DEF RpcInv, TypeOK, Dies, Orderly, Serving
  <2>2. CASE t # s
    BY <2>2 DEF RpcInv, ServerInv, TypeOK, Dies, Orderly, Serving
  <2>3. QED
    BY <2>1, <2>2
<1>2. QED
  BY <1>1 DEF ServerInv

LEMMA ServerInvByCaller ==
    ASSUME RpcInv, NEW c \in Callers, CallerStep(c)
    PROVE  ServerInv'
<1>1. CASE CallbackThrows(c)
  <2>1. Host[c] \in Servers
    BY RpcAssumption
  <2>2. QED
    BY <1>1, <2>1, DiesServer DEF CallbackThrows
<1>2. CASE ~CallbackThrows(c)
  <2>1. UNCHANGED <<proc, registered, lock, loop, current>>
    BY <1>2
    DEF CallerStep, CallRefused, CallSent, Transmit, Timeout, CallEnds, serverVars
  <2>2. QED
    BY <2>1 DEF RpcInv, ServerInv, Orderly, Serving
<1>3. QED
  BY <1>1, <1>2

LEMMA ServerInvByServer ==
    ASSUME RpcInv, NEW s \in Servers, ServerStep(s) \/ Crash(s) \/ Stop(s)
    PROVE  ServerInv'
<1>1. CASE Crash(s)
  BY <1>1, DiesServer DEF Crash
<1>2. ASSUME ServerStep(s) \/ Stop(s), NEW t \in Servers
      PROVE  Orderly(t)'
  <2>1. Orderly(s) /\ Orderly(t)
    BY DEF RpcInv, ServerInv
  <2>2. TypeOK
    BY DEF RpcInv
  <2>3. CASE t # s
    <3>1. /\ proc'[t] = proc[t] /\ registered'[t] = registered[t]
          /\ lock'[t] = lock[t] /\ loop'[t] = loop[t] /\ current'[t] = current[t]
      <4>1. CASE Bind(s) \/ LoopExit(s) \/ CloseServer(s) \/ Stop(s)
        BY <2>2, <2>3, <4>1 DEF TypeOK, Bind, LoopExit, CloseServer, Stop
      <4>2. CASE RegisterFirst(s) \/ RegisterNext(s)
        BY <2>2, <2>3, <4>2 DEF TypeOK, RegisterFirst, RegisterNext, Enter
      <4>3. CASE LoopReceive(s) \/ LoopMatch(s) \/ LoopRun(s)
        BY <2>2, <2>3, <4>3, ZenonT(60) DEF TypeOK, LoopReceive, LoopMatch, LoopRun
      <4>4. CASE LoopReply(s)
        BY <2>2, <2>3, <4>4 DEF TypeOK, LoopReply
      <4>5. QED
        BY <1>2, <4>1, <4>2, <4>3, <4>4 DEF ServerStep
    <3>2. QED
      BY <2>1, <3>1 DEF Orderly, Serving
  <2>4. CASE t = s
    <3>1. CASE Bind(s)
      BY <2>1, <2>2, <2>4, <3>1, ActionsCounted
      DEF Bind, LockedBy, TypeOK, Orderly, Serving
    <3>2. CASE RegisterFirst(s) \/ RegisterNext(s)
      <4>1. /\ registered[s] \in Nat /\ Len(ActionsOf[s]) \in Nat
            /\ registered[s] < Len(ActionsOf[s])
            /\ registered'[s] = registered[s] + 1
            /\ proc[s] = "starting"
        BY <2>1, <2>2, <3>2, ActionsCounted
        DEF RegisterFirst, RegisterNext, Enter, TypeOK, Orderly
      <4>2. \/ registered[s] + 1 = Len(ActionsOf[s]) /\ proc'[s] = "up"
            \/ registered[s] + 1 # Len(ActionsOf[s]) /\ proc'[s] = "starting"
        BY <2>2, <3>2, <4>1 DEF RegisterFirst, RegisterNext, Enter, TypeOK
      <4>3. loop'[s] = loop[s] /\ current'[s] = current[s]
        BY <3>2 DEF RegisterFirst, RegisterNext
      <4>4. loop[s] = "run" => lock'[s] = "loop"
        BY <2>1, <2>2, <3>2 DEF RegisterFirst, RegisterNext, TypeOK, Orderly
      <4>5. registered'[s] # 0 /\ (proc'[s] = "starting" => registered'[s] < Len(ActionsOf[s]))
        BY <4>1, <4>2
      <4>6. QED
        BY <2>1, <2>4, <4>2, <4>3, <4>4, <4>5 DEF Orderly, Serving
    <3>3. CASE LoopReceive(s)
      <4>1. Head(inbox[s]) \in Request
        BY <2>2, <3>3, ReceiveShifts DEF LoopReceive
      <4>2. QED
        BY <2>1, <2>2, <2>4, <3>3, <4>1 DEF LoopReceive, TypeOK, Orderly, Serving
    <3>4. CASE LoopMatch(s)
      <4>1. /\ proc'[s] = proc[s] /\ registered'[s] = registered[s]
            /\ current'[s] = current[s] /\ current[s] \in Request
            /\ loop'[s] \in {"run", "refuse"}
            /\ loop'[s] = "run" => lock'[s] = "loop"
            /\ proc[s] # "down" /\ registered[s] # 0
        BY <2>1, <2>2, <3>4, ZenonT(60) DEF LoopMatch, TypeOK, Orderly, Serving
      <4>2. QED
        BY <2>1, <2>4, <4>1 DEF Orderly, Serving
    <3>5. CASE LoopRun(s)
      <4>1. /\ proc'[s] = proc[s] /\ registered'[s] = registered[s]
            /\ current'[s] = current[s] /\ current[s] \in Request
            /\ loop'[s] = "reply"
            /\ proc[s] # "down" /\ registered[s] # 0
        BY <2>1, <2>2, <3>5 DEF LoopRun, TypeOK, Orderly, Serving
      <4>2. QED
        BY <2>1, <2>4, <4>1 DEF Orderly, Serving
    <3>6. CASE LoopReply(s)
      BY <2>1, <2>2, <2>4, <3>6 DEF LoopReply, TypeOK, Orderly, Serving
    <3>7. CASE LoopExit(s)
      BY <2>1, <2>2, <2>4, <3>7 DEF LoopExit, LeavesReceive, TypeOK, Orderly, Serving
    <3>8. CASE CloseServer(s)
      BY <2>1, <2>2, <2>4, <3>8 DEF CloseServer, TypeOK, Orderly, Serving
    <3>9. CASE Stop(s)
      BY <2>1, <2>2, <2>4, <3>9 DEF Stop, TypeOK, Orderly, Serving
    <3>10. QED
      BY <1>2, <3>1, <3>2, <3>3, <3>4, <3>5, <3>6, <3>7, <3>8, <3>9 DEF ServerStep
  <2>5. QED
    BY <2>3, <2>4
<1>3. QED
  BY <1>1, <1>2 DEF ServerInv
------------------------------------------------------------------------------
(* The callers.                                                             *)

(* A step that leaves what Progress(c) is about leaves Progress(c).         *)
LEMMA ProgressKept ==
    ASSUME NEW c \in Callers, Progress(c),
           caller'[c] = caller[c], calls'[c] = calls[c], wants'[c] = wants[c],
           c \in unsent' => c \in unsent,
           \A n \in Nat : <<c, n>> \in Call =>
               outcome'[<<c, n>>] = outcome[<<c, n>>] /\ runs'[<<c, n>>] = runs[<<c, n>>],
           calls[c] \in Nat
    PROVE  Progress(c)'
<1>1. MaxCalls[c] \in Nat
  BY RpcAssumption
<1>2. \A n \in 1..MaxCalls[c] :
          outcome'[<<c, n>>] = outcome[<<c, n>>] /\ runs'[<<c, n>>] = runs[<<c, n>>]
  BY <1>1, CallForm
<1>3. calls[c] > 0 => calls[c] \in 1..MaxCalls[c]
  BY <1>1 DEF Progress
<1>4. QED
  BY <1>1, <1>2, <1>3 DEF Progress, Open

LEMMA DiesCaller ==
    ASSUME RpcInv, NEW s \in Servers, Dies(s)
    PROVE  CallerInv'
<1>1. ASSUME NEW c \in Callers
      PROVE  Progress(c)'
  <2>1. Progress(c) /\ calls[c] \in Nat /\ calls' = calls /\ runs' = runs
    BY DEF RpcInv, CallerInv, TypeOK, Dies
  <2>2. CASE c \in Hosted(s)
    <3>1. caller'[c] = "idle" /\ c \notin unsent'
      BY <2>2 DEF Dies
    <3>2. \A n \in 1..MaxCalls[c] :
              outcome[<<c, n>>] = "new" => outcome'[<<c, n>>] = "new"
      <4>1. \A n \in 1..MaxCalls[c] : <<c, n>> \in Call
        <5>1. MaxCalls[c] \in Nat
          BY RpcAssumption
        <5>2. QED
          BY <5>1, CallForm
      <4>2. \A k \in Call : outcome[k] = "new" => outcome'[k] = "new"
        BY DEF Dies
      <4>3. QED
        BY <4>1, <4>2
    <3>3. QED
      BY <2>1, <3>1, <3>2 DEF Progress
  <2>3. CASE c \notin Hosted(s)
    <3>1. /\ caller'[c] = caller[c] /\ wants'[c] = wants[c]
          /\ c \in unsent' => c \in unsent
      BY <2>3 DEF Dies
    <3>2. \A n \in Nat : <<c, n>> \in Call => outcome'[<<c, n>>] = outcome[<<c, n>>]
      BY <2>3 DEF Dies
    <3>3. QED
      BY <2>1, <3>1, <3>2, ProgressKept
  <2>4. QED
    BY <2>2, <2>3
<1>2. QED
  BY <1>1 DEF CallerInv

LEMMA CallerInvByCaller ==
    ASSUME RpcInv, NEW c \in Callers, CallerStep(c)
    PROVE  CallerInv'
<1>1. CASE CallbackThrows(c)
  <2>1. Host[c] \in Servers
    BY RpcAssumption
  <2>2. QED
    BY <1>1, <2>1, DiesCaller DEF CallbackThrows
<1>2. ASSUME ~CallbackThrows(c), NEW d \in Callers
      PROVE  Progress(d)'
  <2>1. /\ TypeOK /\ CallerInv /\ Progress(c) /\ Progress(d)
        /\ calls[c] \in Nat /\ calls[d] \in Nat /\ MaxCalls[c] \in Nat
    BY RpcAssumption DEF RpcInv, CallerInv, TypeOK
  <2>2. CallRefused(c) \/ CallSent(c) \/ Transmit(c) \/ Timeout(c) \/ CallEnds(c)
    BY <1>2 DEF CallerStep
  <2>3. runs' = runs /\ Open(c) = <<c, calls[c]>>
    BY <2>2 DEF CallRefused, CallSent, Transmit, Timeout, CallEnds, Open
  <2>4. CASE d # c
    <3>1. /\ caller'[d] = caller[d] /\ calls'[d] = calls[d] /\ wants'[d] = wants[d]
          /\ d \in unsent' => d \in unsent
      BY <2>1, <2>2, <2>4
      DEF TypeOK, CallRefused, CallSent, Transmit, Timeout, CallEnds
    <3>2. \A n \in Nat : <<d, n>> \in Call => outcome'[<<d, n>>] = outcome[<<d, n>>]
      <4>1. \A m \in Nat, n \in Nat : <<d, n>> # <<c, m>>
        BY <2>4
      <4>2. PICK m \in Nat, o \in Outcome :
                outcome' = [outcome EXCEPT ![<<c, m>>] = o] \/ outcome' = outcome
        <5>1. calls[c] + 1 \in Nat /\ {"open", "refused", "silent"} \subseteq Outcome
          BY <2>1 DEF Outcome
        <5>2. CASE CallRefused(c) \/ CallSent(c)
          BY <5>1, <5>2 DEF CallRefused, CallSent
        <5>3. CASE Timeout(c)
          BY <2>1, <2>3, <5>1, <5>3 DEF Timeout
        <5>4. CASE Transmit(c) \/ CallEnds(c)
          BY <5>1, <5>4 DEF Transmit, CallEnds
        <5>5. QED
          BY <2>2, <5>2, <5>3, <5>4
      <4>3. \A k \in Call : k # <<c, m>> => outcome'[k] = outcome[k]
        BY <2>1, <4>2 DEF TypeOK
      <4>4. QED
        BY <4>1, <4>3
    <3>3. QED
      BY <2>1, <2>3, <3>1, <3>2, ProgressKept
  <2>5. CASE d = c
    <3>1. \A n \in 1..MaxCalls[c] : <<c, n>> \in Call
      BY <2>1, CallForm
    <3>2. CASE CallRefused(c) \/ CallSent(c)
      <4>1. IdleCaller(c)
        BY <3>2 DEF CallRefused, CallSent
      <4>2. /\ calls[c] + 1 <= MaxCalls[c] /\ <<c, calls[c] + 1>> \in Call
            /\ outcome[<<c, calls[c] + 1>>] = "new" /\ runs[<<c, calls[c] + 1>>] = 0
            /\ c \notin unsent
        BY ONLY <2>1, <4>1, NextIsCall
      <4>3. calls'[c] = calls[c] + 1
        BY <2>1, <3>2 DEF TypeOK, CallRefused, CallSent
      <4>4. \A n \in 1..MaxCalls[c] : n > calls'[c] =>
                outcome'[<<c, n>>] = "new" /\ runs'[<<c, n>>] = 0
        <5>1. \A n \in 1..MaxCalls[c] : n # calls[c] + 1 =>
                  outcome'[<<c, n>>] = outcome[<<c, n>>]
          BY <2>1, <3>1, <3>2 DEF TypeOK, CallRefused, CallSent
        <5>2. QED
          BY <2>1, <2>3, <4>3, <5>1 DEF Progress
      <4>5. CASE CallRefused(c)
        <5>1. caller'[c] # "waiting" /\ c \notin unsent'
          BY <2>1, <4>2, <4>5 DEF TypeOK, CallRefused
        <5>2. QED
          BY <2>5, <4>2, <4>3, <4>4, <5>1 DEF Progress
      <4>6. CASE CallSent(c)
        <5>1. caller'[c] = "waiting" /\ outcome'[<<c, calls[c] + 1>>] = "open"
          BY <2>1, <4>2, <4>6 DEF TypeOK, CallSent
        <5>2. wants'[c] \in Action
          <6>1. PICK a \in Wanted[c] : wants' = [wants EXCEPT ![c] = a]
            BY <4>6 DEF CallSent
          <6>2. QED
            BY <2>1, <6>1, RpcAssumption DEF TypeOK
        <5>3. Open(c)' = <<c, calls[c] + 1>> /\ calls'[c] > 0
          BY <2>1, <4>3 DEF Open
        <5>4. QED
          BY <2>3, <2>5, <4>2, <4>3, <4>4, <5>1, <5>2, <5>3 DEF Progress
      <4>7. QED
        BY <3>2, <4>5, <4>6
    <3>3. CASE Transmit(c)
      <4>1. \A n \in Nat : <<c, n>> \in Call => outcome'[<<c, n>>] = outcome[<<c, n>>]
        BY <3>3 DEF Transmit
      <4>2. caller' = caller /\ calls' = calls /\ wants' = wants /\ unsent' \subseteq unsent
        BY <3>3 DEF Transmit
      <4>3. QED
        BY <2>1, <2>3, <2>5, <4>1, <4>2, ProgressKept
    <3>4. CASE Timeout(c)
      <4>1. calls' = calls /\ wants' = wants /\ unsent' = unsent /\ Open(c)' = Open(c)
        BY <3>4 DEF Timeout, Open
      <4>2. caller[c] = "waiting" /\ Open(c) \in Call
        BY <2>1, <3>4, OpenIsCall DEF Timeout, GivesUp
      <4>3. caller'[c] = "called" /\ outcome'[Open(c)] = "silent"
        BY <2>1, <3>4, <4>2 DEF Timeout, TypeOK
      <4>4. \A n \in 1..MaxCalls[c] : n > calls[c] =>
                outcome'[<<c, n>>] = outcome[<<c, n>>]
        <5>1. \A k \in Call : k # <<c, calls[c]>> => outcome'[k] = outcome[k]
          BY <2>1, <2>3, <3>4 DEF Timeout, TypeOK
        <5>2. \A n \in 1..MaxCalls[c] : n > calls[c] => <<c, n>> # <<c, calls[c]>>
          BY <2>1
        <5>3. QED
          BY <3>1, <5>1, <5>2
      <4>5. QED
        BY <2>1, <2>3, <2>5, <4>1, <4>3, <4>4 DEF Progress
    <3>5. CASE CallEnds(c)
      <4>1. caller'[c] = "idle" /\ c \notin unsent'
        BY <2>1, <3>5 DEF CallEnds, TypeOK
      <4>2. calls' = calls /\ outcome' = outcome
        BY <3>5 DEF CallEnds
      <4>3. QED
        BY <2>1, <2>3, <2>5, <4>1, <4>2 DEF Progress
    <3>6. QED
      BY <2>2, <3>2, <3>3, <3>4, <3>5
  <2>6. QED
    BY <2>4, <2>5
<1>3. QED
  BY <1>1, <1>2 DEF CallerInv

LEMMA CallerInvByServer ==
    ASSUME RpcInv, NEW s \in Servers, ServerStep(s) \/ Crash(s) \/ Stop(s)
    PROVE  CallerInv'
<1>1. CASE Crash(s)
  BY <1>1, DiesCaller DEF Crash
<1>2. ASSUME ~Crash(s), NEW c \in Callers
      PROVE  Progress(c)'
  <2>1. /\ TypeOK /\ Progress(c) /\ calls[c] \in Nat
    BY DEF RpcInv, CallerInv, TypeOK
  <2>2. calls' = calls /\ wants' = wants /\ unsent' = unsent /\ Open(c)' = Open(c)
    BY <1>2
    DEF ServerStep, Bind, RegisterFirst, RegisterNext, LoopReceive, LoopMatch,
        LoopRun, LoopReply, LoopExit, CloseServer, Stop, callerVars, Open
  <2>3. CASE LoopRun(s)
    <3>1. Received(s, current[s].call)
      BY <2>3 DEF LoopRun, RpcInv, RequestInv, Distinct, Serving
    <3>2. \A k \in Call : k # current[s].call => runs'[k] = runs[k]
      BY <2>1, <2>3 DEF LoopRun, TypeOK
    <3>3. caller' = caller /\ outcome' = outcome
      BY <2>3 DEF LoopRun, callerVars
    <3>4. MaxCalls[c] \in Nat
      BY RpcAssumption
    <3>5. \A n \in 1..MaxCalls[c] : n > calls[c] => runs'[<<c, n>>] = runs[<<c, n>>]
      BY <2>1, <3>1, <3>2, <3>4, CallForm DEF Received
    <3>6. c \in unsent => runs'[Open(c)] = runs[Open(c)]
      <4>1. c \in unsent => Open(c) \in Call
        BY OpenIsCall DEF RpcInv
      <4>2. c \in unsent => Open(c) # current[s].call
        BY <3>1 DEF Received, Open
      <4>3. QED
        BY <3>2, <4>1, <4>2
    <3>7. QED
      BY <2>1, <2>2, <3>3, <3>5, <3>6 DEF Progress
  <2>4. CASE LoopReply(s)
    <3>1. Received(s, current[s].call) /\ runs' = runs
      BY <2>4 DEF LoopReply, RpcInv, RequestInv, Distinct, Serving
    <3>2. CASE UNCHANGED <<caller, outcome>>
      BY <2>1, <2>2, <3>1, <3>2 DEF Progress
    <3>3. CASE ~UNCHANGED <<caller, outcome>>
      <4> DEFINE k == current[s].call
      <4>1. /\ Awaits(k)
            /\ caller' = [caller EXCEPT ![k[1]] = "called"]
            /\ \E o \in Outcome : outcome' = [outcome EXCEPT ![Open(k[1])] = o]
        BY <2>4, <3>3 DEF LoopReply, Outcome
      <4>2. k \in Call /\ k[1] \in Callers /\ Open(k[1]) = k /\ k[1] \notin unsent
        BY <3>1, <4>1, CallForm DEF Received, Awaits
      <4>3. CASE c = k[1]
        <5>1. caller'[c] = "called" /\ c \notin unsent
          BY <2>1, <4>1, <4>2, <4>3 DEF TypeOK
        <5>2. MaxCalls[c] \in Nat
          BY RpcAssumption
        <5>3. \A n \in 1..MaxCalls[c] : n > calls[c] =>
                  outcome'[<<c, n>>] = outcome[<<c, n>>]
          <6>1. \A j \in Call : j # <<c, calls[c]>> => outcome'[j] = outcome[j]
            BY <2>1, <4>1, <4>3 DEF TypeOK, Open
          <6>2. \A n \in 1..MaxCalls[c] :
                    <<c, n>> \in Call /\ (n > calls[c] => <<c, n>> # <<c, calls[c]>>)
            BY <2>1, <5>2, CallForm
          <6>3. QED
            BY <6>1, <6>2
        <5>4. QED
          BY <2>1, <2>2, <3>1, <5>1, <5>3 DEF Progress
      <4>4. CASE c # k[1]
        <5>1. caller'[c] = caller[c]
          BY <2>1, <4>1, <4>4 DEF TypeOK
        <5>2. \A n \in Nat : <<c, n>> \in Call => outcome'[<<c, n>>] = outcome[<<c, n>>]
          BY <2>1, <4>1, <4>4 DEF TypeOK, Open
        <5>3. QED
          BY <2>1, <2>2, <3>1, <5>1, <5>2, ProgressKept
      <4>5. QED
        BY <4>3, <4>4
    <3>4. QED
      BY <3>2, <3>3
  <2>5. CASE ~LoopRun(s) /\ ~LoopReply(s)
    <3>1. caller' = caller /\ outcome' = outcome /\ runs' = runs
      BY <1>2, <2>5
      DEF ServerStep, Bind, RegisterFirst, RegisterNext, LoopReceive, LoopMatch,
          LoopExit, CloseServer, Stop, callerVars
    <3>2. QED
      BY <2>1, <2>2, <3>1 DEF Progress
  <2>6. QED
    BY <2>3, <2>4, <2>5
<1>3. QED
  BY <1>1, <1>2 DEF CallerInv
------------------------------------------------------------------------------
(* The requests.                                                            *)

(* A step that takes no request and runs no action leaves what Distinct(s)  *)
(* says, if what was received by s stays so.                                *)
LEMMA DistinctKept ==
    ASSUME NEW s \in Servers, Distinct(s),
           inbox'[s] = inbox[s], current'[s] = current[s],
           Serving(s)' => Serving(s) /\ (loop'[s] = "reply" <=> loop[s] = "reply"),
           \A k \in Call : Received(s, k) => Received(s, k)' /\ runs'[k] = runs[k]
    PROVE  Distinct(s)'
<1>1. \A k : Received(s, k) => k \in Call
  BY DEF Received
<1>2. \A i \in 1..Len(inbox[s]) :
          Received(s, inbox[s][i].call)' /\ runs'[inbox[s][i].call] = 0
  BY <1>1 DEF Distinct
<1>3. ASSUME Serving(s)'
      PROVE  /\ Received(s, current[s].call)'
             /\ runs'[current[s].call] = IF loop'[s] = "reply" THEN 1 ELSE 0
  BY <1>1, <1>3 DEF Distinct
<1>4. QED
  BY <1>2, <1>3 DEF Distinct

(* What was received stays received while its call has no reply.            *)
LEMMA ReceivedKept ==
    ASSUME NEW s \in Servers, NEW k \in Call, Received(s, k),
           calls' = calls, outcome'[k] \in {"open", "silent", "died"},
           unsent' \subseteq unsent
    PROVE  Received(s, k)'
  BY DEF Received, Open

LEMMA DiesRequests ==
    ASSUME RpcInv, NEW s \in Servers, Dies(s)
    PROVE  RequestInv'
<1>1. ASSUME NEW t \in Servers
      PROVE  Distinct(t)'
  <2>1. TypeOK /\ Distinct(t)
    BY DEF RpcInv, RequestInv
  <2>2. CASE t = s
    <3>1. inbox'[s] = <<>> /\ loop'[s] = "off"
      BY <2>1 DEF Dies, TypeOK
    <3>2. QED
      BY <2>2, <3>1 DEF Distinct, Serving
  <2>3. CASE t # s
    <3>1. inbox'[t] = inbox[t] /\ current'[t] = current[t] /\ loop'[t] = loop[t]
      BY <2>1, <2>3 DEF Dies, TypeOK
    <3>2. ASSUME NEW k \in Call, Received(t, k)
          PROVE  Received(t, k)' /\ runs'[k] = runs[k]
      <4>1. outcome'[k] \in {"open", "silent", "died"}
        BY <3>2 DEF Dies, Received
      <4>2. calls' = calls /\ unsent' \subseteq unsent /\ runs' = runs
        BY DEF Dies
      <4>3. QED
        BY <3>2, <4>1, <4>2, ReceivedKept
    <3>3. QED
      BY <2>1, <3>1, <3>2, DistinctKept DEF Serving
  <2>4. QED
    BY <2>2, <2>3
<1>2. QED
  BY <1>1 DEF RequestInv

LEMMA TransmitRequests ==
    ASSUME RpcInv, NEW c \in Callers, Transmit(c)
    PROVE  RequestInv'
<1> DEFINE r == [call |-> Open(c), action |-> wants[c]]
           s == Target[c]
           Rec(k) == /\ k \in Call /\ Target[k[1]] = s
                     /\ k[2] <= calls'[k[1]]
                     /\ outcome'[k] \in {"open", "silent", "died"}
                     /\ k[1] \in unsent' => k # <<k[1], calls'[k[1]]>>
<1>1. TypeOK /\ CallerInv /\ s \in Servers /\ Open(c) = <<c, calls[c]>>
  BY RpcAssumption DEF RpcInv, Open
<1>2. /\ c \in unsent /\ unsent' = unsent \ {c}
      /\ calls' = calls /\ outcome' = outcome /\ runs' = runs
      /\ loop' = loop /\ current' = current
  BY DEF Transmit
<1>3. /\ Open(c) \in Call /\ calls[c] \in Nat
      /\ outcome[Open(c)] \in {"open", "silent"} /\ runs[Open(c)] = 0
  BY <1>1, <1>2, OpenIsCall DEF CallerInv, Progress
<1>4. Rec(Open(c))
  BY <1>1, <1>2, <1>3
<1>5. \A k : Received(s, k) => Rec(k) /\ k # Open(c)
  BY <1>1, <1>2 DEF Received, Open
<1>6. ASSUME NEW t \in Servers
      PROVE  Distinct(t)'
  <2>1. Distinct(t) /\ (Serving(t)' <=> Serving(t)) /\ loop'[t] = loop[t]
    BY <1>2 DEF RpcInv, RequestInv, Serving
  <2>2. CASE t # s
    <3>1. inbox'[t] = inbox[t]
      BY <1>1, <2>2 DEF Transmit, TypeOK
    <3>2. ASSUME NEW k \in Call, Received(t, k)
          PROVE  Received(t, k)' /\ runs'[k] = runs[k]
      BY <1>2, <3>2, ReceivedKept DEF Received
    <3>3. QED
      BY <1>2, <2>1, <3>1, <3>2, DistinctKept
  <2>3. CASE t = s
    <3>1. inbox[s] \in Seq(Request) /\ inbox'[s] = Append(inbox[s], r)
      BY <1>1 DEF Transmit, TypeOK
    <3>2. r \in Request
      BY <1>1, <1>2, <1>3 DEF Request, CallerInv, Progress
    <3>3. /\ Len(inbox[s]) \in Nat /\ Len(inbox'[s]) = Len(inbox[s]) + 1
          /\ \A i \in 1..Len(inbox[s]) : inbox'[s][i] = inbox[s][i]
          /\ inbox'[s][Len(inbox[s]) + 1] = r
      BY <3>1, <3>2
    <3>4. \A i \in 1..Len(inbox[s]) :
              /\ Rec(inbox[s][i].call) /\ runs[inbox[s][i].call] = 0
              /\ inbox[s][i].call # Open(c)
      BY <1>5, <2>1, <2>3 DEF Distinct
    <3>5. \A i \in 1..Len(inbox'[s]) :
              \/ i \in 1..Len(inbox[s]) /\ inbox'[s][i] = inbox[s][i]
              \/ i = Len(inbox[s]) + 1 /\ inbox'[s][i].call = Open(c)
      BY <3>3, SMTT(30)
    <3> HIDE DEF Rec
    <3>6. \A i \in 1..Len(inbox'[s]) :
              Rec(inbox'[s][i].call) /\ runs'[inbox'[s][i].call] = 0
      BY <1>2, <1>3, <1>4, <3>4, <3>5
    <3>7. \A i, j \in 1..Len(inbox'[s]) :
              inbox'[s][i].call = inbox'[s][j].call => i = j
      <4>1. \A i, j \in 1..Len(inbox[s]) : inbox[s][i].call = inbox[s][j].call => i = j
        BY <2>1, <2>3 DEF Distinct
      <4>2. QED
        BY <3>4, <3>5, <4>1
    <3>8. ASSUME Serving(s)
          PROVE  /\ Rec(current[s].call)
                 /\ runs[current[s].call] = IF loop[s] = "reply" THEN 1 ELSE 0
                 /\ \A i \in 1..Len(inbox'[s]) : inbox'[s][i].call # current[s].call
      <4>1. /\ Received(s, current[s].call)
            /\ runs[current[s].call] = IF loop[s] = "reply" THEN 1 ELSE 0
            /\ \A i \in 1..Len(inbox[s]) : inbox[s][i].call # current[s].call
        BY <2>1, <2>3, <3>8 DEF Distinct
      <4>2. Rec(current[s].call) /\ current[s].call # Open(c)
        BY <1>5, <4>1
      <4>3. QED
        BY <3>5, <4>1, <4>2
    <3>9. QED
      BY <1>2, <2>1, <2>3, <3>6, <3>7, <3>8 DEF Distinct, Received, Open, Rec
  <2>4. QED
    BY <2>2, <2>3
<1>7. QED
  BY <1>6 DEF RequestInv

LEMMA RequestInvByCaller ==
    ASSUME RpcInv, NEW c \in Callers, CallerStep(c)
    PROVE  RequestInv'
<1>1. CASE CallbackThrows(c)
  <2>1. Host[c] \in Servers
    BY RpcAssumption
  <2>2. QED
    BY <1>1, <2>1, DiesRequests DEF CallbackThrows
<1>2. CASE Transmit(c)
  BY <1>2, TransmitRequests
<1>3. CASE CallRefused(c) \/ CallSent(c) \/ Timeout(c) \/ CallEnds(c)
  <2>1. TypeOK /\ CallerInv
    BY DEF RpcInv
  <2>2. inbox' = inbox /\ current' = current /\ loop' = loop /\ runs' = runs
    BY <1>3 DEF CallRefused, CallSent, Timeout, CallEnds, serverVars
  <2>3. ASSUME NEW s \in Servers, NEW k \in Call, Received(s, k)
        PROVE  Received(s, k)'
    <3>1. /\ k[1] \in Callers /\ k[2] \in Nat /\ k = <<k[1], k[2]>>
          /\ k[2] <= calls[k[1]] /\ calls[c] \in Nat /\ calls[k[1]] \in Nat
      BY <2>1, <2>3, CallForm DEF Received, TypeOK
    <3>2. CASE CallRefused(c) \/ CallSent(c)
      <4>1. /\ c \notin unsent /\ outcome[<<c, calls[c] + 1>>] = "new"
            /\ <<c, calls[c] + 1>> \in Call
        BY <2>1, <3>2, NextIsCall DEF CallRefused, CallSent
      <4>2. k # <<c, calls[c] + 1>>
        BY <2>3, <4>1 DEF Received
      <4>3. outcome'[k] = outcome[k]
        BY <2>1, <3>2, <4>2 DEF CallRefused, CallSent, TypeOK
      <4>4. /\ calls'[c] = calls[c] + 1
            /\ \A d \in Callers : d # c => calls'[d] = calls[d]
            /\ unsent' \subseteq unsent \cup {c}
        BY <2>1, <3>2 DEF CallRefused, CallSent, TypeOK
      <4>5. k[2] <= calls'[k[1]]
        BY <3>1, <4>4
      <4>6. k[1] \in unsent' => k # <<k[1], calls'[k[1]]>>
        BY <2>3, <3>1, <4>2, <4>4 DEF Received, Open
      <4>7. QED
        BY <2>3, <4>3, <4>5, <4>6 DEF Received, Open
    <3>3. CASE Timeout(c) \/ CallEnds(c)
      <4>1. calls' = calls /\ unsent' = unsent
        BY <3>3 DEF Timeout, CallEnds
      <4>2. outcome'[k] \in {"open", "silent", "died"}
        BY <2>1, <2>3, <3>3 DEF Timeout, CallEnds, Received, TypeOK
      <4>3. QED
        BY <2>3, <4>1, <4>2, ReceivedKept
    <3>4. QED
      BY <1>3, <3>2, <3>3
  <2>4. ASSUME NEW s \in Servers
        PROVE  Distinct(s)'
    <3>1. Distinct(s)
      BY DEF RpcInv, RequestInv
    <3>2. QED
      BY <2>2, <2>3, <3>1, DistinctKept DEF Serving
  <2>5. QED
    BY <2>4 DEF RequestInv
<1>4. QED
  BY <1>1, <1>2, <1>3 DEF CallerStep

LEMMA ReceiveRequests ==
    ASSUME RpcInv, NEW s \in Servers, LoopReceive(s)
    PROVE  RequestInv'
<1>1. TypeOK
  BY DEF RpcInv
<1>2. calls' = calls /\ outcome' = outcome /\ unsent' = unsent /\ runs' = runs
  BY DEF LoopReceive, callerVars
<1>3. \A t : \A k \in Call : Received(t, k) => Received(t, k)'
  BY <1>2 DEF Received, Open
<1>4. ASSUME NEW t \in Servers, t # s
      PROVE  Distinct(t)'
  <2>1. Distinct(t)
    BY DEF RpcInv, RequestInv
  <2>2. inbox'[t] = inbox[t] /\ current'[t] = current[t] /\ loop'[t] = loop[t]
    BY <1>1, <1>4 DEF LoopReceive, TypeOK
  <2>3. QED
    BY <1>2, <1>3, <2>1, <2>2, DistinctKept DEF Serving
<1>5. Distinct(s)'
  <2>1. Distinct(s) /\ inbox[s] # <<>>
    BY DEF RpcInv, RequestInv, LoopReceive
  <2>2. inbox'[s] = Tail(inbox[s]) /\ current'[s] = Head(inbox[s]) /\ loop'[s] = "match"
    BY <1>1 DEF LoopReceive, TypeOK
  <2>3. /\ current'[s] = inbox[s][1] /\ 1 \in 1..Len(inbox[s])
        /\ \A i \in 1..Len(inbox'[s]) :
              i + 1 \in 1..Len(inbox[s]) /\ inbox'[s][i] = inbox[s][i + 1]
              /\ i + 1 # 1
    <3>1. Len(Tail(inbox[s])) \in Nat
      BY <1>1, <2>1, ReceiveShifts
    <3>2. QED
      BY <1>1, <2>1, <2>2, <3>1, ReceiveShifts
  <2>4. \A i \in 1..Len(inbox[s]) :
            /\ Received(s, inbox[s][i].call) /\ runs[inbox[s][i].call] = 0
            /\ \A j \in 1..Len(inbox[s]) : inbox[s][i].call = inbox[s][j].call => i = j
    BY <2>1 DEF Distinct
  <2>5. \A i \in 1..Len(inbox'[s]) :
            /\ Received(s, inbox'[s][i].call) /\ runs[inbox'[s][i].call] = 0
            /\ inbox'[s][i].call # current'[s].call
    <3>1. ASSUME NEW i \in 1..Len(inbox'[s])
          PROVE  /\ Received(s, inbox'[s][i].call) /\ runs[inbox'[s][i].call] = 0
                 /\ inbox'[s][i].call # current'[s].call
      <4>1. /\ i + 1 \in 1..Len(inbox[s]) /\ inbox'[s][i] = inbox[s][i + 1]
            /\ i + 1 # 1
        BY <2>3
      <4>2. QED
        BY <2>3, <2>4, <4>1
    <3>2. QED
      BY <3>1
  <2>6. \A i, j \in 1..Len(inbox'[s]) : inbox'[s][i].call = inbox'[s][j].call => i = j
    <3>1. ASSUME NEW i \in 1..Len(inbox'[s]), NEW j \in 1..Len(inbox'[s]),
                 inbox'[s][i].call = inbox'[s][j].call
          PROVE  i = j
      <4>1. /\ i + 1 \in 1..Len(inbox[s]) /\ inbox'[s][i] = inbox[s][i + 1]
            /\ j + 1 \in 1..Len(inbox[s]) /\ inbox'[s][j] = inbox[s][j + 1]
        BY <2>3
      <4>2. inbox[s][i + 1].call = inbox[s][j + 1].call
        BY <3>1, <4>1
      <4>3. i + 1 = j + 1
        BY <2>4, <4>1, <4>2
      <4>4. i \in Nat /\ j \in Nat
        OBVIOUS
      <4>5. QED
        BY <4>3, <4>4
    <3>2. QED
      BY <3>1
  <2>7. Received(s, current'[s].call) /\ runs[current'[s].call] = 0
    BY <2>3, <2>4
  <2>8. QED
    BY <1>2, <2>2, <2>5, <2>6, <2>7 DEF Distinct, Serving, Received, Open
<1>6. QED
  BY <1>4, <1>5 DEF RequestInv

(* The request a server works on is at no other server.                     *)
LEMMA ElsewhereOther ==
    ASSUME NEW s \in Servers, NEW t \in Servers, t # s, NEW k, NEW m,
           Received(s, k), Received(t, m)
    PROVE  k # m
  BY DEF Received

LEMMA RunRequests ==
    ASSUME RpcInv, NEW s \in Servers, LoopRun(s)
    PROVE  RequestInv'
<1> DEFINE k == current[s].call
<1>1. TypeOK /\ Distinct(s) /\ loop[s] = "run"
  BY DEF RpcInv, RequestInv, LoopRun
<1>2. Received(s, k) /\ k \in Call /\ runs[k] = 0
  BY <1>1 DEF Distinct, Serving, Received
<1>3. /\ calls' = calls /\ outcome' = outcome /\ unsent' = unsent
      /\ inbox' = inbox /\ current' = current
  BY DEF LoopRun, callerVars
<1>4. runs'[k] = 1 /\ \A m \in Call : m # k => runs'[m] = runs[m]
  <2>1. runs \in [Call -> Nat] /\ runs' = [runs EXCEPT ![k] = @ + 1]
    BY <1>1 DEF LoopRun, TypeOK
  <2>2. QED
    BY <1>2, <2>1
<1>5. ASSUME NEW t \in Servers, t # s
      PROVE  Distinct(t)'
  <2>1. Distinct(t) /\ loop'[t] = loop[t]
    BY <1>1, <1>5 DEF RpcInv, RequestInv, LoopRun, TypeOK
  <2>2. ASSUME NEW m \in Call, Received(t, m)
        PROVE  Received(t, m)' /\ runs'[m] = runs[m]
    <3>1. m # k
      BY <1>2, <1>5, <2>2, ElsewhereOther
    <3>2. QED
      BY <1>3, <1>4, <2>2, <3>1 DEF Received, Open
  <2>3. QED
    BY <1>3, <2>1, <2>2, DistinctKept DEF Serving
<1>6. Distinct(s)'
  <2>1. \A i \in 1..Len(inbox[s]) :
            /\ Received(s, inbox[s][i].call) /\ runs[inbox[s][i].call] = 0
            /\ inbox[s][i].call # k /\ inbox[s][i].call \in Call
    BY <1>1 DEF Distinct, Serving, Received
  <2>2. \A i \in 1..Len(inbox[s]) : runs'[inbox[s][i].call] = 0
    BY <1>4, <2>1
  <2>3. loop'[s] = "reply"
    BY <1>1 DEF LoopRun, TypeOK
  <2>4. \A i, j \in 1..Len(inbox[s]) : inbox[s][i].call = inbox[s][j].call => i = j
    BY <1>1 DEF Distinct
  <2>5. QED
    BY <1>2, <1>3, <1>4, <2>1, <2>2, <2>3, <2>4 DEF Distinct, Serving, Received, Open
<1>7. QED
  BY <1>5, <1>6 DEF RequestInv

LEMMA ReplyRequests ==
    ASSUME RpcInv, NEW s \in Servers, LoopReply(s)
    PROVE  RequestInv'
<1> DEFINE k == current[s].call
<1>1. TypeOK /\ Distinct(s) /\ Serving(s)
  BY DEF RpcInv, RequestInv, LoopReply, Serving
<1>2. Received(s, k)
  BY <1>1 DEF Distinct
<1>3. /\ calls' = calls /\ unsent' = unsent /\ runs' = runs /\ inbox' = inbox
  BY DEF LoopReply
<1>4. \A m \in Call : m # k => outcome'[m] = outcome[m]
  <2>1. \/ outcome' = outcome
        \/ \E o \in Outcome : outcome' = [outcome EXCEPT ![k] = o]
    BY DEF LoopReply, Awaits, Outcome
  <2>2. QED
    BY <1>1, <2>1 DEF TypeOK
<1>5. \A t : \A m \in Call : Received(t, m) /\ m # k => Received(t, m)'
  BY <1>3, <1>4 DEF Received, Open
<1>6. ASSUME NEW t \in Servers, t # s
      PROVE  Distinct(t)'
  <2>1. Distinct(t) /\ loop'[t] = loop[t] /\ current'[t] = current[t]
    BY <1>1, <1>6 DEF RpcInv, RequestInv, LoopReply, TypeOK
  <2>2. ASSUME NEW m \in Call, Received(t, m)
        PROVE  Received(t, m)' /\ runs'[m] = runs[m]
    <3>1. m # k
      BY <1>2, <1>6, <2>2, ElsewhereOther
    <3>2. QED
      BY <1>3, <1>5, <2>2, <3>1
  <2>3. QED
    BY <1>3, <2>1, <2>2, DistinctKept DEF Serving
<1>7. Distinct(s)'
  <2>1. loop'[s] = "recv"
    BY <1>1 DEF LoopReply, TypeOK
  <2>2. \A i \in 1..Len(inbox[s]) :
            /\ Received(s, inbox[s][i].call) /\ runs[inbox[s][i].call] = 0
            /\ inbox[s][i].call # k /\ inbox[s][i].call \in Call
    BY <1>1 DEF Distinct, Received
  <2>3. \A i \in 1..Len(inbox[s]) : outcome'[inbox[s][i].call] = outcome[inbox[s][i].call]
    BY <1>4, <2>2
  <2>4. \A i, j \in 1..Len(inbox[s]) : inbox[s][i].call = inbox[s][j].call => i = j
    BY <1>1 DEF Distinct
  <2>5. QED
    BY <1>3, <2>1, <2>2, <2>3, <2>4 DEF Distinct, Serving, Received, Open
<1>8. QED
  BY <1>6, <1>7 DEF RequestInv

LEMMA RequestInvByServer ==
    ASSUME RpcInv, NEW s \in Servers, ServerStep(s) \/ Crash(s) \/ Stop(s)
    PROVE  RequestInv'
<1>1. CASE Crash(s)
  BY <1>1, DiesRequests DEF Crash
<1>2. CASE LoopReceive(s)
  BY <1>2, ReceiveRequests
<1>3. CASE LoopRun(s)
  BY <1>3, RunRequests
<1>4. CASE LoopReply(s)
  BY <1>4, ReplyRequests
<1>5. ASSUME \/ Bind(s) \/ RegisterFirst(s) \/ RegisterNext(s) \/ LoopMatch(s)
             \/ LoopExit(s) \/ CloseServer(s) \/ Stop(s),
             NEW t \in Servers
      PROVE  Distinct(t)'
  <2>1. TypeOK /\ Distinct(t) /\ Orderly(s)
    BY DEF RpcInv, RequestInv, ServerInv
  <2>2. /\ calls' = calls /\ outcome' = outcome /\ unsent' = unsent /\ runs' = runs
        /\ current' = current
    BY <1>5
    DEF Bind, RegisterFirst, RegisterNext, LoopMatch, LoopExit, CloseServer, Stop,
        callerVars
  <2>3. \A k \in Call : Received(t, k) => Received(t, k)' /\ runs'[k] = runs[k]
    BY <2>2 DEF Received, Open
  <2>4. /\ Serving(t)' => Serving(t)
        /\ Serving(t)' => (loop'[t] = "reply" <=> loop[t] = "reply")
    <3>1. CASE Bind(s) \/ LoopExit(s)
      <4>1. /\ loop \in [Servers -> {"off", "recv", "match", "run", "reply", "refuse"}]
            /\ \/ loop' = [loop EXCEPT ![s] = "recv"]
               \/ loop' = [loop EXCEPT ![s] = "off"]
        BY <2>1, <3>1 DEF Bind, LoopExit, TypeOK
      <4>2. \/ loop'[t] \in {"recv", "off"}
            \/ loop'[t] = loop[t]
        BY <4>1
      <4>3. QED
        BY <4>2 DEF Serving
    <3>2. CASE LoopMatch(s)
      BY <2>1, <3>2, ZenonT(60) DEF LoopMatch, Serving, TypeOK
    <3>3. CASE RegisterFirst(s) \/ RegisterNext(s) \/ CloseServer(s) \/ Stop(s)
      BY <3>3 DEF RegisterFirst, RegisterNext, CloseServer, Stop, Serving
    <3>4. QED
      BY <1>5, <3>1, <3>2, <3>3
  <2>5. CASE inbox'[t] = inbox[t]
    BY <2>1, <2>2, <2>3, <2>4, <2>5, DistinctKept
  <2>6. CASE inbox'[t] # inbox[t]
    <3>1. CloseServer(s) /\ loop[s] = "off"
      BY <1>5, <2>6
      DEF Bind, RegisterFirst, RegisterNext, LoopMatch, LoopExit, CloseServer, Stop
    <3>2. t = s /\ inbox'[t] = <<>> /\ loop'[t] = "off"
      BY <2>1, <2>6, <3>1 DEF CloseServer, TypeOK
    <3>3. QED
      BY <3>2 DEF Distinct, Serving
  <2>7. QED
    BY <2>5, <2>6
<1>6. CASE ~(Crash(s) \/ LoopReceive(s) \/ LoopRun(s) \/ LoopReply(s))
  BY <1>5, <1>6 DEF ServerStep, RequestInv
<1>7. QED
  BY <1>1, <1>2, <1>3, <1>4, <1>6
------------------------------------------------------------------------------
(* Whatever the callers and servers do, crashes and stops included, types,  *)
(* servers, calls and requests stay in order.                               *)
LEMMA RpcNext == RpcInv /\ [Next]_vars => RpcInv'
<1> SUFFICES ASSUME RpcInv, [Next]_vars
             PROVE  RpcInv'
  OBVIOUS
<1>1. ASSUME NEW c \in Callers, CallerStep(c)
      PROVE  RpcInv'
  BY <1>1, CallerTypes, ServerInvByCaller, CallerInvByCaller, RequestInvByCaller
  DEF RpcInv
<1>2. ASSUME NEW s \in Servers, ServerStep(s) \/ Crash(s) \/ Stop(s)
      PROVE  RpcInv'
  BY <1>2, ServerTypes, ServerInvByServer, CallerInvByServer, RequestInvByServer
  DEF RpcInv
<1>3. CASE UNCHANGED vars
  <2>1. TypeOK'
    BY <1>3 DEF vars, callerVars, serverVars, RpcInv, TypeOK
  <2>2. ServerInv'
    BY <1>3 DEF vars, serverVars, RpcInv, ServerInv, Orderly, Serving
  <2>3. CallerInv'
    BY <1>3 DEF vars, callerVars, RpcInv, CallerInv, Progress, Open
  <2>4. RequestInv'
    BY <1>3
    DEF vars, callerVars, serverVars, RpcInv, RequestInv, Distinct, Serving,
        Received, Open
  <2>5. QED
    BY <2>1, <2>2, <2>3, <2>4 DEF RpcInv
<1>4. QED
  BY <1>1, <1>2, <1>3 DEF Next

LEMMA RpcInit == Init => RpcInv
<1> SUFFICES ASSUME Init
             PROVE  RpcInv
  OBVIOUS
<1>1. TypeOK
  <2>1. /\ inbox = [s \in Servers |-> <<>>]
        /\ registered = [s \in Servers |-> 0]
    BY DEF Init
  <2>2. inbox \in [Servers -> Seq(Request)]
    <3>1. <<>> \in Seq(Request)
      OBVIOUS
    <3>2. QED
      BY <2>1, <3>1
  <2>3. /\ registered \in [Servers -> Nat]
        /\ \A s \in Servers : registered[s] <= Len(ActionsOf[s])
    BY <2>1, ActionsCounted
  <2>4. QED
    BY <2>2, <2>3 DEF Init, TypeOK, Outcome
<1>2. ServerInv
  BY DEF Init, ServerInv, Orderly, Serving
<1>3. CallerInv
  <2>1. ASSUME NEW c \in Callers
        PROVE  Progress(c)
    <3>1. MaxCalls[c] \in Nat
      BY RpcAssumption
    <3>2. \A n \in 1..MaxCalls[c] : <<c, n>> \in Call
      BY <3>1, CallForm
    <3>3. /\ calls[c] = 0 /\ caller[c] = "idle" /\ c \notin unsent
          /\ \A k \in Call : outcome[k] = "new" /\ runs[k] = 0
      BY DEF Init
    <3>4. QED
      BY <3>1, <3>2, <3>3 DEF Progress
  <2>2. QED
    BY <2>1 DEF CallerInv
<1>4. RequestInv
  <2>1. \A s \in Servers : inbox[s] = <<>> /\ loop[s] = "off"
    BY DEF Init
  <2>2. QED
    BY <2>1 DEF RequestInv, Distinct, Serving
<1>5. QED
  BY <1>1, <1>2, <1>3, <1>4 DEF RpcInv

LEMMA RpcInvariant == Spec => []RpcInv
  BY RpcInit, RpcNext, PTL DEF Spec

(* Every variable keeps its type.                                           *)
THEOREM TypeCorrect == Spec => []TypeOK
<1>1. RpcInv => TypeOK
  BY DEF RpcInv
<1>2. QED
  BY <1>1, RpcInvariant, PTL

(* The event loop refuses a request only when its action is unknown, and    *)
(* the lock keeps it from looking before the first action is entered.       *)
LEMMA RefusesUnknown ==
    RpcInv /\ FirstActionIsKnown /\ [Next]_vars => FirstActionIsKnown'
<1> SUFFICES ASSUME RpcInv, FirstActionIsKnown, [Next]_vars,
                    NEW s \in Servers, loop'[s] = "refuse"
             PROVE  current'[s].action # ActionsOf[s][1]
  BY DEF FirstActionIsKnown
<1>1. TypeOK
  BY DEF RpcInv
<1>2. CASE loop[s] = "refuse" /\ current'[s] = current[s]
  BY <1>2 DEF FirstActionIsKnown
<1>3. CASE LoopMatch(s)
  <2>1. current'[s] = current[s] /\ ~Known(s, current[s].action)
    BY <1>1, <1>3 DEF LoopMatch, TypeOK
  <2>2. registered[s] \in Nat /\ registered[s] # 0
    BY <1>1, <1>3 DEF LoopMatch, RpcInv, ServerInv, Orderly, TypeOK
  <2>3. 1 \in 1..registered[s]
    BY <2>2
  <2>4. QED
    BY <2>1, <2>3 DEF Known
<1>4. ASSUME ~LoopMatch(s)
      PROVE  loop[s] = "refuse" /\ current'[s] = current[s]
  <2>1. ASSUME NEW t \in Servers, Dies(t)
        PROVE  loop[s] = "refuse" /\ current'[s] = current[s]
    BY <1>1, <2>1 DEF Dies, TypeOK
  <2>2. ASSUME NEW c \in Callers, CallerStep(c)
        PROVE  loop[s] = "refuse" /\ current'[s] = current[s]
    <3>1. CASE CallbackThrows(c)
      <4>1. Host[c] \in Servers
        BY RpcAssumption
      <4>2. QED
        BY <2>1, <3>1, <4>1 DEF CallbackThrows
    <3>2. CASE ~CallbackThrows(c)
      <4>1. loop' = loop /\ current' = current
        BY <2>2, <3>2
        DEF CallerStep, CallRefused, CallSent, Transmit, Timeout, CallEnds, serverVars
      <4>2. QED
        BY <4>1
    <3>3. QED
      BY <3>1, <3>2
  <2>3. ASSUME NEW t \in Servers, ServerStep(t) \/ Stop(t)
        PROVE  loop[s] = "refuse" /\ current'[s] = current[s]
    <3>1. CASE Bind(t) \/ LoopExit(t)
      BY <1>1, <3>1, ZenonT(60) DEF Bind, LoopExit, TypeOK
    <3>2. CASE RegisterFirst(t) \/ RegisterNext(t) \/ CloseServer(t) \/ Stop(t)
      BY <3>2 DEF RegisterFirst, RegisterNext, CloseServer, Stop
    <3>3. CASE LoopReceive(t) \/ LoopRun(t)
      BY <1>1, <3>3, ZenonT(60) DEF LoopReceive, LoopRun, TypeOK
    <3>4. CASE LoopReply(t)
      BY <1>1, <3>4 DEF LoopReply, TypeOK
    <3>5. CASE LoopMatch(t) /\ t # s
      BY <1>1, <3>5 DEF LoopMatch, TypeOK
    <3>6. QED
      BY <1>4, <2>3, <3>1, <3>2, <3>3, <3>4, <3>5 DEF ServerStep
  <2>4. CASE UNCHANGED vars
    BY <2>4 DEF vars, serverVars
  <2>5. QED
    BY <2>1, <2>2, <2>3, <2>4 DEF Next, Crash
<1>5. QED
  BY <1>2, <1>3, <1>4

(* No call of the action that a server registers first meets "NotAction".   *)
THEOREM FirstActionAlwaysKnown == Spec => []FirstActionIsKnown
<1>1. Init => FirstActionIsKnown
  BY DEF Init, FirstActionIsKnown
<1>2. QED
  BY <1>1, RpcInvariant, RefusesUnknown, PTL DEF Spec
------------------------------------------------------------------------------
(* Each step of the callers and servers is a step of the calls, or leaves   *)
(* them alone.                                                              *)

LEMMA DiesPromised ==
    ASSUME RpcInv, NEW s \in Servers, Dies(s)
    PROVE  Promise!Die
<1>1. outcome' \in [Call -> {"new", "open", "answered", "refused", "unknown", "silent", "died"}]
  BY DEF RpcInv, TypeOK, Outcome, Dies
<1>2. \A k \in Call : outcome'[k] # outcome[k] => outcome[k] = "open" /\ outcome'[k] = "died"
  BY DEF Dies
<1>3. runs' = runs
  BY DEF Dies
<1>4. QED
  BY <1>1, <1>2, <1>3 DEF Promise!Die

LEMMA CallerPromised ==
    ASSUME RpcInv, NEW c \in Callers, CallerStep(c)
    PROVE  Promise!Next \/ UNCHANGED <<runs, outcome>>
<1>1. TypeOK /\ CallerInv
  BY DEF RpcInv
<1>2. CASE CallRefused(c)
  <2>1. <<c, calls[c] + 1>> \in Call /\ outcome[<<c, calls[c] + 1>>] = "new"
    BY <1>1, <1>2, NextIsCall DEF CallRefused
  <2>2. Promise!Refuse(<<c, calls[c] + 1>>)
    BY <1>2, <2>1 DEF CallRefused, Promise!Refuse
  <2>3. QED
    BY <2>1, <2>2 DEF Promise!Next
<1>3. CASE CallSent(c)
  <2>1. <<c, calls[c] + 1>> \in Call /\ outcome[<<c, calls[c] + 1>>] = "new"
    BY <1>1, <1>3, NextIsCall DEF CallSent
  <2>2. Promise!Invoke(<<c, calls[c] + 1>>)
    BY <1>3, <2>1 DEF CallSent, Promise!Invoke
  <2>3. QED
    BY <2>1, <2>2 DEF Promise!Next
<1>4. CASE Timeout(c)
  <2>1. Open(c) \in Call /\ outcome[Open(c)] = "open"
    BY <1>1, <1>4, OpenIsCall DEF Timeout, GivesUp, CallerInv, Progress
  <2>2. Promise!Return(Open(c), "silent")
    BY <1>4, <2>1 DEF Timeout, Promise!Return
  <2>3. QED
    BY <2>1, <2>2 DEF Promise!Next
<1>5. CASE CallbackThrows(c)
  <2>1. Host[c] \in Servers
    BY RpcAssumption
  <2>2. QED
    BY <1>5, <2>1, DiesPromised DEF CallbackThrows, Promise!Next
<1>6. CASE Transmit(c) \/ CallEnds(c)
  BY <1>6 DEF Transmit, CallEnds
<1>7. QED
  BY <1>2, <1>3, <1>4, <1>5, <1>6 DEF CallerStep

LEMMA ServerPromised ==
    ASSUME RpcInv, NEW s \in Servers, ServerStep(s) \/ Crash(s) \/ Stop(s)
    PROVE  Promise!Next \/ UNCHANGED <<runs, outcome>>
<1> DEFINE k == current[s].call
<1>1. TypeOK /\ Distinct(s)
  BY DEF RpcInv, RequestInv
<1>2. CASE LoopRun(s)
  <2>1. k \in Call /\ runs[k] = 0 /\ outcome[k] \in {"open", "silent", "died"}
    BY <1>1, <1>2 DEF LoopRun, Distinct, Serving, Received
  <2>2. runs' = [runs EXCEPT ![k] = 1]
    <3>1. runs \in [Call -> Nat] /\ runs' = [runs EXCEPT ![k] = @ + 1]
      BY <1>1, <1>2 DEF LoopRun, TypeOK
    <3>2. QED
      BY <2>1, <3>1
  <2>3. Promise!Run(k)
    BY <1>2, <2>1, <2>2 DEF LoopRun, Promise!Run
  <2>4. QED
    BY <2>1, <2>3 DEF Promise!Next
<1>3. CASE LoopReply(s)
  <2>1. CASE UNCHANGED outcome
    BY <1>3, <2>1 DEF LoopReply
  <2>2. CASE ~UNCHANGED outcome
    <3>1. Awaits(k) /\ runs' = runs
      BY <1>3, <2>2 DEF LoopReply
    <3>2. Received(s, k) /\ runs[k] = IF loop[s] = "reply" THEN 1 ELSE 0
      BY <1>1, <1>3 DEF LoopReply, Distinct, Serving
    <3>3. /\ k \in Call /\ Open(k[1]) = k /\ outcome[k] = "open"
      BY <3>1, <3>2, CallForm DEF Received, Awaits, RpcInv, CallerInv, Progress
    <3>4. CASE loop[s] = "reply"
      <4>1. outcome' = [outcome EXCEPT ![k] = "answered"]
        BY <1>3, <2>2, <3>3, <3>4 DEF LoopReply
      <4>2. Promise!Return(k, "answered")
        BY <3>1, <3>2, <3>3, <3>4, <4>1 DEF Promise!Return
      <4>3. QED
        BY <3>3, <4>2 DEF Promise!Next
    <3>5. CASE loop[s] # "reply"
      <4>1. outcome' = [outcome EXCEPT ![k] = "unknown"]
        BY <1>3, <2>2, <3>3, <3>5 DEF LoopReply
      <4>2. Promise!Return(k, "unknown")
        BY <3>1, <3>2, <3>3, <3>5, <4>1 DEF Promise!Return
      <4>3. QED
        BY <3>3, <4>2 DEF Promise!Next
    <3>6. QED
      BY <3>4, <3>5
  <2>3. QED
    BY <2>1, <2>2
<1>4. CASE Crash(s)
  BY <1>4, DiesPromised DEF Crash, Promise!Next
<1>5. CASE ~(LoopRun(s) \/ LoopReply(s) \/ Crash(s))
  BY <1>5
  DEF ServerStep, Bind, RegisterFirst, RegisterNext, LoopReceive, LoopMatch,
      LoopExit, CloseServer, Stop
<1>6. QED
  BY <1>2, <1>3, <1>4, <1>5

(* RPC over ZMQ is RemoteCall: an action runs at most once, a reply goes to *)
(* the call it answers and means that the action has run, what was refused  *)
(* or unknown never runs (pzmq.hpp:148-184, 287-346).                       *)
THEOREM RpcIsRemoteCall == Spec => ImplementsRemoteCall
<1>1. Init => Promise!Init
  BY DEF Init, Promise!Init
<1>2. RpcInv /\ [Next]_vars => [Promise!Next]_(Promise!vars)
  <2>1. RpcInv /\ Next => Promise!Next \/ UNCHANGED <<runs, outcome>>
    BY CallerPromised, ServerPromised DEF Next
  <2>2. UNCHANGED vars => UNCHANGED <<runs, outcome>>
    BY DEF vars
  <2>3. QED
    BY <2>1, <2>2 DEF Promise!vars
<1>3. QED
  BY <1>1, <1>2, RpcInvariant, PTL DEF Spec, ImplementsRemoteCall, Promise!Spec
==============================================================================
