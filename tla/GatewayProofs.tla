---------------------------- MODULE GatewayProofs ----------------------------
(* Theorems about Gateway for every number of requests, units, stages,      *)
(* sessions and restarts of unit-manager.                                   *)
EXTENDS Gateway, SequenceTheorems, TLAPS

(* What is in a queue, a connection's input, a node's job queue.            *)
In(s, e) == \E i \in 1..Len(s) : s[i] = e

Queued(u, e)   == In(node[u].events, e)
Received(r, l) == In(inbox[r], l)
Working(u, j)  == In(node[u].jobs, j) \/ node[u].worker = j

Tokens   == {"setup", "full"}
Parting  == {"exit", "unknown"}

(* A stage has a connection, and a work id, while it needs them.            *)
StageInv ==
    \A r \in Requests :
        /\ pc[r] \in {"infer", "yield", "cleanup", "exit"} => work[r] \in Ids
        /\ pc[r] \in {"open", "setup", "done"} => work[r] = NoId
        /\ pc[r] \in {"open", "cleanup", "done"} => conn[r] = NoConn /\ inbox[r] = <<>>
        /\ pc[r] \in {"setup", "infer", "yield", "exit"} => conn[r].com # NoCom

(* TCP sessions have different numbers as long as unit-manager runs.        *)
ConnInv ==
    /\ \A r \in Requests :
          /\ conn[r].epoch <= epoch
          /\ conn[r].epoch = epoch => conn[r].com <= coms
    /\ \A r, q \in Requests :
          conn[r].com # NoCom /\ conn[r] = conn[q] => r = q

(* The sessions of an epoch have the work ids given out so far.             *)
Made(s) == s[1] < epoch \/ (s[1] = epoch /\ s[2] <= ids)

MadeInv ==
    /\ ~up => registered = {} /\ epoch < MaxRestarts
    /\ \A u \in Units :
        /\ \A n \in Ids :
              /\ node[u].tasks[n] # NoEpoch =>
                    /\ Made(<<node[u].tasks[n], n>>)
                    /\ owner[<<node[u].tasks[n], n>>] \in Requests
              /\ node[u].map[n] # NoEpoch => Made(<<node[u].map[n], n>>)
        /\ \A s \in Sid : node[u].channel[s] # NoChannel => Made(s)

GatewayInv == TypeOK /\ StageInv /\ ConnInv /\ MadeInv

(* The TCP sessions that belong to request r.                               *)
Claims(r, com) ==
    \/ conn[r].com = com
    \/ \E u \in Units :
          \/ \E e \in Event : Queued(u, e) /\ e.to = com /\ e.req = r
          \/ node[u].ev # NoAnswer /\ node[u].ev.to = com /\ node[u].ev.line.for = r
          \/ \E s \in Sid : node[u].channel[s].url = com /\ owner[s] = r

Com == Nat \ {NoCom}

(* The session n is one that request r asked for.                           *)
Asked(r, n) == n \in 1..ids /\ owner[<<0, n>>] = r

OwnUnit(u) ==
    /\ \A e \in Event : Queued(u, e) /\ e.kind = "exit" => Asked(e.req, e.id)
    /\ node[u].ev # NoAnswer =>
          /\ Asked(node[u].ev.line.for, node[u].ev.line.id)
          /\ node[u].ev.release => node[u].tasks[node[u].ev.line.id] = NoEpoch
          /\ node[u].ev.release <=> node[u].ev.line.kind \in {"full", "exit"}
    /\ \A s \in Sid : \A l \in WorkerLine :
          In(node[u].channel[s].held, l) => l.for = owner[s] /\ l.id = s[2]
    /\ \A j \in Job : Working(u, j) => j.sid[1] = 0 /\ Asked(j.req, j.sid[2])
    /\ \A n \in Ids : node[u].tasks[n] # NoEpoch => node[u].map[n] = node[u].tasks[n]

OwnInv ==
    /\ \A r, q \in Requests, com \in Com : Claims(r, com) /\ Claims(q, com) => r = q
    /\ \A r \in Requests, com \in Com : Claims(r, com) => com <= coms
    /\ \A r \in Requests :
          /\ work[r] # NoId => Asked(r, work[r])
          /\ \A l \in AnyLine : Received(r, l) => l.for = r /\ Asked(r, l.id)
    /\ \A u \in Units : OwnUnit(u)

FirstEpochInv == epoch = 0 => OwnInv

(* Whatever the answer to r's setup is, it is in one place.                 *)
Patient(r) == <<r, "setup">> \notin lapses

SetupQueued(r, u, i) ==
    i \in 1..Len(node[u].events) /\ node[u].events[i].kind = "setup" /\ node[u].events[i].req = r
SetupHandled(r, u) ==
    node[u].ev # NoAnswer /\ node[u].ev.line.kind \in Tokens /\ node[u].ev.line.for = r
SetupReceived(r, q, i) ==
    i \in 1..Len(inbox[q]) /\ inbox[q][i].kind \in Tokens /\ inbox[q][i].for = r

TokenOf(r) ==
    /\ \A u \in Units, i \in Nat : SetupQueued(r, u, i) =>
          /\ pc[r] = "setup" /\ u = UnitOf(r)
          /\ \A v \in Units, j \in Nat : SetupQueued(r, v, j) => v = u /\ j = i
          /\ \A v \in Units : ~SetupHandled(r, v)
          /\ \A q \in Requests, j \in Nat : ~SetupReceived(r, q, j)
    /\ \A u \in Units : SetupHandled(r, u) =>
          /\ pc[r] = "setup"
          /\ \A v \in Units : SetupHandled(r, v) => v = u
          /\ \A q \in Requests, j \in Nat : ~SetupReceived(r, q, j)
    /\ \A q \in Requests, i \in Nat : SetupReceived(r, q, i) =>
          /\ pc[r] = "setup"
          /\ \A p \in Requests, j \in Nat : SetupReceived(r, p, j) => p = q /\ j = i

TokenInv == \A r \in Requests : Patient(r) => TokenOf(r)

(* Sessions whose request did not lapse will be exited.                     *)
NewSession(r, u, n) ==
    /\ pc[r] = "setup" /\ UnitOf(r) = u
    /\ \A v \in Units, i \in Nat : ~SetupQueued(r, v, i)
    /\ \A v \in Units : SetupHandled(r, v) =>
          node[v].ev.line.kind = "setup" /\ node[v].ev.line.id = n
    /\ \A q \in Requests, i \in Nat : SetupReceived(r, q, i) =>
          inbox[q][i].kind = "setup" /\ inbox[q][i].id = n

CurrentSession(r, u, n) ==
    pc[r] \in {"infer", "yield", "cleanup"} /\ UnitOf(r) = u /\ work[r] = n

Reliable(r) == <<r, "setup">> \notin lapses /\ <<r, "cleanup">> \notin lapses

BackInv ==
    \A u \in Units, n \in Ids :
        node[u].tasks[n] # NoEpoch =>
            /\ node[u].alive
            /\ \A r \in Requests :
                  owner[<<node[u].tasks[n], n>>] = r /\ Reliable(r) =>
                      ExitComes(u, n) \/ NewSession(r, u, n) \/ CurrentSession(r, u, n)

(* Requests that wait for their answers, before unit-manager ends.          *)
Orderly == up /\ epoch = 0 /\ lapses = {}

Inferring(r) == pc[r] \in {"infer", "yield"}

NoJobs(r) == \A u \in Units, j \in Job : Working(u, j) => j.req # r

(* A request's last job, and what it has received.                          *)
OrderlyRequest(r) ==
    /\ pc[r] = "setup" =>
          \A i \in 1..Len(inbox[r]) : inbox[r][i].kind \in Tokens
    /\ Inferring(r) =>
          /\ \A i \in 1..Len(inbox[r]) :
                /\ inbox[r][i].kind \in {"part", "last"} /\ inbox[r][i].unit = UnitOf(r)
                /\ inbox[r][i].kind = "last" => i = Len(inbox[r]) /\ NoJobs(r)

OrderlyJob(u, j) ==
    /\ Inferring(j.req) /\ j.sid[2] = work[j.req] /\ u = UnitOf(j.req)
    /\ node[u].channel[j.sid].url = conn[j.req].com

OneJob(u) ==
    /\ \A i, k \in 1..Len(node[u].jobs) : node[u].jobs[i].req = node[u].jobs[k].req => i = k
    /\ node[u].worker # NoJob =>
          \A i \in 1..Len(node[u].jobs) : node[u].jobs[i].req # node[u].worker.req

(* On its way are an exit, or its answer; a setup, or its answer; the work  *)
(* id that a setup is answered with.                                        *)
Exiting(u, r, n, com) ==
    \/ \E e \in Event : /\ Queued(u, e) /\ e.kind = "exit"
                         /\ e.req = r /\ e.id = n /\ e.to = com
    \/ /\ node[u].ev # NoAnswer /\ node[u].ev.line.kind \in Parting
       /\ node[u].ev.line.for = r /\ node[u].ev.line.id = n /\ node[u].ev.to = com

SettingUp(u, r, com) ==
    \/ \E e \in Event : Queued(u, e) /\ e.kind = "setup" /\ e.req = r /\ e.to = com
    \/ /\ node[u].ev # NoAnswer /\ node[u].ev.line.kind \in Tokens
       /\ node[u].ev.line.for = r /\ node[u].ev.to = com

Announced(n) ==
    \/ \E v \in Units : /\ node[v].ev # NoAnswer /\ node[v].ev.line.kind = "setup"
                        /\ node[v].ev.line.id = n
    \/ \E q \in Requests, l \in AnyLine : Received(q, l) /\ l.kind = "setup" /\ l.id = n

(* Exits, and their answers, are for sessions that nobody uses any more.    *)
OrderlyExit(r, n, com) ==
    /\ work[r] = n => pc[r] = "exit"
    /\ com # NoCom /\ conn[r].com = com => pc[r] = "exit"
    /\ ~Announced(n)

NodesOrderly ==
    \A u \in Units : node[u].alive /\ \A s \in Sid : node[u].channel[s].held = <<>>

JobsOrderly ==
    \A u \in Units : OneJob(u) /\ \A j \in Job : Working(u, j) => OrderlyJob(u, j)

ExitsOrderly ==
    \A u \in Units, r \in Requests, n \in Ids, com \in Nat :
        Exiting(u, r, n, com) => OrderlyExit(r, n, com)

SetupsOrderly ==
    \A u \in Units, r \in Requests, com \in Nat : SettingUp(u, r, com) => conn[r].com = com

LinesOrderly == \A r \in Requests : OrderlyRequest(r)

AllOrderly == NodesOrderly /\ JobsOrderly /\ ExitsOrderly /\ SetupsOrderly /\ LinesOrderly

OrderlyInv == Orderly => AllOrderly

------------------------------------------------------------------------------
(* Queues.                                                                  *)

LEMMA Appending ==
    ASSUME NEW S, NEW s \in Seq(S), NEW e \in S
    PROVE  /\ Append(s, e) \in Seq(S) /\ Append(s, e) # <<>>
           /\ Len(Append(s, e)) = Len(s) + 1
           /\ \A i \in 1..Len(s) : Append(s, e)[i] = s[i]
           /\ Append(s, e)[Len(s) + 1] = e
           /\ \A x : In(Append(s, e), x) <=> In(s, x) \/ x = e
<1>1. /\ Append(s, e) \in Seq(S) /\ Append(s, e) # <<>>
      /\ Len(Append(s, e)) = Len(s) + 1
      /\ \A i \in 1..Len(s) : Append(s, e)[i] = s[i]
      /\ Append(s, e)[Len(s) + 1] = e
      /\ Len(s) \in Nat
  OBVIOUS
<1>2. ASSUME NEW x
      PROVE  In(Append(s, e), x) <=> In(s, x) \/ x = e
  <2>1. \A i : i \in 1..(Len(s) + 1) <=> i \in 1..Len(s) \/ i = Len(s) + 1
    BY <1>1
  <2>2. QED
    BY <1>1, <2>1, Zenon DEF In
<1>3. QED
  BY <1>1, <1>2

LEMMA TakingFirst ==
    ASSUME NEW S, NEW s \in Seq(S), s # <<>>
    PROVE  /\ Head(s) \in S /\ Tail(s) \in Seq(S)
           /\ Len(s) \in Nat \ {0} /\ Len(Tail(s)) = Len(s) - 1
           /\ Head(s) = s[1] /\ 1 \in 1..Len(s)
           /\ \A i \in 1..Len(Tail(s)) : i + 1 \in 1..Len(s) /\ Tail(s)[i] = s[i + 1]
           /\ In(s, Head(s))
           /\ \A x : In(Tail(s), x) => In(s, x)
           /\ \A x : In(s, x) => x = Head(s) \/ In(Tail(s), x)
<1>1. /\ Head(s) \in S /\ Tail(s) \in Seq(S)
      /\ Len(s) \in Nat \ {0} /\ Len(Tail(s)) = Len(s) - 1
      /\ Head(s) = s[1] /\ 1 \in 1..Len(s)
      /\ \A i \in 1..Len(Tail(s)) : i + 1 \in 1..Len(s) /\ Tail(s)[i] = s[i + 1]
  OBVIOUS
<1>2. In(s, Head(s))
  BY <1>1 DEF In
<1>3. ASSUME NEW x, In(Tail(s), x)
      PROVE  In(s, x)
  BY <1>1, <1>3 DEF In
<1>4. ASSUME NEW x, In(s, x)
      PROVE  x = Head(s) \/ In(Tail(s), x)
  <2>1. PICK i \in 1..Len(s) : s[i] = x
    BY <1>4 DEF In
  <2>2. CASE i = 1
    BY <1>1, <2>1, <2>2
  <2>3. CASE i # 1
    <3>1. i - 1 \in 1..Len(Tail(s)) /\ (i - 1) + 1 = i
      BY <1>1, <2>3
    <3>2. Tail(s)[i - 1] = x
      BY <1>1, <2>1, <3>1
    <3>3. QED
      BY <3>1, <3>2 DEF In
  <2>4. QED
    BY <2>2, <2>3
<1>5. QED
  BY <1>1, <1>2, <1>3, <1>4

LEMMA Concatenating ==
    ASSUME NEW S, NEW s \in Seq(S), NEW t \in Seq(S)
    PROVE  /\ s \o t \in Seq(S)
           /\ Len(s \o t) = Len(s) + Len(t) /\ Len(s) \in Nat /\ Len(t) \in Nat
           /\ \A i \in 1..Len(s) : (s \o t)[i] = s[i]
           /\ \A i \in 1..Len(t) : (s \o t)[Len(s) + i] = t[i]
           /\ \A x : In(s \o t, x) <=> In(s, x) \/ In(t, x)
<1>1. /\ s \o t \in Seq(S)
      /\ Len(s \o t) = Len(s) + Len(t) /\ Len(s) \in Nat /\ Len(t) \in Nat
      /\ \A i \in 1..Len(s) : (s \o t)[i] = s[i]
      /\ \A i \in 1..Len(t) : (s \o t)[Len(s) + i] = t[i]
  OBVIOUS
<1>2. ASSUME NEW x
      PROVE  In(s \o t, x) <=> In(s, x) \/ In(t, x)
  <2>1. ASSUME In(s \o t, x)
        PROVE  In(s, x) \/ In(t, x)
    <3>1. PICK i \in 1..(Len(s) + Len(t)) : (s \o t)[i] = x
      BY <1>1, <2>1 DEF In
    <3>2. CASE i \in 1..Len(s)
      BY <1>1, <3>1, <3>2 DEF In
    <3>3. CASE i \notin 1..Len(s)
      <4>1. i - Len(s) \in 1..Len(t) /\ Len(s) + (i - Len(s)) = i
        BY <1>1, <3>3
      <4>2. t[i - Len(s)] = x
        BY <1>1, <3>1, <4>1
      <4>3. QED
        BY <4>1, <4>2 DEF In
    <3>4. QED
      BY <3>2, <3>3
  <2>2. ASSUME In(s, x)
        PROVE  In(s \o t, x)
    <3>1. PICK i \in 1..Len(s) : s[i] = x
      BY <2>2 DEF In
    <3>2. i \in 1..Len(s \o t) /\ (s \o t)[i] = x
      BY <1>1, <3>1
    <3>3. QED
      BY <3>2 DEF In
  <2>3. ASSUME In(t, x)
        PROVE  In(s \o t, x)
    <3>1. PICK i \in 1..Len(t) : t[i] = x
      BY <2>3 DEF In
    <3>2. Len(s) + i \in 1..Len(s \o t) /\ (s \o t)[Len(s) + i] = x
      BY <1>1, <3>1
    <3>3. QED
      BY <3>2 DEF In
  <2>4. QED
    BY <2>1, <2>2, <2>3
<1>3. QED
  BY <1>1, <1>2

(* The length and the front of two sequences in a row.                      *)
LEMMA JoinedLength ==
    ASSUME NEW S, NEW s \in Seq(S), NEW t \in Seq(S)
    PROVE  Len(s \o t) = Len(s) + Len(t) /\ Len(s) \in Nat
  OBVIOUS

LEMMA JoinedFront ==
    ASSUME NEW S, NEW s \in Seq(S), NEW t \in Seq(S)
    PROVE  \A i \in 1..Len(s) : (s \o t)[i] = s[i]
  OBVIOUS

(* A sequence with one more entry behind it.                                *)
LEMMA OneLonger ==
    ASSUME NEW S, NEW s \in Seq(S), NEW t \in Seq(S), Len(t) = 1
    PROVE  /\ Len(s \o t) = Len(s) + 1 /\ Len(s) \in Nat
           /\ \A i \in 1..Len(s) : (s \o t)[i] = s[i]
<1>1. Len(s \o t) = Len(s) + Len(t) /\ Len(s) \in Nat
  BY JoinedLength
<1>2. \A i \in 1..Len(s) : (s \o t)[i] = s[i]
  BY JoinedFront
<1>3. QED
  BY <1>1, <1>2

LEMMA EmptyQueue ==
    ASSUME NEW S
    PROVE  <<>> \in Seq(S) /\ Len(<<>>) = 0 /\ \A x : ~In(<<>>, x)
  BY DEF In

LEMMA InType ==
    ASSUME NEW S, NEW s \in Seq(S), NEW x, In(s, x)
    PROVE  x \in S
  BY DEF In

------------------------------------------------------------------------------
(* What a step makes of a node.                                             *)

(* The node of unit u has these fields from now on, and the others stay.    *)
NodeIs(u, alive, events, ev, tasks, map, channel, jobs, worker) ==
    \E x \in [alive : {alive}, events : {events}, ev : {ev}, tasks : {tasks},
              map : {map}, channel : {channel}, jobs : {jobs}, worker : {worker}] :
        node' = [node EXCEPT ![u] = x]

LEMMA NodeTyped ==
    ASSUME TypeOK, NEW u \in Units, NEW a \in BOOLEAN, NEW e \in Seq(Event),
           NEW v \in AnyAnswer \cup {NoAnswer},
           NEW t \in [Ids -> Epochs \cup {NoEpoch}],
           NEW m \in [Ids -> Epochs \cup {NoEpoch}], NEW c \in [Sid -> Channel],
           NEW j \in Seq(Job), NEW w \in Job \cup {NoJob},
           NodeIs(u, a, e, v, t, m, c, j, w)
    PROVE  node' \in [Units -> Node]
<1>1. PICK x \in [alive : {a}, events : {e}, ev : {v}, tasks : {t},
                  map : {m}, channel : {c}, jobs : {j}, worker : {w}] :
          node' = [node EXCEPT ![u] = x]
  BY DEF NodeIs
<1>2. x \in Node
  BY DEF Node
<1>3. QED
  BY <1>1, <1>2 DEF TypeOK

LEMMA NodeFields ==
    ASSUME TypeOK, NEW u \in Units, NEW a, NEW e, NEW v, NEW t, NEW m, NEW c,
           NEW j, NEW w, NodeIs(u, a, e, v, t, m, c, j, w)
    PROVE  /\ node'[u].alive = a /\ node'[u].events = e /\ node'[u].ev = v
           /\ node'[u].tasks = t /\ node'[u].map = m /\ node'[u].channel = c
           /\ node'[u].jobs = j /\ node'[u].worker = w
           /\ \A x \in Units \ {u} : node'[x] = node[x]
  BY DEF NodeIs, TypeOK

LEMMA NodeTypes ==
    ASSUME TypeOK, NEW u \in Units
    PROVE  /\ node[u] \in Node
           /\ node[u].alive \in BOOLEAN /\ node[u].events \in Seq(Event)
           /\ node[u].ev \in AnyAnswer \cup {NoAnswer}
           /\ node[u].tasks \in [Ids -> Epochs \cup {NoEpoch}]
           /\ node[u].map \in [Ids -> Epochs \cup {NoEpoch}]
           /\ node[u].channel \in [Sid -> Channel]
           /\ node[u].jobs \in Seq(Job) /\ node[u].worker \in Job \cup {NoJob}
  BY DEF TypeOK, Node

LEMMA UnitOfType ==
    ASSUME TypeOK, NEW r \in Requests
    PROVE  UnitOf(r) \in Units
<1>1. Stages[r] \in Seq(Units)
  BY GatewayAssumption
<1>2. stage[r] \in DOMAIN Stages[r]
  BY DEF TypeOK
<1>3. QED
  BY <1>1, <1>2 DEF UnitOf

LEMMA QueueEffect ==
    ASSUME TypeOK, NEW u \in Units, NEW e, Queue(u, e), node[u].alive
    PROVE  NodeIs(u, node[u].alive, Append(node[u].events, e), node[u].ev,
                  node[u].tasks, node[u].map, node[u].channel, node[u].jobs,
                  node[u].worker)
<1> DEFINE X == [node[u] EXCEPT !.events = Append(@, e)]
<1>1. node' = [node EXCEPT ![u] = X]
  BY DEF Queue
<1>2. node[u] \in Node
  BY NodeTypes
<1>3. X \in [alive : {node[u].alive}, events : {Append(node[u].events, e)},
             ev : {node[u].ev}, tasks : {node[u].tasks}, map : {node[u].map},
             channel : {node[u].channel}, jobs : {node[u].jobs},
             worker : {node[u].worker}]
  BY <1>2 DEF Node
<1>4. QED
  BY <1>1, <1>3 DEF NodeIs

(* An inference that its node hears.                                        *)
Asks(u, s, r) ==
    [req |-> r, sid |-> s, left |-> IF u \in Streamed THEN Parts ELSE 1]

Heard(r, n) ==
    LET u == UnitOf(r)
        s == <<node[u].tasks[n], n>>
    IN  /\ up /\ n \in registered /\ Listens(u, n, conn[r].com)
        /\ NodeIs(u, node[u].alive, node[u].events, node[u].ev, node[u].tasks,
                  node[u].map, [node[u].channel EXCEPT ![s].url = conn[r].com],
                  Append(node[u].jobs, Asks(u, s, r)), node[u].worker)

LEMMA InferEffect ==
    ASSUME TypeOK, NEW r \in Requests, NEW n \in Ids, Infer(r, n), node' # node
    PROVE  Heard(r, n)
<1> DEFINE u == UnitOf(r)
           s == <<node[u].tasks[n], n>>
           c == conn[r].com
           j == Asks(u, s, r)
           X == [node[u] EXCEPT !.channel[s].url = c, !.jobs = Append(@, j)]
<1>1. /\ up /\ n \in registered /\ Listens(u, n, c)
      /\ node' = [node EXCEPT ![u].channel[s].url = c, ![u].jobs = Append(@, j)]
  BY DEF Infer, Asks
<1>2. u \in Units
  BY UnitOfType
<1>3. node[u] \in Node
  BY <1>2, NodeTypes
<1> HIDE DEF u, s, c, j
<1>4. node' = [node EXCEPT ![u] = X]
  BY <1>1, <1>2 DEF TypeOK
<1>5. X \in [alive : {node[u].alive}, events : {node[u].events},
             ev : {node[u].ev}, tasks : {node[u].tasks}, map : {node[u].map},
             channel : {[node[u].channel EXCEPT ![s].url = c]},
             jobs : {Append(node[u].jobs, j)}, worker : {node[u].worker}]
  BY <1>3 DEF Node
<1>6. NodeIs(u, node[u].alive, node[u].events, node[u].ev, node[u].tasks,
             node[u].map, [node[u].channel EXCEPT ![s].url = c],
             Append(node[u].jobs, j), node[u].worker)
  BY <1>4, <1>5 DEF NodeIs
<1>7. QED
  BY <1>1, <1>6 DEF Heard, u, s, c, j

(* What setup answers: the session limit is reached, or the session is new. *)
SetupAnswer(u, event, n) ==
    IF Full(u) THEN Answering(event, "full", u, n, TRUE)
    ELSE Answering(event, "setup", u, n, FALSE)

(* The channels of node u without the one that setup replaces.              *)
Kept(u, n) ==
    [s \in Sid |-> IF s = <<node[u].map[n], n>> /\ ~WorksFor(u, s) THEN NoChannel
                   ELSE node[u].channel[s]]

LEMMA SetupEffect ==
    ASSUME TypeOK, NEW u \in Units, Setup(u), up
    PROVE  LET n     == ids + 1
               event == Head(node[u].events)
           IN  /\ node[u].ev = NoAnswer /\ node[u].events # <<>> /\ event.kind = "setup"
               /\ n \in Ids /\ ids' = n
               /\ owner' = [owner EXCEPT ![<<epoch, n>>] = event.req]
               /\ registered' = registered \cup {n}
               /\ NodeIs(u, node[u].alive, Tail(node[u].events), SetupAnswer(u, event, n),
                         [node[u].tasks EXCEPT ![n] = IF Full(u) THEN @ ELSE epoch],
                         [node[u].map EXCEPT ![n] = epoch],
                         [Kept(u, n) EXCEPT ![<<epoch, n>>] =
                              [url |-> event.to, held |-> <<>>]],
                         node[u].jobs, node[u].worker)
<1> DEFINE n     == ids + 1
           event == Head(node[u].events)
           t     == IF Full(u) THEN node[u].tasks[n] ELSE epoch
           c     == [Kept(u, n) EXCEPT ![<<epoch, n>>] = [url |-> event.to, held |-> <<>>]]
           v     == SetupAnswer(u, event, n)
           X     == [node[u] EXCEPT !.events = Tail(@), !.map[n] = epoch, !.channel = c,
                                    !.tasks[n] = t, !.ev = v]
<1>1. /\ node[u].ev = NoAnswer /\ node[u].events # <<>> /\ event.kind = "setup"
      /\ n \in Ids /\ ids' = n
      /\ owner' = [owner EXCEPT ![<<epoch, n>>] = event.req]
      /\ registered' = registered \cup {n}
  BY DEF Setup
<1>2. node' = [node EXCEPT ![u].events = Tail(@), ![u].map[n] = epoch, ![u].channel = c,
                           ![u].tasks[n] = t, ![u].ev = v]
  BY DEF Setup, Kept, SetupAnswer
<1>3. node[u] \in Node
  BY NodeTypes
<1> HIDE DEF n, event, t, c, v
<1>4. node' = [node EXCEPT ![u] = X]
  <2> DEFINE M == [node EXCEPT ![u].events = Tail(@), ![u].map[n] = epoch]
             x == [node[u] EXCEPT !.events = Tail(@), !.map[n] = epoch]
  <2>1. node \in [Units -> Node]
    BY DEF TypeOK
  <2>2. M = [node EXCEPT ![u] = x]
    BY <2>1
  <2>3. node' = [M EXCEPT ![u].channel = c, ![u].tasks[n] = t, ![u].ev = v]
    BY <1>2
  <2>4. X = [x EXCEPT !.channel = c, !.tasks[n] = t, !.ev = v]
    OBVIOUS
  <2> HIDE DEF M, x, X
  <2>5. node' = [node EXCEPT ![u] = [x EXCEPT !.channel = c, !.tasks[n] = t, !.ev = v]]
    BY <2>1, <2>2, <2>3
  <2>6. QED
    BY <2>4, <2>5
<1>5. X \in [alive : {node[u].alive}, events : {Tail(node[u].events)},
             ev : {v}, tasks : {[node[u].tasks EXCEPT ![n] = t]},
             map : {[node[u].map EXCEPT ![n] = epoch]}, channel : {c},
             jobs : {node[u].jobs}, worker : {node[u].worker}]
  BY <1>3 DEF Node
<1>6. NodeIs(u, node[u].alive, Tail(node[u].events), v,
             [node[u].tasks EXCEPT ![n] = t], [node[u].map EXCEPT ![n] = epoch], c,
             node[u].jobs, node[u].worker)
  BY <1>4, <1>5 DEF NodeIs
<1>7. QED
  BY <1>1, <1>6 DEF n, event, t, c, v

(* A node that ends, and one that is started again.                         *)
LEMMA NewNode ==
    ASSUME NEW x \in {DeadNode, FreshNode}
    PROVE  /\ x \in Node
           /\ x.events = <<>> /\ x.ev = NoAnswer /\ x.jobs = <<>> /\ x.worker = NoJob
           /\ x.tasks = [n \in Ids |-> NoEpoch] /\ x.map = [n \in Ids |-> NoEpoch]
           /\ x.channel = [s \in Sid |-> NoChannel]
<1>1. FreshNode \in Node
  <2>1. <<>> \in Seq(Event) /\ <<>> \in Seq(Job) /\ <<>> \in Seq(WorkerLine)
    OBVIOUS
  <2>2. NoChannel \in Channel
    BY <2>1 DEF NoChannel, Channel, NoCom
  <2>3. QED
    BY <2>1, <2>2 DEF FreshNode, Node
<1>2. DeadNode \in Node
  BY <1>1 DEF DeadNode, Node
<1>3. /\ FreshNode.events = <<>> /\ FreshNode.ev = NoAnswer
      /\ FreshNode.jobs = <<>> /\ FreshNode.worker = NoJob
      /\ FreshNode.tasks = [n \in Ids |-> NoEpoch]
      /\ FreshNode.map = [n \in Ids |-> NoEpoch]
      /\ FreshNode.channel = [s \in Sid |-> NoChannel]
  BY DEF FreshNode
<1>4. /\ DeadNode.events = FreshNode.events /\ DeadNode.ev = FreshNode.ev
      /\ DeadNode.jobs = FreshNode.jobs /\ DeadNode.worker = FreshNode.worker
      /\ DeadNode.tasks = FreshNode.tasks /\ DeadNode.map = FreshNode.map
      /\ DeadNode.channel = FreshNode.channel
  BY DEF DeadNode, FreshNode
<1>5. QED
  BY <1>1, <1>2, <1>3, <1>4

(* The node of unit u ends, or is started again.                            *)
Renewed(u) == \E x \in {DeadNode, FreshNode} : node' = [node EXCEPT ![u] = x]

LEMMA RenewedEffect ==
    ASSUME TypeOK, NEW u \in Units, Renewed(u)
    PROVE  /\ node' \in [Units -> Node]
           /\ node'[u].events = <<>> /\ node'[u].ev = NoAnswer
           /\ node'[u].jobs = <<>> /\ node'[u].worker = NoJob
           /\ node'[u].tasks = [n \in Ids |-> NoEpoch]
           /\ node'[u].map = [n \in Ids |-> NoEpoch]
           /\ node'[u].channel = [s \in Sid |-> NoChannel]
           /\ \A v \in Units \ {u} : node'[v] = node[v]
<1>1. PICK x \in {DeadNode, FreshNode} : node' = [node EXCEPT ![u] = x]
  BY DEF Renewed
<1>2. node'[u] = x /\ \A v \in Units \ {u} : node'[v] = node[v]
  BY <1>1 DEF TypeOK
<1>3. x \in Node
  BY NewNode
<1>4. node' \in [Units -> Node]
  BY <1>1, <1>3 DEF TypeOK
<1>5. QED
  BY <1>2, <1>4, NewNode

(* The channels of node u when session n is pointed to the caller of exit.  *)
Pointed(u, n, to) ==
    IF node[u].map[n] # NoEpoch
    THEN [node[u].channel EXCEPT ![<<node[u].map[n], n>>].url = to]
    ELSE node[u].channel

LEMMA ExitEffect ==
    ASSUME TypeOK, NEW u \in Units, Exit(u)
    PROVE  LET event == Head(node[u].events)
               n     == event.id
           IN  /\ node[u].ev = NoAnswer /\ node[u].events # <<>> /\ event.kind = "exit"
               /\ ChannelOf(u, n).held = <<>>
               /\ \/ /\ node[u].tasks[n] = NoEpoch
                     /\ NodeIs(u, node[u].alive, Tail(node[u].events),
                               Answering(event, "unknown", u, n, FALSE), node[u].tasks,
                               node[u].map, Pointed(u, n, event.to), node[u].jobs,
                               node[u].worker)
                  \/ /\ node[u].tasks[n] # NoEpoch /\ node[u].map[n] = NoEpoch
                     /\ Renewed(u)
                  \/ /\ node[u].tasks[n] # NoEpoch /\ node[u].map[n] # NoEpoch
                     /\ NodeIs(u, node[u].alive, Tail(node[u].events),
                               Answering(event, "exit", u, n, TRUE),
                               [node[u].tasks EXCEPT ![n] = NoEpoch], node[u].map,
                               [node[u].channel EXCEPT ![<<node[u].map[n], n>>] = NoChannel],
                               node[u].jobs, node[u].worker)
<1> DEFINE event == Head(node[u].events)
           n     == event.id
           s     == <<node[u].map[n], n>>
           taken == [node EXCEPT ![u].events = Tail(@)]
           x     == [node[u] EXCEPT !.events = Tail(@)]
           p     == Pointed(u, n, event.to)
           v     == Answering(event, "unknown", u, n, FALSE)
           w     == Answering(event, "exit", u, n, TRUE)
<1>1. /\ node[u].ev = NoAnswer /\ node[u].events # <<>> /\ event.kind = "exit"
      /\ ChannelOf(u, n).held = <<>>
  BY DEF Exit
<1>2. node[u] \in Node /\ node \in [Units -> Node]
  BY NodeTypes DEF TypeOK
<1>3. taken = [node EXCEPT ![u] = x] /\ taken[u].channel = node[u].channel
  BY <1>2
<1>4. CASE node[u].tasks[n] = NoEpoch
  <2>1. node' = [taken EXCEPT ![u].ev = v, ![u].channel = p]
    BY <1>3, <1>4 DEF Exit, Pointed
  <2> HIDE DEF v, p
  <2> DEFINE X == [x EXCEPT !.ev = v, !.channel = p]
  <2>2. node' = [node EXCEPT ![u] = X]
    BY <1>2, <1>3, <2>1
  <2>3. X \in [alive : {node[u].alive}, events : {Tail(node[u].events)},
               ev : {v}, tasks : {node[u].tasks}, map : {node[u].map}, channel : {p},
               jobs : {node[u].jobs}, worker : {node[u].worker}]
    BY <1>2 DEF Node
  <2>4. NodeIs(u, node[u].alive, Tail(node[u].events), v, node[u].tasks,
               node[u].map, p, node[u].jobs, node[u].worker)
    BY <2>2, <2>3 DEF NodeIs
  <2>5. QED
    BY <1>1, <1>4, <2>4 DEF v, p
<1>5. CASE node[u].tasks[n] # NoEpoch /\ node[u].map[n] = NoEpoch
  <2>1. node' = [node EXCEPT ![u] = DeadNode]
    BY <1>5 DEF Exit
  <2>2. QED
    BY <1>1, <1>5, <2>1 DEF Renewed
<1>6. CASE node[u].tasks[n] # NoEpoch /\ node[u].map[n] # NoEpoch
  <2>1. node' = [taken EXCEPT ![u].ev = w, ![u].tasks[n] = NoEpoch,
                              ![u].channel[s] = NoChannel]
    BY <1>6 DEF Exit
  <2> HIDE DEF w, s, n
  <2> DEFINE X == [x EXCEPT !.ev = w, !.tasks[n] = NoEpoch, !.channel[s] = NoChannel]
  <2>2. node' = [node EXCEPT ![u] = X]
    BY <1>2, <1>3, <2>1, ZenonT(60)
  <2>3. X \in [alive : {node[u].alive}, events : {Tail(node[u].events)},
               ev : {w}, tasks : {[node[u].tasks EXCEPT ![n] = NoEpoch]},
               map : {node[u].map}, channel : {[node[u].channel EXCEPT ![s] = NoChannel]},
               jobs : {node[u].jobs}, worker : {node[u].worker}]
    BY <1>2 DEF Node
  <2>4. NodeIs(u, node[u].alive, Tail(node[u].events), w,
               [node[u].tasks EXCEPT ![n] = NoEpoch], node[u].map,
               [node[u].channel EXCEPT ![s] = NoChannel], node[u].jobs,
               node[u].worker)
    BY <2>2, <2>3 DEF NodeIs
  <2>5. QED
    BY <1>1, <1>6, <2>4 DEF w, s, n
<1>7. QED
  BY <1>4, <1>5, <1>6

(* The channels of node u when the unit of the answer is released.          *)
Released(u, n, release) ==
    IF release /\ <<node[u].map[n], n>> \in Sid
    THEN [node[u].channel EXCEPT ![<<node[u].map[n], n>>] = NoChannel]
    ELSE node[u].channel

LEMMA AnswerEffect ==
    ASSUME TypeOK, NEW u \in Units, Answer(u)
    PROVE  LET e == node[u].ev
               n == e.line.id
           IN  /\ e # NoAnswer /\ Readers(e.to) # {} /\ Arrive(e.to, <<e.line>>)
               /\ registered' = IF e.release THEN registered \ {n} ELSE registered
               /\ NodeIs(u, node[u].alive, node[u].events, NoAnswer, node[u].tasks,
                         [node[u].map EXCEPT ![n] = IF e.release THEN NoEpoch ELSE @],
                         Released(u, n, e.release), node[u].jobs, node[u].worker)
<1> DEFINE e == node[u].ev
           n == e.line.id
           m == IF e.release THEN NoEpoch ELSE node[u].map[n]
           c == Released(u, n, e.release)
           X == [node[u] EXCEPT !.ev = NoAnswer, !.map[n] = m, !.channel = c]
<1>1. /\ e # NoAnswer /\ Readers(e.to) # {} /\ Arrive(e.to, <<e.line>>)
      /\ registered' = IF e.release THEN registered \ {n} ELSE registered
      /\ node' = [node EXCEPT ![u].ev = NoAnswer, ![u].map[n] = m, ![u].channel = c]
  BY DEF Answer, Released
<1>2. node[u] \in Node /\ node \in [Units -> Node]
  BY NodeTypes DEF TypeOK
<1> HIDE DEF n, m, c
<1>3. node' = [node EXCEPT ![u] = X]
  <2> DEFINE M == [node EXCEPT ![u].ev = NoAnswer, ![u].map[n] = m]
             x == [node[u] EXCEPT !.ev = NoAnswer, !.map[n] = m]
  <2>1. M = [node EXCEPT ![u] = x]
    BY <1>2
  <2>2. node' = [M EXCEPT ![u].channel = c]
    BY <1>1
  <2>3. X = [x EXCEPT !.channel = c]
    OBVIOUS
  <2> HIDE DEF M, x, X
  <2>4. node' = [node EXCEPT ![u] = [x EXCEPT !.channel = c]]
    BY <1>2, <2>1, <2>2
  <2>5. QED
    BY <2>3, <2>4
<1>4. X \in [alive : {node[u].alive}, events : {node[u].events},
             ev : {NoAnswer}, tasks : {node[u].tasks},
             map : {[node[u].map EXCEPT ![n] = m]}, channel : {c},
             jobs : {node[u].jobs}, worker : {node[u].worker}]
  BY <1>2 DEF Node
<1>5. NodeIs(u, node[u].alive, node[u].events, NoAnswer, node[u].tasks,
             [node[u].map EXCEPT ![n] = m], c, node[u].jobs, node[u].worker)
  BY <1>3, <1>4 DEF NodeIs
<1>6. QED
  BY <1>1, <1>5 DEF n, m, c

(* The job that the worker takes, and what is left of it after a line.      *)
JobTaken(u) ==
    LET job == Head(node[u].jobs)
        n   == job.sid[2]
    IN IF node[u].tasks[n] = job.sid[1] /\ node[u].map[n] = job.sid[1] THEN job ELSE NoJob

JobLeft(u) ==
    IF node[u].worker.left = 1 THEN NoJob
    ELSE [node[u].worker EXCEPT !.left = @ - 1]

WorkerLineOf(u) ==
    LET job == node[u].worker
    IN  LineFor(job.req, IF job.left = 1 THEN "last" ELSE "part", u, job.sid[2])

LEMMA WorkerTakeEffect ==
    ASSUME TypeOK, NEW u \in Units, WorkerTake(u)
    PROVE  /\ node[u].worker = NoJob /\ node[u].jobs # <<>>
           /\ NodeIs(u, node[u].alive, node[u].events, node[u].ev, node[u].tasks,
                     node[u].map, node[u].channel, Tail(node[u].jobs), JobTaken(u))
<1> DEFINE j == JobTaken(u)
           X == [node[u] EXCEPT !.jobs = Tail(@), !.worker = j]
<1>1. /\ node[u].worker = NoJob /\ node[u].jobs # <<>>
      /\ node' = [node EXCEPT ![u].jobs = Tail(@), ![u].worker = j]
  BY DEF WorkerTake, JobTaken
<1>2. node[u] \in Node /\ node \in [Units -> Node]
  BY NodeTypes DEF TypeOK
<1> HIDE DEF j
<1>3. node' = [node EXCEPT ![u] = X]
  BY <1>1, <1>2
<1>4. X \in [alive : {node[u].alive}, events : {node[u].events},
             ev : {node[u].ev}, tasks : {node[u].tasks}, map : {node[u].map},
             channel : {node[u].channel}, jobs : {Tail(node[u].jobs)}, worker : {j}]
  BY <1>2 DEF Node
<1>5. QED
  BY <1>1, <1>3, <1>4 DEF NodeIs, j

LEMMA WorkerSendEffect ==
    ASSUME TypeOK, NEW u \in Units, WorkerSend(u)
    PROVE  LET s == node[u].worker.sid
               c == node[u].channel[s]
           IN  /\ node[u].worker # NoJob
               /\ \/ c = NoChannel /\ Renewed(u) /\ inbox' = inbox
                  \/ /\ c # NoChannel /\ Readers(c.url) # {} /\ c.held = <<>>
                     /\ Arrive(c.url, <<WorkerLineOf(u)>>)
                     /\ NodeIs(u, node[u].alive, node[u].events, node[u].ev, node[u].tasks,
                               node[u].map, node[u].channel, node[u].jobs, JobLeft(u))
                  \/ /\ c # NoChannel /\ ~(Readers(c.url) # {} /\ c.held = <<>>)
                     /\ inbox' = inbox
                     /\ NodeIs(u, node[u].alive, node[u].events, node[u].ev, node[u].tasks,
                               node[u].map,
                               [node[u].channel EXCEPT
                                    ![s].held = Append(@, WorkerLineOf(u))],
                               node[u].jobs, JobLeft(u))
<1> DEFINE s    == node[u].worker.sid
           c    == node[u].channel[s]
           j    == JobLeft(u)
           line == WorkerLineOf(u)
           sent == [node EXCEPT ![u].worker = j]
           x    == [node[u] EXCEPT !.worker = j]
<1>1. node[u].worker # NoJob
  BY DEF WorkerSend
<1>2. node[u] \in Node /\ node \in [Units -> Node]
  BY NodeTypes DEF TypeOK
<1>3. sent = [node EXCEPT ![u] = x]
  BY <1>2
<1>a. IF c = NoChannel
      THEN node' = [node EXCEPT ![u] = DeadNode] /\ UNCHANGED inbox
      ELSE IF Readers(c.url) # {} /\ c.held = <<>>
      THEN Arrive(c.url, <<line>>) /\ node' = sent
      ELSE /\ node' = [sent EXCEPT ![u].channel[s].held = Append(@, line)]
           /\ UNCHANGED inbox
  BY DEF WorkerSend, JobLeft, WorkerLineOf
<1>4. CASE c = NoChannel
  BY <1>1, <1>a, <1>4 DEF Renewed
<1>5. CASE c # NoChannel /\ Readers(c.url) # {} /\ c.held = <<>>
  <2>1. Arrive(c.url, <<line>>) /\ node' = sent
    BY <1>a, <1>5
  <2> HIDE DEF j
  <2>2. x \in [alive : {node[u].alive}, events : {node[u].events},
               ev : {node[u].ev}, tasks : {node[u].tasks}, map : {node[u].map},
               channel : {node[u].channel}, jobs : {node[u].jobs}, worker : {j}]
    BY <1>2 DEF Node
  <2>3. NodeIs(u, node[u].alive, node[u].events, node[u].ev, node[u].tasks,
               node[u].map, node[u].channel, node[u].jobs, j)
    BY <1>3, <2>1, <2>2 DEF NodeIs
  <2>4. QED
    BY <1>1, <1>5, <2>1, <2>3 DEF j
<1>6. CASE c # NoChannel /\ ~(Readers(c.url) # {} /\ c.held = <<>>)
  <2> DEFINE h == [node[u].channel EXCEPT ![s].held = Append(@, line)]
             X == [x EXCEPT !.channel = h]
  <2>1. inbox' = inbox /\ node' = [sent EXCEPT ![u].channel[s].held = Append(@, line)]
    BY <1>a, <1>6
  <2>2. /\ sent[u].channel = node[u].channel
        /\ x \in [alive : {node[u].alive}, events : {node[u].events},
                  ev : {node[u].ev}, tasks : {node[u].tasks}, map : {node[u].map},
                  channel : {node[u].channel}, jobs : {node[u].jobs}, worker : {j}]
    <3> HIDE DEF j
    <3>1. QED
      BY <1>2 DEF Node
  <2> HIDE DEF j, line, s, c
  <2>3. node' = [sent EXCEPT ![u].channel = h]
    BY <2>1, <2>2
  <2> HIDE DEF h
  <2>4. node' = [node EXCEPT ![u] = X]
    BY <1>2, <1>3, <2>3
  <2>5. X \in [alive : {node[u].alive}, events : {node[u].events},
               ev : {node[u].ev}, tasks : {node[u].tasks}, map : {node[u].map},
               channel : {h}, jobs : {node[u].jobs}, worker : {j}]
    BY <2>2
  <2>6. NodeIs(u, node[u].alive, node[u].events, node[u].ev, node[u].tasks,
               node[u].map, h, node[u].jobs, j)
    BY <2>4, <2>5 DEF NodeIs
  <2>7. QED
    BY <1>1, <1>6, <2>1, <2>6 DEF h, j, line, s, c
<1>7. QED
  BY <1>4, <1>5, <1>6

LEMMA DeliverEffect ==
    ASSUME TypeOK, NEW u \in Units, NEW s \in Sid, Deliver(u, s)
    PROVE  LET c == node[u].channel[s]
           IN  /\ c # NoChannel /\ c.held # <<>> /\ Readers(c.url) # {}
               /\ Arrive(c.url, c.held)
               /\ NodeIs(u, node[u].alive, node[u].events, node[u].ev, node[u].tasks,
                         node[u].map, [node[u].channel EXCEPT ![s].held = <<>>],
                         node[u].jobs, node[u].worker)
<1> DEFINE X == [node[u] EXCEPT !.channel[s].held = <<>>]
<1>1. node[u] \in Node /\ node \in [Units -> Node]
  BY NodeTypes DEF TypeOK
<1>2. node' = [node EXCEPT ![u] = X]
  BY <1>1 DEF Deliver
<1>3. X \in [alive : {node[u].alive}, events : {node[u].events},
             ev : {node[u].ev}, tasks : {node[u].tasks}, map : {node[u].map},
             channel : {[node[u].channel EXCEPT ![s].held = <<>>]},
             jobs : {node[u].jobs}, worker : {node[u].worker}]
  BY <1>1 DEF Node
<1>4. QED
  BY <1>2, <1>3 DEF NodeIs, Deliver

------------------------------------------------------------------------------
(* What a step makes of a request.                                          *)

OthersStay(r) ==
    \A q \in Requests \ {r} :
        /\ pc'[q] = pc[q] /\ stage'[q] = stage[q] /\ conn'[q] = conn[q]
        /\ inbox'[q] = inbox[q] /\ work'[q] = work[q]

(* It closes its connection, to clean up or to end the stage.               *)
Quits(r) ==
    /\ conn'[r] = NoConn /\ inbox'[r] = <<>>
    /\ \/ /\ pc[r] \in {"setup", "infer", "yield"} /\ pc'[r] = "cleanup"
          /\ work'[r] = work[r] /\ work[r] # NoId /\ stage'[r] = stage[r]
       \/ /\ pc[r] \in {"open", "cleanup", "exit"} \/ work[r] = NoId
          /\ pc'[r] \in {"open", "done"} /\ work'[r] = NoId
    /\ OthersStay(r)
    /\ UNCHANGED <<umVars, node, owner>>

(* It opens a connection and asks for a setup or an exit.                   *)
Contacts(r, kind, n) ==
    /\ up /\ coms' = coms + 1
    /\ conn'[r] = [com |-> coms + 1, epoch |-> epoch]
    /\ pc'[r] = kind /\ inbox'[r] = inbox[r] /\ work'[r] = work[r] /\ stage'[r] = stage[r]
    /\ OthersStay(r)
    /\ Queue(UnitOf(r), [kind |-> kind, req |-> r, to |-> coms + 1, id |-> n])
    /\ UNCHANGED <<up, epoch, ids, registered, owner>>

(* It reads a line and keeps the connection.                                *)
Reads(r) ==
    /\ inbox[r] # <<>> /\ inbox'[r] = Tail(inbox[r])
    /\ pc'[r] \in {"infer", "yield"} /\ conn'[r] = conn[r] /\ stage'[r] = stage[r]
    /\ OthersStay(r)
    /\ UNCHANGED <<umVars, owner>>

UserTypes ==
    /\ pc \in [Requests -> {"open", "setup", "infer", "yield", "cleanup", "exit", "done"}]
    /\ stage \in [Requests -> Nat] /\ \A r \in Requests : stage[r] \in DOMAIN Stages[r]
    /\ good \in [Requests -> BOOLEAN]
    /\ conn \in [Requests -> [com : Nat, epoch : Epochs]]
    /\ inbox \in [Requests -> Seq(AnyLine)]
    /\ work \in [Requests -> Ids \cup {NoId}]
    /\ asked \in [Requests -> Nat]

LEMMA EndStageEffect ==
    ASSUME TypeOK, NEW r \in Requests, NEW ok, EndStage(r, ok)
    PROVE  /\ pc'[r] \in {"open", "done"} /\ work'[r] = NoId
           /\ \A q \in Requests \ {r} :
                 pc'[q] = pc[q] /\ stage'[q] = stage[q] /\ work'[q] = work[q]
           /\ pc' \in [Requests -> {"open", "setup", "infer", "yield", "cleanup", "exit",
                                    "done"}]
           /\ stage' \in [Requests -> Nat]
           /\ \A q \in Requests : stage'[q] \in DOMAIN Stages[q]
           /\ work' \in [Requests -> Ids \cup {NoId}] /\ asked' \in [Requests -> Nat]
<1>1. Stages[r] \in Seq(Units)
  BY GatewayAssumption
<1>2. /\ pc \in [Requests -> {"open", "setup", "infer", "yield", "cleanup", "exit", "done"}]
      /\ stage \in [Requests -> Nat] /\ \A q \in Requests : stage[q] \in DOMAIN Stages[q]
      /\ work \in [Requests -> Ids \cup {NoId}] /\ asked \in [Requests -> Nat]
  BY DEF TypeOK
<1>3. CASE /\ ok /\ stage[r] < Len(Stages[r])
           /\ stage' = [stage EXCEPT ![r] = @ + 1] /\ pc' = [pc EXCEPT ![r] = "open"]
  <2>1. stage[r] + 1 \in DOMAIN Stages[r]
    BY <1>1, <1>2, <1>3
  <2>2. QED
    BY <1>2, <1>3, <2>1 DEF EndStage, NoId
<1>4. CASE pc' = [pc EXCEPT ![r] = "done"] /\ UNCHANGED stage
  BY <1>2, <1>4 DEF EndStage, NoId
<1>5. QED
  BY <1>3, <1>4 DEF EndStage

LEMMA CloseEffect ==
    ASSUME TypeOK, NEW r \in Requests, Close(r)
    PROVE  /\ conn'[r] = NoConn /\ inbox'[r] = <<>>
           /\ \A q \in Requests \ {r} : conn'[q] = conn[q] /\ inbox'[q] = inbox[q]
           /\ conn' \in [Requests -> [com : Nat, epoch : Epochs]]
           /\ inbox' \in [Requests -> Seq(AnyLine)]
<1>1. NoConn \in [com : Nat, epoch : Epochs]
  BY GatewayAssumption DEF NoConn, NoCom, Epochs
<1>2. QED
  BY <1>1 DEF Close, TypeOK

LEMMA LeaveEffect ==
    ASSUME TypeOK, NEW r \in Requests, NEW ok \in BOOLEAN, Leave(r, ok),
           pc[r] \in {"setup", "infer", "yield"}, UNCHANGED <<umVars, node, owner>>
    PROVE  Quits(r) /\ UserTypes'
<1>1. /\ conn'[r] = NoConn /\ inbox'[r] = <<>>
      /\ \A q \in Requests \ {r} : conn'[q] = conn[q] /\ inbox'[q] = inbox[q]
      /\ conn' \in [Requests -> [com : Nat, epoch : Epochs]]
      /\ inbox' \in [Requests -> Seq(AnyLine)]
  BY CloseEffect DEF Leave
<1>2. good' \in [Requests -> BOOLEAN]
  BY DEF Leave, TypeOK
<1>3. CASE work[r] # NoId
  <2>1. pc' = [pc EXCEPT ![r] = "cleanup"] /\ UNCHANGED <<stage, work, asked>>
    BY <1>3 DEF Leave, CleansUp
  <2>2. QED
    BY <1>1, <1>2, <1>3, <2>1 DEF Quits, OthersStay, TypeOK, UserTypes
<1>4. CASE work[r] = NoId
  <2>1. EndStage(r, ok)
    BY <1>4 DEF Leave, CleansUp
  <2>2. /\ pc'[r] \in {"open", "done"} /\ work'[r] = NoId
        /\ \A q \in Requests \ {r} :
              pc'[q] = pc[q] /\ stage'[q] = stage[q] /\ work'[q] = work[q]
        /\ pc' \in [Requests -> {"open", "setup", "infer", "yield", "cleanup", "exit",
                                 "done"}]
        /\ stage' \in [Requests -> Nat]
        /\ \A q \in Requests : stage'[q] \in DOMAIN Stages[q]
        /\ work' \in [Requests -> Ids \cup {NoId}] /\ asked' \in [Requests -> Nat]
    BY <2>1, EndStageEffect
  <2>3. Quits(r)
    BY <1>1, <1>4, <2>2 DEF Quits, OthersStay
  <2>4. QED
    BY <1>1, <1>2, <2>2, <2>3 DEF UserTypes
<1>5. QED
  BY <1>3, <1>4

LEMMA ConnectEffect ==
    ASSUME TypeOK, NEW r \in Requests, NEW kind, NEW n, Connect(r, kind, n), up,
           kind \in {"setup", "exit"}, pc' = [pc EXCEPT ![r] = kind],
           UNCHANGED <<stage, work, inbox, good, asked, up, owner>>
    PROVE  Contacts(r, kind, n) /\ UserTypes'
<1>1. /\ coms' = coms + 1 /\ UNCHANGED <<up, epoch, ids, registered>>
      /\ conn' = [conn EXCEPT ![r] = [com |-> coms + 1, epoch |-> epoch]]
      /\ Queue(UnitOf(r), [kind |-> kind, req |-> r, to |-> coms + 1, id |-> n])
  BY DEF Connect, NextCom
<1>2. /\ conn'[r] = [com |-> coms + 1, epoch |-> epoch]
      /\ \A q \in Requests \ {r} : conn'[q] = conn[q]
      /\ conn' \in [Requests -> [com : Nat, epoch : Epochs]]
  BY <1>1 DEF TypeOK
<1>3. /\ pc'[r] = kind /\ \A q \in Requests \ {r} : pc'[q] = pc[q]
      /\ pc' \in [Requests -> {"open", "setup", "infer", "yield", "cleanup", "exit", "done"}]
  BY DEF TypeOK
<1>4. Contacts(r, kind, n)
  BY <1>1, <1>2, <1>3 DEF Contacts, OthersStay
<1>5. UserTypes'
  BY <1>2, <1>3 DEF UserTypes, TypeOK
<1>6. QED
  BY <1>4, <1>5

LEMMA OpenEffect ==
    ASSUME TypeOK, StageInv, NEW r \in Requests, Open(r)
    PROVE  /\ pc[r] = "open" /\ lapses' = lapses
           /\ Quits(r) \/ Contacts(r, "setup", NoId)
           /\ UserTypes'
<1>1. pc[r] = "open" /\ lapses' = lapses /\ UNCHANGED <<good, inbox, owner>>
  BY DEF Open
<1>2. CASE up
  <2>1. /\ Connect(r, "setup", NoId) /\ pc' = [pc EXCEPT ![r] = "setup"]
        /\ UNCHANGED <<stage, work, asked>>
    BY <1>2 DEF Open
  <2>2. up' = up
    BY <2>1 DEF Connect
  <2>3. QED
    BY <1>1, <1>2, <2>1, <2>2, ConnectEffect
<1>3. CASE ~up
  <2>1. EndStage(r, FALSE) /\ UNCHANGED <<umVars, conn, node>>
    BY <1>3 DEF Open
  <2>2. /\ pc'[r] \in {"open", "done"} /\ work'[r] = NoId
        /\ \A q \in Requests \ {r} :
              pc'[q] = pc[q] /\ stage'[q] = stage[q] /\ work'[q] = work[q]
        /\ pc' \in [Requests -> {"open", "setup", "infer", "yield", "cleanup", "exit",
                                 "done"}]
        /\ stage' \in [Requests -> Nat]
        /\ \A q \in Requests : stage'[q] \in DOMAIN Stages[q]
        /\ work' \in [Requests -> Ids \cup {NoId}] /\ asked' \in [Requests -> Nat]
    BY <2>1, EndStageEffect
  <2>3. conn[r] = NoConn /\ inbox[r] = <<>>
    BY <1>1 DEF StageInv
  <2>4. QED
    BY <1>1, <2>1, <2>2, <2>3 DEF Quits, OthersStay, UserTypes, TypeOK
<1>4. QED
  BY <1>2, <1>3

LEMMA CleanupEffect ==
    ASSUME TypeOK, StageInv, NEW r \in Requests, Cleanup(r)
    PROVE  /\ pc[r] = "cleanup"
           /\ \/ Contacts(r, "exit", work[r]) /\ lapses' = lapses
              \/ Quits(r) /\ lapses' = lapses \cup {<<r, "cleanup">>}
           /\ UserTypes'
<1>1. pc[r] = "cleanup" /\ UNCHANGED <<good, inbox, owner>>
  BY DEF Cleanup
<1>2. CASE up
  <2>1. /\ Connect(r, "exit", work[r]) /\ pc' = [pc EXCEPT ![r] = "exit"]
        /\ UNCHANGED <<stage, work, asked, lapses>>
    BY <1>2 DEF Cleanup
  <2>2. up' = up
    BY <2>1 DEF Connect
  <2>3. QED
    BY <1>1, <1>2, <2>1, <2>2, ConnectEffect
<1>3. CASE ~up
  <2>1. /\ EndStage(r, good[r]) /\ UNCHANGED <<umVars, conn, node>>
        /\ lapses' = lapses \cup {<<r, "cleanup">>}
    BY <1>3 DEF Cleanup
  <2>2. /\ pc'[r] \in {"open", "done"} /\ work'[r] = NoId
        /\ \A q \in Requests \ {r} :
              pc'[q] = pc[q] /\ stage'[q] = stage[q] /\ work'[q] = work[q]
        /\ pc' \in [Requests -> {"open", "setup", "infer", "yield", "cleanup", "exit",
                                 "done"}]
        /\ stage' \in [Requests -> Nat]
        /\ \A q \in Requests : stage'[q] \in DOMAIN Stages[q]
        /\ work' \in [Requests -> Ids \cup {NoId}] /\ asked' \in [Requests -> Nat]
    BY <2>1, EndStageEffect
  <2>3. conn[r] = NoConn /\ inbox[r] = <<>>
    BY <1>1 DEF StageInv
  <2>4. QED
    BY <1>1, <2>1, <2>2, <2>3 DEF Quits, OthersStay, UserTypes, TypeOK
<1>4. QED
  BY <1>2, <1>3

LEMMA EndCleanupEffect ==
    ASSUME TypeOK, NEW r \in Requests, EndCleanup(r)
    PROVE  pc[r] = "exit" /\ lapses' = lapses /\ Quits(r) /\ UserTypes'
<1>1. /\ pc[r] = "exit" /\ Close(r) /\ EndStage(r, good[r])
      /\ UNCHANGED <<umVars, good, node, owner, lapses>>
  BY DEF EndCleanup
<1>2. /\ conn'[r] = NoConn /\ inbox'[r] = <<>>
      /\ \A q \in Requests \ {r} : conn'[q] = conn[q] /\ inbox'[q] = inbox[q]
      /\ conn' \in [Requests -> [com : Nat, epoch : Epochs]]
      /\ inbox' \in [Requests -> Seq(AnyLine)]
  BY <1>1, CloseEffect
<1>3. /\ pc'[r] \in {"open", "done"} /\ work'[r] = NoId
      /\ \A q \in Requests \ {r} :
            pc'[q] = pc[q] /\ stage'[q] = stage[q] /\ work'[q] = work[q]
      /\ pc' \in [Requests -> {"open", "setup", "infer", "yield", "cleanup", "exit", "done"}]
      /\ stage' \in [Requests -> Nat]
      /\ \A q \in Requests : stage'[q] \in DOMAIN Stages[q]
      /\ work' \in [Requests -> Ids \cup {NoId}] /\ asked' \in [Requests -> Nat]
  BY <1>1, EndStageEffect
<1>4. Quits(r)
  BY <1>1, <1>2, <1>3 DEF Quits, OthersStay
<1>5. UserTypes'
  BY <1>1, <1>2, <1>3 DEF UserTypes, TypeOK
<1>6. QED
  BY <1>1, <1>4, <1>5

LEMMA YieldEffect ==
    ASSUME TypeOK, NEW r \in Requests, Yield(r)
    PROVE  /\ pc[r] = "yield" /\ UNCHANGED <<umVars, node, owner>>
           /\ \/ /\ pc' = [pc EXCEPT ![r] = "infer"]
                 /\ UNCHANGED <<stage, conn, inbox, work, lapses>>
              \/ Quits(r) /\ lapses' = lapses \cup {<<r, "infer">>}
           /\ UserTypes'
<1>1. pc[r] = "yield" /\ UNCHANGED <<umVars, node, owner>>
  BY DEF Yield
<1>2. CASE /\ pc' = [pc EXCEPT ![r] = "infer"]
           /\ UNCHANGED <<stage, good, conn, inbox, work, asked, lapses>>
  BY <1>1, <1>2 DEF TypeOK, UserTypes
<1>3. CASE Leave(r, FALSE) /\ lapses' = lapses \cup {<<r, "infer">>}
  BY <1>1, <1>3, LeaveEffect
<1>4. QED
  BY <1>2, <1>3 DEF Yield

LEMMA GiveUpEffect ==
    ASSUME TypeOK, NEW r \in Requests, GiveUp(r)
    PROVE  /\ pc[r] \in {"setup", "infer"} /\ inbox[r] = <<>>
           /\ Quits(r) /\ lapses' = lapses \cup {<<r, pc[r]>>}
           /\ UserTypes'
<1>1. /\ pc[r] \in {"setup", "infer"} /\ inbox[r] = <<>> /\ Leave(r, FALSE)
      /\ lapses' = lapses \cup {<<r, pc[r]>>} /\ UNCHANGED <<umVars, node, owner>>
  BY DEF GiveUp
<1>2. QED
  BY <1>1, LeaveEffect

LEMMA InferUser ==
    ASSUME TypeOK, NEW r \in Requests, NEW n, Infer(r, n)
    PROVE  /\ pc'[r] = "infer" /\ \A q \in Requests \ {r} : pc'[q] = pc[q]
           /\ pc' \in [Requests -> {"open", "setup", "infer", "yield", "cleanup", "exit",
                                    "done"}]
           /\ asked' \in [Requests -> Nat]
  BY DEF Infer, TypeOK

LEMMA ReadEffect ==
    ASSUME TypeOK, NEW r \in Requests, inbox[r] # <<>>,
           inbox' = [inbox EXCEPT ![r] = Tail(@)]
    PROVE  /\ inbox'[r] = Tail(inbox[r])
           /\ \A q \in Requests \ {r} : inbox'[q] = inbox[q]
           /\ inbox' \in [Requests -> Seq(AnyLine)]
           /\ Head(inbox[r]) \in AnyLine
<1>1. inbox \in [Requests -> Seq(AnyLine)]
  BY DEF TypeOK
<1>2. Tail(inbox[r]) \in Seq(AnyLine) /\ Head(inbox[r]) \in AnyLine
  BY <1>1, TakingFirst
<1>3. QED
  BY <1>1, <1>2

LEMMA ReadSetupEffect ==
    ASSUME TypeOK, StageInv, NEW r \in Requests, ReadSetup(r)
    PROVE  LET line == Head(inbox[r])
           IN  /\ pc[r] = "setup" /\ inbox[r] # <<>> /\ line \in AnyLine
               /\ lapses' = IF line.for = r /\ line.kind \in Tokens THEN lapses
                            ELSE lapses \cup {<<r, "setup">>}
               /\ \/ IsError(line) /\ Quits(r)
                  \/ /\ ~IsError(line) /\ Reads(r) /\ work'[r] = line.id /\ pc'[r] = "infer"
                     /\ node' = node \/ Heard(r, line.id)
               /\ UserTypes'
<1> DEFINE line == Head(inbox[r])
<1>1. /\ pc[r] = "setup" /\ inbox[r] # <<>> /\ UNCHANGED <<umVars, owner>>
      /\ lapses' = IF line.for = r /\ line.kind \in Tokens THEN lapses
                   ELSE lapses \cup {<<r, "setup">>}
      /\ \/ IsError(line) /\ Leave(r, FALSE) /\ UNCHANGED node
         \/ /\ ~IsError(line) /\ work' = [work EXCEPT ![r] = line.id]
            /\ inbox' = [inbox EXCEPT ![r] = Tail(@)] /\ Infer(r, line.id)
            /\ UNCHANGED <<stage, good, conn>>
  BY DEF ReadSetup, Tokens
<1>2. line \in AnyLine
  BY <1>1, TakingFirst DEF TypeOK
<1>3. CASE IsError(line) /\ Leave(r, FALSE) /\ UNCHANGED node
  <2>1. Quits(r) /\ UserTypes'
    BY <1>1, <1>3, LeaveEffect
  <2>2. QED
    BY <1>1, <1>2, <1>3, <2>1
<1>4. CASE /\ ~IsError(line) /\ work' = [work EXCEPT ![r] = line.id]
           /\ inbox' = [inbox EXCEPT ![r] = Tail(@)] /\ Infer(r, line.id)
           /\ UNCHANGED <<stage, good, conn>>
  <2>1. line.id \in Ids
    BY <1>2 DEF AnyLine, Line
  <2>2. /\ inbox'[r] = Tail(inbox[r])
        /\ \A q \in Requests \ {r} : inbox'[q] = inbox[q]
        /\ inbox' \in [Requests -> Seq(AnyLine)]
    BY <1>1, <1>4, ReadEffect
  <2>3. /\ pc'[r] = "infer" /\ \A q \in Requests \ {r} : pc'[q] = pc[q]
        /\ pc' \in [Requests -> {"open", "setup", "infer", "yield", "cleanup", "exit",
                                 "done"}]
        /\ asked' \in [Requests -> Nat]
    BY <1>4, InferUser
  <2>4. /\ work'[r] = line.id /\ \A q \in Requests \ {r} : work'[q] = work[q]
        /\ work' \in [Requests -> Ids \cup {NoId}]
    BY <1>4, <2>1 DEF TypeOK
  <2>5. node' = node \/ Heard(r, line.id)
    BY <1>4, <2>1, InferEffect
  <2>6. Reads(r)
    BY <1>1, <1>4, <2>2, <2>3, <2>4 DEF Reads, OthersStay
  <2>7. UserTypes'
    BY <1>4, <2>2, <2>3, <2>4 DEF UserTypes, TypeOK
  <2>8. QED
    BY <1>1, <1>2, <1>4, <2>3, <2>4, <2>5, <2>6, <2>7
<1>5. QED
  BY <1>1, <1>3, <1>4

LEMMA ReadAnswerEffect ==
    ASSUME TypeOK, StageInv, NEW r \in Requests, ReadAnswer(r)
    PROVE  LET line == Head(inbox[r])
           IN  /\ pc[r] = "infer" /\ inbox[r] # <<>> /\ line \in AnyLine /\ lapses' = lapses
               /\ \/ ~Expected(r, line) /\ Quits(r)
                  \/ /\ Expected(r, line) /\ line.kind # "last" /\ Reads(r)
                     /\ work'[r] = work[r] /\ node' = node
                  \/ /\ Expected(r, line) /\ line.kind = "last" /\ Reads(r)
                     /\ work'[r] = work[r] /\ (node' = node \/ Heard(r, work[r]))
                  \/ Expected(r, line) /\ line.kind = "last" /\ Quits(r)
               /\ UserTypes'
<1> DEFINE line == Head(inbox[r])
<1>1. /\ pc[r] = "infer" /\ inbox[r] # <<>> /\ UNCHANGED <<umVars, owner, lapses>>
      /\ \/ ~Expected(r, line) /\ Leave(r, FALSE) /\ UNCHANGED node
         \/ /\ Expected(r, line) /\ line.kind # "last"
            /\ inbox' = [inbox EXCEPT ![r] = Tail(@)]
            /\ pc' = [pc EXCEPT ![r] = IF r \in Streaming THEN "yield" ELSE "infer"]
            /\ UNCHANGED <<stage, good, conn, work, asked, node>>
         \/ /\ Expected(r, line) /\ line.kind = "last"
            /\ inbox' = [inbox EXCEPT ![r] = Tail(@)] /\ Infer(r, work[r])
            /\ UNCHANGED <<stage, good, conn, work>>
         \/ Expected(r, line) /\ line.kind = "last" /\ Leave(r, TRUE) /\ UNCHANGED node
  BY DEF ReadAnswer, EndsAnswer
<1>2. line \in AnyLine
  BY <1>1, TakingFirst DEF TypeOK
<1>3. CASE ~Expected(r, line) /\ Leave(r, FALSE) /\ UNCHANGED node
  <2>1. Quits(r) /\ UserTypes'
    BY <1>1, <1>3, LeaveEffect
  <2>2. QED
    BY <1>1, <1>2, <1>3, <2>1
<1>4. CASE /\ Expected(r, line) /\ line.kind # "last"
           /\ inbox' = [inbox EXCEPT ![r] = Tail(@)]
           /\ pc' = [pc EXCEPT ![r] = IF r \in Streaming THEN "yield" ELSE "infer"]
           /\ UNCHANGED <<stage, good, conn, work, asked, node>>
  <2>1. /\ inbox'[r] = Tail(inbox[r])
        /\ \A q \in Requests \ {r} : inbox'[q] = inbox[q]
        /\ inbox' \in [Requests -> Seq(AnyLine)]
    BY <1>1, <1>4, ReadEffect
  <2>2. /\ pc'[r] \in {"infer", "yield"} /\ \A q \in Requests \ {r} : pc'[q] = pc[q]
        /\ pc' \in [Requests -> {"open", "setup", "infer", "yield", "cleanup", "exit",
                                 "done"}]
    BY <1>4 DEF TypeOK
  <2>3. Reads(r)
    BY <1>1, <1>4, <2>1, <2>2 DEF Reads, OthersStay
  <2>4. UserTypes'
    BY <1>4, <2>1, <2>2 DEF UserTypes, TypeOK
  <2>5. QED
    BY <1>1, <1>2, <1>4, <2>3, <2>4
<1>5. CASE /\ Expected(r, line) /\ line.kind = "last"
           /\ inbox' = [inbox EXCEPT ![r] = Tail(@)] /\ Infer(r, work[r])
           /\ UNCHANGED <<stage, good, conn, work>>
  <2>1. work[r] \in Ids
    BY <1>1 DEF StageInv
  <2>2. /\ inbox'[r] = Tail(inbox[r])
        /\ \A q \in Requests \ {r} : inbox'[q] = inbox[q]
        /\ inbox' \in [Requests -> Seq(AnyLine)]
    BY <1>1, <1>5, ReadEffect
  <2>3. /\ pc'[r] = "infer" /\ \A q \in Requests \ {r} : pc'[q] = pc[q]
        /\ pc' \in [Requests -> {"open", "setup", "infer", "yield", "cleanup", "exit",
                                 "done"}]
        /\ asked' \in [Requests -> Nat]
    BY <1>5, InferUser
  <2>4. node' = node \/ Heard(r, work[r])
    BY <1>5, <2>1, InferEffect
  <2>5. Reads(r)
    BY <1>1, <1>5, <2>2, <2>3 DEF Reads, OthersStay
  <2>6. UserTypes'
    BY <1>5, <2>2, <2>3 DEF UserTypes, TypeOK
  <2>7. QED
    BY <1>1, <1>2, <1>5, <2>4, <2>5, <2>6
<1>6. CASE Expected(r, line) /\ line.kind = "last" /\ Leave(r, TRUE) /\ UNCHANGED node
  <2>1. Quits(r) /\ UserTypes'
    BY <1>1, <1>6, LeaveEffect
  <2>2. QED
    BY <1>1, <1>2, <1>6, <2>1
<1>7. QED
  BY <1>1, <1>3, <1>4, <1>5, <1>6

------------------------------------------------------------------------------
(* Types.                                                                   *)

LEMMA UrlTyped ==
    ASSUME NEW c \in [Sid -> Channel], NEW s, NEW url \in Nat
    PROVE  [c EXCEPT ![s].url = url] \in [Sid -> Channel]
  BY DEF Channel

LEMMA NoChannelTyped == NoChannel \in Channel
  BY DEF NoChannel, Channel, NoCom

LEMMA ContactsTyped ==
    ASSUME TypeOK, NEW r \in Requests, NEW kind, NEW n, Contacts(r, kind, n),
           (kind = "setup" /\ n = NoId) \/ (kind = "exit" /\ n \in Ids)
    PROVE  /\ node' \in [Units -> Node] /\ coms' \in Nat
           /\ [kind |-> kind, req |-> r, to |-> coms + 1, id |-> n] \in Event
<1> DEFINE u == UnitOf(r)
           e == [kind |-> kind, req |-> r, to |-> coms + 1, id |-> n]
<1>1. coms \in Nat /\ coms' \in Nat
  BY DEF Contacts, TypeOK
<1>2. e \in Event
  BY <1>1 DEF Event
<1>3. u \in Units
  BY UnitOfType
<1>4. Queue(u, e)
  BY DEF Contacts
<1> HIDE DEF u, e
<1>5. CASE node[u].alive
  <2>1. NodeIs(u, node[u].alive, Append(node[u].events, e), node[u].ev,
               node[u].tasks, node[u].map, node[u].channel, node[u].jobs, node[u].worker)
    BY <1>3, <1>4, <1>5, QueueEffect
  <2>2. Append(node[u].events, e) \in Seq(Event)
    BY <1>2, <1>3, NodeTypes, Appending
  <2>3. node' \in [Units -> Node]
    BY <1>3, <2>1, <2>2, NodeTypes, NodeTyped
  <2>4. QED
    BY <1>1, <1>2, <2>3 DEF e
<1>6. CASE ~node[u].alive
  <2>1. node' = node
    BY <1>4, <1>6 DEF Queue
  <2>2. QED
    BY <1>1, <1>2, <2>1 DEF TypeOK, e
<1>7. QED
  BY <1>5, <1>6

LEMMA HeardTyped ==
    ASSUME TypeOK, NEW r \in Requests, NEW n \in Ids, Heard(r, n)
    PROVE  /\ node' \in [Units -> Node]
           /\ <<node[UnitOf(r)].tasks[n], n>> \in Sid
           /\ Asks(UnitOf(r), <<node[UnitOf(r)].tasks[n], n>>, r) \in Job
<1> DEFINE u == UnitOf(r)
           s == <<node[u].tasks[n], n>>
           c == conn[r].com
           j == Asks(u, s, r)
<1>1. u \in Units
  BY UnitOfType
<1>2. /\ Listens(u, n, c)
      /\ NodeIs(u, node[u].alive, node[u].events, node[u].ev, node[u].tasks,
                node[u].map, [node[u].channel EXCEPT ![s].url = c],
                Append(node[u].jobs, j), node[u].worker)
  BY DEF Heard
<1> HIDE DEF u
<1>3. s \in Sid
  BY <1>1, <1>2, NodeTypes DEF Listens, Sid
<1>4. j \in Job
  BY <1>3, GatewayAssumption DEF Asks, Job
<1>5. c \in Nat
  BY DEF TypeOK
<1> HIDE DEF s, c, j
<1>6. Append(node[u].jobs, j) \in Seq(Job)
  BY <1>1, <1>4, NodeTypes, Appending
<1>7. [node[u].channel EXCEPT ![s].url = c] \in [Sid -> Channel]
  BY <1>1, <1>5, NodeTypes, UrlTyped
<1>8. node' \in [Units -> Node]
  BY <1>1, <1>2, <1>6, <1>7, NodeTypes, NodeTyped
<1>9. QED
  BY <1>3, <1>4, <1>8 DEF s, j, u

LEMMA EventTypes ==
    ASSUME TypeOK, NEW u \in Units, node[u].events # <<>>
    PROVE  LET e == Head(node[u].events)
           IN  /\ e \in Event /\ e.req \in Requests /\ e.to \in Nat
               /\ e.kind \in {"setup", "exit"}
               /\ e.kind = "exit" => e.id \in Ids
               /\ Tail(node[u].events) \in Seq(Event)
               /\ Queued(u, e)
<1>1. node[u].events \in Seq(Event)
  BY NodeTypes
<1>2. /\ Head(node[u].events) \in Event /\ Tail(node[u].events) \in Seq(Event)
      /\ Queued(u, Head(node[u].events))
  BY <1>1, TakingFirst DEF Queued
<1>3. QED
  BY <1>2 DEF Event

LEMMA SetupTyped ==
    ASSUME TypeOK, NEW u \in Units, Setup(u), up
    PROVE  /\ node' \in [Units -> Node] /\ owner' \in [Sid -> Requests \cup {Nobody}]
           /\ SetupAnswer(u, Head(node[u].events), ids + 1) \in AnyAnswer
           /\ Kept(u, ids + 1) \in [Sid -> Channel] /\ <<epoch, ids + 1>> \in Sid
<1> DEFINE n     == ids + 1
           event == Head(node[u].events)
           c     == [Kept(u, n) EXCEPT ![<<epoch, n>>] = [url |-> event.to, held |-> <<>>]]
           v     == SetupAnswer(u, event, n)
           t     == [node[u].tasks EXCEPT ![n] = IF Full(u) THEN @ ELSE epoch]
           m     == [node[u].map EXCEPT ![n] = epoch]
<1>1. /\ node[u].events # <<>> /\ n \in Ids
      /\ owner' = [owner EXCEPT ![<<epoch, n>>] = event.req]
      /\ NodeIs(u, node[u].alive, Tail(node[u].events), v, t, m, c, node[u].jobs,
                node[u].worker)
  BY SetupEffect
<1>2. /\ event.req \in Requests /\ event.to \in Nat
      /\ Tail(node[u].events) \in Seq(Event)
  BY <1>1, EventTypes
<1> HIDE DEF event, n
<1>3. v \in AnyAnswer
  BY <1>1, <1>2 DEF SetupAnswer, Answering, LineFor, AnyAnswer, Line
<1>4. [url |-> event.to, held |-> <<>>] \in Channel
  BY <1>2 DEF Channel
<1>5. Kept(u, n) \in [Sid -> Channel]
  BY NodeTypes, NoChannelTyped DEF Kept
<1>6. c \in [Sid -> Channel]
  BY <1>4, <1>5
<1>7. epoch \in Epochs
  BY DEF TypeOK
<1>8. t \in [Ids -> Epochs \cup {NoEpoch}] /\ m \in [Ids -> Epochs \cup {NoEpoch}]
  BY <1>7, NodeTypes
<1>9. owner' \in [Sid -> Requests \cup {Nobody}]
  BY <1>1, <1>2 DEF TypeOK
<1> HIDE DEF c, v, t, m
<1>10. node' \in [Units -> Node]
  BY <1>1, <1>2, <1>3, <1>6, <1>8, NodeTypes, NodeTyped
<1>11. QED
  BY <1>1, <1>3, <1>5, <1>7, <1>9, <1>10 DEF n, event, v, Sid

LEMMA PointedTyped ==
    ASSUME TypeOK, NEW u \in Units, NEW n, NEW to \in Nat
    PROVE  Pointed(u, n, to) \in [Sid -> Channel]
  BY NodeTypes, UrlTyped DEF Pointed

LEMMA ExitTyped ==
    ASSUME TypeOK, NEW u \in Units, Exit(u)
    PROVE  node' \in [Units -> Node] /\ Head(node[u].events).id \in Ids
<1> DEFINE event == Head(node[u].events)
           n     == event.id
           a     == Answering(event, "unknown", u, n, FALSE)
           b     == Answering(event, "exit", u, n, TRUE)
           c     == [node[u].channel EXCEPT ![<<node[u].map[n], n>>] = NoChannel]
           t     == [node[u].tasks EXCEPT ![n] = NoEpoch]
<1>1. /\ node[u].events # <<>> /\ event.kind = "exit"
      /\ \/ NodeIs(u, node[u].alive, Tail(node[u].events), a, node[u].tasks, node[u].map,
                   Pointed(u, n, event.to), node[u].jobs, node[u].worker)
         \/ Renewed(u)
         \/ NodeIs(u, node[u].alive, Tail(node[u].events), b, t, node[u].map, c,
                   node[u].jobs, node[u].worker)
  BY ExitEffect
<1>2. /\ event.req \in Requests /\ event.to \in Nat /\ n \in Ids
      /\ Tail(node[u].events) \in Seq(Event)
  BY <1>1, EventTypes
<1>3. a \in AnyAnswer /\ b \in AnyAnswer
  <2> HIDE DEF event, n
  <2>1. QED
    BY <1>2 DEF Answering, LineFor, AnyAnswer, Line
<1>4. Pointed(u, n, event.to) \in [Sid -> Channel]
  BY <1>2, PointedTyped
<1>5. c \in [Sid -> Channel] /\ t \in [Ids -> Epochs \cup {NoEpoch}]
  BY NodeTypes, NoChannelTyped
<1> HIDE DEF a, b, c, t
<1>6. ASSUME NodeIs(u, node[u].alive, Tail(node[u].events), a, node[u].tasks, node[u].map,
                    Pointed(u, n, event.to), node[u].jobs, node[u].worker)
      PROVE  node' \in [Units -> Node]
  BY <1>2, <1>3, <1>4, <1>6, NodeTypes, NodeTyped
<1>7. ASSUME NodeIs(u, node[u].alive, Tail(node[u].events), b, t, node[u].map, c,
                    node[u].jobs, node[u].worker)
      PROVE  node' \in [Units -> Node]
  BY <1>2, <1>3, <1>5, <1>7, NodeTypes, NodeTyped
<1>8. QED
  BY <1>1, <1>2, <1>6, <1>7, RenewedEffect

LEMMA ArriveEffect ==
    ASSUME TypeOK, NEW com, NEW lines \in Seq(AnyLine), Arrive(com, lines)
    PROVE  /\ inbox' \in [Requests -> Seq(AnyLine)]
           /\ \A q \in Requests :
                 \/ q \in Readers(com) /\ inbox'[q] = inbox[q] \o lines
                 \/ q \notin Readers(com) /\ inbox'[q] = inbox[q]
<1>1. inbox \in [Requests -> Seq(AnyLine)]
  BY DEF TypeOK
<1>2. \A q \in Requests : inbox[q] \o lines \in Seq(AnyLine)
  BY <1>1
<1>3. QED
  BY <1>1, <1>2 DEF Arrive

LEMMA AnswerTyped ==
    ASSUME TypeOK, NEW u \in Units, Answer(u)
    PROVE  /\ node' \in [Units -> Node] /\ inbox' \in [Requests -> Seq(AnyLine)]
           /\ node[u].ev \in AnyAnswer
           /\ <<node[u].ev.line>> \in Seq(AnyLine) /\ node[u].ev.line \in AnyLine
           /\ node[u].ev.line.id \in Ids /\ node[u].ev.to \in Nat
<1> DEFINE e == node[u].ev
           n == e.line.id
           m == [node[u].map EXCEPT ![n] = IF e.release THEN NoEpoch ELSE @]
           c == Released(u, n, e.release)
<1>1. /\ e # NoAnswer /\ Arrive(e.to, <<e.line>>)
      /\ NodeIs(u, node[u].alive, node[u].events, NoAnswer, node[u].tasks, m, c,
                node[u].jobs, node[u].worker)
  BY AnswerEffect
<1>2. e \in AnyAnswer
  BY <1>1, NodeTypes
<1>3. e.line \in AnyLine /\ n \in Ids /\ e.to \in Nat
  BY <1>2 DEF AnyAnswer, AnyLine, Line
<1>4. <<e.line>> \in Seq(AnyLine)
  BY <1>3
<1>5. c \in [Sid -> Channel] /\ m \in [Ids -> Epochs \cup {NoEpoch}]
  BY NodeTypes, NoChannelTyped DEF Released
<1> HIDE DEF c, m
<1>6. node' \in [Units -> Node]
  BY <1>1, <1>5, NodeTypes, NodeTyped
<1>7. inbox' \in [Requests -> Seq(AnyLine)]
  BY <1>1, <1>4, ArriveEffect
<1>8. QED
  BY <1>2, <1>3, <1>4, <1>6, <1>7

LEMMA WorkerTakeTyped ==
    ASSUME TypeOK, NEW u \in Units, WorkerTake(u)
    PROVE  node' \in [Units -> Node] /\ JobTaken(u) \in Job \cup {NoJob}
<1>1. /\ node[u].jobs # <<>>
      /\ NodeIs(u, node[u].alive, node[u].events, node[u].ev, node[u].tasks,
                node[u].map, node[u].channel, Tail(node[u].jobs), JobTaken(u))
  BY WorkerTakeEffect
<1>2. Head(node[u].jobs) \in Job /\ Tail(node[u].jobs) \in Seq(Job)
  BY <1>1, NodeTypes, TakingFirst
<1>3. JobTaken(u) \in Job \cup {NoJob}
  BY <1>2 DEF JobTaken
<1>4. QED
  BY <1>1, <1>2, <1>3, NodeTypes, NodeTyped

LEMMA WorkerTypes ==
    ASSUME TypeOK, NEW u \in Units, node[u].worker # NoJob
    PROVE  /\ node[u].worker \in Job /\ node[u].worker.sid \in Sid
           /\ node[u].worker.req \in Requests /\ node[u].worker.sid[2] \in Ids
           /\ JobLeft(u) \in Job \cup {NoJob}
           /\ JobLeft(u) # NoJob =>
                 JobLeft(u).req = node[u].worker.req /\ JobLeft(u).sid = node[u].worker.sid
           /\ WorkerLineOf(u) \in WorkerLine /\ WorkerLineOf(u) \in AnyLine
           /\ WorkerLineOf(u).for = node[u].worker.req
           /\ WorkerLineOf(u).id = node[u].worker.sid[2] /\ WorkerLineOf(u).unit = u
           /\ WorkerLineOf(u).kind =
                 IF node[u].worker.left = 1 THEN "last" ELSE "part"
<1> DEFINE w == node[u].worker
<1>1. w \in Job
  BY NodeTypes
<1> HIDE DEF w
<1>2. w.sid \in Sid /\ w.req \in Requests /\ w.sid[2] \in Ids /\ w.left \in Nat \ {0}
  BY <1>1 DEF Job, Sid
<1>3. w.left # 1 => w.left - 1 \in Nat \ {0}
  BY <1>2
<1>4. w.left # 1 => /\ [w EXCEPT !.left = @ - 1] \in Job
                    /\ [w EXCEPT !.left = @ - 1].req = w.req
                    /\ [w EXCEPT !.left = @ - 1].sid = w.sid
  BY <1>1, <1>3 DEF Job
<1>5. QED
  BY <1>1, <1>2, <1>4 DEF JobLeft, WorkerLineOf, LineFor, w, WorkerLine, AnyLine, Line

LEMMA WorkerSendTyped ==
    ASSUME TypeOK, NEW u \in Units, WorkerSend(u)
    PROVE  node' \in [Units -> Node] /\ inbox' \in [Requests -> Seq(AnyLine)]
<1> DEFINE s    == node[u].worker.sid
           c    == node[u].channel[s]
           h    == [node[u].channel EXCEPT ![s].held = Append(@, WorkerLineOf(u))]
<1>1. /\ node[u].worker # NoJob
      /\ \/ c = NoChannel /\ Renewed(u) /\ inbox' = inbox
         \/ /\ Arrive(c.url, <<WorkerLineOf(u)>>)
            /\ NodeIs(u, node[u].alive, node[u].events, node[u].ev, node[u].tasks,
                      node[u].map, node[u].channel, node[u].jobs, JobLeft(u))
         \/ /\ inbox' = inbox
            /\ NodeIs(u, node[u].alive, node[u].events, node[u].ev, node[u].tasks,
                      node[u].map, h, node[u].jobs, JobLeft(u))
  BY WorkerSendEffect
<1>2. /\ s \in Sid /\ JobLeft(u) \in Job \cup {NoJob}
      /\ WorkerLineOf(u) \in WorkerLine /\ <<WorkerLineOf(u)>> \in Seq(AnyLine)
  <2>1. node[u].worker # NoJob
    BY <1>1
  <2>2. /\ s \in Sid /\ JobLeft(u) \in Job \cup {NoJob}
        /\ WorkerLineOf(u) \in WorkerLine /\ WorkerLineOf(u) \in AnyLine
    BY <2>1, WorkerTypes
  <2>3. QED
    BY <2>2
<1>3. h \in [Sid -> Channel]
  <2>1. node[u].channel \in [Sid -> Channel]
    BY NodeTypes
  <2>2. c \in Channel /\ c.held \in Seq(WorkerLine)
    BY <1>2, <2>1 DEF Channel
  <2>3. Append(c.held, WorkerLineOf(u)) \in Seq(WorkerLine)
    BY <1>2, <2>2
  <2>4. [c EXCEPT !.held = Append(@, WorkerLineOf(u))] \in Channel
    BY <2>2, <2>3 DEF Channel
  <2>5. QED
    BY <2>1, <2>4
<1> HIDE DEF h
<1>4. inbox \in [Requests -> Seq(AnyLine)]
  BY DEF TypeOK
<1>5. ASSUME Arrive(c.url, <<WorkerLineOf(u)>>),
             NodeIs(u, node[u].alive, node[u].events, node[u].ev, node[u].tasks,
                    node[u].map, node[u].channel, node[u].jobs, JobLeft(u))
      PROVE  node' \in [Units -> Node] /\ inbox' \in [Requests -> Seq(AnyLine)]
  BY <1>2, <1>5, NodeTypes, NodeTyped, ArriveEffect
<1>6. ASSUME NodeIs(u, node[u].alive, node[u].events, node[u].ev, node[u].tasks,
                    node[u].map, h, node[u].jobs, JobLeft(u))
      PROVE  node' \in [Units -> Node]
  BY <1>2, <1>3, <1>6, NodeTypes, NodeTyped
<1>7. QED
  BY <1>1, <1>4, <1>5, <1>6, RenewedEffect

LEMMA DeliverTyped ==
    ASSUME TypeOK, NEW u \in Units, NEW s \in Sid, Deliver(u, s)
    PROVE  /\ node' \in [Units -> Node] /\ inbox' \in [Requests -> Seq(AnyLine)]
           /\ node[u].channel[s].held \in Seq(WorkerLine)
           /\ node[u].channel[s].held \in Seq(AnyLine)
<1> DEFINE c == node[u].channel[s]
           h == [node[u].channel EXCEPT ![s].held = <<>>]
<1>1. /\ Arrive(c.url, c.held)
      /\ NodeIs(u, node[u].alive, node[u].events, node[u].ev, node[u].tasks,
                node[u].map, h, node[u].jobs, node[u].worker)
  BY DeliverEffect
<1>2. node[u].channel \in [Sid -> Channel]
  BY NodeTypes
<1>3. c \in Channel /\ c.held \in Seq(WorkerLine)
  BY <1>2 DEF Channel
<1>4. WorkerLine \subseteq AnyLine
  BY DEF WorkerLine, AnyLine, Line
<1>5. c.held \in Seq(AnyLine)
  BY <1>3, <1>4
<1>6. h \in [Sid -> Channel]
  <2>1. <<>> \in Seq(WorkerLine)
    OBVIOUS
  <2>2. c.url \in Nat /\ [c EXCEPT !.held = <<>>] = [url |-> c.url, held |-> <<>>]
    BY <1>3 DEF Channel
  <2>3. [c EXCEPT !.held = <<>>] \in Channel
    BY <2>1, <2>2 DEF Channel
  <2>4. QED
    BY <1>2, <2>3
<1> HIDE DEF h
<1>7. node' \in [Units -> Node]
  BY <1>1, <1>6, NodeTypes, NodeTyped
<1>8. inbox' \in [Requests -> Seq(AnyLine)]
  BY <1>1, <1>5, ArriveEffect
<1>9. QED
  BY <1>3, <1>5, <1>7, <1>8

LEMMA UserStepTyped ==
    ASSUME TypeOK, UserTypes', node' \in [Units -> Node], coms' \in Nat,
           UNCHANGED <<up, epoch, ids, registered, owner>>,
           lapses' \subseteq Requests \X {"setup", "infer", "cleanup"}
    PROVE  TypeOK'
  BY DEF TypeOK, UserTypes

LEMMA NodeStepTyped ==
    ASSUME TypeOK, node' \in [Units -> Node], inbox' \in [Requests -> Seq(AnyLine)],
           UNCHANGED <<up, epoch, coms, pc, stage, good, conn, work, asked, lapses>>,
           ids' \in 0..MaxIds, registered' \subseteq Ids,
           owner' \in [Sid -> Requests \cup {Nobody}]
    PROVE  TypeOK'
  BY DEF TypeOK

LEMMA RequestTyped ==
    ASSUME TypeOK, StageInv, NEW r \in Requests, Request(r)
    PROVE  TypeOK'
<1>1. node \in [Units -> Node] /\ coms \in Nat
  BY DEF TypeOK
<1>2. lapses \subseteq Requests \X {"setup", "infer", "cleanup"}
  BY DEF TypeOK
<1>3. ASSUME Quits(r), UserTypes',
             lapses' \subseteq lapses \cup {<<r, x>> : x \in {"setup", "infer", "cleanup"}}
      PROVE  TypeOK'
  <2>1. UNCHANGED <<up, epoch, coms, ids, registered, node, owner>>
    BY <1>3, Zenon DEF Quits, umVars
  <2>2. QED
    BY <1>1, <1>2, <1>3, <2>1, UserStepTyped
<1>4. ASSUME Contacts(r, "setup", NoId) \/ (Contacts(r, "exit", work[r]) /\ work[r] \in Ids),
             UserTypes', lapses' = lapses
      PROVE  TypeOK'
  <2>1. UNCHANGED <<up, epoch, ids, registered, owner>>
    BY <1>4, Zenon DEF Contacts
  <2>2. node' \in [Units -> Node] /\ coms' \in Nat
    BY <1>4, ContactsTyped
  <2>3. QED
    BY <1>2, <1>4, <2>1, <2>2, UserStepTyped
<1>5. ASSUME NEW n \in Ids, Reads(r), UserTypes', node' = node \/ Heard(r, n),
             lapses' \subseteq lapses \cup {<<r, "setup">>}
      PROVE  TypeOK'
  <2>1. UNCHANGED <<up, epoch, coms, ids, registered, owner>>
    BY <1>5, Zenon DEF Reads, umVars
  <2>2. node' \in [Units -> Node]
    BY <1>1, <1>5, HeardTyped
  <2>3. QED
    BY <1>1, <1>2, <1>5, <2>1, <2>2, UserStepTyped
<1>6. CASE Open(r)
  BY <1>3, <1>4, <1>6, OpenEffect
<1>7. CASE ReadSetup(r)
  <2>1. Head(inbox[r]) \in AnyLine /\ Head(inbox[r]).id \in Ids
    BY <1>7, ReadSetupEffect DEF AnyLine, Line
  <2>2. QED
    BY <1>3, <1>5, <1>7, <2>1, ReadSetupEffect
<1>8. CASE ReadAnswer(r)
  <2>1. work[r] \in Ids
    BY <1>8, ReadAnswerEffect DEF StageInv
  <2>2. QED
    BY <1>3, <1>5, <1>8, <2>1, ReadAnswerEffect
<1>9. CASE Yield(r)
  <2>1. UNCHANGED <<up, epoch, coms, ids, registered, node, owner>>
    BY <1>9, YieldEffect, Zenon DEF umVars
  <2>2. UserTypes' /\ lapses' \subseteq lapses \cup {<<r, "infer">>}
    BY <1>9, YieldEffect
  <2>3. QED
    BY <1>1, <1>2, <2>1, <2>2, UserStepTyped
<1>10. CASE GiveUp(r)
  BY <1>3, <1>10, GiveUpEffect
<1>11. CASE Cleanup(r)
  <2>1. work[r] \in Ids
    BY <1>11, CleanupEffect DEF StageInv
  <2>2. QED
    BY <1>3, <1>4, <1>11, <2>1, CleanupEffect
<1>12. CASE EndCleanup(r)
  BY <1>3, <1>12, EndCleanupEffect
<1>13. QED
  BY <1>6, <1>7, <1>8, <1>9, <1>10, <1>11, <1>12 DEF Request

(* A node step with unit-manager down is the end of the node, too.          *)
LEMMA SetupDown ==
    ASSUME NEW u \in Units, Setup(u), ~up
    PROVE  Renewed(u) /\ UNCHANGED <<umVars, userVars, owner, lapses>>
  BY Zenon DEF Setup, Renewed, umVars

LEMMA RestartEffect ==
    ASSUME NEW u \in Units, NodeRestart(u)
    PROVE  Renewed(u) /\ UNCHANGED <<umVars, userVars, owner, lapses>>
  BY Zenon DEF NodeRestart, Renewed

LEMMA NodeTypedStep ==
    ASSUME TypeOK, NEW u \in Units, NodeStep(u) \/ NodeRestart(u)
    PROVE  TypeOK'
<1>1. /\ inbox \in [Requests -> Seq(AnyLine)] /\ ids \in 0..MaxIds /\ registered \subseteq Ids
      /\ owner \in [Sid -> Requests \cup {Nobody}]
  BY DEF TypeOK
<1>2. ASSUME Renewed(u), UNCHANGED <<umVars, userVars, owner, lapses>>
      PROVE  TypeOK'
  <2>1. UNCHANGED <<up, epoch, coms, ids, registered, pc, stage, good, conn, inbox, work,
                    asked, owner, lapses>>
    BY <1>2, Zenon DEF umVars, userVars
  <2>2. QED
    BY <1>1, <1>2, <2>1, RenewedEffect, NodeStepTyped
<1>3. CASE Setup(u) /\ ~up
  BY <1>2, <1>3, SetupDown
<1>4. CASE Setup(u) /\ up
  <2>1. UNCHANGED <<up, epoch, coms, pc, stage, good, conn, inbox, work, asked, lapses>>
    BY <1>4, Zenon DEF Setup, userVars
  <2>2. ids + 1 \in Ids /\ ids' = ids + 1 /\ registered' = registered \cup {ids + 1}
    BY <1>4, SetupEffect
  <2>3. ids' \in 0..MaxIds /\ registered' \subseteq Ids
    BY <1>1, <2>2 DEF Ids
  <2>4. node' \in [Units -> Node] /\ owner' \in [Sid -> Requests \cup {Nobody}]
    BY <1>4, SetupTyped
  <2>5. QED
    BY <1>1, <2>1, <2>3, <2>4, NodeStepTyped
<1>5. CASE Exit(u)
  <2>1. UNCHANGED <<up, epoch, coms, ids, registered, pc, stage, good, conn, inbox, work,
                    asked, owner, lapses>>
    BY <1>5, Zenon DEF Exit, umVars, userVars
  <2>2. QED
    BY <1>1, <1>5, <2>1, ExitTyped, NodeStepTyped
<1>6. CASE Answer(u)
  <2>1. UNCHANGED <<up, epoch, coms, ids, pc, stage, good, conn, work, asked, owner, lapses>>
    BY <1>6, Zenon DEF Answer
  <2>2. registered' \subseteq Ids
    BY <1>1, <1>6, AnswerEffect
  <2>3. QED
    BY <1>1, <1>6, <2>1, <2>2, AnswerTyped, NodeStepTyped
<1>7. CASE WorkerTake(u)
  <2>1. UNCHANGED <<up, epoch, coms, ids, registered, pc, stage, good, conn, inbox, work,
                    asked, owner, lapses>>
    BY <1>7, Zenon DEF WorkerTake, umVars, userVars
  <2>2. QED
    BY <1>1, <1>7, <2>1, WorkerTakeTyped, NodeStepTyped
<1>8. CASE WorkerSend(u)
  <2>1. UNCHANGED <<up, epoch, coms, ids, registered, pc, stage, good, conn, work,
                    asked, owner, lapses>>
    BY <1>8, Zenon DEF WorkerSend, umVars
  <2>2. QED
    BY <1>1, <1>8, <2>1, WorkerSendTyped, NodeStepTyped
<1>9. ASSUME NEW s \in Sid, Deliver(u, s)
      PROVE  TypeOK'
  <2>1. UNCHANGED <<up, epoch, coms, ids, registered, pc, stage, good, conn, work,
                    asked, owner, lapses>>
    BY <1>9, Zenon DEF Deliver, umVars
  <2>2. QED
    BY <1>1, <1>9, <2>1, DeliverTyped, NodeStepTyped
<1>10. CASE NodeRestart(u)
  BY <1>2, <1>10, RestartEffect
<1>11. QED
  BY <1>3, <1>4, <1>5, <1>6, <1>7, <1>8, <1>9, <1>10 DEF NodeStep

LEMMA UnitManagerTyped ==
    ASSUME TypeOK, MadeInv, UnitManagerEnds \/ UnitManagerStarts
    PROVE  TypeOK'
<1>1. CASE UnitManagerEnds
  <2>1. /\ up' = FALSE /\ registered' = {}
        /\ UNCHANGED <<epoch, coms, ids, pc, stage, good, conn, inbox, work, asked, node,
                       owner, lapses>>
    BY <1>1, Zenon DEF UnitManagerEnds, userVars
  <2>2. QED
    BY <2>1 DEF TypeOK
<1>2. CASE UnitManagerStarts
  <2>1. /\ up' = TRUE /\ epoch' = epoch + 1 /\ coms' = 0 /\ ids' = 0
        /\ UNCHANGED <<registered, pc, stage, good, conn, inbox, work, asked, node,
                       owner, lapses>>
    BY <1>2, Zenon DEF UnitManagerStarts, userVars
  <2>2. epoch' \in Epochs /\ 0 \in 0..MaxIds
    <3>1. ~up /\ epoch < MaxRestarts
      BY <1>2 DEF UnitManagerStarts, MadeInv
    <3>2. QED
      BY GatewayAssumption, <2>1, <3>1 DEF TypeOK, Epochs
  <2>3. QED
    BY <2>1, <2>2 DEF TypeOK
<1>3. QED
  BY <1>1, <1>2

------------------------------------------------------------------------------
(* The steps by what they do to the requests and their sessions.            *)

(* It reads a line and goes on, and may have asked for another inference.   *)
ReadsOn(r) ==
    /\ Reads(r) /\ lapses \subseteq lapses'
    /\ \/ /\ pc[r] = "setup" /\ pc'[r] = "infer" /\ work'[r] = Head(inbox[r]).id
          /\ ~IsError(Head(inbox[r]))
          /\ <<r, "setup">> \notin lapses' =>
                Head(inbox[r]).for = r /\ Head(inbox[r]).kind = "setup"
          /\ node' = node \/ Heard(r, Head(inbox[r]).id)
       \/ /\ pc[r] = "infer" /\ work'[r] = work[r] /\ Expected(r, Head(inbox[r]))
          /\ \/ node' = node
             \/ Head(inbox[r]).kind = "last" /\ Heard(r, work[r])

Resumes(r) ==
    /\ pc[r] = "yield" /\ pc' = [pc EXCEPT ![r] = "infer"] /\ lapses' = lapses
    /\ UNCHANGED <<umVars, stage, conn, inbox, work, node, owner>>

(* It leaves the stage; when it does so although an answer may come, or     *)
(* without the cleanup, that is a lapse.                                    *)
QuitsWell(r) ==
    /\ Quits(r) /\ lapses \subseteq lapses'
    /\ lapses' = {} =>
          \/ pc[r] = "open" \/ pc[r] = "exit"
          \/ /\ pc[r] = "setup" /\ inbox[r] # <<>> /\ IsError(Head(inbox[r]))
             /\ Head(inbox[r]).for = r /\ Head(inbox[r]).kind \in Tokens
          \/ /\ pc[r] = "infer" /\ inbox[r] # <<>>
             /\ Expected(r, Head(inbox[r])) => Head(inbox[r]).kind = "last"
    /\ <<r, "setup">> \notin lapses' /\ pc[r] = "setup" =>
          /\ inbox[r] # <<>> /\ IsError(Head(inbox[r]))
          /\ Head(inbox[r]).for = r /\ Head(inbox[r]).kind \in Tokens
    /\ <<r, "cleanup">> \notin lapses' => pc[r] # "cleanup"

Asking(r) ==
    /\ lapses' = lapses
    /\ \/ pc[r] = "open" /\ Contacts(r, "setup", NoId)
       \/ pc[r] = "cleanup" /\ Contacts(r, "exit", work[r])

LEMMA RequestEffect ==
    ASSUME TypeOK, StageInv, NEW r \in Requests, Request(r)
    PROVE  /\ QuitsWell(r) \/ Asking(r) \/ ReadsOn(r) \/ Resumes(r)
           /\ lapses \subseteq lapses'
<1>1. CASE Open(r)
  BY <1>1, OpenEffect DEF QuitsWell, Asking
<1>2. CASE ReadSetup(r)
  <2> DEFINE line == Head(inbox[r])
  <2>1. /\ pc[r] = "setup" /\ inbox[r] # <<>> /\ line \in AnyLine
        /\ lapses' = IF line.for = r /\ line.kind \in Tokens THEN lapses
                     ELSE lapses \cup {<<r, "setup">>}
        /\ \/ IsError(line) /\ Quits(r)
           \/ /\ ~IsError(line) /\ Reads(r) /\ work'[r] = line.id /\ pc'[r] = "infer"
              /\ node' = node \/ Heard(r, line.id)
    BY <1>2, ReadSetupEffect
  <2>2. lapses \subseteq lapses'
    BY <2>1
  <2>3. line.kind \in Tokens /\ ~IsError(line) => line.kind = "setup"
    BY DEF Tokens, IsError
  <2> HIDE DEF line
  <2>4. <<r, "setup">> \notin lapses' => line.for = r /\ line.kind \in Tokens
    BY <2>1
  <2>7. CASE IsError(line) /\ Quits(r)
    BY <2>1, <2>2, <2>4, <2>7 DEF QuitsWell, line
  <2>8. CASE /\ ~IsError(line) /\ Reads(r) /\ work'[r] = line.id /\ pc'[r] = "infer"
             /\ node' = node \/ Heard(r, line.id)
    BY <2>1, <2>2, <2>3, <2>4, <2>8 DEF ReadsOn, line
  <2>9. QED
    BY <2>1, <2>2, <2>7, <2>8
<1>3. CASE ReadAnswer(r)
  BY <1>3, ReadAnswerEffect DEF QuitsWell, ReadsOn
<1>4. CASE Yield(r)
  <2>1. CASE /\ pc' = [pc EXCEPT ![r] = "infer"]
             /\ UNCHANGED <<stage, conn, inbox, work, lapses>>
    <3>1. pc[r] = "yield" /\ UNCHANGED <<umVars, node, owner>>
      BY <1>4, YieldEffect
    <3>2. Resumes(r)
      BY <2>1, <3>1, Zenon DEF Resumes
    <3>3. QED
      BY <2>1, <3>2
  <2>2. CASE Quits(r) /\ lapses' = lapses \cup {<<r, "infer">>}
    <3>1. pc[r] = "yield"
      BY <1>4, YieldEffect
    <3>2. lapses \subseteq lapses' /\ <<r, "infer">> \in lapses'
      BY <2>2
    <3>3. QED
      BY <2>2, <3>1, <3>2 DEF QuitsWell
  <2>3. QED
    BY <1>4, <2>1, <2>2, YieldEffect
<1>5. CASE GiveUp(r)
  <2>1. /\ pc[r] \in {"setup", "infer"} /\ Quits(r) /\ lapses' = lapses \cup {<<r, pc[r]>>}
    BY <1>5, GiveUpEffect
  <2>2. lapses \subseteq lapses' /\ <<r, pc[r]>> \in lapses'
    BY <2>1
  <2>3. QED
    BY <2>1, <2>2 DEF QuitsWell
<1>6. CASE Cleanup(r)
  <2>1. CASE Contacts(r, "exit", work[r]) /\ lapses' = lapses
    BY <1>6, <2>1, CleanupEffect DEF Asking
  <2>2. CASE Quits(r) /\ lapses' = lapses \cup {<<r, "cleanup">>}
    <3>1. pc[r] = "cleanup"
      BY <1>6, CleanupEffect
    <3>2. lapses \subseteq lapses' /\ <<r, "cleanup">> \in lapses'
      BY <2>2
    <3>3. QED
      BY <2>2, <3>1, <3>2 DEF QuitsWell
  <2>3. QED
    BY <1>6, <2>1, <2>2, CleanupEffect
<1>7. CASE EndCleanup(r)
  BY <1>7, EndCleanupEffect DEF QuitsWell
<1>8. QED
  BY <1>1, <1>2, <1>3, <1>4, <1>5, <1>6, <1>7 DEF Request

(* What a step of a node leaves to the requests: lines, on connections.     *)
LEMMA NodeUserEffect ==
    ASSUME TypeOK, NEW u \in Units, NodeStep(u) \/ NodeRestart(u)
    PROVE  /\ UNCHANGED <<up, epoch, coms, pc, stage, good, conn, work, asked, lapses>>
           /\ \A q \in Requests : conn[q].com = NoCom => inbox'[q] = inbox[q]
<1>1. inbox' = inbox => \A q \in Requests : conn[q].com = NoCom => inbox'[q] = inbox[q]
  OBVIOUS
<1>2. ASSUME NEW com, NEW lines, Arrive(com, lines)
      PROVE  \A q \in Requests : conn[q].com = NoCom => inbox'[q] = inbox[q]
  BY <1>2 DEF Arrive, Readers, Connected
<1>3. CASE Setup(u)
  <2>1. UNCHANGED <<up, epoch, coms, pc, stage, good, conn, inbox, work, asked, lapses>>
    BY <1>3, Zenon DEF Setup, userVars
  <2>2. QED
    BY <1>1, <2>1
<1>4. CASE Exit(u)
  <2>1. UNCHANGED <<up, epoch, coms, pc, stage, good, conn, inbox, work, asked, lapses>>
    BY <1>4, Zenon DEF Exit, umVars, userVars
  <2>2. QED
    BY <1>1, <2>1
<1>5. CASE Answer(u)
  <2>1. UNCHANGED <<up, epoch, coms, pc, stage, good, conn, work, asked, lapses>>
    BY <1>5, Zenon DEF Answer
  <2>2. Arrive(node[u].ev.to, <<node[u].ev.line>>)
    BY <1>5 DEF Answer
  <2>3. QED
    BY <1>2, <2>1, <2>2
<1>6. CASE WorkerTake(u)
  <2>1. UNCHANGED <<up, epoch, coms, pc, stage, good, conn, inbox, work, asked, lapses>>
    BY <1>6, Zenon DEF WorkerTake, umVars, userVars
  <2>2. QED
    BY <1>1, <2>1
<1>7. CASE WorkerSend(u)
  <2>1. UNCHANGED <<up, epoch, coms, pc, stage, good, conn, work, asked, lapses>>
    BY <1>7, Zenon DEF WorkerSend, umVars
  <2>2. QED
    BY <1>1, <1>2, <1>7, <2>1, WorkerSendEffect
<1>8. ASSUME NEW s \in Sid, Deliver(u, s)
      PROVE  /\ UNCHANGED <<up, epoch, coms, pc, stage, good, conn, work, asked, lapses>>
             /\ \A q \in Requests : conn[q].com = NoCom => inbox'[q] = inbox[q]
  <2>1. UNCHANGED <<up, epoch, coms, pc, stage, good, conn, work, asked, lapses>>
    BY <1>8, Zenon DEF Deliver, umVars
  <2>2. QED
    BY <1>2, <1>8, <2>1, DeliverEffect
<1>9. CASE NodeRestart(u)
  <2>1. UNCHANGED <<up, epoch, coms, pc, stage, good, conn, inbox, work, asked, lapses>>
    BY <1>9, Zenon DEF NodeRestart, umVars, userVars
  <2>2. QED
    BY <1>1, <2>1
<1>10. QED
  BY <1>3, <1>4, <1>5, <1>6, <1>7, <1>8, <1>9 DEF NodeStep

LEMMA StageKept ==
    ASSUME TypeOK, StageInv, TypeOK', [Next]_vars
    PROVE  StageInv'
<1>1. ASSUME NEW r \in Requests, Request(r)
      PROVE  StageInv'
  <2>1. \A q \in Requests : work[q] \in Ids \cup {NoId} /\ work'[q] \in Ids \cup {NoId}
    BY DEF TypeOK
  <2>2. coms \in Nat
    BY DEF TypeOK
  <2>3. CASE QuitsWell(r)
    BY <2>1, <2>3 DEF QuitsWell, Quits, OthersStay, StageInv
  <2>4. CASE Asking(r)
    <3>1. conn'[r].com # NoCom
      BY <2>2, <2>4 DEF Asking, Contacts, NoCom
    <3>2. QED
      BY <2>1, <2>4, <3>1 DEF Asking, Contacts, OthersStay, StageInv
  <2>5. CASE ReadsOn(r)
    <3>1. pc[r] \in {"setup", "infer"} /\ work'[r] \in Ids
      <4>1. CASE pc[r] = "setup"
        <5>1. inbox[r] \in Seq(AnyLine) /\ inbox[r] # <<>>
          BY <2>5 DEF ReadsOn, Reads, TypeOK
        <5>2. Head(inbox[r]) \in AnyLine
          BY <5>1, TakingFirst
        <5>3. Head(inbox[r]).id \in Ids
          BY <5>2 DEF AnyLine, Line
        <5>4. QED
          BY <2>5, <4>1, <5>3 DEF ReadsOn
      <4>2. CASE pc[r] = "infer"
        BY <2>5, <4>2 DEF ReadsOn, StageInv
      <4>3. QED
        BY <2>5, <4>1, <4>2 DEF ReadsOn
    <3>2. QED
      BY <2>5, <3>1 DEF ReadsOn, Reads, OthersStay, StageInv
  <2>6. CASE Resumes(r)
    BY <2>6 DEF Resumes, StageInv, TypeOK
  <2>7. QED
    BY <1>1, <2>3, <2>4, <2>5, <2>6, RequestEffect
<1>2. ASSUME NEW u \in Units, NodeStep(u) \/ NodeRestart(u)
      PROVE  StageInv'
  <2>1. /\ UNCHANGED <<up, epoch, coms, pc, stage, good, conn, work, asked, lapses>>
        /\ \A q \in Requests : conn[q].com = NoCom => inbox'[q] = inbox[q]
    BY <1>2, NodeUserEffect
  <2>2. NoConn.com = NoCom
    BY DEF NoConn
  <2>3. QED
    BY <2>1, <2>2 DEF StageInv
<1>3. ASSUME UNCHANGED userVars
      PROVE  StageInv'
  <2>1. UNCHANGED <<pc, conn, inbox, work>>
    BY <1>3, Zenon DEF userVars
  <2>2. QED
    BY <2>1 DEF StageInv
<1>4. QED
  BY <1>1, <1>2, <1>3, Zenon DEF Next, UnitManagerEnds, UnitManagerStarts, vars

LEMMA ConnKept ==
    ASSUME TypeOK, StageInv, ConnInv, [Next]_vars
    PROVE  ConnInv'
<1>1. /\ epoch \in Nat /\ coms \in Nat
      /\ \A q \in Requests : conn[q] \in [com : Nat, epoch : Nat]
  BY GatewayAssumption DEF TypeOK, Epochs
<1>2. ASSUME UNCHANGED <<epoch, coms, conn>>
      PROVE  ConnInv'
  BY <1>2 DEF ConnInv
<1>3. ASSUME NEW r \in Requests, Request(r)
      PROVE  ConnInv'
  <2>1. CASE QuitsWell(r)
    <3>1. /\ conn'[r] = NoConn /\ NoConn.com = 0 /\ NoConn.epoch = 0
          /\ \A q \in Requests \ {r} : conn'[q] = conn[q]
      BY <2>1 DEF QuitsWell, Quits, OthersStay, NoConn, NoCom
    <3>2. epoch' = epoch /\ coms' = coms
      BY <2>1 DEF QuitsWell, Quits, umVars
    <3>3. QED
      BY <1>1, <3>1, <3>2 DEF ConnInv, NoCom
  <2>2. CASE Asking(r)
    <3>1. /\ conn'[r] = [com |-> coms + 1, epoch |-> epoch]
          /\ \A q \in Requests \ {r} : conn'[q] = conn[q]
          /\ epoch' = epoch /\ coms' = coms + 1
      BY <2>2 DEF Asking, Contacts, OthersStay
    <3>2. \A q \in Requests : conn[q] # [com |-> coms + 1, epoch |-> epoch]
      BY <1>1 DEF ConnInv
    <3>3. QED
      BY <1>1, <3>1, <3>2 DEF ConnInv
  <2>3. CASE ReadsOn(r)
    <3>1. UNCHANGED <<epoch, coms>> /\ \A q \in Requests : conn'[q] = conn[q]
      BY <2>3 DEF ReadsOn, Reads, OthersStay, umVars
    <3>2. QED
      BY <3>1 DEF ConnInv
  <2>4. CASE Resumes(r)
    BY <1>2, <2>4, Zenon DEF Resumes, umVars
  <2>5. QED
    BY <1>3, <2>1, <2>2, <2>3, <2>4, RequestEffect
<1>4. ASSUME NEW u \in Units, NodeStep(u) \/ NodeRestart(u)
      PROVE  ConnInv'
  BY <1>2, <1>4, NodeUserEffect
<1>5. CASE UnitManagerEnds
  BY <1>2, <1>5, Zenon DEF UnitManagerEnds, userVars
<1>6. CASE UnitManagerStarts
  <2>1. epoch' = epoch + 1 /\ conn' = conn
    BY <1>6, Zenon DEF UnitManagerStarts, userVars
  <2>2. QED
    BY <1>1, <2>1 DEF ConnInv
<1>7. CASE UNCHANGED vars
  BY <1>2, <1>7, Zenon DEF vars, umVars, userVars
<1>8. QED
  BY <1>3, <1>4, <1>5, <1>6, <1>7 DEF Next

(* What a question does to the nodes.                                       *)
AskedEvent(r, kind, n) == [kind |-> kind, req |-> r, to |-> coms + 1, id |-> n]

SameBut(u) == \A v \in Units \ {u} : node'[v] = node[v]

LEMMA ContactsNode ==
    ASSUME TypeOK, NEW r \in Requests, NEW kind, NEW n, Contacts(r, kind, n)
    PROVE  \/ node' = node /\ ~node[UnitOf(r)].alive
           \/ LET u == UnitOf(r)
              IN  /\ SameBut(u) /\ node'[u].alive = node[u].alive
                  /\ node'[u].events = Append(node[u].events, AskedEvent(r, kind, n))
                  /\ node'[u].ev = node[u].ev /\ node'[u].tasks = node[u].tasks
                  /\ node'[u].map = node[u].map /\ node'[u].channel = node[u].channel
                  /\ node'[u].jobs = node[u].jobs /\ node'[u].worker = node[u].worker
<1> DEFINE u == UnitOf(r)
           e == AskedEvent(r, kind, n)
           q == Append(node[u].events, e)
<1>1. u \in Units
  BY UnitOfType
<1>2. Queue(u, e)
  BY DEF Contacts, AskedEvent
<1> HIDE DEF u, e
<1>3. CASE node[u].alive
  <2>1. NodeIs(u, node[u].alive, q, node[u].ev,
               node[u].tasks, node[u].map, node[u].channel, node[u].jobs, node[u].worker)
    BY <1>1, <1>2, <1>3, QueueEffect
  <2> HIDE DEF q
  <2>2. /\ SameBut(u) /\ node'[u].alive = node[u].alive
        /\ node'[u].events = q
        /\ node'[u].ev = node[u].ev /\ node'[u].tasks = node[u].tasks
        /\ node'[u].map = node[u].map /\ node'[u].channel = node[u].channel
        /\ node'[u].jobs = node[u].jobs /\ node'[u].worker = node[u].worker
    BY <1>1, <2>1, NodeFields DEF SameBut
  <2>3. QED
    BY <2>2 DEF u, e, q
<1>4. CASE ~node[u].alive
  BY <1>2, <1>4 DEF Queue, u
<1>5. QED
  BY <1>3, <1>4

LEMMA HeardNode ==
    ASSUME TypeOK, NEW r \in Requests, NEW n \in Ids, Heard(r, n)
    PROVE  LET u == UnitOf(r)
               s == <<node[u].tasks[n], n>>
           IN  /\ u \in Units /\ s \in Sid /\ Asks(u, s, r) \in Job
               /\ node[u].tasks[n] # NoEpoch /\ node[u].map[n] = node[u].tasks[n]
               /\ node[u].channel[s].url = conn[r].com \/ node[u].channel[s].held = <<>>
               /\ up /\ n \in registered
               /\ SameBut(u) /\ node'[u].alive = node[u].alive
               /\ node'[u].events = node[u].events
               /\ node'[u].ev = node[u].ev /\ node'[u].tasks = node[u].tasks
               /\ node'[u].map = node[u].map
               /\ node'[u].channel = [node[u].channel EXCEPT ![s].url = conn[r].com]
               /\ node'[u].jobs = Append(node[u].jobs, Asks(u, s, r))
               /\ node'[u].worker = node[u].worker
<1> DEFINE u == UnitOf(r)
           s == <<node[u].tasks[n], n>>
           c == [node[u].channel EXCEPT ![s].url = conn[r].com]
           j == Append(node[u].jobs, Asks(u, s, r))
<1>1. u \in Units
  BY UnitOfType
<1>2. /\ up /\ n \in registered /\ Listens(u, n, conn[r].com)
      /\ NodeIs(u, node[u].alive, node[u].events, node[u].ev, node[u].tasks,
                node[u].map, c, j, node[u].worker)
  BY DEF Heard
<1>3. s \in Sid /\ Asks(u, s, r) \in Job
  BY HeardTyped
<1> HIDE DEF u, c, j
<1>4. /\ node[u].tasks[n] # NoEpoch /\ node[u].map[n] = node[u].tasks[n]
      /\ node[u].channel[s].url = conn[r].com \/ node[u].channel[s].held = <<>>
  BY <1>2 DEF Listens, ChannelOf
<1>5. /\ SameBut(u) /\ node'[u].alive = node[u].alive /\ node'[u].events = node[u].events
      /\ node'[u].ev = node[u].ev /\ node'[u].tasks = node[u].tasks
      /\ node'[u].map = node[u].map /\ node'[u].channel = c
      /\ node'[u].jobs = j /\ node'[u].worker = node[u].worker
  BY <1>1, <1>2, NodeFields DEF SameBut
<1>6. QED
  BY <1>1, <1>2, <1>3, <1>4, <1>5 DEF u, c, j

(* A step that makes no session: tasks, the map and the channels lose       *)
(* entries at most.                                                         *)
MakesNone ==
    /\ UNCHANGED <<up, epoch, ids, owner>> /\ registered' \subseteq registered
    /\ \A v \in Units :
          /\ \A n \in Ids :
                /\ node'[v].tasks[n] # NoEpoch => node'[v].tasks[n] = node[v].tasks[n]
                /\ node'[v].map[n] # NoEpoch => node'[v].map[n] = node[v].map[n]
          /\ \A s \in Sid :
                node'[v].channel[s] # NoChannel =>
                    \/ node[v].channel[s] # NoChannel
                    \/ \E n \in Ids : /\ node[v].map[n] # NoEpoch
                                      /\ s = <<node[v].map[n], n>>

LEMMA MadeKeptIfNone ==
    ASSUME TypeOK, MadeInv, MakesNone
    PROVE  MadeInv'
<1>1. epoch' = epoch /\ ids' = ids
  BY DEF MakesNone
<1>2. ~up' => registered' = {} /\ epoch' < MaxRestarts
  BY DEF MakesNone, MadeInv
<1>3. ASSUME NEW v \in Units, NEW n \in Ids, node'[v].tasks[n] # NoEpoch
      PROVE  /\ Made(<<node'[v].tasks[n], n>>) /\ owner'[<<node'[v].tasks[n], n>>] \in Requests
  <2>1. node'[v].tasks[n] = node[v].tasks[n] /\ owner' = owner
    BY <1>3 DEF MakesNone
  <2>2. QED
    BY <1>3, <2>1 DEF MadeInv
<1>4. ASSUME NEW v \in Units, NEW n \in Ids, node'[v].map[n] # NoEpoch
      PROVE  Made(<<node'[v].map[n], n>>)
  <2>1. node'[v].map[n] = node[v].map[n]
    BY <1>4 DEF MakesNone
  <2>2. QED
    BY <1>4, <2>1 DEF MadeInv
<1>5. ASSUME NEW v \in Units, NEW s \in Sid, node'[v].channel[s] # NoChannel
      PROVE  Made(s)
  BY <1>5 DEF MakesNone, MadeInv
<1>6. QED
  BY <1>1, <1>2, <1>3, <1>4, <1>5 DEF MadeInv, Made

(* The request's steps make no session.                                     *)
LEMMA RequestMakesNone ==
    ASSUME TypeOK, StageInv, NEW r \in Requests, Request(r)
    PROVE  MakesNone
<1>1. ASSUME UNCHANGED <<umVars, node, owner>>
      PROVE  MakesNone
  <2>1. UNCHANGED <<up, epoch, ids, registered, node, owner>>
    BY <1>1, Zenon DEF umVars
  <2>2. QED
    BY <2>1 DEF MakesNone
<1>2. ASSUME NEW n \in Ids, Heard(r, n), UNCHANGED <<umVars, owner>>
      PROVE  MakesNone
  <2> DEFINE u == UnitOf(r)
             s == <<node[u].tasks[n], n>>
  <2>1. /\ SameBut(u) /\ node'[u].tasks = node[u].tasks /\ node'[u].map = node[u].map
        /\ node'[u].channel = [node[u].channel EXCEPT ![s].url = conn[r].com]
        /\ node[u].tasks[n] # NoEpoch /\ node[u].map[n] = node[u].tasks[n] /\ u \in Units
    BY <1>2, HeardNode
  <2>2. node[u].channel \in [Sid -> Channel]
    BY <2>1, NodeTypes
  <2>3. UNCHANGED <<up, epoch, ids, registered, owner>>
    BY <1>2, Zenon DEF umVars
  <2> HIDE DEF u
  <2>4. \A x \in Sid : node'[u].channel[x] # NoChannel => node[u].channel[x] # NoChannel \/ x = s
    BY <2>1, <2>2
  <2>5. s = <<node[u].map[n], n>> /\ node[u].map[n] # NoEpoch
    BY <2>1
  <2> HIDE DEF s
  <2>6. QED
    BY <2>1, <2>3, <2>4, <2>5 DEF MakesNone, SameBut
<1>3. CASE QuitsWell(r)
  BY <1>1, <1>3, Zenon DEF QuitsWell, Quits
<1>4. CASE Asking(r)
  <2>1. UNCHANGED <<up, epoch, ids, registered, owner>>
    BY <1>4, Zenon DEF Asking, Contacts
  <2>2. ASSUME NEW kind, NEW n, Contacts(r, kind, n)
        PROVE  MakesNone
    <3> DEFINE u == UnitOf(r)
    <3>1. \/ node' = node
          \/ /\ SameBut(u) /\ node'[u].tasks = node[u].tasks /\ node'[u].map = node[u].map
             /\ node'[u].channel = node[u].channel
      BY <2>2, ContactsNode
    <3> HIDE DEF u
    <3>2. QED
      BY <2>1, <3>1 DEF MakesNone, SameBut
  <2>3. QED
    BY <1>4, <2>2 DEF Asking
<1>5. CASE ReadsOn(r)
  <2>1. UNCHANGED <<umVars, owner>>
    BY <1>5, Zenon DEF ReadsOn, Reads
  <2>2. CASE node' = node
    BY <1>1, <2>1, <2>2, Zenon
  <2>3. CASE pc[r] = "setup" /\ Heard(r, Head(inbox[r]).id)
    <3>1. inbox[r] \in Seq(AnyLine) /\ inbox[r] # <<>>
      BY <1>5 DEF ReadsOn, Reads, TypeOK
    <3>2. Head(inbox[r]) \in AnyLine
      BY <3>1, TakingFirst
    <3>3. Head(inbox[r]).id \in Ids
      BY <3>2 DEF AnyLine, Line
    <3>4. QED
      BY <1>2, <2>1, <2>3, <3>3, Zenon
  <2>4. CASE pc[r] = "infer" /\ Heard(r, work[r])
    <3>1. work[r] \in Ids
      BY <2>4 DEF StageInv
    <3>2. QED
      BY <1>2, <2>1, <2>4, <3>1, Zenon
  <2>5. QED
    BY <1>5, <2>2, <2>3, <2>4 DEF ReadsOn
<1>6. CASE Resumes(r)
  BY <1>1, <1>6, Zenon DEF Resumes
<1>7. QED
  BY <1>3, <1>4, <1>5, <1>6, RequestEffect

(* Of the steps of a node only a setup makes one.                           *)
LEMMA RenewedMakesNone ==
    ASSUME TypeOK, NEW u \in Units, Renewed(u), UNCHANGED <<umVars, owner>>
    PROVE  MakesNone
<1>1. UNCHANGED <<up, epoch, ids, registered, owner>>
  BY Zenon DEF umVars
<1>2. /\ \A n \in Ids : node'[u].tasks[n] = NoEpoch /\ node'[u].map[n] = NoEpoch
      /\ \A s \in Sid : node'[u].channel[s] = NoChannel
      /\ \A v \in Units \ {u} : node'[v] = node[v]
  BY RenewedEffect
<1>3. QED
  BY <1>1, <1>2 DEF MakesNone

LEMMA NodeMakesNone ==
    ASSUME TypeOK, NEW u \in Units, NodeStep(u) \/ NodeRestart(u), ~(Setup(u) /\ up)
    PROVE  MakesNone
<1>1. CASE Setup(u)
  BY <1>1, SetupDown, RenewedMakesNone
<1>2. CASE NodeRestart(u)
  BY <1>2, RestartEffect, RenewedMakesNone
<1>3. node[u].channel \in [Sid -> Channel]
  BY NodeTypes
<1>4. node[u].tasks \in [Ids -> Epochs \cup {NoEpoch}] /\ node[u].map \in [Ids -> Epochs \cup {NoEpoch}]
  BY NodeTypes
<1>5. CASE Exit(u)
  <2> DEFINE event == Head(node[u].events)
             n     == event.id
             s     == <<node[u].map[n], n>>
             p     == Pointed(u, n, event.to)
             c     == [node[u].channel EXCEPT ![s] = NoChannel]
             t     == [node[u].tasks EXCEPT ![n] = NoEpoch]
             a     == Answering(event, "unknown", u, n, FALSE)
             b     == Answering(event, "exit", u, n, TRUE)
  <2>1. n \in Ids
    BY <1>5, ExitTyped
  <2>2. UNCHANGED <<umVars, owner>>
    BY <1>5, Zenon DEF Exit
  <2>3. \/ NodeIs(u, node[u].alive, Tail(node[u].events), a, node[u].tasks, node[u].map,
                  p, node[u].jobs, node[u].worker)
        \/ Renewed(u)
        \/ NodeIs(u, node[u].alive, Tail(node[u].events), b, t, node[u].map, c,
                  node[u].jobs, node[u].worker)
    BY <1>5, ExitEffect
  <2>4. UNCHANGED <<up, epoch, ids, registered, owner>>
    BY <2>2, Zenon DEF umVars
  <2>5. \A x \in Sid : p[x] # NoChannel =>
            node[u].channel[x] # NoChannel \/ (x = s /\ node[u].map[n] # NoEpoch)
    BY <1>3 DEF Pointed
  <2>6. \A x \in Sid : c[x] # NoChannel => node[u].channel[x] # NoChannel
    BY <1>3
  <2>7. \A m \in Ids : t[m] # NoEpoch => t[m] = node[u].tasks[m]
    BY <1>4
  <2> HIDE DEF n, p, c, t, a, b
  <2>8. ASSUME NodeIs(u, node[u].alive, Tail(node[u].events), a, node[u].tasks, node[u].map,
                      p, node[u].jobs, node[u].worker)
        PROVE  MakesNone
    <3>1. /\ node'[u].tasks = node[u].tasks /\ node'[u].map = node[u].map
          /\ node'[u].channel = p /\ \A x \in Units \ {u} : node'[x] = node[x]
      BY <2>8, NodeFields
    <3>2. QED
      BY <2>1, <2>4, <2>5, <3>1 DEF MakesNone
  <2>9. ASSUME NodeIs(u, node[u].alive, Tail(node[u].events), b, t, node[u].map, c,
                      node[u].jobs, node[u].worker)
        PROVE  MakesNone
    <3>1. /\ node'[u].tasks = t /\ node'[u].map = node[u].map
          /\ node'[u].channel = c /\ \A x \in Units \ {u} : node'[x] = node[x]
      BY <2>9, NodeFields
    <3>2. QED
      BY <2>4, <2>6, <2>7, <3>1 DEF MakesNone
  <2>10. QED
    BY <2>2, <2>3, <2>8, <2>9, RenewedMakesNone
<1>6. CASE Answer(u)
  <2> DEFINE e == node[u].ev
             n == e.line.id
             m == [node[u].map EXCEPT ![n] = IF e.release THEN NoEpoch ELSE @]
             c == Released(u, n, e.release)
  <2>1. /\ registered' = IF e.release THEN registered \ {n} ELSE registered
        /\ NodeIs(u, node[u].alive, node[u].events, NoAnswer, node[u].tasks, m, c,
                  node[u].jobs, node[u].worker)
    BY <1>6, AnswerEffect
  <2>2. UNCHANGED <<up, epoch, ids, owner>> /\ registered' \subseteq registered
    BY <1>6, <2>1 DEF Answer
  <2>3. \A x \in Ids : m[x] # NoEpoch => m[x] = node[u].map[x]
    BY <1>4
  <2>4. \A x \in Sid : c[x] # NoChannel => node[u].channel[x] # NoChannel
    BY <1>3 DEF Released
  <2> HIDE DEF m, c, n
  <2>5. /\ node'[u].tasks = node[u].tasks /\ node'[u].map = m
        /\ node'[u].channel = c /\ \A x \in Units \ {u} : node'[x] = node[x]
    BY <2>1, NodeFields
  <2>6. QED
    BY <2>2, <2>3, <2>4, <2>5 DEF MakesNone
<1>7. CASE WorkerTake(u)
  <2>1. UNCHANGED <<up, epoch, ids, registered, owner>>
    BY <1>7, Zenon DEF WorkerTake, umVars
  <2>2. /\ node'[u].tasks = node[u].tasks /\ node'[u].map = node[u].map
        /\ node'[u].channel = node[u].channel /\ \A x \in Units \ {u} : node'[x] = node[x]
    BY <1>7, WorkerTakeEffect, NodeFields
  <2>3. QED
    BY <2>1, <2>2 DEF MakesNone
<1>8. CASE WorkerSend(u)
  <2> DEFINE s == node[u].worker.sid
             h == [node[u].channel EXCEPT ![s].held = Append(@, WorkerLineOf(u))]
  <2>1. UNCHANGED <<umVars, owner>>
    BY <1>8, Zenon DEF WorkerSend
  <2>2. UNCHANGED <<up, epoch, ids, registered, owner>>
    BY <2>1, Zenon DEF umVars
  <2>3. \A x \in Sid : h[x] # NoChannel => node[u].channel[x] # NoChannel \/ x = s
    BY <1>3
  <2>4. \/ Renewed(u)
        \/ NodeIs(u, node[u].alive, node[u].events, node[u].ev, node[u].tasks, node[u].map,
                  node[u].channel, node[u].jobs, JobLeft(u))
        \/ /\ node[u].channel[s] # NoChannel
           /\ NodeIs(u, node[u].alive, node[u].events, node[u].ev, node[u].tasks,
                     node[u].map, h, node[u].jobs, JobLeft(u))
    BY <1>8, WorkerSendEffect
  <2> HIDE DEF h
  <2>5. ASSUME NEW d, NodeIs(u, node[u].alive, node[u].events, node[u].ev, node[u].tasks,
                             node[u].map, d, node[u].jobs, JobLeft(u)),
               \A x \in Sid : d[x] # NoChannel => node[u].channel[x] # NoChannel
        PROVE  MakesNone
    <3>1. /\ node'[u].tasks = node[u].tasks /\ node'[u].map = node[u].map
          /\ node'[u].channel = d /\ \A x \in Units \ {u} : node'[x] = node[x]
      BY <2>5, NodeFields
    <3>2. QED
      BY <2>2, <2>5, <3>1 DEF MakesNone
  <2>6. QED
    BY <2>1, <2>3, <2>4, <2>5, RenewedMakesNone
<1>9. ASSUME NEW s \in Sid, Deliver(u, s)
      PROVE  MakesNone
  <2> DEFINE h == [node[u].channel EXCEPT ![s].held = <<>>]
  <2>1. UNCHANGED <<up, epoch, ids, registered, owner>>
    BY <1>9, Zenon DEF Deliver, umVars
  <2>2. /\ node[u].channel[s] # NoChannel
        /\ NodeIs(u, node[u].alive, node[u].events, node[u].ev, node[u].tasks,
                  node[u].map, h, node[u].jobs, node[u].worker)
    BY <1>9, DeliverEffect
  <2>3. \A x \in Sid : h[x] # NoChannel => node[u].channel[x] # NoChannel \/ x = s
    BY <1>3
  <2> HIDE DEF h
  <2>4. /\ node'[u].tasks = node[u].tasks /\ node'[u].map = node[u].map
        /\ node'[u].channel = h /\ \A x \in Units \ {u} : node'[x] = node[x]
    BY <2>2, NodeFields
  <2>5. QED
    BY <2>1, <2>2, <2>3, <2>4 DEF MakesNone
<1>10. QED
  BY <1>1, <1>2, <1>5, <1>6, <1>7, <1>8, <1>9 DEF NodeStep

(* What the steps of a node do to it.                                       *)
LEMMA SetupNode ==
    ASSUME TypeOK, NEW u \in Units, Setup(u), up
    PROVE  LET n     == ids + 1
               event == Head(node[u].events)
               new   == <<epoch, n>>
               old   == <<node[u].map[n], n>>
           IN  /\ n \in Ids /\ new \in Sid /\ ids' = n /\ registered' = registered \cup {n}
               /\ event \in Event /\ event.req \in Requests /\ event.to \in Nat
               /\ event.kind = "setup" /\ Queued(u, event) /\ node[u].events # <<>>
               /\ node[u].ev = NoAnswer
               /\ UNCHANGED <<up, epoch, coms, pc, stage, conn, inbox, work, lapses>>
               /\ owner'[new] = event.req /\ \A s \in Sid \ {new} : owner'[s] = owner[s]
               /\ SameBut(u) /\ node'[u].alive = node[u].alive
               /\ node'[u].events = Tail(node[u].events)
               /\ node'[u].ev = SetupAnswer(u, event, n)
               /\ node'[u].tasks[n] = (IF Full(u) THEN node[u].tasks[n] ELSE epoch)
               /\ \A m \in Ids \ {n} : node'[u].tasks[m] = node[u].tasks[m]
               /\ node'[u].map[n] = epoch
               /\ \A m \in Ids \ {n} : node'[u].map[m] = node[u].map[m]
               /\ node'[u].channel[new] = [url |-> event.to, held |-> <<>>]
               /\ \A s \in Sid \ {new} :
                     \/ node'[u].channel[s] = node[u].channel[s]
                     \/ node'[u].channel[s] = NoChannel /\ s = old /\ ~WorksFor(u, old)
               /\ node'[u].jobs = node[u].jobs /\ node'[u].worker = node[u].worker
<1> DEFINE n     == ids + 1
           event == Head(node[u].events)
           new   == <<epoch, n>>
           old   == <<node[u].map[n], n>>
           v     == SetupAnswer(u, event, n)
           t     == [node[u].tasks EXCEPT ![n] = IF Full(u) THEN @ ELSE epoch]
           m     == [node[u].map EXCEPT ![n] = epoch]
           c     == [Kept(u, n) EXCEPT ![new] = [url |-> event.to, held |-> <<>>]]
           q     == Tail(node[u].events)
<1>1. /\ node[u].ev = NoAnswer /\ node[u].events # <<>> /\ event.kind = "setup"
      /\ n \in Ids /\ ids' = n /\ owner' = [owner EXCEPT ![new] = event.req]
      /\ registered' = registered \cup {n}
      /\ NodeIs(u, node[u].alive, q, v, t, m, c, node[u].jobs, node[u].worker)
  BY SetupEffect
<1>2. new \in Sid /\ Kept(u, n) \in [Sid -> Channel]
  BY SetupTyped
<1>3. /\ event \in Event /\ event.req \in Requests /\ event.to \in Nat /\ Queued(u, event)
  BY <1>1, EventTypes
<1>4. UNCHANGED <<up, epoch, coms, pc, stage, conn, inbox, work, lapses>>
  BY Zenon DEF Setup, userVars
<1>5. owner'[new] = event.req /\ \A s \in Sid \ {new} : owner'[s] = owner[s]
  BY <1>1, <1>2 DEF TypeOK
<1>6. /\ node[u].tasks \in [Ids -> Epochs \cup {NoEpoch}]
      /\ node[u].map \in [Ids -> Epochs \cup {NoEpoch}]
  BY NodeTypes
<1>7. /\ t[n] = (IF Full(u) THEN node[u].tasks[n] ELSE epoch)
      /\ \A k \in Ids \ {n} : t[k] = node[u].tasks[k]
      /\ m[n] = epoch /\ \A k \in Ids \ {n} : m[k] = node[u].map[k]
  <2> HIDE DEF n
  <2>1. QED
    BY <1>1, <1>6
<1>8. c[new] = [url |-> event.to, held |-> <<>>]
  BY <1>2
<1>9. ASSUME NEW s \in Sid \ {new}
      PROVE  \/ c[s] = node[u].channel[s]
             \/ c[s] = NoChannel /\ s = old /\ ~WorksFor(u, old)
  <2>1. c[s] = Kept(u, n)[s]
    BY <1>2
  <2>2. QED
    BY <2>1 DEF Kept
<1> HIDE DEF c, t, m, v, q
<1>10. /\ SameBut(u) /\ node'[u].alive = node[u].alive /\ node'[u].events = q
       /\ node'[u].ev = v /\ node'[u].tasks = t /\ node'[u].map = m /\ node'[u].channel = c
       /\ node'[u].jobs = node[u].jobs /\ node'[u].worker = node[u].worker
  BY <1>1, NodeFields DEF SameBut
<1> HIDE DEF n, event
<1>11. QED
  BY <1>1, <1>2, <1>3, <1>4, <1>5, <1>7, <1>8, <1>9, <1>10 DEF v, q, n, event

(* Exit finds no task: its answer is an error, and the channel is pointed.  *)
ExitsNothing(u) ==
    LET event == Head(node[u].events)
        n     == event.id
    IN  /\ node[u].tasks[n] = NoEpoch
        /\ SameBut(u) /\ node'[u].alive = node[u].alive
        /\ node'[u].events = Tail(node[u].events)
        /\ node'[u].ev = Answering(event, "unknown", u, n, FALSE)
        /\ node'[u].tasks = node[u].tasks /\ node'[u].map = node[u].map
        /\ \A s \in Sid : /\ node'[u].channel[s].held = node[u].channel[s].held
                          /\ \/ node'[u].channel[s] = node[u].channel[s]
                             \/ /\ node[u].map[n] # NoEpoch /\ s = <<node[u].map[n], n>>
                                /\ node[u].channel[s].held = <<>>
                                /\ node'[u].channel[s].url = event.to
        /\ node'[u].jobs = node[u].jobs /\ node'[u].worker = node[u].worker

(* Exit ends the session.                                                   *)
ExitsTask(u) ==
    LET event == Head(node[u].events)
        n     == event.id
    IN  /\ node[u].tasks[n] # NoEpoch /\ node[u].map[n] # NoEpoch
        /\ SameBut(u) /\ node'[u].alive = node[u].alive
        /\ node'[u].events = Tail(node[u].events)
        /\ node'[u].ev = Answering(event, "exit", u, n, TRUE)
        /\ node'[u].tasks[n] = NoEpoch
        /\ \A m \in Ids \ {n} : node'[u].tasks[m] = node[u].tasks[m]
        /\ node'[u].map = node[u].map
        /\ \A s \in Sid : \/ node'[u].channel[s] = node[u].channel[s]
                          \/ s = <<node[u].map[n], n>> /\ node'[u].channel[s] = NoChannel
        /\ node'[u].jobs = node[u].jobs /\ node'[u].worker = node[u].worker

LEMMA ExitNode ==
    ASSUME TypeOK, NEW u \in Units, Exit(u)
    PROVE  LET event == Head(node[u].events)
               n     == event.id
           IN  /\ n \in Ids /\ event \in Event /\ event.req \in Requests /\ event.to \in Nat
               /\ event.kind = "exit" /\ Queued(u, event) /\ node[u].events # <<>>
               /\ node[u].ev = NoAnswer
               /\ UNCHANGED <<up, epoch, coms, ids, registered, pc, stage, conn, inbox,
                              work, owner, lapses>>
               /\ \/ ExitsNothing(u) \/ ExitsTask(u)
                  \/ node[u].tasks[n] # NoEpoch /\ node[u].map[n] = NoEpoch /\ Renewed(u)
<1> DEFINE event == Head(node[u].events)
           n     == event.id
           s     == <<node[u].map[n], n>>
           p     == Pointed(u, n, event.to)
           c     == [node[u].channel EXCEPT ![s] = NoChannel]
           t     == [node[u].tasks EXCEPT ![n] = NoEpoch]
           a     == Answering(event, "unknown", u, n, FALSE)
           b     == Answering(event, "exit", u, n, TRUE)
           q     == Tail(node[u].events)
<1>1. /\ node[u].ev = NoAnswer /\ node[u].events # <<>> /\ event.kind = "exit"
      /\ ChannelOf(u, n).held = <<>>
      /\ \/ /\ node[u].tasks[n] = NoEpoch
            /\ NodeIs(u, node[u].alive, q, a, node[u].tasks, node[u].map, p, node[u].jobs,
                      node[u].worker)
         \/ node[u].tasks[n] # NoEpoch /\ node[u].map[n] = NoEpoch /\ Renewed(u)
         \/ /\ node[u].tasks[n] # NoEpoch /\ node[u].map[n] # NoEpoch
            /\ NodeIs(u, node[u].alive, q, b, t, node[u].map, c, node[u].jobs,
                      node[u].worker)
  BY ExitEffect
<1>2. /\ event \in Event /\ event.req \in Requests /\ event.to \in Nat /\ n \in Ids
      /\ Queued(u, event)
  BY <1>1, EventTypes
<1>3. UNCHANGED <<up, epoch, coms, ids, registered, pc, stage, conn, inbox, work, owner,
                  lapses>>
  BY Zenon DEF Exit, umVars, userVars
<1>4. /\ node[u].channel \in [Sid -> Channel] /\ p \in [Sid -> Channel]
      /\ node[u].tasks \in [Ids -> Epochs \cup {NoEpoch}]
  BY <1>2, NodeTypes, PointedTyped
<1>5. node[u].map[n] # NoEpoch => node[u].channel[s].held = <<>>
  BY <1>1 DEF ChannelOf
<1>6. ASSUME NEW x \in Sid
      PROVE  /\ p[x].held = node[u].channel[x].held
             /\ \/ p[x] = node[u].channel[x]
                \/ node[u].map[n] # NoEpoch /\ x = s /\ node[u].channel[x].held = <<>>
                   /\ p[x].url = event.to
  <2>1. CASE node[u].map[n] # NoEpoch /\ x = s
    <3>1. p[x] = [node[u].channel[x] EXCEPT !.url = event.to]
      BY <1>4, <2>1 DEF Pointed
    <3>2. node[u].channel[x] \in Channel
      BY <1>4
    <3>3. p[x].url = event.to /\ p[x].held = node[u].channel[x].held
      BY <3>1, <3>2 DEF Channel
    <3>4. QED
      BY <1>5, <2>1, <3>3
  <2>2. CASE ~(node[u].map[n] # NoEpoch /\ x = s)
    BY <1>4, <2>2 DEF Pointed
  <2>3. QED
    BY <2>1, <2>2
<1>7. /\ t[n] = NoEpoch /\ \A m \in Ids \ {n} : t[m] = node[u].tasks[m]
      /\ \A x \in Sid : c[x] = node[u].channel[x] \/ (x = s /\ c[x] = NoChannel)
  BY <1>2, <1>4
<1> HIDE DEF p, c, t, a, b, q
<1>8. ASSUME node[u].tasks[n] = NoEpoch,
             NodeIs(u, node[u].alive, q, a, node[u].tasks, node[u].map, p, node[u].jobs,
                    node[u].worker)
      PROVE  ExitsNothing(u)
  <2>1. /\ node'[u].alive = node[u].alive /\ node'[u].events = q /\ node'[u].ev = a
        /\ node'[u].tasks = node[u].tasks /\ node'[u].map = node[u].map
        /\ node'[u].channel = p /\ node'[u].jobs = node[u].jobs
        /\ node'[u].worker = node[u].worker /\ SameBut(u)
    BY <1>8, NodeFields DEF SameBut
  <2>2. QED
    BY <1>6, <1>8, <2>1 DEF ExitsNothing, a, q
<1>9. ASSUME node[u].tasks[n] # NoEpoch, node[u].map[n] # NoEpoch,
             NodeIs(u, node[u].alive, q, b, t, node[u].map, c, node[u].jobs, node[u].worker)
      PROVE  ExitsTask(u)
  <2>1. /\ node'[u].alive = node[u].alive /\ node'[u].events = q /\ node'[u].ev = b
        /\ node'[u].tasks = t /\ node'[u].map = node[u].map
        /\ node'[u].channel = c /\ node'[u].jobs = node[u].jobs
        /\ node'[u].worker = node[u].worker /\ SameBut(u)
    BY <1>9, NodeFields DEF SameBut
  <2>2. QED
    BY <1>7, <1>9, <2>1 DEF ExitsTask, b, q
<1>10. QED
  BY <1>1, <1>2, <1>3, <1>8, <1>9

LEMMA AnswerNode ==
    ASSUME TypeOK, NEW u \in Units, Answer(u)
    PROVE  LET e == node[u].ev
               n == e.line.id
           IN  /\ e # NoAnswer /\ e \in AnyAnswer /\ e.line \in AnyLine /\ n \in Ids
               /\ e.to \in Nat /\ Readers(e.to) # {} /\ Arrive(e.to, <<e.line>>)
               /\ <<e.line>> \in Seq(AnyLine)
               /\ UNCHANGED <<up, epoch, coms, ids, pc, stage, conn, work, owner, lapses>>
               /\ registered' = (IF e.release THEN registered \ {n} ELSE registered)
               /\ SameBut(u) /\ node'[u].alive = node[u].alive
               /\ node'[u].events = node[u].events /\ node'[u].ev = NoAnswer
               /\ node'[u].tasks = node[u].tasks
               /\ node'[u].map[n] = (IF e.release THEN NoEpoch ELSE node[u].map[n])
               /\ \A m \in Ids \ {n} : node'[u].map[m] = node[u].map[m]
               /\ \A s \in Sid : \/ node'[u].channel[s] = node[u].channel[s]
                                 \/ /\ e.release /\ s = <<node[u].map[n], n>>
                                    /\ node'[u].channel[s] = NoChannel
               /\ node'[u].jobs = node[u].jobs /\ node'[u].worker = node[u].worker
<1> DEFINE e == node[u].ev
           n == e.line.id
           m == [node[u].map EXCEPT ![n] = IF e.release THEN NoEpoch ELSE @]
           c == Released(u, n, e.release)
<1>1. /\ e # NoAnswer /\ Readers(e.to) # {} /\ Arrive(e.to, <<e.line>>)
      /\ registered' = (IF e.release THEN registered \ {n} ELSE registered)
      /\ NodeIs(u, node[u].alive, node[u].events, NoAnswer, node[u].tasks, m, c,
                node[u].jobs, node[u].worker)
  BY AnswerEffect
<1>2. /\ e \in AnyAnswer /\ e.line \in AnyLine /\ n \in Ids /\ e.to \in Nat
      /\ <<e.line>> \in Seq(AnyLine)
  BY AnswerTyped
<1>3. UNCHANGED <<up, epoch, coms, ids, pc, stage, conn, work, owner, lapses>>
  BY Zenon DEF Answer
<1>4. /\ m[n] = (IF e.release THEN NoEpoch ELSE node[u].map[n])
      /\ \A k \in Ids \ {n} : m[k] = node[u].map[k]
  <2>1. node[u].map \in [Ids -> Epochs \cup {NoEpoch}]
    BY NodeTypes
  <2> HIDE DEF n
  <2>2. QED
    BY <1>2, <2>1
<1>5. ASSUME NEW s \in Sid
      PROVE  \/ c[s] = node[u].channel[s]
             \/ e.release /\ s = <<node[u].map[n], n>> /\ c[s] = NoChannel
  <2>1. node[u].channel \in [Sid -> Channel]
    BY NodeTypes
  <2>2. QED
    BY <2>1 DEF Released
<1> HIDE DEF m, c
<1>6. /\ SameBut(u) /\ node'[u].alive = node[u].alive
      /\ node'[u].events = node[u].events /\ node'[u].ev = NoAnswer
      /\ node'[u].tasks = node[u].tasks /\ node'[u].map = m /\ node'[u].channel = c
      /\ node'[u].jobs = node[u].jobs /\ node'[u].worker = node[u].worker
  BY <1>1, NodeFields DEF SameBut
<1> HIDE DEF n, e
<1>7. QED
  BY <1>1, <1>2, <1>3, <1>4, <1>5, <1>6 DEF n, e

LEMMA WorkerTakeNode ==
    ASSUME TypeOK, NEW u \in Units, WorkerTake(u)
    PROVE  /\ node[u].worker = NoJob /\ node[u].jobs # <<>>
           /\ UNCHANGED <<up, epoch, coms, ids, registered, pc, stage, conn, inbox, work,
                          owner, lapses>>
           /\ SameBut(u) /\ node'[u].alive = node[u].alive
           /\ node'[u].events = node[u].events /\ node'[u].ev = node[u].ev
           /\ node'[u].tasks = node[u].tasks /\ node'[u].map = node[u].map
           /\ node'[u].channel = node[u].channel
           /\ node'[u].jobs = Tail(node[u].jobs)
           /\ node'[u].worker \in {Head(node[u].jobs), NoJob}
<1> DEFINE j == JobTaken(u)
           q == Tail(node[u].jobs)
<1>1. /\ node[u].worker = NoJob /\ node[u].jobs # <<>>
      /\ NodeIs(u, node[u].alive, node[u].events, node[u].ev, node[u].tasks,
                node[u].map, node[u].channel, q, j)
  BY WorkerTakeEffect
<1>2. UNCHANGED <<up, epoch, coms, ids, registered, pc, stage, conn, inbox, work, owner,
                  lapses>>
  BY Zenon DEF WorkerTake, umVars, userVars
<1>3. j \in {Head(node[u].jobs), NoJob}
  BY DEF JobTaken
<1> HIDE DEF j, q
<1>4. /\ SameBut(u) /\ node'[u].alive = node[u].alive
      /\ node'[u].events = node[u].events /\ node'[u].ev = node[u].ev
      /\ node'[u].tasks = node[u].tasks /\ node'[u].map = node[u].map
      /\ node'[u].channel = node[u].channel
      /\ node'[u].jobs = q /\ node'[u].worker = j
  BY <1>1, NodeFields DEF SameBut
<1>5. QED
  BY <1>1, <1>2, <1>3, <1>4 DEF j, q

(* The worker's line goes to a connection, or stays in the channel.         *)
WorkerNode(u) ==
    /\ SameBut(u) /\ node'[u].alive = node[u].alive
    /\ node'[u].events = node[u].events /\ node'[u].ev = node[u].ev
    /\ node'[u].tasks = node[u].tasks /\ node'[u].map = node[u].map
    /\ node'[u].jobs = node[u].jobs /\ node'[u].worker = JobLeft(u)

LEMMA WorkerSendNode ==
    ASSUME TypeOK, NEW u \in Units, WorkerSend(u)
    PROVE  LET s == node[u].worker.sid
               c == node[u].channel[s]
           IN  /\ node[u].worker # NoJob /\ s \in Sid
               /\ UNCHANGED <<up, epoch, coms, ids, registered, pc, stage, conn, work,
                              owner, lapses>>
               /\ \/ c = NoChannel /\ Renewed(u) /\ inbox' = inbox
                  \/ /\ c # NoChannel /\ Readers(c.url) # {} /\ c.held = <<>>
                     /\ Arrive(c.url, <<WorkerLineOf(u)>>)
                     /\ WorkerNode(u) /\ node'[u].channel = node[u].channel
                  \/ /\ c # NoChannel /\ ~(Readers(c.url) # {} /\ c.held = <<>>)
                     /\ inbox' = inbox /\ WorkerNode(u)
                     /\ node'[u].channel[s].url = c.url
                     /\ node'[u].channel[s].held = Append(c.held, WorkerLineOf(u))
                     /\ \A x \in Sid \ {s} : node'[u].channel[x] = node[u].channel[x]
<1> DEFINE s    == node[u].worker.sid
           c    == node[u].channel[s]
           j    == JobLeft(u)
           h    == [node[u].channel EXCEPT ![s].held = Append(@, WorkerLineOf(u))]
<1>1. /\ node[u].worker # NoJob
      /\ \/ c = NoChannel /\ Renewed(u) /\ inbox' = inbox
         \/ /\ c # NoChannel /\ Readers(c.url) # {} /\ c.held = <<>>
            /\ Arrive(c.url, <<WorkerLineOf(u)>>)
            /\ NodeIs(u, node[u].alive, node[u].events, node[u].ev, node[u].tasks,
                      node[u].map, node[u].channel, node[u].jobs, j)
         \/ /\ c # NoChannel /\ ~(Readers(c.url) # {} /\ c.held = <<>>) /\ inbox' = inbox
            /\ NodeIs(u, node[u].alive, node[u].events, node[u].ev, node[u].tasks,
                      node[u].map, h, node[u].jobs, j)
  BY WorkerSendEffect
<1>2. s \in Sid
  BY <1>1, WorkerTypes
<1>3. UNCHANGED <<up, epoch, coms, ids, registered, pc, stage, conn, work, owner, lapses>>
  BY Zenon DEF WorkerSend, umVars
<1>4. node[u].channel \in [Sid -> Channel]
  BY NodeTypes
<1>5. /\ h[s].url = c.url /\ h[s].held = Append(c.held, WorkerLineOf(u))
      /\ \A x \in Sid \ {s} : h[x] = node[u].channel[x]
  <2>1. c \in Channel
    BY <1>2, <1>4
  <2>2. h[s] = [c EXCEPT !.held = Append(@, WorkerLineOf(u))]
    BY <1>2, <1>4
  <2>3. h[s].url = c.url /\ h[s].held = Append(c.held, WorkerLineOf(u))
    BY <2>1, <2>2 DEF Channel
  <2>4. QED
    BY <1>4, <2>3
<1> HIDE DEF h, j
<1>6. ASSUME NEW d, NodeIs(u, node[u].alive, node[u].events, node[u].ev, node[u].tasks,
                           node[u].map, d, node[u].jobs, j)
      PROVE  WorkerNode(u) /\ node'[u].channel = d
  <2>1. /\ SameBut(u) /\ node'[u].alive = node[u].alive
        /\ node'[u].events = node[u].events /\ node'[u].ev = node[u].ev
        /\ node'[u].tasks = node[u].tasks /\ node'[u].map = node[u].map
        /\ node'[u].channel = d /\ node'[u].jobs = node[u].jobs /\ node'[u].worker = j
    BY <1>6, NodeFields DEF SameBut
  <2>2. QED
    BY <2>1 DEF WorkerNode, j
<1>7. QED
  BY <1>1, <1>2, <1>3, <1>5, <1>6

LEMMA DeliverNode ==
    ASSUME TypeOK, NEW u \in Units, NEW s \in Sid, Deliver(u, s)
    PROVE  LET c == node[u].channel[s]
           IN  /\ c # NoChannel /\ c.held # <<>> /\ Readers(c.url) # {}
               /\ Arrive(c.url, c.held) /\ c.held \in Seq(WorkerLine)
               /\ c.held \in Seq(AnyLine)
               /\ UNCHANGED <<up, epoch, coms, ids, registered, pc, stage, conn, work,
                              owner, lapses>>
               /\ SameBut(u) /\ node'[u].alive = node[u].alive
               /\ node'[u].events = node[u].events /\ node'[u].ev = node[u].ev
               /\ node'[u].tasks = node[u].tasks /\ node'[u].map = node[u].map
               /\ node'[u].channel[s].url = c.url /\ node'[u].channel[s].held = <<>>
               /\ \A x \in Sid \ {s} : node'[u].channel[x] = node[u].channel[x]
               /\ node'[u].jobs = node[u].jobs /\ node'[u].worker = node[u].worker
<1> DEFINE c == node[u].channel[s]
           h == [node[u].channel EXCEPT ![s].held = <<>>]
<1>1. /\ c # NoChannel /\ c.held # <<>> /\ Readers(c.url) # {} /\ Arrive(c.url, c.held)
      /\ NodeIs(u, node[u].alive, node[u].events, node[u].ev, node[u].tasks,
                node[u].map, h, node[u].jobs, node[u].worker)
  BY DeliverEffect
<1>2. c.held \in Seq(WorkerLine) /\ c.held \in Seq(AnyLine)
  BY DeliverTyped
<1>3. UNCHANGED <<up, epoch, coms, ids, registered, pc, stage, conn, work, owner, lapses>>
  BY Zenon DEF Deliver, umVars
<1>4. /\ h[s].url = c.url /\ h[s].held = <<>>
      /\ \A x \in Sid \ {s} : h[x] = node[u].channel[x]
  <2>1. node[u].channel \in [Sid -> Channel]
    BY NodeTypes
  <2>2. c \in Channel
    BY <2>1
  <2>3. h[s] = [c EXCEPT !.held = <<>>]
    BY <2>1
  <2>4. h[s].url = c.url /\ h[s].held = <<>>
    BY <2>2, <2>3 DEF Channel
  <2>5. QED
    BY <2>1, <2>4
<1> HIDE DEF h
<1>5. /\ SameBut(u) /\ node'[u].alive = node[u].alive
      /\ node'[u].events = node[u].events /\ node'[u].ev = node[u].ev
      /\ node'[u].tasks = node[u].tasks /\ node'[u].map = node[u].map
      /\ node'[u].channel = h
      /\ node'[u].jobs = node[u].jobs /\ node'[u].worker = node[u].worker
  BY <1>1, NodeFields DEF SameBut
<1>6. QED
  BY <1>1, <1>2, <1>3, <1>4, <1>5

LEMMA RenewedNode ==
    ASSUME TypeOK, NEW u \in Units, Renewed(u), UNCHANGED <<umVars, userVars, owner, lapses>>
    PROVE  /\ UNCHANGED <<up, epoch, coms, ids, registered, pc, stage, conn, inbox, work,
                          owner, lapses>>
           /\ SameBut(u) /\ node'[u].events = <<>> /\ node'[u].ev = NoAnswer
           /\ node'[u].jobs = <<>> /\ node'[u].worker = NoJob
           /\ \A n \in Ids : node'[u].tasks[n] = NoEpoch /\ node'[u].map[n] = NoEpoch
           /\ \A s \in Sid : node'[u].channel[s] = NoChannel
<1>1. UNCHANGED <<up, epoch, coms, ids, registered, pc, stage, conn, inbox, work, owner,
                  lapses>>
  BY Zenon DEF umVars, userVars
<1>2. QED
  BY <1>1, RenewedEffect DEF SameBut

LEMMA SetupMade ==
    ASSUME TypeOK, MadeInv, NEW u \in Units, Setup(u), up
    PROVE  MadeInv'
<1> DEFINE n     == ids + 1
           event == Head(node[u].events)
           new   == <<epoch, n>>
           old   == <<node[u].map[n], n>>
<1>1. /\ n \in Ids /\ new \in Sid /\ ids' = n /\ event.req \in Requests
      /\ UNCHANGED <<up, epoch>>
      /\ owner'[new] = event.req /\ \A s \in Sid \ {new} : owner'[s] = owner[s]
      /\ SameBut(u)
      /\ node'[u].tasks[n] = (IF Full(u) THEN node[u].tasks[n] ELSE epoch)
      /\ \A m \in Ids \ {n} : node'[u].tasks[m] = node[u].tasks[m]
      /\ node'[u].map[n] = epoch
      /\ \A m \in Ids \ {n} : node'[u].map[m] = node[u].map[m]
      /\ \A s \in Sid \ {new} :
            \/ node'[u].channel[s] = node[u].channel[s]
            \/ node'[u].channel[s] = NoChannel /\ s = old /\ ~WorksFor(u, old)
  BY SetupNode
<1>2. ids \in Nat /\ epoch \in Nat /\ ids' = ids + 1
  <2>1. ids \in 0..MaxIds /\ epoch \in Epochs
    BY DEF TypeOK
  <2>2. QED
    BY <1>1, <2>1, GatewayAssumption DEF Epochs
<1> HIDE DEF event
<1>3. /\ \A s \in Sid : Made(s) => s[1] < epoch' \/ (s[1] = epoch' /\ s[2] <= ids')
      /\ new[1] = epoch' /\ new[2] <= ids'
  <2>1. ASSUME NEW s \in Sid, Made(s)
        PROVE  s[1] < epoch' \/ (s[1] = epoch' /\ s[2] <= ids')
    <3>1. CASE s[1] < epoch
      BY <1>1, <3>1
    <3>2. CASE s[1] = epoch /\ s[2] <= ids
      <4>1. s[2] \in Nat
        BY DEF Sid, Ids
      <4>2. s[2] <= ids + 1
        BY <1>2, <3>2, <4>1
      <4>3. QED
        BY <1>1, <1>2, <3>2, <4>2
    <3>3. QED
      BY <2>1, <3>1, <3>2 DEF Made
  <2>2. QED
    BY <1>1, <1>2, <2>1
<1>4. \A x \in Sid : owner[x] \in Requests => owner'[x] \in Requests
  BY <1>1
<1> HIDE DEF n
<1>5. ASSUME NEW v \in Units, NEW m \in Ids, node'[v].tasks[m] # NoEpoch
      PROVE  LET s == <<node'[v].tasks[m], m>>
             IN  /\ s[1] < epoch' \/ (s[1] = epoch' /\ s[2] <= ids')
                 /\ owner'[s] \in Requests
  <2>1. CASE v = u /\ m = n /\ ~Full(u)
    <3>1. <<node'[v].tasks[m], m>> = new
      BY <1>1, <2>1
    <3>2. QED
      BY <1>1, <1>3, <3>1
  <2>2. CASE node'[v].tasks[m] = node[v].tasks[m]
    <3>1. <<node[v].tasks[m], m>> \in Sid
      BY <1>5, <2>2, NodeTypes DEF Sid
    <3>2. Made(<<node[v].tasks[m], m>>) /\ owner[<<node[v].tasks[m], m>>] \in Requests
      BY <1>5, <2>2 DEF MadeInv
    <3>3. owner'[<<node[v].tasks[m], m>>] \in Requests
      BY <1>4, <3>1, <3>2
    <3>4. LET s == <<node[v].tasks[m], m>>
          IN  s[1] < epoch' \/ (s[1] = epoch' /\ s[2] <= ids')
      BY <1>3, <3>1, <3>2
    <3>5. QED
      BY <2>2, <3>3, <3>4
  <2>3. QED
    BY <1>1, <2>1, <2>2 DEF SameBut
<1>6. ASSUME NEW v \in Units, NEW m \in Ids, node'[v].map[m] # NoEpoch
      PROVE  LET s == <<node'[v].map[m], m>>
             IN  s[1] < epoch' \/ (s[1] = epoch' /\ s[2] <= ids')
  <2>1. CASE v = u /\ m = n
    BY <1>1, <1>3, <2>1
  <2>2. CASE ~(v = u /\ m = n)
    <3>1. node'[v].map[m] = node[v].map[m]
      BY <1>1, <2>2 DEF SameBut
    <3>2. Made(<<node[v].map[m], m>>)
      BY <1>6, <3>1 DEF MadeInv
    <3>3. <<node[v].map[m], m>> \in Sid
      BY <1>6, <3>1, NodeTypes DEF Sid
    <3>4. QED
      BY <1>3, <3>1, <3>2, <3>3
  <2>3. QED
    BY <2>1, <2>2
<1>7. ASSUME NEW v \in Units, NEW s \in Sid, node'[v].channel[s] # NoChannel
      PROVE  s[1] < epoch' \/ (s[1] = epoch' /\ s[2] <= ids')
  <2>1. CASE s = new
    BY <1>3, <2>1
  <2>2. CASE s # new
    <3>1. node[v].channel[s] # NoChannel
      BY <1>1, <1>7, <2>2 DEF SameBut
    <3>2. Made(s)
      BY <3>1 DEF MadeInv
    <3>3. QED
      BY <1>3, <3>2
  <2>3. QED
    BY <2>1, <2>2
<1>8. up'
  BY <1>1
<1>9. QED
  BY <1>5, <1>6, <1>7, <1>8 DEF MadeInv, Made

LEMMA MadeKept ==
    ASSUME TypeOK, StageInv, MadeInv, [Next]_vars
    PROVE  MadeInv'
<1>1. ASSUME NEW r \in Requests, Request(r)
      PROVE  MadeInv'
  BY <1>1, RequestMakesNone, MadeKeptIfNone
<1>2. ASSUME NEW u \in Units, NodeStep(u) \/ NodeRestart(u)
      PROVE  MadeInv'
  BY <1>2, SetupMade, NodeMakesNone, MadeKeptIfNone
<1>3. CASE UnitManagerEnds
  <2>1. /\ up' = FALSE /\ registered' = {} /\ epoch < MaxRestarts
        /\ UNCHANGED <<epoch, ids, node, owner>>
    BY <1>3, Zenon DEF UnitManagerEnds
  <2>2. QED
    BY <2>1 DEF MadeInv, Made
<1>4. CASE UnitManagerStarts
  <2>1. up' = TRUE /\ epoch' = epoch + 1 /\ UNCHANGED <<node, owner>>
    BY <1>4, Zenon DEF UnitManagerStarts
  <2>2. epoch \in Nat
    BY GatewayAssumption DEF TypeOK, Epochs
  <2>3. /\ \A v \in Units, n \in Ids : node[v].tasks[n] # NoEpoch => node[v].tasks[n] \in Nat
        /\ \A v \in Units, n \in Ids : node[v].map[n] # NoEpoch => node[v].map[n] \in Nat
        /\ \A s \in Sid : s[1] \in Nat
    BY NodeTypes, GatewayAssumption DEF Epochs, Sid
  <2>4. \A s : s[1] \in Nat /\ Made(s) => s[1] < epoch'
    BY <2>1, <2>2 DEF Made
  <2>5. QED
    BY <2>1, <2>3, <2>4 DEF MadeInv, Made
<1>5. CASE UNCHANGED vars
  <2>1. UNCHANGED <<up, epoch, ids, registered, node, owner>>
    BY <1>5, Zenon DEF vars, umVars
  <2>2. QED
    BY <2>1 DEF MadeInv, Made
<1>6. QED
  BY <1>1, <1>2, <1>3, <1>4, <1>5 DEF Next

LEMMA GatewayInit == ASSUME Init PROVE GatewayInv
<1>1. TypeOK
  <2>1. FreshNode \in Node
    BY NewNode
  <2>2. NoConn \in [com : Nat, epoch : Epochs] /\ 0 \in Epochs
    BY GatewayAssumption DEF NoConn, NoCom, Epochs
  <2>3. \A r \in Requests : 1 \in DOMAIN Stages[r]
    BY GatewayAssumption
  <2>4. <<>> \in Seq(AnyLine) /\ 0 \in 0..MaxIds
    BY GatewayAssumption
  <2>5. QED
    BY <2>1, <2>2, <2>3, <2>4 DEF Init, TypeOK, NoId
<1>2. StageInv
  BY DEF Init, StageInv
<1>3. ConnInv
  BY DEF Init, ConnInv, NoConn, NoCom
<1>4. MadeInv
  <2>1. FreshNode \in {DeadNode, FreshNode}
    OBVIOUS
  <2>2. QED
    BY <2>1, NewNode DEF Init, MadeInv
<1>5. QED
  BY <1>1, <1>2, <1>3, <1>4 DEF GatewayInv

LEMMA GatewayKept == ASSUME GatewayInv, [Next]_vars PROVE GatewayInv'
<1>1. TypeOK /\ StageInv /\ ConnInv /\ MadeInv
  BY DEF GatewayInv
<1>2. TypeOK'
  <2>1. CASE UNCHANGED vars
    <3>1. UNCHANGED <<up, epoch, coms, ids, registered, pc, stage, good, conn, inbox, work,
                      asked, node, owner, lapses>>
      BY <2>1, Zenon DEF vars, umVars, userVars
    <3>2. QED
      BY <1>1, <3>1 DEF TypeOK
  <2>2. QED
    BY <1>1, <2>1, RequestTyped, NodeTypedStep, UnitManagerTyped DEF Next
<1>3. QED
  BY <1>1, <1>2, StageKept, ConnKept, MadeKept DEF GatewayInv

(* Each value keeps its type: the answers that the event thread sends are   *)
(* about registered numbers, lines kept in a channel are the worker's, and  *)
(* a request's stage is one of its units, whatever the nodes answer.        *)
THEOREM TypeCorrect == Spec => []TypeOK
<1>1. Init => GatewayInv
  BY GatewayInit
<1>2. GatewayInv /\ [Next]_vars => GatewayInv'
  BY GatewayKept
<1>3. GatewayInv => TypeOK
  BY DEF GatewayInv
<1>4. QED
  BY <1>1, <1>2, <1>3, PTL DEF Spec

------------------------------------------------------------------------------
(* The first epoch: every line is its reader's own.                         *)

LEMMA FirstSessions ==
    ASSUME TypeOK, MadeInv, epoch = 0
    PROVE  /\ \A u \in Units, n \in Ids :
                 /\ node[u].tasks[n] # NoEpoch => node[u].tasks[n] = 0 /\ n \in 1..ids
                 /\ node[u].map[n] # NoEpoch => node[u].map[n] = 0 /\ n \in 1..ids
           /\ \A u \in Units, s \in Sid :
                 node[u].channel[s] # NoChannel =>
                     s[1] = 0 /\ s[2] \in 1..ids /\ s = <<0, s[2]>>
<1>1. ASSUME NEW s \in Sid, Made(s)
      PROVE  s[1] = 0 /\ s[2] \in 1..ids /\ s = <<0, s[2]>>
  <2>1. s[1] \in Nat /\ s[2] \in Nat /\ s[2] >= 1 /\ s = <<s[1], s[2]>>
    BY GatewayAssumption DEF Sid, Ids, Epochs
  <2>2. s[1] = 0 /\ s[2] <= ids
    BY <1>1, <2>1 DEF Made
  <2>3. ids \in Nat
    BY GatewayAssumption DEF TypeOK
  <2>4. QED
    BY <2>1, <2>2, <2>3
<1>2. ASSUME NEW u \in Units, NEW n \in Ids, node[u].tasks[n] # NoEpoch
      PROVE  node[u].tasks[n] = 0 /\ n \in 1..ids
  <2>1. <<node[u].tasks[n], n>> \in Sid /\ Made(<<node[u].tasks[n], n>>)
    BY <1>2, NodeTypes DEF Sid, MadeInv
  <2>2. QED
    BY <1>1, <2>1
<1>3. ASSUME NEW u \in Units, NEW n \in Ids, node[u].map[n] # NoEpoch
      PROVE  node[u].map[n] = 0 /\ n \in 1..ids
  <2>1. <<node[u].map[n], n>> \in Sid /\ Made(<<node[u].map[n], n>>)
    BY <1>3, NodeTypes DEF Sid, MadeInv
  <2>2. QED
    BY <1>1, <2>1
<1>4. QED
  BY <1>1, <1>2, <1>3 DEF MadeInv

(* A question keeps the request that asked it.                              *)
AskedStays ==
    \A r \in Requests, n \in Ids : Asked(r, n) => n \in 1..ids' /\ owner'[<<0, n>>] = r

OwnerStays ==
    \A s \in Sid : owner'[s] = owner[s] \/ \A v \in Units : node[v].channel[s] = NoChannel

LEMMA OwnUnitKept ==
    ASSUME TypeOK, NEW v \in Units, OwnUnit(v), node'[v] = node[v], AskedStays, OwnerStays
    PROVE  OwnUnit(v)'
<1>1. /\ \A e \in Event : Queued(v, e) /\ e.kind = "exit" => e.req \in Requests /\ e.id \in Ids
      /\ node[v].ev # NoAnswer => node[v].ev.line.for \in Requests /\ node[v].ev.line.id \in Ids
      /\ \A j \in Job : j.req \in Requests /\ j.sid[2] \in Ids
  <2>1. \A e \in Event : e.kind = "exit" => e.req \in Requests /\ e.id \in Ids
    BY DEF Event
  <2>2. node[v].ev # NoAnswer => node[v].ev \in AnyAnswer
    BY NodeTypes
  <2>3. node[v].ev # NoAnswer => node[v].ev.line.for \in Requests /\ node[v].ev.line.id \in Ids
    BY <2>2 DEF AnyAnswer, Line
  <2>4. \A j \in Job : j.req \in Requests /\ j.sid[2] \in Ids
    BY DEF Job, Sid
  <2>5. QED
    BY <2>1, <2>3, <2>4
<1>2. \A e \in Event : Queued(v, e)' /\ e.kind = "exit" => Asked(e.req, e.id)'
  BY <1>1 DEF OwnUnit, Queued, AskedStays, Asked
<1>3. node'[v].ev # NoAnswer =>
          /\ Asked(node[v].ev.line.for, node[v].ev.line.id)
          /\ node[v].ev.release => node[v].tasks[node[v].ev.line.id] = NoEpoch
          /\ node[v].ev.release <=> node[v].ev.line.kind \in {"full", "exit"}
  BY DEF OwnUnit
<1>4. \A s \in Sid : \A l \in WorkerLine :
          In(node'[v].channel[s].held, l) => l.for = owner'[s] /\ l.id = s[2]
  <2>1. \A l : ~In(NoChannel.held, l)
    BY DEF In, NoChannel
  <2>2. QED
    BY <2>1 DEF OwnUnit, OwnerStays
<1>5. \A j \in Job : Working(v, j)' => j.sid[1] = 0 /\ Asked(j.req, j.sid[2])'
  BY <1>1 DEF OwnUnit, Working, AskedStays, Asked
<1>6. \A n \in Ids : node'[v].tasks[n] # NoEpoch => node'[v].map[n] = node'[v].tasks[n]
  BY DEF OwnUnit
<1>7. QED
  BY <1>1, <1>2, <1>3, <1>4, <1>5, <1>6 DEF OwnUnit, AskedStays, Asked

(* What a step of node u adds: nothing that another request could read.     *)
LEMMA OwnNodeStep ==
    ASSUME TypeOK, OwnInv, NEW u \in Units, SameBut(u), UNCHANGED <<conn, coms, work>>,
           AskedStays, OwnerStays,
           \A e \in Event : In(node'[u].events, e) => Queued(u, e),
           node'[u].ev # NoAnswer =>
               \/ node'[u].ev = node[u].ev
               \/ \E e \in Event : /\ Queued(u, e) /\ e.to = node'[u].ev.to
                                   /\ e.req = node'[u].ev.line.for,
           \A s \in Sid :
               \/ node'[u].channel[s].url = NoCom
               \/ node'[u].channel[s].url = node[u].channel[s].url /\ owner'[s] = owner[s]
               \/ \E e \in Event : /\ Queued(u, e) /\ e.to = node'[u].channel[s].url
                                   /\ e.req = owner'[s],
           OwnUnit(u)',
           \A q \in Requests, l \in AnyLine :
               In(inbox'[q], l) => Received(q, l) \/ (l.for = q /\ Asked(q, l.id))
    PROVE  OwnInv'
<1>1. ASSUME NEW q \in Requests, NEW com \in Com, Claims(q, com)'
      PROVE  Claims(q, com)
  <2>1. CASE conn'[q].com = com
    BY <2>1 DEF Claims
  <2>2. CASE \E v \in Units, e \in Event : Queued(v, e)' /\ e.to = com /\ e.req = q
    <3>1. PICK v \in Units, e \in Event : In(node'[v].events, e) /\ e.to = com /\ e.req = q
      BY <2>2 DEF Queued
    <3>2. Queued(v, e)
      BY <3>1 DEF SameBut, Queued
    <3>3. QED
      BY <3>1, <3>2 DEF Claims
  <2>3. CASE \E v \in Units : node'[v].ev # NoAnswer /\ node'[v].ev.to = com
                              /\ node'[v].ev.line.for = q
    <3>1. PICK v \in Units : node'[v].ev # NoAnswer /\ node'[v].ev.to = com
                             /\ node'[v].ev.line.for = q
      BY <2>3
    <3>2. CASE node'[v].ev = node[v].ev
      BY <3>1, <3>2 DEF Claims
    <3>3. CASE \E e \in Event : /\ Queued(v, e) /\ e.to = node'[v].ev.to
                                /\ e.req = node'[v].ev.line.for
      BY <3>1, <3>3 DEF Claims
    <3>4. QED
      BY <3>1, <3>2, <3>3 DEF SameBut
  <2>4. CASE \E v \in Units, s \in Sid : node'[v].channel[s].url = com /\ owner'[s] = q
    <3>1. PICK v \in Units, s \in Sid : node'[v].channel[s].url = com /\ owner'[s] = q
      BY <2>4
    <3>2. com # NoCom /\ NoChannel.url = NoCom
      BY DEF Com, NoChannel
    <3>3. CASE node[v].channel[s].url = com /\ owner[s] = q
      BY <3>3 DEF Claims
    <3>4. CASE \E e \in Event : Queued(v, e) /\ e.to = com /\ e.req = q
      BY <3>4 DEF Claims
    <3>5. CASE v # u
      BY <3>1, <3>2, <3>3, <3>5 DEF SameBut, OwnerStays
    <3>6. CASE v = u
      BY <3>1, <3>2, <3>3, <3>4, <3>6
    <3>7. QED
      BY <3>5, <3>6
  <2>5. QED
    BY <1>1, <2>1, <2>2, <2>3, <2>4 DEF Claims
<1>2. /\ \A r, q \in Requests, com \in Com : Claims(r, com)' /\ Claims(q, com)' => r = q
      /\ \A r \in Requests, com \in Com : Claims(r, com)' => com <= coms'
  BY <1>1 DEF OwnInv
<1>3. ASSUME NEW r \in Requests
      PROVE  /\ work'[r] # NoId => Asked(r, work'[r])
             /\ work'[r] \in Ids \cup {NoId}
             /\ \A l \in AnyLine : In(inbox'[r], l) => l.for = r /\ Asked(r, l.id) /\ l.id \in Ids
  <2>1. \A l \in AnyLine : l.id \in Ids
    BY DEF AnyLine, Line
  <2>2. QED
    BY <2>1 DEF OwnInv, TypeOK
<1>4. \A r \in Requests :
          /\ work'[r] # NoId => Asked(r, work[r])'
          /\ \A l \in AnyLine : Received(r, l)' => l.for = r /\ Asked(r, l.id)'
  BY <1>3 DEF AskedStays, Asked, Received
<1>5. \A v \in Units : OwnUnit(v)'
  BY OwnUnitKept DEF OwnInv, SameBut
<1>6. QED
  BY <1>2, <1>4, <1>5 DEF OwnInv

LEMMA UnchangedStays ==
    ASSUME UNCHANGED <<ids, owner>>
    PROVE  AskedStays /\ OwnerStays
  BY DEF AskedStays, OwnerStays, Asked

LEMMA InEmpty == \A x : ~In(<<>>, x)
  BY DEF In

LEMMA OwnRenewed ==
    ASSUME TypeOK, OwnInv, NEW u \in Units, Renewed(u),
           UNCHANGED <<umVars, userVars, owner, lapses>>
    PROVE  OwnInv'
<1>1. /\ UNCHANGED <<up, epoch, coms, ids, registered, pc, stage, conn, inbox, work, owner,
                     lapses>>
      /\ SameBut(u) /\ node'[u].events = <<>> /\ node'[u].ev = NoAnswer
      /\ node'[u].jobs = <<>> /\ node'[u].worker = NoJob
      /\ \A n \in Ids : node'[u].tasks[n] = NoEpoch /\ node'[u].map[n] = NoEpoch
      /\ \A s \in Sid : node'[u].channel[s] = NoChannel
  BY RenewedNode
<1>2. AskedStays /\ OwnerStays
  BY <1>1, UnchangedStays
<1>3. NoJob \notin Job
  BY DEF NoJob, Job
<1>4. NoChannel.held = <<>> /\ NoChannel.url = NoCom
  BY DEF NoChannel
<1>5. OwnUnit(u)'
  BY <1>1, <1>3, <1>4, InEmpty DEF OwnUnit, Queued, Working
<1>6. \A q \in Requests, l \in AnyLine : In(inbox'[q], l) => Received(q, l)
  BY <1>1 DEF Received
<1>7. QED
  BY <1>1, <1>2, <1>4, <1>5, <1>6, InEmpty, OwnNodeStep

(* What is left of the queue.                                               *)
LEMMA TailQueued ==
    ASSUME TypeOK, NEW u \in Units, node[u].events # <<>>
    PROVE  \A e : In(Tail(node[u].events), e) => Queued(u, e)
<1>1. node[u].events \in Seq(Event)
  BY NodeTypes
<1>2. QED
  BY <1>1, TakingFirst DEF Queued

LEMMA OwnExit ==
    ASSUME TypeOK, MadeInv, OwnInv, epoch = 0, NEW u \in Units, Exit(u)
    PROVE  OwnInv'
<1> DEFINE event == Head(node[u].events)
           n     == event.id
<1>1. /\ n \in Ids /\ event \in Event /\ event.req \in Requests /\ event.to \in Nat
      /\ event.kind = "exit" /\ Queued(u, event) /\ node[u].events # <<>>
      /\ node[u].ev = NoAnswer
      /\ UNCHANGED <<up, epoch, coms, ids, registered, pc, stage, conn, inbox, work, owner,
                     lapses>>
      /\ \/ ExitsNothing(u) \/ ExitsTask(u)
         \/ node[u].tasks[n] # NoEpoch /\ node[u].map[n] = NoEpoch /\ Renewed(u)
  BY ExitNode
<1>2. AskedStays /\ OwnerStays
  BY <1>1, UnchangedStays
<1>3. Asked(event.req, n)
  BY <1>1 DEF OwnInv, OwnUnit
<1>4. \A e : In(Tail(node[u].events), e) => Queued(u, e)
  BY <1>1, TailQueued
<1>5. \A q \in Requests, l \in AnyLine : In(inbox'[q], l) => Received(q, l)
  BY <1>1 DEF Received
<1>6. OwnUnit(u)
  BY DEF OwnInv
<1>7. NoChannel.held = <<>> /\ NoChannel.url = NoCom
  BY DEF NoChannel
<1>8. node[u].map[n] # NoEpoch => owner[<<node[u].map[n], n>>] = event.req
  BY <1>1, <1>3, FirstSessions DEF Asked
<1> HIDE DEF event
<1>9. ASSUME ExitsNothing(u)
      PROVE  OwnInv'
  <2>1. /\ SameBut(u) /\ node'[u].events = Tail(node[u].events)
        /\ node'[u].ev = Answering(event, "unknown", u, n, FALSE)
        /\ node'[u].tasks = node[u].tasks /\ node'[u].map = node[u].map
        /\ \A s \in Sid : /\ node'[u].channel[s].held = node[u].channel[s].held
                          /\ \/ node'[u].channel[s] = node[u].channel[s]
                             \/ /\ node[u].map[n] # NoEpoch /\ s = <<node[u].map[n], n>>
                                /\ node[u].channel[s].held = <<>>
                                /\ node'[u].channel[s].url = event.to
        /\ node'[u].jobs = node[u].jobs /\ node'[u].worker = node[u].worker
    BY <1>9 DEF ExitsNothing, event
  <2>2. /\ node'[u].ev.to = event.to /\ node'[u].ev.line.for = event.req
        /\ node'[u].ev.line.id = n /\ node'[u].ev.line.kind = "unknown"
        /\ node'[u].ev.release = FALSE
    BY <2>1 DEF Answering, LineFor
  <2>3. OwnUnit(u)'
    <3>1. \A e \in Event : In(node'[u].events, e) /\ e.kind = "exit" => Asked(e.req, e.id)
      BY <1>4, <1>6, <2>1 DEF OwnUnit
    <3>2. \A s \in Sid : \A l \in WorkerLine :
              In(node'[u].channel[s].held, l) => l.for = owner[s] /\ l.id = s[2]
      BY <1>6, <2>1 DEF OwnUnit
    <3>3. \A j \in Job : In(node'[u].jobs, j) \/ node'[u].worker = j =>
              j.sid[1] = 0 /\ Asked(j.req, j.sid[2])
      BY <1>6, <2>1 DEF OwnUnit, Working
    <3>4. \A m \in Ids : node'[u].tasks[m] # NoEpoch => node'[u].map[m] = node'[u].tasks[m]
      BY <1>6, <2>1 DEF OwnUnit
    <3>5. QED
      BY <1>1, <1>3, <2>2, <3>1, <3>2, <3>3, <3>4 DEF OwnUnit, Queued, Working, Asked
  <2>4. \A s \in Sid :
            \/ node'[u].channel[s].url = node[u].channel[s].url /\ owner'[s] = owner[s]
            \/ \E e \in Event : /\ Queued(u, e) /\ e.to = node'[u].channel[s].url
                                /\ e.req = owner'[s]
    BY <1>1, <1>8, <2>1
  <2>5. \E e \in Event : /\ Queued(u, e) /\ e.to = node'[u].ev.to
                         /\ e.req = node'[u].ev.line.for
    BY <1>1, <2>2
  <2>6. QED
    BY <1>1, <1>2, <1>4, <1>5, <2>1, <2>3, <2>4, <2>5, OwnNodeStep
<1>10. ASSUME ExitsTask(u)
       PROVE  OwnInv'
  <2>1. /\ SameBut(u) /\ node'[u].events = Tail(node[u].events)
        /\ node'[u].ev = Answering(event, "exit", u, n, TRUE)
        /\ node'[u].tasks[n] = NoEpoch
        /\ \A m \in Ids \ {n} : node'[u].tasks[m] = node[u].tasks[m]
        /\ node'[u].map = node[u].map
        /\ \A s \in Sid : \/ node'[u].channel[s] = node[u].channel[s]
                          \/ s = <<node[u].map[n], n>> /\ node'[u].channel[s] = NoChannel
        /\ node'[u].jobs = node[u].jobs /\ node'[u].worker = node[u].worker
    BY <1>10 DEF ExitsTask, event
  <2>2. /\ node'[u].ev.to = event.to /\ node'[u].ev.line.for = event.req
        /\ node'[u].ev.line.id = n /\ node'[u].ev.line.kind = "exit"
        /\ node'[u].ev.release = TRUE
    BY <2>1 DEF Answering, LineFor
  <2>3. OwnUnit(u)'
    <3>1. \A e \in Event : In(node'[u].events, e) /\ e.kind = "exit" => Asked(e.req, e.id)
      BY <1>4, <1>6, <2>1 DEF OwnUnit
    <3>2. \A s \in Sid : \A l \in WorkerLine :
              In(node'[u].channel[s].held, l) => l.for = owner[s] /\ l.id = s[2]
      BY <1>6, <1>7, <2>1, InEmpty DEF OwnUnit
    <3>3. \A j \in Job : In(node'[u].jobs, j) \/ node'[u].worker = j =>
              j.sid[1] = 0 /\ Asked(j.req, j.sid[2])
      BY <1>6, <2>1 DEF OwnUnit, Working
    <3>4. \A m \in Ids : node'[u].tasks[m] # NoEpoch => node'[u].map[m] = node'[u].tasks[m]
      BY <1>6, <2>1 DEF OwnUnit
    <3>5. QED
      BY <1>1, <1>3, <2>1, <2>2, <3>1, <3>2, <3>3, <3>4 DEF OwnUnit, Queued, Working, Asked
  <2>4. \A s \in Sid :
            \/ node'[u].channel[s].url = NoCom
            \/ node'[u].channel[s].url = node[u].channel[s].url /\ owner'[s] = owner[s]
    BY <1>1, <1>7, <2>1
  <2>5. \E e \in Event : /\ Queued(u, e) /\ e.to = node'[u].ev.to
                         /\ e.req = node'[u].ev.line.for
    BY <1>1, <2>2
  <2>6. QED
    BY <1>1, <1>2, <1>4, <1>5, <2>1, <2>3, <2>4, <2>5, OwnNodeStep
<1>11. ASSUME Renewed(u)
       PROVE  OwnInv'
  <2>1. UNCHANGED <<umVars, userVars, owner, lapses>>
    BY Zenon DEF Exit
  <2>2. QED
    BY <1>11, <2>1, OwnRenewed
<1>12. QED
  BY <1>1, <1>9, <1>10, <1>11

(* Who reads a connection's lines.                                          *)
LEMMA ReaderClaims ==
    ASSUME TypeOK, NEW com, NEW q \in Readers(com)
    PROVE  q \in Requests /\ com \in Com /\ conn[q].com = com /\ Claims(q, com) /\ up
<1>1. q \in Requests /\ Connected(q) /\ conn[q].com = com
  BY DEF Readers
<1>2. conn[q].com \in Nat /\ conn[q].com # NoCom /\ up
  BY <1>1 DEF TypeOK, Connected
<1>3. QED
  BY <1>1, <1>2 DEF Com, Claims

LEMMA OwnAnswer ==
    ASSUME TypeOK, MadeInv, OwnInv, epoch = 0, NEW u \in Units, Answer(u)
    PROVE  OwnInv'
<1> DEFINE e == node[u].ev
           n == e.line.id
<1>1. /\ e # NoAnswer /\ e \in AnyAnswer /\ e.line \in AnyLine /\ n \in Ids
      /\ e.to \in Nat /\ Readers(e.to) # {} /\ Arrive(e.to, <<e.line>>)
      /\ <<e.line>> \in Seq(AnyLine)
      /\ UNCHANGED <<up, epoch, coms, ids, pc, stage, conn, work, owner, lapses>>
      /\ SameBut(u) /\ node'[u].alive = node[u].alive
      /\ node'[u].events = node[u].events /\ node'[u].ev = NoAnswer
      /\ node'[u].tasks = node[u].tasks
      /\ node'[u].map[n] = (IF e.release THEN NoEpoch ELSE node[u].map[n])
      /\ \A m \in Ids \ {n} : node'[u].map[m] = node[u].map[m]
      /\ \A s \in Sid : \/ node'[u].channel[s] = node[u].channel[s]
                        \/ /\ e.release /\ s = <<node[u].map[n], n>>
                           /\ node'[u].channel[s] = NoChannel
      /\ node'[u].jobs = node[u].jobs /\ node'[u].worker = node[u].worker
  BY AnswerNode
<1>2. AskedStays /\ OwnerStays
  BY <1>1, UnchangedStays
<1>3. OwnUnit(u)
  BY DEF OwnInv
<1>4. Asked(e.line.for, n) /\ (e.release => node[u].tasks[n] = NoEpoch)
  BY <1>1, <1>3 DEF OwnUnit
<1>5. e.line.for \in Requests
  BY <1>1 DEF AnyLine, Line
<1>6. NoChannel.held = <<>> /\ NoChannel.url = NoCom
  BY DEF NoChannel
<1> HIDE DEF e, n
<1>7. ASSUME NEW q \in Requests, NEW l \in AnyLine, In(inbox'[q], l)
      PROVE  Received(q, l) \/ (l.for = q /\ Asked(q, l.id))
  <2>1. CASE q \in Readers(e.to)
    <3>1. inbox'[q] = inbox[q] \o <<e.line>>
      BY <1>1, <2>1, ArriveEffect
    <3>2. inbox[q] \in Seq(AnyLine)
      BY DEF TypeOK
    <3>3. In(inbox[q], l) \/ In(<<e.line>>, l)
      <4> DEFINE t == <<e.line>>
      <4>1. t \in Seq(AnyLine) /\ In(inbox[q] \o t, l)
        BY <1>1, <1>7, <3>1
      <4> HIDE DEF t
      <4>2. In(inbox[q], l) \/ In(t, l)
        BY <3>2, <4>1, Concatenating
      <4>3. QED
        BY <4>2 DEF t
    <3>4. In(<<e.line>>, l) => l = e.line
      BY DEF In
    <3>5. Claims(q, e.to) /\ e.to \in Com
      BY <2>1, ReaderClaims
    <3>6. Claims(e.line.for, e.to)
      BY <1>1 DEF Claims, e
    <3>7. e.line.for = q
      BY <1>5, <3>5, <3>6 DEF OwnInv
    <3>8. QED
      BY <1>4, <3>3, <3>4, <3>7 DEF Received, n
  <2>2. CASE q \notin Readers(e.to)
    BY <1>1, <1>7, <2>2, ArriveEffect DEF Received
  <2>3. QED
    BY <2>1, <2>2
<1>8. OwnUnit(u)'
  <2>1. \A k \in Event : In(node'[u].events, k) /\ k.kind = "exit" => Asked(k.req, k.id)
    BY <1>1, <1>3 DEF OwnUnit, Queued
  <2>2. \A s \in Sid : \A l \in WorkerLine :
            In(node'[u].channel[s].held, l) => l.for = owner[s] /\ l.id = s[2]
    BY <1>1, <1>3, <1>6, InEmpty DEF OwnUnit
  <2>3. \A j \in Job : In(node'[u].jobs, j) \/ node'[u].worker = j =>
            j.sid[1] = 0 /\ Asked(j.req, j.sid[2])
    BY <1>1, <1>3 DEF OwnUnit, Working
  <2>4. \A m \in Ids : node'[u].tasks[m] # NoEpoch => node'[u].map[m] = node'[u].tasks[m]
    BY <1>1, <1>3, <1>4 DEF OwnUnit
  <2>5. QED
    BY <1>1, <2>1, <2>2, <2>3, <2>4 DEF OwnUnit, Queued, Working, Asked
<1>9. \A s \in Sid :
          \/ node'[u].channel[s].url = NoCom
          \/ node'[u].channel[s].url = node[u].channel[s].url /\ owner'[s] = owner[s]
  BY <1>1, <1>6
<1>10. \A k \in Event : In(node'[u].events, k) => Queued(u, k)
  BY <1>1 DEF Queued
<1>11. QED
  BY <1>1, <1>2, <1>7, <1>8, <1>9, <1>10, OwnNodeStep

LEMMA OwnWorkerTake ==
    ASSUME TypeOK, MadeInv, OwnInv, epoch = 0, NEW u \in Units, WorkerTake(u)
    PROVE  OwnInv'
<1>1. /\ node[u].worker = NoJob /\ node[u].jobs # <<>>
      /\ UNCHANGED <<up, epoch, coms, ids, registered, pc, stage, conn, inbox, work,
                     owner, lapses>>
      /\ SameBut(u) /\ node'[u].events = node[u].events /\ node'[u].ev = node[u].ev
      /\ node'[u].tasks = node[u].tasks /\ node'[u].map = node[u].map
      /\ node'[u].channel = node[u].channel
      /\ node'[u].jobs = Tail(node[u].jobs)
      /\ node'[u].worker \in {Head(node[u].jobs), NoJob}
  BY WorkerTakeNode
<1>2. AskedStays /\ OwnerStays
  BY <1>1, UnchangedStays
<1>3. OwnUnit(u)
  BY DEF OwnInv
<1>4. NoJob \notin Job
  BY DEF NoJob, Job
<1>5. \A j \in Job : In(node'[u].jobs, j) \/ node'[u].worker = j => Working(u, j)
  <2>1. node[u].jobs \in Seq(Job)
    BY NodeTypes
  <2>2. QED
    BY <1>1, <1>4, <2>1, TakingFirst DEF Working
<1>6. OwnUnit(u)'
  <2>1. \A k \in Event : In(node'[u].events, k) /\ k.kind = "exit" => Asked(k.req, k.id)
    BY <1>1, <1>3 DEF OwnUnit, Queued
  <2>2. \A j \in Job : In(node'[u].jobs, j) \/ node'[u].worker = j =>
            j.sid[1] = 0 /\ Asked(j.req, j.sid[2])
    BY <1>3, <1>5 DEF OwnUnit
  <2>3. /\ \A s \in Sid : \A l \in WorkerLine :
              In(node[u].channel[s].held, l) => l.for = owner[s] /\ l.id = s[2]
        /\ node[u].ev # NoAnswer =>
              /\ Asked(node[u].ev.line.for, node[u].ev.line.id)
              /\ node[u].ev.release => node[u].tasks[node[u].ev.line.id] = NoEpoch
              /\ node[u].ev.release <=> node[u].ev.line.kind \in {"full", "exit"}
        /\ \A n \in Ids : node[u].tasks[n] # NoEpoch => node[u].map[n] = node[u].tasks[n]
    BY <1>3 DEF OwnUnit
  <2>4. QED
    BY <1>1, <2>1, <2>2, <2>3 DEF OwnUnit, Queued, Working, Asked
<1>7. \A q \in Requests, l \in AnyLine : In(inbox'[q], l) => Received(q, l)
  BY <1>1 DEF Received
<1>8. \A k \in Event : In(node'[u].events, k) => Queued(u, k)
  BY <1>1 DEF Queued
<1>9. \A s \in Sid :
          node'[u].channel[s].url = node[u].channel[s].url /\ owner'[s] = owner[s]
  BY <1>1
<1>10. QED
  BY <1>1, <1>2, <1>6, <1>7, <1>8, <1>9, OwnNodeStep

LEMMA OwnDeliver ==
    ASSUME TypeOK, MadeInv, OwnInv, epoch = 0, NEW u \in Units, NEW s \in Sid, Deliver(u, s)
    PROVE  OwnInv'
<1> DEFINE c == node[u].channel[s]
<1>1. /\ c # NoChannel /\ Arrive(c.url, c.held) /\ c.held \in Seq(WorkerLine)
      /\ c.held \in Seq(AnyLine)
      /\ UNCHANGED <<up, epoch, coms, ids, registered, pc, stage, conn, work, owner, lapses>>
      /\ SameBut(u) /\ node'[u].events = node[u].events /\ node'[u].ev = node[u].ev
      /\ node'[u].tasks = node[u].tasks /\ node'[u].map = node[u].map
      /\ node'[u].channel[s].url = c.url /\ node'[u].channel[s].held = <<>>
      /\ \A x \in Sid \ {s} : node'[u].channel[x] = node[u].channel[x]
      /\ node'[u].jobs = node[u].jobs /\ node'[u].worker = node[u].worker
  BY DeliverNode
<1>2. AskedStays /\ OwnerStays
  BY <1>1, UnchangedStays
<1>3. OwnUnit(u)
  BY DEF OwnInv
<1>4. s[1] = 0 /\ s[2] \in 1..ids /\ s = <<0, s[2]>>
  BY <1>1, FirstSessions
<1> HIDE DEF c
<1>5. ASSUME NEW q \in Requests, NEW l \in AnyLine, In(inbox'[q], l)
      PROVE  Received(q, l) \/ (l.for = q /\ Asked(q, l.id))
  <2>1. CASE q \in Readers(c.url)
    <3>1. inbox'[q] = inbox[q] \o c.held
      BY <1>1, <2>1, ArriveEffect
    <3>2. inbox[q] \in Seq(AnyLine)
      BY DEF TypeOK
    <3>3. In(inbox[q], l) \/ In(c.held, l)
      BY <1>1, <1>5, <3>1, <3>2, Concatenating
    <3>4. ASSUME In(c.held, l)
          PROVE  l.for = q /\ Asked(q, l.id)
      <4>1. l \in WorkerLine
        BY <1>1, <3>4, InType
      <4>2. l.for = owner[s] /\ l.id = s[2]
        BY <1>3, <3>4, <4>1 DEF OwnUnit, c
      <4>3. l.for \in Requests
        BY <4>1 DEF WorkerLine, Line
      <4>4. Claims(q, c.url) /\ c.url \in Com
        BY <2>1, ReaderClaims
      <4>5. Claims(l.for, c.url)
        BY <4>2 DEF Claims, c
      <4>6. l.for = q
        BY <4>3, <4>4, <4>5 DEF OwnInv
      <4>7. QED
        BY <1>4, <4>2, <4>6 DEF Asked
    <3>5. QED
      BY <3>3, <3>4 DEF Received
  <2>2. CASE q \notin Readers(c.url)
    BY <1>1, <1>5, <2>2, ArriveEffect DEF Received
  <2>3. QED
    BY <2>1, <2>2
<1>6. OwnUnit(u)'
  <2>1. \A k \in Event : In(node'[u].events, k) /\ k.kind = "exit" => Asked(k.req, k.id)
    BY <1>1, <1>3 DEF OwnUnit, Queued
  <2>2. \A j \in Job : In(node'[u].jobs, j) \/ node'[u].worker = j =>
            j.sid[1] = 0 /\ Asked(j.req, j.sid[2])
    BY <1>1, <1>3 DEF OwnUnit, Working
  <2>3. /\ node[u].ev # NoAnswer =>
              /\ Asked(node[u].ev.line.for, node[u].ev.line.id)
              /\ node[u].ev.release => node[u].tasks[node[u].ev.line.id] = NoEpoch
              /\ node[u].ev.release <=> node[u].ev.line.kind \in {"full", "exit"}
        /\ \A n \in Ids : node[u].tasks[n] # NoEpoch => node[u].map[n] = node[u].tasks[n]
    BY <1>3 DEF OwnUnit
  <2>4. \A x \in Sid : \A l \in WorkerLine :
            In(node'[u].channel[x].held, l) => l.for = owner[x] /\ l.id = x[2]
    BY <1>1, <1>3, InEmpty DEF OwnUnit
  <2>5. QED
    BY <1>1, <2>1, <2>2, <2>3, <2>4 DEF OwnUnit, Queued, Working, Asked
<1>7. \A k \in Event : In(node'[u].events, k) => Queued(u, k)
  BY <1>1 DEF Queued
<1>8. \A x \in Sid :
          node'[u].channel[x].url = node[u].channel[x].url /\ owner'[x] = owner[x]
  BY <1>1 DEF c
<1>9. QED
  BY <1>1, <1>2, <1>5, <1>6, <1>7, <1>8, OwnNodeStep

LEMMA SidPair ==
    \A s \in Sid : s = <<s[1], s[2]>> /\ s[1] \in Epochs /\ s[2] \in Ids
  BY DEF Sid

LEMMA OwnWorkerSend ==
    ASSUME TypeOK, MadeInv, OwnInv, epoch = 0, NEW u \in Units, WorkerSend(u)
    PROVE  OwnInv'
<1> DEFINE j == node[u].worker
           s == j.sid
           c == node[u].channel[s]
           l0 == WorkerLineOf(u)
<1>1. /\ j # NoJob /\ s \in Sid
      /\ UNCHANGED <<up, epoch, coms, ids, registered, pc, stage, conn, work, owner, lapses>>
      /\ \/ c = NoChannel /\ Renewed(u) /\ inbox' = inbox
         \/ /\ c # NoChannel /\ Arrive(c.url, <<l0>>)
            /\ WorkerNode(u) /\ node'[u].channel = node[u].channel
         \/ /\ inbox' = inbox /\ WorkerNode(u)
            /\ node'[u].channel[s].url = c.url
            /\ node'[u].channel[s].held = Append(c.held, l0)
            /\ \A x \in Sid \ {s} : node'[u].channel[x] = node[u].channel[x]
  BY WorkerSendNode
<1>2. /\ j \in Job /\ j.req \in Requests /\ l0 \in WorkerLine /\ l0 \in AnyLine
      /\ l0.for = j.req /\ l0.id = s[2]
      /\ JobLeft(u) \in Job \cup {NoJob}
      /\ JobLeft(u) # NoJob => JobLeft(u).req = j.req /\ JobLeft(u).sid = s
  BY <1>1, WorkerTypes
<1>3. AskedStays /\ OwnerStays
  BY <1>1, UnchangedStays
<1>4. OwnUnit(u) /\ NoJob \notin Job
  BY DEF OwnInv, NoJob, Job
<1>5. s[1] = 0 /\ Asked(j.req, s[2])
  BY <1>2, <1>4 DEF OwnUnit, Working
<1>6. owner[s] = j.req
  <2>1. s = <<s[1], s[2]>>
    BY <1>1, SidPair
  <2>2. QED
    BY <1>5, <2>1 DEF Asked
<1> HIDE DEF c, l0
<1>7. ASSUME WorkerNode(u),
             \A x \in Sid : node'[u].channel[x].url = node[u].channel[x].url,
             \A x \in Sid, l \in WorkerLine :
                 In(node'[u].channel[x].held, l) =>
                     In(node[u].channel[x].held, l) \/ (x = s /\ l = l0),
             \A q \in Requests, l \in AnyLine :
                 In(inbox'[q], l) => Received(q, l) \/ (l.for = q /\ Asked(q, l.id))
      PROVE  OwnInv'
  <2>1. /\ SameBut(u) /\ node'[u].events = node[u].events /\ node'[u].ev = node[u].ev
        /\ node'[u].tasks = node[u].tasks /\ node'[u].map = node[u].map
        /\ node'[u].jobs = node[u].jobs /\ node'[u].worker = JobLeft(u)
    BY <1>7 DEF WorkerNode
  <2>2. OwnUnit(u)'
    <3>1. \A k \in Event : In(node'[u].events, k) /\ k.kind = "exit" => Asked(k.req, k.id)
      BY <1>4, <2>1 DEF OwnUnit, Queued
    <3>2. \A i \in Job : In(node'[u].jobs, i) \/ node'[u].worker = i =>
              i.sid[1] = 0 /\ Asked(i.req, i.sid[2])
      BY <1>2, <1>4, <1>5, <2>1 DEF OwnUnit, Working
    <3>3. /\ node[u].ev # NoAnswer =>
                /\ Asked(node[u].ev.line.for, node[u].ev.line.id)
                /\ node[u].ev.release => node[u].tasks[node[u].ev.line.id] = NoEpoch
                /\ node[u].ev.release <=> node[u].ev.line.kind \in {"full", "exit"}
          /\ \A n \in Ids : node[u].tasks[n] # NoEpoch => node[u].map[n] = node[u].tasks[n]
      BY <1>4 DEF OwnUnit
    <3>4. \A x \in Sid : \A l \in WorkerLine :
              In(node'[u].channel[x].held, l) => l.for = owner[x] /\ l.id = x[2]
      BY <1>2, <1>4, <1>6, <1>7 DEF OwnUnit
    <3>5. QED
      BY <1>1, <2>1, <3>1, <3>2, <3>3, <3>4, ZenonT(60) DEF OwnUnit, Queued, Working, Asked
  <2>3. \A k \in Event : In(node'[u].events, k) => Queued(u, k)
    BY <2>1 DEF Queued
  <2>4. \A x \in Sid :
            node'[u].channel[x].url = node[u].channel[x].url /\ owner'[x] = owner[x]
    BY <1>1, <1>7
  <2>5. QED
    BY <1>1, <1>3, <1>7, <2>1, <2>2, <2>3, <2>4, OwnNodeStep
<1>8. inbox' = inbox => \A q \in Requests, l \in AnyLine : In(inbox'[q], l) => Received(q, l)
  BY DEF Received
<1>9. CASE Renewed(u) /\ inbox' = inbox
  <2>1. UNCHANGED <<umVars, userVars, owner, lapses>>
    BY <1>9, Zenon DEF WorkerSend, userVars
  <2>2. QED
    BY <1>9, <2>1, OwnRenewed
<1>10. CASE /\ c # NoChannel /\ Arrive(c.url, <<l0>>)
            /\ WorkerNode(u) /\ node'[u].channel = node[u].channel
  <2>1. ASSUME NEW q \in Requests, NEW l \in AnyLine, In(inbox'[q], l)
        PROVE  Received(q, l) \/ (l.for = q /\ Asked(q, l.id))
    <3> DEFINE t == <<l0>>
    <3>1. t \in Seq(AnyLine) /\ \A x : In(t, x) => x = l0
      BY <1>2 DEF In
    <3>2. Arrive(c.url, t)
      BY <1>10
    <3> HIDE DEF t
    <3>3. CASE q \in Readers(c.url)
      <4>1. inbox'[q] = inbox[q] \o t
        BY <3>1, <3>2, <3>3, ArriveEffect
      <4>2. inbox[q] \in Seq(AnyLine)
        BY DEF TypeOK
      <4>3. In(inbox[q], l) \/ l = l0
        BY <2>1, <3>1, <4>1, <4>2, Concatenating
      <4>4. Claims(q, c.url) /\ c.url \in Com
        BY <3>3, ReaderClaims
      <4>5. Claims(j.req, c.url)
        BY <1>1, <1>6 DEF Claims, c
      <4>6. j.req = q
        BY <1>2, <4>4, <4>5 DEF OwnInv
      <4>7. QED
        BY <1>2, <1>5, <4>3, <4>6 DEF Received
    <3>4. CASE q \notin Readers(c.url)
      BY <2>1, <3>1, <3>2, <3>4, ArriveEffect DEF Received
    <3>5. QED
      BY <3>3, <3>4
  <2>2. QED
    BY <1>7, <1>10, <2>1
<1>11. CASE /\ inbox' = inbox /\ WorkerNode(u)
            /\ node'[u].channel[s].url = c.url
            /\ node'[u].channel[s].held = Append(c.held, l0)
            /\ \A x \in Sid \ {s} : node'[u].channel[x] = node[u].channel[x]
  <2>1. \A x \in Sid : node'[u].channel[x].url = node[u].channel[x].url
    BY <1>11 DEF c
  <2>2. c.held \in Seq(WorkerLine)
    BY <1>1, NodeTypes DEF Channel, c
  <2>3. \A l : In(Append(c.held, l0), l) => In(c.held, l) \/ l = l0
    BY <1>2, <2>2, Appending
  <2>4. \A x \in Sid, l \in WorkerLine :
            In(node'[u].channel[x].held, l) =>
                In(node[u].channel[x].held, l) \/ (x = s /\ l = l0)
    BY <1>11, <2>3 DEF c
  <2>5. QED
    BY <1>7, <1>8, <1>11, <2>1, <2>4
<1>12. QED
  BY <1>1, <1>9, <1>10, <1>11

LEMMA OwnSetup ==
    ASSUME TypeOK, MadeInv, OwnInv, epoch = 0, NEW u \in Units, Setup(u), up
    PROVE  OwnInv'
<1> DEFINE n     == ids + 1
           event == Head(node[u].events)
           new   == <<0, n>>
           old   == <<node[u].map[n], n>>
<1>1. /\ n \in Ids /\ new \in Sid /\ ids' = n
      /\ event \in Event /\ event.req \in Requests /\ event.to \in Nat
      /\ event.kind = "setup" /\ Queued(u, event) /\ node[u].events # <<>>
      /\ node[u].ev = NoAnswer
      /\ UNCHANGED <<up, epoch, coms, pc, stage, conn, inbox, work, lapses>>
      /\ owner'[new] = event.req /\ \A s \in Sid \ {new} : owner'[s] = owner[s]
      /\ SameBut(u) /\ node'[u].alive = node[u].alive
      /\ node'[u].events = Tail(node[u].events)
      /\ node'[u].ev = SetupAnswer(u, event, n)
      /\ node'[u].tasks[n] = (IF Full(u) THEN node[u].tasks[n] ELSE epoch)
      /\ \A m \in Ids \ {n} : node'[u].tasks[m] = node[u].tasks[m]
      /\ node'[u].map[n] = epoch
      /\ \A m \in Ids \ {n} : node'[u].map[m] = node[u].map[m]
      /\ node'[u].channel[new] = [url |-> event.to, held |-> <<>>]
      /\ \A s \in Sid \ {new} :
            \/ node'[u].channel[s] = node[u].channel[s]
            \/ node'[u].channel[s] = NoChannel /\ s = old /\ ~WorksFor(u, old)
      /\ node'[u].jobs = node[u].jobs /\ node'[u].worker = node[u].worker
  BY SetupNode
<1>2. ids \in Nat /\ n = ids + 1 /\ n \notin 1..ids
  BY GatewayAssumption DEF TypeOK
<1>3. node[u].tasks[n] = NoEpoch /\ \A v \in Units : node[v].channel[new] = NoChannel
  BY <1>1, <1>2, FirstSessions
<1>4. AskedStays
  <2>1. ASSUME NEW r \in Requests, NEW m \in Ids, Asked(r, m)
        PROVE  m \in 1..ids' /\ owner'[<<0, m>>] = r
    <3>1. m \in 1..ids /\ owner[<<0, m>>] = r
      BY <2>1 DEF Asked
    <3>2. <<0, m>> \in Sid /\ <<0, m>> # new
      BY <1>2, <3>1, GatewayAssumption DEF Sid, Epochs
    <3>3. QED
      BY <1>1, <1>2, <3>1, <3>2
  <2>2. QED
    BY <2>1 DEF AskedStays
<1>5. OwnerStays
  BY <1>1, <1>3 DEF OwnerStays
<1>6. OwnUnit(u)
  BY DEF OwnInv
<1>7. \A e : In(Tail(node[u].events), e) => Queued(u, e)
  BY <1>1, TailQueued
<1>8. NoChannel.held = <<>> /\ NoChannel.url = NoCom
  BY DEF NoChannel
<1>9. \A q \in Requests, l \in AnyLine : In(inbox'[q], l) => Received(q, l)
  BY <1>1 DEF Received
<1> HIDE DEF event, n
<1>10. /\ node'[u].ev.to = event.to /\ node'[u].ev.line.for = event.req
       /\ node'[u].ev.line.id = n
       /\ \/ Full(u) /\ node'[u].ev.line.kind = "full" /\ node'[u].ev.release = TRUE
          \/ ~Full(u) /\ node'[u].ev.line.kind = "setup" /\ node'[u].ev.release = FALSE
  BY <1>1 DEF SetupAnswer, Answering, LineFor
<1>11. OwnUnit(u)'
  <2>1. \A e \in Event : In(node'[u].events, e) /\ e.kind = "exit" =>
            e.id \in 1..ids' /\ owner'[<<0, e.id>>] = e.req
    <3>1. ASSUME NEW e \in Event, In(node'[u].events, e), e.kind = "exit"
          PROVE  e.id \in 1..ids' /\ owner'[<<0, e.id>>] = e.req
      <4>1. e.req \in Requests /\ e.id \in Ids
        BY <3>1 DEF Event
      <4>2. Asked(e.req, e.id)
        BY <1>1, <1>6, <1>7, <3>1 DEF OwnUnit
      <4>3. QED
        BY <1>4, <4>1, <4>2 DEF AskedStays
    <3>2. QED
      BY <3>1
  <2>2. \A s \in Sid : \A l \in WorkerLine :
            In(node'[u].channel[s].held, l) => l.for = owner'[s] /\ l.id = s[2]
    <3>1. ASSUME NEW s \in Sid, NEW l \in WorkerLine, In(node'[u].channel[s].held, l)
          PROVE  l.for = owner'[s] /\ l.id = s[2]
      <4>1. s # new /\ node'[u].channel[s] = node[u].channel[s]
        BY <1>1, <1>8, <3>1, InEmpty
      <4>2. QED
        BY <1>1, <1>6, <3>1, <4>1 DEF OwnUnit
    <3>2. QED
      BY <3>1
  <2>3. \A j \in Job : In(node'[u].jobs, j) \/ node'[u].worker = j =>
            j.sid[1] = 0 /\ j.sid[2] \in 1..ids' /\ owner'[<<0, j.sid[2]>>] = j.req
    <3>1. ASSUME NEW j \in Job, In(node'[u].jobs, j) \/ node'[u].worker = j
          PROVE  j.sid[1] = 0 /\ j.sid[2] \in 1..ids' /\ owner'[<<0, j.sid[2]>>] = j.req
      <4>1. j.req \in Requests /\ j.sid[2] \in Ids
        BY DEF Job, Sid
      <4>2. j.sid[1] = 0 /\ Asked(j.req, j.sid[2])
        BY <1>1, <1>6, <3>1 DEF OwnUnit, Working
      <4>3. QED
        BY <1>4, <4>1, <4>2 DEF AskedStays
    <3>2. QED
      BY <3>1
  <2>4. \A m \in Ids : node'[u].tasks[m] # NoEpoch => node'[u].map[m] = node'[u].tasks[m]
    BY <1>1, <1>3, <1>6 DEF OwnUnit
  <2>5. n \in 1..ids'
    BY <1>1, <1>2
  <2>6. /\ node'[u].ev.line.id \in 1..ids'
        /\ owner'[<<0, node'[u].ev.line.id>>] = node'[u].ev.line.for
        /\ node'[u].ev.release => node'[u].tasks[node'[u].ev.line.id] = NoEpoch
        /\ node'[u].ev.release <=> node'[u].ev.line.kind \in {"full", "exit"}
    BY <1>1, <1>3, <1>10, <2>5
  <2>7. QED
    BY <2>1, <2>2, <2>3, <2>4, <2>6 DEF OwnUnit, Queued, Working, Asked
<1>12. \A s \in Sid :
           \/ node'[u].channel[s].url = NoCom
           \/ node'[u].channel[s].url = node[u].channel[s].url /\ owner'[s] = owner[s]
           \/ \E e \in Event : /\ Queued(u, e) /\ e.to = node'[u].channel[s].url
                               /\ e.req = owner'[s]
  BY <1>1, <1>8
<1>13. \E e \in Event : /\ Queued(u, e) /\ e.to = node'[u].ev.to
                        /\ e.req = node'[u].ev.line.for
  BY <1>1, <1>10
<1>14. QED
  BY <1>1, <1>4, <1>5, <1>7, <1>9, <1>11, <1>12, <1>13, OwnNodeStep

(* The steps of a request.                                                  *)
LEMMA OwnUserStep ==
    ASSUME TypeOK, OwnInv, NEW x \in Requests, UNCHANGED <<ids, owner>>,
           coms' = coms \/ coms' = coms + 1,
           \A q \in Requests, com \in Com :
               Claims(q, com)' => \/ Claims(q, com)
                                  \/ q = x /\ com = coms + 1 /\ coms' = coms + 1,
           \A q \in Requests : work'[q] # NoId => Asked(q, work'[q]),
           \A q \in Requests, l \in AnyLine : In(inbox'[q], l) => Received(q, l),
           \A v \in Units : OwnUnit(v)'
    PROVE  OwnInv'
<1>1. coms \in Nat
  BY DEF TypeOK
<1>2. ASSUME NEW q \in Requests, NEW p \in Requests, NEW com \in Com,
             Claims(q, com)', Claims(p, com)'
      PROVE  q = p
  <2>1. \A r \in Requests : ~Claims(r, coms + 1)
    BY <1>1 DEF OwnInv, Com, NoCom
  <2>2. QED
    BY <1>2, <2>1 DEF OwnInv
<1>3. ASSUME NEW q \in Requests, NEW com \in Com, Claims(q, com)'
      PROVE  com <= coms'
  <2>1. CASE Claims(q, com)
    <3>1. com <= coms /\ com \in Nat
      BY <2>1 DEF OwnInv, Com
    <3>2. QED
      BY <1>1, <3>1
  <2>2. CASE com = coms + 1 /\ coms' = coms + 1
    BY <1>1, <2>2
  <2>3. QED
    BY <1>3, <2>1, <2>2
<1>4. \A q \in Requests :
          /\ work'[q] # NoId => Asked(q, work'[q])
          /\ \A l \in AnyLine : In(inbox'[q], l) => l.for = q /\ Asked(q, l.id)
  BY DEF OwnInv
<1>5. \A q \in Requests :
          /\ work'[q] # NoId => Asked(q, work[q])'
          /\ \A l \in AnyLine : Received(q, l)' => l.for = q /\ Asked(q, l.id)'
  BY <1>4 DEF Asked, Received
<1>6. QED
  BY <1>2, <1>3, <1>5 DEF OwnInv

(* A step that leaves the nodes alone.                                      *)
LEMMA OwnQuiet ==
    ASSUME TypeOK, OwnInv, UNCHANGED <<ids, owner, coms, node>>,
           \A q \in Requests : conn'[q].com \in {conn[q].com, NoCom},
           \A q \in Requests : work'[q] # NoId => Asked(q, work'[q]),
           \A q \in Requests, l \in AnyLine : In(inbox'[q], l) => Received(q, l),
           Requests # {}
    PROVE  OwnInv'
<1>1. ASSUME NEW q \in Requests, NEW com \in Com, Claims(q, com)'
      PROVE  Claims(q, com)
  <2>1. com # NoCom
    BY DEF Com
  <2>2. QED
    BY <1>1, <2>1 DEF Claims, Queued
<1>2. AskedStays /\ OwnerStays
  BY UnchangedStays
<1>3. \A v \in Units : OwnUnit(v)'
  BY <1>2, OwnUnitKept DEF OwnInv
<1>4. PICK x \in Requests : TRUE
  OBVIOUS
<1>5. QED
  BY <1>1, <1>3, OwnUserStep

LEMMA OwnContacts ==
    ASSUME TypeOK, MadeInv, OwnInv, epoch = 0, NEW r \in Requests, NEW kind, NEW n,
           Contacts(r, kind, n),
           (kind = "setup" /\ n = NoId) \/ (kind = "exit" /\ n \in Ids /\ n = work[r])
    PROVE  OwnInv'
<1> DEFINE u == UnitOf(r)
           a == AskedEvent(r, kind, n)
<1>1. /\ UNCHANGED <<ids, owner>> /\ coms' = coms + 1
      /\ conn'[r] = [com |-> coms + 1, epoch |-> epoch]
      /\ \A q \in Requests \ {r} : conn'[q] = conn[q]
      /\ \A q \in Requests : inbox'[q] = inbox[q] /\ work'[q] = work[q]
  BY DEF Contacts, OthersStay
<1>2. u \in Units /\ a \in Event
  BY UnitOfType, ContactsTyped DEF AskedEvent
<1>3. a.req = r /\ a.to = coms + 1 /\ a.kind = kind /\ a.id = n
  BY DEF AskedEvent
<1>4. kind = "exit" => Asked(r, n)
  BY DEF OwnInv, Ids, NoId
<1>5. AskedStays /\ OwnerStays
  BY <1>1, UnchangedStays
<1>6. \/ node' = node
      \/ /\ SameBut(u) /\ node'[u].events = Append(node[u].events, a)
         /\ node'[u].ev = node[u].ev /\ node'[u].tasks = node[u].tasks
         /\ node'[u].map = node[u].map /\ node'[u].channel = node[u].channel
         /\ node'[u].jobs = node[u].jobs /\ node'[u].worker = node[u].worker
  BY ContactsNode
<1> HIDE DEF u, a
<1>7. \A v \in Units : \A e : In(node'[v].events, e) =>
          Queued(v, e) \/ e = a
  <2>1. node[u].events \in Seq(Event)
    BY <1>2, NodeTypes
  <2>2. \A e : In(Append(node[u].events, a), e) => In(node[u].events, e) \/ e = a
    BY <1>2, <2>1, Appending
  <2>3. QED
    BY <1>6, <2>2 DEF SameBut, Queued
<1>8. \A v \in Units :
          /\ node'[v].ev = node[v].ev /\ node'[v].tasks = node[v].tasks
          /\ node'[v].map = node[v].map /\ node'[v].channel = node[v].channel
          /\ node'[v].jobs = node[v].jobs /\ node'[v].worker = node[v].worker
  BY <1>6 DEF SameBut
<1>9. ASSUME NEW q \in Requests, NEW com \in Com, Claims(q, com)'
      PROVE  Claims(q, com) \/ (q = r /\ com = coms + 1 /\ coms' = coms + 1)
  <2>1. CASE conn'[q].com = com
    BY <1>1, <2>1 DEF Claims
  <2>2. CASE \E v \in Units, e \in Event : In(node'[v].events, e) /\ e.to = com /\ e.req = q
    BY <1>1, <1>3, <1>7, <2>2 DEF Claims
  <2>3. CASE \E v \in Units : \/ node'[v].ev # NoAnswer /\ node'[v].ev.to = com
                                 /\ node'[v].ev.line.for = q
                              \/ \E s \in Sid : node'[v].channel[s].url = com /\ owner'[s] = q
    BY <1>1, <1>8, <2>3 DEF Claims
  <2>4. QED
    BY <1>9, <2>1, <2>2, <2>3 DEF Claims, Queued
<1>10. ASSUME NEW v \in Units
       PROVE  OwnUnit(v)'
  <2>1. OwnUnit(v)
    BY DEF OwnInv
  <2>2. \A e \in Event : In(node'[v].events, e) /\ e.kind = "exit" => Asked(e.req, e.id)
    BY <1>3, <1>4, <1>7, <2>1 DEF OwnUnit
  <2>3. QED
    BY <1>1, <1>8, <2>1, <2>2, SMTT(30) DEF OwnUnit, Queued, Working, Asked
<1>11. \A q \in Requests : work'[q] # NoId => Asked(q, work'[q])
  BY <1>1 DEF OwnInv
<1>12. \A q \in Requests, l \in AnyLine : In(inbox'[q], l) => Received(q, l)
  BY <1>1 DEF Received
<1>13. QED
  BY <1>1, <1>9, <1>10, <1>11, <1>12, OwnUserStep

LEMMA OwnHeard ==
    ASSUME TypeOK, MadeInv, OwnInv, epoch = 0, NEW r \in Requests, NEW n \in Ids, Heard(r, n),
           Asked(r, n), UNCHANGED <<ids, owner, coms>>,
           \A q \in Requests : conn'[q] = conn[q],
           \A q \in Requests : work'[q] # NoId => Asked(q, work'[q]),
           \A q \in Requests, l \in AnyLine : In(inbox'[q], l) => Received(q, l)
    PROVE  OwnInv'
<1>u. PICK u \in Units : u = UnitOf(r)
  BY UnitOfType
<1>s. PICK s \in Sid : s = <<node[u].tasks[n], n>>
  BY <1>u, HeardNode
<1> DEFINE a == Asks(u, s, r)
<1>1. /\ u \in Units /\ s \in Sid /\ a \in Job
      /\ node[u].tasks[n] # NoEpoch
      /\ SameBut(u) /\ node'[u].events = node[u].events
      /\ node'[u].ev = node[u].ev /\ node'[u].tasks = node[u].tasks
      /\ node'[u].map = node[u].map
      /\ node'[u].channel = [node[u].channel EXCEPT ![s].url = conn[r].com]
      /\ node'[u].jobs = Append(node[u].jobs, a)
      /\ node'[u].worker = node[u].worker
  BY <1>u, <1>s, HeardNode
<1>2. a.req = r /\ a.sid = s
  BY DEF Asks
<1>3. node[u].tasks[n] = 0
  BY <1>1, FirstSessions
<1>4. s[1] = 0 /\ s[2] = n /\ owner[s] = r
  BY <1>3, <1>s DEF Asked
<1> HIDE DEF a
<1>5. \A x \in Sid :
          /\ node'[u].channel[x].held = node[u].channel[x].held
          /\ \/ node'[u].channel[x].url = node[u].channel[x].url
             \/ x = s /\ node'[u].channel[x].url = conn[r].com
  <2>1. node[u].channel \in [Sid -> Channel]
    BY <1>1, NodeTypes
  <2>2. node[u].channel[s] \in Channel
    BY <1>1, <2>1
  <2>3. /\ [node[u].channel[s] EXCEPT !.url = conn[r].com].held = node[u].channel[s].held
        /\ [node[u].channel[s] EXCEPT !.url = conn[r].com].url = conn[r].com
    BY <2>2 DEF Channel
  <2>4. QED
    BY <1>1, <2>1, <2>3
<1>6. ASSUME NEW q \in Requests, NEW com \in Com, Claims(q, com)'
      PROVE  Claims(q, com)
  <2>1. CASE conn'[q].com = com
    BY <2>1 DEF Claims
  <2>2. CASE \E v \in Units : \/ \E e \in Event : In(node'[v].events, e) /\ e.to = com
                                                  /\ e.req = q
                              \/ node'[v].ev # NoAnswer /\ node'[v].ev.to = com
                                 /\ node'[v].ev.line.for = q
    BY <1>1, <2>2 DEF Claims, SameBut, Queued
  <2>3. CASE \E v \in Units, x \in Sid : node'[v].channel[x].url = com /\ owner'[x] = q
    <3>1. PICK v \in Units, x \in Sid : node'[v].channel[x].url = com /\ owner[x] = q
      BY <2>3
    <3>2. CASE node[v].channel[x].url = com
      BY <3>1, <3>2 DEF Claims
    <3>3. CASE node[v].channel[x].url # com
      <4>1. v = u /\ x = s /\ conn[r].com = com
        BY <1>1, <1>5, <3>1, <3>3 DEF SameBut
      <4>2. QED
        BY <1>4, <3>1, <4>1 DEF Claims
    <3>4. QED
      BY <3>2, <3>3
  <2>4. QED
    BY <1>6, <2>1, <2>2, <2>3 DEF Claims, Queued
<1>7. AskedStays /\ OwnerStays
  BY UnchangedStays
<1>8. OwnUnit(u)'
  <2>1. OwnUnit(u)
    BY <1>1 DEF OwnInv
  <2>2. \A j : In(node'[u].jobs, j) => In(node[u].jobs, j) \/ j = a
    <3>1. node[u].jobs \in Seq(Job)
      BY <1>1, NodeTypes
    <3>2. QED
      BY <1>1, <3>1, Appending
  <2>3. \A j \in Job : In(node'[u].jobs, j) \/ node'[u].worker = j =>
            j.sid[1] = 0 /\ Asked(j.req, j.sid[2])
    BY <1>1, <1>2, <1>4, <2>1, <2>2 DEF OwnUnit, Working
  <2>4. \A x \in Sid : \A l \in WorkerLine :
            In(node'[u].channel[x].held, l) => l.for = owner[x] /\ l.id = x[2]
    BY <1>5, <2>1 DEF OwnUnit
  <2>5. \A e \in Event : In(node'[u].events, e) /\ e.kind = "exit" => Asked(e.req, e.id)
    BY <1>1, <2>1 DEF OwnUnit, Queued
  <2>6. /\ node[u].ev # NoAnswer =>
              /\ Asked(node[u].ev.line.for, node[u].ev.line.id)
              /\ node[u].ev.release => node[u].tasks[node[u].ev.line.id] = NoEpoch
              /\ node[u].ev.release <=> node[u].ev.line.kind \in {"full", "exit"}
        /\ \A m \in Ids : node[u].tasks[m] # NoEpoch => node[u].map[m] = node[u].tasks[m]
    BY <2>1 DEF OwnUnit
  <2>7. /\ node'[u].ev = node[u].ev /\ node'[u].tasks = node[u].tasks
        /\ node'[u].map = node[u].map /\ ids' = ids /\ owner' = owner
    BY <1>1
  <2>8. QED
    BY <2>3, <2>4, <2>5, <2>6, <2>7 DEF OwnUnit, Queued, Working, Asked
<1>9. ASSUME NEW v \in Units
      PROVE  OwnUnit(v)'
  <2>1. CASE v # u
    <3>1. OwnUnit(v) /\ node'[v] = node[v]
      BY <1>1, <2>1 DEF OwnInv, SameBut
    <3>2. QED
      BY <1>7, <3>1, OwnUnitKept
  <2>2. QED
    BY <1>8, <2>1
<1>10. QED
  BY <1>6, <1>9, OwnUserStep

LEMMA OwnRequest ==
    ASSUME TypeOK, StageInv, MadeInv, OwnInv, epoch = 0, NEW r \in Requests, Request(r)
    PROVE  OwnInv'
<1>1. \A q \in Requests : work[q] # NoId => Asked(q, work[q])
  BY DEF OwnInv
<1>2. CASE QuitsWell(r)
  <2>1. UNCHANGED <<ids, owner, coms, node>>
    BY <1>2, Zenon DEF QuitsWell, Quits, umVars
  <2>2. /\ conn'[r].com = NoCom /\ inbox'[r] = <<>> /\ work'[r] \in {work[r], NoId}
        /\ \A q \in Requests \ {r} :
              conn'[q] = conn[q] /\ inbox'[q] = inbox[q] /\ work'[q] = work[q]
    BY <1>2 DEF QuitsWell, Quits, OthersStay, NoConn
  <2>3. \A q \in Requests : conn'[q].com \in {conn[q].com, NoCom}
    BY <2>2
  <2>4. \A q \in Requests : work'[q] # NoId => Asked(q, work'[q])
    BY <1>1, <2>2
  <2>5. \A q \in Requests, l \in AnyLine : In(inbox'[q], l) => Received(q, l)
    BY <2>2, InEmpty DEF Received
  <2>6. QED
    BY <2>1, <2>3, <2>4, <2>5, OwnQuiet
<1>3. CASE Asking(r)
  <2>1. CASE pc[r] = "open" /\ Contacts(r, "setup", NoId)
    BY <2>1, OwnContacts
  <2>2. CASE pc[r] = "cleanup" /\ Contacts(r, "exit", work[r])
    <3>1. work[r] \in Ids
      BY <2>2 DEF StageInv
    <3>2. QED
      BY <2>2, <3>1, OwnContacts
  <2>3. QED
    BY <1>3, <2>1, <2>2 DEF Asking
<1>4. CASE ReadsOn(r)
  <2> DEFINE line == Head(inbox[r])
  <2>1. /\ inbox[r] # <<>> /\ inbox'[r] = Tail(inbox[r]) /\ conn'[r] = conn[r]
        /\ \A q \in Requests \ {r} :
              conn'[q] = conn[q] /\ inbox'[q] = inbox[q] /\ work'[q] = work[q]
        /\ UNCHANGED <<umVars, owner>>
    BY <1>4 DEF ReadsOn, Reads, OthersStay
  <2>2. UNCHANGED <<ids, owner, coms>>
    BY <2>1, Zenon DEF umVars
  <2>3. inbox[r] \in Seq(AnyLine)
    BY DEF TypeOK
  <2>4. line \in AnyLine /\ Received(r, line)
    BY <2>1, <2>3, TakingFirst DEF Received
  <2>5. line.id \in Ids
    BY <2>4 DEF AnyLine, Line
  <2>6. Asked(r, line.id)
    BY <2>4 DEF OwnInv
  <2>7. \A q \in Requests, l \in AnyLine : In(inbox'[q], l) => Received(q, l)
    BY <2>1, <2>3, TakingFirst DEF Received
  <2>8. work'[r] \in {work[r], line.id}
    BY <1>4 DEF ReadsOn
  <2>9. \A q \in Requests : conn'[q] = conn[q]
    BY <2>1
  <2> HIDE DEF line
  <2>10. \A q \in Requests : work'[q] # NoId => Asked(q, work'[q])
    BY <1>1, <2>1, <2>6, <2>8
  <2>11. CASE node' = node
    <3>1. \A q \in Requests : conn'[q].com \in {conn[q].com, NoCom}
      BY <2>9
    <3>2. QED
      BY <2>2, <2>7, <2>10, <2>11, <3>1, OwnQuiet
  <2>12. CASE pc[r] = "setup" /\ Heard(r, line.id)
    BY <2>2, <2>5, <2>6, <2>7, <2>9, <2>10, <2>12, OwnHeard
  <2>13. CASE pc[r] = "infer" /\ Heard(r, work[r])
    <3>1. work[r] \in Ids
      BY <2>13 DEF StageInv
    <3>2. Asked(r, work[r])
      BY <1>1, <3>1 DEF NoId, Ids
    <3>3. QED
      BY <2>2, <2>7, <2>9, <2>10, <2>13, <3>1, <3>2, OwnHeard
  <2>14. QED
    BY <1>4, <2>11, <2>12, <2>13 DEF ReadsOn, line
<1>5. CASE Resumes(r)
  <2>1. UNCHANGED <<ids, owner, coms, conn, inbox, work, node>>
    BY <1>5, Zenon DEF Resumes, umVars
  <2>2. /\ \A q \in Requests : conn'[q].com \in {conn[q].com, NoCom}
        /\ \A q \in Requests : work'[q] # NoId => Asked(q, work'[q])
        /\ \A q \in Requests, l \in AnyLine : In(inbox'[q], l) => Received(q, l)
    BY <1>1, <2>1 DEF Received
  <2>3. QED
    BY <2>1, <2>2, OwnQuiet
<1>6. QED
  BY <1>2, <1>3, <1>4, <1>5, RequestEffect

LEMMA OwnKept ==
    ASSUME GatewayInv, FirstEpochInv, [Next]_vars
    PROVE  FirstEpochInv'
<1>1. TypeOK /\ StageInv /\ MadeInv
  BY DEF GatewayInv
<1>2. ASSUME NEW r \in Requests, Request(r), epoch = 0
      PROVE  OwnInv'
  BY <1>1, <1>2, OwnRequest DEF FirstEpochInv
<1>3. ASSUME NEW u \in Units, NodeStep(u) \/ NodeRestart(u), epoch = 0
      PROVE  OwnInv'
  <2>1. OwnInv
    BY <1>3 DEF FirstEpochInv
  <2>2. CASE Setup(u)
    BY <1>1, <1>3, <2>1, <2>2, OwnSetup, SetupDown, OwnRenewed
  <2>3. CASE NodeRestart(u)
    BY <1>1, <2>1, <2>3, RestartEffect, OwnRenewed
  <2>4. QED
    BY <1>1, <1>3, <2>1, <2>2, <2>3, OwnExit, OwnAnswer, OwnWorkerTake, OwnWorkerSend,
       OwnDeliver DEF NodeStep
<1>4. ASSUME UNCHANGED <<epoch, coms, ids, userVars, node, owner>>
      PROVE  FirstEpochInv'
  <2>1. UNCHANGED <<epoch, ids, owner, coms, conn, inbox, work, node>>
    BY <1>4, Zenon DEF userVars
  <2>2. QED
    BY <2>1, SMTT(30)
    DEF FirstEpochInv, OwnInv, OwnUnit, Claims, Asked, Received, Queued, Working
<1>5. CASE UnitManagerStarts
  <2>1. epoch' = epoch + 1 /\ epoch \in Nat
    BY <1>1, <1>5, GatewayAssumption DEF UnitManagerStarts, TypeOK, Epochs
  <2>2. QED
    BY <2>1 DEF FirstEpochInv
<1>6. ASSUME (\E r \in Requests : Request(r)) \/ \E u \in Units : NodeStep(u) \/ NodeRestart(u)
      PROVE  epoch' = epoch
  <2>1. ASSUME NEW r \in Requests, Request(r)
        PROVE  epoch' = epoch
    BY <1>1, <2>1, RequestMakesNone DEF MakesNone
  <2>2. QED
    BY <1>1, <1>6, <2>1, NodeUserEffect
<1>7. CASE UnitManagerEnds
  BY <1>4, <1>7, Zenon DEF UnitManagerEnds
<1>8. CASE UNCHANGED vars
  BY <1>4, <1>8, Zenon DEF vars, umVars
<1>9. QED
  BY <1>2, <1>3, <1>5, <1>6, <1>7, <1>8 DEF Next, FirstEpochInv

LEMMA OwnInit == ASSUME Init PROVE FirstEpochInv
<1>1. FreshNode \in {DeadNode, FreshNode} /\ NoJob \notin Job
  BY DEF NoJob, Job
<1>2. /\ FreshNode.events = <<>> /\ FreshNode.ev = NoAnswer /\ FreshNode.jobs = <<>>
      /\ FreshNode.worker = NoJob
      /\ \A n \in Ids : FreshNode.tasks[n] = NoEpoch
      /\ \A s \in Sid : FreshNode.channel[s] = NoChannel
  BY <1>1, NewNode
<1>3. NoChannel.held = <<>> /\ NoChannel.url = NoCom
  BY DEF NoChannel
<1>4. /\ \A r \in Requests : conn[r] = NoConn /\ inbox[r] = <<>> /\ work[r] = NoId
      /\ \A u \in Units : node[u] = FreshNode
  BY DEF Init
<1>5. NoConn.com = NoCom
  BY DEF NoConn
<1>6. \A r \in Requests, com \in Com : ~Claims(r, com)
  BY <1>2, <1>3, <1>4, <1>5, InEmpty DEF Claims, Queued, Com
<1>7. \A u \in Units : OwnUnit(u)
  BY <1>1, <1>2, <1>3, <1>4, InEmpty DEF OwnUnit, Queued, Working
<1>8. QED
  BY <1>4, <1>6, <1>7, InEmpty DEF FirstEpochInv, OwnInv, Received

(* As long as unit-manager is not restarted nobody reads the answer to a    *)
(* question of another request, although the gateway compares neither       *)
(* request_id nor work_id: whoever can write to a TCP session -- a queued   *)
(* event, the event thread, a channel with undelivered lines -- acts for    *)
(* the request that opened it.                                              *)
THEOREM AnswersStayOwn == Spec => []AnswersAreOwn
<1>1. Init => GatewayInv /\ FirstEpochInv
  BY GatewayInit, OwnInit
<1>2. (GatewayInv /\ FirstEpochInv) /\ [Next]_vars => (GatewayInv /\ FirstEpochInv)'
  BY GatewayKept, OwnKept
<1>3. GatewayInv /\ FirstEpochInv => AnswersAreOwn
  <2>1. ASSUME GatewayInv, FirstEpochInv, epoch = 0, NEW r \in Requests,
               NEW i \in DOMAIN inbox[r]
        PROVE  inbox[r][i].for = r
    <3>1. inbox[r] \in Seq(AnyLine)
      BY <2>1 DEF GatewayInv, TypeOK
    <3>2. i \in 1..Len(inbox[r]) /\ inbox[r][i] \in AnyLine
      BY <2>1, <3>1
    <3>3. Received(r, inbox[r][i])
      BY <3>2 DEF Received, In
    <3>4. QED
      BY <2>1, <3>2, <3>3 DEF FirstEpochInv, OwnInv
  <2>2. QED
    BY <2>1 DEF AnswersAreOwn
<1>4. QED
  BY <1>1, <1>2, <1>3, PTL DEF Spec

------------------------------------------------------------------------------
(* The answer to a request's setup is in one place.                         *)

(* The answers to r's setups move: their places in the queues and in the    *)
(* connections' inputs are k and m lower, and none is new.                  *)
Moves(r, k, m) ==
    /\ \A v \in Units, i \in Nat :
          /\ i \in 1..Len(node'[v].events) /\ node'[v].events[i].kind = "setup"
          /\ node'[v].events[i].req = r
          => SetupQueued(r, v, i + k[v])
    /\ \A v \in Units :
          /\ node'[v].ev # NoAnswer /\ node'[v].ev.line.kind \in Tokens
          /\ node'[v].ev.line.for = r
          => SetupHandled(r, v) /\ node'[v].ev = node[v].ev
    /\ \A q \in Requests, i \in Nat :
          i \in 1..Len(inbox'[q]) /\ inbox'[q][i].kind \in Tokens /\ inbox'[q][i].for = r
          => SetupReceived(r, q, i + m[q]) /\ inbox'[q][i] = inbox[q][i + m[q]]

(* The answers to r's setups move, in some way.                             *)
Drifts(r) == \E k \in [Units -> Nat], m \in [Requests -> Nat] : Moves(r, k, m)

Settled(r) == pc'[r] = pc[r] /\ stage'[r] = stage[r] /\ Drifts(r)

LEMMA TokenMoved ==
    ASSUME NEW r \in Requests, TokenOf(r), Settled(r)
    PROVE  TokenOf(r)'
<1>0. PICK k \in [Units -> Nat], m \in [Requests -> Nat] : Moves(r, k, m)
  BY DEF Settled, Drifts
<1> DEFINE Q(v, i) == /\ i \in 1..Len(node'[v].events) /\ node'[v].events[i].kind = "setup"
                      /\ node'[v].events[i].req = r
           H(v)    == /\ node'[v].ev # NoAnswer /\ node'[v].ev.line.kind \in Tokens
                      /\ node'[v].ev.line.for = r
           R(q, i) == /\ i \in 1..Len(inbox'[q]) /\ inbox'[q][i].kind \in Tokens
                      /\ inbox'[q][i].for = r
<1>1. /\ \A v \in Units, i \in Nat : Q(v, i) => SetupQueued(r, v, i + k[v])
      /\ \A v \in Units : H(v) => SetupHandled(r, v)
      /\ \A q \in Requests, i \in Nat : R(q, i) => SetupReceived(r, q, i + m[q])
      /\ pc'[r] = pc[r] /\ stage'[r] = stage[r]
  BY <1>0 DEF Moves, Settled
<1>2. /\ \A v \in Units, i, j \in Nat : i + k[v] = j + k[v] => i = j
      /\ \A v \in Units, i \in Nat : i + k[v] \in Nat
      /\ \A q \in Requests, i, j \in Nat : i + m[q] = j + m[q] => i = j
      /\ \A q \in Requests, i \in Nat : i + m[q] \in Nat
  OBVIOUS
<1> HIDE DEF Q, H, R
<1>3. ASSUME NEW v \in Units, NEW i \in Nat, Q(v, i)
      PROVE  /\ pc'[r] = "setup" /\ v = UnitOf(r)
             /\ \A w \in Units, j \in Nat : Q(w, j) => w = v /\ j = i
             /\ \A w \in Units : ~H(w)
             /\ \A q \in Requests, j \in Nat : ~R(q, j)
  <2>1. SetupQueued(r, v, i + k[v]) /\ i + k[v] \in Nat
    BY <1>1, <1>2, <1>3
  <2>2. /\ pc[r] = "setup" /\ v = UnitOf(r)
        /\ \A w \in Units, j \in Nat : SetupQueued(r, w, j) => w = v /\ j = i + k[v]
        /\ \A w \in Units : ~SetupHandled(r, w)
        /\ \A q \in Requests, j \in Nat : ~SetupReceived(r, q, j)
    BY <2>1 DEF TokenOf
  <2>3. ASSUME NEW w \in Units, NEW j \in Nat, Q(w, j)
        PROVE  w = v /\ j = i
    <3>1. w = v /\ j + k[w] = i + k[v]
      BY <1>1, <1>2, <2>2, <2>3
    <3>2. QED
      BY <1>2, <3>1
  <2>4. QED
    BY <1>1, <1>2, <2>2, <2>3
<1>4. ASSUME NEW v \in Units, H(v)
      PROVE  /\ pc'[r] = "setup"
             /\ \A w \in Units : H(w) => w = v
             /\ \A q \in Requests, j \in Nat : ~R(q, j)
  BY <1>1, <1>2, <1>4 DEF TokenOf
<1>5. ASSUME NEW q \in Requests, NEW i \in Nat, R(q, i)
      PROVE  /\ pc'[r] = "setup"
             /\ \A p \in Requests, j \in Nat : R(p, j) => p = q /\ j = i
  <2>1. SetupReceived(r, q, i + m[q]) /\ i + m[q] \in Nat
    BY <1>1, <1>2, <1>5
  <2>2. ASSUME NEW p \in Requests, NEW j \in Nat, R(p, j)
        PROVE  p = q /\ j = i
    <3>1. p = q /\ j + m[p] = i + m[q]
      BY <1>1, <1>2, <2>1, <2>2 DEF TokenOf
    <3>2. QED
      BY <1>2, <3>1
  <2>3. QED
    BY <1>1, <2>1, <2>2 DEF TokenOf
<1>6. /\ \A v \in Units, i \in Nat : SetupQueued(r, v, i)' <=> Q(v, i)
      /\ \A v \in Units : SetupHandled(r, v)' <=> H(v)
      /\ \A q \in Requests, i \in Nat : SetupReceived(r, q, i)' <=> R(q, i)
      /\ UnitOf(r)' = UnitOf(r)
  BY <1>1 DEF SetupQueued, SetupHandled, SetupReceived, Q, H, R, UnitOf
<1>7. QED
  BY <1>3, <1>4, <1>5, <1>6 DEF TokenOf

(* How one queue, and one connection's input, may change.                   *)
LEMMA EventsMove ==
    ASSUME TypeOK, NEW r, NEW v \in Units, NEW d \in Nat,
           \/ node'[v].events = node[v].events /\ d = 0
           \/ node'[v].events = <<>>
           \/ node[v].events # <<>> /\ node'[v].events = Tail(node[v].events) /\ d = 1
           \/ \E e \in Event : /\ node'[v].events = Append(node[v].events, e) /\ d = 0
                               /\ ~(e.kind = "setup" /\ e.req = r)
    PROVE  \A i \in Nat :
               /\ i \in 1..Len(node'[v].events) /\ node'[v].events[i].kind = "setup"
               /\ node'[v].events[i].req = r
               => SetupQueued(r, v, i + d)
<1>1. node[v].events \in Seq(Event)
  BY NodeTypes
<1>2. CASE node'[v].events = node[v].events /\ d = 0
  BY <1>2 DEF SetupQueued
<1>3. CASE node'[v].events = <<>>
  BY <1>3
<1>4. CASE node[v].events # <<>> /\ node'[v].events = Tail(node[v].events) /\ d = 1
  BY <1>1, <1>4, TakingFirst DEF SetupQueued
<1>5. CASE \E e \in Event : /\ node'[v].events = Append(node[v].events, e) /\ d = 0
                            /\ ~(e.kind = "setup" /\ e.req = r)
  <2>1. PICK e \in Event : /\ node'[v].events = Append(node[v].events, e) /\ d = 0
                           /\ ~(e.kind = "setup" /\ e.req = r)
    BY <1>5
  <2>2. /\ Len(node'[v].events) = Len(node[v].events) + 1 /\ Len(node[v].events) \in Nat
        /\ \A i \in 1..Len(node[v].events) : node'[v].events[i] = node[v].events[i]
        /\ node'[v].events[Len(node[v].events) + 1] = e
    BY <1>1, <2>1, Appending
  <2>3. \A i \in 1..(Len(node[v].events) + 1) :
            i \in 1..Len(node[v].events) \/ i = Len(node[v].events) + 1
    BY <2>2
  <2>4. QED
    BY <2>1, <2>2, <2>3 DEF SetupQueued
<1>6. QED
  BY <1>2, <1>3, <1>4, <1>5

InputMove(r, q, d) ==
    \/ inbox'[q] = inbox[q] /\ d = 0
    \/ inbox'[q] = <<>>
    \/ inbox[q] # <<>> /\ inbox'[q] = Tail(inbox[q]) /\ d = 1
    \/ \E t \in Seq(AnyLine) :
          /\ inbox'[q] = inbox[q] \o t /\ d = 0
          /\ \A l \in AnyLine : In(t, l) => ~(l.kind \in Tokens /\ l.for = r)

LEMMA LinesMove ==
    ASSUME TypeOK, NEW r, NEW q \in Requests, NEW d \in Nat,
           InputMove(r, q, d)
    PROVE  \A i \in Nat :
               i \in 1..Len(inbox'[q]) /\ inbox'[q][i].kind \in Tokens
                  /\ inbox'[q][i].for = r
               => SetupReceived(r, q, i + d) /\ inbox'[q][i] = inbox[q][i + d]
<1>1. inbox[q] \in Seq(AnyLine)
  BY DEF TypeOK
<1>2. CASE inbox'[q] = inbox[q] /\ d = 0
  BY <1>2 DEF SetupReceived
<1>3. CASE inbox'[q] = <<>>
  BY <1>3
<1>4. CASE inbox[q] # <<>> /\ inbox'[q] = Tail(inbox[q]) /\ d = 1
  BY <1>1, <1>4, TakingFirst DEF SetupReceived
<1>5. CASE \E t \in Seq(AnyLine) :
              /\ inbox'[q] = inbox[q] \o t /\ d = 0
              /\ \A l \in AnyLine : In(t, l) => ~(l.kind \in Tokens /\ l.for = r)
  <2>1. PICK t \in Seq(AnyLine) :
                 /\ inbox'[q] = inbox[q] \o t /\ d = 0
                 /\ \A l \in AnyLine : In(t, l) => ~(l.kind \in Tokens /\ l.for = r)
    BY <1>5
  <2>2. /\ Len(inbox'[q]) = Len(inbox[q]) + Len(t) /\ Len(inbox[q]) \in Nat /\ Len(t) \in Nat
        /\ \A i \in 1..Len(inbox[q]) : inbox'[q][i] = inbox[q][i]
        /\ \A i \in 1..Len(t) : inbox'[q][Len(inbox[q]) + i] = t[i]
    BY <1>1, <2>1, Concatenating
  <2>3. ASSUME NEW i \in 1..Len(inbox'[q]), i \notin 1..Len(inbox[q])
        PROVE  ~(inbox'[q][i].kind \in Tokens /\ inbox'[q][i].for = r)
    <3>1. i - Len(inbox[q]) \in 1..Len(t) /\ Len(inbox[q]) + (i - Len(inbox[q])) = i
      BY <2>2, <2>3
    <3>2. inbox'[q][i] = t[i - Len(inbox[q])]
      BY <2>2, <3>1
    <3>3. In(t, inbox'[q][i]) /\ inbox'[q][i] \in AnyLine
      BY <3>1, <3>2 DEF In
    <3>4. QED
      BY <2>1, <3>3
  <2>4. QED
    BY <2>1, <2>2, <2>3 DEF SetupReceived
<1>6. QED
  BY <1>2, <1>3, <1>4, <1>5 DEF InputMove


QueueMove(r, v, d) ==
    \/ node'[v].events = node[v].events /\ d = 0
    \/ node'[v].events = <<>>
    \/ node[v].events # <<>> /\ node'[v].events = Tail(node[v].events) /\ d = 1
    \/ \E e \in Event : /\ node'[v].events = Append(node[v].events, e) /\ d = 0
                        /\ ~(e.kind = "setup" /\ e.req = r)

Nowhere(S) == [y \in S |-> 0]
Only(S, x) == [y \in S |-> IF y = x THEN 1 ELSE 0]

LEMMA Shifts ==
    ASSUME NEW S, NEW x
    PROVE  /\ Nowhere(S) \in [S -> Nat] /\ \A y \in S : Nowhere(S)[y] = 0
           /\ Only(S, x) \in [S -> Nat]
           /\ \A y \in S : Only(S, x)[y] = IF y = x THEN 1 ELSE 0
  BY DEF Nowhere, Only

LEMMA MovesFrom ==
    ASSUME TypeOK, NEW r \in Requests, NEW k \in [Units -> Nat], NEW m \in [Requests -> Nat],
           \A v \in Units : QueueMove(r, v, k[v]),
           \A v \in Units : \/ node'[v].ev = node[v].ev \/ node'[v].ev = NoAnswer
                            \/ ~(node'[v].ev.line.kind \in Tokens /\ node'[v].ev.line.for = r),
           \A q \in Requests : InputMove(r, q, m[q])
    PROVE  Moves(r, k, m)
<1>1. ASSUME NEW v \in Units
      PROVE  \A i \in Nat : /\ i \in 1..Len(node'[v].events)
                            /\ node'[v].events[i].kind = "setup"
                            /\ node'[v].events[i].req = r
                            => SetupQueued(r, v, i + k[v])
  <2>1. k[v] \in Nat /\ QueueMove(r, v, k[v])
    OBVIOUS
  <2>2. QED
    BY <2>1, EventsMove DEF QueueMove
<1>2. ASSUME NEW q \in Requests
      PROVE  \A i \in Nat :
               i \in 1..Len(inbox'[q]) /\ inbox'[q][i].kind \in Tokens
                  /\ inbox'[q][i].for = r
               => SetupReceived(r, q, i + m[q]) /\ inbox'[q][i] = inbox[q][i + m[q]]
  <2>1. PICK d \in Nat : d = m[q]
    OBVIOUS
  <2>2. InputMove(r, q, d)
    BY <2>1
  <2>3. \A i \in Nat :
           i \in 1..Len(inbox'[q]) /\ inbox'[q][i].kind \in Tokens
              /\ inbox'[q][i].for = r
           => SetupReceived(r, q, i + d) /\ inbox'[q][i] = inbox[q][i + d]
    BY <2>2, LinesMove
  <2>4. QED
    BY <2>1, <2>3
<1>3. \A v \in Units :
          /\ node'[v].ev # NoAnswer /\ node'[v].ev.line.kind \in Tokens
          /\ node'[v].ev.line.for = r
          => SetupHandled(r, v) /\ node'[v].ev = node[v].ev
  BY DEF SetupHandled
<1>4. QED
  BY <1>1, <1>2, <1>3 DEF Moves

LEMMA RequestOthers ==
    ASSUME TypeOK, StageInv, NEW x \in Requests, Request(x), NEW r \in Requests \ {x}
    PROVE  pc'[r] = pc[r] /\ stage'[r] = stage[r]
<1>1. CASE QuitsWell(x)
  BY <1>1 DEF QuitsWell, Quits, OthersStay
<1>2. CASE Asking(x)
  BY <1>2 DEF Asking, Contacts, OthersStay
<1>3. CASE ReadsOn(x)
  BY <1>3 DEF ReadsOn, Reads, OthersStay
<1>4. CASE Resumes(x)
  BY <1>4 DEF Resumes, TypeOK
<1>5. QED
  BY <1>1, <1>2, <1>3, <1>4, RequestEffect

LEMMA RequestDrifts ==
    ASSUME TypeOK, StageInv, NEW x \in Requests, Request(x), NEW r \in Requests,
           ~(r = x /\ pc[x] = "open" /\ Asking(x))
    PROVE  Drifts(r)
<1>1. CASE QuitsWell(x)
  <2>1. /\ node' = node /\ inbox'[x] = <<>> /\ \A q \in Requests \ {x} : inbox'[q] = inbox[q]
    BY <1>1 DEF QuitsWell, Quits, OthersStay
  <2>2. \A v \in Units : QueueMove(r, v, Nowhere(Units)[v])
    BY <2>1, Shifts DEF QueueMove
  <2>3. \A q \in Requests : InputMove(r, q, Nowhere(Requests)[q])
    BY <2>1, Shifts DEF InputMove
  <2>4. QED
    BY <2>1, <2>2, <2>3, Shifts, MovesFrom DEF Drifts
<1>2. CASE Asking(x)
  <2>1. ASSUME NEW kind, NEW n, Contacts(x, kind, n),
               (kind = "setup" /\ n = NoId /\ r # x) \/ (kind = "exit" /\ n \in Ids)
        PROVE  Drifts(r)
    <3>1. PICK u \in Units : u = UnitOf(x)
      BY UnitOfType
    <3>2. PICK a \in Event : a = AskedEvent(x, kind, n)
      BY <2>1, ContactsTyped DEF AskedEvent
    <3>3. ~(a.kind = "setup" /\ a.req = r)
      BY <2>1, <3>2 DEF AskedEvent
    <3>4. \A q \in Requests : inbox'[q] = inbox[q]
      BY <2>1 DEF Contacts, OthersStay
    <3>5. \/ node' = node
          \/ /\ SameBut(u) /\ node'[u].events = Append(node[u].events, a)
             /\ node'[u].ev = node[u].ev
      BY <2>1, <3>1, <3>2, ContactsNode
    <3>6. \A v \in Units : QueueMove(r, v, Nowhere(Units)[v])
      BY <3>3, <3>5, Shifts DEF QueueMove, SameBut
    <3>7. \A q \in Requests : InputMove(r, q, Nowhere(Requests)[q])
      BY <3>4, Shifts DEF InputMove
    <3>8. \A v \in Units : node'[v].ev = node[v].ev
      BY <3>5 DEF SameBut
    <3>9. QED
      BY <3>6, <3>7, <3>8, Shifts, MovesFrom DEF Drifts
  <2>2. CASE pc[x] = "open" /\ Contacts(x, "setup", NoId)
    BY <1>2, <2>1, <2>2
  <2>3. CASE pc[x] = "cleanup" /\ Contacts(x, "exit", work[x])
    <3>1. work[x] \in Ids
      BY <2>3 DEF StageInv
    <3>2. QED
      BY <2>1, <2>3, <3>1
  <2>4. QED
    BY <1>2, <2>2, <2>3 DEF Asking
<1>3. CASE ReadsOn(x)
  <2>1. /\ inbox[x] # <<>> /\ inbox'[x] = Tail(inbox[x])
        /\ \A q \in Requests \ {x} : inbox'[q] = inbox[q]
    BY <1>3 DEF ReadsOn, Reads, OthersStay
  <2>2. \A v \in Units : node'[v].events = node[v].events /\ node'[v].ev = node[v].ev
    <3>1. Heard(x, Head(inbox[x]).id) /\ pc[x] = "setup" =>
             \A v \in Units : node'[v].events = node[v].events /\ node'[v].ev = node[v].ev
      <4>1. inbox[x] \in Seq(AnyLine)
        BY DEF TypeOK
      <4>2. Head(inbox[x]) \in AnyLine
        BY <2>1, <4>1, TakingFirst
      <4>3. Head(inbox[x]).id \in Ids
        BY <4>2 DEF AnyLine, Line
      <4>4. QED
        BY <4>3, HeardNode DEF SameBut
    <3>2. Heard(x, work[x]) /\ pc[x] = "infer" =>
             \A v \in Units : node'[v].events = node[v].events /\ node'[v].ev = node[v].ev
      BY HeardNode DEF SameBut, StageInv
    <3>3. QED
      BY <1>3, <3>1, <3>2 DEF ReadsOn
  <2>3. \A v \in Units : QueueMove(r, v, Nowhere(Units)[v])
    BY <2>2, Shifts DEF QueueMove
  <2>4. ASSUME NEW q \in Requests
        PROVE  InputMove(r, q, Only(Requests, x)[q])
    <3>1. Only(Requests, x)[q] = IF q = x THEN 1 ELSE 0
      BY Shifts
    <3>2. CASE q = x
      <4>1. InputMove(r, q, 1)
        BY <2>1, <3>2 DEF InputMove
      <4>2. QED
        BY <3>1, <3>2, <4>1
    <3>3. CASE q # x
      <4>1. InputMove(r, q, 0)
        BY <2>1, <3>3 DEF InputMove
      <4>2. QED
        BY <3>1, <3>3, <4>1
    <3>4. QED
      BY <3>2, <3>3
  <2>5. \A q \in Requests : InputMove(r, q, Only(Requests, x)[q])
    BY <2>4
  <2>6. PICK k \in [Units -> Nat] : k = Nowhere(Units)
    BY Shifts
  <2>7. PICK m \in [Requests -> Nat] : m = Only(Requests, x)
    BY Shifts
  <2>8. /\ \A v \in Units : QueueMove(r, v, k[v])
        /\ \A q \in Requests : InputMove(r, q, m[q])
        /\ \A v \in Units : node'[v].ev = node[v].ev
    BY <2>2, <2>3, <2>5, <2>6, <2>7
  <2>9. Moves(r, k, m)
    BY <2>8, MovesFrom
  <2>10. QED
    BY <2>9 DEF Drifts
<1>4. CASE Resumes(x)
  <2>1. node' = node /\ inbox' = inbox
    BY <1>4 DEF Resumes
  <2>2. \A v \in Units : QueueMove(r, v, Nowhere(Units)[v])
    BY <2>1, Shifts DEF QueueMove
  <2>3. \A q \in Requests : InputMove(r, q, Nowhere(Requests)[q])
    BY <2>1, Shifts DEF InputMove
  <2>4. QED
    BY <2>1, <2>2, <2>3, Shifts, MovesFrom DEF Drifts
<1>5. QED
  BY <1>1, <1>2, <1>3, <1>4, RequestEffect

(* A step of a node, by what it does to the queue and to the answer.        *)
LEMMA UnitSettled ==
    ASSUME TypeOK, NEW u \in Units, NEW r \in Requests, SameBut(u), pc' = pc, stage' = stage,
           QueueMove(r, u, 0) \/ QueueMove(r, u, 1),
           \/ node'[u].ev = node[u].ev \/ node'[u].ev = NoAnswer
           \/ ~(node'[u].ev.line.kind \in Tokens /\ node'[u].ev.line.for = r),
           \A q \in Requests : InputMove(r, q, 0)
    PROVE  Settled(r)
<1>1. PICK m \in [Requests -> Nat] : \A q \in Requests : m[q] = 0
  BY Shifts
<1>2. \A q \in Requests : InputMove(r, q, m[q])
  BY <1>1
<1>3. pc'[r] = pc[r] /\ stage'[r] = stage[r]
  OBVIOUS
<1>4. \A v \in Units : \/ node'[v].ev = node[v].ev \/ node'[v].ev = NoAnswer
                       \/ ~(node'[v].ev.line.kind \in Tokens /\ node'[v].ev.line.for = r)
  BY DEF SameBut
<1>5. \A v \in Units \ {u} : QueueMove(r, v, 0)
  BY DEF SameBut, QueueMove
<1>6. PICK d \in {0, 1} : QueueMove(r, u, d)
  OBVIOUS
<1>7. PICK k \in [Units -> Nat] : \A v \in Units : k[v] = IF v = u THEN d ELSE 0
  <2>1. CASE d = 0
    <3>1. /\ Nowhere(Units) \in [Units -> Nat]
          /\ \A v \in Units : Nowhere(Units)[v] = IF v = u THEN d ELSE 0
      BY <2>1, Shifts
    <3>2. QED
      BY <3>1
  <2>2. CASE d = 1
    <3>1. /\ Only(Units, u) \in [Units -> Nat]
          /\ \A v \in Units : Only(Units, u)[v] = IF v = u THEN d ELSE 0
      BY <2>2, Shifts
    <3>2. QED
      BY <3>1
  <2>3. QED
    BY <1>6, <2>1, <2>2
<1>8. ASSUME NEW v \in Units
      PROVE  QueueMove(r, v, k[v])
  <2>1. CASE v = u
    <3>1. k[v] = d
      BY <1>7, <2>1
    <3>2. QED
      BY <1>6, <2>1, <3>1
  <2>2. CASE v # u
    <3>1. k[v] = 0
      BY <1>7, <2>2
    <3>2. QED
      BY <1>5, <2>2, <3>1
  <2>3. QED
    BY <2>1, <2>2
<1>9. Moves(r, k, m)
  BY <1>2, <1>4, <1>8, MovesFrom
<1>10. QED
  BY <1>3, <1>9 DEF Settled, Drifts

LEMMA ArriveMoves ==
    ASSUME TypeOK, NEW r, NEW com, NEW t \in Seq(AnyLine), Arrive(com, t),
           \A l \in AnyLine : In(t, l) => ~(l.kind \in Tokens /\ l.for = r)
    PROVE  \A q \in Requests : InputMove(r, q, 0)
<1>1. ASSUME NEW q \in Requests
      PROVE  inbox'[q] = inbox[q] \o t \/ inbox'[q] = inbox[q]
  BY ArriveEffect
<1>2. QED
  BY <1>1 DEF InputMove

LEMMA WorkerLinesOnly ==
    \A l \in WorkerLine : l.kind \notin Tokens
  BY DEF WorkerLine, Line, Tokens

LEMMA RenewedSettled ==
    ASSUME TypeOK, NEW u \in Units, Renewed(u), UNCHANGED <<pc, stage, inbox>>,
           NEW r \in Requests
    PROVE  Settled(r)
<1>1. SameBut(u) /\ node'[u].events = <<>> /\ node'[u].ev = NoAnswer
  BY RenewedEffect DEF SameBut
<1>2. QueueMove(r, u, 0)
  BY <1>1 DEF QueueMove
<1>3. \A q \in Requests : InputMove(r, q, 0)
  BY DEF InputMove
<1>4. QED
  BY <1>1, <1>2, <1>3, UnitSettled

LEMMA ExitSettled ==
    ASSUME TypeOK, NEW u \in Units, Exit(u), NEW r \in Requests
    PROVE  Settled(r)
<1> DEFINE event == Head(node[u].events)
           n == event.id
<1>1. /\ node[u].events # <<>> /\ UNCHANGED <<pc, stage, inbox>>
      /\ ExitsNothing(u) \/ ExitsTask(u) \/ Renewed(u)
  BY ExitNode
<1>2. CASE Renewed(u)
  BY <1>1, <1>2, RenewedSettled
<1>3. CASE ExitsNothing(u) \/ ExitsTask(u)
  <2>1. /\ SameBut(u) /\ node'[u].events = Tail(node[u].events)
        /\ node'[u].ev.line.kind \in Parting
    <3>1. CASE ExitsNothing(u)
      BY <3>1 DEF ExitsNothing, Answering, LineFor, Parting
    <3>2. CASE ExitsTask(u)
      BY <3>2 DEF ExitsTask, Answering, LineFor, Parting
    <3>3. QED
      BY <1>3, <3>1, <3>2
  <2>2. node'[u].ev.line.kind \notin Tokens
    BY <2>1 DEF Parting, Tokens
  <2>3. QueueMove(r, u, 1)
    BY <1>1, <2>1 DEF QueueMove
  <2>4. \A q \in Requests : InputMove(r, q, 0)
    BY <1>1 DEF InputMove
  <2>5. QED
    BY <1>1, <2>1, <2>2, <2>3, <2>4, UnitSettled
<1>4. QED
  BY <1>1, <1>2, <1>3

LEMMA SetupSettled ==
    ASSUME TypeOK, NEW u \in Units, Setup(u), up, NEW r \in Requests,
           Head(node[u].events).req # r
    PROVE  Settled(r)
<1> DEFINE event == Head(node[u].events)
<1>1. /\ node[u].events # <<>> /\ UNCHANGED <<pc, stage, inbox>>
      /\ SameBut(u) /\ node'[u].events = Tail(node[u].events)
      /\ node'[u].ev = SetupAnswer(u, event, ids + 1)
  BY SetupNode
<1>2. node'[u].ev.line.for = event.req
  BY <1>1 DEF SetupAnswer, Answering, LineFor
<1>3. QueueMove(r, u, 1)
  BY <1>1 DEF QueueMove
<1>4. \A q \in Requests : InputMove(r, q, 0)
  BY <1>1 DEF InputMove
<1>5. QED
  BY <1>1, <1>2, <1>3, <1>4, UnitSettled

LEMMA AnswerSettled ==
    ASSUME TypeOK, NEW u \in Units, Answer(u), NEW r \in Requests,
           ~(node[u].ev.line.kind \in Tokens /\ node[u].ev.line.for = r)
    PROVE  Settled(r)
<1> DEFINE e == node[u].ev
           t == <<e.line>>
<1>1. /\ Arrive(e.to, t) /\ t \in Seq(AnyLine) /\ UNCHANGED <<pc, stage>>
      /\ SameBut(u) /\ node'[u].events = node[u].events /\ node'[u].ev = NoAnswer
  BY AnswerNode
<1>2. \A l : In(t, l) => l = e.line
  BY DEF In
<1> HIDE DEF t
<1>3. \A q \in Requests : InputMove(r, q, 0)
  BY <1>1, <1>2, ArriveMoves
<1>4. QueueMove(r, u, 0)
  BY <1>1 DEF QueueMove
<1>5. QED
  BY <1>1, <1>3, <1>4, UnitSettled

LEMMA WorkerSettled ==
    ASSUME TypeOK, NEW u \in Units, NEW r \in Requests,
           WorkerTake(u) \/ WorkerSend(u) \/ \E s \in Sid : Deliver(u, s)
    PROVE  Settled(r)
<1>1. ASSUME SameBut(u), node'[u].events = node[u].events, node'[u].ev = node[u].ev,
             UNCHANGED <<pc, stage>>,
             \/ inbox' = inbox
             \/ \E com : \E t \in Seq(AnyLine) :
                   Arrive(com, t) /\ \A l \in AnyLine : In(t, l) => l \in WorkerLine
      PROVE  Settled(r)
  <2>1. \A q \in Requests : InputMove(r, q, 0)
    <3>1. CASE inbox' = inbox
      BY <3>1 DEF InputMove
    <3>2. ASSUME NEW com, NEW t \in Seq(AnyLine), Arrive(com, t),
                 \A l \in AnyLine : In(t, l) => l \in WorkerLine
          PROVE  \A q \in Requests : InputMove(r, q, 0)
      <4>1. \A l \in AnyLine : In(t, l) => ~(l.kind \in Tokens /\ l.for = r)
        BY <3>2, WorkerLinesOnly
      <4>2. QED
        BY <3>2, <4>1, ArriveMoves
    <3>3. QED
      BY <1>1, <3>1, <3>2
  <2>2. QueueMove(r, u, 0)
    BY <1>1 DEF QueueMove
  <2>3. QED
    BY <1>1, <2>1, <2>2, UnitSettled
<1>2. CASE WorkerTake(u)
  BY <1>1, <1>2, WorkerTakeNode
<1>3. CASE WorkerSend(u)
  <2> DEFINE c == node[u].channel[node[u].worker.sid]
             l0 == WorkerLineOf(u)
             t == <<l0>>
  <2>1. /\ node[u].worker # NoJob /\ UNCHANGED <<pc, stage>>
        /\ \/ Renewed(u) /\ inbox' = inbox
           \/ Arrive(c.url, t) /\ WorkerNode(u)
           \/ inbox' = inbox /\ WorkerNode(u)
    BY <1>3, WorkerSendNode
  <2>2. l0 \in AnyLine /\ l0 \in WorkerLine
    BY <2>1, WorkerTypes
  <2>3. t \in Seq(AnyLine) /\ \A l : In(t, l) => l = l0
    BY <2>2 DEF In
  <2> HIDE DEF t, l0, c
  <2>4. WorkerNode(u) => /\ SameBut(u) /\ node'[u].events = node[u].events
                         /\ node'[u].ev = node[u].ev
    BY DEF WorkerNode
  <2>5. CASE Renewed(u) /\ inbox' = inbox
    BY <2>1, <2>5, RenewedSettled
  <2>6. CASE Arrive(c.url, t) /\ WorkerNode(u)
    <3>1. \A l \in AnyLine : In(t, l) => l \in WorkerLine
      BY <2>2, <2>3
    <3>2. \E com : \E y \in Seq(AnyLine) :
              Arrive(com, y) /\ \A l \in AnyLine : In(y, l) => l \in WorkerLine
      BY <2>3, <2>6, <3>1
    <3>3. QED
      BY <1>1, <2>1, <2>4, <2>6, <3>2
  <2>7. CASE inbox' = inbox /\ WorkerNode(u)
    BY <1>1, <2>1, <2>4, <2>7
  <2>8. QED
    BY <2>1, <2>5, <2>6, <2>7
<1>4. ASSUME NEW s \in Sid, Deliver(u, s)
      PROVE  Settled(r)
  <2> DEFINE c == node[u].channel[s]
  <2>1. /\ Arrive(c.url, c.held) /\ c.held \in Seq(WorkerLine) /\ c.held \in Seq(AnyLine)
        /\ UNCHANGED <<pc, stage>>
        /\ SameBut(u) /\ node'[u].events = node[u].events /\ node'[u].ev = node[u].ev
    BY <1>4, DeliverNode
  <2> HIDE DEF c
  <2>2. \A l \in AnyLine : In(c.held, l) => l \in WorkerLine
    BY <2>1, InType
  <2>3. \E com : \E y \in Seq(AnyLine) :
            Arrive(com, y) /\ \A l \in AnyLine : In(y, l) => l \in WorkerLine
    BY <2>1, <2>2
  <2>4. QED
    BY <1>1, <2>1, <2>3
<1>5. QED
  BY <1>2, <1>3, <1>4

(* No answer to a setup of r is anywhere.                                   *)
NoToken(r) ==
    /\ \A u \in Units, i \in Nat : ~SetupQueued(r, u, i)
    /\ \A u \in Units : ~SetupHandled(r, u)
    /\ \A q \in Requests, i \in Nat : ~SetupReceived(r, q, i)

LEMMA NoTokenYet ==
    ASSUME NEW r \in Requests, TokenOf(r), pc[r] # "setup"
    PROVE  NoToken(r)
  BY DEF TokenOf, NoToken

LEMMA NoTokenStays ==
    ASSUME NEW r \in Requests, NoToken(r), Drifts(r)
    PROVE  NoToken(r)' /\ TokenOf(r)'
<1>1. PICK k \in [Units -> Nat], m \in [Requests -> Nat] : Moves(r, k, m)
  BY DEF Drifts
<1>2. /\ \A v \in Units, i \in Nat : i + k[v] \in Nat
      /\ \A q \in Requests, i \in Nat : i + m[q] \in Nat
  OBVIOUS
<1>3. /\ \A v \in Units, i \in Nat : ~SetupQueued(r, v, i)'
      /\ \A v \in Units : ~SetupHandled(r, v)'
      /\ \A q \in Requests, i \in Nat : ~SetupReceived(r, q, i)'
  <2>1. \A v \in Units, i \in Nat : ~SetupQueued(r, v, i)'
    <3>1. ASSUME NEW v \in Units, NEW i \in Nat, SetupQueued(r, v, i)'
          PROVE  FALSE
      <4>1. SetupQueued(r, v, i + k[v]) /\ i + k[v] \in Nat
        BY <1>1, <1>2, <3>1 DEF Moves, SetupQueued
      <4>2. QED
        BY <4>1 DEF NoToken
    <3>2. QED
      BY <3>1
  <2>2. \A v \in Units : ~SetupHandled(r, v)'
    BY <1>1 DEF Moves, NoToken, SetupHandled
  <2>3. \A q \in Requests, i \in Nat : ~SetupReceived(r, q, i)'
    <3>1. \A q \in Requests, i \in Nat : ~SetupReceived(r, q, i)
      BY DEF NoToken
    <3>2. QED
      BY <1>1, <1>2, <3>1, ZenonT(60) DEF Moves, SetupReceived
  <2>4. QED
    BY <2>1, <2>2, <2>3
<1>4. QED
  BY <1>3 DEF NoToken, TokenOf

(* The only token was the first line that r has just read.                  *)
LEMMA TokenRead ==
    ASSUME TypeOK, NEW r \in Requests, TokenOf(r), inbox[r] # <<>>,
           Head(inbox[r]).kind \in Tokens, Head(inbox[r]).for = r,
           inbox'[r] \in {Tail(inbox[r]), <<>>},
           \A q \in Requests \ {r} : inbox'[q] = inbox[q],
           \A v \in Units : node'[v].events = node[v].events /\ node'[v].ev = node[v].ev
    PROVE  TokenOf(r)'
<1>1. inbox[r] \in Seq(AnyLine)
  BY DEF TypeOK
<1>2. /\ Head(inbox[r]) = inbox[r][1] /\ 1 \in 1..Len(inbox[r]) /\ Len(inbox[r]) \in Nat
      /\ \A i \in 1..Len(Tail(inbox[r])) :
            i + 1 \in 1..Len(inbox[r]) /\ Tail(inbox[r])[i] = inbox[r][i + 1]
  BY <1>1, TakingFirst
<1>3. SetupReceived(r, r, 1) /\ 1 \in Nat
  BY <1>2 DEF SetupReceived
<1>4. /\ \A v \in Units, i \in Nat : ~SetupQueued(r, v, i)
      /\ \A v \in Units : ~SetupHandled(r, v)
      /\ \A q \in Requests, i \in Nat : SetupReceived(r, q, i) => q = r /\ i = 1
  BY <1>3 DEF TokenOf
<1>5. ASSUME NEW q \in Requests, NEW i \in Nat, i \in 1..Len(inbox'[q]),
             inbox'[q][i].kind \in Tokens, inbox'[q][i].for = r
      PROVE  FALSE
  <2>1. CASE q # r
    BY <1>4, <1>5, <2>1 DEF SetupReceived
  <2>2. CASE q = r /\ inbox'[r] = <<>>
    BY <1>5, <2>2
  <2>3. CASE q = r /\ inbox'[r] = Tail(inbox[r])
    <3>1. i + 1 \in 1..Len(inbox[r]) /\ inbox'[r][i] = inbox[r][i + 1]
      BY <1>2, <1>5, <2>3
    <3>2. SetupReceived(r, r, i + 1) /\ i + 1 \in Nat /\ i + 1 # 1
      BY <1>5, <2>3, <3>1 DEF SetupReceived
    <3>3. QED
      BY <1>4, <3>2
  <2>4. QED
    BY <2>1, <2>2, <2>3
<1>6. /\ \A v \in Units, i \in Nat : ~SetupQueued(r, v, i)'
      /\ \A v \in Units : ~SetupHandled(r, v)'
  BY <1>4 DEF SetupQueued, SetupHandled
<1>7. \A q \in Requests, i \in Nat : ~SetupReceived(r, q, i)'
  BY <1>5 DEF SetupReceived
<1>8. QED
  BY <1>6, <1>7 DEF TokenOf

(* The request has just asked for a setup.                                  *)
LEMMA TokenAsked ==
    ASSUME TypeOK, NEW r \in Requests, NoToken(r), Contacts(r, "setup", NoId)
    PROVE  TokenOf(r)'
<1>1. PICK u \in Units : u = UnitOf(r)
  BY UnitOfType
<1>2. /\ pc'[r] = "setup" /\ stage'[r] = stage[r]
      /\ \A q \in Requests : inbox'[q] = inbox[q]
  BY DEF Contacts, OthersStay
<1>3. UnitOf(r)' = u
  BY <1>1, <1>2 DEF UnitOf
<1>4. PICK a \in Event : a = AskedEvent(r, "setup", NoId)
  BY ContactsTyped DEF AskedEvent
<1>5. \/ node' = node
      \/ /\ SameBut(u) /\ node'[u].events = Append(node[u].events, a)
         /\ node'[u].ev = node[u].ev
  BY <1>1, <1>4, ContactsNode
<1>6. /\ \A v \in Units : ~SetupHandled(r, v)'
      /\ \A q \in Requests, i \in Nat : ~SetupReceived(r, q, i)'
  <2>1. \A v \in Units : node'[v].ev = node[v].ev
    BY <1>5 DEF SameBut
  <2>2. QED
    BY <1>2, <2>1 DEF NoToken, SetupHandled, SetupReceived
<1>7. ASSUME NEW v \in Units, NEW i \in Nat, i \in 1..Len(node'[v].events),
             node'[v].events[i].kind = "setup", node'[v].events[i].req = r
      PROVE  v = u /\ i = Len(node[u].events) + 1
  <2>1. node'[v].events # node[v].events
    BY <1>7 DEF NoToken, SetupQueued
  <2>2. v = u /\ node'[u].events = Append(node[u].events, a)
    BY <1>5, <2>1 DEF SameBut
  <2>3. node[u].events \in Seq(Event)
    BY NodeTypes
  <2>4. /\ Len(node'[u].events) = Len(node[u].events) + 1 /\ Len(node[u].events) \in Nat
        /\ \A j \in 1..Len(node[u].events) : node'[u].events[j] = node[u].events[j]
    BY <2>2, <2>3, Appending
  <2>5. i \notin 1..Len(node[u].events)
    BY <1>7, <2>2, <2>4 DEF NoToken, SetupQueued
  <2>6. QED
    BY <1>7, <2>2, <2>4, <2>5
<1>8. \A v \in Units, i \in Nat : SetupQueued(r, v, i)' => v = u /\ i = Len(node[u].events) + 1
  BY <1>7 DEF SetupQueued
<1>9. QED
  BY <1>2, <1>3, <1>6, <1>8 DEF TokenOf

(* The node handles the setup of r.                                         *)
LEMMA TokenHandled ==
    ASSUME TypeOK, NEW u \in Units, Setup(u), up, NEW r \in Requests, TokenOf(r),
           Head(node[u].events).req = r
    PROVE  /\ TokenOf(r)' /\ pc'[r] = "setup" /\ UnitOf(r) = u
           /\ \A v \in Units, i \in Nat : ~SetupQueued(r, v, i)'
           /\ \A v \in Units : SetupHandled(r, v)' => v = u
           /\ \A q \in Requests, i \in Nat : ~SetupReceived(r, q, i)'
<1>1. /\ node[u].events # <<>> /\ Head(node[u].events).kind = "setup"
      /\ UNCHANGED <<pc, stage, inbox>> /\ SameBut(u)
      /\ node'[u].events = Tail(node[u].events)
  BY SetupNode
<1>2. node[u].events \in Seq(Event)
  BY NodeTypes
<1>3. /\ Head(node[u].events) = node[u].events[1] /\ 1 \in 1..Len(node[u].events)
      /\ Len(node[u].events) \in Nat
      /\ \A i \in 1..Len(Tail(node[u].events)) :
            /\ i + 1 \in 1..Len(node[u].events)
            /\ Tail(node[u].events)[i] = node[u].events[i + 1]
  BY <1>1, <1>2, TakingFirst
<1>4. SetupQueued(r, u, 1) /\ 1 \in Nat
  BY <1>1, <1>3 DEF SetupQueued
<1>5. /\ pc[r] = "setup" /\ UnitOf(r) = u /\ \A v \in Units : ~SetupHandled(r, v)
      /\ \A v \in Units, i \in Nat : SetupQueued(r, v, i) => v = u /\ i = 1
      /\ \A q \in Requests, i \in Nat : ~SetupReceived(r, q, i)
  BY <1>4 DEF TokenOf
<1>6. ASSUME NEW v \in Units, NEW i \in Nat, i \in 1..Len(node'[v].events),
             node'[v].events[i].kind = "setup", node'[v].events[i].req = r
      PROVE  FALSE
  <2>1. CASE v # u
    BY <1>1, <1>5, <1>6, <2>1 DEF SetupQueued, SameBut
  <2>2. CASE v = u
    <3>1. i + 1 \in 1..Len(node[u].events) /\ node'[u].events[i] = node[u].events[i + 1]
      BY <1>1, <1>3, <1>6, <2>2
    <3>2. SetupQueued(r, u, i + 1) /\ i + 1 \in Nat /\ i + 1 # 1
      BY <1>6, <2>2, <3>1 DEF SetupQueued
    <3>3. QED
      BY <1>5, <3>2
  <2>3. QED
    BY <2>1, <2>2
<1>7. /\ \A v \in Units, i \in Nat : ~SetupQueued(r, v, i)'
      /\ \A v \in Units : SetupHandled(r, v)' => v = u
      /\ \A q \in Requests, i \in Nat : ~SetupReceived(r, q, i)'
      /\ pc'[r] = "setup"
  <2>1. \A v \in Units \ {u} : ~SetupHandled(r, v)'
    BY <1>1, <1>5 DEF SetupHandled, SameBut
  <2>2. \A v \in Units, i \in Nat : ~SetupQueued(r, v, i)'
    BY <1>6 DEF SetupQueued
  <2>3. QED
    BY <1>1, <1>5, <2>1, <2>2 DEF SetupReceived
<1>8. QED
  BY <1>5, <1>7 DEF TokenOf

(* One connection at most is behind a TCP session.                          *)
LEMMA OneReader ==
    ASSUME TypeOK, ConnInv, NEW com
    PROVE  \A p, q \in Readers(com) : p = q
<1>1. ASSUME NEW p \in Readers(com), NEW q \in Readers(com)
      PROVE  p = q
  <2>1. /\ p \in Requests /\ q \in Requests /\ conn[p].com = com /\ conn[q].com = com
        /\ conn[p].epoch = epoch /\ conn[q].epoch = epoch /\ conn[p].com # NoCom
    BY DEF Readers, Connected
  <2>2. conn[p] \in [com : Nat, epoch : Epochs] /\ conn[q] \in [com : Nat, epoch : Epochs]
    BY <2>1 DEF TypeOK
  <2>3. conn[p] = conn[q]
    BY <2>1, <2>2
  <2>4. QED
    BY <2>1, <2>3 DEF ConnInv
<1>2. QED
  BY <1>1

(* The node's answer to the setup of r reaches a connection.                *)
LEMMA TokenAnswered ==
    ASSUME TypeOK, ConnInv, NEW u \in Units, Answer(u), NEW r \in Requests, TokenOf(r),
           node[u].ev.line.kind \in Tokens, node[u].ev.line.for = r
    PROVE  TokenOf(r)'
<1> DEFINE e == node[u].ev
           t == <<e.line>>
<1>1. /\ e # NoAnswer /\ Arrive(e.to, t) /\ t \in Seq(AnyLine) /\ UNCHANGED <<pc, stage>>
      /\ SameBut(u) /\ node'[u].events = node[u].events /\ node'[u].ev = NoAnswer
      /\ Len(t) = 1
  BY AnswerNode
<1>2. SetupHandled(r, u)
  BY <1>1 DEF SetupHandled
<1>3. /\ pc[r] = "setup" /\ \A v \in Units : SetupHandled(r, v) => v = u
      /\ \A v \in Units, i \in Nat : ~SetupQueued(r, v, i)
      /\ \A q \in Requests, i \in Nat : ~SetupReceived(r, q, i)
  BY <1>2 DEF TokenOf
<1>4. /\ pc'[r] = "setup"
      /\ \A v \in Units : ~SetupHandled(r, v)'
      /\ \A v \in Units, i \in Nat : ~SetupQueued(r, v, i)'
  <2>1. \A v \in Units : node'[v].events = node[v].events
    BY <1>1 DEF SameBut
  <2>2. \A v \in Units : v = u \/ node'[v].ev = node[v].ev
    BY <1>1 DEF SameBut
  <2>3. QED
    BY <1>1, <1>3, <2>1, <2>2 DEF SetupHandled, SetupQueued
<1> HIDE DEF t
<1>5. ASSUME NEW q \in Requests, NEW i \in Nat, i \in 1..Len(inbox'[q]),
             inbox'[q][i].kind \in Tokens, inbox'[q][i].for = r
      PROVE  q \in Readers(e.to) /\ i = Len(inbox[q]) + 1
  <2>1. inbox'[q] # inbox[q]
    BY <1>3, <1>5 DEF SetupReceived
  <2>2. q \in Readers(e.to) /\ inbox'[q] = inbox[q] \o t
    BY <1>1, <2>1, ArriveEffect
  <2>3. inbox[q] \in Seq(AnyLine)
    BY DEF TypeOK
  <2>4. /\ Len(inbox'[q]) = Len(inbox[q]) + 1 /\ Len(inbox[q]) \in Nat
        /\ \A j \in 1..Len(inbox[q]) : inbox'[q][j] = inbox[q][j]
    <3>1. t \in Seq(AnyLine) /\ Len(t) = 1
      BY <1>1
    <3>2. PICK x \in Seq(AnyLine) : x = inbox[q]
      BY <2>3
    <3>3. /\ Len(x \o t) = Len(x) + 1 /\ Len(x) \in Nat
          /\ \A j \in 1..Len(x) : (x \o t)[j] = x[j]
      BY <3>1, OneLonger
    <3>4. inbox'[q] = x \o t
      BY <2>2, <3>2
    <3>5. QED
      BY <3>2, <3>3, <3>4
  <2>5. i \notin 1..Len(inbox[q])
    BY <1>3, <1>5, <2>4 DEF SetupReceived
  <2>6. QED
    BY <1>5, <2>2, <2>4, <2>5
<1> HIDE DEF e
<1>6. \A q \in Requests, i \in Nat :
          SetupReceived(r, q, i)' => q \in Readers(e.to) /\ i = Len(inbox[q]) + 1
  BY <1>5 DEF SetupReceived
<1>7. \A q, p \in Requests, i, j \in Nat :
          SetupReceived(r, q, i)' /\ SetupReceived(r, p, j)' => q = p /\ i = j
  BY <1>6, OneReader
<1>8. QED
  BY <1>4, <1>7 DEF TokenOf

LEMMA TokenKept ==
    ASSUME GatewayInv, TokenInv, [Next]_vars
    PROVE  TokenInv'
<1>1. TypeOK /\ StageInv /\ ConnInv
  BY DEF GatewayInv
<1>2. ASSUME NEW r \in Requests, lapses \subseteq lapses', Patient(r)'
      PROVE  Patient(r) /\ TokenOf(r)
  BY <1>2 DEF Patient, TokenInv
<1>3. ASSUME NEW x \in Requests, Request(x), NEW r \in Requests, Patient(r)'
      PROVE  TokenOf(r)'
  <2>1. /\ QuitsWell(x) \/ Asking(x) \/ ReadsOn(x) \/ Resumes(x)
        /\ lapses \subseteq lapses'
    BY <1>1, <1>3, RequestEffect
  <2>2. TokenOf(r)
    BY <1>2, <1>3, <2>1
  <2>3. CASE r # x
    <3>1. Settled(r)
      BY <1>1, <1>3, <2>3, RequestOthers, RequestDrifts DEF Settled
    <3>2. QED
      BY <2>2, <3>1, TokenMoved
  <2>4. CASE r = x /\ pc[r] = "open" /\ Asking(r)
    <3>1. NoToken(r)
      BY <2>2, <2>4, NoTokenYet
    <3>2. Contacts(r, "setup", NoId)
      BY <2>4 DEF Asking
    <3>3. QED
      BY <1>1, <3>1, <3>2, TokenAsked
  <2>5. CASE r = x /\ pc[r] # "setup" /\ ~(pc[r] = "open" /\ Asking(r))
    <3>1. Drifts(r)
      BY <1>1, <1>3, <2>5, RequestDrifts
    <3>2. NoToken(r)
      BY <2>2, <2>5, NoTokenYet
    <3>3. QED
      BY <3>1, <3>2, NoTokenStays
  <2>6. CASE r = x /\ pc[r] = "setup"
    <3>1. <<r, "setup">> \notin lapses'
      BY <1>3 DEF Patient
    <3>2. CASE QuitsWell(r)
      <4>1. /\ inbox[r] # <<>> /\ Head(inbox[r]).for = r /\ Head(inbox[r]).kind \in Tokens
        BY <2>6, <3>1, <3>2 DEF QuitsWell
      <4>2. /\ inbox'[r] = <<>> /\ \A q \in Requests \ {r} : inbox'[q] = inbox[q]
            /\ node' = node
        BY <3>2 DEF QuitsWell, Quits, OthersStay
      <4>3. QED
        BY <1>1, <2>2, <4>1, <4>2, TokenRead
    <3>3. CASE ReadsOn(r)
      <4>1. /\ inbox[r] # <<>> /\ inbox'[r] = Tail(inbox[r])
            /\ \A q \in Requests \ {r} : inbox'[q] = inbox[q]
        BY <3>3 DEF ReadsOn, Reads, OthersStay
      <4>2. /\ Head(inbox[r]).for = r /\ Head(inbox[r]).kind = "setup"
            /\ node' = node \/ Heard(r, Head(inbox[r]).id)
        BY <2>6, <3>1, <3>3 DEF ReadsOn
      <4>3. Head(inbox[r]).id \in Ids
        <5>1. inbox[r] \in Seq(AnyLine)
          BY <1>1 DEF TypeOK
        <5>2. Head(inbox[r]) \in AnyLine
          BY <4>1, <5>1, TakingFirst
        <5>3. QED
          BY <5>2 DEF AnyLine, Line
      <4>4. \A v \in Units : node'[v].events = node[v].events /\ node'[v].ev = node[v].ev
        <5>1. CASE node' = node
          BY <5>1
        <5>2. CASE Heard(r, Head(inbox[r]).id)
          BY <1>1, <4>3, <5>2, HeardNode DEF SameBut
        <5>3. QED
          BY <4>2, <5>1, <5>2
      <4>5. Head(inbox[r]).kind \in Tokens
        BY <4>2 DEF Tokens
      <4>6. QED
        BY <1>1, <2>2, <4>1, <4>2, <4>4, <4>5, TokenRead
    <3>4. CASE Asking(r) \/ Resumes(r)
      BY <2>6, <3>4 DEF Asking, Resumes
    <3>5. QED
      BY <2>1, <2>6, <3>2, <3>3, <3>4
  <2>7. QED
    BY <2>3, <2>4, <2>5, <2>6
<1>4. ASSUME NEW r \in Requests, TokenOf(r), Settled(r)
      PROVE  TokenOf(r)'
  BY <1>4, TokenMoved
<1>5. ASSUME NEW u \in Units, NodeStep(u) \/ NodeRestart(u), NEW r \in Requests, Patient(r)'
      PROVE  TokenOf(r)'
  <2>1. lapses' = lapses
    BY <1>1, <1>5, NodeUserEffect
  <2>2. TokenOf(r)
    BY <1>2, <1>5, <2>1
  <2>3. CASE Setup(u)
    <3>1. CASE ~up
      <4>1. Renewed(u) /\ UNCHANGED <<pc, stage, inbox>>
        BY <2>3, <3>1, SetupDown, Zenon DEF userVars
      <4>2. QED
        BY <1>1, <1>4, <2>2, <4>1, RenewedSettled
    <3>2. CASE up /\ Head(node[u].events).req = r
      BY <1>1, <2>2, <2>3, <3>2, TokenHandled
    <3>3. CASE up /\ Head(node[u].events).req # r
      BY <1>1, <1>4, <2>2, <2>3, <3>3, SetupSettled
    <3>4. QED
      BY <3>1, <3>2, <3>3
  <2>4. CASE Exit(u)
    BY <1>1, <1>4, <2>2, <2>4, ExitSettled
  <2>5. CASE Answer(u)
    <3>1. CASE node[u].ev.line.kind \in Tokens /\ node[u].ev.line.for = r
      BY <1>1, <2>2, <2>5, <3>1, TokenAnswered
    <3>2. CASE ~(node[u].ev.line.kind \in Tokens /\ node[u].ev.line.for = r)
      BY <1>1, <1>4, <2>2, <2>5, <3>2, AnswerSettled
    <3>3. QED
      BY <3>1, <3>2
  <2>6. CASE WorkerTake(u) \/ WorkerSend(u) \/ \E s \in Sid : Deliver(u, s)
    BY <1>1, <1>4, <2>2, <2>6, WorkerSettled
  <2>7. CASE NodeRestart(u)
    <3>1. Renewed(u) /\ UNCHANGED <<pc, stage, inbox>>
      BY <2>7, RestartEffect, Zenon DEF userVars
    <3>2. QED
      BY <1>1, <1>4, <2>2, <3>1, RenewedSettled
  <2>8. QED
    BY <1>5, <2>3, <2>4, <2>5, <2>6, <2>7 DEF NodeStep
<1>6. ASSUME UNCHANGED <<userVars, node, lapses>>
      PROVE  TokenInv'
  <2>1. UNCHANGED <<pc, stage, inbox, node, lapses>>
    BY <1>6, Zenon DEF userVars
  <2>2. QED
    BY <2>1, SMTT(30)
    DEF TokenInv, TokenOf, Patient, SetupQueued, SetupHandled, SetupReceived, UnitOf
<1>7. CASE UnitManagerEnds
  BY <1>6, <1>7, Zenon DEF UnitManagerEnds
<1>8. CASE UnitManagerStarts
  BY <1>6, <1>8, Zenon DEF UnitManagerStarts
<1>9. CASE UNCHANGED vars
  BY <1>6, <1>9, Zenon DEF vars
<1>10. QED
  BY <1>3, <1>5, <1>7, <1>8, <1>9 DEF Next, TokenInv

LEMMA TokenInit == ASSUME Init PROVE TokenInv
<1>1. \A u \in Units : node[u].events = <<>> /\ node[u].ev = NoAnswer
  BY DEF Init, FreshNode
<1>2. \A q \in Requests : inbox[q] = <<>>
  BY DEF Init
<1>3. /\ \A r, u \in Requests \cup Units, i \in Nat : u \in Units => ~SetupQueued(r, u, i)
      /\ \A r, u \in Requests \cup Units : u \in Units => ~SetupHandled(r, u)
      /\ \A r, q \in Requests, i \in Nat : ~SetupReceived(r, q, i)
  BY <1>1, <1>2 DEF SetupQueued, SetupHandled, SetupReceived
<1>4. QED
  BY <1>3 DEF TokenInv, TokenOf

------------------------------------------------------------------------------
(* The sessions of requests that did not lapse are given back.              *)

Back(r, u, n) == ExitComes(u, n) \/ NewSession(r, u, n) \/ CurrentSession(r, u, n)

(* The node keeps its session n, with its owner and its exit.               *)
Carries(u, n) ==
    /\ node'[u].tasks[n] = node[u].tasks[n] /\ node'[u].alive = node[u].alive
    /\ ExitComes(u, n) => ExitComes(u, n)'
    /\ owner'[<<node[u].tasks[n], n>>] = owner[<<node[u].tasks[n], n>>]

LEMMA ExitStays ==
    ASSUME TypeOK, NEW u \in Units, NEW n, ExitComes(u, n),
           \/ node'[u].events = node[u].events
           \/ \E e \in Event : node'[u].events = Append(node[u].events, e)
           \/ /\ node[u].events # <<>> /\ node'[u].events = Tail(node[u].events)
              /\ ~(Head(node[u].events).kind = "exit" /\ Head(node[u].events).id = n)
    PROVE  ExitComes(u, n)'
<1>1. node[u].events \in Seq(Event)
  BY NodeTypes
<1>2. PICK i \in 1..Len(node[u].events) :
          node[u].events[i].kind = "exit" /\ node[u].events[i].id = n
  BY <1>1 DEF ExitComes
<1>3. CASE node'[u].events = node[u].events
  BY <1>3 DEF ExitComes
<1>4. CASE \E e \in Event : node'[u].events = Append(node[u].events, e)
  <2>1. PICK e \in Event : node'[u].events = Append(node[u].events, e)
    BY <1>4
  <2>2. /\ node'[u].events \in Seq(Event) /\ Len(node[u].events) \in Nat
        /\ Len(node'[u].events) = Len(node[u].events) + 1
        /\ node'[u].events[i] = node[u].events[i]
    BY <1>1, <2>1, Appending
  <2>3. i \in DOMAIN node'[u].events
    BY <2>2
  <2>4. QED
    BY <1>2, <2>2, <2>3 DEF ExitComes
<1>5. CASE /\ node[u].events # <<>> /\ node'[u].events = Tail(node[u].events)
           /\ ~(Head(node[u].events).kind = "exit" /\ Head(node[u].events).id = n)
  <2>1. /\ Tail(node[u].events) \in Seq(Event) /\ Head(node[u].events) = node[u].events[1]
        /\ Len(Tail(node[u].events)) = Len(node[u].events) - 1
        /\ Len(node[u].events) \in Nat
        /\ \A j \in 1..Len(Tail(node[u].events)) : Tail(node[u].events)[j] = node[u].events[j + 1]
    BY <1>1, <1>5, TakingFirst
  <2>2. i # 1
    BY <1>2, <1>5, <2>1
  <2>3. i - 1 \in 1..Len(Tail(node[u].events)) /\ (i - 1) + 1 = i
    BY <2>1, <2>2
  <2>4. node'[u].events[i - 1] = node[u].events[i] /\ i - 1 \in DOMAIN node'[u].events
    BY <1>5, <2>1, <2>3
  <2>5. QED
    BY <1>2, <2>4 DEF ExitComes
<1>6. QED
  BY <1>3, <1>4, <1>5

LEMMA RequestCarries ==
    ASSUME TypeOK, StageInv, NEW x \in Requests, Request(x), NEW u \in Units, NEW n \in Ids
    PROVE  Carries(u, n)
<1>1. CASE node' = node /\ owner' = owner
  BY <1>1 DEF Carries, ExitComes
<1>2. ASSUME NEW kind, NEW k, Contacts(x, kind, k),
             (kind = "setup" /\ k = NoId) \/ (kind = "exit" /\ k \in Ids)
      PROVE  Carries(u, n)
  <2>1. owner' = owner
    BY <1>2 DEF Contacts
  <2>2. PICK v \in Units : v = UnitOf(x)
    BY UnitOfType
  <2>3. PICK a \in Event : a = AskedEvent(x, kind, k)
    BY <1>2, ContactsTyped DEF AskedEvent
  <2>4. \/ node' = node
        \/ /\ SameBut(v) /\ node'[v].events = Append(node[v].events, a)
           /\ node'[v].tasks = node[v].tasks /\ node'[v].alive = node[v].alive
    BY <1>2, <2>2, <2>3, ContactsNode
  <2>5. CASE node' = node \/ u # v
    BY <2>1, <2>4, <2>5 DEF Carries, ExitComes, SameBut
  <2>6. CASE u = v /\ node' # node
    <3>1. ExitComes(u, n) => ExitComes(u, n)'
      BY <2>4, <2>6, ExitStays
    <3>2. QED
      BY <2>1, <2>4, <2>6, <3>1 DEF Carries
  <2>7. QED
    BY <2>5, <2>6
<1>3. ASSUME NEW k \in Ids, Heard(x, k), owner' = owner
      PROVE  Carries(u, n)
  <2>1. /\ node'[u].events = node[u].events /\ node'[u].tasks = node[u].tasks
        /\ node'[u].alive = node[u].alive
    BY <1>3, HeardNode DEF SameBut
  <2>2. QED
    BY <1>3, <2>1 DEF Carries, ExitComes
<1>4. CASE QuitsWell(x)
  BY <1>1, <1>4 DEF QuitsWell, Quits
<1>5. CASE Asking(x)
  <2>1. pc[x] = "cleanup" => work[x] \in Ids
    BY DEF StageInv
  <2>2. QED
    BY <1>2, <1>5, <2>1 DEF Asking
<1>6. CASE ReadsOn(x)
  <2>1. inbox[x] # <<>> /\ owner' = owner
    BY <1>6 DEF ReadsOn, Reads
  <2>2. inbox[x] \in Seq(AnyLine)
    BY DEF TypeOK
  <2>3. Head(inbox[x]) \in AnyLine
    BY <2>1, <2>2, TakingFirst
  <2>4. Head(inbox[x]).id \in Ids
    BY <2>3 DEF AnyLine, Line
  <2>5. pc[x] = "infer" => work[x] \in Ids
    BY DEF StageInv
  <2>6. \/ node' = node \/ Heard(x, Head(inbox[x]).id)
        \/ pc[x] = "infer" /\ Heard(x, work[x])
    BY <1>6 DEF ReadsOn
  <2>7. QED
    BY <1>1, <1>3, <2>1, <2>4, <2>5, <2>6
<1>7. CASE Resumes(x)
  BY <1>1, <1>7 DEF Resumes
<1>8. QED
  BY <1>4, <1>5, <1>6, <1>7, RequestEffect

(* A node makes sessions in Setup only.                                     *)
NewTask(u, n) == Setup(u) /\ up /\ ~Full(u) /\ n = ids + 1

LEMMA SetupCarries ==
    ASSUME TypeOK, MadeInv, NEW u \in Units, Setup(u), up, NEW v \in Units, NEW n \in Ids,
           node'[v].tasks[n] # NoEpoch, ~(v = u /\ NewTask(u, n))
    PROVE  Carries(v, n)
<1> DEFINE new == <<epoch, ids + 1>>
<1>1. /\ ids + 1 \in Ids /\ new \in Sid
      /\ \A s \in Sid \ {new} : owner'[s] = owner[s]
      /\ SameBut(u) /\ node'[u].alive = node[u].alive
      /\ node[u].events # <<>> /\ Head(node[u].events).kind = "setup"
      /\ node'[u].events = Tail(node[u].events)
      /\ node'[u].tasks[ids + 1] = (IF Full(u) THEN node[u].tasks[ids + 1] ELSE epoch)
      /\ \A m \in Ids \ {ids + 1} : node'[u].tasks[m] = node[u].tasks[m]
  BY SetupNode
<1>2. node'[v].tasks[n] = node[v].tasks[n] /\ node'[v].alive = node[v].alive
  BY <1>1 DEF NewTask, SameBut
<1>3. ExitComes(v, n) => ExitComes(v, n)'
  <2>1. CASE v = u
    BY <1>1, <2>1, ExitStays
  <2>2. CASE v # u
    BY <1>1, <2>2 DEF SameBut, ExitComes
  <2>3. QED
    BY <2>1, <2>2
<1>4. /\ node[v].tasks[n] \in Epochs /\ <<node[v].tasks[n], n>> \in Sid
      /\ <<node[v].tasks[n], n>> # new
  <2>1. node[v].tasks \in [Ids -> Epochs \cup {NoEpoch}]
    BY NodeTypes
  <2>2. Made(<<node[v].tasks[n], n>>)
    BY <1>2 DEF MadeInv
  <2>3. node[v].tasks[n] \in Epochs
    BY <1>2, <2>1
  <2>4. ids \in Nat /\ epoch \in Nat
    BY GatewayAssumption DEF TypeOK, Epochs
  <2>5. ~(node[v].tasks[n] = epoch /\ n = ids + 1)
    BY <2>2, <2>4 DEF Made
  <2>6. QED
    BY <2>3, <2>5 DEF Sid
<1>5. QED
  BY <1>1, <1>2, <1>3, <1>4 DEF Carries

LEMMA NodeCarries ==
    ASSUME TypeOK, MadeInv, NEW u \in Units, NodeStep(u) \/ NodeRestart(u),
           NEW v \in Units, NEW n \in Ids,
           node'[v].tasks[n] # NoEpoch, ~(v = u /\ NewTask(u, n))
    PROVE  Carries(v, n)
<1>1. ASSUME SameBut(u), owner' = owner, v # u
      PROVE  Carries(v, n)
  BY <1>1 DEF Carries, SameBut, ExitComes
<1>2. ASSUME SameBut(u), owner' = owner, node'[u].events = node[u].events,
             node'[u].tasks = node[u].tasks, node'[u].alive = node[u].alive
      PROVE  Carries(v, n)
  BY <1>2 DEF Carries, SameBut, ExitComes
<1>3. ASSUME Renewed(u), UNCHANGED <<umVars, userVars, owner, lapses>>
      PROVE  Carries(v, n)
  <2>1. SameBut(u) /\ owner' = owner /\ node'[u].tasks[n] = NoEpoch
    BY <1>3, RenewedNode
  <2>2. QED
    BY <1>1, <2>1
<1>4. CASE Setup(u)
  BY <1>3, <1>4, SetupDown, SetupCarries
<1>5. CASE NodeRestart(u)
  BY <1>3, <1>5, RestartEffect
<1>6. CASE Exit(u)
  <2> DEFINE event == Head(node[u].events)
  <2>1. /\ owner' = owner /\ event.id \in Ids /\ node[u].events # <<>>
        /\ \/ ExitsNothing(u) \/ ExitsTask(u) \/ Renewed(u)
    BY <1>6, ExitNode
  <2>2. CASE Renewed(u)
    <3>1. UNCHANGED <<umVars, userVars, owner, lapses>>
      BY <1>6, Zenon DEF Exit
    <3>2. QED
      BY <1>3, <2>2, <3>1
  <2>3. CASE ExitsNothing(u) \/ ExitsTask(u)
    <3>1. /\ SameBut(u) /\ node'[u].alive = node[u].alive
          /\ node'[u].events = Tail(node[u].events)
          /\ node'[u].tasks[event.id] = NoEpoch
          /\ \A m \in Ids \ {event.id} : node'[u].tasks[m] = node[u].tasks[m]
      <4>1. CASE ExitsNothing(u)
        BY <2>1, <4>1 DEF ExitsNothing
      <4>2. CASE ExitsTask(u)
        BY <4>2 DEF ExitsTask
      <4>3. QED
        BY <2>3, <4>1, <4>2
    <3>2. CASE v = u
      <4>1. n # event.id
        BY <3>1, <3>2
      <4>2. ExitComes(u, n) => ExitComes(u, n)'
        BY <2>1, <3>1, <4>1, ExitStays
      <4>3. QED
        BY <2>1, <3>1, <3>2, <4>1, <4>2 DEF Carries
    <3>3. QED
      BY <1>1, <2>1, <3>1, <3>2
  <2>4. QED
    BY <2>1, <2>2, <2>3
<1>7. CASE Answer(u)
  BY <1>2, <1>7, AnswerNode
<1>8. CASE WorkerTake(u)
  BY <1>2, <1>8, WorkerTakeNode
<1>9. CASE WorkerSend(u)
  <2>1. owner' = owner /\ (WorkerNode(u) \/ (Renewed(u) /\ inbox' = inbox))
    BY <1>9, WorkerSendNode
  <2>2. CASE WorkerNode(u)
    BY <1>2, <2>1, <2>2 DEF WorkerNode
  <2>3. CASE Renewed(u) /\ inbox' = inbox
    <3>1. UNCHANGED <<umVars, userVars, owner, lapses>>
      BY <1>9, <2>3, Zenon DEF WorkerSend, userVars
    <3>2. QED
      BY <1>3, <2>3, <3>1
  <2>4. QED
    BY <2>1, <2>2, <2>3
<1>10. ASSUME NEW s \in Sid, Deliver(u, s)
       PROVE  Carries(v, n)
  BY <1>2, <1>10, DeliverNode
<1>11. QED
  BY <1>4, <1>5, <1>6, <1>7, <1>8, <1>9, <1>10 DEF NodeStep

LEMMA NewSettled ==
    ASSUME NEW r \in Requests, NEW u \in Units, NEW n, NewSession(r, u, n), Settled(r)
    PROVE  NewSession(r, u, n)'
<1>1. PICK k \in [Units -> Nat], m \in [Requests -> Nat] : Moves(r, k, m)
  BY DEF Settled, Drifts
<1>2. /\ \A v \in Units, i \in Nat : i + k[v] \in Nat
      /\ \A q \in Requests, i \in Nat : i + m[q] \in Nat
  OBVIOUS
<1>3. pc'[r] = "setup" /\ UnitOf(r)' = u
  BY DEF NewSession, Settled, UnitOf
<1>4. ASSUME NEW v \in Units, NEW i \in Nat, SetupQueued(r, v, i)'
      PROVE  FALSE
  <2>1. SetupQueued(r, v, i + k[v]) /\ i + k[v] \in Nat
    BY <1>1, <1>2, <1>4 DEF Moves, SetupQueued
  <2>2. QED
    BY <2>1 DEF NewSession
<1>5. ASSUME NEW v \in Units, SetupHandled(r, v)'
      PROVE  node'[v].ev.line.kind = "setup" /\ node'[v].ev.line.id = n
  <2>1. SetupHandled(r, v) /\ node'[v].ev = node[v].ev
    BY <1>1, <1>5 DEF Moves, SetupHandled
  <2>2. QED
    BY <2>1 DEF NewSession
<1>6. ASSUME NEW q \in Requests, NEW i \in Nat, SetupReceived(r, q, i)'
      PROVE  inbox'[q][i].kind = "setup" /\ inbox'[q][i].id = n
  <2>1. /\ SetupReceived(r, q, i + m[q]) /\ i + m[q] \in Nat
        /\ inbox'[q][i] = inbox[q][i + m[q]]
    BY <1>1, <1>2, <1>6 DEF Moves, SetupReceived
  <2>2. QED
    BY <2>1 DEF NewSession
<1>7. QED
  BY <1>3, <1>4, <1>5, <1>6 DEF NewSession

LEMMA NewAnswered ==
    ASSUME TypeOK, NEW x \in Units, Answer(x), NEW r \in Requests, NEW u \in Units, NEW n,
           NewSession(r, u, n), node[x].ev.line.kind \in Tokens, node[x].ev.line.for = r
    PROVE  NewSession(r, u, n)'
<1> DEFINE e == node[x].ev
           t == <<e.line>>
<1>1. /\ e # NoAnswer /\ Arrive(e.to, t) /\ t \in Seq(AnyLine) /\ UNCHANGED <<pc, stage>>
      /\ SameBut(x) /\ node'[x].events = node[x].events /\ node'[x].ev = NoAnswer
      /\ Len(t) = 1 /\ t[1] = e.line
  BY AnswerNode
<1>2. SetupHandled(r, x)
  BY <1>1 DEF SetupHandled
<1>3. e.line.kind = "setup" /\ e.line.id = n
  BY <1>2 DEF NewSession
<1>4. pc'[r] = "setup" /\ UnitOf(r)' = u
  BY <1>1 DEF NewSession, UnitOf
<1>5. \A v \in Units, i \in Nat : ~SetupQueued(r, v, i)'
  <2>1. \A v \in Units : node'[v].events = node[v].events
    BY <1>1 DEF SameBut
  <2>2. QED
    BY <2>1 DEF NewSession, SetupQueued
<1>6. ASSUME NEW v \in Units, SetupHandled(r, v)'
      PROVE  node'[v].ev.line.kind = "setup" /\ node'[v].ev.line.id = n
  <2>1. node'[v].ev = node[v].ev
    BY <1>1, <1>6 DEF SameBut, SetupHandled
  <2>2. QED
    BY <1>6, <2>1 DEF NewSession, SetupHandled
<1> HIDE DEF t, e
<1>7. ASSUME NEW q \in Requests, NEW i \in Nat, SetupReceived(r, q, i)'
      PROVE  inbox'[q][i].kind = "setup" /\ inbox'[q][i].id = n
  <2>1. t \in Seq(AnyLine) /\ Len(t) = 1
    BY <1>1
  <2>2. inbox[q] \in Seq(AnyLine)
    BY DEF TypeOK
  <2>3. CASE inbox'[q] = inbox[q]
    BY <1>7, <2>3 DEF NewSession, SetupReceived
  <2>4. CASE inbox'[q] = inbox[q] \o t
    <3>1. /\ Len(inbox'[q]) = Len(inbox[q]) + 1 /\ Len(inbox[q]) \in Nat
          /\ \A j \in 1..Len(inbox[q]) : inbox'[q][j] = inbox[q][j]
          /\ inbox'[q][Len(inbox[q]) + 1] = t[1]
      <4>1. /\ Len(inbox[q] \o t) = Len(inbox[q]) + 1 /\ Len(inbox[q]) \in Nat
            /\ \A j \in 1..Len(inbox[q]) : (inbox[q] \o t)[j] = inbox[q][j]
            /\ \A j \in 1..Len(t) : (inbox[q] \o t)[Len(inbox[q]) + j] = t[j]
        BY <2>1, <2>2, Concatenating
      <4>2. 1 \in 1..Len(t)
        BY <2>1
      <4>3. QED
        BY <2>4, <4>1, <4>2
    <3>2. CASE i \in 1..Len(inbox[q])
      BY <1>7, <3>1, <3>2 DEF NewSession, SetupReceived
    <3>3. CASE i \notin 1..Len(inbox[q])
      <4>1. i = Len(inbox[q]) + 1
        BY <1>7, <3>1, <3>3 DEF SetupReceived
      <4>2. QED
        BY <1>1, <1>3, <3>1, <4>1
    <3>4. QED
      BY <3>2, <3>3
  <2>5. QED
    BY <1>1, <2>1, <2>3, <2>4, ArriveEffect
<1>8. QED
  BY <1>4, <1>5, <1>6, <1>7 DEF NewSession

(* What a step of the request itself makes of its session.                  *)
LEMMA BackRequest ==
    ASSUME TypeOK, StageInv, NEW r \in Requests, Request(r), Reliable(r)',
           NEW u \in Units, NEW n \in Ids, node[u].alive,
           NewSession(r, u, n) \/ CurrentSession(r, u, n)
    PROVE  Back(r, u, n)'
<1>1. <<r, "setup">> \notin lapses' /\ <<r, "cleanup">> \notin lapses'
  BY DEF Reliable
<1>2. pc[r] \in {"setup", "infer", "yield", "cleanup"} /\ UnitOf(r) = u
  BY DEF NewSession, CurrentSession
<1>3. inbox[r] \in Seq(AnyLine)
  BY DEF TypeOK
<1>4. ASSUME NewSession(r, u, n), inbox[r] # <<>>, Head(inbox[r]).kind \in Tokens,
             Head(inbox[r]).for = r
      PROVE  Head(inbox[r]).kind = "setup" /\ Head(inbox[r]).id = n
  <2>1. Head(inbox[r]) = inbox[r][1] /\ 1 \in 1..Len(inbox[r]) /\ 1 \in Nat
    BY <1>3, <1>4, TakingFirst
  <2>2. SetupReceived(r, r, 1)
    BY <1>4, <2>1 DEF SetupReceived
  <2>3. QED
    BY <1>4, <2>1, <2>2 DEF NewSession
<1>5. ASSUME pc'[r] \in {"infer", "yield", "cleanup"}, stage'[r] = stage[r], work'[r] = n
      PROVE  Back(r, u, n)'
  <2>1. UnitOf(r)' = u
    BY <1>2, <1>5 DEF UnitOf
  <2>2. CurrentSession(r, u, n)'
    BY <1>5, <2>1 DEF CurrentSession
  <2>3. QED
    BY <2>2 DEF Back
<1>6. pc[r] # "setup" => CurrentSession(r, u, n) /\ work[r] = n
  BY DEF NewSession, CurrentSession
<1>7. pc[r] = "setup" => NewSession(r, u, n)
  BY DEF CurrentSession
<1>8. CASE QuitsWell(r)
  <2>1. CASE pc[r] = "setup"
    <3>1. /\ inbox[r] # <<>> /\ IsError(Head(inbox[r]))
          /\ Head(inbox[r]).for = r /\ Head(inbox[r]).kind \in Tokens
      BY <1>1, <1>8, <2>1 DEF QuitsWell
    <3>2. QED
      BY <1>4, <1>7, <2>1, <3>1 DEF IsError
  <2>2. CASE pc[r] # "setup"
    <3>1. pc[r] \in {"infer", "yield"}
      BY <1>1, <1>2, <1>8, <2>2 DEF QuitsWell
    <3>2. work[r] = n /\ n # NoId
      BY <1>6, <2>2 DEF Ids, NoId
    <3>3. pc'[r] = "cleanup" /\ work'[r] = work[r] /\ stage'[r] = stage[r]
      BY <1>8, <3>1, <3>2 DEF QuitsWell, Quits
    <3>4. QED
      BY <1>5, <3>2, <3>3
  <2>3. QED
    BY <2>1, <2>2
<1>9. CASE Asking(r)
  <2>1. pc[r] = "cleanup" /\ Contacts(r, "exit", work[r]) /\ work[r] = n
    BY <1>2, <1>6, <1>9 DEF Asking
  <2>2. Contacts(r, "exit", n)
    BY <2>1
  <2>3. AskedEvent(r, "exit", n) \in Event
    BY <2>2, ContactsTyped DEF AskedEvent
  <2>4. node'[u].events = Append(node[u].events, AskedEvent(r, "exit", n))
    BY <1>2, <2>2, ContactsNode
  <2>5. node[u].events \in Seq(Event)
    BY NodeTypes
  <2>6. PICK a \in Event : a = AskedEvent(r, "exit", n)
    BY <2>3
  <2>7. a.kind = "exit" /\ a.id = n
    BY <2>6 DEF AskedEvent
  <2>8. /\ Len(node'[u].events) = Len(node[u].events) + 1 /\ Len(node[u].events) \in Nat
        /\ node'[u].events \in Seq(Event)
        /\ node'[u].events[Len(node[u].events) + 1] = a
    BY <2>4, <2>5, <2>6, Appending
  <2>9. Len(node[u].events) + 1 \in DOMAIN node'[u].events
    BY <2>8
  <2>10. ExitComes(u, n)'
    BY <2>7, <2>8, <2>9 DEF ExitComes
  <2>11. QED
    BY <2>10 DEF Back
<1>10. CASE ReadsOn(r)
  <2>1. /\ inbox[r] # <<>> /\ pc'[r] \in {"infer", "yield"} /\ stage'[r] = stage[r]
    BY <1>10 DEF ReadsOn, Reads
  <2>2. CASE pc[r] = "setup"
    <3>1. /\ work'[r] = Head(inbox[r]).id
          /\ Head(inbox[r]).for = r /\ Head(inbox[r]).kind = "setup"
      BY <1>1, <1>10, <2>2 DEF ReadsOn
    <3>2. Head(inbox[r]).kind \in Tokens
      BY <3>1 DEF Tokens
    <3>3. work'[r] = n
      BY <1>4, <1>7, <2>1, <2>2, <3>1, <3>2
    <3>4. QED
      BY <1>5, <2>1, <3>3
  <2>3. CASE pc[r] # "setup"
    <3>1. work'[r] = work[r] /\ work[r] = n
      BY <1>6, <1>10, <2>3 DEF ReadsOn
    <3>2. QED
      BY <1>5, <2>1, <3>1
  <2>4. QED
    BY <2>2, <2>3
<1>11. CASE Resumes(r)
  <2>1. pc[r] = "yield" /\ pc' = [pc EXCEPT ![r] = "infer"] /\ stage' = stage /\ work' = work
    BY <1>11 DEF Resumes
  <2>2. pc'[r] = "infer" /\ work'[r] = n
    BY <1>6, <2>1 DEF TypeOK
  <2>3. QED
    BY <1>5, <2>1, <2>2
<1>12. QED
  BY <1>8, <1>9, <1>10, <1>11, RequestEffect

(* What the steps of nodes make of it.                                      *)
LEMMA BackNode ==
    ASSUME GatewayInv, TokenInv, NEW x \in Units, NodeStep(x) \/ NodeRestart(x),
           NEW r \in Requests, Reliable(r), NEW u \in Units, NEW n \in Ids,
           NewSession(r, u, n) \/ CurrentSession(r, u, n)
    PROVE  Back(r, u, n)'
<1>1. TypeOK
  BY DEF GatewayInv
<1>2. pc' = pc /\ stage' = stage /\ work' = work
  <2>1. stage' = stage /\ UNCHANGED <<pc, work>>
    BY <1>1, NodeUserEffect
  <2>2. QED
    BY <2>1
<1>3. CASE CurrentSession(r, u, n)
  BY <1>2, <1>3 DEF CurrentSession, Back, UnitOf
<1>4. ASSUME NewSession(r, u, n)
      PROVE  NewSession(r, u, n)'
  <2>1. \A v \in Units, i \in Nat : ~SetupQueued(r, v, i)
    BY <1>4 DEF NewSession
  <2>2. ASSUME Settled(r)
        PROVE  NewSession(r, u, n)'
    BY <1>4, <2>2, NewSettled
  <2>3. CASE Setup(x)
    <3>1. CASE ~up
      <4>1. Renewed(x) /\ UNCHANGED <<pc, stage, inbox>>
        BY <2>3, <3>1, SetupDown, Zenon DEF userVars
      <4>2. QED
        BY <1>1, <2>2, <4>1, RenewedSettled
    <3>2. CASE up
      <4>1. node[x].events # <<>> /\ Head(node[x].events).kind = "setup"
        BY <1>1, <2>3, <3>2, SetupNode
      <4>2. node[x].events \in Seq(Event)
        BY <1>1, NodeTypes
      <4>3. Head(node[x].events) = node[x].events[1] /\ 1 \in 1..Len(node[x].events)
        BY <4>1, <4>2, TakingFirst
      <4>4. Head(node[x].events).req # r
        BY <2>1, <4>1, <4>3 DEF SetupQueued
      <4>5. QED
        BY <1>1, <2>2, <2>3, <3>2, <4>4, SetupSettled
    <3>3. QED
      BY <3>1, <3>2
  <2>4. CASE Exit(x)
    BY <1>1, <2>2, <2>4, ExitSettled
  <2>5. CASE Answer(x)
    <3>1. CASE node[x].ev.line.kind \in Tokens /\ node[x].ev.line.for = r
      BY <1>1, <1>4, <2>5, <3>1, NewAnswered
    <3>2. CASE ~(node[x].ev.line.kind \in Tokens /\ node[x].ev.line.for = r)
      BY <1>1, <2>2, <2>5, <3>2, AnswerSettled
    <3>3. QED
      BY <3>1, <3>2
  <2>6. CASE WorkerTake(x) \/ WorkerSend(x) \/ \E s \in Sid : Deliver(x, s)
    BY <1>1, <2>2, <2>6, WorkerSettled
  <2>7. CASE NodeRestart(x)
    <3>1. Renewed(x) /\ UNCHANGED <<pc, stage, inbox>>
      BY <2>7, RestartEffect, Zenon DEF userVars
    <3>2. QED
      BY <1>1, <2>2, <3>1, RenewedSettled
  <2>8. QED
    BY <2>3, <2>4, <2>5, <2>6, <2>7 DEF NodeStep
<1>5. QED
  BY <1>3, <1>4 DEF Back

(* A session that Setup makes is of the request whose setup this was.       *)
LEMMA BackNew ==
    ASSUME GatewayInv, TokenInv, NEW u \in Units, NEW n \in Ids, NewTask(u, n),
           node[u].alive, NEW r \in Requests, Reliable(r),
           owner'[<<node'[u].tasks[n], n>>] = r
    PROVE  node'[u].alive /\ Back(r, u, n)'
<1>1. TypeOK /\ TokenOf(r)
  BY DEF GatewayInv, TokenInv, Patient, Reliable
<1>2. Setup(u) /\ up /\ ~Full(u) /\ n = ids + 1
  BY DEF NewTask
<1> DEFINE event == Head(node[u].events)
<1>3. /\ node'[u].tasks[n] = epoch /\ owner'[<<epoch, n>>] = event.req
      /\ node'[u].alive = node[u].alive /\ node'[u].ev = SetupAnswer(u, event, n)
      /\ stage' = stage
  BY <1>1, <1>2, SetupNode
<1>4. event.req = r
  BY <1>3
<1>5. /\ pc'[r] = "setup" /\ UnitOf(r) = u
      /\ \A v \in Units, i \in Nat : ~SetupQueued(r, v, i)'
      /\ \A v \in Units : SetupHandled(r, v)' => v = u
      /\ \A q \in Requests, i \in Nat : ~SetupReceived(r, q, i)'
  BY <1>1, <1>2, <1>4, TokenHandled
<1>6. node'[u].ev.line.kind = "setup" /\ node'[u].ev.line.id = n
  BY <1>2, <1>3 DEF SetupAnswer, Answering, LineFor
<1>7. UnitOf(r)' = u
  BY <1>3, <1>5 DEF UnitOf
<1>8. NewSession(r, u, n)'
  BY <1>5, <1>6, <1>7 DEF NewSession
<1>9. QED
  BY <1>3, <1>8 DEF Back

LEMMA BackKept ==
    ASSUME GatewayInv, TokenInv, BackInv, [Next]_vars
    PROVE  BackInv'
<1>1. TypeOK /\ StageInv /\ MadeInv
  BY DEF GatewayInv
<1>2. ASSUME NEW u \in Units, NEW n \in Ids, Carries(u, n), node'[u].tasks[n] # NoEpoch,
             NEW r \in Requests, owner'[<<node'[u].tasks[n], n>>] = r, Reliable(r)',
             lapses \subseteq lapses'
      PROVE  /\ Reliable(r) /\ node[u].alive /\ node'[u].alive
             /\ Back(r, u, n)' \/ NewSession(r, u, n) \/ CurrentSession(r, u, n)
  <2>1. Reliable(r)
    BY <1>2 DEF Reliable
  <2>2. /\ node[u].tasks[n] # NoEpoch /\ owner[<<node[u].tasks[n], n>>] = r
        /\ node'[u].alive = node[u].alive /\ (ExitComes(u, n) => ExitComes(u, n)')
    BY <1>2 DEF Carries
  <2>3. /\ node[u].alive
        /\ ExitComes(u, n) \/ NewSession(r, u, n) \/ CurrentSession(r, u, n)
    BY <2>1, <2>2 DEF BackInv
  <2>4. ExitComes(u, n)' => Back(r, u, n)'
    BY DEF Back
  <2>5. QED
    BY <2>1, <2>2, <2>3, <2>4
<1>3. ASSUME NEW u \in Units, NEW n \in Ids, Carries(u, n), node'[u].tasks[n] # NoEpoch
      PROVE  node'[u].alive
  BY <1>3 DEF Carries, BackInv
<1>4. ASSUME NEW x \in Requests, Request(x), NEW u \in Units, NEW n \in Ids,
             node'[u].tasks[n] # NoEpoch
      PROVE  /\ node'[u].alive
             /\ \A r \in Requests :
                   owner'[<<node'[u].tasks[n], n>>] = r /\ Reliable(r)' => Back(r, u, n)'
  <2>1. Carries(u, n) /\ lapses \subseteq lapses'
    BY <1>1, <1>4, RequestCarries, RequestEffect
  <2>2. ASSUME NEW r \in Requests, owner'[<<node'[u].tasks[n], n>>] = r, Reliable(r)'
        PROVE  Back(r, u, n)'
    <3>1. /\ Reliable(r) /\ node[u].alive
          /\ Back(r, u, n)' \/ NewSession(r, u, n) \/ CurrentSession(r, u, n)
      BY <1>2, <1>4, <2>1, <2>2
    <3>2. CASE r = x /\ (NewSession(r, u, n) \/ CurrentSession(r, u, n))
      BY <1>1, <1>4, <2>2, <3>1, <3>2, BackRequest
    <3>3. CASE r # x /\ CurrentSession(r, u, n)
      <4>1. pc'[r] = pc[r] /\ stage'[r] = stage[r]
        BY <1>1, <1>4, <3>3, RequestOthers
      <4>2. work'[r] = work[r]
        <5>1. CASE QuitsWell(x)
          BY <3>3, <5>1 DEF QuitsWell, Quits, OthersStay
        <5>2. CASE Asking(x)
          BY <3>3, <5>2 DEF Asking, Contacts, OthersStay
        <5>3. CASE ReadsOn(x)
          BY <3>3, <5>3 DEF ReadsOn, Reads, OthersStay
        <5>4. CASE Resumes(x)
          BY <5>4 DEF Resumes
        <5>5. QED
          BY <1>1, <1>4, <5>1, <5>2, <5>3, <5>4, RequestEffect
      <4>3. QED
        BY <3>3, <4>1, <4>2 DEF CurrentSession, Back, UnitOf
    <3>4. CASE r # x /\ NewSession(r, u, n)
      <4>1. Settled(r)
        BY <1>1, <1>4, <3>4, RequestOthers, RequestDrifts DEF Settled
      <4>2. NewSession(r, u, n)'
        BY <3>4, <4>1, NewSettled
      <4>3. QED
        BY <4>2 DEF Back
    <3>5. QED
      BY <3>1, <3>2, <3>3, <3>4
  <2>3. QED
    BY <1>3, <1>4, <2>1, <2>2
<1>5. ASSUME NEW x \in Units, NodeStep(x) \/ NodeRestart(x), NEW u \in Units, NEW n \in Ids,
             node'[u].tasks[n] # NoEpoch
      PROVE  /\ node'[u].alive
             /\ \A r \in Requests :
                   owner'[<<node'[u].tasks[n], n>>] = r /\ Reliable(r)' => Back(r, u, n)'
  <2>1. lapses' = lapses
    BY <1>1, <1>5, NodeUserEffect
  <2>2. CASE u = x /\ NewTask(x, n)
    <3>1. node[u].alive
      <4>1. CASE NodeRestart(u)
        BY <1>1, <1>5, <4>1, RestartEffect, RenewedNode
      <4>2. QED
        BY <1>5, <2>2, <4>1 DEF NodeStep
    <3>2. node'[u].alive
      BY <1>1, <2>2, <3>1, SetupNode DEF NewTask
    <3>3. ASSUME NEW r \in Requests, owner'[<<node'[u].tasks[n], n>>] = r, Reliable(r)'
          PROVE  Back(r, u, n)'
      <4>1. Reliable(r)
        BY <2>1, <3>3 DEF Reliable
      <4>2. QED
        BY <2>2, <3>1, <3>3, <4>1, BackNew
    <3>4. QED
      BY <3>2, <3>3
  <2>3. CASE ~(u = x /\ NewTask(x, n))
    <3>1. Carries(u, n)
      BY <1>1, <1>5, <2>3, NodeCarries
    <3>2. ASSUME NEW r \in Requests, owner'[<<node'[u].tasks[n], n>>] = r, Reliable(r)'
          PROVE  Back(r, u, n)'
      <4>1. /\ Reliable(r) /\ node[u].alive
            /\ Back(r, u, n)' \/ NewSession(r, u, n) \/ CurrentSession(r, u, n)
        BY <1>2, <1>5, <2>1, <3>1, <3>2
      <4>2. QED
        BY <1>5, <4>1, BackNode
    <3>3. QED
      BY <1>3, <1>5, <3>1, <3>2
  <2>4. QED
    BY <2>2, <2>3
<1>6. ASSUME UNCHANGED <<userVars, node, owner, lapses>>
      PROVE  BackInv'
  <2>1. UNCHANGED <<pc, stage, inbox, work, node, owner, lapses>>
    BY <1>6, Zenon DEF userVars
  <2>2. QED
    BY <2>1 DEF BackInv, Reliable, ExitComes, NewSession, CurrentSession, SetupQueued,
       SetupHandled, SetupReceived, UnitOf
<1>7. CASE UnitManagerEnds
  BY <1>6, <1>7, Zenon DEF UnitManagerEnds
<1>8. CASE UnitManagerStarts
  BY <1>6, <1>8, Zenon DEF UnitManagerStarts
<1>9. CASE UNCHANGED vars
  BY <1>6, <1>9, Zenon DEF vars
<1>10. CASE \E x \in Requests : Request(x)
  BY <1>4, <1>10 DEF BackInv, Back
<1>11. CASE \E x \in Units : NodeStep(x) \/ NodeRestart(x)
  BY <1>5, <1>11 DEF BackInv, Back
<1>12. QED
  BY <1>7, <1>8, <1>9, <1>10, <1>11 DEF Next

LEMMA BackInit == ASSUME Init PROVE BackInv
<1>1. \A u \in Units, n \in Ids : node[u].tasks[n] = NoEpoch
  BY DEF Init, FreshNode
<1>2. QED
  BY <1>1 DEF BackInv

(* No session is forgotten: the answer to a setup is in one place at a time,*)
(* so a request that waits for it learns the session that was made for it,  *)
(* and whichever exception ends its stage, the exit is asked for.           *)
THEOREM SessionsComeBack == Spec => []SessionsAreGivenBack
<1> DEFINE I == GatewayInv /\ TokenInv /\ BackInv
<1>1. Init => I
  BY GatewayInit, TokenInit, BackInit
<1>2. I /\ [Next]_vars => I'
  BY GatewayKept, TokenKept, BackKept
<1>3. I => SessionsAreGivenBack
  <2> SUFFICES ASSUME I, NEW u \in Units, NEW n \in Ids,
                      node[u].tasks[n] # NoEpoch,
                      pc[owner[<<node[u].tasks[n], n>>]] = "done"
               PROVE  \/ ExitComes(u, n)
                      \/ <<owner[<<node[u].tasks[n], n>>], "setup">> \in lapses
                      \/ <<owner[<<node[u].tasks[n], n>>], "cleanup">> \in lapses
    BY DEF SessionsAreGivenBack
  <2>1. PICK r \in Requests : r = owner[<<node[u].tasks[n], n>>]
    BY DEF GatewayInv, MadeInv
  <2>2. pc[r] = "done"
    BY <2>1
  <2>3. ~NewSession(r, u, n) /\ ~CurrentSession(r, u, n)
    BY <2>2 DEF NewSession, CurrentSession
  <2>4. Reliable(r) => ExitComes(u, n)
    BY <2>1, <2>3 DEF BackInv
  <2>5. QED
    BY <2>1, <2>4 DEF Reliable
<1>4. QED
  BY <1>1, <1>2, <1>3, PTL DEF Spec

------------------------------------------------------------------------------
(* Requests that wait for their answers bring no node down.                 *)

(* What is known of a state in which all is orderly.                        *)
Steady ==
    /\ TypeOK /\ StageInv /\ ConnInv /\ MadeInv /\ OwnInv
    /\ \A r \in Requests : TokenOf(r)
    /\ up /\ epoch = 0 /\ AllOrderly

LEMMA SteadyIs ==
    ASSUME GatewayInv, FirstEpochInv, TokenInv, OrderlyInv, Orderly
    PROVE  Steady
  BY DEF GatewayInv, FirstEpochInv, TokenInv, OrderlyInv, Orderly, Steady, Patient

LEMMA ExitOwner ==
    ASSUME TypeOK, OwnInv, NEW u \in Units, NEW r \in Requests, NEW n \in Ids,
           NEW com \in Nat, Exiting(u, r, n, com)
    PROVE  Asked(r, n) /\ (com # NoCom => Claims(r, com) /\ com <= coms)
<1>1. OwnUnit(u)
  BY DEF OwnInv
<1>2. ASSUME NEW e \in Event, Queued(u, e), e.kind = "exit",
             e.req = r, e.id = n, e.to = com
      PROVE  Asked(r, n) /\ Claims(r, com)
  BY <1>1, <1>2 DEF OwnUnit, Claims
<1>3. ASSUME node[u].ev # NoAnswer, node[u].ev.line.for = r, node[u].ev.line.id = n,
             node[u].ev.to = com
      PROVE  Asked(r, n) /\ Claims(r, com)
  BY <1>1, <1>3 DEF OwnUnit, Claims
<1>4. Asked(r, n) /\ Claims(r, com)
  BY <1>2, <1>3 DEF Exiting
<1>5. com # NoCom => com <= coms
  BY <1>4 DEF OwnInv, Com
<1>6. QED
  BY <1>4, <1>5

LEMMA SetupOnlyInSetup ==
    ASSUME TypeOK, NEW r \in Requests, TokenOf(r), NEW u \in Units, NEW com,
           SettingUp(u, r, com)
    PROVE  pc[r] = "setup" /\ \A q \in Requests, i \in Nat : ~SetupReceived(r, q, i)
<1>1. CASE \E e \in Event : Queued(u, e) /\ e.kind = "setup" /\ e.req = r /\ e.to = com
  <2>1. PICK e \in Event : Queued(u, e) /\ e.kind = "setup" /\ e.req = r
    BY <1>1
  <2>2. PICK i \in 1..Len(node[u].events) : node[u].events[i] = e
    BY <2>1 DEF Queued, In
  <2>3. i \in Nat /\ SetupQueued(r, u, i)
    BY <2>1, <2>2 DEF SetupQueued
  <2>4. QED
    BY <2>3 DEF TokenOf
<1>2. CASE /\ node[u].ev # NoAnswer /\ node[u].ev.line.kind \in Tokens
           /\ node[u].ev.line.for = r /\ node[u].ev.to = com
  <2>1. SetupHandled(r, u)
    BY <1>2 DEF SetupHandled
  <2>2. QED
    BY <2>1 DEF TokenOf
<1>3. QED
  BY <1>1, <1>2 DEF SettingUp

LEMMA AnnouncedInSetup ==
    ASSUME TypeOK, OwnInv, NEW r \in Requests, TokenOf(r), NEW n \in Ids, Announced(n),
           Asked(r, n)
    PROVE  pc[r] = "setup"
<1>1. ASSUME NEW v \in Units, node[v].ev # NoAnswer, node[v].ev.line.kind = "setup",
             node[v].ev.line.id = n
      PROVE  pc[r] = "setup"
  <2>1. Asked(node[v].ev.line.for, n)
    BY <1>1 DEF OwnInv, OwnUnit
  <2>2. node[v].ev.line.for = r
    BY <2>1 DEF Asked
  <2>3. SetupHandled(r, v)
    BY <1>1, <2>2 DEF SetupHandled, Tokens
  <2>4. QED
    BY <2>3 DEF TokenOf
<1>2. ASSUME NEW q \in Requests, NEW l \in AnyLine, Received(q, l), l.kind = "setup", l.id = n
      PROVE  pc[r] = "setup"
  <2>1. l.for = q /\ Asked(q, n)
    BY <1>2 DEF OwnInv
  <2>2. l.for = r
    BY <2>1 DEF Asked
  <2>3. PICK i \in 1..Len(inbox[q]) : inbox[q][i] = l
    BY <1>2 DEF Received, In
  <2>4. i \in Nat /\ SetupReceived(r, q, i)
    BY <1>2, <2>2, <2>3 DEF SetupReceived, Tokens
  <2>5. QED
    BY <2>4 DEF TokenOf
<1>3. QED
  BY <1>1, <1>2 DEF Announced

(* A session's jobs are its request's.                                      *)
LEMMA JobOwner ==
    ASSUME TypeOK, OwnInv, JobsOrderly, NEW u \in Units, NEW j \in Job, Working(u, j),
           NEW r, Asked(r, j.sid[2])
    PROVE  j.req = r /\ Inferring(r) /\ work[r] = j.sid[2]
<1>1. Asked(j.req, j.sid[2])
  BY DEF OwnInv, OwnUnit
<1>2. j.req = r
  BY <1>1 DEF Asked
<1>3. QED
  BY <1>2 DEF JobsOrderly, OrderlyJob

(* How a step of request x keeps all orderly.                               *)
LEMMA OrderlyUser ==
    ASSUME Steady, NEW x \in Requests, OthersStay(x),
           \A u \in Units : /\ node'[u].alive = node[u].alive /\ node'[u].ev = node[u].ev
                            /\ \A s \in Sid : node'[u].channel[s].held = node[u].channel[s].held,
           \A u \in Units, e \in Event : In(node'[u].events, e) =>
               \/ Queued(u, e)
               \/ e.req = x /\ e.kind = "setup" /\ conn'[x].com = e.to
               \/ /\ e.req = x /\ e.kind = "exit" /\ Asked(x, e.id)
                  /\ pc[x] # "setup" /\ pc'[x] = "exit",
           \A l \in AnyLine : In(inbox'[x], l) => Received(x, l),
           \/ pc'[x] = "exit"
           \/ \A u \in Units, n \in Ids, com \in Nat : Exiting(u, x, n, com) =>
                 work'[x] # n /\ (com # NoCom => conn'[x].com # com),
           \/ conn'[x] = conn[x]
           \/ \A u \in Units, com \in Nat : ~SettingUp(u, x, com),
           \A u \in Units, j \in Job : Working(u, j)' => Working(u, j) \/ j.req = x,
           JobsOrderly', OrderlyRequest(x)'
    PROVE  AllOrderly'
<1>1. /\ TypeOK /\ OwnInv /\ \A r \in Requests : TokenOf(r)
      /\ NodesOrderly /\ ExitsOrderly /\ SetupsOrderly /\ LinesOrderly
  BY DEF Steady, AllOrderly
<1>2. NodesOrderly'
  BY <1>1 DEF NodesOrderly
<1>3. ASSUME NEW n, Announced(n)'
      PROVE  Announced(n)
  <2>1. CASE \E v \in Units : /\ node'[v].ev # NoAnswer /\ node'[v].ev.line.kind = "setup"
                              /\ node'[v].ev.line.id = n
    BY <2>1 DEF Announced
  <2>2. ASSUME NEW q \in Requests, NEW l \in AnyLine, In(inbox'[q], l), l.kind = "setup",
               l.id = n
        PROVE  Announced(n)
    <3>1. Received(q, l)
      BY <2>2 DEF OthersStay, Received
    <3>2. QED
      BY <2>2, <3>1 DEF Announced
  <2>3. QED
    BY <1>3, <2>1, <2>2 DEF Announced, Received
<1>4. ASSUME NEW u \in Units, NEW r \in Requests, NEW n \in Ids, NEW com \in Nat,
             Exiting(u, r, n, com)'
      PROVE  OrderlyExit(r, n, com)'
  <2>1. \/ Exiting(u, r, n, com)
        \/ r = x /\ Asked(x, n) /\ pc[x] # "setup" /\ pc'[x] = "exit"
    <3>1. ASSUME NEW e \in Event, In(node'[u].events, e), e.kind = "exit",
                 e.req = r, e.id = n, e.to = com
          PROVE  \/ Exiting(u, r, n, com)
                 \/ r = x /\ Asked(x, n) /\ pc[x] # "setup" /\ pc'[x] = "exit"
      <4>1. CASE Queued(u, e)
        BY <3>1, <4>1 DEF Exiting
      <4>2. QED
        BY <3>1, <4>1
    <3>2. CASE /\ node'[u].ev # NoAnswer /\ node'[u].ev.line.kind \in Parting
               /\ node'[u].ev.line.for = r /\ node'[u].ev.line.id = n /\ node'[u].ev.to = com
      BY <3>2 DEF Exiting
    <3>3. QED
      BY <1>4, <3>1, <3>2 DEF Exiting, Queued
  <2>2. CASE Exiting(u, r, n, com)
    <3>1. OrderlyExit(r, n, com)
      BY <1>1, <2>2 DEF ExitsOrderly
    <3>2. ~Announced(n)'
      BY <1>3, <3>1 DEF OrderlyExit
    <3>3. CASE r # x
      BY <3>1, <3>2, <3>3 DEF OthersStay, OrderlyExit
    <3>4. CASE r = x
      BY <2>2, <3>2, <3>4 DEF OrderlyExit
    <3>5. QED
      BY <3>3, <3>4
  <2>3. CASE r = x /\ Asked(x, n) /\ pc[x] # "setup" /\ pc'[x] = "exit"
    <3>1. ~Announced(n)'
      BY <1>1, <1>3, <2>3, AnnouncedInSetup
    <3>2. QED
      BY <2>3, <3>1 DEF OrderlyExit
  <2>4. QED
    BY <2>1, <2>2, <2>3
<1>5. ASSUME NEW u \in Units, NEW r \in Requests, NEW com \in Nat, SettingUp(u, r, com)'
      PROVE  conn'[r].com = com
  <2>1. SettingUp(u, r, com) \/ (r = x /\ conn'[x].com = com)
    <3>1. ASSUME NEW e \in Event, In(node'[u].events, e), e.kind = "setup",
                 e.req = r, e.to = com
          PROVE  SettingUp(u, r, com) \/ (r = x /\ conn'[x].com = com)
      <4>1. CASE Queued(u, e)
        BY <3>1, <4>1 DEF SettingUp
      <4>2. QED
        BY <3>1, <4>1
    <3>2. CASE /\ node'[u].ev # NoAnswer /\ node'[u].ev.line.kind \in Tokens
               /\ node'[u].ev.line.for = r /\ node'[u].ev.to = com
      BY <3>2 DEF SettingUp
    <3>3. QED
      BY <1>5, <3>1, <3>2 DEF SettingUp, Queued
  <2>2. CASE SettingUp(u, r, com)
    <3>1. conn[r].com = com
      BY <1>1, <2>2 DEF SetupsOrderly
    <3>2. QED
      BY <2>2, <3>1 DEF OthersStay
  <2>3. QED
    BY <2>1, <2>2
<1>6. ASSUME NEW r \in Requests
      PROVE  OrderlyRequest(r)'
  <2>1. CASE r # x
    <3>1. pc'[r] = pc[r] /\ stage'[r] = stage[r] /\ inbox'[r] = inbox[r]
      BY <2>1 DEF OthersStay
    <3>2. OrderlyRequest(r)
      BY <1>1 DEF LinesOrderly
    <3>3. NoJobs(r) => NoJobs(r)'
      BY <2>1 DEF NoJobs
    <3>4. QED
      BY <3>1, <3>2, <3>3 DEF OrderlyRequest, Inferring, UnitOf
  <2>2. QED
    BY <2>1
<1>7. ExitsOrderly' /\ SetupsOrderly' /\ LinesOrderly'
  BY <1>4, <1>5, <1>6 DEF ExitsOrderly, SetupsOrderly, LinesOrderly
<1>8. QED
  BY <1>2, <1>7 DEF AllOrderly

(* The jobs stay, and those of request x are its current ones.              *)
LEMMA JobsStay ==
    ASSUME Steady, NEW x \in Requests, OthersStay(x),
           \A u \in Units : /\ node'[u].jobs = node[u].jobs /\ node'[u].worker = node[u].worker
                            /\ node'[u].channel = node[u].channel,
           \/ NoJobs(x)
           \/ /\ Inferring(x)' /\ stage'[x] = stage[x] /\ work'[x] = work[x]
              /\ conn'[x] = conn[x]
    PROVE  /\ JobsOrderly' /\ (NoJobs(x) => NoJobs(x)')
           /\ \A u \in Units, j \in Job : Working(u, j)' => Working(u, j) \/ j.req = x
<1>1. JobsOrderly
  BY DEF Steady, AllOrderly
<1>2. \A u \in Units : OneJob(u)'
  BY <1>1, SMTT(30) DEF JobsOrderly, OneJob
<1>3. \A u \in Units, j \in Job : Working(u, j)' => Working(u, j)
  BY DEF Working
<1>4. ASSUME NEW u \in Units, NEW j \in Job, Working(u, j)
      PROVE  OrderlyJob(u, j)'
  <2>1. OrderlyJob(u, j) /\ j.req \in Requests
    BY <1>1, <1>4 DEF JobsOrderly, Job
  <2>2. CASE j.req # x
    <3>1. /\ pc'[j.req] = pc[j.req] /\ stage'[j.req] = stage[j.req]
          /\ conn'[j.req] = conn[j.req] /\ work'[j.req] = work[j.req]
      BY <2>1, <2>2 DEF OthersStay
    <3>2. QED
      BY <2>1, <3>1 DEF OrderlyJob, Inferring, UnitOf
  <2>3. CASE j.req = x
    <3>1. ~NoJobs(x)
      BY <1>4, <2>3 DEF NoJobs
    <3>2. /\ Inferring(x)' /\ stage'[x] = stage[x] /\ work'[x] = work[x]
          /\ conn'[x] = conn[x]
      BY <3>1
    <3>3. QED
      BY <2>1, <2>3, <3>2 DEF OrderlyJob, UnitOf, Inferring
  <2>4. QED
    BY <2>2, <2>3
<1>5. JobsOrderly'
  BY <1>2, <1>3, <1>4 DEF JobsOrderly
<1>6. NoJobs(x) => NoJobs(x)'
  BY <1>3 DEF NoJobs
<1>7. QED
  BY <1>3, <1>5, <1>6

LEMMA NotInferring ==
    ASSUME Steady, NEW x \in Requests, ~Inferring(x)
    PROVE  NoJobs(x)
  BY DEF Steady, AllOrderly, JobsOrderly, OrderlyJob, NoJobs

LEMMA FirstLine ==
    ASSUME Steady, NEW x \in Requests, inbox[x] # <<>>
    PROVE  /\ inbox[x] \in Seq(AnyLine) /\ Head(inbox[x]) \in AnyLine
           /\ Head(inbox[x]) = inbox[x][1] /\ 1 \in 1..Len(inbox[x])
           /\ Received(x, Head(inbox[x])) /\ Head(inbox[x]).for = x
           /\ Head(inbox[x]).id \in Ids /\ Asked(x, Head(inbox[x]).id)
           /\ Head(inbox[x]).kind \in Tokens => SetupReceived(x, x, 1)
<1>1. TypeOK /\ OwnInv
  BY DEF Steady
<1>2. inbox[x] \in Seq(AnyLine)
  BY <1>1 DEF TypeOK
<1>3. /\ Head(inbox[x]) \in AnyLine /\ Received(x, Head(inbox[x]))
      /\ Head(inbox[x]) = inbox[x][1] /\ 1 \in 1..Len(inbox[x])
  BY <1>2, TakingFirst DEF Received
<1>4. Head(inbox[x]).for = x /\ Asked(x, Head(inbox[x]).id)
  BY <1>1, <1>3 DEF OwnInv
<1>5. Head(inbox[x]).id \in Ids
  BY <1>3 DEF AnyLine, Line
<1>6. QED
  BY <1>2, <1>3, <1>4, <1>5 DEF SetupReceived

LEMMA OrderlyQuits ==
    ASSUME Steady, NEW x \in Requests, QuitsWell(x), lapses' = {}
    PROVE  AllOrderly'
<1>1. /\ TypeOK /\ StageInv /\ TokenOf(x) /\ ExitsOrderly /\ LinesOrderly
  BY DEF Steady, AllOrderly
<1>2. /\ OthersStay(x) /\ node' = node /\ conn'[x] = NoConn /\ inbox'[x] = <<>>
      /\ \/ pc[x] \in {"setup", "infer", "yield"} /\ work'[x] = work[x]
         \/ work'[x] = NoId
      /\ pc'[x] \in {"cleanup", "open", "done"}
  BY DEF QuitsWell, Quits
<1>3. \/ pc[x] = "open" \/ pc[x] = "exit"
      \/ /\ pc[x] = "setup" /\ inbox[x] # <<>> /\ Head(inbox[x]).kind \in Tokens
      \/ /\ pc[x] = "infer" /\ inbox[x] # <<>>
         /\ Expected(x, Head(inbox[x])) => Head(inbox[x]).kind = "last"
  BY DEF QuitsWell
<1>4. NoJobs(x)
  <2>1. CASE pc[x] = "infer"
    <3>1. /\ inbox[x] # <<>>
          /\ Expected(x, Head(inbox[x])) => Head(inbox[x]).kind = "last"
      BY <1>3, <2>1
    <3>2. Head(inbox[x]) = inbox[x][1] /\ 1 \in 1..Len(inbox[x])
      BY <3>1, FirstLine
    <3>3. /\ inbox[x][1].kind \in {"part", "last"} /\ inbox[x][1].unit = UnitOf(x)
          /\ inbox[x][1].kind = "last" => NoJobs(x)
      BY <1>1, <2>1, <3>2 DEF LinesOrderly, OrderlyRequest, Inferring
    <3>4. QED
      BY <3>1, <3>2, <3>3 DEF Expected
  <2>2. CASE pc[x] # "infer"
    BY <1>3, <2>2, NotInferring DEF Inferring
  <2>3. QED
    BY <2>1, <2>2
<1>5. \A u \in Units, com \in Nat : ~SettingUp(u, x, com)
  <2>1. CASE pc[x] = "setup"
    <3>1. SetupReceived(x, x, 1)
      BY <1>3, <2>1, FirstLine
    <3>2. QED
      BY <1>1, <3>1, SetupOnlyInSetup
  <2>2. CASE pc[x] # "setup"
    BY <1>1, <2>2, SetupOnlyInSetup
  <2>3. QED
    BY <2>1, <2>2
<1>6. ASSUME NEW u \in Units, NEW n \in Ids, NEW com \in Nat, Exiting(u, x, n, com)
      PROVE  work'[x] # n /\ (com # NoCom => conn'[x].com # com)
  <2>1. work[x] = n => pc[x] = "exit"
    BY <1>1, <1>6 DEF ExitsOrderly, OrderlyExit
  <2>2. n # NoId
    BY DEF Ids, NoId
  <2>3. conn'[x].com = NoCom
    BY <1>2 DEF NoConn
  <2>4. QED
    BY <1>2, <2>1, <2>2, <2>3
<1>7. /\ JobsOrderly'
      /\ \A u \in Units, j \in Job : Working(u, j)' => Working(u, j) \/ j.req = x
  BY <1>2, <1>4, JobsStay
<1>8. OrderlyRequest(x)'
  BY <1>2 DEF OrderlyRequest, Inferring
<1>9. /\ \A l \in AnyLine : In(inbox'[x], l) => Received(x, l)
      /\ \A u \in Units, e \in Event : In(node'[u].events, e) => Queued(u, e)
  BY <1>2, InEmpty DEF Queued
<1>10. \A u \in Units : /\ node'[u].alive = node[u].alive /\ node'[u].ev = node[u].ev
                        /\ \A s \in Sid : node'[u].channel[s].held = node[u].channel[s].held
  BY <1>2
<1>11. QED
  BY <1>2, <1>5, <1>6, <1>7, <1>8, <1>9, <1>10, OrderlyUser

LEMMA OrderlyAsks ==
    ASSUME Steady, NEW x \in Requests, Asking(x)
    PROVE  AllOrderly'
<1>1. /\ TypeOK /\ StageInv /\ OwnInv /\ TokenOf(x) /\ ExitsOrderly /\ NodesOrderly
  BY DEF Steady, AllOrderly
<1>2. PICK kind, n : /\ Contacts(x, kind, n)
                     /\ \/ pc[x] = "open" /\ kind = "setup" /\ n = NoId
                        \/ pc[x] = "cleanup" /\ kind = "exit" /\ n = work[x] /\ n \in Ids
  BY <1>1 DEF Asking, StageInv
<1>3. PICK v \in Units : v = UnitOf(x)
  BY <1>1, UnitOfType
<1>4. PICK a \in Event : a = AskedEvent(x, kind, n)
  BY <1>1, <1>2, ContactsTyped DEF AskedEvent
<1>5. a.kind = kind /\ a.req = x /\ a.to = coms + 1 /\ a.id = n
  BY <1>4 DEF AskedEvent
<1>6. /\ OthersStay(x) /\ conn'[x].com = coms + 1 /\ pc'[x] = kind
      /\ inbox'[x] = inbox[x] /\ work'[x] = work[x] /\ stage'[x] = stage[x]
  BY <1>2 DEF Contacts
<1>7. /\ SameBut(v) /\ node'[v].events = Append(node[v].events, a)
      /\ node'[v].alive = node[v].alive /\ node'[v].ev = node[v].ev
      /\ node'[v].channel = node[v].channel
      /\ node'[v].jobs = node[v].jobs /\ node'[v].worker = node[v].worker
  <2>1. node[v].alive
    BY <1>1 DEF NodesOrderly
  <2>2. QED
    BY <1>1, <1>2, <1>3, <1>4, <2>1, ContactsNode, ZenonT(60)
<1>8. /\ \A u \in Units : /\ node'[u].alive = node[u].alive /\ node'[u].ev = node[u].ev
                          /\ node'[u].channel = node[u].channel
                          /\ node'[u].jobs = node[u].jobs /\ node'[u].worker = node[u].worker
      /\ \A u \in Units : node'[u].events = node[u].events \/ u = v
  BY <1>7 DEF SameBut
<1>9. ASSUME NEW u \in Units, NEW e \in Event, In(node'[u].events, e)
      PROVE  Queued(u, e) \/ e = a
  <2>1. node[v].events \in Seq(Event)
    BY <1>1, NodeTypes
  <2>2. In(Append(node[v].events, a), e) => In(node[v].events, e) \/ e = a
    BY <2>1, Appending
  <2>3. QED
    BY <1>7, <1>8, <1>9, <2>2 DEF Queued
<1>10. NoJobs(x)
  BY <1>2, NotInferring DEF Inferring
<1>11. /\ JobsOrderly'
       /\ \A u \in Units, j \in Job : Working(u, j)' => Working(u, j) \/ j.req = x
  BY <1>6, <1>8, <1>10, JobsStay
<1>12. \A u \in Units, com \in Nat : ~SettingUp(u, x, com)
  BY <1>1, <1>2, SetupOnlyInSetup
<1>13. inbox'[x] = <<>>
  BY <1>1, <1>2, <1>6 DEF StageInv
<1>14. OrderlyRequest(x)'
  BY <1>2, <1>6, <1>13 DEF OrderlyRequest, Inferring
<1>15. \/ pc'[x] = "exit"
       \/ \A u \in Units, k \in Ids, com \in Nat : Exiting(u, x, k, com) =>
             work'[x] # k /\ (com # NoCom => conn'[x].com # com)
  <2>1. CASE kind = "setup"
    <3>1. work'[x] = NoId /\ \A k \in Ids : k # NoId
      BY <1>1, <1>2, <1>6, <2>1 DEF StageInv, Ids, NoId
    <3>2. ASSUME NEW u \in Units, NEW k \in Ids, NEW com \in Nat, Exiting(u, x, k, com),
                 com # NoCom
          PROVE  conn'[x].com # com
      <4>1. com <= coms /\ coms \in Nat
        BY <1>1, <3>2, ExitOwner DEF TypeOK
      <4>2. QED
        BY <1>6, <4>1
    <3>3. QED
      BY <3>1, <3>2
  <2>2. QED
    BY <1>2, <1>6, <2>1
<1>16. kind = "exit" => Asked(x, n)
  BY <1>1, <1>2 DEF OwnInv, Ids, NoId
<1>17. \A u \in Units, e \in Event : In(node'[u].events, e) =>
           \/ Queued(u, e)
           \/ e.req = x /\ e.kind = "setup" /\ conn'[x].com = e.to
           \/ /\ e.req = x /\ e.kind = "exit" /\ Asked(x, e.id)
              /\ pc[x] # "setup" /\ pc'[x] = "exit"
  BY <1>2, <1>5, <1>6, <1>9, <1>16
<1>18. \A l \in AnyLine : In(inbox'[x], l) => Received(x, l)
  BY <1>6 DEF Received
<1>19. QED
  BY <1>6, <1>8, <1>11, <1>12, <1>14, <1>15, <1>17, <1>18, OrderlyUser

(* The jobs when the node hears an inference of request x.                  *)
LEMMA JobsHeard ==
    ASSUME Steady, NEW x \in Requests, NEW n \in Ids, OthersStay(x), Heard(x, n),
           NoJobs(x), Asked(x, n),
           Inferring(x)', stage'[x] = stage[x], work'[x] = n, conn'[x] = conn[x]
    PROVE  /\ JobsOrderly'
           /\ \A u \in Units, j \in Job : Working(u, j)' => Working(u, j) \/ j.req = x
<1>1. TypeOK /\ OwnInv /\ JobsOrderly
  BY DEF Steady, AllOrderly
<1>2. PICK v \in Units : v = UnitOf(x)
  BY <1>1, UnitOfType
<1>3. PICK s \in Sid : s = <<node[v].tasks[n], n>>
  BY <1>1, <1>2, HeardNode
<1>4. PICK a \in Job : a = Asks(v, s, x)
  BY <1>1, <1>2, <1>3, HeardNode
<1>5. a.req = x /\ a.sid = s /\ s[2] = n
  BY <1>3, <1>4 DEF Asks
<1>6. /\ SameBut(v) /\ node'[v].channel = [node[v].channel EXCEPT ![s].url = conn[x].com]
      /\ node'[v].jobs = Append(node[v].jobs, a) /\ node'[v].worker = node[v].worker
  BY <1>1, <1>2, <1>3, <1>4, HeardNode
<1>7. node[v].jobs \in Seq(Job) /\ node[v].channel \in [Sid -> Channel]
  BY <1>1, NodeTypes
<1>8. /\ node'[v].channel[s].url = conn[x].com
      /\ \A y \in Sid \ {s} : node'[v].channel[y] = node[v].channel[y]
  <2>1. node[v].channel[s] \in Channel
    BY <1>7
  <2>2. node'[v].channel[s] = [node[v].channel[s] EXCEPT !.url = conn[x].com]
    BY <1>6, <1>7
  <2>3. node'[v].channel[s].url = conn[x].com
    BY <2>1, <2>2 DEF Channel
  <2>4. QED
    BY <1>6, <1>7, <2>3
<1>9. /\ Len(node'[v].jobs) = Len(node[v].jobs) + 1 /\ Len(node[v].jobs) \in Nat
      /\ \A i \in 1..Len(node[v].jobs) : node'[v].jobs[i] = node[v].jobs[i]
      /\ node'[v].jobs[Len(node[v].jobs) + 1] = a
      /\ \A j : In(node'[v].jobs, j) => In(node[v].jobs, j) \/ j = a
  <2>1. /\ Len(Append(node[v].jobs, a)) = Len(node[v].jobs) + 1 /\ Len(node[v].jobs) \in Nat
        /\ \A i \in 1..Len(node[v].jobs) : Append(node[v].jobs, a)[i] = node[v].jobs[i]
        /\ Append(node[v].jobs, a)[Len(node[v].jobs) + 1] = a
        /\ \A j : In(Append(node[v].jobs, a), j) => In(node[v].jobs, j) \/ j = a
    BY <1>7, Appending
  <2>2. node'[v].jobs = Append(node[v].jobs, a)
    BY <1>6
  <2>3. QED
    BY <2>1, <2>2
<1>10. \A i \in 1..Len(node[v].jobs) : node[v].jobs[i].req # x
  <2>1. ASSUME NEW i \in 1..Len(node[v].jobs)
        PROVE  node[v].jobs[i].req # x
    <3>1. In(node[v].jobs, node[v].jobs[i]) /\ node[v].jobs[i] \in Job
      BY <1>7 DEF In
    <3>2. QED
      BY <3>1 DEF NoJobs, Working
  <2>2. QED
    BY <2>1
<1>11. node[v].worker # NoJob => node[v].worker.req # x
  <2>1. node[v].worker \in Job \cup {NoJob}
    BY <1>1, NodeTypes
  <2>2. QED
    BY <2>1 DEF NoJobs, Working
<1>12. OneJob(v)'
  <2>1. OneJob(v)
    BY <1>1 DEF JobsOrderly
  <2>2. \A i \in 1..Len(node'[v].jobs) :
            i \in 1..Len(node[v].jobs) \/ i = Len(node[v].jobs) + 1
    BY <1>9
  <2>3. \A i, k \in 1..Len(node'[v].jobs) :
            node'[v].jobs[i].req = node'[v].jobs[k].req => i = k
    <3>1. ASSUME NEW i \in 1..Len(node'[v].jobs), NEW k \in 1..Len(node'[v].jobs),
                 node'[v].jobs[i].req = node'[v].jobs[k].req
          PROVE  i = k
      <4>1. CASE i \in 1..Len(node[v].jobs) /\ k \in 1..Len(node[v].jobs)
        BY <1>9, <2>1, <3>1, <4>1 DEF OneJob
      <4>2. CASE i \in 1..Len(node[v].jobs) /\ k = Len(node[v].jobs) + 1
        BY <1>5, <1>9, <1>10, <3>1, <4>2
      <4>3. CASE i = Len(node[v].jobs) + 1 /\ k \in 1..Len(node[v].jobs)
        BY <1>5, <1>9, <1>10, <3>1, <4>3
      <4>4. QED
        BY <2>2, <4>1, <4>2, <4>3
    <3>2. QED
      BY <3>1
  <2>4. ASSUME node'[v].worker # NoJob, NEW i \in 1..Len(node'[v].jobs)
        PROVE  node'[v].jobs[i].req # node'[v].worker.req
    <3>1. node'[v].worker = node[v].worker
      BY <1>6
    <3>2. CASE i \in 1..Len(node[v].jobs)
      BY <1>9, <2>1, <2>4, <3>1, <3>2 DEF OneJob
    <3>3. CASE i = Len(node[v].jobs) + 1
      BY <1>5, <1>9, <1>11, <2>4, <3>1, <3>3
    <3>4. QED
      BY <2>2, <3>2, <3>3
  <2>5. QED
    BY <2>3, <2>4 DEF OneJob
<1>13. \A u \in Units \ {v} : OneJob(u)'
  BY <1>1, <1>6, SMTT(30) DEF JobsOrderly, OneJob, SameBut
<1>14. ASSUME NEW u \in Units, NEW j \in Job, Working(u, j)'
       PROVE  Working(u, j) \/ (u = v /\ j = a)
  BY <1>6, <1>9, <1>14 DEF Working, SameBut
<1>15. ASSUME NEW u \in Units, NEW j \in Job, Working(u, j)
       PROVE  OrderlyJob(u, j)'
  <2>1. OrderlyJob(u, j) /\ j.req \in Requests /\ j.req # x /\ j.sid \in Sid
    BY <1>1, <1>15 DEF JobsOrderly, Job, NoJobs
  <2>2. u = v => j.sid # s
    <3>1. ASSUME u = v, j.sid = s
          PROVE  FALSE
      <4>1. Asked(x, j.sid[2])
        BY <1>5, <3>1
      <4>2. j.req = x
        BY <1>1, <1>15, <4>1, JobOwner
      <4>3. QED
        BY <2>1, <4>2
    <3>2. QED
      BY <3>1
  <2>3. node'[u].channel[j.sid] = node[u].channel[j.sid]
    BY <1>6, <1>8, <2>1, <2>2 DEF SameBut
  <2>4. /\ pc'[j.req] = pc[j.req] /\ stage'[j.req] = stage[j.req]
        /\ conn'[j.req] = conn[j.req] /\ work'[j.req] = work[j.req]
    BY <2>1 DEF OthersStay
  <2>5. QED
    BY <2>1, <2>3, <2>4 DEF OrderlyJob, Inferring, UnitOf
<1>16. OrderlyJob(v, a)'
  <2>1. UnitOf(x)' = v
    BY <1>2 DEF UnitOf
  <2>2. QED
    BY <1>5, <1>8, <2>1 DEF OrderlyJob, Inferring, UnitOf
<1>17. JobsOrderly'
  BY <1>12, <1>13, <1>14, <1>15, <1>16 DEF JobsOrderly
<1>18. QED
  BY <1>5, <1>14, <1>17

LEMMA OrderlyReads ==
    ASSUME Steady, NEW x \in Requests, ReadsOn(x), lapses' = {}
    PROVE  AllOrderly'
<1> DEFINE line == Head(inbox[x])
           n    == IF pc[x] = "setup" THEN line.id ELSE work[x]
<1>1. /\ TypeOK /\ StageInv /\ OwnInv /\ TokenOf(x) /\ ExitsOrderly /\ LinesOrderly
  BY DEF Steady, AllOrderly
<1>2. /\ inbox[x] # <<>> /\ inbox'[x] = Tail(inbox[x]) /\ pc'[x] \in {"infer", "yield"}
      /\ conn'[x] = conn[x] /\ stage'[x] = stage[x] /\ OthersStay(x)
  BY DEF ReadsOn, Reads
<1>3. /\ inbox[x] \in Seq(AnyLine) /\ line = inbox[x][1] /\ 1 \in 1..Len(inbox[x])
      /\ Received(x, line) /\ line \in AnyLine /\ line.id \in Ids /\ Asked(x, line.id)
      /\ line.kind \in Tokens => SetupReceived(x, x, 1)
  BY <1>2, FirstLine
<1>4. /\ pc[x] \in {"setup", "infer"} /\ work'[x] = n
      /\ pc[x] = "setup" => line.kind = "setup"
      /\ pc[x] = "infer" => node' = node \/ (line.kind = "last" /\ Heard(x, n))
      /\ node' = node \/ Heard(x, n)
  BY DEF ReadsOn
<1>5. n \in Ids /\ Asked(x, n)
  <2>1. CASE pc[x] = "setup"
    BY <1>3, <2>1
  <2>2. CASE pc[x] = "infer"
    <3>1. work[x] \in Ids /\ work[x] # NoId
      BY <1>1, <2>2 DEF StageInv, Ids, NoId
    <3>2. QED
      BY <1>1, <2>2, <3>1 DEF OwnInv
  <2>3. QED
    BY <1>4, <2>1, <2>2
<1>6. /\ Len(Tail(inbox[x])) = Len(inbox[x]) - 1 /\ Len(inbox[x]) \in Nat
      /\ \A i \in 1..Len(Tail(inbox[x])) :
            i + 1 \in 1..Len(inbox[x]) /\ Tail(inbox[x])[i] = inbox[x][i + 1]
      /\ \A l : In(Tail(inbox[x]), l) => In(inbox[x], l)
  BY <1>2, <1>3, TakingFirst
<1>7. Inferring(x)'
  BY <1>2 DEF Inferring
<1>8. pc[x] = "infer" =>
         \A i \in 1..Len(inbox[x]) :
            /\ inbox[x][i].kind \in {"part", "last"} /\ inbox[x][i].unit = UnitOf(x)
            /\ inbox[x][i].kind = "last" => i = Len(inbox[x]) /\ NoJobs(x)
  BY <1>1 DEF LinesOrderly, OrderlyRequest, Inferring
<1>9. Heard(x, n) /\ node' # node => NoJobs(x)
  <2>1. CASE pc[x] = "setup"
    BY <2>1, NotInferring DEF Inferring
  <2>2. CASE pc[x] = "infer"
    BY <1>3, <1>4, <1>8, <2>2
  <2>3. QED
    BY <1>4, <2>1, <2>2
<1>10. pc[x] = "setup" => Len(inbox'[x]) = 0
  <2>1. ASSUME pc[x] = "setup"
        PROVE  Len(Tail(inbox[x])) = 0
    <3>1. SetupReceived(x, x, 1)
      BY <1>3, <1>4, <2>1 DEF Tokens
    <3>2. \A i \in Nat : SetupReceived(x, x, i) => i = 1
      BY <1>1, <3>1 DEF TokenOf
    <3>3. ASSUME NEW i \in 1..Len(inbox[x])
          PROVE  i = 1
      <4>1. inbox[x][i].kind \in Tokens
        BY <1>1, <2>1, <3>3 DEF LinesOrderly, OrderlyRequest
      <4>2. inbox[x][i] \in AnyLine /\ Received(x, inbox[x][i])
        BY <1>3, <3>3 DEF Received, In
      <4>3. inbox[x][i].for = x
        BY <1>1, <4>2 DEF OwnInv
      <4>4. SetupReceived(x, x, i)
        BY <3>3, <4>1, <4>3 DEF SetupReceived
      <4>5. QED
        BY <3>2, <3>3, <4>4
    <3>4. Len(Tail(inbox[x])) = 0
      <4>1. Len(inbox[x]) \in 1..Len(inbox[x])
        BY <1>3, <1>6
      <4>2. Len(inbox[x]) = 1
        BY <3>3, <4>1
      <4>3. QED
        BY <1>6, <4>2
    <3>5. QED
      BY <3>4
  <2>2. QED
    BY <1>2, <2>1
<1> HIDE DEF n, line
<1>11. /\ JobsOrderly' /\ (node' = node /\ NoJobs(x) => NoJobs(x)')
       /\ \A u \in Units, j \in Job : Working(u, j)' => Working(u, j) \/ j.req = x
  <2>1. CASE node' = node
    <3>1. \A u \in Units : /\ node'[u].jobs = node[u].jobs
                           /\ node'[u].worker = node[u].worker
                           /\ node'[u].channel = node[u].channel
      BY <2>1
    <3>2. \/ NoJobs(x)
          \/ /\ Inferring(x)' /\ stage'[x] = stage[x] /\ work'[x] = work[x]
             /\ conn'[x] = conn[x]
      <4>1. CASE pc[x] = "setup"
        BY <4>1, NotInferring DEF Inferring
      <4>2. CASE pc[x] = "infer"
        BY <1>2, <1>4, <1>7, <4>2 DEF n
      <4>3. QED
        BY <1>4, <4>1, <4>2
    <3>3. QED
      BY <1>2, <3>1, <3>2, JobsStay
  <2>2. CASE Heard(x, n) /\ node' # node
    BY <1>2, <1>4, <1>5, <1>7, <1>9, <2>2, JobsHeard
  <2>3. QED
    BY <1>4, <2>1, <2>2
<1>12. ASSUME pc[x] = "infer", NEW i \in 1..Len(inbox'[x])
       PROVE  /\ inbox'[x][i].kind \in {"part", "last"} /\ inbox'[x][i].unit = UnitOf(x)
              /\ inbox'[x][i].kind = "last" => i = Len(inbox'[x]) /\ NoJobs(x)'
  <2>1. i + 1 \in 1..Len(inbox[x]) /\ inbox'[x][i] = inbox[x][i + 1] /\ i \in Nat \ {0}
    BY <1>2, <1>6, <1>12
  <2>2. line.kind # "last"
    <3>1. line.kind = "last" => 1 = Len(inbox[x])
      BY <1>3, <1>8, <1>12
    <3>2. QED
      BY <1>6, <2>1, <3>1
  <2>3. node' = node
    BY <1>4, <1>12, <2>2
  <2>4. inbox[x][i + 1].kind = "last" => i + 1 = Len(inbox[x]) /\ NoJobs(x)
    BY <1>8, <1>12, <2>1
  <2>5. inbox'[x][i].kind = "last" => i = Len(inbox'[x])
    BY <1>2, <1>6, <2>1, <2>4
  <2>6. QED
    BY <1>8, <1>11, <1>12, <2>1, <2>3, <2>4, <2>5
<1>13. OrderlyRequest(x)'
  <2>1. pc'[x] # "setup" /\ UnitOf(x)' = UnitOf(x)
    BY <1>2 DEF UnitOf
  <2>2. CASE pc[x] = "setup"
    <3>1. Len(inbox'[x]) = 0
      BY <1>10, <2>2
    <3>2. 1..Len(inbox'[x]) = {}
      BY <3>1
    <3>3. QED
      BY <2>1, <3>2 DEF OrderlyRequest
  <2>3. CASE pc[x] = "infer"
    BY <1>12, <2>1, <2>3 DEF OrderlyRequest
  <2>4. QED
    BY <1>4, <2>2, <2>3
<1>14. ASSUME NEW u \in Units, NEW k \in Ids, NEW com \in Nat, Exiting(u, x, k, com)
       PROVE  work'[x] # k /\ (com # NoCom => conn'[x].com # com)
  <2>1. OrderlyExit(x, k, com)
    BY <1>1, <1>14 DEF ExitsOrderly
  <2>2. com # NoCom => conn'[x].com # com
    BY <1>2, <1>4, <2>1 DEF OrderlyExit
  <2>3. CASE pc[x] = "setup"
    <3>1. Announced(line.id)
      BY <1>3, <1>4, <2>3 DEF Announced
    <3>2. QED
      BY <1>4, <2>1, <2>2, <2>3, <3>1 DEF OrderlyExit, n
  <2>4. CASE pc[x] = "infer"
    BY <1>4, <2>1, <2>2, <2>4 DEF OrderlyExit, n
  <2>5. QED
    BY <1>4, <2>3, <2>4
<1>15. ASSUME NEW u \in Units
       PROVE  /\ node'[u].alive = node[u].alive /\ node'[u].ev = node[u].ev
              /\ node'[u].events = node[u].events
              /\ \A s \in Sid : node'[u].channel[s].held = node[u].channel[s].held
  <2>1. CASE node' = node
    BY <2>1
  <2>2. CASE Heard(x, n)
    <3>1. PICK v \in Units : v = UnitOf(x)
      BY <1>1, UnitOfType
    <3>2. PICK s \in Sid : s = <<node[v].tasks[n], n>>
      BY <1>1, <1>5, <2>2, <3>1, HeardNode
    <3>3. /\ SameBut(v) /\ node'[v].alive = node[v].alive /\ node'[v].ev = node[v].ev
          /\ node'[v].events = node[v].events
          /\ node'[v].channel = [node[v].channel EXCEPT ![s].url = conn[x].com]
      BY <1>1, <1>5, <2>2, <3>1, <3>2, HeardNode
    <3>4. node[v].channel \in [Sid -> Channel]
      BY <1>1, NodeTypes
    <3>5. \A y \in Sid : node'[v].channel[y].held = node[v].channel[y].held
      <4>1. node[v].channel[s] \in Channel
        BY <3>4
      <4>2. node'[v].channel[s] = [node[v].channel[s] EXCEPT !.url = conn[x].com]
        BY <3>3, <3>4
      <4>3. node'[v].channel[s].held = node[v].channel[s].held
        BY <4>1, <4>2 DEF Channel
      <4>4. \A y \in Sid \ {s} : node'[v].channel[y] = node[v].channel[y]
        BY <3>3, <3>4
      <4>5. QED
        BY <4>3, <4>4
    <3>6. QED
      BY <3>3, <3>5 DEF SameBut
  <2>3. QED
    BY <1>4, <2>1, <2>2
<1>16. /\ \A l \in AnyLine : In(inbox'[x], l) => Received(x, l)
       /\ \A u \in Units, e \in Event : In(node'[u].events, e) => Queued(u, e)
  BY <1>2, <1>6, <1>15 DEF Received, Queued
<1>17. QED
  BY <1>2, <1>11, <1>13, <1>14, <1>15, <1>16, OrderlyUser

LEMMA OrderlyResumes ==
    ASSUME Steady, NEW x \in Requests, Resumes(x)
    PROVE  AllOrderly'
<1>1. /\ TypeOK /\ ExitsOrderly /\ LinesOrderly
  BY DEF Steady, AllOrderly
<1>2. /\ pc[x] = "yield" /\ pc' = [pc EXCEPT ![x] = "infer"]
      /\ stage' = stage /\ conn' = conn /\ inbox' = inbox /\ work' = work /\ node' = node
  BY DEF Resumes
<1>3. pc'[x] = "infer" /\ \A q \in Requests \ {x} : pc'[q] = pc[q]
  BY <1>1, <1>2 DEF TypeOK
<1>4. OthersStay(x) /\ Inferring(x) /\ Inferring(x)'
  BY <1>2, <1>3 DEF OthersStay, Inferring
<1>5. /\ JobsOrderly' /\ (NoJobs(x) => NoJobs(x)')
      /\ \A u \in Units, j \in Job : Working(u, j)' => Working(u, j) \/ j.req = x
  BY <1>2, <1>4, JobsStay
<1>6. OrderlyRequest(x)'
  <2>1. OrderlyRequest(x)
    BY <1>1 DEF LinesOrderly
  <2>2. QED
    BY <1>2, <1>3, <1>4, <1>5, <2>1 DEF OrderlyRequest, UnitOf
<1>7. ASSUME NEW u \in Units, NEW k \in Ids, NEW com \in Nat, Exiting(u, x, k, com)
      PROVE  work'[x] # k /\ (com # NoCom => conn'[x].com # com)
  BY <1>1, <1>2, <1>7 DEF ExitsOrderly, OrderlyExit
<1>8. /\ \A l \in AnyLine : In(inbox'[x], l) => Received(x, l)
      /\ \A u \in Units, e \in Event : In(node'[u].events, e) => Queued(u, e)
  BY <1>2 DEF Received, Queued
<1>9. QED
  BY <1>2, <1>4, <1>5, <1>6, <1>7, <1>8, OrderlyUser

(* What the event thread is about to answer was asked for.                  *)
Answers(u) ==
    node'[u].ev # NoAnswer =>
        \/ node'[u].ev = node[u].ev
        \/ \E e \in Event :
              /\ Queued(u, e) /\ e.req = node'[u].ev.line.for /\ e.to = node'[u].ev.to
              /\ \/ /\ e.kind = "exit" /\ node'[u].ev.line.kind \in Parting
                    /\ node'[u].ev.line.id = e.id
                 \/ /\ e.kind = "setup" /\ node'[u].ev.line.kind \in Tokens
                    /\ node'[u].ev.line.id = ids + 1

(* The jobs of node u come from its jobs, whose channels are where they were.*)
JobsStem(u) ==
    \A j \in Job : Working(u, j)' =>
        \E i \in Job : /\ Working(u, i) /\ i.req = j.req /\ i.sid = j.sid
                       /\ node'[u].channel[j.sid].url = node[u].channel[j.sid].url

(* How a step of node u keeps all orderly.                                  *)
LEMMA OrderlyNode ==
    ASSUME Steady, NEW u \in Units, SameBut(u), UNCHANGED <<pc, stage, conn, work>>,
           node'[u].alive, \A s \in Sid : node'[u].channel[s].held = <<>>,
           OneJob(u)', JobsStem(u), Answers(u),
           \A e \in Event : In(node'[u].events, e) => Queued(u, e),
           \A q \in Requests, l \in AnyLine : In(inbox'[q], l) /\ l.kind = "setup" =>
               Received(q, l) \/ (node[u].ev # NoAnswer /\ node[u].ev.line = l),
           LinesOrderly'
    PROVE  AllOrderly'
<1>1. /\ TypeOK /\ OwnInv /\ NodesOrderly /\ JobsOrderly /\ ExitsOrderly /\ SetupsOrderly
  BY DEF Steady, AllOrderly
<1>2. NodesOrderly'
  BY <1>1 DEF NodesOrderly, SameBut
<1>3. JobsOrderly'
  <2>1. \A v \in Units : OneJob(v)'
    BY <1>1, SMTT(30) DEF JobsOrderly, OneJob, SameBut
  <2>2. ASSUME NEW v \in Units, NEW j \in Job, Working(v, j)'
        PROVE  OrderlyJob(v, j)'
    <3>1. PICK i \in Job : /\ Working(v, i) /\ i.req = j.req /\ i.sid = j.sid
                           /\ node'[v].channel[j.sid].url = node[v].channel[j.sid].url
      <4>1. CASE v = u
        BY <2>2, <4>1 DEF JobsStem
      <4>2. CASE v # u
        BY <2>2, <4>2 DEF SameBut, Working
      <4>3. QED
        BY <4>1, <4>2
    <3>2. OrderlyJob(v, i)
      BY <1>1, <3>1 DEF JobsOrderly
    <3>3. QED
      BY <3>1, <3>2 DEF OrderlyJob, Inferring, UnitOf
  <2>3. QED
    BY <2>1, <2>2 DEF JobsOrderly
<1>4. ASSUME NEW n, Announced(n)'
      PROVE  Announced(n) \/ n = ids + 1
  <2>1. ASSUME NEW v \in Units, node'[v].ev # NoAnswer, node'[v].ev.line.kind = "setup",
               node'[v].ev.line.id = n
        PROVE  Announced(n) \/ n = ids + 1
    <3>1. CASE node'[v].ev = node[v].ev
      BY <2>1, <3>1 DEF Announced
    <3>2. CASE v = u /\ node'[v].ev # node[v].ev
      BY <2>1, <3>2 DEF Answers, Parting
    <3>3. QED
      BY <3>1, <3>2 DEF SameBut
  <2>2. ASSUME NEW q \in Requests, NEW l \in AnyLine, In(inbox'[q], l), l.kind = "setup",
               l.id = n
        PROVE  Announced(n)
    BY <2>2 DEF Announced
  <2>3. QED
    BY <1>4, <2>1, <2>2 DEF Announced, Received
<1>5. ASSUME NEW v \in Units, NEW r \in Requests, NEW n \in Ids, NEW com \in Nat,
             Exiting(v, r, n, com)'
      PROVE  OrderlyExit(r, n, com)'
  <2>1. Exiting(v, r, n, com)
    <3>1. CASE v # u
      BY <1>5, <3>1 DEF Exiting, SameBut, Queued
    <3>2. ASSUME v = u, NEW e \in Event, In(node'[u].events, e), e.kind = "exit",
                 e.req = r, e.id = n, e.to = com
          PROVE  Exiting(v, r, n, com)
      BY <3>2 DEF Exiting
    <3>3. ASSUME v = u, node'[u].ev # NoAnswer, node'[u].ev.line.kind \in Parting,
                 node'[u].ev.line.for = r, node'[u].ev.line.id = n, node'[u].ev.to = com
          PROVE  Exiting(v, r, n, com)
      <4>1. CASE node'[u].ev = node[u].ev
        BY <3>3, <4>1 DEF Exiting
      <4>2. CASE node'[u].ev # node[u].ev
        <5>1. PICK e \in Event : /\ Queued(u, e) /\ e.req = r /\ e.to = com
                                 /\ e.kind = "exit" /\ e.id = n
          BY <3>3, <4>2 DEF Answers, Parting, Tokens
        <5>2. QED
          BY <3>3, <5>1 DEF Exiting
      <4>3. QED
        BY <4>1, <4>2
    <3>4. QED
      BY <1>5, <3>1, <3>2, <3>3 DEF Exiting, Queued
  <2>2. OrderlyExit(r, n, com)
    BY <1>1, <2>1 DEF ExitsOrderly
  <2>3. n # ids + 1
    <3>1. Asked(r, n)
      BY <1>1, <2>1, ExitOwner
    <3>2. n \in 1..ids /\ ids \in Nat
      BY <1>1, <3>1 DEF Asked, TypeOK
    <3>3. QED
      BY <3>2
  <2>4. ~Announced(n)'
    BY <1>4, <2>2, <2>3 DEF OrderlyExit
  <2>5. QED
    BY <2>2, <2>4 DEF OrderlyExit
<1>6. ASSUME NEW v \in Units, NEW r \in Requests, NEW com \in Nat, SettingUp(v, r, com)'
      PROVE  conn'[r].com = com
  <2>1. SettingUp(v, r, com)
    <3>1. CASE v # u
      BY <1>6, <3>1 DEF SettingUp, SameBut, Queued
    <3>2. ASSUME v = u, NEW e \in Event, In(node'[u].events, e), e.kind = "setup",
                 e.req = r, e.to = com
          PROVE  SettingUp(v, r, com)
      BY <3>2 DEF SettingUp
    <3>3. ASSUME v = u, node'[u].ev # NoAnswer, node'[u].ev.line.kind \in Tokens,
                 node'[u].ev.line.for = r, node'[u].ev.to = com
          PROVE  SettingUp(v, r, com)
      <4>1. CASE node'[u].ev = node[u].ev
        BY <3>3, <4>1 DEF SettingUp
      <4>2. CASE node'[u].ev # node[u].ev
        <5>1. PICK e \in Event : /\ Queued(u, e) /\ e.req = r /\ e.to = com
                                 /\ e.kind = "setup"
          BY <3>3, <4>2 DEF Answers, Parting, Tokens
        <5>2. QED
          BY <3>3, <5>1 DEF SettingUp
      <4>3. QED
        BY <4>1, <4>2
    <3>4. QED
      BY <1>6, <3>1, <3>2, <3>3 DEF SettingUp, Queued
  <2>2. QED
    BY <1>1, <2>1 DEF SetupsOrderly
<1>7. ExitsOrderly' /\ SetupsOrderly'
  BY <1>5, <1>6 DEF ExitsOrderly, SetupsOrderly
<1>8. QED
  BY <1>2, <1>3, <1>7 DEF AllOrderly

LEMMA LinesQuiet ==
    ASSUME Steady, NEW u \in Units, SameBut(u), UNCHANGED <<pc, stage, inbox>>, JobsStem(u)
    PROVE  LinesOrderly'
<1>1. LinesOrderly
  BY DEF Steady, AllOrderly
<1>2. ASSUME NEW r \in Requests, NoJobs(r)
      PROVE  NoJobs(r)'
  <2>1. ASSUME NEW v \in Units, NEW j \in Job, Working(v, j)'
        PROVE  j.req # r
    <3>1. PICK i \in Job : Working(v, i) /\ i.req = j.req
      BY <2>1 DEF JobsStem, SameBut, Working
    <3>2. QED
      BY <1>2, <3>1 DEF NoJobs
  <2>2. QED
    BY <2>1 DEF NoJobs
<1>3. QED
  BY <1>1, <1>2 DEF LinesOrderly, OrderlyRequest, Inferring, UnitOf

LEMMA SetupKeepsOrder ==
    ASSUME Steady, NEW u \in Units, Setup(u)
    PROVE  AllOrderly'
<1> DEFINE n     == ids + 1
           event == Head(node[u].events)
           new   == <<epoch, n>>
           old   == <<node[u].map[n], n>>
<1>1. /\ TypeOK /\ OwnInv /\ up /\ epoch = 0 /\ NodesOrderly /\ JobsOrderly
  BY DEF Steady, AllOrderly
<1>2. /\ n \in Ids /\ event \in Event /\ event.kind = "setup" /\ Queued(u, event)
      /\ node[u].events # <<>>
      /\ UNCHANGED <<up, epoch, coms, pc, stage, conn, inbox, work, lapses>>
      /\ SameBut(u) /\ node'[u].alive = node[u].alive
      /\ node'[u].events = Tail(node[u].events)
      /\ node'[u].ev = SetupAnswer(u, event, n)
      /\ node'[u].channel[new] = [url |-> event.to, held |-> <<>>]
      /\ \A s \in Sid \ {new} :
            \/ node'[u].channel[s] = node[u].channel[s]
            \/ node'[u].channel[s] = NoChannel /\ s = old
      /\ node'[u].jobs = node[u].jobs /\ node'[u].worker = node[u].worker
  BY <1>1, SetupNode
<1> HIDE DEF event
<1>3. \A s \in Sid : node'[u].channel[s].held = <<>>
  <2>1. node'[u].channel[new].held = <<>>
    BY <1>2
  <2>2. NoChannel.held = <<>>
    BY DEF NoChannel
  <2>3. QED
    BY <1>1, <1>2, <2>1, <2>2 DEF NodesOrderly
<1>4. JobsStem(u)
  <2>1. ASSUME NEW j \in Job, Working(u, j)'
        PROVE  Working(u, j) /\ node'[u].channel[j.sid].url = node[u].channel[j.sid].url
    <3>1. Working(u, j)
      BY <1>2, <2>1 DEF Working
    <3>2. Asked(j.req, j.sid[2]) /\ j.sid \in Sid
      BY <1>1, <3>1 DEF OwnInv, OwnUnit, Job
    <3>3. j.sid[2] \in 1..ids /\ ids \in Nat
      BY <1>1, <3>2 DEF Asked, TypeOK
    <3>4. j.sid[2] # n
      BY <3>3
    <3>5. j.sid # new /\ j.sid # old
      BY <3>4
    <3>6. QED
      BY <1>2, <3>1, <3>2, <3>5
  <2>2. QED
    BY <2>1 DEF JobsStem
<1>5. Answers(u)
  <2>1. /\ event.req = node'[u].ev.line.for /\ event.to = node'[u].ev.to
        /\ node'[u].ev.line.kind \in Tokens /\ node'[u].ev.line.id = ids + 1
    BY <1>2 DEF SetupAnswer, Answering, LineFor, Tokens
  <2>2. QED
    BY <1>2, <2>1 DEF Answers
<1>6. OneJob(u)'
  BY <1>1, <1>2 DEF JobsOrderly, OneJob
<1>7. \A e \in Event : In(node'[u].events, e) => Queued(u, e)
  BY <1>1, <1>2, TailQueued
<1>8. LinesOrderly'
  BY <1>2, <1>4, LinesQuiet
<1>9. node'[u].alive
  BY <1>1, <1>2 DEF NodesOrderly
<1>10. \A q \in Requests, l \in AnyLine : In(inbox'[q], l) => Received(q, l)
  BY <1>2 DEF Received
<1>11. QED
  BY <1>2, <1>3, <1>4, <1>5, <1>6, <1>7, <1>8, <1>9, <1>10, OrderlyNode

(* No job is left of a session whose exit, or whose exit's answer, is on its*)
(* way.                                                                     *)
LEMMA NoneLeft ==
    ASSUME Steady, NEW u \in Units, NEW r \in Requests, NEW n \in Ids, NEW com \in Nat,
           Exiting(u, r, n, com), NEW v \in Units, NEW j \in Job, Working(v, j)
    PROVE  j.sid[2] # n
<1>1. TypeOK /\ OwnInv /\ JobsOrderly /\ ExitsOrderly
  BY DEF Steady, AllOrderly
<1>2. OrderlyExit(r, n, com) /\ Asked(r, n)
  BY <1>1, ExitOwner DEF ExitsOrderly
<1>3. ASSUME j.sid[2] = n
      PROVE  FALSE
  <2>1. Inferring(r) /\ work[r] = n
    BY <1>1, <1>2, <1>3, JobOwner
  <2>2. QED
    BY <1>2, <2>1 DEF OrderlyExit, Inferring
<1>4. QED
  BY <1>3

LEMMA ExitKeepsOrder ==
    ASSUME Steady, NEW u \in Units, Exit(u)
    PROVE  AllOrderly'
<1> DEFINE event == Head(node[u].events)
           n     == event.id
           s     == <<node[u].map[n], n>>
<1>1. /\ TypeOK /\ OwnInv /\ NodesOrderly /\ JobsOrderly
  BY DEF Steady, AllOrderly
<1>2. /\ n \in Ids /\ event \in Event /\ event.req \in Requests /\ event.to \in Nat
      /\ event.kind = "exit" /\ Queued(u, event) /\ node[u].events # <<>>
      /\ UNCHANGED <<pc, stage, conn, inbox, work>>
      /\ \/ ExitsNothing(u) \/ ExitsTask(u)
         \/ node[u].tasks[n] # NoEpoch /\ node[u].map[n] = NoEpoch
  BY <1>1, ExitNode
<1>3. Exiting(u, event.req, n, event.to)
  BY <1>2 DEF Exiting
<1>4. ~(node[u].tasks[n] # NoEpoch /\ node[u].map[n] = NoEpoch)
  BY <1>1, <1>2 DEF OwnInv, OwnUnit
<1>5. NoChannel.held = <<>>
  BY DEF NoChannel
<1>6. /\ SameBut(u) /\ node'[u].alive = node[u].alive
      /\ node'[u].events = Tail(node[u].events)
      /\ node'[u].ev = Answering(event, "unknown", u, n, FALSE)
         \/ node'[u].ev = Answering(event, "exit", u, n, TRUE)
      /\ \A x \in Sid : \/ node'[u].channel[x] = node[u].channel[x]
                        \/ x = s
      /\ \A x \in Sid : node'[u].channel[x].held = <<>>
      /\ node'[u].jobs = node[u].jobs /\ node'[u].worker = node[u].worker
  <2>1. CASE ExitsNothing(u)
    BY <1>1, <2>1 DEF ExitsNothing, NodesOrderly
  <2>2. CASE ExitsTask(u)
    BY <1>1, <1>5, <2>2 DEF ExitsTask, NodesOrderly
  <2>3. QED
    BY <1>2, <1>4, <2>1, <2>2
<1> HIDE DEF event
<1>7. JobsStem(u)
  <2>1. ASSUME NEW j \in Job, Working(u, j)'
        PROVE  Working(u, j) /\ node'[u].channel[j.sid].url = node[u].channel[j.sid].url
    <3>1. Working(u, j) /\ j.sid \in Sid
      BY <1>6, <2>1 DEF Working, Job
    <3>2. j.sid[2] # n
      BY <1>2, <1>3, <3>1, NoneLeft
    <3>3. j.sid # s
      BY <3>2
    <3>4. QED
      BY <1>6, <3>1, <3>3
  <2>2. QED
    BY <2>1 DEF JobsStem
<1>8. Answers(u)
  <2>1. /\ event.req = node'[u].ev.line.for /\ event.to = node'[u].ev.to
        /\ node'[u].ev.line.kind \in Parting /\ node'[u].ev.line.id = event.id
    BY <1>6 DEF Answering, LineFor, Parting
  <2>2. QED
    BY <1>2, <2>1 DEF Answers
<1>9. OneJob(u)'
  BY <1>1, <1>6 DEF JobsOrderly, OneJob
<1>10. \A e \in Event : In(node'[u].events, e) => Queued(u, e)
  BY <1>1, <1>2, <1>6, TailQueued
<1>11. LinesOrderly'
  BY <1>2, <1>6, <1>7, LinesQuiet
<1>12. node'[u].alive
  BY <1>1, <1>6 DEF NodesOrderly
<1>13. \A q \in Requests, l \in AnyLine : In(inbox'[q], l) => Received(q, l)
  BY <1>2 DEF Received
<1>14. QED
  BY <1>2, <1>6, <1>7, <1>8, <1>9, <1>10, <1>11, <1>12, <1>13, OrderlyNode

LEMMA ArrivesOne ==
    ASSUME TypeOK, NEW com, NEW line \in AnyLine, Arrive(com, <<line>>)
    PROVE  \A q \in Requests :
               /\ inbox[q] \in Seq(AnyLine)
               /\ q \notin Readers(com) => inbox'[q] = inbox[q]
               /\ q \in Readers(com) =>
                     /\ Len(inbox'[q]) = Len(inbox[q]) + 1 /\ Len(inbox[q]) \in Nat
                     /\ \A i \in 1..Len(inbox[q]) : inbox'[q][i] = inbox[q][i]
                     /\ inbox'[q][Len(inbox[q]) + 1] = line
                     /\ \A l : In(inbox'[q], l) => Received(q, l) \/ l = line
<1> DEFINE t == <<line>>
<1>1. /\ t \in Seq(AnyLine) /\ Len(t) = 1 /\ t[1] = line
      /\ \A l : In(t, l) => l = line
  BY DEF In
<1>2. Arrive(com, t)
  OBVIOUS
<1> HIDE DEF t
<1>3. ASSUME NEW q \in Requests
      PROVE  /\ inbox[q] \in Seq(AnyLine)
             /\ q \notin Readers(com) => inbox'[q] = inbox[q]
             /\ q \in Readers(com) =>
                   /\ Len(inbox'[q]) = Len(inbox[q]) + 1 /\ Len(inbox[q]) \in Nat
                   /\ \A i \in 1..Len(inbox[q]) : inbox'[q][i] = inbox[q][i]
                   /\ inbox'[q][Len(inbox[q]) + 1] = line
                   /\ \A l : In(inbox'[q], l) => Received(q, l) \/ l = line
  <2>1. inbox[q] \in Seq(AnyLine)
    BY DEF TypeOK
  <2>2. /\ q \notin Readers(com) => inbox'[q] = inbox[q]
        /\ q \in Readers(com) => inbox'[q] = inbox[q] \o t
    BY <1>1, <1>2, ArriveEffect
  <2>3. /\ Len(inbox[q] \o t) = Len(inbox[q]) + 1 /\ Len(inbox[q]) \in Nat
        /\ \A i \in 1..Len(inbox[q]) : (inbox[q] \o t)[i] = inbox[q][i]
        /\ (inbox[q] \o t)[Len(inbox[q]) + 1] = t[1]
        /\ \A l : In(inbox[q] \o t, l) => In(inbox[q], l) \/ In(t, l)
    <3>1. PICK x \in Seq(AnyLine) : x = inbox[q]
      BY <2>1
    <3>2. /\ Len(x \o t) = Len(x) + Len(t) /\ Len(x) \in Nat
          /\ \A i \in 1..Len(x) : (x \o t)[i] = x[i]
          /\ \A i \in 1..Len(t) : (x \o t)[Len(x) + i] = t[i]
      BY <1>1, <3>1, Concatenating
    <3>3. \A l : In(x \o t, l) <=> In(x, l) \/ In(t, l)
      BY <1>1, <3>1, Concatenating
    <3>4. 1 \in 1..Len(t)
      BY <1>1
    <3>5. QED
      BY <1>1, <3>1, <3>2, <3>3, <3>4
  <2>4. QED
    BY <1>1, <2>1, <2>2, <2>3 DEF Received
<1>4. QED
  BY <1>3

LEMMA AnswerKeepsOrder ==
    ASSUME Steady, NEW u \in Units, Answer(u)
    PROVE  AllOrderly'
<1> DEFINE e == node[u].ev
           n == e.line.id
           s == <<node[u].map[n], n>>
           r == e.line.for
<1>1. /\ TypeOK /\ OwnInv /\ NodesOrderly /\ JobsOrderly /\ ExitsOrderly /\ SetupsOrderly
      /\ LinesOrderly
  BY DEF Steady, AllOrderly
<1>2. /\ e # NoAnswer /\ e \in AnyAnswer /\ e.line \in AnyLine /\ n \in Ids
      /\ e.to \in Nat /\ Arrive(e.to, <<e.line>>)
      /\ UNCHANGED <<up, epoch, coms, ids, pc, stage, conn, work, owner, lapses>>
      /\ SameBut(u) /\ node'[u].alive = node[u].alive
      /\ node'[u].events = node[u].events /\ node'[u].ev = NoAnswer
      /\ \A x \in Sid : \/ node'[u].channel[x] = node[u].channel[x]
                        \/ e.release /\ x = s /\ node'[u].channel[x] = NoChannel
      /\ node'[u].jobs = node[u].jobs /\ node'[u].worker = node[u].worker
  BY <1>1, AnswerNode
<1>3. /\ r \in Requests /\ e.line.kind \in Tokens \cup Parting
      /\ Asked(r, n) /\ (e.release => e.line.kind \in {"full", "exit"})
  <2>1. e.line \in Line({"setup", "full", "exit", "unknown"})
    BY <1>2 DEF AnyAnswer
  <2>2. r \in Requests /\ e.line.kind \in Tokens \cup Parting
    BY <2>1 DEF Line, Tokens, Parting
  <2>3. QED
    BY <1>1, <1>2, <2>2 DEF OwnInv, OwnUnit
<1>4. e.line.kind \in Tokens => SettingUp(u, r, e.to) /\ SetupHandled(r, u)
  BY <1>2 DEF SettingUp, SetupHandled
<1>5. e.line.kind \in Tokens => pc[r] = "setup"
  BY <1>1, <1>3, <1>4, SetupOnlyInSetup DEF Steady
<1>6. e.line.kind \in Parting => Exiting(u, r, n, e.to)
  BY <1>2 DEF Exiting
<1>7. /\ \A q \in Readers(e.to) : q = r /\ conn[q].com = e.to /\ e.to # NoCom
  <2>1. ASSUME NEW q \in Readers(e.to)
        PROVE  q = r /\ conn[q].com = e.to /\ e.to # NoCom
    <3>1. q \in Requests /\ e.to \in Com /\ conn[q].com = e.to /\ Claims(q, e.to)
      BY <1>1, <2>1, ReaderClaims
    <3>2. Claims(r, e.to)
      BY <1>2 DEF Claims
    <3>3. QED
      BY <1>1, <1>3, <3>1, <3>2 DEF OwnInv, Com
  <2>2. QED
    BY <2>1
<1>8. \A q \in Requests :
         /\ inbox[q] \in Seq(AnyLine)
         /\ q \notin Readers(e.to) => inbox'[q] = inbox[q]
         /\ q \in Readers(e.to) =>
               /\ Len(inbox'[q]) = Len(inbox[q]) + 1 /\ Len(inbox[q]) \in Nat
               /\ \A i \in 1..Len(inbox[q]) : inbox'[q][i] = inbox[q][i]
               /\ inbox'[q][Len(inbox[q]) + 1] = e.line
               /\ \A l : In(inbox'[q], l) => Received(q, l) \/ l = e.line
  BY <1>1, <1>2, ArrivesOne
<1> HIDE DEF e, n, r, s
<1>9. NoChannel.held = <<>>
  BY DEF NoChannel
<1>10. \A x \in Sid : node'[u].channel[x].held = <<>>
  BY <1>1, <1>2, <1>9 DEF NodesOrderly
<1>11. ASSUME e.release, NEW j \in Job, Working(u, j)
       PROVE  j.sid[2] # n
  <2>1. CASE e.line.kind \in Parting
    BY <1>2, <1>3, <1>6, <1>11, <2>1, NoneLeft
  <2>2. CASE e.line.kind \in Tokens
    <3>1. ASSUME j.sid[2] = n
          PROVE  FALSE
      <4>1. Inferring(r)
        BY <1>1, <1>3, <1>11, <3>1, JobOwner
      <4>2. QED
        BY <1>5, <2>2, <4>1 DEF Inferring
    <3>2. QED
      BY <3>1
  <2>3. QED
    BY <1>3, <2>1, <2>2
<1>12. JobsStem(u)
  <2>1. ASSUME NEW j \in Job, Working(u, j)'
        PROVE  Working(u, j) /\ node'[u].channel[j.sid].url = node[u].channel[j.sid].url
    <3>1. Working(u, j) /\ j.sid \in Sid
      BY <1>2, <2>1 DEF Working, Job
    <3>2. e.release => j.sid # s
      BY <1>11, <3>1 DEF s
    <3>3. QED
      BY <1>2, <3>1, <3>2
  <2>2. QED
    BY <2>1 DEF JobsStem
<1>13. Answers(u)
  BY <1>2 DEF Answers
<1>14. OneJob(u)'
  BY <1>1, <1>2 DEF JobsOrderly, OneJob
<1>15. \A k \in Event : In(node'[u].events, k) => Queued(u, k)
  BY <1>2 DEF Queued
<1>16. ASSUME NEW q \in Requests, NoJobs(q)
       PROVE  NoJobs(q)'
  <2>1. ASSUME NEW v \in Units, NEW j \in Job, Working(v, j)'
        PROVE  j.req # q
    <3>1. Working(v, j)
      BY <1>2, <2>1 DEF SameBut, Working
    <3>2. QED
      BY <1>16, <3>1 DEF NoJobs
  <2>2. QED
    BY <2>1 DEF NoJobs
<1>17. ASSUME NEW q \in Requests
       PROVE  OrderlyRequest(q)'
  <2>1. OrderlyRequest(q)
    BY <1>1 DEF LinesOrderly
  <2>2. CASE q \notin Readers(e.to)
    BY <1>2, <1>8, <1>16, <2>1, <2>2 DEF OrderlyRequest, Inferring, UnitOf
  <2>3. CASE q \in Readers(e.to) /\ e.line.kind \in Parting
    <3>1. OrderlyExit(r, n, e.to)
      BY <1>1, <1>2, <1>3, <1>6, <2>3 DEF ExitsOrderly
    <3>2. pc[q] = "exit"
      BY <1>7, <2>3, <3>1 DEF OrderlyExit
    <3>3. QED
      BY <1>2, <3>2 DEF OrderlyRequest, Inferring
  <2>4. CASE q \in Readers(e.to) /\ e.line.kind \in Tokens
    <3>1. pc[q] = "setup"
      BY <1>5, <1>7, <2>4
    <3>2. /\ Len(inbox'[q]) = Len(inbox[q]) + 1 /\ Len(inbox[q]) \in Nat
          /\ \A i \in 1..Len(inbox[q]) : inbox'[q][i] = inbox[q][i]
          /\ inbox'[q][Len(inbox[q]) + 1] = e.line
      BY <1>8, <2>4
    <3>3. ASSUME NEW i \in 1..Len(inbox'[q])
          PROVE  inbox'[q][i].kind \in Tokens
      <4>1. i \in 1..Len(inbox[q]) \/ i = Len(inbox[q]) + 1
        BY <3>2, <3>3
      <4>2. CASE i \in 1..Len(inbox[q])
        BY <2>1, <3>1, <3>2, <4>2 DEF OrderlyRequest
      <4>3. CASE i = Len(inbox[q]) + 1
        BY <2>4, <3>2, <4>3
      <4>4. QED
        BY <4>1, <4>2, <4>3
    <3>4. QED
      BY <1>2, <3>1, <3>3 DEF OrderlyRequest, Inferring
  <2>5. QED
    BY <1>3, <2>2, <2>3, <2>4
<1>18. LinesOrderly'
  BY <1>17 DEF LinesOrderly
<1>19. node'[u].alive
  BY <1>1, <1>2 DEF NodesOrderly
<1>20. \A q \in Requests, l \in AnyLine : In(inbox'[q], l) =>
           Received(q, l) \/ (node[u].ev # NoAnswer /\ node[u].ev.line = l)
  BY <1>2, <1>8 DEF Received, e
<1>21. QED
  BY <1>2, <1>10, <1>12, <1>13, <1>14, <1>15, <1>18, <1>19, <1>20, OrderlyNode

LEMMA TakeKeepsOrder ==
    ASSUME Steady, NEW u \in Units, WorkerTake(u)
    PROVE  AllOrderly'
<1> DEFINE job == Head(node[u].jobs)
<1>1. /\ TypeOK /\ NodesOrderly /\ JobsOrderly
  BY DEF Steady, AllOrderly
<1>2. /\ node[u].worker = NoJob /\ node[u].jobs # <<>>
      /\ UNCHANGED <<pc, stage, conn, inbox, work>>
      /\ SameBut(u) /\ node'[u].alive = node[u].alive
      /\ node'[u].events = node[u].events /\ node'[u].ev = node[u].ev
      /\ node'[u].channel = node[u].channel
      /\ node'[u].jobs = Tail(node[u].jobs)
      /\ node'[u].worker \in {job, NoJob}
  BY <1>1, WorkerTakeNode
<1>3. node[u].jobs \in Seq(Job)
  BY <1>1, NodeTypes
<1>4. /\ Len(node[u].jobs) \in Nat \ {0} /\ Len(node'[u].jobs) = Len(node[u].jobs) - 1
      /\ job = node[u].jobs[1] /\ 1 \in 1..Len(node[u].jobs)
      /\ \A i \in 1..Len(node'[u].jobs) :
            /\ i + 1 \in 1..Len(node[u].jobs)
            /\ node'[u].jobs[i] = node[u].jobs[i + 1]
      /\ In(node[u].jobs, job)
      /\ \A x : In(node'[u].jobs, x) => In(node[u].jobs, x)
  BY <1>2, <1>3, TakingFirst
<1> HIDE DEF job
<1>5. NoJob \notin Job
  BY DEF NoJob, Job
<1>6. \A j \in Job : Working(u, j)' => Working(u, j)
  BY <1>2, <1>4, <1>5 DEF Working
<1>7. JobsStem(u)
  BY <1>2, <1>6 DEF JobsStem
<1>8. OneJob(u)'
  <2>1. OneJob(u)
    BY <1>1 DEF JobsOrderly
  <2>2. ASSUME NEW i \in 1..Len(node'[u].jobs), NEW k \in 1..Len(node'[u].jobs),
               node'[u].jobs[i].req = node'[u].jobs[k].req
        PROVE  i = k
    <3>1. \A a, b \in 1..Len(node[u].jobs) :
              node[u].jobs[a].req = node[u].jobs[b].req => a = b
      BY <2>1 DEF OneJob
    <3>2. /\ i + 1 \in 1..Len(node[u].jobs) /\ k + 1 \in 1..Len(node[u].jobs)
          /\ node[u].jobs[i + 1].req = node[u].jobs[k + 1].req
      BY <1>4, <2>2
    <3>3. i + 1 = k + 1
      BY <3>1, <3>2
    <3>4. QED
      BY <3>3
  <2>3. ASSUME node'[u].worker # NoJob, NEW i \in 1..Len(node'[u].jobs)
        PROVE  node'[u].jobs[i].req # node'[u].worker.req
    <3>1. node'[u].worker = node[u].jobs[1]
      BY <1>2, <1>4, <2>3
    <3>2. i + 1 # 1
      BY <2>3
    <3>3. node[u].jobs[i + 1].req # node[u].jobs[1].req
      BY <1>4, <2>1, <2>3, <3>2 DEF OneJob
    <3>4. QED
      BY <1>4, <2>3, <3>1, <3>3
  <2>4. QED
    BY <2>2, <2>3 DEF OneJob
<1>9. Answers(u)
  BY <1>2 DEF Answers
<1>10. \A e \in Event : In(node'[u].events, e) => Queued(u, e)
  BY <1>2 DEF Queued
<1>11. LinesOrderly'
  BY <1>2, <1>7, LinesQuiet
<1>12. node'[u].alive /\ \A s \in Sid : node'[u].channel[s].held = <<>>
  BY <1>1, <1>2 DEF NodesOrderly
<1>13. \A q \in Requests, l \in AnyLine : In(inbox'[q], l) => Received(q, l)
  BY <1>2 DEF Received
<1>14. QED
  BY <1>2, <1>7, <1>8, <1>9, <1>10, <1>11, <1>12, <1>13, OrderlyNode

(* The worker's line reaches the request whose job it is, and nobody else.  *)
LEMMA WorkerReaches ==
    ASSUME Steady, NEW u \in Units, NEW j \in Job, Working(u, j)
    PROVE  /\ node[u].channel[j.sid] # NoChannel /\ node[u].channel[j.sid].held = <<>>
           /\ Readers(node[u].channel[j.sid].url) = {j.req} /\ j.req \in Requests
<1> DEFINE r == j.req
           c == node[u].channel[j.sid]
<1>1. /\ TypeOK /\ StageInv /\ ConnInv /\ up /\ epoch = 0 /\ NodesOrderly /\ JobsOrderly
  BY DEF Steady, AllOrderly
<1>2. r \in Requests /\ j.sid \in Sid
  BY DEF Job
<1>3. Inferring(r) /\ c.url = conn[r].com
  BY <1>1 DEF JobsOrderly, OrderlyJob
<1>4. conn[r].com # NoCom
  BY <1>1, <1>2, <1>3 DEF StageInv, Inferring
<1>5. conn \in [Requests -> [com : Nat, epoch : Epochs]]
  BY <1>1 DEF TypeOK
<1>6. \A q \in Requests : conn[q].epoch = 0
  <2>1. MaxRestarts \in Nat
    BY GatewayAssumption
  <2>2. ASSUME NEW q \in Requests
        PROVE  conn[q].epoch = 0
    <3>1. conn[q].epoch \in Epochs /\ conn[q].epoch <= epoch
      BY <1>1, <1>5 DEF ConnInv
    <3>2. QED
      BY <1>1, <2>1, <3>1 DEF Epochs
  <2>3. QED
    BY <2>2
<1>7. \A q \in Requests : conn[q].com = conn[r].com => q = r
  <2>1. ASSUME NEW q \in Requests, conn[q].com = conn[r].com
        PROVE  q = r
    <3>1. conn[q] \in [com : Nat, epoch : Epochs] /\ conn[r] \in [com : Nat, epoch : Epochs]
      BY <1>2, <1>5
    <3>2. conn[q].epoch = conn[r].epoch
      BY <1>2, <1>6
    <3>3. conn[q] = conn[r]
      BY <2>1, <3>1, <3>2
    <3>4. QED
      BY <1>1, <1>2, <1>4, <3>3 DEF ConnInv
  <2>2. QED
    BY <2>1
<1>8. Readers(c.url) = {r}
  <2>1. r \in Readers(c.url)
    BY <1>1, <1>2, <1>3, <1>4, <1>6 DEF Readers, Connected
  <2>2. \A q \in Readers(c.url) : q = r
    BY <1>3, <1>7 DEF Readers
  <2>3. QED
    BY <2>1, <2>2
<1>9. c # NoChannel
  <2>1. NoChannel.url = NoCom
    BY DEF NoChannel
  <2>2. QED
    BY <1>3, <1>4, <2>1
<1>10. c.held = <<>>
  BY <1>1, <1>2 DEF NodesOrderly
<1>11. QED
  BY <1>2, <1>8, <1>9, <1>10

LEMMA SendKeepsOrder ==
    ASSUME Steady, NEW u \in Units, WorkerSend(u)
    PROVE  AllOrderly'
<1> DEFINE w    == node[u].worker
           c    == node[u].channel[w.sid]
           line == WorkerLineOf(u)
<1>1. /\ TypeOK /\ NodesOrderly /\ JobsOrderly /\ LinesOrderly
  BY DEF Steady, AllOrderly
<1>2. /\ w # NoJob
      /\ UNCHANGED <<up, epoch, coms, ids, registered, pc, stage, conn, work, owner, lapses>>
      /\ \/ c = NoChannel
         \/ Arrive(c.url, <<line>>) /\ WorkerNode(u) /\ node'[u].channel = node[u].channel
         \/ ~(Readers(c.url) # {} /\ c.held = <<>>)
  BY <1>1, WorkerSendNode
<1>3. w \in Job /\ Working(u, w)
  BY <1>1, <1>2, NodeTypes DEF Working
<1>4. PICK r \in Requests : r = w.req
  BY <1>3 DEF Job
<1>5. c # NoChannel /\ c.held = <<>> /\ Readers(c.url) = {r}
  BY <1>3, <1>4, WorkerReaches
<1>6. Arrive(c.url, <<line>>) /\ WorkerNode(u) /\ node'[u].channel = node[u].channel
  BY <1>2, <1>5
<1>7. /\ line.kind \in {"part", "last"} /\ line.unit = u /\ line.for = r
      /\ line.kind = "last" => w.left = 1
      /\ line \in AnyLine
  <2>1. w.sid[2] \in Ids
    BY <1>3, SidPair DEF Job
  <2>2. QED
    BY <1>4, <2>1 DEF WorkerLineOf, LineFor, AnyLine, Line
<1>8. /\ SameBut(u) /\ node'[u].alive = node[u].alive
      /\ node'[u].events = node[u].events /\ node'[u].ev = node[u].ev
      /\ node'[u].jobs = node[u].jobs /\ node'[u].worker = JobLeft(u)
  BY <1>6 DEF WorkerNode
<1>9. /\ w.left = 1 => node'[u].worker = NoJob
      /\ node'[u].worker # NoJob => node'[u].worker.req = r /\ node'[u].worker.sid = w.sid
  <2>1. [w EXCEPT !.left = @ - 1].req = w.req /\ [w EXCEPT !.left = @ - 1].sid = w.sid
    BY <1>3 DEF Job
  <2>2. QED
    BY <1>4, <1>8, <2>1 DEF JobLeft
<1>10. \A q \in Requests :
         /\ inbox[q] \in Seq(AnyLine)
         /\ q \notin Readers(c.url) => inbox'[q] = inbox[q]
         /\ q \in Readers(c.url) =>
               /\ Len(inbox'[q]) = Len(inbox[q]) + 1 /\ Len(inbox[q]) \in Nat
               /\ \A i \in 1..Len(inbox[q]) : inbox'[q][i] = inbox[q][i]
               /\ inbox'[q][Len(inbox[q]) + 1] = line
               /\ \A l : In(inbox'[q], l) => Received(q, l) \/ l = line
  BY <1>1, <1>6, <1>7, ArrivesOne
<1>11. /\ \A q \in Requests \ {r} : inbox'[q] = inbox[q]
       /\ Len(inbox'[r]) = Len(inbox[r]) + 1 /\ Len(inbox[r]) \in Nat
       /\ \A i \in 1..Len(inbox[r]) : inbox'[r][i] = inbox[r][i]
       /\ inbox'[r][Len(inbox[r]) + 1] = line
       /\ \A l : In(inbox'[r], l) => Received(r, l) \/ l = line
  BY <1>5, <1>10
<1> HIDE DEF w, c, line
<1>12. NoJob \notin Job
  BY DEF NoJob, Job
<1>13. JobsStem(u)
  <2>1. ASSUME NEW j \in Job, Working(u, j)'
        PROVE  \E i \in Job : /\ Working(u, i) /\ i.req = j.req /\ i.sid = j.sid
                              /\ node'[u].channel[j.sid].url = node[u].channel[j.sid].url
    <3>1. CASE In(node'[u].jobs, j)
      BY <1>6, <1>8, <2>1, <3>1 DEF Working
    <3>2. CASE node'[u].worker = j
      <4>1. w.req = j.req /\ w.sid = j.sid
        BY <1>4, <1>9, <1>12, <2>1, <3>2
      <4>2. QED
        BY <1>3, <1>6, <4>1
    <3>3. QED
      BY <2>1, <3>1, <3>2 DEF Working
  <2>2. QED
    BY <2>1 DEF JobsStem
<1>14. OneJob(u)
  BY <1>1 DEF JobsOrderly
<1>15. OneJob(u)'
  BY <1>2, <1>4, <1>8, <1>9, <1>14 DEF OneJob, w
<1>16. Answers(u)
  BY <1>8 DEF Answers
<1>17. \A e \in Event : In(node'[u].events, e) => Queued(u, e)
  BY <1>8 DEF Queued
<1>18. \A q \in Requests, l \in AnyLine : In(inbox'[q], l) /\ l.kind = "setup" =>
           Received(q, l)
  BY <1>7, <1>11 DEF Received
<1>19. ASSUME NEW q \in Requests, NoJobs(q)
       PROVE  NoJobs(q)'
  <2>1. ASSUME NEW v \in Units, NEW j \in Job, Working(v, j)'
        PROVE  j.req # q
    <3>1. PICK i \in Job : Working(v, i) /\ i.req = j.req
      BY <1>8, <1>13, <2>1 DEF JobsStem, SameBut, Working
    <3>2. QED
      BY <1>19, <3>1 DEF NoJobs
  <2>2. QED
    BY <2>1 DEF NoJobs
<1>20. UnitOf(r) = u /\ Inferring(r) /\ ~NoJobs(r)
  BY <1>1, <1>3, <1>4 DEF JobsOrderly, OrderlyJob, NoJobs
<1>21. line.kind = "last" => NoJobs(r)'
  <2>1. ASSUME line.kind = "last", NEW v \in Units, NEW j \in Job, Working(v, j)', j.req = r
        PROVE  FALSE
    <3>1. PICK i \in Job : Working(v, i) /\ i.req = j.req
      BY <1>8, <1>13, <2>1 DEF JobsStem, SameBut, Working
    <3>2. v = u
      BY <1>1, <1>20, <2>1, <3>1 DEF JobsOrderly, OrderlyJob
    <3>3. node'[u].worker # j
      BY <1>7, <1>9, <1>12, <2>1
    <3>4. PICK k \in 1..Len(node[u].jobs) : node[u].jobs[k] = j
      BY <1>8, <2>1, <3>2, <3>3 DEF Working, In
    <3>5. node[u].jobs[k].req # r
      BY <1>2, <1>4, <1>14, <3>4 DEF OneJob, w
    <3>6. QED
      BY <2>1, <3>4, <3>5
  <2>2. QED
    BY <2>1 DEF NoJobs
<1>22. OrderlyRequest(r)
  BY <1>1, <1>4 DEF LinesOrderly
<1>23. ASSUME NEW i \in 1..Len(inbox'[r])
       PROVE  /\ inbox'[r][i].kind \in {"part", "last"} /\ inbox'[r][i].unit = u
              /\ inbox'[r][i].kind = "last" => i = Len(inbox'[r]) /\ NoJobs(r)'
  <2>1. i \in 1..Len(inbox[r]) \/ i = Len(inbox[r]) + 1
    BY <1>11, <1>23
  <2>2. CASE i \in 1..Len(inbox[r])
    BY <1>11, <1>20, <1>22, <2>2 DEF OrderlyRequest
  <2>3. CASE i = Len(inbox[r]) + 1
    BY <1>7, <1>11, <1>21, <2>3
  <2>4. QED
    BY <2>1, <2>2, <2>3
<1>24. OrderlyRequest(r)'
  <2>1. pc'[r] # "setup" /\ UnitOf(r)' = u
    BY <1>2, <1>20 DEF Inferring, UnitOf
  <2>2. QED
    BY <1>23, <2>1 DEF OrderlyRequest
<1>25. ASSUME NEW q \in Requests \ {r}
       PROVE  OrderlyRequest(q)'
  <2>1. OrderlyRequest(q)
    BY <1>1 DEF LinesOrderly
  <2>2. /\ inbox'[q] = inbox[q] /\ pc'[q] = pc[q] /\ stage'[q] = stage[q]
        /\ NoJobs(q) => NoJobs(q)'
    BY <1>2, <1>11, <1>19
  <2>3. QED
    BY <2>1, <2>2 DEF OrderlyRequest, Inferring, UnitOf
<1>26. LinesOrderly'
  BY <1>24, <1>25 DEF LinesOrderly
<1>27. node'[u].alive /\ \A s \in Sid : node'[u].channel[s].held = <<>>
  BY <1>1, <1>6, <1>8 DEF NodesOrderly
<1>28. QED
  BY <1>2, <1>8, <1>13, <1>15, <1>16, <1>17, <1>18, <1>26, <1>27, OrderlyNode

LEMMA RequestKeepsOrder ==
    ASSUME Steady, NEW x \in Requests, Request(x), lapses' = {}
    PROVE  AllOrderly'
<1>1. QuitsWell(x) \/ Asking(x) \/ ReadsOn(x) \/ Resumes(x)
  BY RequestEffect DEF Steady
<1>2. QED
  BY <1>1, OrderlyQuits, OrderlyAsks, OrderlyReads, OrderlyResumes

LEMMA NodeKeepsOrder ==
    ASSUME Steady, NEW u \in Units, NodeStep(u) \/ NodeRestart(u)
    PROVE  AllOrderly'
<1>1. NodesOrderly
  BY DEF Steady, AllOrderly
<1>2. ~NodeRestart(u)
  BY <1>1 DEF NodesOrderly, NodeRestart
<1>3. ASSUME NEW s \in Sid, Deliver(u, s)
      PROVE  FALSE
  BY <1>1, <1>3 DEF NodesOrderly, Deliver
<1>4. QED
  BY <1>2, <1>3, SetupKeepsOrder, ExitKeepsOrder, AnswerKeepsOrder, TakeKeepsOrder,
     SendKeepsOrder DEF NodeStep

LEMMA OrderlyKept ==
    ASSUME GatewayInv, FirstEpochInv, TokenInv, OrderlyInv, [Next]_vars
    PROVE  OrderlyInv'
<1>1. TypeOK /\ StageInv
  BY DEF GatewayInv
<1>2. ASSUME Orderly', UNCHANGED <<up, epoch>>, lapses \subseteq lapses'
      PROVE  Steady
  <2>1. Orderly
    BY <1>2 DEF Orderly
  <2>2. QED
    BY <2>1, SteadyIs
<1>3. ASSUME NEW x \in Requests, Request(x), Orderly'
      PROVE  AllOrderly'
  <2>1. QuitsWell(x) \/ Asking(x) \/ ReadsOn(x) \/ Resumes(x)
    BY <1>1, <1>3, RequestEffect
  <2>2. UNCHANGED <<up, epoch>>
    <3>1. QuitsWell(x) \/ ReadsOn(x) \/ Resumes(x) => UNCHANGED umVars
      BY Zenon DEF QuitsWell, Quits, ReadsOn, Reads, Resumes
    <3>2. UNCHANGED umVars => UNCHANGED <<up, epoch>>
      BY Zenon DEF umVars
    <3>3. Asking(x) => UNCHANGED <<up, epoch>>
      BY DEF Asking, Contacts
    <3>4. QED
      BY <2>1, <3>1, <3>2, <3>3
  <2>3. lapses \subseteq lapses'
    BY <1>1, <1>3, RequestEffect
  <2>4. Steady /\ lapses' = {}
    BY <1>2, <1>3, <2>2, <2>3 DEF Orderly
  <2>5. QED
    BY <1>3, <2>4, RequestKeepsOrder
<1>4. ASSUME NEW u \in Units, NodeStep(u) \/ NodeRestart(u), Orderly'
      PROVE  AllOrderly'
  <2>1. UNCHANGED <<up, epoch, lapses>>
    BY <1>1, <1>4, NodeUserEffect
  <2>2. Steady
    BY <1>2, <1>4, <2>1
  <2>3. QED
    BY <1>4, <2>2, NodeKeepsOrder
<1>5. CASE UnitManagerEnds
  BY <1>5 DEF UnitManagerEnds, OrderlyInv, Orderly
<1>6. CASE UnitManagerStarts
  <2>1. epoch' = epoch + 1 /\ epoch \in Nat
    BY <1>1, <1>6, GatewayAssumption DEF UnitManagerStarts, TypeOK, Epochs
  <2>2. epoch' # 0
    BY <2>1
  <2>3. QED
    BY <2>2 DEF OrderlyInv, Orderly
<1>7. CASE UNCHANGED vars
  <2>1. UNCHANGED <<up, epoch, lapses, pc, stage, conn, inbox, work, node>>
    BY <1>7, Zenon DEF vars, umVars, userVars
  <2>2. Orderly' => Orderly
    BY <2>1 DEF Orderly
  <2>3. NodesOrderly = NodesOrderly' /\ (JobsOrderly => JobsOrderly')
    BY <2>1 DEF NodesOrderly, JobsOrderly, OneJob, OrderlyJob, Inferring, UnitOf, Working
  <2>4. ExitsOrderly => ExitsOrderly'
    BY <2>1 DEF ExitsOrderly, Exiting, OrderlyExit, Announced, Queued, Received
  <2>5. SetupsOrderly => SetupsOrderly'
    BY <2>1 DEF SetupsOrderly, SettingUp, Queued
  <2>6. LinesOrderly => LinesOrderly'
    BY <2>1 DEF LinesOrderly, OrderlyRequest, Inferring, UnitOf, NoJobs, Working
  <2>7. QED
    BY <2>2, <2>3, <2>4, <2>5, <2>6 DEF OrderlyInv, AllOrderly
<1>8. QED
  BY <1>3, <1>4, <1>5, <1>6, <1>7 DEF Next, OrderlyInv

LEMMA OrderlyInit == ASSUME Init PROVE OrderlyInv
<1>1. FreshNode \in {DeadNode, FreshNode} /\ NoJob \notin Job
  BY DEF NoJob, Job
<1>2. /\ FreshNode.events = <<>> /\ FreshNode.ev = NoAnswer /\ FreshNode.jobs = <<>>
      /\ FreshNode.worker = NoJob
      /\ \A s \in Sid : FreshNode.channel[s] = NoChannel
  BY <1>1, NewNode
<1>3. FreshNode.alive
  BY DEF FreshNode
<1>4. NoChannel.held = <<>>
  BY DEF NoChannel
<1>5. /\ \A r \in Requests : pc[r] = "open"
      /\ \A u \in Units : node[u] = FreshNode
  BY DEF Init
<1>6. NodesOrderly
  BY <1>2, <1>3, <1>4, <1>5 DEF NodesOrderly
<1>7. JobsOrderly
  <2>1. \A u \in Units, j \in Job : ~Working(u, j)
    BY <1>1, <1>2, <1>5, InEmpty DEF Working
  <2>2. 1..Len(<<>>) = {}
    OBVIOUS
  <2>3. \A u \in Units : OneJob(u)
    BY <1>2, <1>5, <2>2 DEF OneJob
  <2>4. QED
    BY <2>1, <2>3 DEF JobsOrderly
<1>8. ExitsOrderly /\ SetupsOrderly
  BY <1>2, <1>5, InEmpty DEF ExitsOrderly, SetupsOrderly, Exiting, SettingUp, Queued
<1>9. LinesOrderly
  BY <1>5 DEF LinesOrderly, OrderlyRequest, Inferring
<1>10. QED
  BY <1>6, <1>7, <1>8, <1>9 DEF OrderlyInv, AllOrderly

(* Requests that wait for their answers bring no node down: the worker has  *)
(* sent the last line of a session's last job before the session's request  *)
(* asks for the exit, nobody else asks for it, and every line finds its     *)
(* reader, so that no line is held back, no session without sockets is      *)
(* written to, and no task loses its channel.                               *)
THEOREM OrderlyUseIsSafe == Spec => []NodesSurviveOrderlyUse
<1> DEFINE I == GatewayInv /\ FirstEpochInv /\ TokenInv /\ OrderlyInv
<1>1. Init => I
  BY GatewayInit, OwnInit, TokenInit, OrderlyInit
<1>2. I /\ [Next]_vars => I'
  BY GatewayKept, OwnKept, TokenKept, OrderlyKept
<1>3. I => NodesSurviveOrderlyUse
  BY DEF OrderlyInv, Orderly, AllOrderly, NodesOrderly, NodesSurviveOrderlyUse
<1>4. QED
  BY <1>1, <1>2, <1>3, PTL DEF Spec
==============================================================================
