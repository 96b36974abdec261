------------------------------- MODULE Gateway -------------------------------
(***************************************************************************)
(* HTTP requests served by the gateway (gateway/app) from sessions of the   *)
(* nodes, across a restart of unit-manager and the death of a node.         *)
(*                                                                          *)
(* Every request runs in a thread of its own: a chat needs one session, a   *)
(* voice conversation one after the other of asr, rkllm and tts.  For each  *)
(* stage the thread opens a TCP connection, asks for a setup, infers, closes*)
(* the connection, and asks for the exit on a second connection.  It trusts *)
(* the order of the lines it receives: it compares neither request_id nor   *)
(* work_id with what it sent.                                               *)
(*                                                                          *)
(* unit-manager counts its TCP sessions and its work ids from the same      *)
(* numbers again after a restart, while the nodes keep their sessions, the  *)
(* answers they could not deliver, and the push URLs of sessions long gone. *)
(*                                                                          *)
(* Abstracted: what the modules UnitRegistry, InferenceNode and TcpBridge   *)
(* show in detail.  An RPC of unit-manager puts its event into the node's   *)
(* queue in the step that asks for it; ports, the full job queue (more jobs *)
(* than sessions cannot wait here) and the text are left out.               *)
(***************************************************************************)
EXTENDS Naturals, Sequences, FiniteSets

CONSTANTS Requests,
          Units,        (* the units that nodes serve                       *)
          Streaming,    (* the chats whose client reads the answer as it    *)
                        (* comes, and may stop reading                      *)
          Stages,       (* the units that each request needs, in order      *)
          Streamed,     (* the units whose answer to one inference is a     *)
                        (* stream of parts: rkllm                           *)
          Calls,        (* how many inferences a unit is asked for; only asr*)
                        (* is asked for more than one                       *)
          Parts,        (* bound: parts of a streamed answer                *)
          MaxSessions,  (* max_sessions_ of each node                       *)
          MaxIds,       (* bound: units registered in one epoch             *)
          MaxRestarts   (* bound: restarts of unit-manager                  *)

ASSUME GatewayAssumption ==
    /\ IsFiniteSet(Requests) /\ Streaming \subseteq Requests
    /\ Stages \in [Requests -> Seq(Units)] /\ \A r \in Requests : Stages[r] # <<>>
    /\ Streamed \subseteq Units
    /\ Calls \in [Units -> Nat \ {0}]
    /\ Parts \in Nat \ {0} /\ MaxSessions \in Nat \ {0}
    /\ MaxIds \in Nat /\ MaxRestarts \in Nat

Ids     == 1..MaxIds
NoId    == 0
NoCom   == 0
Epochs  == 0..MaxRestarts
NoEpoch == MaxRestarts + 1
Sid     == Epochs \X Ids    (* a session: the work id n of one epoch       *)
Nobody  == "nobody"

VARIABLES up,         (* unit-manager runs                                 *)
          epoch,      (* how often unit-manager was restarted              *)
          coms,       (* counter_port: TCP sessions of this epoch          *)
          ids,        (* work_id_number_counter                            *)
          registered, (* the work ids in key_sql                           *)
          pc,         (* what each request's thread does                   *)
          stage,      (* its stage                                         *)
          good,       (* did the stage end without an exception?           *)
          conn,       (* its connection: the TCP session, and its epoch    *)
          inbox,      (* lines that the connection received                *)
          work,       (* work_id                                           *)
          asked,      (* inferences asked for in this stage                *)
          node,       (* the state of each unit's node                     *)
          owner,      (* history: who asked for each session               *)
          lapses      (* history: where a request left before its answer,  *)
                      (* or could not clean up                             *)

umVars   == <<up, epoch, coms, ids, registered>>
userVars == <<pc, stage, good, conn, inbox, work, asked>>
vars     == <<umVars, userVars, node, owner, lapses>>

NoConn    == [com |-> NoCom, epoch |-> 0]
NoAnswer  == [to |-> NoCom]
NoJob     == [left |-> 0]
NoChannel == [url |-> NoCom, held |-> <<>>]

(* A node that has just started.  tasks and map give the epoch in which the *)
(* session behind a key of tasks_ and llm_task_channel_ was made; a channel *)
(* whose sockets are gone is NoChannel; ev is the answer that the event     *)
(* thread is about to send.                                                 *)
FreshNode == [alive   |-> TRUE,
              events  |-> <<>>,
              ev      |-> NoAnswer,
              tasks   |-> [n \in Ids |-> NoEpoch],
              map     |-> [n \in Ids |-> NoEpoch],
              channel |-> [s \in Sid |-> NoChannel],
              jobs    |-> <<>>,
              worker  |-> NoJob]

DeadNode == [FreshNode EXCEPT !.alive = FALSE]

Init ==
    /\ up = TRUE /\ epoch = 0 /\ coms = 0 /\ ids = 0 /\ registered = {}
    /\ pc = [r \in Requests |-> "open"]
    /\ stage = [r \in Requests |-> 1]
    /\ good = [r \in Requests |-> TRUE]
    /\ conn = [r \in Requests |-> NoConn]
    /\ inbox = [r \in Requests |-> <<>>]
    /\ work = [r \in Requests |-> NoId]
    /\ asked = [r \in Requests |-> 0]
    /\ node = [u \in Units |-> FreshNode]
    /\ owner = [s \in Sid |-> Nobody]
    /\ lapses = {}

------------------------------------------------------------------------------
(* Connections and lines.                                                   *)

UnitOf(r)    == Stages[r][stage[r]]
Connected(r) == up /\ conn[r].com # NoCom /\ conn[r].epoch = epoch

(* Faulty variant: the number of a closed connection is given out again.    *)
LowestFreeCom == Cardinality({r \in Requests : Connected(r)}) + 1

NextCom == coms + 1

(* Who reads what is pushed to the TCP session com: nobody, or one request. *)
Readers(com) == {r \in Requests : Connected(r) /\ conn[r].com = com}

(* A line: the request whose question it answers, and what it says.         *)
LineFor(r, kind, u, n) == [for |-> r, kind |-> kind, unit |-> u, id |-> n]

(* Codes -21 and -6.                                                        *)
IsError(line) == line.kind \in {"full", "unknown"}

(* The lines arrive at the connection behind com.                           *)
Arrive(com, lines) ==
    inbox' = [r \in Requests |-> IF r \in Readers(com) THEN inbox[r] \o lines
                                 ELSE inbox[r]]

(* A setup or exit: unit-manager calls the node, which queues the event.    *)
(* The call reports success whether there is a node or not.                 *)
Queue(u, event) ==
    node' = IF node[u].alive
            THEN [node EXCEPT ![u].events = Append(@, event)]
            ELSE node

(* Opening a connection and sending the first question on it.               *)
Connect(r, kind, n) ==
    /\ coms' = NextCom
    /\ conn' = [conn EXCEPT ![r] = [com |-> NextCom, epoch |-> epoch]]
    /\ Queue(UnitOf(r), [kind |-> kind, req |-> r, to |-> NextCom, id |-> n])
    /\ UNCHANGED <<up, epoch, ids, registered>>

Close(r) ==
    /\ conn' = [conn EXCEPT ![r] = NoConn]
    /\ inbox' = [inbox EXCEPT ![r] = <<>>]

------------------------------------------------------------------------------
(* The requests.                                                            *)

(* The request goes on to its next unit, or ends.  A conversation also ends *)
(* when the transcript or the reply is empty.                               *)
EndStage(r, ok) ==
    /\ work' = [work EXCEPT ![r] = NoId]
    /\ asked' = [asked EXCEPT ![r] = 0]
    /\ \/ /\ ok /\ stage[r] < Len(Stages[r])
          /\ stage' = [stage EXCEPT ![r] = @ + 1]
          /\ pc' = [pc EXCEPT ![r] = "open"]
       \/ /\ pc' = [pc EXCEPT ![r] = "done"]
          /\ UNCHANGED stage

(* Faulty variant: the cleanup runs when the inference succeeded only.      *)
CleansUpAfterSuccess(r, ok) == ok

(* finally: cleanup_work_id(work_id, ...)                                   *)
CleansUp(r, ok) == work[r] # NoId

(* The with statement ends: the connection is closed, and the session is    *)
(* cleaned up if setup has returned its work id.                            *)
Leave(r, ok) ==
    /\ Close(r)
    /\ good' = [good EXCEPT ![r] = ok]
    /\ IF CleansUp(r, ok)
       THEN /\ pc' = [pc EXCEPT ![r] = "cleanup"]
            /\ UNCHANGED <<stage, work, asked>>
       ELSE EndStage(r, ok)

(* UnitManagerClient.__enter__, and setup's question.  A refused connection *)
(* ends the request.                                                        *)
Open(r) ==
    /\ pc[r] = "open"
    /\ IF up
       THEN /\ Connect(r, "setup", NoId)
            /\ pc' = [pc EXCEPT ![r] = "setup"]
            /\ UNCHANGED <<stage, work, asked>>
       ELSE /\ EndStage(r, FALSE)
            /\ UNCHANGED <<umVars, conn, node>>
    /\ UNCHANGED <<good, inbox, owner, lapses>>

(* llm_task_channel_[n].                                                    *)
ChannelOf(u, n) == IF node[u].map[n] = NoEpoch THEN NoChannel
                   ELSE node[u].channel[<<node[u].map[n], n>>]

(* The node's session n can be asked: its subscriber runs, and is not kept  *)
(* waiting by undelivered lines when it changes the push URL.               *)
Listens(u, n, com) ==
    /\ node[u].tasks[n] # NoEpoch
    /\ node[u].map[n] = node[u].tasks[n]
    /\ ChannelOf(u, n).url = com \/ ChannelOf(u, n).held = <<>>

(* An inference: unit-manager publishes it to the session's subscriber,     *)
(* which takes over the push URL and queues a job.  The first one may come  *)
(* before the subscription.  Nobody says so when nobody listens.            *)
Infer(r, n) ==
    LET u == UnitOf(r)
        s == <<node[u].tasks[n], n>>
        job == [req |-> r, sid |-> s, left |-> IF u \in Streamed THEN Parts ELSE 1]
    IN /\ asked' = [asked EXCEPT ![r] = @ + 1]
       /\ pc' = [pc EXCEPT ![r] = "infer"]
       /\ \/ /\ up /\ n \in registered /\ Listens(u, n, conn[r].com)
             /\ node' = [node EXCEPT ![u].channel[s].url = conn[r].com,
                                     ![u].jobs = Append(@, job)]
          \/ /\ \/ asked[r] = 0
                \/ ~(up /\ n \in registered /\ Listens(u, n, conn[r].com))
             /\ UNCHANGED node

(* setup returns the work_id of whatever line comes first.                  *)
ReadSetup(r) ==
    /\ pc[r] = "setup"
    /\ inbox[r] # <<>>
    /\ LET line == Head(inbox[r])
       IN /\ lapses' = IF line.for = r /\ line.kind \in {"setup", "full"} THEN lapses
                       ELSE lapses \cup {<<r, "setup">>}
          /\ IF IsError(line)
             THEN /\ Leave(r, FALSE)
                  /\ UNCHANGED node
             ELSE /\ work' = [work EXCEPT ![r] = line.id]
                  /\ inbox' = [inbox EXCEPT ![r] = Tail(@)]
                  /\ Infer(r, line.id)
                  /\ UNCHANGED <<stage, good, conn>>
    /\ UNCHANGED <<umVars, owner>>

Expected(r, line) == line.kind \in {"part", "last"} /\ line.unit = UnitOf(r)

(* Faulty variant: the first part of a stream is taken for its end.         *)
EndsStreamAtOnce(r, line) == TRUE

EndsAnswer(r, line) == line.kind = "last"

(* rkllm_stream, inference_once, asr_transcribe: an error or an unexpected  *)
(* object is an exception; a part is yielded; asr goes on with its next     *)
(* chunk.                                                                   *)
ReadAnswer(r) ==
    /\ pc[r] = "infer"
    /\ inbox[r] # <<>>
    /\ LET line == Head(inbox[r])
       IN \/ /\ ~Expected(r, line)
             /\ Leave(r, FALSE)
             /\ UNCHANGED node
          \/ /\ Expected(r, line) /\ ~EndsAnswer(r, line)
             /\ inbox' = [inbox EXCEPT ![r] = Tail(@)]
             /\ pc' = [pc EXCEPT ![r] = IF r \in Streaming THEN "yield" ELSE "infer"]
             /\ UNCHANGED <<stage, good, conn, work, asked, node>>
          \/ /\ Expected(r, line) /\ EndsAnswer(r, line)
             /\ asked[r] < Calls[UnitOf(r)]
             /\ inbox' = [inbox EXCEPT ![r] = Tail(@)]
             /\ Infer(r, work[r])
             /\ UNCHANGED <<stage, good, conn, work>>
          \/ /\ Expected(r, line) /\ EndsAnswer(r, line)
             /\ asked[r] = Calls[UnitOf(r)]
             /\ Leave(r, TRUE)
             /\ UNCHANGED node
    /\ UNCHANGED <<umVars, owner, lapses>>

(* The client takes a chunk, or it is gone: the generator is closed.        *)
Yield(r) ==
    /\ pc[r] = "yield"
    /\ \/ /\ pc' = [pc EXCEPT ![r] = "infer"]
          /\ UNCHANGED <<stage, good, conn, inbox, work, asked, lapses>>
       \/ /\ Leave(r, FALSE)
          /\ lapses' = lapses \cup {<<r, "infer">>}
    /\ UNCHANGED <<umVars, node, owner>>

(* Faulty variant: receive waits without a timeout.                         *)
WaitsForLines(r) == ~Connected(r)

(* receive: the connection is closed, or the socket's timeout passes.       *)
NothingComes(r) == TRUE

GiveUp(r) ==
    /\ pc[r] \in {"setup", "infer"}
    /\ inbox[r] = <<>>
    /\ NothingComes(r)
    /\ Leave(r, FALSE)
    /\ lapses' = lapses \cup {<<r, pc[r]>>}
    /\ UNCHANGED <<umVars, node, owner>>

(* cleanup_work_id: a connection of its own; nothing if it is refused.      *)
Cleanup(r) ==
    /\ pc[r] = "cleanup"
    /\ IF up
       THEN /\ Connect(r, "exit", work[r])
            /\ pc' = [pc EXCEPT ![r] = "exit"]
            /\ UNCHANGED <<stage, work, asked, lapses>>
       ELSE /\ EndStage(r, good[r])
            /\ lapses' = lapses \cup {<<r, "cleanup">>}
            /\ UNCHANGED <<umVars, conn, node>>
    /\ UNCHANGED <<good, inbox, owner>>

(* The first line, whatever it says, a closed connection or ten seconds end *)
(* the cleanup.                                                             *)
EndCleanup(r) ==
    /\ pc[r] = "exit"
    /\ inbox[r] # <<>> \/ NothingComes(r)
    /\ Close(r)
    /\ EndStage(r, good[r])
    /\ UNCHANGED <<umVars, good, node, owner, lapses>>

------------------------------------------------------------------------------
(* The nodes: the event thread.                                             *)

Full(u) == Cardinality({n \in Ids : node[u].tasks[n] # NoEpoch}) >= MaxSessions

WorksFor(u, s) == node[u].worker # NoJob /\ node[u].worker.sid = s

(* What the event thread does when it has handled its event: an answer on a *)
(* socket of its own, then the release of the unit.                         *)
Answering(event, kind, u, n, release) ==
    [to |-> event.to, line |-> LineFor(event.req, kind, u, n), release |-> release]

(* sys_register_unit: without unit-manager the reply is empty, and std::stoi*)
(* throws.  The channel of an old session with the same key is replaced; it *)
(* is closed, which waits for its undelivered lines, unless the worker      *)
(* still holds it.                                                          *)
Setup(u) ==
    /\ node[u].ev = NoAnswer /\ node[u].events # <<>>
    /\ Head(node[u].events).kind = "setup"
    /\ IF ~up
       THEN /\ node' = [node EXCEPT ![u] = DeadNode]
            /\ UNCHANGED <<ids, registered, owner>>
       ELSE LET n     == ids + 1
                event == Head(node[u].events)
                old   == <<node[u].map[n], n>>
                kept  == [s \in Sid |-> IF s = old /\ ~WorksFor(u, s) THEN NoChannel
                                        ELSE node[u].channel[s]]
            IN /\ n \in Ids
               /\ WorksFor(u, old) \/ ChannelOf(u, n).held = <<>>
               /\ ids' = n
               /\ registered' = registered \cup {n}
               /\ owner' = [owner EXCEPT ![<<epoch, n>>] = event.req]
               /\ node' = [node EXCEPT
                    ![u].events = Tail(@),
                    ![u].map[n] = epoch,
                    ![u].channel = [kept EXCEPT ![<<epoch, n>>] =
                                        [url |-> event.to, held |-> <<>>]],
                    ![u].tasks[n] = IF Full(u) THEN @ ELSE epoch,
                    ![u].ev = IF Full(u) THEN Answering(event, "full", u, n, TRUE)
                              ELSE Answering(event, "setup", u, n, FALSE)]
    /\ UNCHANGED <<up, epoch, coms, userVars, lapses>>

(* exit: the unit's channel is pointed to the caller, which waits for lines *)
(* that the old URL did not take; then the task goes, and the channel's     *)
(* sockets with it.  A task without a channel ends the node: std::map::at   *)
(* throws.                                                                  *)
Exit(u) ==
    /\ node[u].ev = NoAnswer /\ node[u].events # <<>>
    /\ Head(node[u].events).kind = "exit"
    /\ LET event  == Head(node[u].events)
           n      == event.id
           mapped == node[u].map[n] # NoEpoch
           s      == <<node[u].map[n], n>>
           taken  == [node EXCEPT ![u].events = Tail(@)]
       IN /\ ChannelOf(u, n).held = <<>>
          /\ node' =
               IF node[u].tasks[n] = NoEpoch
               THEN [taken EXCEPT
                        ![u].ev = Answering(event, "unknown", u, n, FALSE),
                        ![u].channel =
                            IF mapped
                            THEN [node[u].channel EXCEPT ![s].url = event.to] ELSE @]
               ELSE IF ~mapped THEN [node EXCEPT ![u] = DeadNode]
               ELSE [taken EXCEPT
                        ![u].ev = Answering(event, "exit", u, n, TRUE),
                        ![u].tasks[n] = NoEpoch,
                        ![u].channel[s] = NoChannel]
    /\ UNCHANGED <<umVars, userVars, owner, lapses>>

(* StackFlow::send waits until its PUSH socket has got rid of the line;     *)
(* sys_release_unit forgets the unit here and in unit-manager.              *)
Answer(u) ==
    /\ node[u].ev # NoAnswer
    /\ LET e == node[u].ev
           n == e.line.id
           s == <<node[u].map[n], n>>
       IN /\ Readers(e.to) # {}
          /\ Arrive(e.to, <<e.line>>)
          /\ registered' = IF e.release THEN registered \ {n} ELSE registered
          /\ node' = [node EXCEPT
                ![u].ev = NoAnswer,
                ![u].map[n] = IF e.release THEN NoEpoch ELSE @,
                ![u].channel = IF e.release /\ s \in Sid
                               THEN [node[u].channel EXCEPT ![s] = NoChannel] ELSE @]
    /\ UNCHANGED <<up, epoch, coms, ids, pc, stage, good, conn, work, asked,
                   owner, lapses>>

------------------------------------------------------------------------------
(* The nodes: the worker, and the channels' sockets.                        *)

(* A job whose session is gone is dropped.                                  *)
WorkerTake(u) ==
    /\ node[u].worker = NoJob /\ node[u].jobs # <<>>
    /\ LET job == Head(node[u].jobs)
           n   == job.sid[2]
           lives == node[u].tasks[n] = job.sid[1] /\ node[u].map[n] = job.sid[1]
       IN node' = [node EXCEPT ![u].jobs = Tail(@),
                               ![u].worker = IF lives THEN job ELSE NoJob]
    /\ UNCHANGED <<umVars, userVars, owner, lapses>>

(* llm_channel_obj::send, to whatever URL the channel has by now.  A session*)
(* that was exited has no sockets, and the node ends.                       *)
WorkerSend(u) ==
    /\ node[u].worker # NoJob
    /\ LET job  == node[u].worker
           c    == node[u].channel[job.sid]
           line == LineFor(job.req, IF job.left = 1 THEN "last" ELSE "part", u, job.sid[2])
           sent == [node EXCEPT ![u].worker = IF job.left = 1 THEN NoJob
                                              ELSE [job EXCEPT !.left = @ - 1]]
       IN IF c = NoChannel
          THEN /\ node' = [node EXCEPT ![u] = DeadNode]
               /\ UNCHANGED inbox
          ELSE IF Readers(c.url) # {} /\ c.held = <<>>
          THEN /\ Arrive(c.url, <<line>>)
               /\ node' = sent
          ELSE /\ node' = [sent EXCEPT ![u].channel[job.sid].held = Append(@, line)]
               /\ UNCHANGED inbox
    /\ UNCHANGED <<umVars, pc, stage, good, conn, work, asked, owner, lapses>>

(* The PUSH socket finds a TCP session behind its URL again.                *)
Deliver(u, s) ==
    /\ node[u].channel[s] # NoChannel
    /\ node[u].channel[s].held # <<>>
    /\ Readers(node[u].channel[s].url) # {}
    /\ Arrive(node[u].channel[s].url, node[u].channel[s].held)
    /\ node' = [node EXCEPT ![u].channel[s].held = <<>>]
    /\ UNCHANGED <<umVars, pc, stage, good, conn, work, asked, owner, lapses>>

(* The supervisor starts a node that ended.                                 *)
NodeRestart(u) ==
    /\ ~node[u].alive
    /\ node' = [node EXCEPT ![u] = FreshNode]
    /\ UNCHANGED <<umVars, userVars, owner, lapses>>

------------------------------------------------------------------------------
(* unit-manager ends and is started again: remote_server_work reads the     *)
(* first work id from the configuration, counter_port starts at 8000, and   *)
(* key_sql is empty.                                                        *)

UnitManagerEnds ==
    /\ up /\ epoch < MaxRestarts
    /\ up' = FALSE
    /\ registered' = {}
    /\ UNCHANGED <<epoch, coms, ids, userVars, node, owner, lapses>>

UnitManagerStarts ==
    /\ ~up
    /\ up' = TRUE
    /\ epoch' = epoch + 1
    /\ coms' = 0
    /\ ids' = 0
    /\ UNCHANGED <<registered, userVars, node, owner, lapses>>

------------------------------------------------------------------------------
Request(r) ==
    \/ Open(r) \/ ReadSetup(r) \/ ReadAnswer(r) \/ Yield(r)
    \/ GiveUp(r) \/ Cleanup(r) \/ EndCleanup(r)

NodeStep(u) ==
    /\ node[u].alive
    /\ \/ Setup(u) \/ Exit(u) \/ Answer(u) \/ WorkerTake(u) \/ WorkerSend(u)
       \/ \E s \in Sid : Deliver(u, s)

Next ==
    \/ \E r \in Requests : Request(r)
    \/ \E u \in Units : NodeStep(u) \/ NodeRestart(u)
    \/ UnitManagerEnds \/ UnitManagerStarts

(* The gateway's threads run, timeouts pass, and a client reads or leaves.  *)
(* Nothing is asked of the nodes and of unit-manager.                       *)
Spec == Init /\ [][Next]_vars

FairSpec == Spec /\ \A r \in Requests : WF_vars(Request(r))

------------------------------------------------------------------------------
(* Properties.                                                              *)

(* A line and what it may say; an event of the queue; an answer, a job, a   *)
(* channel with lines that only the worker has sent.                        *)
Line(kinds) == [for : Requests, kind : kinds, unit : Units, id : Ids]
AnyLine     == Line({"setup", "full", "exit", "unknown", "part", "last"})
WorkerLine  == Line({"part", "last"})
Event       ==      [kind : {"setup"}, req : Requests, to : Nat, id : {NoId}]
               \cup [kind : {"exit"}, req : Requests, to : Nat, id : Ids]
AnyAnswer   == [to : Nat, line : Line({"setup", "full", "exit", "unknown"}),
                release : BOOLEAN]
Job         == [req : Requests, sid : Sid, left : Nat \ {0}]
Channel     == [url : Nat, held : Seq(WorkerLine)]
Node        == [alive   : BOOLEAN,
                events  : Seq(Event),
                ev      : AnyAnswer \cup {NoAnswer},
                tasks   : [Ids -> Epochs \cup {NoEpoch}],
                map     : [Ids -> Epochs \cup {NoEpoch}],
                channel : [Sid -> Channel],
                jobs    : Seq(Job),
                worker  : Job \cup {NoJob}]

TypeOK ==
    /\ up \in BOOLEAN /\ epoch \in Epochs /\ coms \in Nat /\ ids \in 0..MaxIds
    /\ registered \subseteq Ids
    /\ pc \in [Requests -> {"open", "setup", "infer", "yield", "cleanup", "exit", "done"}]
    /\ stage \in [Requests -> Nat] /\ \A r \in Requests : stage[r] \in DOMAIN Stages[r]
    /\ good \in [Requests -> BOOLEAN]
    /\ conn \in [Requests -> [com : Nat, epoch : Epochs]]
    /\ inbox \in [Requests -> Seq(AnyLine)]
    /\ work \in [Requests -> Ids \cup {NoId}]
    /\ asked \in [Requests -> Nat]
    /\ node \in [Units -> Node]
    /\ owner \in [Sid -> Requests \cup {Nobody}]
    /\ lapses \subseteq Requests \X {"setup", "infer", "cleanup"}

(* A request ends, whatever becomes of the nodes and of unit-manager: no    *)
(* step of a request waits for a line that need not come.                   *)
RequestsEnd == \A r \in Requests : <>(pc[r] = "done")

ExitComes(u, n) ==
    \E i \in DOMAIN node[u].events :
        node[u].events[i].kind = "exit" /\ node[u].events[i].id = n

(* A session outlives its request only when the request left before setup   *)
(* had answered it, or when unit-manager refused the cleanup: otherwise its *)
(* exit is still to come, whichever exception ended the request.            *)
SessionsAreGivenBack ==
    \A u \in Units, n \in Ids :
        LET e == node[u].tasks[n]
            r == owner[<<e, n>>]
        IN e # NoEpoch /\ pc[r] = "done" =>
              \/ ExitComes(u, n)
              \/ <<r, "setup">> \in lapses \/ <<r, "cleanup">> \in lapses

(* As long as unit-manager is not restarted, the lines on a connection      *)
(* answer the request that opened it: late answers to requests that gave up,*)
(* and parts of a stream that was cut, reach nobody else, although nobody   *)
(* looks at request_id.                                                     *)
AnswersAreOwn ==
    epoch = 0 => \A r \in Requests : \A i \in DOMAIN inbox[r] : inbox[r][i].for = r

(* Requests that wait for their answers bring no node down: the exit comes  *)
(* when the worker has sent the last line of the session's last job.        *)
NodesSurviveOrderlyUse ==
    up /\ epoch = 0 /\ lapses = {} => \A u \in Units : node[u].alive

------------------------------------------------------------------------------
(* What one might expect of the code, and TLC refutes.                      *)

(* ... and no request reads another's answer when unit-manager was restarted*)
AnswersAreOwnAlways ==
    \A r \in Requests : \A i \in DOMAIN inbox[r] : inbox[r][i].for = r

(* ... and no request exits another's session.                              *)
ExitsOwnSession ==
    \A u \in Units : \A i \in DOMAIN node[u].events :
        LET e == node[u].events[i]
        IN e.kind = "exit" /\ node[u].tasks[e.id] # NoEpoch =>
              owner[<<node[u].tasks[e.id], e.id>>] = e.req

(* ... and a client that stops reading a stream does no harm to the node.   *)
NodesSurvive == up /\ epoch = 0 => \A u \in Units : node[u].alive

(* gateway/README.md: "The first version intentionally serializes RKLLM     *)
(* requests with a global lock".                                            *)
OneRkllmRequest ==
    Cardinality({r \in Requests : /\ pc[r] \in {"setup", "infer", "yield"}
                                  /\ UnitOf(r) \in Streamed}) <= 1
==============================================================================
