---------------------------- MODULE NodeJobQueue -----------------------------
(***************************************************************************)
(* infra-controller/include/NodeJobQueue.h, the bounded queue between the   *)
(* threads of a node that accept inference requests (one ZMQ SUB thread per *)
(* session, calling push) and the worker thread that runs the model (a loop *)
(* around wait_pop).  The node's destructor calls stop and joins the worker.*)
(*                                                                          *)
(* One action is one critical section of mutex_, or one call on cv_ made    *)
(* outside of it: push and stop release the mutex BEFORE they notify, so    *)
(* other threads run between the two.  cv_.wait releases the mutex and      *)
(* blocks in one step, may return without a notification, and evaluates its *)
(* predicate again under the mutex whenever it returns.                     *)
(***************************************************************************)
EXTENDS Naturals, Sequences, FiniteSets

CONSTANTS Producers,   (* threads that push: a node's SUB threads           *)
          Consumers,   (* threads that loop on wait_pop: a node has one     *)
          MaxSize,     (* max_size_, never 0: read_size_env refuses a 0     *)
          MaxPush      (* bound: calls of push one producer makes           *)

ASSUME QueueAssumption ==
    /\ IsFiniteSet(Producers)
    /\ IsFiniteSet(Consumers)
    /\ MaxSize \in Nat \ {0}
    /\ MaxPush \in Nat

VARIABLES jobs,      (* jobs_                                               *)
          running,   (* running_                                            *)
          pushed,    (* how often each producer has called push             *)
          producer,  (* where each producer is in push                      *)
          consumer,  (* where each consumer is in its loop on wait_pop      *)
          stopper,   (* where the destructor's stop(); join() is            *)
          served     (* history: the jobs wait_pop returned, oldest first   *)

queueVars == <<jobs, running, pushed, producer, consumer, stopper, served>>

(* The n-th call of push by producer p brings the job <<p, n>>.             *)
Job == Producers \X (1..MaxPush)

QueueTypeOK ==
    /\ jobs     \in Seq(Job) /\ Len(jobs) <= MaxSize
    /\ running  \in BOOLEAN
    /\ pushed   \in [Producers -> 0..MaxPush]
    /\ producer \in [Producers -> {"idle", "notify"}]
    /\ consumer \in [Consumers -> {"ready", "waiting", "busy", "done"}]
    /\ stopper  \in {"idle", "notify", "join", "joined"}
    /\ served   \in Seq(Job)

QueueInit ==
    /\ jobs     = <<>>
    /\ running  = TRUE
    /\ pushed   = [p \in Producers |-> 0]
    /\ producer = [p \in Producers |-> "idle"]
    /\ consumer = [c \in Consumers |-> "ready"]
    /\ stopper  = "idle"
    /\ served   = <<>>

Notifying == {p \in Producers : producer[p] = "notify"}
Ready     == {c \in Consumers : consumer[c] = "ready"}
Waiting   == {c \in Consumers : consumer[c] = "waiting"}

------------------------------------------------------------------------------
(* push: the critical section, then notify_one outside of it.               *)

(* Faulty variant: the capacity test lets one job too many in.              *)
HasRoomOffByOne == running /\ Len(jobs) <= MaxSize

HasRoom == running /\ Len(jobs) < MaxSize

PushAccept(p) ==
    /\ producer[p] = "idle"
    /\ pushed[p] < MaxPush
    /\ HasRoom
    /\ pushed'   = [pushed EXCEPT ![p] = @ + 1]
    /\ jobs'     = Append(jobs, <<p, pushed[p] + 1>>)
    /\ producer' = [producer EXCEPT ![p] = "notify"]
    /\ UNCHANGED <<running, consumer, stopper, served>>

PushRefuse(p) ==
    /\ producer[p] = "idle"
    /\ pushed[p] < MaxPush
    /\ ~HasRoom
    /\ pushed' = [pushed EXCEPT ![p] = @ + 1]
    /\ UNCHANGED <<jobs, running, producer, consumer, stopper, served>>

(* Faulty variant: nobody is woken up.                                      *)
WakeNobody == UNCHANGED consumer

WakeOne ==
    \/ /\ Waiting = {}
       /\ UNCHANGED consumer
    \/ \E c \in Waiting : consumer' = [consumer EXCEPT ![c] = "ready"]

NotifyOne(p) ==
    /\ producer[p] = "notify"
    /\ producer' = [producer EXCEPT ![p] = "idle"]
    /\ WakeOne
    /\ UNCHANGED <<jobs, running, pushed, stopper, served>>

------------------------------------------------------------------------------
(* wait_pop: the predicate of cv_.wait is evaluated under the mutex, on     *)
(* entry and after every wake-up.                                           *)

Pop(c) ==
    /\ consumer[c] = "ready"
    /\ jobs # <<>>
    /\ jobs'     = Tail(jobs)
    /\ served'   = Append(served, Head(jobs))
    /\ consumer' = [consumer EXCEPT ![c] = "busy"]
    /\ UNCHANGED <<running, pushed, producer, stopper>>

(* Faulty variant: the predicate forgets running_.                          *)
MustWaitEvenIfStopped == jobs = <<>>

MustWait == jobs = <<>> /\ running

Wait(c) ==
    /\ consumer[c] = "ready"
    /\ MustWait
    /\ consumer' = [consumer EXCEPT ![c] = "waiting"]
    /\ UNCHANGED <<jobs, running, pushed, producer, stopper, served>>

SpuriousWakeup(c) ==
    /\ consumer[c] = "waiting"
    /\ consumer' = [consumer EXCEPT ![c] = "ready"]
    /\ UNCHANGED <<jobs, running, pushed, producer, stopper, served>>

(* Faulty variant: a stopped queue is reported empty whatever it holds.     *)
NothingLeftOnceStopped == ~running

NothingLeft == jobs = <<>> /\ ~running

PopFails(c) ==
    /\ consumer[c] = "ready"
    /\ NothingLeft
    /\ consumer' = [consumer EXCEPT ![c] = "done"]
    /\ UNCHANGED <<jobs, running, pushed, producer, stopper, served>>

(* The body of worker_loop ends and wait_pop is called again.               *)
FinishJob(c) ==
    /\ consumer[c] = "busy"
    /\ consumer' = [consumer EXCEPT ![c] = "ready"]
    /\ UNCHANGED <<jobs, running, pushed, producer, stopper, served>>

------------------------------------------------------------------------------
(* stop: the critical section, then notify_all outside of it; then the      *)
(* destructor's join.                                                       *)

Stop ==
    /\ stopper = "idle"
    /\ running' = FALSE
    /\ stopper' = "notify"
    /\ UNCHANGED <<jobs, pushed, producer, consumer, served>>

(* Faulty variant: stop wakes one waiting thread only.                      *)
WakeOneOnStop == WakeOne

WakeAll ==
    consumer' = [c \in Consumers |->
                    IF c \in Waiting THEN "ready" ELSE consumer[c]]

NotifyAll ==
    /\ stopper = "notify"
    /\ stopper' = "join"
    /\ WakeAll
    /\ UNCHANGED <<jobs, running, pushed, producer, served>>

Join ==
    /\ stopper = "join"
    /\ \A c \in Consumers : consumer[c] = "done"
    /\ stopper' = "joined"
    /\ UNCHANGED <<jobs, running, pushed, producer, consumer, served>>

------------------------------------------------------------------------------
WaitPop(c) == Pop(c) \/ Wait(c) \/ PopFails(c)

QueueNext ==
    \/ \E p \in Producers : PushAccept(p) \/ PushRefuse(p) \/ NotifyOne(p)
    \/ \E c \in Consumers : WaitPop(c) \/ SpuriousWakeup(c) \/ FinishJob(c)
    \/ Stop \/ NotifyAll \/ Join

(* A thread that can run gets the mutex and runs: weak fairness per thread. *)
(* Nothing obliges a producer to push, the node to stop, or a wait to wake  *)
(* up without cause.  FinishJob is fair because a model run ends.           *)
Fairness ==
    /\ \A p \in Producers : WF_queueVars(NotifyOne(p))
    /\ \A c \in Consumers : WF_queueVars(WaitPop(c)) /\ WF_queueVars(FinishJob(c))
    /\ WF_queueVars(NotifyAll)
    /\ WF_queueVars(Join)

QueueSpec == QueueInit /\ [][QueueNext]_queueVars

FairQueueSpec == QueueSpec /\ Fairness

------------------------------------------------------------------------------
(* Properties.                                                              *)

(* No wake-up is lost although push notifies after it has released the      *)
(* mutex: while a consumer sleeps, every queued job is matched by a push    *)
(* that has yet to notify or by a consumer that has yet to look.            *)
NoLostWakeup ==
    Waiting # {} => Len(jobs) <= Cardinality(Notifying) + Cardinality(Ready)

(* The same for stop: nobody sleeps in cv_.wait of a stopped queue unless   *)
(* notify_all is still to come.                                             *)
NoSleeperAfterStop ==
    Waiting # {} /\ ~running => stopper = "notify"

(* wait_pop gives up only when the queue is stopped AND empty: a thread     *)
(* that left its loop leaves no accepted job behind.                        *)
StoppedMeansDrained ==
    (\E c \in Consumers : consumer[c] = "done") => jobs = <<>> /\ ~running

(* stop leaves neither a sleeper nor a job behind.                          *)
StopIsClean == NoSleeperAfterStop /\ StoppedMeansDrained

(* The queue is a bounded FIFO that hands out every job once, also across   *)
(* stop: every step of the threads is a step of BoundedFifo or invisible.   *)
Fifo == INSTANCE BoundedFifo WITH queue <- jobs, open <- running

ImplementsFifo == Fifo!Spec

(* Every job that push accepted is handed to a worker, even when stop comes *)
(* first.                                                                   *)
AcceptedJobsAreServed ==
    \A p \in Producers, n \in 1..MaxPush :
        (\E i \in DOMAIN jobs : jobs[i] = <<p, n>>)
            ~> (\E i \in DOMAIN served : served[i] = <<p, n>>)

(* stop(); join() in a node's destructor returns.                           *)
StopReturns == stopper = "notify" ~> stopper = "joined"
==============================================================================
