--------------------------- MODULE StackFlowProofs ----------------------------
(* Theorems about what the infra-controller library gives to its nodes: the *)
(* job queue of NodeJobQueue, the life of a node in NodeLifecycle, and the  *)
(* parameter encoding that the latter rests on.  They hold for every set of *)
(* threads, capacity and bound on the calls of push, for every number of    *)
(* requests, starts, crashes and unanswered RPCs, and for signed and        *)
(* unsigned chars of any width.                                             *)
EXTENDS NodeJobQueue, NodeLifecycle, FiniteSetTheorems, SequenceTheorems, TLAPS

------------------------------------------------------------------------------
(* The job queue.                                                           *)

(* What a critical section may find in the state: the types.                *)
LEMMA QueueTypeInit == QueueInit => QueueTypeOK
  BY QueueAssumption DEF QueueInit, QueueTypeOK

(* One step of any thread keeps the types.                                  *)
LEMMA QueueTypeNext == QueueTypeOK /\ [QueueNext]_queueVars => QueueTypeOK'
<1> SUFFICES ASSUME QueueTypeOK, [QueueNext]_queueVars
             PROVE  QueueTypeOK'
  OBVIOUS
<1> USE QueueAssumption DEF QueueTypeOK
<1>1. ASSUME NEW p \in Producers, PushAccept(p)
      PROVE  QueueTypeOK'
  <2>1. <<p, pushed[p] + 1>> \in Job
    BY <1>1 DEF PushAccept, Job
  <2>2. jobs' \in Seq(Job) /\ Len(jobs') = Len(jobs) + 1
    BY <1>1, <2>1 DEF PushAccept
  <2>3. Len(jobs') <= MaxSize
    BY <1>1, <2>2 DEF PushAccept, HasRoom
  <2>4. QED
    BY <1>1, <2>2, <2>3 DEF PushAccept
<1>2. ASSUME NEW p \in Producers, PushRefuse(p)
      PROVE  QueueTypeOK'
  BY <1>2 DEF PushRefuse
<1>3. ASSUME NEW p \in Producers, NotifyOne(p)
      PROVE  QueueTypeOK'
  BY <1>3 DEF NotifyOne, WakeOne, Waiting
<1>4. ASSUME NEW c \in Consumers, Pop(c)
      PROVE  QueueTypeOK'
  <2>1. /\ Head(jobs) \in Job
        /\ Tail(jobs) \in Seq(Job)
        /\ Len(Tail(jobs)) = Len(jobs) - 1
    BY <1>4 DEF Pop
  <2>2. served' \in Seq(Job)
    BY <1>4, <2>1 DEF Pop
  <2>3. QED
    BY <1>4, <2>1, <2>2 DEF Pop
<1>5. ASSUME NEW c \in Consumers, Wait(c)
      PROVE  QueueTypeOK'
  BY <1>5 DEF Wait
<1>6. ASSUME NEW c \in Consumers, PopFails(c)
      PROVE  QueueTypeOK'
  BY <1>6 DEF PopFails
<1>7. ASSUME NEW c \in Consumers, SpuriousWakeup(c)
      PROVE  QueueTypeOK'
  BY <1>7 DEF SpuriousWakeup
<1>8. ASSUME NEW c \in Consumers, FinishJob(c)
      PROVE  QueueTypeOK'
  BY <1>8 DEF FinishJob
<1>9. CASE Stop
  BY <1>9 DEF Stop
<1>10. CASE NotifyAll
  BY <1>10 DEF NotifyAll, WakeAll
<1>11. CASE Join
  BY <1>11 DEF Join
<1>12. CASE UNCHANGED queueVars
  BY <1>12 DEF queueVars
<1>13. QED
  BY <1>1, <1>2, <1>3, <1>4, <1>5, <1>6, <1>7, <1>8, <1>9, <1>10, <1>11, <1>12
     DEF QueueNext, WaitPop

(* The state of the queue and of its threads always has its type, and the   *)
(* queue never holds more than MaxSize jobs.                                *)
THEOREM QueueTypeCorrect == QueueSpec => []QueueTypeOK
  BY QueueTypeInit, QueueTypeNext, PTL DEF QueueSpec

------------------------------------------------------------------------------
(* stop and its sleepers.  A consumer blocks only while running_ is set, so *)
(* after the critical section of stop no new sleeper appears, and           *)
(* notify_all wakes the old ones.                                           *)

(* The stopper's progress tells whether running_ is still set.              *)
StopTracksRunning == running <=> stopper = "idle"

StopInv == StopTracksRunning /\ NoSleeperAfterStop /\ StoppedMeansDrained

(* The three facts about stop are inductive together.                       *)
LEMMA StopNext == QueueTypeOK /\ StopInv /\ [QueueNext]_queueVars => StopInv'
<1> SUFFICES ASSUME QueueTypeOK, StopInv, [QueueNext]_queueVars
             PROVE  StopInv'
  OBVIOUS
<1> USE DEF QueueTypeOK, StopInv, StopTracksRunning, NoSleeperAfterStop,
            StoppedMeansDrained, Waiting
<1>1. ASSUME NEW p \in Producers, PushAccept(p)
      PROVE  StopInv'
  BY <1>1 DEF PushAccept, HasRoom
<1>2. ASSUME NEW p \in Producers, PushRefuse(p)
      PROVE  StopInv'
  BY <1>2 DEF PushRefuse
<1>3. ASSUME NEW p \in Producers, NotifyOne(p)
      PROVE  StopInv'
  BY <1>3 DEF NotifyOne, WakeOne
<1>4. ASSUME NEW c \in Consumers, Pop(c)
      PROVE  StopInv'
  BY <1>4 DEF Pop
<1>5. ASSUME NEW c \in Consumers, Wait(c)
      PROVE  StopInv'
  BY <1>5 DEF Wait, MustWait
<1>6. ASSUME NEW c \in Consumers, PopFails(c)
      PROVE  StopInv'
  BY <1>6 DEF PopFails, NothingLeft
<1>7. ASSUME NEW c \in Consumers, SpuriousWakeup(c)
      PROVE  StopInv'
  BY <1>7 DEF SpuriousWakeup
<1>8. ASSUME NEW c \in Consumers, FinishJob(c)
      PROVE  StopInv'
  BY <1>8 DEF FinishJob
<1>9. CASE Stop
  BY <1>9 DEF Stop
<1>10. CASE NotifyAll
  BY <1>10 DEF NotifyAll, WakeAll
<1>11. CASE Join
  BY <1>11 DEF Join
<1>12. CASE UNCHANGED queueVars
  BY <1>12 DEF queueVars
<1>13. QED
  BY <1>1, <1>2, <1>3, <1>4, <1>5, <1>6, <1>7, <1>8, <1>9, <1>10, <1>11, <1>12
     DEF QueueNext, WaitPop

LEMMA StopInvariant == QueueSpec => []StopInv
<1>1. QueueInit => StopInv
  BY DEF QueueInit, StopInv, StopTracksRunning, NoSleeperAfterStop,
         StoppedMeansDrained, Waiting
<1>2. QED
  BY <1>1, StopNext, QueueTypeCorrect, PTL DEF QueueSpec

(* No consumer is left asleep in a stopped queue, so that the join in the   *)
(* node's destructor cannot wait for a thread nobody will wake; and a       *)
(* worker leaves its loop only after every accepted job was handed out.     *)
THEOREM StopIsAlwaysClean == QueueSpec => []StopIsClean
<1>1. StopInv => StopIsClean
  BY DEF StopInv, StopIsClean
<1>2. QED
  BY <1>1, StopInvariant, PTL

------------------------------------------------------------------------------
(* push and its sleepers.  push notifies after it has released the mutex;   *)
(* the count of threads still on their way to a job covers the jobs.        *)

(* The threads counted by NoLostWakeup are finitely many.                   *)
LEMMA ThreadsAreFinite ==
    ASSUME NEW S, S \subseteq Producers \/ S \subseteq Consumers
    PROVE  IsFiniteSet(S) /\ Cardinality(S) \in Nat
<1>1. IsFiniteSet(S)
  BY QueueAssumption, FS_Subset
<1>2. QED
  BY <1>1, FS_CardinalityType

(* One step of any thread keeps every queued job matched.                   *)
LEMMA NoLostWakeupNext ==
    QueueTypeOK /\ NoLostWakeup /\ [QueueNext]_queueVars => NoLostWakeup'
<1> SUFFICES ASSUME QueueTypeOK, NoLostWakeup, [QueueNext]_queueVars
             PROVE  NoLostWakeup'
  OBVIOUS
<1>len. Len(jobs) \in Nat
  BY DEF QueueTypeOK
<1>fin. /\ IsFiniteSet(Notifying) /\ Cardinality(Notifying) \in Nat
        /\ IsFiniteSet(Ready)     /\ Cardinality(Ready) \in Nat
  BY ThreadsAreFinite DEF Notifying, Ready
<1>1. ASSUME NEW p \in Producers, PushAccept(p)
      PROVE  NoLostWakeup'
  <2>1. p \notin Notifying /\ Notifying' = Notifying \cup {p}
    BY <1>1 DEF PushAccept, Notifying, QueueTypeOK
  <2>2. Cardinality(Notifying') = Cardinality(Notifying) + 1
    BY <2>1, <1>fin, FS_AddElement
  <2>3. Len(jobs') = Len(jobs) + 1
    BY <1>1 DEF PushAccept, QueueTypeOK
  <2>4. Waiting' = Waiting /\ Ready' = Ready
    BY <1>1 DEF PushAccept, Waiting, Ready
  <2>5. QED
    BY <2>2, <2>3, <2>4, <1>len, <1>fin DEF NoLostWakeup
<1>2. ASSUME NEW p \in Producers, PushRefuse(p)
      PROVE  NoLostWakeup'
  BY <1>2 DEF PushRefuse, NoLostWakeup, Waiting, Ready, Notifying
<1>3. ASSUME NEW p \in Producers, NotifyOne(p)
      PROVE  NoLostWakeup'
  <2>1. p \in Notifying /\ Notifying' = Notifying \ {p} /\ jobs' = jobs
    BY <1>3 DEF NotifyOne, Notifying, QueueTypeOK
  <2>2. Cardinality(Notifying') = Cardinality(Notifying) - 1
    BY <2>1, <1>fin, FS_RemoveElement
  <2>3. CASE Waiting = {} /\ UNCHANGED consumer
    BY <2>3 DEF NoLostWakeup, Waiting
  <2>4. ASSUME NEW c \in Waiting,
               consumer' = [consumer EXCEPT ![c] = "ready"]
        PROVE  NoLostWakeup'
    <3>1. c \notin Ready /\ Ready' = Ready \cup {c}
      BY <2>4 DEF Ready, Waiting, QueueTypeOK
    <3>2. Cardinality(Ready') = Cardinality(Ready) + 1
      BY <3>1, <1>fin, FS_AddElement
    <3>3. Waiting # {}
      BY <2>4
    <3>4. QED
      BY <3>2, <3>3, <2>1, <2>2, <1>len, <1>fin DEF NoLostWakeup
  <2>5. QED
    BY <1>3, <2>3, <2>4 DEF NotifyOne, WakeOne
<1>4. ASSUME NEW c \in Consumers, Pop(c)
      PROVE  NoLostWakeup'
  <2>1. c \in Ready /\ Ready' = Ready \ {c}
    BY <1>4 DEF Pop, Ready, QueueTypeOK
  <2>2. Cardinality(Ready') = Cardinality(Ready) - 1
    BY <2>1, <1>fin, FS_RemoveElement
  <2>3. Len(jobs') = Len(jobs) - 1
    BY <1>4 DEF Pop, QueueTypeOK
  <2>4. Waiting' = Waiting /\ Notifying' = Notifying
    BY <1>4 DEF Pop, Waiting, Notifying, QueueTypeOK
  <2>5. QED
    BY <2>2, <2>3, <2>4, <1>len, <1>fin DEF NoLostWakeup
<1>5. ASSUME NEW c \in Consumers, Wait(c) \/ PopFails(c)
      PROVE  NoLostWakeup'
  <2>1. jobs' = <<>>
    BY <1>5 DEF Wait, MustWait, PopFails, NothingLeft
  <2>2. Cardinality(Notifying') \in Nat /\ Cardinality(Ready') \in Nat
    BY ThreadsAreFinite DEF Notifying, Ready
  <2>3. QED
    BY <2>1, <2>2 DEF NoLostWakeup
<1>6. ASSUME NEW c \in Consumers, SpuriousWakeup(c) \/ FinishJob(c)
      PROVE  NoLostWakeup'
  <2>1. c \notin Ready /\ Ready' = Ready \cup {c}
    BY <1>6 DEF SpuriousWakeup, FinishJob, Ready, QueueTypeOK
  <2>2. Cardinality(Ready') = Cardinality(Ready) + 1
    BY <2>1, <1>fin, FS_AddElement
  <2>3. /\ Waiting' \subseteq Waiting
        /\ Notifying' = Notifying
        /\ jobs' = jobs
    BY <1>6 DEF SpuriousWakeup, FinishJob, Waiting, Notifying, QueueTypeOK
  <2>4. QED
    BY <2>2, <2>3, <1>len, <1>fin DEF NoLostWakeup
<1>7. CASE Stop \/ Join \/ UNCHANGED queueVars
  BY <1>7 DEF Stop, Join, queueVars, NoLostWakeup, Waiting, Ready, Notifying
<1>8. CASE NotifyAll
  BY <1>8 DEF NotifyAll, WakeAll, NoLostWakeup, Waiting
<1>9. QED
  BY <1>1, <1>2, <1>3, <1>4, <1>5, <1>6, <1>7, <1>8 DEF QueueNext, WaitPop

(* The worker never sleeps next to a job that nobody will announce.         *)
THEOREM WakeupsAreNotLost == QueueSpec => []NoLostWakeup
<1>1. QueueInit => NoLostWakeup
  BY DEF QueueInit, NoLostWakeup, Waiting
<1>2. QED
  BY <1>1, NoLostWakeupNext, QueueTypeCorrect, PTL DEF QueueSpec

------------------------------------------------------------------------------
(* The threads around the mutex and the condition variable implement the    *)
(* bounded FIFO.                                                            *)

(* A step of one thread is a step of the FIFO or leaves it alone.           *)
LEMMA FifoNext ==
    QueueTypeOK /\ StopInv /\ [QueueNext]_queueVars => [Fifo!Next]_(Fifo!vars)
<1> SUFFICES ASSUME QueueTypeOK, StopInv, [QueueNext]_queueVars
             PROVE  [Fifo!Next]_(Fifo!vars)
  OBVIOUS
<1> USE DEF Fifo!vars
<1>1. ASSUME NEW p \in Producers, PushAccept(p)
      PROVE  Fifo!Next
  <2>1. <<p, pushed[p] + 1>> \in Job
    BY <1>1, QueueAssumption DEF PushAccept, Job, QueueTypeOK
  <2>2. Fifo!Put(<<p, pushed[p] + 1>>)
    BY <1>1 DEF PushAccept, HasRoom, Fifo!Put
  <2>3. QED
    BY <2>1, <2>2 DEF Fifo!Next
<1>2. ASSUME NEW c \in Consumers, Pop(c)
      PROVE  Fifo!Next
  BY <1>2 DEF Pop, Fifo!Take, Fifo!Next
<1>3. CASE Stop
  <2>1. running
    BY <1>3 DEF Stop, StopInv, StopTracksRunning
  <2>2. QED
    BY <1>3, <2>1 DEF Stop, Fifo!Close, Fifo!Next
<1>4. ASSUME NEW p \in Producers, PushRefuse(p) \/ NotifyOne(p)
      PROVE  UNCHANGED Fifo!vars
  BY <1>4 DEF PushRefuse, NotifyOne
<1>5. ASSUME NEW c \in Consumers,
             Wait(c) \/ PopFails(c) \/ SpuriousWakeup(c) \/ FinishJob(c)
      PROVE  UNCHANGED Fifo!vars
  BY <1>5 DEF Wait, PopFails, SpuriousWakeup, FinishJob
<1>6. CASE NotifyAll \/ Join \/ UNCHANGED queueVars
  BY <1>6 DEF NotifyAll, Join, queueVars
<1>7. QED
  BY <1>1, <1>2, <1>3, <1>4, <1>5, <1>6 DEF QueueNext, WaitPop

(* NodeJobQueue implements BoundedFifo: what push accepts comes out of      *)
(* wait_pop once, in order, within the capacity, and nothing enters after   *)
(* stop.                                                                    *)
THEOREM QueueIsBoundedFifo == QueueSpec => ImplementsFifo
<1>1. QueueInit => Fifo!Init
  BY DEF QueueInit, Fifo!Init
<1>2. QED
  BY <1>1, FifoNext, QueueTypeCorrect, StopInvariant, PTL
  DEF QueueSpec, ImplementsFifo, Fifo!Spec

------------------------------------------------------------------------------
(* The life of a node.                                                      *)

(* The first parameters fit into the char that holds their length: below    *)
(* half of its values when it is signed, as on x86.                         *)
UrlsFit ==
    \A r \in Requests :
        IF CharIsSigned THEN 2 * Len(Url[r]) < CharValues ELSE Len(Url[r]) < CharValues

(* What the RPC thread has enqueued.                                        *)
AsSent(e) ==
    /\ e.unit \in 0..counter
    /\ e.op # "none" => e.req \in Requests /\ e.raw = SetParam(Url[e.req], Json[e.req])

EventInv ==
    /\ \A i \in 1..Len(queue) : AsSent(queue[i])
    /\ \A i \in 1..Len(batch) : AsSent(batch[i])

(* The phases in which nothing has begun to end.                            *)
Building == main \in {"serving", "status", "base", "members", "ready"}

(* How tasks and channels may differ at each place of the event thread, in  *)
(* which phases there are none, and in which the thread does not run.       *)
TableInv ==
    /\ tasks \subseteq channels
    /\ loop = "setup" => hand \in channels /\ hand \notin tasks
    /\ loop \in {"stop", "release"} => hand \notin tasks
    /\ ~(Derived \/ Half) => tasks = {}
    /\ main \in {"down", "serving", "look", "unbind"} => loop = "off"
    /\ main \in {"down", "unbind"} => channels = {}
    /\ Building => IF loop \in {"setup", "stop", "release"}
                   THEN channels \subseteq tasks \cup {hand}
                   ELSE channels \subseteq tasks

LifeInv == TypeOK /\ EventInv /\ TableInv /\ units \subseteq channels \cup excused
------------------------------------------------------------------------------
(* The encoding.                                                            *)

(* A length that fits is read back as it was.                               *)
LEMMA CharKeeps ==
    ASSUME NEW n \in Nat,
           IF CharIsSigned THEN 2 * n < CharValues ELSE n < CharValues
    PROVE  AsChar(n) = n
<1>1. CharValues \in Nat /\ n < CharValues /\ CharValues > 0
  BY CharAssumption
<1>2. n % CharValues = n
  BY <1>1
<1>3. QED
  BY <1>1, <1>2 DEF AsChar

(* What SetParam joins, GetParam takes apart again, whatever the strings    *)
(* hold, if the length of the first fits into a char (pzmq_data.cpp:40-63). *)
THEOREM CodecRoundTrip ==
    ASSUME NEW p \in Seq(Int), NEW q \in Seq(Int),
           IF CharIsSigned THEN 2 * Len(p) < CharValues ELSE Len(p) < CharValues
    PROVE  /\ SetParam(p, q) \in Seq(Int)
           /\ GetParam(0, SetParam(p, q)) = p
           /\ GetParam(1, SetParam(p, q)) = q
<1> DEFINE n == Len(p)
           h == <<n>>
           d == h \o p \o q
<1>1. n \in Nat /\ Len(q) \in Nat
  BY LenProperties
<1>2. SetParam(p, q) = d
  BY <1>1, CharKeeps DEF SetParam
<1>3. h \in Seq(Int) /\ Len(h) = 1 /\ h[1] = n
  BY <1>1
<1>4. /\ h \o p \in Seq(Int) /\ Len(h \o p) = 1 + n
      /\ (h \o p)[1] = n
      /\ \A i \in 1..n : (h \o p)[i + 1] = p[i]
  <2> HIDE DEF h
  <2>1. /\ h \o p \in Seq(Int) /\ Len(h \o p) = Len(h) + Len(p)
        /\ \A i \in 1..Len(h) + Len(p) :
              (h \o p)[i] = IF i <= Len(h) THEN h[i] ELSE p[i - Len(h)]
    BY ONLY <1>3, ConcatProperties, p \in Seq(Int)
  <2>2. \A i \in 1..n : (h \o p)[i + 1] = p[i]
    <3>1. ASSUME NEW i \in 1..n
          PROVE  (h \o p)[i + 1] = p[i]
      <4>1. i + 1 \in 1..Len(h) + Len(p) /\ ~(i + 1 <= Len(h)) /\ (i + 1) - Len(h) = i
        BY <1>1, <1>3
      <4>2. QED
        BY <2>1, <4>1
    <3>2. QED
      BY <3>1
  <2>3. (h \o p)[1] = n
    <3>1. 1 \in 1..Len(h) + Len(p) /\ 1 <= Len(h)
      BY <1>1, <1>3
    <3>2. QED
      BY <1>3, <2>1, <3>1
  <2>4. QED
    BY <1>3, <2>1, <2>2, <2>3
<1>5. /\ d \in Seq(Int) /\ Len(d) = 1 + n + Len(q)
      /\ \A i \in 1..(1 + n) : d[i] = (h \o p)[i]
      /\ \A i \in 1..Len(q) : d[n + 1 + i] = q[i]
  <2> DEFINE e == h \o p
  <2>1. d = e \o q /\ e \in Seq(Int) /\ Len(e) = 1 + n
    BY <1>4
  <2> HIDE DEF e
  <2>2. /\ e \o q \in Seq(Int) /\ Len(e \o q) = Len(e) + Len(q)
        /\ \A i \in 1..Len(e) + Len(q) :
              (e \o q)[i] = IF i <= Len(e) THEN e[i] ELSE q[i - Len(e)]
    BY ONLY <2>1, ConcatProperties, q \in Seq(Int)
  <2>3. \A i \in 1..(1 + n) : (e \o q)[i] = e[i]
    <3>1. ASSUME NEW i \in 1..(1 + n)
          PROVE  (e \o q)[i] = e[i]
      <4>1. i \in 1..Len(e) + Len(q) /\ i <= Len(e)
        BY <1>1, <2>1
      <4>2. QED
        BY <2>2, <4>1
    <3>2. QED
      BY <3>1
  <2>4. \A i \in 1..Len(q) : (e \o q)[n + 1 + i] = q[i]
    <3>1. ASSUME NEW i \in 1..Len(q)
          PROVE  (e \o q)[n + 1 + i] = q[i]
      <4>1. /\ n + 1 + i \in 1..Len(e) + Len(q)
            /\ ~(n + 1 + i <= Len(e)) /\ (n + 1 + i) - Len(e) = i
        BY <1>1, <2>1
      <4>2. QED
        BY <2>2, <4>1
    <3>2. QED
      BY <3>1
  <2>5. QED
    BY <2>1, <2>2, <2>3, <2>4 DEF e
<1> HIDE DEF d
<1>6. d[1] = n /\ Readable(d)
  <2>1. 1 \in 1..(1 + n)
    BY <1>1
  <2>2. d[1] = n
    BY <1>4, <1>5, <2>1
  <2>3. QED
    BY <1>1, <1>5, <2>2 DEF Readable
<1>7. SubSeq(d, 2, n + 1) = p
  <2>1. \A i \in 2..(n + 1) : d[i] \in Int
    <3>1. \A i \in 2..(n + 1) : i \in 1..Len(d)
      BY <1>1, <1>5
    <3>2. QED
      BY <1>5, <3>1, ElementOfSeq
  <2>2. /\ SubSeq(d, 2, n + 1) \in Seq(Int)
        /\ Len(SubSeq(d, 2, n + 1)) = IF 2 <= n + 1 THEN (n + 1) - 2 + 1 ELSE 0
        /\ \A i \in 1..((n + 1) - 2 + 1) : SubSeq(d, 2, n + 1)[i] = d[2 + i - 1]
    <3>1. 2 \in Int /\ n + 1 \in Int
      BY <1>1
    <3>2. QED
      BY ONLY <2>1, <3>1, SubSeqProperties
  <2>3. Len(SubSeq(d, 2, n + 1)) = n
    BY <1>1, <2>2
  <2>4. \A i \in 1..n : SubSeq(d, 2, n + 1)[i] = p[i]
    <3>1. ASSUME NEW i \in 1..n
          PROVE  SubSeq(d, 2, n + 1)[i] = p[i]
      <4>1. i \in 1..((n + 1) - 2 + 1) /\ 2 + i - 1 = i + 1 /\ i + 1 \in 1..(1 + n)
        BY <1>1
      <4>2. QED
        BY <1>4, <1>5, <2>2, <4>1
    <3>2. QED
      BY <3>1
  <2>5. QED
    BY ONLY <2>2, <2>3, <2>4, SeqEqual, p \in Seq(Int)
<1>8. SubSeq(d, n + 2, Len(d)) = q
  <2>1. \A i \in (n + 2)..Len(d) : d[i] \in Int
    <3>1. \A i \in (n + 2)..Len(d) : i \in 1..Len(d)
      BY <1>1, <1>5
    <3>2. QED
      BY <1>5, <3>1, ElementOfSeq
  <2>2. /\ SubSeq(d, n + 2, Len(d)) \in Seq(Int)
        /\ Len(SubSeq(d, n + 2, Len(d))) =
              IF n + 2 <= Len(d) THEN Len(d) - (n + 2) + 1 ELSE 0
        /\ \A i \in 1..(Len(d) - (n + 2) + 1) :
              SubSeq(d, n + 2, Len(d))[i] = d[n + 2 + i - 1]
    <3>1. n + 2 \in Int /\ Len(d) \in Int
      BY <1>1, <1>5
    <3>2. QED
      BY ONLY <2>1, <3>1, SubSeqProperties
  <2>3. Len(SubSeq(d, n + 2, Len(d))) = Len(q)
    BY <1>1, <1>5, <2>2
  <2>4. \A i \in 1..Len(q) : SubSeq(d, n + 2, Len(d))[i] = q[i]
    <3>1. ASSUME NEW i \in 1..Len(q)
          PROVE  SubSeq(d, n + 2, Len(d))[i] = q[i]
      <4>1. i \in 1..(Len(d) - (n + 2) + 1) /\ n + 2 + i - 1 = n + 1 + i
        BY <1>1, <1>5
      <4>2. QED
        BY <1>5, <2>2, <4>1
    <3>2. QED
      BY <3>1
  <2>5. QED
    BY ONLY <2>2, <2>3, <2>4, SeqEqual, q \in Seq(Int)
<1>9. GetParam(0, d) = p /\ GetParam(1, d) = q
  BY <1>6, <1>7, <1>8 DEF GetParam
<1>10. QED
  BY <1>2, <1>5, <1>9
------------------------------------------------------------------------------
(* The types.                                                               *)

(* An event that has been enqueued is one.                                  *)
LEMMA EventTypes ==
    ASSUME TypeOK, EventInv, batch # <<>>
    PROVE  /\ Head(batch) \in Event /\ Tail(batch) \in Seq(Event)
           /\ AsSent(Head(batch))
           /\ \A i \in 1..Len(Tail(batch)) : AsSent(Tail(batch)[i])
<1>1. batch \in Seq(Event)
  BY DEF TypeOK
<1>2. /\ Head(batch) = batch[1] /\ Head(batch) \in Event
      /\ Tail(batch) \in Seq(Event) /\ 1 \in 1..Len(batch)
      /\ \A i \in 1..Len(Tail(batch)) :
            Tail(batch)[i] = batch[i + 1] /\ i + 1 \in 1..Len(batch)
  BY <1>1
<1>3. QED
  BY <1>2 DEF EventInv

(* The end of the process leaves nothing of the node.                       *)
LEMMA EndsTypes ==
    ASSUME TypeOK, Ends, counter' \in Nat,
           units' \subseteq 1..counter', excused' \subseteq 1..counter',
           DOMAIN read' = Requests,
           budget' \in [starts : Nat, crashes : Nat, silent : Nat]
    PROVE  TypeOK'
<1>1. fate' \in [Requests -> {"new", "queued", "dropped", "served", "refused", "lost"}]
  BY DEF TypeOK, Ends
<1>2. queue' \in Seq(Event) /\ batch' \in Seq(Event)
  BY DEF Ends
<1>3. QED
  BY <1>1, <1>2 DEF TypeOK, Ends, Phase, Step, Unit

(* What a request adds to the queue.                                        *)
LEMMA RequestEvent ==
    ASSUME TypeOK, NEW r \in Requests, NEW op \in {"setup", "exit"},
           NEW u \in units \cup {None}
    PROVE  LET e == [req |-> r, op |-> op, unit |-> u, raw |-> SetParam(Url[r], Json[r])]
           IN  e \in Event /\ AsSent(e)
<1>1. Url[r] \in Seq(Int) /\ Json[r] \in Seq(Int)
  <2>1. Url[r] \in Seq(0..(CharValues - 1)) /\ Json[r] \in Seq(0..(CharValues - 1))
    BY LifecycleAssumption
  <2>2. 0..(CharValues - 1) \subseteq Int
    BY CharAssumption
  <2>3. QED
    BY <2>1, <2>2, SeqMonotonic
<1>2. AsChar(Len(Url[r])) \in Int
  <2>1. Len(Url[r]) \in Nat
    BY <1>1, LenProperties
  <2>2. \A n \in Nat, k \in Nat : k > 0 => n % k \in Int
    OBVIOUS
  <2>3. CharValues \in Nat /\ CharValues > 0
    BY CharAssumption
  <2>4. Len(Url[r]) % CharValues \in Int
    BY <2>1, <2>2, <2>3
  <2>5. QED
    BY <2>3, <2>4 DEF AsChar
<1>3. SetParam(Url[r], Json[r]) \in Seq(Int)
  <2>1. <<AsChar(Len(Url[r]))>> \in Seq(Int)
    BY <1>2
  <2>2. QED
    BY <1>1, <2>1 DEF SetParam
<1>4. u \in 0..counter /\ u \in Nat
  BY DEF TypeOK, Unit, None
<1>5. QED
  BY <1>3, <1>4 DEF Event, AsSent

LEMMA MainTypes ==
    ASSUME LifeInv, StartProcess \/ Sigterm \/ Main
    PROVE  TypeOK'
<1>1. TypeOK
  BY DEF LifeInv
<1> USE DEF mainVars, loopVars, nodeVars, userVars
<1>2. CASE StartProcess
  BY <1>1, <1>2 DEF StartProcess, To, TypeOK, Phase, Unit
<1>3. CASE Sigterm \/ SetStatus \/ LeaveMain \/ StopWorker \/ TasksCleared \/ NoChannelLeft
  BY <1>1, <1>3
  DEF Sigterm, SetStatus, LeaveMain, StopWorker, TasksCleared, NoChannelLeft,
      To, TypeOK, Phase, Unit
<1>4. CASE StartLoop \/ JoinLoop \/ BuildDerived
  BY <1>1, <1>4 DEF StartLoop, JoinLoop, BuildDerived, To, TypeOK, Phase, Step, Unit
<1>5. CASE ClearTask \/ EnterBase
  BY <1>1, <1>5 DEF ClearTask, EnterBase, To, TypeOK, Phase, Unit
<1>6. CASE TellLoop
  <2>1. WakeUp \in Seq(Event)
    <3>1. [req |-> None, op |-> "none", unit |-> None, raw |-> <<>>] \in Event
      BY DEF Event, None
    <3>2. QED
      BY <1>1, <3>1 DEF WakeUp, TypeOK
  <2>2. QED
    BY <1>1, <1>6, <2>1 DEF TellLoop, LeaveOrder, To, TypeOK, Phase, Unit
<1>7. CASE ReleaseAndAbort
  <2>1. budget' \in [starts : Nat, crashes : Nat, silent : Nat]
    BY <1>1, <1>7 DEF ReleaseAndAbort, TypeOK
  <2>2. units' \subseteq units /\ excused' = excused \cup (channels \cap units')
    BY <1>7 DEF ReleaseAndAbort
  <2>3. QED
    BY <1>1, <1>7, <2>1, <2>2, EndsTypes DEF ReleaseAndAbort, TypeOK, Unit
<1>8. CASE Unbind
  BY <1>1, <1>8, EndsTypes DEF Unbind, TypeOK, Unit
<1>9. QED
  BY <1>2, <1>3, <1>4, <1>5, <1>6, <1>7, <1>8, StartProcess \/ Sigterm \/ Main
  DEF Main, Construct, Destroy

LEMMA AnswerTypes ==
    ASSUME TypeOK, NEW outcome \in {"served", "refused"}, Answer(outcome)
    PROVE  fate' \in [Requests -> {"new", "queued", "dropped", "served", "refused", "lost"}]
  BY DEF TypeOK, Answer

LEMMA LoopTypes ==
    ASSUME LifeInv, EvenLoop
    PROVE  TypeOK'
<1>1. TypeOK
  BY DEF LifeInv
<1> USE DEF mainVars, loopVars, nodeVars, userVars
<1>2. CASE TestFlag \/ TakeEvents \/ BatchDone
  <2>1. <<>> \in Seq(Event)
    OBVIOUS
  <2>2. QED
    BY <1>1, <1>2, <2>1 DEF TestFlag, TakeEvents, BatchDone, TypeOK, Step, Unit
<1>3. CASE Dispatch
  <2> DEFINE e == Head(batch)
  <2>1. e \in Event /\ Tail(batch) \in Seq(Event) /\ AsSent(e)
    BY <1>1, <1>3, EventTypes DEF Dispatch, LifeInv
  <2>2. batch' \in Seq(Event)
    BY <1>3, <2>1 DEF Dispatch
  <2>3. e.unit \in Unit \cup {None}
    BY <1>1, <2>1 DEF AsSent, Unit, None, TypeOK
  <2>4. DOMAIN read' = Requests /\ hand' \in Unit \cup {None} /\ loop' \in Step
    BY <1>1, <1>3, <2>3 DEF Dispatch, TypeOK, Step, None
  <2>5. fate' \in [Requests -> {"new", "queued", "dropped", "served", "refused", "lost"}]
    <3>1. CASE e.op = "none"
      BY <1>1, <1>3, <3>1 DEF Dispatch, TypeOK
    <3>2. CASE e.op # "none"
      <4>1. e.req \in Requests
        BY <2>1, <3>2 DEF AsSent
      <4>2. \/ fate' = [fate EXCEPT ![e.req] = "dropped"]
            \/ fate' = [fate EXCEPT ![e.req] = fate[e.req]]
        BY <1>3, <3>2 DEF Dispatch
      <4>3. QED
        BY <1>1, <4>1, <4>2 DEF TypeOK
    <3>3. QED
      BY <3>1, <3>2
  <2>6. QED
    BY <1>1, <1>3, <2>2, <2>4, <2>5 DEF Dispatch, TypeOK, Unit
<1>4. CASE RegisterUnit
  <2>1. counter \in Nat /\ counter' = counter + 1
    BY <1>1, <1>4 DEF RegisterUnit, TypeOK
  <2>2. 1..counter \subseteq 1..counter' /\ NextUnit \in 1..counter'
    BY <2>1 DEF NextUnit
  <2>3. QED
    BY <1>1, <1>4, <2>1, <2>2 DEF RegisterUnit, TypeOK, Step, Unit
<1>5. CASE RegisterFails
  <2>1. PICK ran \in {0, 1} :
            counter' = counter + ran /\ units' = units \cup {n \in {counter + 1} : ran = 1}
    BY <1>5 DEF RegisterFails
  <2>2. counter \in Nat /\ counter' \in Nat /\ 1..counter \subseteq 1..counter'
    BY <1>1, <2>1 DEF TypeOK
  <2>3. units' \subseteq 1..counter'
    <3>1. ran = 1 => counter + 1 \in 1..counter'
      BY <2>1, <2>2
    <3>2. QED
      BY <1>1, <2>1, <2>2, <3>1 DEF TypeOK, Unit
  <2>4. excused' \subseteq 1..counter'
    BY <1>1, <1>5, <2>2, <2>3 DEF RegisterFails, TypeOK, Unit
  <2>5. budget' \in [starts : Nat, crashes : Nat, silent : Nat]
    BY <1>1, <1>5 DEF RegisterFails, TypeOK
  <2>6. QED
    BY <1>1, <1>5, <2>2, <2>3, <2>4, <2>5, EndsTypes DEF RegisterFails, TypeOK
<1>6. CASE SetupAdmits
  <2>1. hand \in Unit
    BY <1>1, <1>6 DEF SetupAdmits, LifeInv, TableInv, TypeOK
  <2>2. fate' \in [Requests -> {"new", "queued", "dropped", "served", "refused", "lost"}]
    BY <1>1, <1>6, AnswerTypes DEF SetupAdmits
  <2>3. QED
    BY <1>1, <1>6, <2>1, <2>2 DEF SetupAdmits, TypeOK, Step, Unit
<1>7. CASE SetupRefuses \/ ExitUnknown \/ ExitBase \/ ExitStops
  <2>1. fate' \in [Requests -> {"new", "queued", "dropped", "served", "refused", "lost"}]
    BY <1>1, <1>7, AnswerTypes
    DEF SetupRefuses, ExitUnknown, AnswerUnknown, ExitBase, ExitStops
  <2>2. QED
    BY <1>1, <1>7, <2>1
    DEF SetupRefuses, AfterRefusal, ExitUnknown, ExitBase, ExitStops, TypeOK, Step, Unit
<1>8. CASE ExitFound
  BY <1>1, <1>8 DEF ExitFound, EraseFirst, TypeOK, Step, Unit
<1>9. CASE ReleaseUnit
  <2>1. budget' \in [starts : Nat, crashes : Nat, silent : Nat]
    BY <1>1, <1>9 DEF ReleaseUnit, TypeOK
  <2>2. units' \subseteq Unit /\ excused' \subseteq Unit /\ channels' \subseteq Unit
    BY <1>1, <1>9 DEF ReleaseUnit, TypeOK
  <2>3. QED
    BY <1>1, <1>9, <2>1, <2>2 DEF ReleaseUnit, TypeOK, Step, Unit
<1>10. QED
  BY <1>2, <1>3, <1>4, <1>5, <1>6, <1>7, <1>8, <1>9 DEF EvenLoop

LEMMA OtherTypes ==
    ASSUME LifeInv,
           Crash \/ \E r \in Requests, op \in {"setup", "exit"}, u \in units \cup {None} :
                       Request(r, op, u)
    PROVE  TypeOK'
<1>1. TypeOK
  BY DEF LifeInv
<1>2. CASE Crash
  <2>1. budget' \in [starts : Nat, crashes : Nat, silent : Nat]
    BY <1>1, <1>2 DEF Crash, TypeOK
  <2>2. QED
    BY <1>1, <1>2, <2>1, EndsTypes DEF Crash, TypeOK, Unit
<1>3. ASSUME NEW r \in Requests, NEW op \in {"setup", "exit"}, NEW u \in units \cup {None},
             Request(r, op, u)
      PROVE  TypeOK'
  <2>1. queue' \in Seq(Event)
    <3>1. queue \in Seq(Event)
      BY <1>1 DEF TypeOK
    <3>2. [req |-> r, op |-> op, unit |-> u, raw |-> SetParam(Url[r], Json[r])] \in Event
      BY <1>1, RequestEvent
    <3>3. QED
      BY <1>3, <3>1, <3>2 DEF Request
  <2>2. QED
    BY <1>1, <1>3, <2>1
    DEF Request, TypeOK, mainVars, loopVars, nodeVars, Unit
<1>4. QED
  BY <1>2, <1>3
------------------------------------------------------------------------------
(* The events.                                                              *)

(* A step that enqueues nothing leaves events as they were sent.            *)
LEMMA EventsKept ==
    ASSUME TypeOK, EventInv, counter' \in Nat, counter <= counter',
           queue' = queue \/ queue' = <<>>,
           batch' = batch \/ batch' = queue \/ batch' = <<>>
    PROVE  EventInv'
<1>1. 0..counter \subseteq 0..counter'
  BY DEF TypeOK
<1>2. \A i \in 1..Len(queue') : queue' = queue /\ AsSent(queue[i])
  BY DEF EventInv
<1>3. \A i \in 1..Len(batch') :
          \/ batch' = batch /\ AsSent(batch[i])
          \/ batch' = queue /\ AsSent(queue[i])
  BY DEF EventInv
<1>4. QED
  BY <1>1, <1>2, <1>3 DEF EventInv, AsSent

(* Nor does one that adds an event as it was sent.                          *)
LEMMA EventsAdded ==
    ASSUME TypeOK, EventInv, NEW e \in Event, AsSent(e),
           queue' = Append(queue, e), batch' = batch, counter' = counter
    PROVE  EventInv'
<1>1. queue \in Seq(Event)
  BY DEF TypeOK
<1>2. \A i \in 1..Len(queue') :
          \/ i \in 1..Len(queue) /\ queue'[i] = queue[i]
          \/ queue'[i] = e
  BY <1>1
<1>3. QED
  BY <1>2 DEF EventInv, AsSent

LEMMA EventNext == LifeInv /\ Next => EventInv'
<1> SUFFICES ASSUME LifeInv, Next
             PROVE  EventInv'
  OBVIOUS
<1>1. TypeOK /\ EventInv /\ counter \in Nat
  BY DEF LifeInv, TypeOK
<1> USE DEF mainVars, loopVars
<1>2. ASSUME NEW r \in Requests, NEW op \in {"setup", "exit"}, NEW u \in units \cup {None},
             Request(r, op, u)
      PROVE  EventInv'
  <2> DEFINE e == [req |-> r, op |-> op, unit |-> u, raw |-> SetParam(Url[r], Json[r])]
  <2>1. e \in Event /\ AsSent(e)
    BY <1>1, RequestEvent
  <2>2. queue' = Append(queue, e) /\ batch' = batch /\ counter' = counter
    BY <1>2 DEF Request
  <2>3. QED
    BY ONLY <1>1, <2>1, <2>2, EventsAdded
<1>3. CASE TellLoop
  <2> DEFINE e == [req |-> None, op |-> "none", unit |-> None, raw |-> <<>>]
  <2>1. e \in Event /\ AsSent(e)
    BY <1>1 DEF Event, None, AsSent
  <2>2. /\ queue' = Append(queue, e) \/ queue' = queue
        /\ batch' = batch /\ counter' = counter
    BY <1>3 DEF TellLoop, LeaveOrder, WakeUp
  <2>3. CASE queue' = Append(queue, e)
    BY ONLY <1>1, <2>1, <2>2, <2>3, EventsAdded
  <2>4. CASE queue' = queue
    BY <1>1, <2>2, <2>4, EventsKept
  <2>5. QED
    BY <2>2, <2>3, <2>4
<1>4. CASE Dispatch
  <2>1. /\ Tail(batch) \in Seq(Event)
        /\ \A i \in 1..Len(Tail(batch)) : AsSent(Tail(batch)[i])
    BY <1>1, <1>4, EventTypes DEF Dispatch
  <2>2. batch' = Tail(batch) /\ queue' = queue /\ counter' = counter
    BY <1>4 DEF Dispatch
  <2>3. QED
    BY <1>1, <2>1, <2>2 DEF EventInv, AsSent
<1>5. CASE Ends /\ (Crash \/ Unbind \/ ReleaseAndAbort \/ RegisterFails)
  <2>1. counter' \in Nat /\ counter <= counter'
    BY <1>1, <1>5 DEF Crash, Unbind, ReleaseAndAbort, RegisterFails
  <2>2. QED
    BY <1>1, <1>5, <2>1, EventsKept DEF Ends
<1>6. CASE RegisterUnit \/ TakeEvents
  <2>1. counter' \in Nat /\ counter <= counter'
    BY <1>1, <1>6 DEF RegisterUnit, TakeEvents
  <2>2. /\ queue' = queue \/ queue' = <<>>
        /\ batch' = batch \/ batch' = queue
    BY <1>6 DEF RegisterUnit, TakeEvents
  <2>3. QED
    BY <1>1, <2>1, <2>2, EventsKept
<1>7. ASSUME \/ StartProcess \/ Sigterm \/ Construct
             \/ LeaveMain \/ StopWorker \/ ClearTask \/ TasksCleared \/ EnterBase
             \/ JoinLoop \/ NoChannelLeft
             \/ TestFlag \/ BatchDone \/ SetupAdmits \/ SetupRefuses
             \/ ExitFound \/ ExitUnknown \/ ExitBase \/ ExitStops \/ ReleaseUnit
      PROVE  EventInv'
  <2>1. UNCHANGED <<queue, batch, counter>>
    BY <1>7
    DEF StartProcess, Sigterm, Construct, StartLoop, SetStatus, BuildDerived,
        LeaveMain, StopWorker, ClearTask, TasksCleared, EnterBase, JoinLoop,
        NoChannelLeft, TestFlag, BatchDone, SetupAdmits, SetupRefuses, ExitFound,
        ExitUnknown, ExitBase, ExitStops, ReleaseUnit
  <2>2. QED
    BY <1>1, <2>1, EventsKept
<1>8. Crash \/ Unbind \/ ReleaseAndAbort \/ RegisterFails => Ends
  BY DEF Crash, Unbind, ReleaseAndAbort, RegisterFails
<1>9. QED
  BY <1>2, <1>3, <1>4, <1>5, <1>6, <1>7, <1>8 DEF Next, Main, Destroy, EvenLoop
------------------------------------------------------------------------------
(* Tasks, channels and units.                                               *)

Accounted == units \subseteq channels \cup excused

LEMMA EndsTables ==
    ASSUME Ends
    PROVE  TableInv'
  BY DEF Ends, TableInv, Derived, Half, Building

LEMMA MainTables ==
    ASSUME LifeInv, StartProcess \/ Sigterm \/ Main
    PROVE  TableInv' /\ Accounted'
<1>1. TableInv /\ Accounted
  BY DEF LifeInv, Accounted
<1> USE DEF mainVars, loopVars, nodeVars, userVars, To
<1>2. CASE ReleaseAndAbort
  <2>1. units' \subseteq units /\ excused' = excused \cup (channels \cap units')
    BY <1>2 DEF ReleaseAndAbort
  <2>2. QED
    BY <1>1, <1>2, <2>1, EndsTables DEF ReleaseAndAbort, Accounted
<1>3. CASE Unbind
  <2>1. channels = {} /\ units' = units /\ excused' = excused
    BY <1>1, <1>3 DEF Unbind, TableInv
  <2>2. QED
    BY <1>1, <1>3, <2>1, EndsTables DEF Unbind, Accounted
<1>4. CASE StartProcess \/ StartLoop \/ SetStatus
  BY <1>1, <1>4
  DEF StartProcess, StartLoop, SetStatus, TableInv, Accounted, Derived, Half, Building
<1>5. CASE Sigterm \/ BuildDerived
  BY <1>1, <1>5 DEF Sigterm, BuildDerived, TableInv, Accounted, Derived, Half, Building
<1>6. CASE LeaveMain \/ StopWorker \/ TasksCleared
  BY <1>1, <1>6
  DEF LeaveMain, StopWorker, TasksCleared, TableInv, Accounted, Derived, Half, Building
<1>7. CASE ClearTask \/ EnterBase
  BY <1>1, <1>7 DEF ClearTask, EnterBase, TableInv, Accounted, Derived, Half, Building
<1>8. CASE TellLoop
  BY <1>1, <1>8 DEF TellLoop, LeaveOrder, TableInv, Accounted, Derived, Half, Building
<1>9. CASE JoinLoop \/ NoChannelLeft
  BY <1>1, <1>9 DEF JoinLoop, NoChannelLeft, TableInv, Accounted, Derived, Half, Building
<1>10. QED
  BY <1>2, <1>3, <1>4, <1>5, <1>6, <1>7, <1>8, <1>9, StartProcess \/ Sigterm \/ Main
  DEF Main, Construct, Destroy

LEMMA LoopTables ==
    ASSUME LifeInv, EvenLoop
    PROVE  TableInv' /\ Accounted'
<1>1. TypeOK /\ TableInv /\ Accounted
  BY DEF LifeInv, Accounted
<1> USE DEF mainVars, loopVars, nodeVars, userVars
<1>2. CASE TestFlag \/ TakeEvents \/ BatchDone
  BY <1>1, <1>2
  DEF TestFlag, TakeEvents, BatchDone, TableInv, Accounted, Derived, Half, Building
<1>3. CASE Dispatch
  <2>1. /\ loop = "next" /\ loop' \in {"next", "register", "exit"}
        /\ UNCHANGED <<main, channels, tasks, units, excused>>
    BY <1>3 DEF Dispatch
  <2>2. QED
    BY <1>1, <2>1 DEF TableInv, Accounted, Derived, Half, Building
<1>4. CASE RegisterUnit
  <2>1. NextUnit \notin tasks
    BY <1>1 DEF NextUnit, TypeOK, Unit
  <2>2. QED
    BY <1>1, <1>4, <2>1
    DEF RegisterUnit, TableInv, Accounted, Derived, Half, Building
<1>5. CASE RegisterFails
  <2>1. excused' = excused \cup units'
    BY <1>5 DEF RegisterFails
  <2>2. QED
    BY <1>5, <2>1, EndsTables DEF RegisterFails, Accounted
<1>6. CASE SetupAdmits \/ SetupRefuses
  BY <1>1, <1>6
  DEF SetupAdmits, SetupRefuses, AfterRefusal, TableInv, Accounted, Derived, Half, Building
<1>7. CASE ExitFound \/ ExitStops
  BY <1>1, <1>7
  DEF ExitFound, EraseFirst, ExitStops, TableInv, Accounted, Derived, Half, Building
<1>8. CASE ExitUnknown \/ ExitBase
  BY <1>1, <1>8 DEF ExitUnknown, ExitBase, TableInv, Accounted, Derived, Half, Building
<1>9. CASE ReleaseUnit
  <2>1. PICK released \in BOOLEAN :
            /\ units' = IF released THEN units \ {hand} ELSE units
            /\ excused' = IF released THEN excused ELSE excused \cup ({hand} \cap units)
    BY <1>9 DEF ReleaseUnit
  <2>2. channels' = channels \ {hand} /\ loop = "release"
    BY <1>9 DEF ReleaseUnit
  <2>3. Accounted'
    BY <1>1, <2>1, <2>2 DEF Accounted
  <2>4. TableInv'
    BY <1>1, <1>9, <2>2 DEF ReleaseUnit, TableInv, Derived, Half, Building
  <2>5. QED
    BY <2>3, <2>4
<1>10. QED
  BY <1>2, <1>3, <1>4, <1>5, <1>6, <1>7, <1>8, <1>9 DEF EvenLoop

LEMMA LifeNext == LifeInv /\ [Next]_vars => LifeInv'
<1> SUFFICES ASSUME LifeInv, [Next]_vars
             PROVE  LifeInv'
  OBVIOUS
<1>1. CASE Crash
  <2>1. excused' = excused \cup units /\ units' = units /\ Ends
    BY <1>1 DEF Crash
  <2>2. Accounted' /\ TableInv'
    BY <2>1, EndsTables DEF Accounted
  <2>3. QED
    BY <1>1, <2>2, OtherTypes, EventNext DEF LifeInv, Next, Accounted
<1>2. ASSUME NEW r \in Requests, NEW op \in {"setup", "exit"}, NEW u \in units \cup {None},
             Request(r, op, u)
      PROVE  LifeInv'
  <2>1. UNCHANGED <<mainVars, loopVars, nodeVars, units, excused>>
    BY <1>2 DEF Request
  <2>2. Accounted' /\ TableInv'
    BY <2>1
    DEF LifeInv, TableInv, Accounted, Derived, Half, Building, mainVars, loopVars, nodeVars
  <2>3. QED
    BY <1>2, <2>2, OtherTypes, EventNext DEF LifeInv, Next, Accounted
<1>3. CASE StartProcess \/ Sigterm \/ Main
  BY <1>3, MainTypes, MainTables, EventNext DEF LifeInv, Next, Accounted
<1>4. CASE EvenLoop
  BY <1>4, LoopTypes, LoopTables, EventNext DEF LifeInv, Next, Accounted
<1>5. CASE UNCHANGED vars
  <2> USE DEF vars, mainVars, loopVars, nodeVars, userVars
  <2>1. TypeOK'
    BY <1>5 DEF LifeInv, TypeOK, Unit
  <2>2. EventInv'
    BY <1>5 DEF LifeInv, EventInv, AsSent
  <2>3. TableInv' /\ Accounted'
    BY <1>5 DEF LifeInv, TableInv, Accounted, Derived, Half, Building
  <2>4. QED
    BY <2>1, <2>2, <2>3 DEF LifeInv, Accounted
<1>6. QED
  BY <1>1, <1>2, <1>3, <1>4, <1>5 DEF Next

LEMMA LifeInit == Init => LifeInv
<1> SUFFICES ASSUME Init
             PROVE  LifeInv
  OBVIOUS
<1>1. queue \in Seq(Event) /\ batch \in Seq(Event)
  BY DEF Init
<1>2. TypeOK
  BY <1>1 DEF Init, TypeOK, Unit, Phase, Step
<1>3. EventInv
  BY DEF Init, EventInv
<1>4. TableInv /\ units \subseteq channels \cup excused
  BY DEF Init, TableInv, Derived, Half, Building
<1>5. QED
  BY <1>2, <1>3, <1>4 DEF LifeInv

LEMMA LifeInvariant == Spec => []LifeInv
  BY LifeInit, LifeNext, PTL DEF Spec

(* Every variable keeps its type.                                           *)
THEOREM TypeCorrect == Spec => []TypeOK
<1>1. LifeInv => TypeOK
  BY DEF LifeInv
<1>2. QED
  BY <1>1, LifeInvariant, PTL

(* No destructor and no exit meets a task without a channel.                *)
THEOREM TasksAlwaysHaveChannels == Spec => []TasksHaveChannels
<1>1. LifeInv => TasksHaveChannels
  BY DEF LifeInv, TableInv, TasksHaveChannels
<1>2. QED
  BY <1>1, LifeInvariant, PTL

(* No orderly path of a node forgets a unit that it has registered.         *)
THEOREM UnitsAlwaysAccountedFor == Spec => []UnitsAccountedFor
<1>1. LifeInv => UnitsAccountedFor
  BY DEF LifeInv, TableInv, Building, UnitsAccountedFor
<1>2. QED
  BY <1>1, LifeInvariant, PTL

(* The event thread reads what unit-manager has sent, if the URLs fit into  *)
(* the char that holds their length.                                        *)
THEOREM AlwaysReadAsSent == UrlsFit /\ Spec => []ReadAsSent
<1> SUFFICES ASSUME UrlsFit
             PROVE  Spec => []ReadAsSent
  OBVIOUS
<1>1. Init => ReadAsSent
  BY DEF Init, ReadAsSent
<1>2. LifeInv /\ ReadAsSent /\ [Next]_vars => ReadAsSent'
  <2> SUFFICES ASSUME LifeInv, ReadAsSent, [Next]_vars
               PROVE  ReadAsSent'
    OBVIOUS
  <2>1. CASE Dispatch
    <3> DEFINE e == Head(batch)
    <3>1. AsSent(e)
      BY <2>1, EventTypes DEF Dispatch, LifeInv
    <3>2. CASE e.op = "none"
      BY <2>1, <3>2 DEF Dispatch, userVars, ReadAsSent
    <3>3. CASE e.op # "none"
      <4>1. e.req \in Requests /\ e.raw = SetParam(Url[e.req], Json[e.req])
        BY <3>1, <3>3 DEF AsSent
      <4>2. Url[e.req] \in Seq(Int) /\ Json[e.req] \in Seq(Int)
        <5>1. /\ Url[e.req] \in Seq(0..(CharValues - 1))
              /\ Json[e.req] \in Seq(0..(CharValues - 1))
          BY <4>1, LifecycleAssumption
        <5>2. 0..(CharValues - 1) \subseteq Int
          BY CharAssumption
        <5>3. QED
          BY <5>1, <5>2, SeqMonotonic
      <4>3. GetParam(0, e.raw) = Url[e.req] /\ GetParam(1, e.raw) = Json[e.req]
        <5>1. IF CharIsSigned THEN 2 * Len(Url[e.req]) < CharValues
                              ELSE Len(Url[e.req]) < CharValues
          BY <4>1 DEF UrlsFit
        <5>2. /\ GetParam(0, SetParam(Url[e.req], Json[e.req])) = Url[e.req]
              /\ GetParam(1, SetParam(Url[e.req], Json[e.req])) = Json[e.req]
          BY ONLY <4>2, <5>1, CodecRoundTrip
        <5>3. QED
          BY <4>1, <5>2
      <4>4. read' = [read EXCEPT ![e.req] = <<Url[e.req], Json[e.req]>>]
        BY <2>1, <3>3, <4>3 DEF Dispatch
      <4>5. \A r \in Requests : r # e.req => read'[r] = read[r]
        BY <4>4 DEF LifeInv, TypeOK
      <4>6. read'[e.req] = <<Url[e.req], Json[e.req]>> \/ e.req \notin DOMAIN read
        BY <4>4
      <4>7. DOMAIN read = Requests
        BY DEF LifeInv, TypeOK
      <4>8. QED
        BY <4>1, <4>5, <4>6, <4>7 DEF ReadAsSent
    <3>4. QED
      BY <3>2, <3>3
  <2>2. CASE ~Dispatch
    <3>1. read' = read
      <4>1. CASE Main \/ StartProcess \/ Sigterm
        BY <4>1
        DEF Main, Construct, StartLoop, SetStatus, BuildDerived, Destroy, LeaveMain,
            StopWorker, ClearTask, TasksCleared, EnterBase, TellLoop, JoinLoop,
            NoChannelLeft, ReleaseAndAbort, Unbind, StartProcess, Sigterm, userVars
      <4>2. CASE EvenLoop
        BY <2>2, <4>2
        DEF EvenLoop, TestFlag, TakeEvents, BatchDone, RegisterUnit, RegisterFails,
            SetupAdmits, SetupRefuses, ExitFound, ExitUnknown, ExitBase, ExitStops,
            ReleaseUnit, userVars
      <4>3. CASE Crash \/ UNCHANGED vars
        BY <4>3 DEF Crash, vars, userVars
      <4>4. ASSUME NEW r \in Requests, NEW op \in {"setup", "exit"},
                   NEW u \in units \cup {None}, Request(r, op, u)
            PROVE  read' = read
        BY <4>4 DEF Request
      <4>5. QED
        BY <4>1, <4>2, <4>3, <4>4 DEF Next
    <3>2. QED
      BY <3>1 DEF ReadAsSent
  <2>3. QED
    BY <2>1, <2>2
<1>3. QED
  BY <1>1, <1>2, LifeInvariant, PTL DEF Spec
==============================================================================
