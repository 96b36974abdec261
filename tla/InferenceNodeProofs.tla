------------------------ MODULE InferenceNodeProofs -------------------------
(* Theorems about InferenceNode for every number of users, connections,     *)
(* requests, sessions and queue places, and for every kind of node: first   *)
(* those that hold of any users, then those that need users that wait for   *)
(* their answers (Patient).                                                 *)
EXTENDS InferenceNode, FiniteSetTheorems, TLAPS

(* Each user's requests are asked in the order of their numbers.            *)
AskedInOrder ==
    \A u \in Users : \E m \in 0..MaxSent :
        \A n \in 1..MaxSent : IsAsked(<<u, n>>) <=> n <= m

(* Whatever a thread works on or a queue holds was asked; the worker's job  *)
(* belongs to a unit, and so does what the event thread admits or stops; a  *)
(* channel with a PUB socket has a PUSH socket.                             *)
InFlight ==
    /\ ev # Idle => IsAsked(ev.req)
    /\ ev.step \in {"admit", "stop"} => ev.unit \in Unit
    /\ \A k \in Unit : \A i \in 1..Len(inbox[k]) : IsAsked(inbox[k][i])
    /\ \A k \in Unit : sub[k] # Idle => IsAsked(sub[k].req)
    /\ \A i \in 1..Len(jobs) : IsAsked(jobs[i].req)
    /\ worker # Idle => IsAsked(worker.job.req) /\ UnitOf(worker.job.req) \in Unit
    /\ \A k \in Unit : channel[k].pub => channel[k].push \in Url

NodeInv == TypeOK /\ AskedInOrder /\ InFlight

(* Sent counts the numbers in use, which are the first ones.                *)
LEMMA SentCounts ==
    ASSUME AskedInOrder, NEW u \in Users
    PROVE  /\ Sent(u) \in 0..MaxSent
           /\ \A n \in 1..MaxSent : IsAsked(<<u, n>>) <=> n <= Sent(u)
<1>1. PICK m \in 0..MaxSent :
          \A n \in 1..MaxSent : IsAsked(<<u, n>>) <=> n <= m
  BY DEF AskedInOrder
<1>2. {n \in 1..MaxSent : IsAsked(<<u, n>>)} = 1..m
  BY <1>1, NodeAssumption
<1>3. Cardinality(1..m) = m
  BY <1>1, NodeAssumption, FS_Interval
<1>4. Sent(u) = m
  BY <1>2, <1>3 DEF Sent
<1>5. QED
  BY <1>1, <1>4

(* A new request takes a number that was not used, and leaves the others.   *)
LEMMA AskIsNew ==
    ASSUME TypeOK, AskedInOrder, NEW u \in Users,
           NEW kind \in {"setup", "exit", "taskinfo", "pause", "inference"},
           NEW unit \in Unit \cup {NoUnit},
           Ask(u, kind, unit)
    PROVE  /\ <<u, Sent(u) + 1>> \in Request
           /\ asked' \in [Request -> {Unasked} \cup Question]
           /\ asked'[<<u, Sent(u) + 1>>] # Unasked
           /\ asked'[<<u, Sent(u) + 1>>].unit = unit
           /\ \A r \in Request : asked[r] # Unasked => asked'[r] = asked[r]
           /\ AskedInOrder'
<1> DEFINE s == Sent(u) + 1
           q == [kind |-> kind, from |-> <<u, conn[u]>>, unit |-> unit]
<1>1. /\ Sent(u) \in 0..MaxSent
      /\ \A n \in 1..MaxSent : IsAsked(<<u, n>>) <=> n <= Sent(u)
  BY SentCounts
<1>2. s \in 1..MaxSent /\ <<u, s>> \in Request
  BY <1>1, NodeAssumption DEF Ask, Request
<1>3. q \in Question /\ q # Unasked
  BY DEF TypeOK, Question, Url, Unasked
<1>4. asked' = [asked EXCEPT ![<<u, s>>] = q]
  BY DEF Ask
<1>5. asked' \in [Request -> {Unasked} \cup Question]
  BY <1>2, <1>3, <1>4 DEF TypeOK
<1>6. asked'[<<u, s>>] = q
  BY <1>2, <1>4 DEF TypeOK
<1>7. \A r \in Request : r # <<u, s>> => asked'[r] = asked[r]
  BY <1>4 DEF TypeOK
<1>8. asked[<<u, s>>] = Unasked
  BY <1>1, <1>2, NodeAssumption DEF IsAsked
<1>9. ASSUME NEW v \in Users
      PROVE  \E m \in 0..MaxSent :
                \A n \in 1..MaxSent : asked'[<<v, n>>] # Unasked <=> n <= m
  <2>1. PICK m \in 0..MaxSent :
            \A n \in 1..MaxSent : asked[<<v, n>>] # Unasked <=> n <= m
    BY DEF AskedInOrder, IsAsked
  <2>2. CASE v # u
    <3>1. \A n \in 1..MaxSent : asked'[<<v, n>>] = asked[<<v, n>>]
      BY <1>7, <2>2 DEF Request
    <3>2. QED
      BY <2>1, <3>1
  <2>3. CASE v = u
    <3>1. \A n \in 1..MaxSent : n # s => asked'[<<u, n>>] = asked[<<u, n>>]
      BY <1>7 DEF Request
    <3>2. \A n \in 1..MaxSent : asked'[<<u, n>>] # Unasked <=> n <= s
      BY <1>1, <1>2, <1>3, <1>6, <3>1, NodeAssumption DEF IsAsked
    <3>3. s \in 0..MaxSent
      BY <1>2
    <3>4. QED
      BY <2>3, <3>2, <3>3
  <2>4. QED
    BY <2>2, <2>3
<1>10. AskedInOrder'
  BY <1>9 DEF AskedInOrder, IsAsked
<1>11. QED
  BY <1>2, <1>3, <1>5, <1>6, <1>7, <1>8, <1>10
------------------------------------------------------------------------------
(* The channel.                                                             *)

(* set_push_url changes the PUSH socket only.                               *)
LEMMA RedirectOnly ==
    ASSUME NEW c \in Channel, NEW url \in Url
    PROVE  /\ Redirect(c, url) \in Channel
           /\ Redirect(c, url).push = url
           /\ Redirect(c, url).pub = c.pub
  BY DEF Redirect, Channel

(* A message sent to a channel leaves its sockets in place.                 *)
LEMMA SendKeepsSockets ==
    ASSUME TypeOK, NEW k \in Unit, NEW r \in Request,
           channel[k].pub => channel[k].push \in Url,
           ChannelSend(k, r)
    PROVE  /\ replies' \in [Request -> Seq(Line)]
           /\ channel' \in [Unit -> Channel]
           /\ crashed' \in BOOLEAN
           /\ \A j \in Unit : /\ channel'[j].pub = channel[j].pub
                              /\ channel'[j].push = channel[j].push
<1>1. CASE ~channel[k].pub
  BY <1>1 DEF ChannelSend, TypeOK
<1>2. CASE channel[k].pub /\ Open(channel[k].push)
  <2>1. [to |-> channel[k].push, label |-> channel[k].label] \in Line
    BY <1>2 DEF Line, Channel, TypeOK
  <2>2. Append(replies[r], [to |-> channel[k].push, label |-> channel[k].label])
            \in Seq(Line)
    BY <2>1 DEF TypeOK
  <2>3. replies' = [replies EXCEPT ![r] =
            Append(@, [to |-> channel[k].push, label |-> channel[k].label])]
    BY <1>2 DEF ChannelSend, Arrives
  <2>4. replies' \in [Request -> Seq(Line)]
    BY <2>2, <2>3 DEF TypeOK
  <2>5. QED
    BY <1>2, <2>4 DEF ChannelSend, TypeOK
<1>3. CASE channel[k].pub /\ ~Open(channel[k].push)
  <2>1. channel' = [channel EXCEPT ![k].held = TRUE]
    BY <1>3 DEF ChannelSend
  <2>2. /\ [channel[k] EXCEPT !.held = TRUE] \in Channel
        /\ [channel[k] EXCEPT !.held = TRUE].pub = channel[k].pub
        /\ [channel[k] EXCEPT !.held = TRUE].push = channel[k].push
    BY DEF Channel, TypeOK
  <2>3. /\ channel' \in [Unit -> Channel]
        /\ \A j \in Unit : /\ channel'[j].pub = channel[j].pub
                           /\ channel'[j].push = channel[j].push
    BY <2>1, <2>2 DEF TypeOK
  <2>4. QED
    BY <1>3, <2>3 DEF ChannelSend, TypeOK
<1>4. QED
  BY <1>1, <1>2, <1>3

(* exit and taskinfo: the channel has the caller's URL, or waits for its    *)
(* old socket.                                                              *)
LEMMA PointedToCaller ==
    ASSUME TypeOK, NEW r \in Request, asked[r] # Unasked,
           NEW next \in {"stop", "unknown", "list"}, PointToCaller(r, next)
    PROVE  /\ ev' \in EventStep
           /\ ev'.step \in {next, "blocked"}
           /\ ev'.req = r /\ ev'.unit = UnitOf(r)
           /\ channel' \in [Unit -> Channel]
           /\ \A j \in Unit : /\ channel'[j].pub = channel[j].pub
                              /\ channel'[j].push \in {channel[j].push, From(r)}
           /\ From(r) \in Url
<1>1. /\ From(r) \in Url
      /\ UnitOf(r) \in Unit \cup {NoUnit}
  BY DEF TypeOK, Question, From, UnitOf
<1>2. ev' \in EventStep /\ ev'.step \in {next, "blocked"}
      /\ ev'.req = r /\ ev'.unit = UnitOf(r)
  BY <1>1 DEF PointToCaller, EventStep
<1>3. CASE UNCHANGED channel
  BY <1>1, <1>2, <1>3 DEF TypeOK
<1>4. CASE UnitOf(r) \in mapped
           /\ channel' = [channel EXCEPT ![UnitOf(r)] = Redirect(@, From(r))]
  <2>1. UnitOf(r) \in Unit /\ channel[UnitOf(r)] \in Channel
    BY <1>4 DEF TypeOK
  <2>2. Redirect(channel[UnitOf(r)], From(r)) \in Channel
    BY <1>1, <2>1, RedirectOnly
  <2>3. \A j \in Unit : /\ channel'[j].pub = channel[j].pub
                        /\ channel'[j].push \in {channel[j].push, From(r)}
    BY <1>1, <1>4, <2>1, RedirectOnly DEF TypeOK
  <2>4. QED
    BY <1>1, <1>2, <1>4, <2>1, <2>2, <2>3 DEF TypeOK
<1>5. QED
  BY <1>3, <1>4 DEF PointToCaller

------------------------------------------------------------------------------
(* Type correctness.                                                        *)

LEMMA TypeInit == Init => TypeOK
<1> SUFFICES ASSUME Init
             PROVE  TypeOK
  OBVIOUS
<1>1. NoChannel \in Channel
  BY DEF NoChannel, Channel, Label
<1>2. conn \in [Users -> 1..MaxConn]
  BY NodeAssumption DEF Init
<1>3. <<>> \in Seq(Line) /\ <<>> \in Seq(Request) /\ <<>> \in Seq(Job)
  OBVIOUS
<1>4. Len(jobs) <= MaxQueue /\ units \in 0..MaxUnit
  BY NodeAssumption DEF Init
<1>5. QED
  BY <1>1, <1>2, <1>3, <1>4 DEF Init, TypeOK

(* A user's step keeps the types.                                           *)
LEMMA TypeUser ==
    ASSUME NodeInv, NEW u \in Users, UserStep(u)
    PROVE  TypeOK'
<1> USE DEF NodeInv, TypeOK
<1>1. ASSUME NEW kind \in {"setup", "exit", "taskinfo", "pause"}, AskEvent(u, kind)
      PROVE  TypeOK'
  <2>1. Ask(u, kind, work[u]) /\ work[u] \in Unit \cup {NoUnit}
    BY <1>1 DEF AskEvent
  <2>2. <<u, Sent(u) + 1>> \in Request /\ asked' \in [Request -> {Unasked} \cup Question]
    BY <2>1, AskIsNew
  <2>3. events' \in Seq(Request)
    BY <1>1, <2>2 DEF AskEvent
  <2>4. QED
    BY <1>1, <2>2, <2>3 DEF AskEvent, registryVars, tables, subVars, workerVars
<1>2. ASSUME AskInference(u)
      PROVE  TypeOK'
  <2>1. Ask(u, "inference", work[u]) /\ work[u] \in Unit
    BY <1>2 DEF AskInference
  <2>2. <<u, Sent(u) + 1>> \in Request /\ asked' \in [Request -> {Unasked} \cup Question]
    BY <2>1, AskIsNew
  <2>3. inbox' \in [Unit -> Seq(Request)]
    BY <1>2, <2>1, <2>2 DEF AskInference
  <2>4. QED
    BY <1>2, <2>2, <2>3 DEF AskInference, registryVars, tables, workerVars
<1>3. ASSUME Reconnect(u)
      PROVE  TypeOK'
  <2>1. conn' \in [Users -> 1..MaxConn]
    BY <1>3, NodeAssumption DEF Reconnect
  <2>2. QED
    BY <1>3, <2>1 DEF Reconnect, registryVars, tables, subVars, workerVars
<1>4. QED
  BY <1>1, <1>2, <1>3 DEF UserStep

(* The request the event thread takes was asked, if it has a kind.          *)
LEMMA Dequeued ==
    ASSUME TypeOK, NEW r \in Request, Dequeue(r)
    PROVE  /\ events' \in Seq(Request)
           /\ Kind(r) \in {"setup", "exit", "taskinfo", "pause", "inference"}
                  => asked[r] # Unasked /\ asked[r] \in Question
<1>1. events' \in Seq(Request)
  BY DEF Dequeue, TypeOK
<1>2. asked[r] \in {Unasked} \cup Question
  BY DEF TypeOK
<1>3. QED
  BY <1>1, <1>2 DEF Kind, Unasked

(* The event thread at work holds a request.                                *)
LEMMA EventAtWork ==
    ASSUME TypeOK, ev.step # "idle"
    PROVE  /\ ev \in EventStep /\ ev # Idle
           /\ \A s \in {"admit", "answer", "refuse", "stop", "unknown", "list",
                        "release", "blocked"} :
                 [ev EXCEPT !.step = s] \in EventStep
<1>1. ev \in EventStep
  BY DEF TypeOK, Idle
<1>2. QED
  BY <1>1 DEF EventStep, Idle

(* The channel updates of a session's life.                                 *)
LEMMA ChannelUpdates ==
    ASSUME NEW c \in Channel
    PROVE  /\ [c EXCEPT !.link = "joining"] \in Channel
           /\ [c EXCEPT !.link = "joined"] \in Channel
           /\ [c EXCEPT !.pub = FALSE, !.push = NoUrl, !.link = "none"] \in Channel
           /\ \A l \in Label : [c EXCEPT !.label = l] \in Channel
<1>1. [c EXCEPT !.link = "joining"] \in Channel
  BY DEF Channel
<1>2. [c EXCEPT !.link = "joined"] \in Channel
  BY DEF Channel
<1>3. [c EXCEPT !.pub = FALSE, !.push = NoUrl, !.link = "none"] \in Channel
  BY DEF Channel
<1>4. \A l \in Label : [c EXCEPT !.label = l] \in Channel
  BY DEF Channel
<1>5. QED
  BY <1>1, <1>2, <1>3, <1>4

(* A step of the event thread keeps the types.                              *)
LEMMA TypeEvent ==
    ASSUME NodeInv, EventThread
    PROVE  TypeOK'
<1> USE DEF NodeInv, TypeOK, userVars, tables, registryVars, subVars, workerVars
<1>0. Idle \in {Idle} \cup EventStep
  OBVIOUS
<1>1. ASSUME NEW r \in Request, SetupBegin(r)
      PROVE  TypeOK'
  <2>1. /\ units + 1 \in Unit /\ units + 1 \in 0..MaxUnit
        /\ units + 1 \in Unit \cup {NoUnit}
    BY <1>1, NodeAssumption DEF SetupBegin, Unit
  <2>2. events' \in Seq(Request) /\ asked[r] \in Question
    BY <1>1, Dequeued DEF SetupBegin
  <2>3. [push |-> From(r), held |-> FALSE, label |-> r, pub |-> TRUE,
         link |-> "none"] \in Channel
    BY <2>2 DEF Channel, Question, From, Label
  <2>4. channel' \in [Unit -> Channel]
    BY <1>1, <2>3 DEF SetupBegin
  <2>5. ev' \in EventStep
    BY <1>1, <2>1 DEF SetupBegin, EventStep
  <2>6. /\ registered' \in SUBSET Unit /\ mapped' \in SUBSET Unit
        /\ units' \in 0..MaxUnit
    BY <1>1, <2>1 DEF SetupBegin
  <2>7. QED
    BY <1>1, <2>2, <2>4, <2>5, <2>6 DEF SetupBegin
<1>2. ASSUME SetupRefuse
      PROVE  TypeOK'
  <2>1. ev' \in EventStep
    BY <1>2, EventAtWork DEF SetupRefuse
  <2>2. QED
    BY <1>2, <2>1 DEF SetupRefuse
<1>3. ASSUME SetupAccept
      PROVE  TypeOK'
  <2>1. ev.unit \in Unit
    BY <1>3 DEF SetupAccept, InFlight
  <2>2. ev' \in EventStep
    BY <1>3, EventAtWork DEF SetupAccept
  <2>3. [channel[ev.unit] EXCEPT !.link = "joining"] \in Channel
    BY <2>1, ChannelUpdates
  <2>4. channel' \in [Unit -> Channel]
    BY <1>3, <2>3 DEF SetupAccept
  <2>5. tasks' \in SUBSET Unit
    BY <1>3, <2>1 DEF SetupAccept
  <2>6. QED
    BY <1>3, <2>2, <2>4, <2>5 DEF SetupAccept
<1>4. ASSUME NEW r \in Request, ExitBegin(r)
      PROVE  TypeOK'
  <2>1. events' \in Seq(Request) /\ asked[r] # Unasked
    BY <1>4, Dequeued DEF ExitBegin
  <2>2. PICK next \in {"stop", "unknown"} : PointToCaller(r, next)
    BY <1>4 DEF ExitBegin
  <2>3. ev' \in EventStep /\ channel' \in [Unit -> Channel]
    BY <2>1, <2>2, PointedToCaller
  <2>4. tasks' \in SUBSET Unit
    BY <1>4 DEF ExitBegin
  <2>5. QED
    BY <1>4, <2>1, <2>3, <2>4 DEF ExitBegin
<1>5. ASSUME NEW r \in Request, TaskInfo(r)
      PROVE  TypeOK'
  <2>1. events' \in Seq(Request) /\ asked[r] # Unasked
    BY <1>5, Dequeued DEF TaskInfo
  <2>2. ev' \in EventStep /\ channel' \in [Unit -> Channel]
    BY <1>5, <2>1, PointedToCaller DEF TaskInfo
  <2>3. QED
    BY <1>5, <2>1, <2>2 DEF TaskInfo
<1>6. ASSUME NEW r \in Request, Pause(r)
      PROVE  TypeOK'
  <2>1. events' \in Seq(Request)
    BY <1>6, Dequeued DEF Pause
  <2>2. ev' \in EventStep
    BY <1>6 DEF Pause, EventStep
  <2>3. QED
    BY <1>6, <2>1, <2>2 DEF Pause
<1>7. ASSUME ExitStop
      PROVE  TypeOK'
  <2>1. ev.unit \in Unit
    BY <1>7 DEF ExitStop, InFlight
  <2>2. ev' \in EventStep
    BY <1>7, EventAtWork DEF ExitStop
  <2>3. [channel[ev.unit] EXCEPT !.pub = FALSE, !.push = NoUrl, !.link = "none"]
            \in Channel
    BY <2>1, ChannelUpdates
  <2>4. channel' = [channel EXCEPT ![ev.unit] =
            [@ EXCEPT !.pub = FALSE, !.push = NoUrl, !.link = "none"]]
    BY <1>7, <2>1 DEF ExitStop, Channel
  <2>5. channel' \in [Unit -> Channel]
    BY <2>3, <2>4
  <2>6. inbox' \in [Unit -> Seq(Request)]
    <3>1. inbox' = [inbox EXCEPT ![ev.unit] = <<>>] /\ <<>> \in Seq(Request)
      BY <1>7 DEF ExitStop
    <3>2. QED
      BY <2>1, <3>1
  <2>7. QED
    BY <1>7, <2>2, <2>5, <2>6 DEF ExitStop
<1>8. ASSUME Answer
      PROVE  TypeOK'
  <2>1. /\ ev \in EventStep /\ ev # Idle
        /\ ev.req \in Request /\ ev.unit \in Unit \cup {NoUnit}
        /\ asked[ev.req] \in Question
    BY <1>8 DEF Answer, Idle, EventStep, InFlight, IsAsked
  <2>2. PICK l \in Label :
            l = IF Kind(ev.req) = "pause" THEN NoLabel ELSE ev.req
    BY <2>1 DEF Label
  <2>3. [to |-> From(ev.req), label |-> l] \in Line
    BY <2>1 DEF Line, Question, From
  <2>4. Append(replies[ev.req], [to |-> From(ev.req), label |-> l]) \in Seq(Line)
    BY <2>1, <2>3
  <2>5. replies' \in [Request -> Seq(Line)]
    BY <1>8, <2>1, <2>2, <2>4 DEF Answer, Arrives
  <2>6. /\ [ev EXCEPT !.step = "release"] \in EventStep
        /\ [ev EXCEPT !.step = "blocked"] \in EventStep
    BY <2>1 DEF EventStep
  <2>7. ev' \in {Idle} \cup EventStep
    BY <1>8, <2>6 DEF Answer
  <2>8. work' \in [Users -> Unit \cup {NoUnit}]
    BY <1>8, <2>1 DEF Answer
  <2>9. QED
    BY <1>8, <2>5, <2>7, <2>8 DEF Answer
<1>9. ASSUME Release
      PROVE  TypeOK'
  <2>1. registered' \in SUBSET Unit /\ mapped' \in SUBSET Unit
    BY <1>9 DEF Release, Released
  <2>2. QED
    BY <1>9, <2>1 DEF Release
<1>10. QED
  BY <1>1, <1>2, <1>3, <1>4, <1>5, <1>6, <1>7, <1>8, <1>9 DEF EventThread

(* A step of a SUB thread keeps the types.                                  *)
LEMMA TypeSub ==
    ASSUME NodeInv, NEW k \in Unit, SubThread(k)
    PROVE  TypeOK'
<1> USE DEF NodeInv, TypeOK, userVars, tables, registryVars, subVars, workerVars
<1>0. channel[k] \in Channel
  OBVIOUS
<1>1. ASSUME Join(k)
      PROVE  TypeOK'
  <2>1. [channel[k] EXCEPT !.link = "joined"] \in Channel
    BY <1>0, ChannelUpdates
  <2>2. channel' \in [Unit -> Channel]
    BY <1>1, <2>1 DEF Join
  <2>3. QED
    BY <1>1, <2>2 DEF Join
<1>2. ASSUME SubTake(k)
      PROVE  TypeOK'
  <2> DEFINE r == Head(inbox[k])
  <2>1. /\ r \in Request /\ IsAsked(r)
        /\ Tail(inbox[k]) \in Seq(Request)
    <3>1. inbox[k] \in Seq(Request) /\ inbox[k] # <<>>
      BY <1>2 DEF SubTake
    <3>2. 1 \in 1..Len(inbox[k]) /\ r = inbox[k][1]
      BY <3>1
    <3>3. IsAsked(r)
      BY <3>2 DEF InFlight
    <3>4. QED
      BY <3>1, <3>3
  <2>2. From(r) \in Url /\ r \in Label
    BY <2>1 DEF IsAsked, From, Question, Label
  <2>3. inbox' \in [Unit -> Seq(Request)]
    BY <1>2, <2>1 DEF SubTake
  <2>4. /\ [step |-> "blocked", req |-> r] \in SubStep
        /\ [step |-> "dispatch", req |-> r] \in SubStep
    BY <2>1 DEF SubStep
  <2>5. sub' \in [Unit -> {Idle} \cup SubStep]
    BY <1>2, <2>4 DEF SubTake
  <2>6. TakeOver(channel[k], r) \in Channel
    BY <1>0, <2>2, RedirectOnly, ChannelUpdates DEF TakeOver
  <2>7. channel' \in [Unit -> Channel]
    BY <1>2, <2>6 DEF SubTake
  <2>8. QED
    BY <1>2, <2>3, <2>5, <2>7 DEF SubTake
<1>3. ASSUME SubDispatch(k)
      PROVE  TypeOK'
  <2>1. sub[k] \in SubStep /\ sub[k].req \in Request
    BY <1>3 DEF SubDispatch, Idle, SubStep
  <2>2. sub' \in [Unit -> {Idle} \cup SubStep]
    BY <1>3 DEF SubDispatch
  <2>3. CASE UNCHANGED <<jobs, replies, channel, crashed>>
    BY <1>3, <2>2, <2>3 DEF SubDispatch
  <2>4. CASE /\ HasRoom
             /\ jobs' = Append(jobs, [req |-> sub[k].req, label |-> channel[k].label])
             /\ UNCHANGED <<replies, channel, crashed>>
    <3>1. [req |-> sub[k].req, label |-> channel[k].label] \in Job
      BY <1>0, <2>1 DEF Job, Channel
    <3>2. jobs' \in Seq(Job) /\ Len(jobs') = Len(jobs) + 1
      BY <2>4, <3>1
    <3>3. Len(jobs') <= MaxQueue
      BY <2>4, <3>2, NodeAssumption DEF HasRoom
    <3>4. QED
      BY <1>3, <2>2, <2>4, <3>2, <3>3 DEF SubDispatch
  <2>5. CASE ChannelSend(k, sub[k].req) /\ UNCHANGED jobs
    <3>1. /\ replies' \in [Request -> Seq(Line)]
          /\ channel' \in [Unit -> Channel]
          /\ crashed' \in BOOLEAN
      BY <2>1, <2>5, SendKeepsSockets DEF InFlight
    <3>2. QED
      BY <1>3, <2>2, <2>5, <3>1 DEF SubDispatch
  <2>6. QED
    BY <1>3, <2>3, <2>4, <2>5 DEF SubDispatch, RefuseJob
<1>4. QED
  BY <1>1, <1>2, <1>3 DEF SubThread

(* The worker at work holds a job of a unit.                                *)
LEMMA WorkerAtWork ==
    ASSUME NodeInv, worker.step \in {"run", "send"}
    PROVE  /\ worker \in WorkerStep /\ worker # Idle
           /\ worker.job \in Job /\ worker.job.req \in Request
           /\ UnitOf(worker.job.req) \in Unit
           /\ channel[UnitOf(worker.job.req)] \in Channel
<1>1. worker \in WorkerStep /\ worker # Idle
  BY DEF NodeInv, TypeOK, Idle
<1>2. worker.job \in Job /\ worker.job.req \in Request
  BY <1>1 DEF WorkerStep, Job
<1>3. UnitOf(worker.job.req) \in Unit
  BY <1>1 DEF NodeInv, InFlight
<1>4. QED
  BY <1>1, <1>2, <1>3 DEF NodeInv, TypeOK

(* A step of the worker keeps the types.                                    *)
LEMMA TypeWorker ==
    ASSUME NodeInv, Worker
    PROVE  TypeOK'
<1> USE DEF NodeInv, TypeOK, userVars, tables, registryVars, subVars
<1>1. ASSUME WorkerTake
      PROVE  TypeOK'
  <2> DEFINE job == Head(jobs)
             k   == UnitOf(job.req)
  <2>1. job \in Job /\ jobs' \in Seq(Job) /\ Len(jobs') <= MaxQueue
    BY <1>1, NodeAssumption DEF WorkerTake
  <2>2. CASE UNCHANGED <<worker, channel>>
    BY <1>1, <2>1, <2>2 DEF WorkerTake
  <2>3. CASE /\ k \in mapped
             /\ worker' = [step |-> "run", job |-> job]
             /\ channel' = [channel EXCEPT ![k] = LabelForJob(@, job)]
    <3>1. worker' \in WorkerStep
      BY <2>1, <2>3 DEF WorkerStep
    <3>2. k \in Unit /\ job.label \in Label
      BY <2>1, <2>3 DEF Job
    <3>3. LabelForJob(channel[k], job) \in Channel
      BY <3>2, ChannelUpdates DEF LabelForJob
    <3>4. channel' \in [Unit -> Channel]
      BY <2>3, <3>2, <3>3
    <3>5. QED
      BY <1>1, <2>1, <3>1, <3>4 DEF WorkerTake
  <2>4. QED
    BY <1>1, <2>2, <2>3 DEF WorkerTake
<1>2. ASSUME WorkerRun
      PROVE  TypeOK'
  <2>1. worker' \in WorkerStep
    BY <1>2, WorkerAtWork DEF WorkerRun, WorkerStep
  <2>2. LabelForJob(channel[UnitOf(worker.job.req)], worker.job) \in Channel
    BY <1>2, WorkerAtWork, ChannelUpdates DEF WorkerRun, LabelForJob, Job
  <2>3. channel' \in [Unit -> Channel]
    BY <1>2, <2>2 DEF WorkerRun
  <2>4. QED
    BY <1>2, <2>1, <2>3 DEF WorkerRun
<1>3. ASSUME WorkerSend
      PROVE  TypeOK'
  <2>1. /\ replies' \in [Request -> Seq(Line)]
        /\ channel' \in [Unit -> Channel]
        /\ crashed' \in BOOLEAN
    BY <1>3, WorkerAtWork, SendKeepsSockets DEF WorkerSend, InFlight
  <2>2. QED
    BY <1>3, <2>1 DEF WorkerSend, JobDone
<1>4. QED
  BY <1>1, <1>2, <1>3 DEF Worker

LEMMA TypeNext == NodeInv /\ [Next]_vars => TypeOK'
<1>1. ASSUME NodeInv, UNCHANGED vars
      PROVE  TypeOK'
  BY <1>1 DEF NodeInv, TypeOK, vars, userVars, registryVars, tables, subVars,
              workerVars
<1>2. QED
  BY <1>1, TypeUser, TypeEvent, TypeSub, TypeWorker DEF Next

------------------------------------------------------------------------------
(* Requests in flight.                                                      *)

(* Only users ask, and they ask in order.                                   *)
LEMMA OrderNext == NodeInv /\ [Next]_vars => AskedInOrder'
<1> SUFFICES ASSUME NodeInv, [Next]_vars
             PROVE  AskedInOrder'
  OBVIOUS
<1> USE DEF NodeInv
<1>1. CASE UNCHANGED asked
  BY <1>1 DEF AskedInOrder, IsAsked
<1>2. ASSUME NEW u \in Users, NEW kind \in {"setup", "exit", "taskinfo", "pause"},
             AskEvent(u, kind)
      PROVE  AskedInOrder'
  <2>1. Ask(u, kind, work[u]) /\ work[u] \in Unit \cup {NoUnit}
    BY <1>2 DEF AskEvent, TypeOK
  <2>2. QED
    BY <2>1, AskIsNew
<1>3. ASSUME NEW u \in Users, AskInference(u)
      PROVE  AskedInOrder'
  <2>1. Ask(u, "inference", work[u]) /\ work[u] \in Unit \cup {NoUnit}
    BY <1>3 DEF AskInference, TypeOK
  <2>2. QED
    BY <2>1, AskIsNew
<1>4. ASSUME NEW u \in Users, Reconnect(u)
      PROVE  UNCHANGED asked
  BY <1>4 DEF Reconnect
<1>5. EventThread => UNCHANGED asked
  BY DEF EventThread, SetupBegin, SetupRefuse, SetupAccept, ExitBegin, TaskInfo,
         Pause, ExitStop, Answer, Release, userVars
<1>6. ASSUME NEW k \in Unit, SubThread(k)
      PROVE  UNCHANGED asked
  BY <1>6 DEF SubThread, Join, SubTake, SubDispatch, userVars
<1>7. Worker => UNCHANGED asked
  BY DEF Worker, WorkerTake, WorkerRun, WorkerSend, userVars
<1>8. UNCHANGED vars => UNCHANGED asked
  BY DEF vars, userVars
<1>9. QED
  BY <1>1, <1>2, <1>3, <1>4, <1>5, <1>6, <1>7, <1>8 DEF Next, UserStep

(* What is in flight are requests, whatever holds them.                     *)
LEMMA InFlightTypes ==
    ASSUME TypeOK
    PROVE  /\ ev # Idle => ev.req \in Request
           /\ \A k \in Unit : \A i \in 1..Len(inbox[k]) : inbox[k][i] \in Request
           /\ \A k \in Unit : sub[k] # Idle => sub[k].req \in Request
           /\ \A i \in 1..Len(jobs) : jobs[i].req \in Request
           /\ worker # Idle => worker.job.req \in Request
<1>1. ev # Idle => ev.req \in Request
  BY DEF TypeOK, EventStep
<1>2. \A k \in Unit : \A i \in 1..Len(inbox[k]) : inbox[k][i] \in Request
  BY DEF TypeOK
<1>3. \A k \in Unit : sub[k] # Idle => sub[k].req \in Request
  BY DEF TypeOK, SubStep
<1>4. \A i \in 1..Len(jobs) : jobs[i] \in Job
  BY DEF TypeOK
<1>5. \A i \in 1..Len(jobs) : jobs[i].req \in Request
  BY <1>4 DEF Job
<1>6. worker # Idle => worker.job.req \in Request
  BY DEF TypeOK, WorkerStep, Job
<1>7. QED
  BY <1>1, <1>2, <1>3, <1>5, <1>6

(* A request that is asked stays as it is, so whatever a user does, what is *)
(* in flight was asked, if what the user adds to an inbox was.              *)
LEMMA UserInFlight ==
    ASSUME NodeInv,
           \A r \in Request : asked[r] # Unasked => asked'[r] = asked[r],
           \A k \in Unit : \A i \in 1..Len(inbox'[k]) :
               \/ i \in 1..Len(inbox[k]) /\ inbox'[k][i] = inbox[k][i]
               \/ asked'[inbox'[k][i]] # Unasked,
           UNCHANGED <<ev, sub, jobs, worker, channel>>
    PROVE  InFlight'
<1> USE DEF NodeInv, IsAsked
<1>0. /\ ev # Idle => ev.req \in Request
      /\ \A k \in Unit : \A i \in 1..Len(inbox[k]) : inbox[k][i] \in Request
      /\ \A k \in Unit : sub[k] # Idle => sub[k].req \in Request
      /\ \A i \in 1..Len(jobs) : jobs[i].req \in Request
      /\ worker # Idle => worker.job.req \in Request
  BY InFlightTypes
<1>1. (ev # Idle => IsAsked(ev.req))'
  BY <1>0 DEF InFlight
<1>2. (ev.step \in {"admit", "stop"} => ev.unit \in Unit)'
  BY DEF InFlight
<1>3. (\A k \in Unit : \A i \in 1..Len(inbox[k]) : IsAsked(inbox[k][i]))'
  BY <1>0 DEF InFlight
<1>4. (\A k \in Unit : sub[k] # Idle => IsAsked(sub[k].req))'
  BY <1>0 DEF InFlight
<1>5. (\A i \in 1..Len(jobs) : IsAsked(jobs[i].req))'
  BY <1>0 DEF InFlight
<1>6. (worker # Idle => IsAsked(worker.job.req) /\ UnitOf(worker.job.req) \in Unit)'
  BY <1>0 DEF InFlight, UnitOf
<1>7. (\A k \in Unit : channel[k].pub => channel[k].push \in Url)'
  BY DEF InFlight
<1>8. QED
  BY <1>1, <1>2, <1>3, <1>4, <1>5, <1>6, <1>7 DEF InFlight

(* The event thread works on requests that were asked.                      *)
LEMMA EventInFlight ==
    ASSUME NodeInv, EventThread
    PROVE  InFlight'
<1> USE DEF NodeInv, userVars, subVars, workerVars
<1>0. UNCHANGED <<asked, sub, jobs, worker>>
  BY DEF EventThread, SetupBegin, SetupRefuse, SetupAccept, ExitBegin, TaskInfo,
         Pause, ExitStop, Answer, Release
<1>1. ASSUME /\ ev' # Idle => IsAsked(ev'.req)
             /\ ev'.step \in {"admit", "stop"} => ev'.unit \in Unit
             /\ \A k \in Unit : inbox'[k] \in {<<>>, inbox[k]}
             /\ \A k \in Unit : channel'[k].pub => channel'[k].push \in Url
      PROVE  InFlight'
  <2>1. \A k \in Unit : \A i \in 1..Len(inbox'[k]) :
            i \in 1..Len(inbox[k]) /\ inbox'[k][i] = inbox[k][i]
    <3>1. \A i : i \notin 1..0
      OBVIOUS
    <3>2. Len(<<>>) = 0
      OBVIOUS
    <3>3. QED
      BY <1>1, <3>1, <3>2
  <2>2. QED
    BY <1>0, <1>1, <2>1 DEF InFlight, IsAsked, UnitOf
<1>2. ASSUME NEW r \in Request, SetupBegin(r)
      PROVE  InFlight'
  <2>1. asked[r] # Unasked /\ asked[r] \in Question /\ From(r) \in Url
    BY <1>2, Dequeued DEF SetupBegin, Question, From
  <2>2. units + 1 \in Unit
    BY <1>2, NodeAssumption DEF SetupBegin, Unit, TypeOK
  <2>3. \A k \in Unit : channel'[k].pub => channel'[k].push \in Url
    BY <1>2, <2>1, <2>2 DEF SetupBegin, InFlight, TypeOK
  <2>4. QED
    BY <1>1, <1>2, <2>1, <2>2, <2>3 DEF SetupBegin, IsAsked
<1>3. ASSUME SetupRefuse
      PROVE  InFlight'
  <2>1. ev' = [ev EXCEPT !.step = "refuse"] /\ ev \in EventStep /\ ev # Idle
    BY <1>3, EventAtWork DEF SetupRefuse
  <2>2. ev'.req = ev.req /\ ev'.step = "refuse"
    BY <2>1 DEF EventStep
  <2>3. QED
    BY <1>1, <1>3, <2>1, <2>2 DEF SetupRefuse, InFlight
<1>4. ASSUME SetupAccept
      PROVE  InFlight'
  <2>1. ev' = [ev EXCEPT !.step = "answer"] /\ ev \in EventStep /\ ev # Idle
    BY <1>4, EventAtWork DEF SetupAccept
  <2>2. ev'.req = ev.req /\ ev'.step = "answer"
    BY <2>1 DEF EventStep
  <2>3. \A k \in Unit : /\ channel'[k].pub = channel[k].pub
                        /\ channel'[k].push = channel[k].push
    BY <1>4 DEF SetupAccept, TypeOK, Channel
  <2>4. QED
    BY <1>1, <1>4, <2>1, <2>2, <2>3 DEF SetupAccept, InFlight
<1>5. ASSUME NEW r \in Request, ExitBegin(r)
      PROVE  InFlight'
  <2>1. asked[r] # Unasked
    BY <1>5, Dequeued DEF ExitBegin
  <2>2. PICK next \in {"stop", "unknown"} :
            /\ PointToCaller(r, next)
            /\ next = IF UnitOf(r) \in tasks THEN "stop" ELSE "unknown"
    BY <1>5 DEF ExitBegin
  <2>3. /\ ev'.step \in {next, "blocked"}
        /\ ev'.req = r /\ ev'.unit = UnitOf(r)
        /\ \A j \in Unit : /\ channel'[j].pub = channel[j].pub
                           /\ channel'[j].push \in {channel[j].push, From(r)}
        /\ From(r) \in Url
    BY <2>1, <2>2, PointedToCaller
  <2>4. ev'.step \in {"admit", "stop"} => ev'.unit \in Unit
    BY <2>2, <2>3 DEF TypeOK
  <2>5. QED
    BY <1>1, <1>5, <2>1, <2>3, <2>4 DEF ExitBegin, InFlight, IsAsked
<1>6. ASSUME NEW r \in Request, TaskInfo(r)
      PROVE  InFlight'
  <2>1. asked[r] # Unasked
    BY <1>6, Dequeued DEF TaskInfo
  <2>2. /\ ev'.step \in {"list", "blocked"}
        /\ ev'.req = r
        /\ \A j \in Unit : /\ channel'[j].pub = channel[j].pub
                           /\ channel'[j].push \in {channel[j].push, From(r)}
        /\ From(r) \in Url
    BY <1>6, <2>1, PointedToCaller DEF TaskInfo
  <2>3. QED
    BY <1>1, <1>6, <2>1, <2>2 DEF TaskInfo, InFlight, IsAsked
<1>7. ASSUME NEW r \in Request, Pause(r)
      PROVE  InFlight'
  <2>1. asked[r] # Unasked
    BY <1>7, Dequeued DEF Pause
  <2>2. QED
    BY <1>1, <1>7, <2>1 DEF Pause, InFlight, IsAsked
<1>8. ASSUME ExitStop
      PROVE  InFlight'
  <2>1. ev' = [ev EXCEPT !.step = "answer"] /\ ev \in EventStep /\ ev # Idle
    BY <1>8, EventAtWork DEF ExitStop
  <2>2. ev'.req = ev.req /\ ev'.step = "answer"
    BY <2>1 DEF EventStep
  <2>3. channel' = [channel EXCEPT ![ev.unit].pub = FALSE,
                                   ![ev.unit].push = NoUrl,
                                   ![ev.unit].link = "none"]
    BY <1>8 DEF ExitStop
  <2>4. \A k \in Unit :
            k # ev.unit => channel'[k] = channel[k]
    BY <2>3 DEF TypeOK
  <2>5. ev.unit \in Unit => ~channel'[ev.unit].pub
    <3>1. SUFFICES ASSUME ev.unit \in Unit
                   PROVE  ~channel'[ev.unit].pub
      OBVIOUS
    <3>2. channel[ev.unit] \in Channel
      BY <3>1 DEF TypeOK
    <3>3. channel'[ev.unit] =
              [channel[ev.unit] EXCEPT !.pub = FALSE, !.push = NoUrl,
                                       !.link = "none"]
      BY <2>3, <3>1 DEF TypeOK
    <3>4. QED
      BY <3>2, <3>3 DEF Channel
  <2>6. \A k \in Unit : inbox'[k] \in {<<>>, inbox[k]}
    BY <1>8 DEF ExitStop, TypeOK
  <2>7. QED
    BY <1>1, <2>1, <2>2, <2>4, <2>5, <2>6 DEF InFlight
<1>9. ASSUME Answer
      PROVE  InFlight'
  <2>1. ev \in EventStep /\ ev # Idle
    BY <1>9, EventAtWork DEF Answer
  <2>2. /\ [ev EXCEPT !.step = "release"].req = ev.req
        /\ [ev EXCEPT !.step = "release"].step = "release"
        /\ [ev EXCEPT !.step = "blocked"].req = ev.req
        /\ [ev EXCEPT !.step = "blocked"].step = "blocked"
    BY <2>1 DEF EventStep
  <2>3. /\ ev' # Idle => ev'.req = ev.req
        /\ ev'.step \in {"idle", "release", "blocked"}
    <3>1. ev' \in {Idle, [ev EXCEPT !.step = "release"],
                  [ev EXCEPT !.step = "blocked"]}
      BY <1>9 DEF Answer
    <3>2. Idle.step = "idle"
      BY DEF Idle
    <3>3. QED
      BY <2>2, <3>1, <3>2
  <2>4. QED
    BY <1>1, <1>9, <2>1, <2>3 DEF Answer, InFlight
<1>10. ASSUME Release
       PROVE  InFlight'
  BY <1>1, <1>10 DEF Release, InFlight, Idle
<1>11. QED
  BY <1>2, <1>3, <1>4, <1>5, <1>6, <1>7, <1>8, <1>9, <1>10 DEF EventThread

(* The SUB threads take and push requests that were asked.                  *)
LEMMA SubInFlight ==
    ASSUME NodeInv, NEW k \in Unit, SubThread(k)
    PROVE  InFlight'
<1> USE DEF NodeInv, userVars, tables, registryVars, subVars, workerVars
<1>0. UNCHANGED <<asked, ev, worker>>
  BY DEF SubThread, Join, SubTake, SubDispatch
<1>1. ASSUME Join(k)
      PROVE  InFlight'
  <2>1. \A j \in Unit : /\ channel'[j].pub = channel[j].pub
                        /\ channel'[j].push = channel[j].push
    BY <1>1 DEF Join, TypeOK, Channel
  <2>2. QED
    BY <1>0, <1>1, <2>1 DEF Join, InFlight, IsAsked, UnitOf
<1>2. ASSUME SubTake(k)
      PROVE  InFlight'
  <2> DEFINE r == Head(inbox[k])
  <2>1. inbox[k] \in Seq(Request) /\ inbox[k] # <<>>
    BY <1>2 DEF SubTake, TypeOK
  <2>2. 1 \in 1..Len(inbox[k]) /\ r = inbox[k][1] /\ r \in Request
    BY <2>1
  <2>3. IsAsked(r)
    BY <2>2 DEF InFlight
  <2>4. From(r) \in Url
    BY <2>2, <2>3 DEF From, Question, IsAsked, TypeOK
  <2>5. \A j \in Unit : j # k => inbox'[j] = inbox[j] /\ sub'[j] = sub[j]
                                 /\ channel'[j] = channel[j]
    BY <1>2 DEF SubTake, TypeOK
  <2>6. inbox'[k] = Tail(inbox[k]) /\ sub'[k].req = r
    BY <1>2 DEF SubTake, TypeOK
  <2>7. channel'[k].pub => channel'[k].push \in Url
    <3>1. channel[k] \in Channel
      BY DEF TypeOK
    <3>2. Redirect(channel[k], From(r)) \in Channel
          /\ Redirect(channel[k], From(r)).push = From(r)
      BY <2>4, <3>1, RedirectOnly
    <3>3. TakeOver(channel[k], r).push = From(r)
      BY <3>2 DEF TakeOver, Channel
    <3>4. channel'[k] \in {channel[k], TakeOver(channel[k], r)}
      BY <1>2 DEF SubTake, TypeOK
    <3>5. QED
      BY <2>4, <3>3, <3>4 DEF InFlight
  <2>8. \A i \in 1..Len(inbox'[k]) : IsAsked(inbox'[k][i])
    <3>1. \A i \in 1..Len(inbox'[k]) :
              i + 1 \in 1..Len(inbox[k]) /\ inbox'[k][i] = inbox[k][i + 1]
      BY <2>1, <2>6
    <3>2. QED
      BY <3>1 DEF InFlight
  <2>9. (\A j \in Unit : \A i \in 1..Len(inbox[j]) : IsAsked(inbox[j][i]))'
    BY <1>0, <2>5, <2>8 DEF InFlight, IsAsked
  <2>10. (\A j \in Unit : sub[j] # Idle => IsAsked(sub[j].req))'
    BY <1>0, <2>3, <2>5, <2>6 DEF InFlight, IsAsked
  <2>11. (\A j \in Unit : channel[j].pub => channel[j].push \in Url)'
    BY <2>5, <2>7 DEF InFlight
  <2>12. UNCHANGED jobs
    BY <1>2 DEF SubTake
  <2>13. QED
    BY <1>0, <2>9, <2>10, <2>11, <2>12 DEF InFlight, IsAsked, UnitOf
<1>3. ASSUME SubDispatch(k)
      PROVE  InFlight'
  <2>1. sub[k] \in SubStep /\ sub[k].req \in Request /\ IsAsked(sub[k].req)
    BY <1>3 DEF SubDispatch, Idle, SubStep, TypeOK, InFlight
  <2>2. /\ \A j \in Unit : sub'[j] \in {sub[j], Idle}
        /\ UNCHANGED inbox
    BY <1>3 DEF SubDispatch, TypeOK
  <2>3. \A j \in Unit : /\ channel'[j].pub = channel[j].pub
                        /\ channel'[j].push = channel[j].push
    <3>1. CASE UNCHANGED channel
      BY <3>1
    <3>2. CASE ChannelSend(k, sub[k].req)
      BY <2>1, <3>2, SendKeepsSockets DEF InFlight
    <3>3. QED
      BY <1>3, <3>1, <3>2 DEF SubDispatch, RefuseJob
  <2>4. \A i \in 1..Len(jobs') : IsAsked(jobs'[i].req)
    <3>1. CASE UNCHANGED jobs
      BY <3>1 DEF InFlight
    <3>2. CASE jobs' = Append(jobs, [req |-> sub[k].req, label |-> channel[k].label])
      <4>1. jobs \in Seq(Job)
        BY DEF TypeOK
      <4>2. [req |-> sub[k].req, label |-> channel[k].label] \in Job
        BY <2>1 DEF Job, TypeOK, Channel
      <4>3. \A i \in 1..Len(jobs') :
                \/ i \in 1..Len(jobs) /\ jobs'[i] = jobs[i]
                \/ jobs'[i] = [req |-> sub[k].req, label |-> channel[k].label]
        BY <3>2, <4>1, <4>2
      <4>4. QED
        BY <2>1, <4>3 DEF InFlight
    <3>3. QED
      BY <1>3, <3>1, <3>2 DEF SubDispatch
  <2>5. QED
    BY <1>0, <2>2, <2>3, <2>4 DEF InFlight, IsAsked, UnitOf
<1>4. QED
  BY <1>1, <1>2, <1>3 DEF SubThread

(* The worker takes jobs of requests that were asked.                       *)
LEMMA WorkerInFlight ==
    ASSUME NodeInv, Worker
    PROVE  InFlight'
<1> USE DEF NodeInv, userVars, tables, registryVars, subVars
<1>0. UNCHANGED <<asked, ev, sub, inbox>>
  BY DEF Worker, WorkerTake, WorkerRun, WorkerSend
<1>1. ASSUME NEW k \in Unit, NEW l \in Label,
             channel' = [channel EXCEPT ![k].label = l]
      PROVE  \A j \in Unit : /\ channel'[j].pub = channel[j].pub
                            /\ channel'[j].push = channel[j].push
  <2>1. channel[k] \in Channel
    BY DEF TypeOK
  <2>2. /\ [channel[k] EXCEPT !.label = l].pub = channel[k].pub
        /\ [channel[k] EXCEPT !.label = l].push = channel[k].push
    BY <2>1 DEF Channel
  <2>3. channel' = [channel EXCEPT ![k] = [channel[k] EXCEPT !.label = l]]
    BY <1>1
  <2>4. QED
    BY <2>2, <2>3 DEF TypeOK
<1>2. ASSUME WorkerTake
      PROVE  InFlight'
  <2> DEFINE job == Head(jobs)
             k   == UnitOf(job.req)
  <2>1. /\ job \in Job /\ job = jobs[1] /\ 1 \in 1..Len(jobs)
        /\ \A i \in 1..Len(jobs') : /\ i + 1 \in 1..Len(jobs)
                                    /\ jobs'[i] = jobs[i + 1]
    BY <1>2 DEF WorkerTake, TypeOK
  <2>2. IsAsked(job.req)
    BY <2>1 DEF InFlight
  <2>3. \A i \in 1..Len(jobs') : IsAsked(jobs'[i].req)
    BY <2>1 DEF InFlight
  <2>4. CASE UNCHANGED <<worker, channel>>
    BY <1>0, <2>3, <2>4 DEF InFlight, IsAsked, UnitOf
  <2>5. CASE /\ k \in mapped
             /\ worker' = [step |-> "run", job |-> job]
             /\ channel' = [channel EXCEPT ![k] = LabelForJob(@, job)]
    <3>1. k \in Unit /\ job.label \in Label
      BY <2>1, <2>5 DEF TypeOK, Job
    <3>2. channel' = [channel EXCEPT ![k].label = job.label]
      BY <2>5 DEF LabelForJob
    <3>3. \A j \in Unit : /\ channel'[j].pub = channel[j].pub
                          /\ channel'[j].push = channel[j].push
      BY <1>1, <3>1, <3>2
    <3>4. worker'.job = job
      BY <2>5
    <3>5. (worker # Idle => IsAsked(worker.job.req) /\ UnitOf(worker.job.req) \in Unit)'
      BY <1>0, <2>2, <3>1, <3>4 DEF IsAsked, UnitOf
    <3>6. QED
      BY <1>0, <2>3, <3>3, <3>5 DEF InFlight, IsAsked
  <2>6. QED
    BY <1>2, <2>4, <2>5 DEF WorkerTake
<1>3. ASSUME WorkerRun
      PROVE  InFlight'
  <2>1. /\ worker \in WorkerStep /\ worker # Idle /\ worker.job \in Job
        /\ UnitOf(worker.job.req) \in Unit
    BY <1>3, WorkerAtWork DEF WorkerRun
  <2>2. worker'.job = worker.job
    BY <1>3, <2>1 DEF WorkerRun, WorkerStep
  <2>3. worker.job.label \in Label
    BY <2>1 DEF Job
  <2>4. \A j \in Unit : /\ channel'[j].pub = channel[j].pub
                        /\ channel'[j].push = channel[j].push
    <3>1. CASE UNCHANGED channel
      BY <3>1
    <3>2. CASE channel' = [channel EXCEPT ![UnitOf(worker.job.req)].label =
                               worker.job.label]
      BY <1>1, <2>1, <2>3, <3>2
    <3>3. QED
      BY <1>3, <3>1, <3>2 DEF WorkerRun, LabelForJob
  <2>5. UNCHANGED jobs
    BY <1>3 DEF WorkerRun
  <2>6. QED
    BY <1>0, <2>1, <2>2, <2>4, <2>5 DEF InFlight, IsAsked, UnitOf
<1>4. ASSUME WorkerSend
      PROVE  InFlight'
  <2>1. \A j \in Unit : /\ channel'[j].pub = channel[j].pub
                        /\ channel'[j].push = channel[j].push
    BY <1>4, WorkerAtWork, SendKeepsSockets DEF WorkerSend, InFlight
  <2>2. worker' = Idle /\ UNCHANGED jobs
    BY <1>4 DEF WorkerSend, JobDone
  <2>3. QED
    BY <1>0, <2>1, <2>2 DEF InFlight, IsAsked, UnitOf
<1>5. QED
  BY <1>2, <1>3, <1>4 DEF Worker

(* Whatever happens, what is in flight was asked.                           *)
LEMMA InFlightNext == NodeInv /\ [Next]_vars => InFlight'
<1> SUFFICES ASSUME NodeInv, [Next]_vars
             PROVE  InFlight'
  OBVIOUS
<1> USE DEF NodeInv
<1>1. ASSUME NEW u \in Users, NEW kind \in {"setup", "exit", "taskinfo", "pause"},
             AskEvent(u, kind)
      PROVE  InFlight'
  <2>1. Ask(u, kind, work[u]) /\ work[u] \in Unit \cup {NoUnit}
    BY <1>1 DEF AskEvent, TypeOK
  <2>2. \A r \in Request : asked[r] # Unasked => asked'[r] = asked[r]
    BY <2>1, AskIsNew
  <2>3. UNCHANGED <<ev, sub, jobs, worker, channel, inbox>>
    BY <1>1 DEF AskEvent, subVars, workerVars
  <2>4. QED
    BY <2>2, <2>3, UserInFlight
<1>2. ASSUME NEW u \in Users, AskInference(u)
      PROVE  InFlight'
  <2> DEFINE r == <<u, Sent(u) + 1>>
  <2>1. Ask(u, "inference", work[u]) /\ work[u] \in Unit
    BY <1>2 DEF AskInference, TypeOK
  <2>2. /\ \A q \in Request : asked[q] # Unasked => asked'[q] = asked[q]
        /\ r \in Request /\ asked'[r] # Unasked
    BY <2>1, AskIsNew
  <2>3. UNCHANGED <<ev, sub, jobs, worker, channel>>
    BY <1>2 DEF AskInference, workerVars
  <2>4. inbox' \in {inbox, [inbox EXCEPT ![work[u]] = Append(@, r)]}
    BY <1>2 DEF AskInference
  <2>5. ASSUME NEW k \in Unit, NEW i \in 1..Len(inbox'[k])
        PROVE  \/ i \in 1..Len(inbox[k]) /\ inbox'[k][i] = inbox[k][i]
               \/ asked'[inbox'[k][i]] # Unasked
    <3>1. inbox[k] \in Seq(Request)
      BY DEF TypeOK
    <3>2. inbox'[k] \in {inbox[k], Append(inbox[k], r)}
      BY <2>1, <2>4 DEF TypeOK
    <3> HIDE DEF r
    <3>3. CASE inbox'[k] = inbox[k]
      BY <3>3
    <3>4. CASE inbox'[k] = Append(inbox[k], r)
      <4>1. \/ i \in 1..Len(inbox[k]) /\ inbox'[k][i] = inbox[k][i]
            \/ inbox'[k][i] = r
        BY <2>2, <3>1, <3>4
      <4>2. QED
        BY <2>2, <4>1
    <3>5. QED
      BY <3>2, <3>3, <3>4
  <2>6. QED
    BY <2>2, <2>3, <2>5, UserInFlight
<1>3. ASSUME NEW u \in Users, Reconnect(u)
      PROVE  InFlight'
  BY <1>3, UserInFlight DEF Reconnect, subVars, workerVars
<1>4. CASE UNCHANGED vars
  BY <1>4 DEF InFlight, IsAsked, UnitOf, vars, userVars, subVars, workerVars
<1>5. QED
  BY <1>1, <1>2, <1>3, <1>4, EventInFlight, SubInFlight, WorkerInFlight
     DEF Next, UserStep

LEMMA NodeInvariant == Spec => []NodeInv
<1>1. Init => NodeInv
  <2> SUFFICES ASSUME Init
               PROVE  NodeInv
    OBVIOUS
  <2>1. TypeOK
    BY TypeInit
  <2>2. \A r \in Request : ~IsAsked(r)
    BY DEF Init, IsAsked
  <2>3. AskedInOrder
    <3>1. SUFFICES ASSUME NEW u \in Users
                   PROVE  \A n \in 1..MaxSent : IsAsked(<<u, n>>) <=> n <= 0
      BY NodeAssumption DEF AskedInOrder
    <3>2. QED
      BY <2>2 DEF Request
  <2>4. InFlight
    BY DEF Init, InFlight, Idle, NoChannel
  <2>5. QED
    BY <2>1, <2>3, <2>4 DEF NodeInv
<1>2. NodeInv /\ [Next]_vars => NodeInv'
  BY TypeNext, OrderNext, InFlightNext DEF NodeInv
<1>3. QED
  BY <1>1, <1>2, PTL DEF Spec

(* Every variable of the node keeps its type, and the job queue its bound,  *)
(* whatever the users do.                                                   *)
THEOREM TypeCorrect == Spec => []TypeOK
  BY NodeInvariant, PTL DEF NodeInv

------------------------------------------------------------------------------
(* Units do not leak.                                                       *)

(* Where the event thread has a unit that is registered and has a channel,  *)
(* but no task: between registration and admission, and between the loss    *)
(* of the task, or the refusal, and the release.                            *)
Taskless ==
    \/ ev.step \in {"admit", "refuse", "stop", "release"}
    \/ ev.step = "answer" /\ Kind(ev.req) = "exit"

UnitInv ==
    /\ Cardinality(tasks) <= MaxSessions
    /\ registered \subseteq 1..units
    /\ ev.step = "admit" => Kind(ev.req) = "setup"
    /\ ev.step = "refuse" => Kind(ev.req) = "setup"
    /\ ev.step = "stop" => Kind(ev.req) = "exit"
    /\ ev.step = "answer" => Kind(ev.req) \in {"setup", "exit"}
    /\ Taskless => /\ registered = tasks \cup {ev.unit}
                   /\ mapped = tasks \cup {ev.unit}
                   /\ ev.unit \notin tasks
    /\ ~Taskless /\ ev.step # "blocked" => registered = tasks /\ mapped = tasks

(* Other threads do not touch the tables, nor the request the event thread  *)
(* works on.                                                                *)
LEMMA UnitFrame ==
    ASSUME NodeInv, UnitInv,
           \A r \in Request : asked[r] # Unasked => asked'[r] = asked[r],
           UNCHANGED <<ev, tasks, mapped, registered, units>>
    PROVE  UnitInv'
<1>1. ev # Idle => asked'[ev.req] = asked[ev.req]
  BY InFlightTypes DEF NodeInv, InFlight, IsAsked
<1>2. ev.step # "idle" => ev # Idle
  BY DEF Idle
<1>3. ev.step # "idle" => Kind(ev.req)' = Kind(ev.req)
  BY <1>1, <1>2 DEF Kind
<1>4. Taskless' <=> Taskless
  BY <1>3 DEF Taskless
<1>5. QED
  BY <1>3, <1>4 DEF UnitInv

(* tasks_ is a finite set, and grows and shrinks by one.                    *)
LEMMA TasksAreFinite ==
    ASSUME TypeOK
    PROVE  /\ IsFiniteSet(tasks)
           /\ Cardinality(tasks) \in Nat
           /\ \A k : k \notin tasks => Cardinality(tasks \cup {k}) = Cardinality(tasks) + 1
           /\ \A k : Cardinality(tasks \ {k}) <= Cardinality(tasks)
<1>1. IsFiniteSet(Unit)
  BY NodeAssumption, FS_Interval DEF Unit
<1>2. IsFiniteSet(tasks)
  BY <1>1, FS_Subset DEF TypeOK
<1>3. Cardinality(tasks) \in Nat
  BY <1>2, FS_CardinalityType
<1>4. ASSUME NEW k, k \notin tasks
      PROVE  Cardinality(tasks \cup {k}) = Cardinality(tasks) + 1
  BY <1>2, <1>4, FS_AddElement
<1>5. ASSUME NEW k
      PROVE  Cardinality(tasks \ {k}) <= Cardinality(tasks)
  BY <1>2, <1>3, FS_RemoveElement
<1>6. QED
  BY <1>2, <1>3, <1>4, <1>5

(* A step of the event thread keeps registry, tasks and channels in line.   *)
LEMMA UnitEvent ==
    ASSUME NodeInv, UnitInv, EventThread
    PROVE  UnitInv'
<1> USE DEF userVars, registryVars, tables, subVars, workerVars
<1>0. /\ UNCHANGED asked
      /\ ev.step # "idle" => ev \in EventStep /\ ev # Idle
      /\ Idle.step = "idle"
      /\ TypeOK
  BY EventAtWork DEF EventThread, SetupBegin, SetupRefuse, SetupAccept, ExitBegin,
         TaskInfo, Pause, ExitStop, Answer, Release, NodeInv, Idle
<1>1. ASSUME NEW r \in Request, SetupBegin(r)
      PROVE  UnitInv'
  <2>1. /\ ev = Idle /\ Kind(r) = "setup" /\ UNCHANGED <<tasks, asked>>
        /\ units' = units + 1
        /\ registered' = registered \cup {units + 1}
        /\ mapped' = mapped \cup {units + 1}
        /\ ev' = [step |-> "admit", req |-> r, unit |-> units + 1]
    BY <1>1 DEF SetupBegin, Dequeue
  <2>2. registered = tasks /\ mapped = tasks /\ registered \subseteq 1..units
    BY <1>0, <2>1 DEF UnitInv, Taskless
  <2>3. units + 1 \notin tasks /\ registered' \subseteq 1..units'
    BY <1>0, <2>1, <2>2, NodeAssumption DEF TypeOK
  <2>4. Kind(ev.req)' = "setup"
    BY <2>1 DEF Kind
  <2>5. QED
    BY <2>1, <2>2, <2>3, <2>4 DEF UnitInv, Taskless
<1>2. ASSUME SetupRefuse
      PROVE  UnitInv'
  <2>1. ev \in EventStep /\ ev.step = "admit" /\ ev' = [ev EXCEPT !.step = "refuse"]
    BY <1>0, <1>2 DEF SetupRefuse
  <2>2. ev'.step = "refuse" /\ ev'.req = ev.req /\ ev'.unit = ev.unit
    BY <2>1 DEF EventStep
  <2>3. UNCHANGED <<tasks, mapped, registered, units, asked>>
    BY <1>2 DEF SetupRefuse
  <2>4. QED
    BY <2>1, <2>2, <2>3 DEF UnitInv, Taskless, Kind
<1>3. ASSUME SetupAccept
      PROVE  UnitInv'
  <2>1. ev \in EventStep /\ ev.step = "admit" /\ ev' = [ev EXCEPT !.step = "answer"]
    BY <1>0, <1>3 DEF SetupAccept
  <2>2. ev'.step = "answer" /\ ev'.req = ev.req /\ ev'.unit = ev.unit
    BY <2>1 DEF EventStep
  <2>3. /\ tasks' = tasks \cup {ev.unit}
        /\ UNCHANGED <<mapped, registered, units, asked>>
    BY <1>3 DEF SetupAccept
  <2>4. /\ registered = tasks \cup {ev.unit} /\ mapped = tasks \cup {ev.unit}
        /\ ev.unit \notin tasks /\ Kind(ev.req) = "setup"
    BY <2>1 DEF UnitInv, Taskless
  <2>5. Cardinality(tasks') <= MaxSessions
    <3>1. Cardinality(tasks') = Cardinality(tasks) + 1 /\ Cardinality(tasks) \in Nat
      BY <1>0, <2>3, <2>4, TasksAreFinite
    <3>2. ~(Cardinality(tasks) >= MaxSessions)
      BY <1>3 DEF SetupAccept, Full
    <3>3. QED
      BY <3>1, <3>2, NodeAssumption
  <2>6. Kind(ev.req)' = "setup"
    BY <2>2, <2>3, <2>4 DEF Kind
  <2>7. ~Taskless'
    BY <2>2, <2>6 DEF Taskless
  <2>8. QED
    BY <2>2, <2>3, <2>4, <2>5, <2>6, <2>7 DEF UnitInv
<1>4. ASSUME NEW r \in Request, ExitBegin(r)
      PROVE  UnitInv'
  <2>1. ev = Idle /\ Kind(r) = "exit" /\ asked[r] # Unasked
    BY <1>0, <1>4, Dequeued DEF ExitBegin, Dequeue
  <2>2. registered = tasks /\ mapped = tasks /\ registered \subseteq 1..units
    BY <1>0, <2>1 DEF UnitInv, Taskless
  <2>3. PICK next \in {"stop", "unknown"} :
            /\ PointToCaller(r, next)
            /\ next = IF UnitOf(r) \in tasks THEN "stop" ELSE "unknown"
    BY <1>4 DEF ExitBegin
  <2>4. /\ ev'.step \in {next, "blocked"}
        /\ ev'.req = r /\ ev'.unit = UnitOf(r)
    BY <1>0, <2>1, <2>3, PointedToCaller
  <2>5. /\ tasks' = IF ev'.step = "stop" THEN tasks \ {UnitOf(r)} ELSE tasks
        /\ UNCHANGED <<mapped, registered, units>>
    BY <1>4 DEF ExitBegin
  <2>6. Cardinality(tasks') <= MaxSessions
    <3>1. Cardinality(tasks) \in Nat /\ Cardinality(tasks \ {UnitOf(r)}) <= Cardinality(tasks)
      BY <1>0, TasksAreFinite
    <3>2. Cardinality(tasks \ {UnitOf(r)}) \in Nat
      BY <1>0, TasksAreFinite, FS_RemoveElement, FS_CardinalityType
    <3>3. Cardinality(tasks) <= MaxSessions
      BY DEF UnitInv
    <3>4. QED
      BY <2>5, <3>1, <3>2, <3>3, NodeAssumption
  <2>7. CASE ev'.step = "stop"
    <3>1. UnitOf(r) \in tasks /\ tasks' = tasks \ {UnitOf(r)}
      BY <2>3, <2>4, <2>5, <2>7
    <3>2. Taskless' /\ Kind(ev.req)' = "exit"
      BY <1>0, <2>1, <2>4, <2>7 DEF Taskless, Kind
    <3>3. QED
      BY <2>2, <2>4, <2>5, <2>6, <2>7, <3>1, <3>2 DEF UnitInv
  <2>8. CASE ev'.step \in {"unknown", "blocked"}
    <3>1. ~Taskless' /\ tasks' = tasks
      BY <2>5, <2>8 DEF Taskless
    <3>2. QED
      BY <2>2, <2>5, <2>6, <2>8, <3>1 DEF UnitInv
  <2>9. QED
    BY <2>3, <2>4, <2>7, <2>8
<1>5. ASSUME NEW r \in Request, TaskInfo(r) \/ Pause(r)
      PROVE  UnitInv'
  <2>1. ev = Idle /\ UNCHANGED <<tasks, mapped, registered, units>>
    BY <1>5 DEF TaskInfo, Pause, Dequeue
  <2>2. ev'.step \in {"list", "blocked"}
    <3>1. CASE TaskInfo(r)
      <4>1. asked[r] # Unasked
        BY <1>0, <3>1, Dequeued DEF TaskInfo
      <4>2. QED
        BY <1>0, <3>1, <4>1, PointedToCaller DEF TaskInfo
    <3>2. CASE Pause(r)
      BY <3>2 DEF Pause
    <3>3. QED
      BY <1>5, <3>1, <3>2
  <2>3. registered = tasks /\ mapped = tasks
    BY <1>0, <2>1 DEF UnitInv, Taskless
  <2>4. ~Taskless'
    BY <2>2 DEF Taskless
  <2>5. QED
    BY <2>1, <2>2, <2>3, <2>4 DEF UnitInv
<1>6. ASSUME ExitStop
      PROVE  UnitInv'
  <2>1. ev \in EventStep /\ ev.step = "stop" /\ ev' = [ev EXCEPT !.step = "answer"]
    BY <1>0, <1>6 DEF ExitStop
  <2>2. ev'.step = "answer" /\ ev'.req = ev.req /\ ev'.unit = ev.unit
    BY <2>1 DEF EventStep
  <2>3. UNCHANGED <<tasks, mapped, registered, units>>
    BY <1>6 DEF ExitStop
  <2>4. Kind(ev.req)' = "exit"
    BY <1>0, <2>1, <2>2 DEF UnitInv, Kind
  <2>5. QED
    BY <2>1, <2>2, <2>3, <2>4 DEF UnitInv, Taskless
<1>7. ASSUME Answer
      PROVE  UnitInv'
  <2>1. ev \in EventStep /\ ev.step \in {"answer", "refuse", "unknown", "list"}
    BY <1>0, <1>7 DEF Answer
  <2>2. UNCHANGED <<tasks, mapped, registered, units>>
    BY <1>7 DEF Answer
  <2>3. CASE ev' = [ev EXCEPT !.step = "blocked"]
    <3>1. ev'.step = "blocked"
      BY <2>1, <2>3 DEF EventStep
    <3>2. ~Taskless'
      BY <3>1 DEF Taskless
    <3>3. QED
      BY <2>2, <3>1, <3>2 DEF UnitInv
  <2>4. CASE ev' = [ev EXCEPT !.step = "release"] /\ MustRelease
    <3>1. ev'.step = "release" /\ ev'.unit = ev.unit
      BY <2>1, <2>4 DEF EventStep
    <3>2. Taskless /\ Taskless'
      BY <2>4, <3>1 DEF Taskless, MustRelease
    <3>3. QED
      BY <2>2, <3>1, <3>2 DEF UnitInv
  <2>5. CASE ev' = Idle /\ ~MustRelease
    <3>1. ~Taskless /\ ~Taskless'
      BY <1>0, <2>1, <2>5 DEF Taskless, MustRelease
    <3>2. QED
      BY <1>0, <2>1, <2>2, <2>5, <3>1 DEF UnitInv
  <2>6. QED
    BY <1>7, <2>3, <2>4, <2>5 DEF Answer
<1>8. ASSUME Release
      PROVE  UnitInv'
  <2>1. /\ ev.step = "release" /\ ev' = Idle
        /\ registered' = registered \ {ev.unit}
        /\ mapped' = mapped \ {ev.unit}
        /\ UNCHANGED <<tasks, units>>
    BY <1>8 DEF Release, Released
  <2>2. registered' = tasks /\ mapped' = tasks
    BY <2>1 DEF UnitInv, Taskless
  <2>3. ~Taskless'
    BY <1>0, <2>1 DEF Taskless
  <2>4. QED
    BY <1>0, <2>1, <2>2, <2>3 DEF UnitInv
<1>9. QED
  BY <1>1, <1>2, <1>3, <1>4, <1>5, <1>6, <1>7, <1>8 DEF EventThread

(* Every step keeps registry, tasks and channels in line.                   *)
LEMMA UnitNext == NodeInv /\ UnitInv /\ [Next]_vars => UnitInv'
<1> SUFFICES ASSUME NodeInv, UnitInv, [Next]_vars
             PROVE  UnitInv'
  OBVIOUS
<1> USE DEF userVars, registryVars, tables, subVars, workerVars
<1>1. ASSUME NEW u \in Users, NEW kind \in {"setup", "exit", "taskinfo", "pause"},
             AskEvent(u, kind)
      PROVE  UnitInv'
  <2>1. Ask(u, kind, work[u]) /\ work[u] \in Unit \cup {NoUnit}
    BY <1>1 DEF AskEvent, NodeInv, TypeOK
  <2>2. \A r \in Request : asked[r] # Unasked => asked'[r] = asked[r]
    BY <2>1, AskIsNew DEF NodeInv
  <2>3. QED
    BY <1>1, <2>2, UnitFrame DEF AskEvent
<1>2. ASSUME NEW u \in Users, AskInference(u)
      PROVE  UnitInv'
  <2>1. Ask(u, "inference", work[u]) /\ work[u] \in Unit \cup {NoUnit}
    BY <1>2 DEF AskInference, NodeInv, TypeOK
  <2>2. \A r \in Request : asked[r] # Unasked => asked'[r] = asked[r]
    BY <2>1, AskIsNew DEF NodeInv
  <2>3. QED
    BY <1>2, <2>2, UnitFrame DEF AskInference
<1>3. ASSUME NEW u \in Users, Reconnect(u)
      PROVE  UnitInv'
  BY <1>3, UnitFrame DEF Reconnect
<1>4. ASSUME NEW k \in Unit, SubThread(k)
      PROVE  UnitInv'
  BY <1>4, UnitFrame DEF SubThread, Join, SubTake, SubDispatch
<1>5. ASSUME Worker
      PROVE  UnitInv'
  BY <1>5, UnitFrame DEF Worker, WorkerTake, WorkerRun, WorkerSend
<1>6. CASE UNCHANGED vars
  BY <1>6, UnitFrame DEF vars
<1>7. QED
  BY <1>1, <1>2, <1>3, <1>4, <1>5, <1>6, UnitEvent DEF Next, UserStep

(* Refused setups, exits, repeated exits and exits of unknown units leak no *)
(* unit and exceed no limit, for users that wait as for users that do not.  *)
THEOREM UnitsDoNotLeak == Spec => []NoUnitLeaks
<1>1. Init => UnitInv
  <2> SUFFICES ASSUME Init
               PROVE  UnitInv
    OBVIOUS
  <2>1. Cardinality(tasks) <= MaxSessions
    BY FS_EmptySet, NodeAssumption DEF Init
  <2>2. ev.step = "idle" /\ registered = {} /\ mapped = {} /\ tasks = {}
    BY DEF Init, Idle
  <2>3. QED
    BY <2>1, <2>2 DEF UnitInv, Taskless
<1>2. NodeInv /\ UnitInv /\ [Next]_vars => UnitInv'
  BY UnitNext
<1>3. UnitInv => NoUnitLeaks
  BY DEF UnitInv, Taskless, NoUnitLeaks, Idle
<1>4. QED
  BY <1>1, <1>2, <1>3, NodeInvariant, PTL DEF Spec
------------------------------------------------------------------------------
(* Users that wait for their answers.                                       *)

(* Request r is asked and not answered.                                     *)
Awaited(r) == IsAsked(r) /\ replies[r] = <<>>

(* Where a request can be: the event thread works on it; it is in an inbox; *)
(* a SUB thread has it; it is in the job queue; the worker has its job.     *)
Handled(r) == ev.step \notin {"idle", "release"} /\ ev.req = r
Boxed(r)   == \E k \in Unit : \E i \in 1..Len(inbox[k]) : inbox[k][i] = r
Taken(r)   == \E k \in Unit : sub[k] # Idle /\ sub[k].req = r
Pushed(r)  == \E i \in 1..Len(jobs) : jobs[i].req = r
Worked(r)  == worker # Idle /\ worker.job.req = r

(* A request is answered once, at home and under its own id; the one that   *)
(* its user waits for came over the user's open connection and names the    *)
(* unit that the user has.                                                  *)
Once(r) ==
    /\ ~IsAsked(r) => replies[r] = <<>>
    /\ IsAsked(r) =>
          replies[r] \in {<<>>, <<[to |-> From(r), label |-> RightLabel(r)]>>}

AtHome(r) ==
    Awaited(r) => From(r) = <<r[1], conn[r[1]]>> /\ UnitOf(r) = work[r[1]]

OneByOne ==
    \A r \in Request, q \in Request :
        Awaited(r) /\ Awaited(q) /\ r[1] = q[1] => r = q

Asking == OneByOne /\ \A r \in Request : Once(r) /\ AtHome(r)

(* Each unit has one user, and its PUB socket until the user's own exit.    *)
Exiting(u) == ev.step = "answer" /\ Kind(ev.req) = "exit" /\ ev.req[1] = u

Owned ==
    /\ \A u \in Users : work[u] <= units
    /\ \A u \in Users, v \in Users :
          work[u] = work[v] /\ work[u] # NoUnit => u = v
    /\ \A u \in Users : work[u] # NoUnit => channel[work[u]].pub \/ Exiting(u)

(* The events are awaited requests, each there once; the unit of a setup    *)
(* under way has its PUB socket and no user yet.                            *)
Event(r) == Awaited(r) /\ Kind(r) # "inference"

Queued ==
    \A i \in 1..Len(events) :
        /\ Event(events[i]) /\ ~Handled(events[i])
        /\ \A j \in 1..Len(events) : events[i] = events[j] => i = j

Handling ==
    /\ ev.step # "blocked"
    /\ ev.step \notin {"idle", "release"} => Event(ev.req)
    /\ ev.step \in {"admit", "refuse"} => Kind(ev.req) = "setup"
    /\ ev.step \in {"stop", "unknown"} => Kind(ev.req) = "exit"
    /\ ev.step = "answer" => Kind(ev.req) \in {"setup", "exit"}
    /\ ev.step = "stop" => ev.unit = UnitOf(ev.req)

Founding ==
    ev.step \in {"admit", "answer"} /\ Kind(ev.req) = "setup" =>
        /\ ev.unit \in 1..units /\ channel[ev.unit].pub
        /\ \A u \in Users : work[u] # ev.unit

(* The inference requests of a unit are awaited.  From the SUB thread on    *)
(* the unit's channel holds the URL, and where it matters the label, of     *)
(* the request.                                                             *)
Inference(r, k) == Awaited(r) /\ Kind(r) = "inference" /\ UnitOf(r) = k

Goes(r, k) == Inference(r, k) /\ channel[k].push = From(r)

InboxInOrder(k) ==
    \A i \in 1..Len(inbox[k]) :
        /\ Inference(inbox[k][i], k)
        /\ \A j \in 1..Len(inbox[k]) : inbox[k][i] = inbox[k][j] => i = j

SubInOrder(k) ==
    sub[k] # Idle =>
        /\ sub[k].step = "dispatch" /\ Goes(sub[k].req, k)
        /\ channel[k].label = sub[k].req

JobsInOrder ==
    \A i \in 1..Len(jobs) :
        /\ Goes(jobs[i].req, UnitOf(jobs[i].req)) /\ jobs[i].label = jobs[i].req
        /\ UnitOf(jobs[i].req) \in Unit
        /\ \A j \in 1..Len(jobs) : jobs[i].req = jobs[j].req => i = j

WorkerInOrder ==
    worker # Idle =>
        /\ Goes(worker.job.req, UnitOf(worker.job.req))
        /\ worker.job.label = worker.job.req
        /\ channel[UnitOf(worker.job.req)].label = worker.job.req

InOrder ==
    /\ \A k \in Unit : InboxInOrder(k) /\ SubInOrder(k)
    /\ JobsInOrder /\ WorkerInOrder

(* No inference request is in two places.                                   *)
OnePlace ==
    \A r \in Request :
        /\ Boxed(r) => ~Taken(r) /\ ~Pushed(r) /\ ~Worked(r)
        /\ Taken(r) => ~Pushed(r) /\ ~Worked(r)
        /\ Pushed(r) => ~Worked(r)

Calm == ~crashed /\ \A k \in Unit : ~channel[k].held

PatientInv ==
    /\ Asking /\ Owned /\ Queued /\ Handling /\ Founding
    /\ InOrder /\ OnePlace /\ Calm


(* A request is a pair: its user and its number.                            *)
LEMMA RequestIsPair ==
    \A r \in Request : r[1] \in Users /\ r[2] \in 1..MaxSent /\ r = <<r[1], r[2]>>
  BY DEF Request

(* What is left of a queue, and what is added to it.                        *)
LEMMA QueueItems ==
    ASSUME NEW S, NEW s \in Seq(S)
    PROVE  /\ s # <<>> =>
                 /\ Head(s) \in S /\ Head(s) = s[1] /\ 1 \in 1..Len(s)
                 /\ Tail(s) \in Seq(S)
                 /\ \A i \in 1..Len(Tail(s)) :
                       i + 1 \in 1..Len(s) /\ Tail(s)[i] = s[i + 1] /\ i + 1 # 1
           /\ \A e \in S :
                 /\ Append(s, e) \in Seq(S)
                 /\ \A i \in 1..Len(Append(s, e)) :
                       \/ i \in 1..Len(s) /\ Append(s, e)[i] = s[i]
                       \/ i = Len(s) + 1 /\ Append(s, e)[i] = e
                 /\ Len(s) \in Nat
<1>1. ASSUME s # <<>>
      PROVE  /\ Head(s) \in S /\ Head(s) = s[1] /\ 1 \in 1..Len(s)
             /\ Tail(s) \in Seq(S)
             /\ \A i \in 1..Len(Tail(s)) :
                   i + 1 \in 1..Len(s) /\ Tail(s)[i] = s[i + 1] /\ i + 1 # 1
  BY <1>1
<1>2. ASSUME NEW e \in S
      PROVE  /\ Append(s, e) \in Seq(S)
             /\ \A i \in 1..Len(Append(s, e)) :
                   \/ i \in 1..Len(s) /\ Append(s, e)[i] = s[i]
                   \/ i = Len(s) + 1 /\ Append(s, e)[i] = e
             /\ Len(s) \in Nat
  OBVIOUS
<1>3. QED
  BY <1>1, <1>2

(* A user waits for one request, so a unit has one inference request.       *)
LEMMA OneInference ==
    ASSUME NodeInv, PatientInv, NEW k \in Unit, NEW r \in Request,
           Inference(r, k)
    PROVE  /\ r[1] \in Users /\ work[r[1]] = k /\ From(r) = <<r[1], conn[r[1]]>>
           /\ \A q \in Request : Awaited(q) /\ UnitOf(q) = k => q = r
           /\ channel[k].pub
<1>1. r[1] \in Users /\ work[r[1]] = k /\ From(r) = <<r[1], conn[r[1]]>>
  BY RequestIsPair DEF PatientInv, Asking, AtHome, Inference
<1>2. k # NoUnit
  BY NodeAssumption DEF Unit, NoUnit
<1>3. ASSUME NEW q \in Request, Awaited(q), UnitOf(q) = k
      PROVE  q = r
  <2>1. q[1] \in Users /\ work[q[1]] = k
    BY <1>3, RequestIsPair DEF PatientInv, Asking, AtHome
  <2>2. q[1] = r[1]
    BY <1>1, <1>2, <2>1 DEF PatientInv, Owned
  <2>3. QED
    BY <1>3, <2>2 DEF PatientInv, Asking, OneByOne, Inference
<1>4. ASSUME Exiting(r[1])
      PROVE  FALSE
  <2>1. Event(ev.req) /\ ev.req[1] = r[1] /\ Kind(ev.req) = "exit"
    BY <1>4 DEF Exiting, PatientInv, Handling
  <2>2. ev.req \in Request
    <3>1. ev # Idle
      BY <1>4 DEF Exiting, Idle
    <3>2. QED
      BY <3>1, InFlightTypes DEF NodeInv
  <2>3. ev.req = r
    BY <2>1, <2>2 DEF Event, Inference, PatientInv, Asking, OneByOne
  <2>4. QED
    BY <2>1, <2>3 DEF Event, Inference
<1>5. QED
  BY <1>1, <1>2, <1>3, <1>4 DEF PatientInv, Owned

(* What stays as it is while requests, replies and units do.                *)
LEMMA AskingKept ==
    ASSUME PatientInv, UNCHANGED <<asked, replies, conn, work>>
    PROVE  /\ Asking'
           /\ \A r \in Request : /\ Awaited(r)' <=> Awaited(r)
                                 /\ Event(r)' <=> Event(r)
                                 /\ asked'[r] = asked[r]
           /\ \A r \in Request, k \in Unit : Inference(r, k)' <=> Inference(r, k)
<1>1. \A r \in Request : /\ Awaited(r)' <=> Awaited(r)
                         /\ Event(r)' <=> Event(r)
  BY DEF Awaited, Event, IsAsked, Kind
<1>2. \A r \in Request, k \in Unit : Inference(r, k)' <=> Inference(r, k)
  BY <1>1 DEF Inference, Kind, UnitOf
<1>3. ASSUME NEW r \in Request
      PROVE  Once(r)' /\ AtHome(r)'
  BY <1>1 DEF PatientInv, Asking, Once, AtHome, IsAsked, From, UnitOf, RightLabel, Kind
<1>4. OneByOne'
  BY <1>1 DEF PatientInv, Asking, OneByOne
<1>5. QED
  BY <1>1, <1>2, <1>3, <1>4 DEF Asking

(* A user's new request.                                                    *)
LEMMA AskedNext ==
    ASSUME NodeInv, PatientInv, Patient, NEW u \in Users,
           NEW kind \in {"setup", "exit", "taskinfo", "pause", "inference"},
           Ask(u, kind, work[u]), UNCHANGED <<replies, conn, work>>
    PROVE  /\ Asking'
           /\ \E q \in Request :
                 /\ q = <<u, Sent(u) + 1>> /\ ~Awaited(q)
                 /\ Awaited(q)' /\ Kind(q)' = kind /\ UnitOf(q)' = work[u]
           /\ \A r \in Request : Awaited(r) => /\ Awaited(r)'
                                               /\ asked'[r] = asked[r]
                                               /\ r[1] # u
<1>1. work[u] \in Unit \cup {NoUnit}
  BY DEF NodeInv, TypeOK
<1>0. /\ <<u, Sent(u) + 1>> \in Request
      /\ \A r \in Request : asked[r] # Unasked => asked'[r] = asked[r]
      /\ asked'[<<u, Sent(u) + 1>>] # Unasked
  BY <1>1, AskIsNew DEF NodeInv
<1>q. PICK q \in Request : q = <<u, Sent(u) + 1>>
  BY <1>0
<1>a. PICK a : a = [kind |-> kind, from |-> <<u, conn[u]>>, unit |-> work[u]]
  OBVIOUS
<1>2. /\ \A r \in Request : asked[r] # Unasked => asked'[r] = asked[r]
      /\ asked'[q] # Unasked
  BY <1>0, <1>q
<1>3. ~IsAsked(q)
  <2>1. /\ Sent(u) \in 0..MaxSent
        /\ \A m \in 1..MaxSent : IsAsked(<<u, m>>) <=> m <= Sent(u)
    BY SentCounts DEF NodeInv
  <2>2. Sent(u) + 1 \in 1..MaxSent /\ ~(Sent(u) + 1 <= Sent(u))
    BY <2>1, NodeAssumption DEF Ask
  <2>3. QED
    BY <1>q, <2>1, <2>2
<1>4. asked' = [asked EXCEPT ![q] = a] /\ ~Awaits(u)
  BY <1>q, <1>a DEF Ask
<1>5. asked'[q] = a /\ \A r \in Request : r # q => asked'[r] = asked[r]
  BY <1>2, <1>4 DEF NodeInv, TypeOK
<1>6. a.kind = kind /\ a.from = <<u, conn[u]>> /\ a.unit = work[u]
  BY <1>a
<1>7. replies[q] = <<>>
  BY <1>2, <1>3 DEF PatientInv, Asking, Once
<1>8. ~Awaited(q) /\ Awaited(q)' /\ Kind(q)' = kind /\ UnitOf(q)' = work[u]
      /\ From(q)' = <<u, conn[u]>>
  BY <1>2, <1>3, <1>5, <1>6, <1>7 DEF Awaited, IsAsked, Kind, UnitOf, From
<1>9. ASSUME NEW r \in Request, Awaited(r)
      PROVE  Awaited(r)' /\ asked'[r] = asked[r] /\ r[1] # u
  <2>1. r = <<r[1], r[2]>> /\ r[2] \in 1..MaxSent
    BY RequestIsPair
  <2>2. r[1] # u
    BY <1>4, <1>9, <2>1 DEF Awaits, Awaited
  <2>3. QED
    BY <1>2, <1>9, <2>2 DEF Awaited, IsAsked
<1>10. \A r \in Request : r # q => (Awaited(r)' <=> Awaited(r))
  BY <1>5 DEF Awaited, IsAsked
<1>11. q[1] = u
  BY <1>q
<1>12. OneByOne'
  BY <1>2, <1>9, <1>10, <1>11 DEF OneByOne, PatientInv, Asking
<1>13. ASSUME NEW r \in Request
       PROVE  Once(r)' /\ AtHome(r)'
  <2>1. CASE r = q
    BY <1>2, <1>5, <1>7, <1>8, <1>11, <2>1 DEF Once, AtHome, IsAsked
  <2>2. CASE r # q
    <3>1. asked'[r] = asked[r]
      BY <1>5, <2>2
    <3>2. Once(r) /\ AtHome(r)
      BY DEF PatientInv, Asking
    <3>3. Once(r)'
      BY <3>1, <3>2 DEF Once, IsAsked, From, RightLabel, Kind
    <3>4. AtHome(r)'
      BY <1>10, <2>2, <3>1, <3>2 DEF AtHome, From, UnitOf
    <3>5. QED
      BY <3>3, <3>4
  <2>3. QED
    BY <2>1, <2>2
<1>14. QED
  BY <1>2, <1>8, <1>9, <1>12, <1>13, <1>q DEF Asking

(* A request is answered, on the connection it came from.                   *)
LEMMA AnsweredNext ==
    ASSUME NodeInv, PatientInv, NEW r \in Request, Awaited(r),
           replies' = [replies EXCEPT ![r] =
               Append(@, [to |-> From(r), label |-> RightLabel(r)])],
           UNCHANGED <<asked, conn>>,
           \A u \in Users : u # r[1] => work'[u] = work[u]
    PROVE  /\ Asking' /\ ~Awaited(r)'
           /\ \A q \in Request : q # r => (Awaited(q)' <=> Awaited(q))
<1> DEFINE line == [to |-> From(r), label |-> RightLabel(r)]
<1>1. replies'[r] = <<line>> /\ \A q \in Request : q # r => replies'[q] = replies[q]
  <2>1. replies[r] = <<>>
    BY DEF Awaited
  <2>2. Append(<<>>, line) = <<line>>
    OBVIOUS
  <2> HIDE DEF line
  <2>3. QED
    BY <2>1, <2>2 DEF NodeInv, TypeOK, line
<1> HIDE DEF line
<1>2. <<line>> # <<>>
  OBVIOUS
<1>3. ~Awaited(r)'
  BY <1>1, <1>2 DEF Awaited
<1>4. \A q \in Request : q # r => (Awaited(q)' <=> Awaited(q))
  BY <1>1 DEF Awaited, IsAsked
<1>5. OneByOne'
  BY <1>3, <1>4 DEF OneByOne, PatientInv, Asking
<1>6. ASSUME NEW q \in Request
      PROVE  Once(q)' /\ AtHome(q)'
  <2>1. Once(q) /\ AtHome(q)
    BY DEF PatientInv, Asking
  <2>2. CASE q = r
    <3>1. IsAsked(r)' /\ From(r)' = From(r) /\ RightLabel(r)' = RightLabel(r)
      BY DEF Awaited, IsAsked, From, RightLabel, Kind
    <3>2. Once(r)'
      BY <1>1, <3>1 DEF Once, line
    <3>3. AtHome(r)'
      BY <1>3 DEF AtHome
    <3>4. QED
      BY <2>2, <3>2, <3>3
  <2>3. CASE q # r
    <3>1. Once(q)'
      BY <1>1, <2>1, <2>3 DEF Once, IsAsked, From, RightLabel, Kind
    <3>2. ASSUME Awaited(q)'
          PROVE  From(q)' = <<q[1], conn'[q[1]]>> /\ UnitOf(q)' = work'[q[1]]
      <4>1. Awaited(q) /\ q[1] \in Users /\ q[1] # r[1]
        BY <1>4, <2>3, <3>2, RequestIsPair DEF PatientInv, Asking, OneByOne
      <4>2. QED
        BY <2>1, <4>1 DEF AtHome, From, UnitOf
    <3>3. QED
      BY <3>1, <3>2 DEF AtHome
  <2>4. QED
    BY <2>2, <2>3
<1>7. QED
  BY <1>3, <1>4, <1>5, <1>6 DEF Asking

(* What a step that leaves the event thread, its queue and the sockets of   *)
(* the channels alone keeps.                                                *)
LEMMA EventsKept ==
    ASSUME NodeInv, PatientInv,
           \A r \in Request : Event(r) => Event(r)' /\ asked'[r] = asked[r],
           \A k \in Unit : channel'[k].pub = channel[k].pub,
           UNCHANGED <<ev, work, units>>
    PROVE  /\ Owned' /\ Handling' /\ Founding'
           /\ UNCHANGED events => Queued'
<1>0. NoUnit \notin Unit /\ 1..units \subseteq Unit /\ units \in Nat
      /\ \A u \in Users : work[u] \in Unit \cup {NoUnit}
  BY NodeAssumption DEF NodeInv, TypeOK, Unit, NoUnit
<1>1. ASSUME ev.step \notin {"idle", "release"}
      PROVE  /\ Event(ev.req) /\ Event(ev.req)'
             /\ Kind(ev.req)' = Kind(ev.req) /\ UnitOf(ev.req)' = UnitOf(ev.req)
  <2>1. ev # Idle
    BY <1>1 DEF Idle
  <2>2. ev.req \in Request
    BY <2>1, InFlightTypes DEF NodeInv
  <2>3. Event(ev.req)
    BY <1>1 DEF PatientInv, Handling
  <2>4. Event(ev.req)' /\ asked'[ev.req] = asked[ev.req]
    <3>1. PICK r \in Request : r = ev.req
      BY <2>2
    <3>2. Event(r)' /\ asked'[r] = asked[r]
      BY <2>3, <3>1
    <3>3. ev'.req = r
      BY <3>1
    <3>4. QED
      BY <3>1, <3>2, <3>3 DEF Event, Awaited, IsAsked, Kind
  <2>5. QED
    BY <2>3, <2>4 DEF Kind, UnitOf
<1>2. Handling'
  BY <1>1 DEF PatientInv, Handling
<1>3. Founding'
  <2>1. ASSUME ev.step \in {"admit", "answer"}, Kind(ev.req)' = "setup"
        PROVE  /\ ev.unit \in 1..units /\ channel'[ev.unit].pub
               /\ \A u \in Users : work[u] # ev.unit
    BY <1>0, <1>1, <2>1 DEF PatientInv, Founding
  <2>2. QED
    BY <2>1 DEF Founding
<1>4. \A u \in Users : Exiting(u) => Exiting(u)'
  BY <1>1 DEF Exiting
<1>5. Owned'
  BY <1>0, <1>4 DEF PatientInv, Owned
<1>6. ASSUME UNCHANGED events
      PROVE  Queued'
  <2>1. \A i \in 1..Len(events) : events[i] \in Request
    BY DEF NodeInv, TypeOK
  <2>2. ASSUME NEW i \in 1..Len(events)
        PROVE  Event(events[i])' /\ ~Handled(events[i])'
    <3>1. PICK r \in Request : r = events[i]
      BY <2>1
    <3>2. Event(r) /\ ~Handled(r)
      BY <3>1 DEF PatientInv, Queued
    <3>3. Event(r)' /\ ~Handled(r)'
      BY <3>2 DEF Handled
    <3>4. events'[i] = r
      BY <1>6, <3>1
    <3>5. QED
      BY <3>3, <3>4 DEF Event, Awaited, IsAsked, Kind, Handled
  <2>3. QED
    BY <1>6, <2>2 DEF PatientInv, Queued
<1>7. QED
  BY <1>2, <1>3, <1>5, <1>6

(* What a step that leaves the SUB threads and the worker alone keeps, if   *)
(* it leaves their requests and channels alone.                             *)
LEMMA SubAndWorkerKept ==
    ASSUME NodeInv, PatientInv,
           \A r \in Request, k \in Unit :
               Inference(r, k) => /\ Inference(r, k)' /\ asked'[r] = asked[r]
                                  /\ channel'[k].push = channel[k].push
                                  /\ channel'[k].label = channel[k].label,
           UNCHANGED <<sub, jobs, worker>>
    PROVE  (\A k \in Unit : SubInOrder(k)') /\ JobsInOrder' /\ WorkerInOrder'
<1>0. /\ \A k \in Unit : sub[k] # Idle => sub[k].req \in Request
      /\ \A i \in 1..Len(jobs) : jobs[i].req \in Request
      /\ worker # Idle => worker.job.req \in Request /\ UnitOf(worker.job.req) \in Unit
  BY InFlightTypes DEF NodeInv, InFlight
<1>2. ASSUME NEW r \in Request, NEW k \in Unit, Goes(r, k)
      PROVE  Goes(r, k)' /\ UnitOf(r)' = k /\ UnitOf(r) = k
             /\ channel'[k].label = channel[k].label
  BY <1>2 DEF Goes, From, Inference
<1>3. ASSUME NEW k \in Unit
      PROVE  SubInOrder(k)'
  <2>1. SubInOrder(k)
    BY DEF PatientInv, InOrder
  <2>2. ASSUME sub[k] # Idle
        PROVE  Goes(sub[k].req, k)' /\ channel'[k].label = sub[k].req
    <3>1. PICK r \in Request : r = sub[k].req /\ r = sub'[k].req
      BY <1>0, <2>2
    <3>2. Goes(r, k) /\ channel[k].label = r
      BY <2>1, <2>2, <3>1 DEF SubInOrder
    <3>3. Goes(r, k)' /\ channel'[k].label = r
      BY <1>2, <3>2
    <3>4. QED
      BY <3>1, <3>3 DEF Goes, Inference, Awaited, IsAsked, Kind, UnitOf, From
  <2>3. QED
    BY <2>1, <2>2 DEF SubInOrder
<1>4. JobsInOrder'
  <2>1. ASSUME NEW i \in 1..Len(jobs)
        PROVE  Goes(jobs[i].req, UnitOf(jobs[i].req))' /\ UnitOf(jobs[i].req)' \in Unit
    <3>1. PICK r \in Request : r = jobs[i].req /\ r = jobs'[i].req
      BY <1>0, <2>1
    <3>2. Goes(r, UnitOf(r)) /\ UnitOf(r) \in Unit
      BY <2>1, <3>1 DEF PatientInv, InOrder, JobsInOrder
    <3>3. PICK k \in Unit : k = UnitOf(r)
      BY <3>2
    <3>4. Goes(r, k)' /\ UnitOf(r)' = k
      BY <1>2, <3>2, <3>3
    <3>5. QED
      BY <3>1, <3>4 DEF Goes, Inference, Awaited, IsAsked, Kind, UnitOf, From
  <2>2. QED
    BY <2>1 DEF PatientInv, InOrder, JobsInOrder
<1>5. WorkerInOrder'
  <2>1. ASSUME worker # Idle
        PROVE  /\ Goes(worker.job.req, UnitOf(worker.job.req))'
               /\ (channel[UnitOf(worker.job.req)].label = worker.job.req)'
    <3>1. PICK r \in Request : r = worker.job.req /\ r = worker'.job.req
      BY <1>0, <2>1
    <3>2. PICK k \in Unit : k = UnitOf(r)
      BY <1>0, <2>1, <3>1
    <3>3. Goes(r, k) /\ channel[k].label = r
      BY <2>1, <3>1, <3>2 DEF PatientInv, InOrder, WorkerInOrder
    <3>4. Goes(r, k)' /\ UnitOf(r)' = k /\ channel'[k].label = r
      BY <1>2, <3>3
    <3>5. QED
      BY <3>1, <3>4 DEF Goes, Inference, Awaited, IsAsked, Kind, UnitOf, From
  <2>2. QED
    BY <2>1 DEF PatientInv, InOrder, WorkerInOrder
<1>6. QED
  BY <1>3, <1>4, <1>5

(* What a step that leaves the SUB threads and the worker alone keeps, if   *)
(* it leaves their requests and channels alone and adds nothing to an inbox.*)
LEMMA JobsKept ==
    ASSUME NodeInv, PatientInv,
           \A r \in Request, k \in Unit :
               Inference(r, k) => /\ Inference(r, k)' /\ asked'[r] = asked[r]
                                  /\ channel'[k].push = channel[k].push
                                  /\ channel'[k].label = channel[k].label,
           \A k \in Unit : inbox'[k] \in {<<>>, inbox[k]},
           UNCHANGED <<sub, jobs, worker>>
    PROVE  InOrder' /\ OnePlace'
<1>0. \A k \in Unit : \A i \in 1..Len(inbox[k]) : inbox[k][i] \in Request
  BY InFlightTypes DEF NodeInv
<1>1. \A k \in Unit : \A i \in 1..Len(inbox'[k]) :
          i \in 1..Len(inbox[k]) /\ inbox'[k][i] = inbox[k][i]
             /\ inbox'[k] = inbox[k]
  <2>1. Len(<<>>) = 0 /\ \A i : i \notin 1..0
    OBVIOUS
  <2>2. QED
    BY <2>1
<1>2. (\A k \in Unit : SubInOrder(k)') /\ JobsInOrder' /\ WorkerInOrder'
  BY SubAndWorkerKept
<1>3. ASSUME NEW k \in Unit
      PROVE  InboxInOrder(k)'
  <2>1. InboxInOrder(k)
    BY DEF PatientInv, InOrder
  <2>2. ASSUME NEW i \in 1..Len(inbox'[k])
        PROVE  Inference(inbox[k][i], k)'
    <3>1. PICK r \in Request : r = inbox[k][i] /\ r = inbox'[k][i]
      BY <1>0, <1>1
    <3>2. Inference(r, k)
      BY <1>1, <2>1, <3>1 DEF InboxInOrder
    <3>3. Inference(r, k)'
      BY <3>2
    <3>4. QED
      BY <3>1, <3>3 DEF Inference, Awaited, IsAsked, Kind, UnitOf
  <2>3. QED
    BY <1>1, <2>1, <2>2 DEF InboxInOrder
<1>4. OnePlace'
  <2>1. ASSUME NEW r \in Request
        PROVE  /\ Boxed(r)' => Boxed(r)
               /\ Taken(r)' <=> Taken(r)
               /\ Pushed(r)' <=> Pushed(r)
               /\ Worked(r)' <=> Worked(r)
    BY <1>1 DEF Boxed, Taken, Pushed, Worked
  <2>2. QED
    BY <2>1 DEF PatientInv, OnePlace
<1>5. QED
  BY <1>2, <1>3, <1>4 DEF InOrder

(* The users' steps.                                                        *)
LEMMA UserPatient ==
    ASSUME NodeInv, PatientInv, Patient, NEW u \in Users, UserStep(u)
    PROVE  PatientInv'
<1>0. UNCHANGED <<ev, units, sub, jobs, worker, channel, replies, work, crashed>>
  BY DEF UserStep, AskEvent, AskInference, Reconnect, registryVars, subVars, workerVars
<1>1. Calm'
  BY <1>0 DEF PatientInv, Calm
<1>2. ASSUME \A r \in Request : Awaited(r) => Awaited(r)' /\ asked'[r] = asked[r]
      PROVE  /\ Owned' /\ Handling' /\ Founding'
             /\ UNCHANGED events => Queued'
             /\ UNCHANGED inbox => InOrder' /\ OnePlace'
  <2>1. \A r \in Request : Event(r) => Event(r)' /\ asked'[r] = asked[r]
    BY <1>2 DEF Event, Kind
  <2>2. \A r \in Request, k \in Unit :
            Inference(r, k) => Inference(r, k)' /\ asked'[r] = asked[r]
    BY <1>2 DEF Inference, Kind, UnitOf
  <2>3. QED
    BY <1>0, <2>1, <2>2, EventsKept, JobsKept
<1>3. ASSUME NEW kind \in {"setup", "exit", "taskinfo", "pause"}, AskEvent(u, kind)
      PROVE  PatientInv'
  <2>1. Ask(u, kind, work[u]) /\ UNCHANGED <<conn, inbox>>
    BY <1>3 DEF AskEvent, subVars
  <2>2. /\ Asking'
        /\ \A r \in Request : Awaited(r) => Awaited(r)' /\ asked'[r] = asked[r]
    BY <1>0, <2>1, AskedNext
  <2>3. PICK q \in Request :
            /\ q = <<u, Sent(u) + 1>> /\ ~Awaited(q)
            /\ Awaited(q)' /\ Kind(q)' = kind
    BY <1>0, <2>1, AskedNext
  <2>4. events' = Append(events, q) /\ events \in Seq(Request)
    BY <1>3, <2>3 DEF AskEvent, NodeInv, TypeOK
  <2>5. /\ \A i \in 1..Len(events') :
              \/ i \in 1..Len(events) /\ events'[i] = events[i]
              \/ i = Len(events) + 1 /\ events'[i] = q
        /\ \A i \in 1..Len(events) : events[i] \in Request
    BY <2>4, QueueItems
  <2>6. Event(q)' /\ ~Event(q) /\ ~Handled(q)'
    <3>1. ~Handled(q)
      BY <2>3 DEF PatientInv, Handling, Handled, Event
    <3>2. QED
      BY <1>0, <2>3, <3>1 DEF Event, Handled
  <2>7. ASSUME NEW i \in 1..Len(events)
        PROVE  /\ Event(events[i]) /\ events[i] # q /\ ~Handled(events[i])
               /\ \A j \in 1..Len(events) : events[i] = events[j] => i = j
    BY <2>6 DEF PatientInv, Queued
  <2>8. Queued'
    <3>1. ASSUME NEW i \in 1..Len(events')
          PROVE  Event(events[i])' /\ ~Handled(events[i])'
      <4>1. CASE events'[i] = q
        BY <2>6, <4>1 DEF Event, Awaited, IsAsked, Kind, Handled
      <4>2. CASE i \in 1..Len(events) /\ events'[i] = events[i]
        <5>1. PICK r \in Request : r = events[i] /\ r = events'[i]
          BY <2>5, <4>2
        <5>2. Event(r) /\ ~Handled(r)
          BY <2>7, <4>2, <5>1
        <5>3. Event(r)' /\ ~Handled(r)'
          BY <1>0, <2>2, <5>2 DEF Event, Kind, Handled
        <5>4. QED
          BY <5>1, <5>3 DEF Event, Awaited, IsAsked, Kind, Handled
      <4>3. QED
        BY <2>5, <4>1, <4>2
    <3>2. \A i \in 1..Len(events'), j \in 1..Len(events') :
              events'[i] = events'[j] => i = j
      BY <2>5, <2>7
    <3>3. QED
      BY <3>1, <3>2 DEF Queued
  <2>9. QED
    BY <1>1, <1>2, <2>1, <2>2, <2>8 DEF PatientInv
<1>4. ASSUME AskInference(u)
      PROVE  PatientInv'
  <2>1. Ask(u, "inference", work[u]) /\ UNCHANGED <<conn, events>>
        /\ work[u] \in Unit
    BY <1>4 DEF AskInference, NodeInv, TypeOK
  <2>2. /\ Asking'
        /\ \A r \in Request : Awaited(r) => Awaited(r)' /\ asked'[r] = asked[r]
    BY <1>0, <2>1, AskedNext
  <2>3. PICK q \in Request :
            /\ q = <<u, Sent(u) + 1>> /\ ~Awaited(q)
            /\ Awaited(q)' /\ Kind(q)' = "inference" /\ UnitOf(q)' = work[u]
    BY <1>0, <2>1, AskedNext
  <2>4. PICK k \in Unit : k = work[u]
    BY <2>1
  <2>5. CASE UNCHANGED inbox
    BY <1>1, <1>2, <2>1, <2>2, <2>5 DEF PatientInv
  <2>6. CASE inbox' = [inbox EXCEPT ![k] = Append(@, q)]
    <3>1. /\ inbox'[k] = Append(inbox[k], q) /\ inbox[k] \in Seq(Request)
          /\ \A m \in Unit : m # k => inbox'[m] = inbox[m]
      BY <2>6 DEF NodeInv, TypeOK
    <3>2. /\ \A i \in 1..Len(inbox'[k]) :
                \/ i \in 1..Len(inbox[k]) /\ inbox'[k][i] = inbox[k][i]
                \/ i = Len(inbox[k]) + 1 /\ inbox'[k][i] = q
          /\ \A m \in Unit : \A i \in 1..Len(inbox[m]) : inbox[m][i] \in Request
      BY <3>1, QueueItems, InFlightTypes DEF NodeInv
    <3>3. /\ ~Boxed(q) /\ ~Taken(q) /\ ~Pushed(q) /\ ~Worked(q)
      BY <2>3, ZenonT(60) DEF PatientInv, InOrder, InboxInOrder, SubInOrder, JobsInOrder,
                  WorkerInOrder, Goes, Inference, Boxed, Taken, Pushed, Worked
    <3>4. ASSUME NEW r \in Request
          PROVE  /\ Boxed(r)' => Boxed(r) \/ r = q
                 /\ Taken(r)' <=> Taken(r)
                 /\ Pushed(r)' <=> Pushed(r)
                 /\ Worked(r)' <=> Worked(r)
      <4>1. Boxed(r)' => Boxed(r) \/ r = q
        BY <3>1, <3>2 DEF Boxed
      <4>2. QED
        BY <1>0, <4>1 DEF Taken, Pushed, Worked
    <3>5. OnePlace'
      BY <3>3, <3>4 DEF PatientInv, OnePlace
    <3>6. Inference(q, k)'
      BY <2>3, <2>4 DEF Inference
    <3>7. \A r \in Request, m \in Unit :
            Inference(r, m) => Inference(r, m)' /\ asked'[r] = asked[r]
      BY <2>2 DEF Inference, Kind, UnitOf
    <3>8. ASSUME NEW m \in Unit
          PROVE  InboxInOrder(m)'
      <4>1. InboxInOrder(m)
        BY DEF PatientInv, InOrder
      <4>2. ASSUME NEW i \in 1..Len(inbox'[m])
            PROVE  \/ i \in 1..Len(inbox[m]) /\ inbox'[m][i] = inbox[m][i]
                   \/ m = k /\ i = Len(inbox[k]) + 1 /\ inbox'[m][i] = q
        BY <3>1, <3>2
      <4>3. ASSUME NEW i \in 1..Len(inbox'[m])
            PROVE  Inference(inbox[m][i], m)'
        <5>1. PICK r \in Request : r = inbox'[m][i]
          BY <2>3, <3>2, <4>2
        <5>2. Inference(r, m)'
          BY <3>6, <3>7, <4>1, <4>2, <5>1 DEF InboxInOrder
        <5>3. QED
          BY <5>1, <5>2 DEF Inference, Awaited, IsAsked, Kind, UnitOf
      <4>4. \A i \in 1..Len(inbox[m]) : inbox[m][i] = q => FALSE
        BY <3>3 DEF Boxed
      <4>5. \A i \in 1..Len(inbox'[m]), j \in 1..Len(inbox'[m]) :
                inbox'[m][i] = inbox'[m][j] => i = j
        BY <4>1, <4>2, <4>4 DEF InboxInOrder
      <4>6. QED
        BY <4>3, <4>5 DEF InboxInOrder
    <3>9. InOrder'
      <4>1. (\A m \in Unit : SubInOrder(m)') /\ JobsInOrder' /\ WorkerInOrder'
        BY <1>0, <3>7, SubAndWorkerKept
      <4>2. QED
        BY <3>8, <4>1 DEF InOrder
    <3>10. QED
      BY <1>1, <1>2, <2>1, <2>2, <3>5, <3>9 DEF PatientInv
  <2>7. QED
    BY <1>4, <2>3, <2>4, <2>5, <2>6 DEF AskInference
<1>5. ASSUME Reconnect(u)
      PROVE  PatientInv'
  <2>1. UNCHANGED <<asked, events, inbox>> /\ conn' = [conn EXCEPT ![u] = @ + 1]
        /\ ~Awaits(u)
    BY <1>5 DEF Reconnect, subVars
  <2>2. \A r \in Request : /\ Awaited(r)' <=> Awaited(r)
                           /\ asked'[r] = asked[r]
    BY <1>0, <2>1 DEF Awaited, IsAsked
  <2>3. ASSUME NEW r \in Request
        PROVE  Once(r)' /\ AtHome(r)'
    <3>1. Once(r) /\ AtHome(r)
      BY DEF PatientInv, Asking
    <3>2. Once(r)'
      BY <1>0, <2>1, <3>1 DEF Once, IsAsked, From, RightLabel, Kind
    <3>3. Awaited(r) => r[1] # u /\ r[1] \in Users
      BY <2>1, RequestIsPair DEF Awaits, Awaited
    <3>4. Awaited(r) => conn'[r[1]] = conn[r[1]]
      BY <2>1, <3>3 DEF NodeInv, TypeOK
    <3>5. AtHome(r)'
      BY <1>0, <2>1, <2>2, <3>1, <3>4 DEF AtHome, From, UnitOf
    <3>6. QED
      BY <3>2, <3>5
  <2>4. Asking'
    BY <2>2, <2>3 DEF Asking, OneByOne, PatientInv
  <2>5. QED
    BY <1>1, <1>2, <2>1, <2>2, <2>4 DEF PatientInv
<1>6. QED
  BY <1>3, <1>4, <1>5 DEF UserStep

(* The events that wait do so while the event thread works on another one.  *)
LEMMA QueueWaits ==
    ASSUME NodeInv, PatientInv, UNCHANGED <<asked, replies, events>>,
           \A r \in Request : Handled(r)' => Handled(r)
    PROVE  Queued'
<1>1. \A i \in 1..Len(events) : events[i] \in Request
  BY DEF NodeInv, TypeOK
<1>2. ASSUME NEW i \in 1..Len(events)
      PROVE  Event(events[i])' /\ ~Handled(events[i])'
  <2>1. PICK r \in Request : r = events[i] /\ r = events'[i]
    BY <1>1
  <2>2. Event(r) /\ ~Handled(r)
    BY <2>1 DEF PatientInv, Queued
  <2>3. Event(r)' /\ ~Handled(r)'
    BY <2>2 DEF Event, Awaited, IsAsked, Kind
  <2>4. QED
    BY <2>1, <2>3 DEF Event, Awaited, IsAsked, Kind, Handled
<1>3. QED
  BY <1>2 DEF PatientInv, Queued

(* The next event is awaited, and what is left of the queue is in order.    *)
LEMMA DequeuedNext ==
    ASSUME NodeInv, PatientInv, NEW r \in Request, Dequeue(r),
           UNCHANGED <<asked, replies>>, ev'.req = r
    PROVE  /\ ev = Idle /\ ev.step = "idle" /\ Event(r) /\ Event(r)'
           /\ asked[r] # Unasked /\ Kind(r)' = Kind(r) /\ Queued'
<1>1. /\ ev = Idle /\ events # <<>> /\ r = Head(events) /\ events' = Tail(events)
      /\ events \in Seq(Request)
  BY DEF Dequeue, NodeInv, TypeOK
<1>2. /\ r = events[1] /\ 1 \in 1..Len(events)
      /\ \A i \in 1..Len(events') :
            i + 1 \in 1..Len(events) /\ events'[i] = events[i + 1] /\ i + 1 # 1
  BY <1>1, QueueItems
<1>3. \A i \in 1..Len(events) :
          /\ events[i] \in Request /\ Event(events[i])
          /\ \A j \in 1..Len(events) : events[i] = events[j] => i = j
  BY DEF PatientInv, Queued, NodeInv, TypeOK
<1>4. Event(r) /\ Event(r)' /\ Kind(r)' = Kind(r)
  BY <1>2, <1>3 DEF Event, Awaited, IsAsked, Kind
<1>5. ASSUME NEW i \in 1..Len(events')
      PROVE  Event(events[i])' /\ ~Handled(events[i])'
  <2>1. PICK q \in Request : q = events[i + 1] /\ q = events'[i]
    BY <1>2, <1>3
  <2>2. Event(q) /\ q # r
    BY <1>2, <1>3, <2>1
  <2>3. Event(q)' /\ ~Handled(q)'
    BY <2>2 DEF Event, Awaited, IsAsked, Kind, Handled
  <2>4. QED
    BY <2>1, <2>3 DEF Event, Awaited, IsAsked, Kind, Handled
<1>6. \A i \in 1..Len(events'), j \in 1..Len(events') : events'[i] = events'[j] => i = j
  BY <1>2, <1>3
<1>7. QED
  BY <1>1, <1>4, <1>5, <1>6 DEF Queued, Idle, Event, Awaited, IsAsked

(* Where an event is handled no inference request is under way.             *)
LEMMA NoneUnderWay ==
    ASSUME NodeInv, PatientInv
    PROVE  /\ \A q \in Request, r \in Request, k \in Unit :
                 Event(q) /\ UnitOf(q) = k => ~Inference(r, k)
           /\ \A r \in Request, k \in Unit : Inference(r, k) => k <= units
<1>1. ASSUME NEW q \in Request, NEW r \in Request, NEW k \in Unit,
             Event(q), UnitOf(q) = k, Inference(r, k)
      PROVE  FALSE
  <2>1. q = r
    BY <1>1, OneInference DEF Event
  <2>2. QED
    BY <1>1, <2>1 DEF Event, Inference
<1>2. ASSUME NEW r \in Request, NEW k \in Unit, Inference(r, k)
      PROVE  k <= units
  BY <1>2, OneInference DEF PatientInv, Owned
<1>3. QED
  BY <1>1, <1>2

(* What the event thread works on, and what it leaves alone.                *)
LEMMA HandledEvent ==
    ASSUME NodeInv, PatientInv, ev.step \notin {"idle", "release"}
    PROVE  /\ ev \in EventStep /\ ev.req \in Request /\ Event(ev.req)
           /\ Awaited(ev.req) /\ ev.req[1] \in Users
           /\ From(ev.req) = <<ev.req[1], conn[ev.req[1]]>>
           /\ UnitOf(ev.req) = work[ev.req[1]]
<1>1. ev \in EventStep /\ ev.req \in Request
  BY EventAtWork DEF NodeInv, EventStep
<1>2. Event(ev.req) /\ Awaited(ev.req)
  BY DEF PatientInv, Handling, Event
<1>3. QED
  BY <1>1, <1>2, RequestIsPair DEF PatientInv, Asking, AtHome

(* The steps of the event thread that answer nothing: what they keep.       *)
LEMMA QuietEvent ==
    ASSUME NodeInv, PatientInv,
           UNCHANGED <<asked, replies, conn, work, sub, jobs, worker, crashed>>,
           \A k \in Unit : inbox'[k] \in {<<>>, inbox[k]},
           \A k \in Unit : ~channel'[k].held,
           \A k \in Unit : \/ /\ channel'[k].push = channel[k].push
                              /\ channel'[k].label = channel[k].label
                           \/ \A r \in Request : ~Inference(r, k)
    PROVE  Asking' /\ InOrder' /\ OnePlace' /\ Calm'
<1>1. Asking' /\ \A r \in Request, k \in Unit : Inference(r, k)' <=> Inference(r, k)
  BY AskingKept
<1>2. InOrder' /\ OnePlace'
  BY <1>1, JobsKept
<1>3. Calm'
  BY DEF PatientInv, Calm
<1>4. QED
  BY <1>1, <1>2, <1>3

(* setup.                                                                   *)
LEMMA SetupPatient ==
    ASSUME NodeInv, PatientInv,
           \/ \E r \in Request : SetupBegin(r)
           \/ SetupRefuse
           \/ SetupAccept
    PROVE  PatientInv'
<1>0. /\ NoUnit = 0 /\ Unit = 1..MaxUnit /\ MaxUnit \in Nat /\ units \in 0..MaxUnit
      /\ \A u \in Users : work[u] \in Unit \cup {NoUnit} /\ work[u] <= units
      /\ channel \in [Unit -> Channel] /\ \A k \in Unit : ~channel[k].held
  BY NodeAssumption DEF NodeInv, TypeOK, Unit, NoUnit, PatientInv, Owned, Calm
<1>1. ASSUME NEW r \in Request, SetupBegin(r)
      PROVE  PatientInv'
  <2>1. /\ Dequeue(r) /\ Kind(r) = "setup" /\ units + 1 \in Unit
        /\ units' = units + 1
        /\ ev' = [step |-> "admit", req |-> r, unit |-> units + 1]
        /\ UNCHANGED <<asked, replies, conn, work, inbox, sub, jobs, worker, crashed>>
    BY <1>0, <1>1 DEF SetupBegin, userVars, subVars, workerVars
  <2>2. ev'.step = "admit" /\ ev'.req = r /\ ev'.unit = units + 1
    BY <2>1
  <2>3. PICK c : c = [push |-> From(r), held |-> FALSE, label |-> r,
                      pub |-> TRUE, link |-> "none"]
    OBVIOUS
  <2>4. c.pub /\ ~c.held
    BY <2>3
  <2>5. channel' = [channel EXCEPT ![units + 1] = c]
    BY <1>1, <2>3 DEF SetupBegin
  <2>6. channel'[units + 1] = c /\ \A k \in Unit : k # units + 1 => channel'[k] = channel[k]
    BY <1>0, <2>1, <2>5
  <2>7. /\ ev.step = "idle" /\ Event(r)' /\ Kind(r)' = "setup" /\ Queued'
    BY <2>1, <2>2, DequeuedNext
  <2>8. Asking' /\ InOrder' /\ OnePlace' /\ Calm'
    <3>1. \A q \in Request : ~Inference(q, units + 1)
      BY <1>0, <2>1, NoneUnderWay
    <3>2. \A k \in Unit : ~channel'[k].held
      BY <1>0, <2>4, <2>6
    <3>3. QED
      BY <2>1, <2>6, <3>1, <3>2, QuietEvent
  <2>9. Owned'
    <3>1. ASSUME NEW u \in Users, work[u] # NoUnit
          PROVE  channel'[work[u]].pub
      <4>1. channel[work[u]].pub
        BY <2>7, <3>1 DEF PatientInv, Owned, Exiting
      <4>2. work[u] \in Unit /\ work[u] # units + 1
        BY <1>0, <3>1
      <4>3. QED
        BY <2>6, <4>1, <4>2
    <3>2. \A u \in Users : work[u] <= units'
      BY <1>0, <2>1
    <3>3. QED
      BY <2>1, <3>1, <3>2 DEF PatientInv, Owned
  <2>10. Handling'
    BY <2>2, <2>7 DEF Handling, Event, Awaited, IsAsked, Kind
  <2>11. Founding'
    <3>1. units + 1 \in 1..units' /\ \A u \in Users : work'[u] # units + 1
      BY <1>0, <2>1
    <3>2. QED
      BY <2>2, <2>4, <2>6, <3>1 DEF Founding
  <2>12. QED
    BY <2>7, <2>8, <2>9, <2>10, <2>11 DEF PatientInv
<1>2. ASSUME ev.step = "admit", ev' \in {[ev EXCEPT !.step = "refuse"], [ev EXCEPT !.step = "answer"]},
             UNCHANGED <<asked, replies, conn, work, inbox, sub, jobs, worker,
                         crashed, units, events>>,
             \A k \in Unit : /\ channel'[k].push = channel[k].push
                             /\ channel'[k].label = channel[k].label
                             /\ channel'[k].pub = channel[k].pub
                             /\ channel'[k].held = channel[k].held
      PROVE  PatientInv'
  <2>1. /\ ev.req \in Request /\ Event(ev.req) /\ ev \in EventStep
        /\ Kind(ev.req) = "setup"
    BY <1>2, HandledEvent DEF PatientInv, Handling
  <2>2. ev'.step \in {"refuse", "answer"} /\ ev'.req = ev.req /\ ev'.unit = ev.unit
    BY <1>2, <2>1 DEF EventStep
  <2>3. Kind(ev.req)' = "setup" /\ Event(ev.req)'
    BY <1>2, <2>1, <2>2 DEF Kind, Event, Awaited, IsAsked
  <2>4. Asking' /\ InOrder' /\ OnePlace' /\ Calm'
    BY <1>0, <1>2, QuietEvent
  <2>5. Handling'
    BY <2>2, <2>3 DEF Handling
  <2>6. Founding'
    <3>1. /\ ev.unit \in 1..units /\ channel[ev.unit].pub
          /\ \A u \in Users : work[u] # ev.unit
      BY <1>2, <2>1 DEF PatientInv, Founding
    <3>2. ev.unit \in Unit
      BY <1>0, <3>1
    <3>3. QED
      BY <1>2, <2>2, <3>1, <3>2 DEF Founding
  <2>7. Owned'
    <3>1. ASSUME NEW u \in Users, work[u] # NoUnit
          PROVE  channel'[work[u]].pub
      <4>1. channel[work[u]].pub
        BY <1>2, <3>1 DEF PatientInv, Owned, Exiting
      <4>2. QED
        BY <1>0, <1>2, <3>1, <4>1
    <3>2. QED
      BY <1>2, <3>1 DEF PatientInv, Owned
  <2>8. Queued'
    BY <1>2, <2>2, QueueWaits DEF Handled
  <2>9. QED
    BY <2>4, <2>5, <2>6, <2>7, <2>8 DEF PatientInv
<1>3. ASSUME SetupRefuse
      PROVE  PatientInv'
  BY <1>2, <1>3 DEF SetupRefuse, userVars, registryVars, subVars, workerVars
<1>4. ASSUME SetupAccept
      PROVE  PatientInv'
  <2>1. channel' = [channel EXCEPT ![ev.unit].link = "joining"]
    BY <1>4 DEF SetupAccept
  <2>2. \A k \in Unit : /\ channel'[k].push = channel[k].push
                        /\ channel'[k].label = channel[k].label
                        /\ channel'[k].pub = channel[k].pub
                        /\ channel'[k].held = channel[k].held
    BY <1>0, <2>1 DEF Channel
  <2>3. QED
    BY <1>2, <1>4, <2>2 DEF SetupAccept, userVars, registryVars, subVars, workerVars
<1>5. QED
  BY <1>1, <1>3, <1>4

(* exit, taskinfo and pause begin: no old socket blocks the event thread,   *)
(* and only the caller's own channel is redirected.                         *)
LEMMA CallerPatient ==
    ASSUME NodeInv, PatientInv, NEW r \in Request,
           ExitBegin(r) \/ TaskInfo(r) \/ Pause(r)
    PROVE  PatientInv'
<1>0. /\ NoUnit = 0 /\ Unit = 1..MaxUnit
      /\ \A u \in Users : work[u] \in Unit \cup {NoUnit}
      /\ channel \in [Unit -> Channel] /\ \A k \in Unit : ~channel[k].held
      /\ mapped \subseteq Unit
  BY DEF NodeInv, TypeOK, Unit, NoUnit, PatientInv, Calm
<1>1. /\ Dequeue(r)
      /\ UNCHANGED <<asked, replies, conn, work, units, inbox, sub, jobs, worker, crashed>>
  BY DEF ExitBegin, TaskInfo, Pause, userVars, registryVars, subVars, workerVars
<1>2. ASSUME NEW step \in {"stop", "unknown", "list"}, NEW unit,
             step # "list" => Kind(r) = "exit" /\ unit = UnitOf(r),
             ev' = [step |-> step, req |-> r, unit |-> unit],
             \/ UNCHANGED channel
             \/ /\ UnitOf(r) \in mapped
                /\ channel' = [channel EXCEPT ![UnitOf(r)] = Redirect(@, From(r))]
      PROVE  PatientInv'
  <2>1. ev'.step = step /\ ev'.req = r /\ ev'.unit = unit
    BY <1>2
  <2>2. /\ ev.step = "idle" /\ Event(r) /\ Event(r)' /\ Kind(r)' = Kind(r) /\ Queued'
        /\ asked[r] # Unasked
    BY <1>1, <2>1, DequeuedNext
  <2>3. UnitOf(r)' = UnitOf(r) /\ From(r) \in Url
    BY <1>1, <2>2 DEF UnitOf, From, NodeInv, TypeOK, Question
  <2>4. /\ \A k \in Unit : channel'[k].pub = channel[k].pub /\ ~channel'[k].held
        /\ \A k \in Unit : k # UnitOf(r) => channel'[k] = channel[k]
    <3>1. CASE UNCHANGED channel
      BY <1>0, <3>1
    <3>2. CASE /\ UnitOf(r) \in mapped
               /\ channel' = [channel EXCEPT ![UnitOf(r)] = Redirect(@, From(r))]
      <4>1. PICK k \in Unit : k = UnitOf(r)
        BY <1>0, <3>2
      <4>2. channel'[k] = Redirect(channel[k], From(r))
            /\ \A m \in Unit : m # k => channel'[m] = channel[m]
        BY <1>0, <3>2, <4>1
      <4>3. Redirect(channel[k], From(r)).pub = channel[k].pub
            /\ ~Redirect(channel[k], From(r)).held
        BY <1>0, <4>1 DEF Redirect, Channel
      <4>4. QED
        BY <1>0, <4>1, <4>2, <4>3
    <3>3. QED
      BY <1>2, <3>1, <3>2
  <2>5. \A k \in Unit : \/ channel'[k] = channel[k]
                        \/ \A q \in Request : ~Inference(q, k)
    BY <2>2, <2>4, NoneUnderWay
  <2>6. Asking' /\ InOrder' /\ OnePlace' /\ Calm'
    BY <1>1, <2>4, <2>5, QuietEvent
  <2>7. Handling'
    BY <1>2, <2>1, <2>2, <2>3 DEF Handling
  <2>8. Founding'
    BY <1>2, <2>1 DEF Founding
  <2>9. Owned'
    BY <1>0, <1>1, <2>2, <2>4 DEF PatientInv, Owned, Exiting
  <2>10. QED
    BY <2>2, <2>6, <2>7, <2>8, <2>9 DEF PatientInv
<1>3. ASSUME NEW step \in {"stop", "unknown", "list"},
             step # "list" => Kind(r) = "exit", PointToCaller(r, step)
      PROVE  PatientInv'
  <2>1. UnitOf(r) \in mapped => ~CloseBlocks(channel[UnitOf(r)], From(r))
    BY <1>0 DEF CloseBlocks
  <2>2. ev' = [step |-> step, req |-> r, unit |-> UnitOf(r)]
    BY <1>3, <2>1 DEF PointToCaller
  <2>3. \/ UNCHANGED channel
        \/ /\ UnitOf(r) \in mapped
           /\ channel' = [channel EXCEPT ![UnitOf(r)] = Redirect(@, From(r))]
    BY <1>3 DEF PointToCaller
  <2>4. QED
    BY <1>2, <1>3, <2>2, <2>3
<1>4. CASE ExitBegin(r)
  BY <1>3, <1>4 DEF ExitBegin
<1>5. CASE TaskInfo(r)
  BY <1>3, <1>5 DEF TaskInfo
<1>6. CASE Pause(r)
  BY <1>2, <1>6 DEF Pause
<1>7. QED
  BY <1>4, <1>5, <1>6

(* exit drops the sockets of the unit of the user that asked, and of nobody *)
(* else.                                                                    *)
LEMMA ExitStopPatient ==
    ASSUME NodeInv, PatientInv, ExitStop
    PROVE  PatientInv'
<1>0. /\ NoUnit \notin Unit /\ channel \in [Unit -> Channel]
      /\ inbox \in [Unit -> Seq(Request)]
      /\ \A u \in Users : work[u] \in Unit \cup {NoUnit}
      /\ \A k \in Unit : ~channel[k].held
  BY DEF NodeInv, TypeOK, Unit, NoUnit, PatientInv, Calm
<1>1. /\ ev.step = "stop"
      /\ channel' = [channel EXCEPT ![ev.unit].pub = FALSE,
                                    ![ev.unit].push = NoUrl,
                                    ![ev.unit].link = "none"]
      /\ inbox' = [inbox EXCEPT ![ev.unit] = <<>>]
      /\ ev' = [ev EXCEPT !.step = "answer"]
      /\ UNCHANGED <<asked, replies, conn, work, units, events, sub, jobs, worker,
                     crashed>>
  BY DEF ExitStop, userVars, registryVars, workerVars
<1>2. /\ ev \in EventStep /\ ev.req \in Request /\ Event(ev.req)
      /\ ev.req[1] \in Users /\ ev.unit = work[ev.req[1]]
      /\ Kind(ev.req) = "exit" /\ ev.unit = UnitOf(ev.req) /\ ev.unit \in Unit
  BY <1>1, HandledEvent DEF PatientInv, Handling, NodeInv, InFlight
<1>3. ev'.step = "answer" /\ ev'.req = ev.req
  BY <1>1, <1>2 DEF EventStep
<1>4. /\ \A k \in Unit : k # ev.unit => channel'[k] = channel[k]
      /\ \A k \in Unit : ~channel'[k].held
  BY <1>0, <1>1 DEF Channel
<1>5. Asking' /\ InOrder' /\ OnePlace' /\ Calm'
  <2>1. \A r \in Request : ~Inference(r, ev.unit)
    BY <1>2, NoneUnderWay
  <2>2. \A k \in Unit : inbox'[k] \in {<<>>, inbox[k]}
    BY <1>0, <1>1
  <2>3. QED
    BY <1>1, <1>4, <2>1, <2>2, QuietEvent
<1>6. Kind(ev.req)' = "exit" /\ Event(ev.req)'
  BY <1>1, <1>2, <1>3 DEF Kind, Event, Awaited, IsAsked
<1>7. Handling' /\ Founding'
  BY <1>3, <1>6 DEF Handling, Founding
<1>8. Owned'
  <2>1. ASSUME NEW u \in Users, work[u] # NoUnit
        PROVE  channel'[work[u]].pub \/ Exiting(u)'
    <3>1. CASE work[u] = ev.unit
      <4>1. u = ev.req[1]
        BY <1>2, <2>1, <3>1 DEF PatientInv, Owned
      <4>2. QED
        BY <1>3, <1>6, <4>1 DEF Exiting
    <3>2. CASE work[u] # ev.unit
      <4>1. channel[work[u]].pub
        BY <1>1, <2>1 DEF PatientInv, Owned, Exiting
      <4>2. QED
        BY <1>0, <1>4, <2>1, <3>2, <4>1
    <3>3. QED
      BY <3>1, <3>2
  <2>2. QED
    BY <1>1, <2>1 DEF PatientInv, Owned
<1>9. Queued'
  BY <1>1, <1>3, QueueWaits DEF Handled
<1>10. QED
  BY <1>5, <1>7, <1>8, <1>9 DEF PatientInv

(* The answer finds its connection open, once.                              *)
LEMMA AnswerGoesHome ==
    ASSUME NodeInv, PatientInv, Answer
    PROVE  /\ ev.step \in {"answer", "refuse", "unknown", "list"}
           /\ replies' = [replies EXCEPT ![ev.req] =
                  Append(@, [to |-> From(ev.req), label |-> RightLabel(ev.req)])]
           /\ ev' \in {Idle, [ev EXCEPT !.step = "release"]}
           /\ work' = [work EXCEPT ![ev.req[1]] =
                  IF ev.step = "answer" /\ Kind(ev.req) = "setup" THEN ev.unit
                  ELSE IF Kind(ev.req) = "exit" THEN NoUnit ELSE @]
<1>1. ev.step \in {"answer", "refuse", "unknown", "list"}
  BY DEF Answer
<1>2. From(ev.req) = <<ev.req[1], conn[ev.req[1]]>>
  BY <1>1, HandledEvent
<1>3. Open(From(ev.req))
  BY <1>2 DEF Open
<1>4. QED
  BY <1>1, <1>3 DEF Answer, Arrives, RightLabel

LEMMA AnswerPatient ==
    ASSUME NodeInv, PatientInv, Answer
    PROVE  PatientInv'
<1>0. /\ NoUnit \notin Unit /\ NoUnit \in Nat /\ work \in [Users -> Unit \cup {NoUnit}]
      /\ units \in 0..MaxUnit /\ MaxUnit \in Nat /\ Unit = 1..MaxUnit /\ NoUnit = 0
  BY NodeAssumption DEF NodeInv, TypeOK, Unit, NoUnit
<1>1. PICK r \in Request : r = ev.req
  BY HandledEvent DEF Answer
<1>2. PICK u \in Users : u = r[1]
  BY RequestIsPair
<1>3. /\ ev \in EventStep /\ Event(r) /\ Awaited(r)
      /\ ev.step \in {"answer", "refuse", "unknown", "list"}
  BY <1>1, HandledEvent DEF Answer
<1>4. UNCHANGED <<asked, conn, units, events, channel, inbox, sub, jobs, worker, crashed>>
  BY DEF Answer, registryVars, subVars, workerVars
<1>5. /\ replies' = [replies EXCEPT ![r] =
              Append(@, [to |-> From(r), label |-> RightLabel(r)])]
      /\ ev' \in {Idle, [ev EXCEPT !.step = "release"]}
  BY <1>1, AnswerGoesHome
<1>6. PICK w : w = IF ev.step = "answer" /\ Kind(r) = "setup" THEN ev.unit
                   ELSE IF Kind(r) = "exit" THEN NoUnit ELSE work[u]
  OBVIOUS
<1>7. work'[u] = w /\ \A v \in Users : v # u => work'[v] = work[v]
  BY <1>0, <1>1, <1>2, <1>6, AnswerGoesHome
<1>8. ev'.step \in {"idle", "release"}
  BY <1>3, <1>5 DEF Idle, EventStep
<1>9. /\ Asking' /\ ~Awaited(r)'
      /\ \A q \in Request : q # r => (Awaited(q)' <=> Awaited(q))
  BY <1>2, <1>3, <1>4, <1>5, <1>7, AnsweredNext
<1>10. Handling' /\ Founding'
  BY <1>8 DEF Handling, Founding
<1>11. InOrder' /\ OnePlace'
  <2>1. ASSUME NEW q \in Request, NEW k \in Unit, Inference(q, k)
        PROVE  Inference(q, k)' /\ asked'[q] = asked[q]
    <3>1. q # r
      BY <1>3, <2>1 DEF Event, Inference
    <3>2. QED
      BY <1>4, <1>9, <2>1, <3>1 DEF Inference, Kind, UnitOf
  <2>2. QED
    BY <1>4, <2>1, JobsKept
<1>12. Calm'
  BY <1>4 DEF PatientInv, Calm
<1>13. Queued'
  <2>1. \A i \in 1..Len(events) : events[i] \in Request
    BY DEF NodeInv, TypeOK
  <2>2. ASSUME NEW i \in 1..Len(events)
        PROVE  Event(events[i])' /\ ~Handled(events[i])'
    <3>1. PICK q \in Request : q = events[i] /\ q = events'[i]
      BY <1>4, <2>1
    <3>2. Event(q) /\ q # r
      BY <1>1, <1>3, <3>1 DEF PatientInv, Queued, Handled
    <3>3. Event(q)' /\ ~Handled(q)'
      BY <1>4, <1>8, <1>9, <3>2 DEF Event, Kind, Handled
    <3>4. QED
      BY <3>1, <3>3 DEF Event, Awaited, IsAsked, Kind, Handled
  <2>3. QED
    BY <1>4, <2>2 DEF PatientInv, Queued
<1>14. Owned'
  <2>1. \A v \in Users : v # u /\ work[v] # NoUnit => channel[work[v]].pub
    BY <1>1, <1>2 DEF PatientInv, Owned, Exiting
  <2>2. /\ w \in Nat /\ w <= units
        /\ w # NoUnit => channel[w].pub /\ \A v \in Users : v # u => work[v] # w
    <3>1. CASE ev.step = "answer" /\ Kind(r) = "setup"
      <4>1. w = ev.unit
        BY <1>6, <3>1
      <4>2. QED
        BY <1>0, <1>1, <3>1, <4>1 DEF PatientInv, Founding
    <3>2. CASE ~(ev.step = "answer" /\ Kind(r) = "setup") /\ Kind(r) = "exit"
      <4>1. w = NoUnit
        BY <1>6, <3>2
      <4>2. QED
        BY <1>0, <4>1
    <3>3. CASE ~(ev.step = "answer" /\ Kind(r) = "setup") /\ Kind(r) # "exit"
      <4>1. w = work[u]
        BY <1>6, <3>3
      <4>2. work[u] \in Nat
        BY <1>0
      <4>3. QED
        BY <1>1, <1>2, <3>3, <4>1, <4>2 DEF PatientInv, Owned, Exiting
    <3>4. QED
      BY <3>1, <3>2, <3>3
  <2>3. \A v \in Users : work'[v] <= units'
    BY <1>4, <1>7, <2>2 DEF PatientInv, Owned
  <2>4. \A v \in Users, x \in Users : work'[v] = work'[x] /\ work'[v] # NoUnit => v = x
    BY <1>7, <2>2 DEF PatientInv, Owned
  <2>5. \A v \in Users : work'[v] # NoUnit => channel'[work'[v]].pub
    BY <1>4, <1>7, <2>1, <2>2
  <2>6. QED
    BY <2>3, <2>4, <2>5 DEF Owned
<1>15. QED
  BY <1>9, <1>10, <1>11, <1>12, <1>13, <1>14 DEF PatientInv

LEMMA ReleasePatient ==
    ASSUME NodeInv, PatientInv, Release
    PROVE  PatientInv'
<1>1. /\ ev.step = "release" /\ ev' = Idle /\ ev'.step = "idle"
      /\ UNCHANGED <<asked, replies, conn, work, units, events, channel, inbox,
                     sub, jobs, worker, crashed>>
  BY DEF Release, Idle, userVars, subVars, workerVars
<1>2. Asking' /\ InOrder' /\ OnePlace' /\ Calm'
  BY <1>1, QuietEvent DEF PatientInv, Calm
<1>3. Handling' /\ Founding'
  BY <1>1 DEF Handling, Founding
<1>4. Queued'
  BY <1>1, QueueWaits DEF Handled
<1>5. Owned'
  BY <1>1 DEF PatientInv, Owned, Exiting
<1>6. QED
  BY <1>2, <1>3, <1>4, <1>5 DEF PatientInv

(* What a step of a SUB thread or of the worker that is about request r     *)
(* keeps of the others.                                                     *)
JobFine(b) ==
    /\ Goes(b.req, UnitOf(b.req)) /\ b.label = b.req
    /\ UnitOf(b.req) \in Unit

OnlyAbout(r) ==
    /\ UNCHANGED <<asked, conn, events, ev, work, units>>
    /\ \A k \in Unit : channel'[k].pub = channel[k].pub /\ ~channel'[k].held
    /\ UNCHANGED crashed
    /\ \A q \in Request : q # r => (Awaited(q)' <=> Awaited(q))
    /\ \A q \in Request, k \in Unit :
          Inference(q, k) /\ q # r =>
              /\ channel'[k].push = channel[k].push
              /\ channel'[k].label = channel[k].label

LEMMA OthersKept ==
    ASSUME NodeInv, PatientInv, NEW r \in Request, Kind(r) = "inference",
           OnlyAbout(r)
    PROVE  /\ Owned' /\ Queued' /\ Handling' /\ Founding' /\ Calm'
           /\ UNCHANGED inbox /\ ~Boxed(r) => \A k \in Unit : InboxInOrder(k)'
           /\ \A k \in Unit :
                 sub'[k] = Idle \/ (sub'[k] = sub[k] /\ sub[k].req # r)
                     => SubInOrder(k)'
           /\ UNCHANGED jobs /\ ~Pushed(r) => JobsInOrder'
           /\ UNCHANGED worker /\ ~Worked(r) => WorkerInOrder'
           /\ \A q \in Request, k \in Unit : Inference(q, k) /\ q # r => Inference(q, k)'
           /\ \A b \in Job : JobFine(b) /\ b.req # r => JobFine(b)'
<1>0. /\ \A k \in Unit : \A i \in 1..Len(inbox[k]) : inbox[k][i] \in Request
      /\ \A k \in Unit : sub[k] # Idle => sub[k].req \in Request
      /\ \A i \in 1..Len(jobs) : jobs[i] \in Job /\ jobs[i].req \in Request
      /\ worker # Idle => worker.job.req \in Request /\ UnitOf(worker.job.req) \in Unit
  BY InFlightTypes DEF NodeInv, InFlight, TypeOK
<1>1. \A q \in Request : Event(q) => Event(q)' /\ asked'[q] = asked[q]
  BY DEF OnlyAbout, Event, Kind
<1>2. Owned' /\ Queued' /\ Handling' /\ Founding'
  BY <1>1, EventsKept DEF OnlyAbout
<1>3. Calm'
  BY DEF OnlyAbout, PatientInv, Calm
<1>4. \A q \in Request, k \in Unit : Inference(q, k) /\ q # r => Inference(q, k)'
  BY DEF OnlyAbout, Inference, Kind, UnitOf
<1>5. \A q \in Request, k \in Unit :
          Goes(q, k) /\ q # r => Goes(q, k)' /\ channel'[k].label = channel[k].label
  BY <1>4 DEF Goes, OnlyAbout, From
<1>6. ASSUME UNCHANGED inbox, ~Boxed(r), NEW k \in Unit
      PROVE  InboxInOrder(k)'
  <2>1. InboxInOrder(k)
    BY DEF PatientInv, InOrder
  <2>2. ASSUME NEW i \in 1..Len(inbox[k])
        PROVE  Inference(inbox[k][i], k)'
    <3>1. PICK q \in Request : q = inbox[k][i] /\ q = inbox'[k][i]
      BY <1>0, <1>6
    <3>2. Inference(q, k) /\ q # r
      BY <1>6, <2>1, <3>1 DEF InboxInOrder, Boxed
    <3>3. Inference(q, k)'
      BY <1>4, <3>2
    <3>4. QED
      BY <3>1, <3>3 DEF Inference, Awaited, IsAsked, Kind, UnitOf
  <2>3. QED
    BY <1>6, <2>1, <2>2 DEF InboxInOrder
<1>7. ASSUME NEW k \in Unit,
             sub'[k] = Idle \/ (sub'[k] = sub[k] /\ sub[k].req # r)
      PROVE  SubInOrder(k)'
  <2>1. CASE sub'[k] = Idle
    BY <2>1 DEF SubInOrder
  <2>2. CASE sub'[k] = sub[k] /\ sub[k].req # r /\ sub[k] # Idle
    <3>1. PICK q \in Request : q = sub[k].req /\ q = sub'[k].req
      BY <1>0, <2>2
    <3>2. sub[k].step = "dispatch" /\ Goes(q, k) /\ channel[k].label = q
      BY <2>2, <3>1 DEF PatientInv, InOrder, SubInOrder
    <3>3. Goes(q, k)' /\ channel'[k].label = q
      BY <1>5, <2>2, <3>1, <3>2
    <3>4. QED
      BY <2>2, <3>1, <3>2, <3>3
         DEF SubInOrder, Goes, Inference, Awaited, IsAsked, Kind, UnitOf, From
  <2>3. QED
    BY <1>7, <2>1, <2>2
<1>8. ASSUME NEW b \in Job, JobFine(b), b.req # r
      PROVE  JobFine(b)'
  <2>1. b.req \in Request
    BY DEF Job
  <2>2. PICK k \in Unit : k = UnitOf(b.req)
    BY <1>8 DEF JobFine
  <2>3. Goes(b.req, k)' /\ UnitOf(b.req)' = k
    BY <1>5, <1>8, <2>1, <2>2 DEF JobFine, OnlyAbout, UnitOf
  <2>4. QED
    BY <1>8, <2>3 DEF JobFine
<1>9. ASSUME UNCHANGED jobs, ~Pushed(r)
      PROVE  JobsInOrder'
  <2>1. ASSUME NEW i \in 1..Len(jobs)
        PROVE  JobFine(jobs[i])'
    <3>1. PICK b \in Job : b = jobs[i] /\ b = jobs'[i]
      BY <1>0, <1>9
    <3>2. JobFine(b) /\ b.req # r
      BY <1>9, <3>1 DEF PatientInv, InOrder, JobsInOrder, JobFine, Pushed
    <3>3. JobFine(b)'
      BY <1>8, <3>2
    <3>4. QED
      BY <3>1, <3>3
         DEF JobFine, Goes, Inference, Awaited, IsAsked, Kind, UnitOf, From
  <2>2. QED
    BY <1>9, <2>1 DEF PatientInv, InOrder, JobsInOrder, JobFine
<1>10. ASSUME UNCHANGED worker, ~Worked(r)
       PROVE  WorkerInOrder'
  <2>1. ASSUME worker # Idle
        PROVE  /\ Goes(worker.job.req, UnitOf(worker.job.req))'
               /\ (channel[UnitOf(worker.job.req)].label = worker.job.req)'
    <3>1. PICK q \in Request : q = worker.job.req /\ q = worker'.job.req
      BY <1>0, <1>10, <2>1
    <3>2. PICK k \in Unit : k = UnitOf(q)
      BY <1>0, <2>1, <3>1
    <3>3. Goes(q, k) /\ channel[k].label = q /\ q # r
      BY <1>10, <2>1, <3>1, <3>2 DEF PatientInv, InOrder, WorkerInOrder, Worked
    <3>4. Goes(q, k)' /\ UnitOf(q)' = k /\ channel'[k].label = q
      BY <1>5, <3>2, <3>3 DEF OnlyAbout, UnitOf
    <3>5. QED
      BY <3>1, <3>4 DEF Goes, Inference, Awaited, IsAsked, Kind, UnitOf, From
  <2>2. QED
    BY <1>10, <2>1 DEF PatientInv, InOrder, WorkerInOrder
<1>11. UNCHANGED inbox /\ ~Boxed(r) => \A k \in Unit : InboxInOrder(k)'
  BY <1>6
<1>12. \A k \in Unit :
           sub'[k] = Idle \/ (sub'[k] = sub[k] /\ sub[k].req # r)
               => SubInOrder(k)'
  BY <1>7
<1>13. \A b \in Job : JobFine(b) /\ b.req # r => JobFine(b)'
  BY <1>8
<1>14. QED
  BY <1>2, <1>3, <1>4, <1>9, <1>10, <1>11, <1>12, <1>13

(* The result of a request whose channel is its own goes home.              *)
LEMMA SendHome ==
    ASSUME NodeInv, PatientInv, NEW k \in Unit, NEW r \in Request,
           Goes(r, k), channel[k].label = r, ChannelSend(k, r)
    PROVE  /\ UNCHANGED <<channel, crashed>>
           /\ replies' = [replies EXCEPT ![r] =
                  Append(@, [to |-> From(r), label |-> RightLabel(r)])]
<1>1. Inference(r, k) /\ channel[k].push = From(r)
  BY DEF Goes
<1>2. channel[k].pub /\ From(r) = <<r[1], conn[r[1]]>>
  BY <1>1, OneInference
<1>3. Open(channel[k].push)
  BY <1>1, <1>2 DEF Open
<1>4. RightLabel(r) = r
  BY <1>1 DEF RightLabel, Inference
<1>5. QED
  BY <1>1, <1>2, <1>3, <1>4 DEF ChannelSend, Arrives

(* The SUB threads.                                                         *)
LEMMA JoinPatient ==
    ASSUME NodeInv, PatientInv, NEW k \in Unit, Join(k)
    PROVE  PatientInv'
<1>1. UNCHANGED <<asked, replies, conn, work, units, events, ev, inbox, sub, jobs,
                  worker, crashed>>
  BY DEF Join, userVars, registryVars, subVars, workerVars
<1>2. \A m \in Unit : /\ channel'[m].push = channel[m].push
                      /\ channel'[m].label = channel[m].label
                      /\ channel'[m].pub = channel[m].pub
                      /\ channel'[m].held = channel[m].held
  BY DEF Join, NodeInv, TypeOK, Channel
<1>3. Asking' /\ InOrder' /\ OnePlace' /\ Calm'
  BY <1>1, <1>2, QuietEvent DEF PatientInv, Calm
<1>4. \A r \in Request : Event(r) => Event(r)' /\ asked'[r] = asked[r]
  BY <1>1, AskingKept
<1>5. Owned' /\ Queued' /\ Handling' /\ Founding'
  BY <1>1, <1>2, <1>4, EventsKept
<1>6. QED
  BY <1>3, <1>5 DEF PatientInv

(* The channel takes over the URL and the id of the unit's only request.    *)
LEMMA SubTakePatient ==
    ASSUME NodeInv, PatientInv, NEW k \in Unit, SubTake(k)
    PROVE  PatientInv'
<1>0. /\ \A m \in Unit : \A i \in 1..Len(inbox[m]) : inbox[m][i] \in Request
      /\ channel \in [Unit -> Channel] /\ sub \in [Unit -> {Idle} \cup SubStep]
      /\ inbox \in [Unit -> Seq(Request)] /\ \A m \in Unit : ~channel[m].held
      /\ \A m \in Unit : InboxInOrder(m) /\ SubInOrder(m)
  BY InFlightTypes DEF NodeInv, TypeOK, PatientInv, Calm, InOrder
<1>1. /\ sub[k] = Idle /\ inbox[k] # <<>> /\ inbox' = [inbox EXCEPT ![k] = Tail(@)]
      /\ UNCHANGED <<asked, replies, conn, work, units, events, ev, jobs, worker,
                     crashed>>
  BY DEF SubTake, userVars, registryVars, workerVars
<1>2. PICK r \in Request : r = Head(inbox[k])
  BY <1>0, <1>1, QueueItems
<1>3. /\ r = inbox[k][1] /\ 1 \in 1..Len(inbox[k])
      /\ inbox'[k] = Tail(inbox[k])
      /\ \A i \in 1..Len(inbox'[k]) :
            i + 1 \in 1..Len(inbox[k]) /\ inbox'[k][i] = inbox[k][i + 1] /\ i + 1 # 1
      /\ \A m \in Unit : m # k => inbox'[m] = inbox[m]
  BY <1>0, <1>1, <1>2, QueueItems
<1>4. Inference(r, k) /\ Kind(r) = "inference"
  BY <1>0, <1>3 DEF InboxInOrder, Inference
<1>5. ~CloseBlocks(channel[k], From(r))
  BY <1>0 DEF CloseBlocks
<1>6. /\ sub' = [sub EXCEPT ![k] = [step |-> "dispatch", req |-> r]]
      /\ channel' = [channel EXCEPT ![k] = TakeOver(@, r)]
  BY <1>2, <1>5 DEF SubTake
<1>7. /\ sub'[k].step = "dispatch" /\ sub'[k].req = r
      /\ \A m \in Unit : m # k => sub'[m] = sub[m] /\ channel'[m] = channel[m]
      /\ channel'[k] = TakeOver(channel[k], r)
  BY <1>0, <1>6
<1>8. channel'[k].push = From(r) /\ channel'[k].label = r
      /\ channel'[k].pub = channel[k].pub /\ ~channel'[k].held
  <2>1. channel[k] \in Channel /\ ~channel[k].held
    BY <1>0
  <2>2. From(r) \in Url
    BY <1>4 DEF Inference, Awaited, IsAsked, From, NodeInv, TypeOK, Question
  <2>3. Redirect(channel[k], From(r)) \in Channel
        /\ Redirect(channel[k], From(r)).push = From(r)
        /\ Redirect(channel[k], From(r)).pub = channel[k].pub
    BY <2>1, <2>2, RedirectOnly
  <2>4. ~Redirect(channel[k], From(r)).held
    BY <2>1 DEF Redirect, Channel
  <2>5. QED
    BY <1>7, <2>3, <2>4 DEF TakeOver, Channel
<1>9. /\ Asking'
      /\ \A q \in Request : Awaited(q)' <=> Awaited(q)
      /\ \A q \in Request, m \in Unit : Inference(q, m)' <=> Inference(q, m)
  BY <1>1, AskingKept
<1>10. \A q \in Request : Inference(q, k) => q = r
  BY <1>4, OneInference DEF Inference
<1>11. OnlyAbout(r)
  <2>1. \A m \in Unit : channel'[m].pub = channel[m].pub /\ ~channel'[m].held
    BY <1>0, <1>7, <1>8
  <2>2. \A q \in Request, m \in Unit :
            Inference(q, m) /\ q # r => channel'[m] = channel[m]
    BY <1>7, <1>10
  <2>3. QED
    BY <1>1, <1>9, <2>1, <2>2 DEF OnlyAbout
<1>12. Boxed(r) /\ ~Taken(r) /\ ~Pushed(r) /\ ~Worked(r)
  <2>1. Boxed(r)
    BY <1>3 DEF Boxed
  <2>2. QED
    BY <2>1 DEF PatientInv, OnePlace
<1>13. Owned' /\ Queued' /\ Handling' /\ Founding' /\ Calm' /\ JobsInOrder' /\ WorkerInOrder'
  BY <1>1, <1>4, <1>11, <1>12, OthersKept
<1>14. ASSUME NEW m \in Unit
       PROVE  SubInOrder(m)'
  <2>1. CASE m = k
    <3>1. Inference(r, k)' /\ From(r)' = From(r)
      BY <1>1, <1>4, <1>9 DEF From
    <3>2. Goes(r, k)'
      BY <1>8, <3>1 DEF Goes
    <3>3. QED
      BY <1>7, <1>8, <2>1, <3>2
         DEF SubInOrder, Goes, Inference, Awaited, IsAsked, Kind, UnitOf, From
  <2>2. CASE m # k
    <3>1. sub'[m] = Idle \/ (sub'[m] = sub[m] /\ sub[m].req # r)
      BY <1>7, <1>12, <2>2 DEF Taken
    <3>2. QED
      BY <1>4, <1>11, <3>1, OthersKept
  <2>3. QED
    BY <2>1, <2>2
<1>15. ASSUME NEW m \in Unit
       PROVE  InboxInOrder(m)'
  <2>1. ASSUME NEW i \in 1..Len(inbox'[m])
        PROVE  Inference(inbox[m][i], m)'
    <3>0. PICK j \in 1..Len(inbox[m]) : inbox'[m][i] = inbox[m][j]
      BY <1>3, <2>1
    <3>1. PICK q \in Request : q = inbox'[m][i] /\ Inference(q, m)
      BY <1>0, <3>0 DEF InboxInOrder
    <3>2. Inference(q, m)'
      BY <1>9, <3>1
    <3>3. QED
      BY <3>1, <3>2 DEF Inference, Awaited, IsAsked, Kind, UnitOf
  <2>2. \A i \in 1..Len(inbox'[m]), j \in 1..Len(inbox'[m]) :
            inbox'[m][i] = inbox'[m][j] => i = j
    <3>1. CASE m # k
      BY <1>0, <1>3, <3>1 DEF InboxInOrder
    <3>2. CASE m = k
      <4>1. \A i \in 1..Len(inbox[k]), j \in 1..Len(inbox[k]) :
                inbox[k][i] = inbox[k][j] => i = j
        BY <1>0 DEF InboxInOrder
      <4>2. ASSUME NEW i \in 1..Len(inbox'[k]), NEW j \in 1..Len(inbox'[k]),
                   inbox'[k][i] = inbox'[k][j]
            PROVE  i = j
        <5>1. i + 1 = j + 1
          BY <1>3, <4>1, <4>2
        <5>2. i \in Nat /\ j \in Nat
          OBVIOUS
        <5>3. QED
          BY <5>1, <5>2
      <4>3. QED
        BY <3>2, <4>2
    <3>3. QED
      BY <3>1, <3>2
  <2>3. QED
    BY <2>1, <2>2 DEF InboxInOrder
<1>16. OnePlace'
  <2>1. ~Boxed(r)'
    <3>1. ASSUME NEW m \in Unit, NEW i \in 1..Len(inbox'[m]), inbox'[m][i] = r
          PROVE  FALSE
      <4>1. CASE m # k
        <5>1. Inference(r, m)
          BY <1>0, <1>3, <3>1, <4>1 DEF InboxInOrder
        <5>2. QED
          BY <1>4, <4>1, <5>1 DEF Inference
      <4>2. CASE m = k
        <5>1. i + 1 \in 1..Len(inbox[k]) /\ inbox[k][i + 1] = inbox[k][1] /\ i + 1 # 1
          BY <1>3, <3>1, <4>2
        <5>2. QED
          BY <1>0, <1>3, <5>1 DEF InboxInOrder
      <4>3. QED
        BY <4>1, <4>2
    <3>2. QED
      BY <3>1 DEF Boxed
  <2>2. ASSUME NEW q \in Request
        PROVE  /\ Boxed(q)' => Boxed(q)
               /\ Taken(q)' => Taken(q) \/ q = r
               /\ Pushed(q)' <=> Pushed(q)
               /\ Worked(q)' <=> Worked(q)
    <3>1. Boxed(q)' => Boxed(q)
      BY <1>3 DEF Boxed
    <3>2. Taken(q)' => Taken(q) \/ q = r
      BY <1>7 DEF Taken
    <3>3. QED
      BY <1>1, <3>1, <3>2 DEF Pushed, Worked
  <2>3. QED
    BY <1>12, <2>1, <2>2 DEF PatientInv, OnePlace
<1>17. QED
  BY <1>9, <1>13, <1>14, <1>15, <1>16 DEF PatientInv, InOrder

(* The job has the label of its request; a full queue answers it at once.   *)
LEMMA SubDispatchPatient ==
    ASSUME NodeInv, PatientInv, NEW k \in Unit, SubDispatch(k)
    PROVE  PatientInv'
<1>0. /\ sub[k] # Idle /\ sub' = [sub EXCEPT ![k] = Idle]
      /\ UNCHANGED <<asked, conn, work, units, events, ev, inbox, worker>>
  BY DEF SubDispatch, userVars, registryVars, Idle
<1>1. PICK r \in Request : r = sub[k].req
  BY <1>0, InFlightTypes DEF NodeInv
<1>2. /\ Goes(r, k) /\ channel[k].label = r /\ Inference(r, k)
      /\ Kind(r) = "inference" /\ Awaited(r) /\ UnitOf(r) = k
  BY <1>0, <1>1 DEF PatientInv, InOrder, SubInOrder, Goes, Inference
<1>3. Taken(r) /\ ~Boxed(r) /\ ~Pushed(r) /\ ~Worked(r)
  <2>1. Taken(r)
    BY <1>0, <1>1 DEF Taken
  <2>2. QED
    BY <2>1 DEF PatientInv, OnePlace
<1>4. \A m \in Unit : sub'[m] = Idle \/ (sub'[m] = sub[m] /\ sub[m].req # r)
  <2>1. ASSUME NEW m \in Unit, m # k, sub[m] # Idle, sub[m].req = r
        PROVE  FALSE
    <3>1. Inference(r, m)
      BY <2>1 DEF PatientInv, InOrder, SubInOrder, Goes
    <3>2. QED
      BY <1>2, <2>1, <3>1 DEF Inference
  <2>2. /\ sub'[k] = Idle
        /\ \A m \in Unit : m # k => sub'[m] = sub[m]
    BY <1>0 DEF NodeInv, TypeOK
  <2>3. QED
    BY <2>1, <2>2
<1>5. \A m \in Unit : sub'[m] # Idle => sub[m] # Idle /\ sub'[m] = sub[m] /\ sub[m].req # r
  BY <1>4
<1>6. ~Taken(r)' /\ \A q \in Request : /\ Taken(q)' => Taken(q)
                                       /\ Boxed(q)' <=> Boxed(q)
                                       /\ Worked(q)' <=> Worked(q)
  BY <1>0, <1>5 DEF Taken, Boxed, Worked
<1>7. ASSUME OnlyAbout(r)
      PROVE  /\ Owned' /\ Queued' /\ Handling' /\ Founding' /\ Calm'
             /\ WorkerInOrder'
             /\ \A m \in Unit : InboxInOrder(m)' /\ SubInOrder(m)'
             /\ UNCHANGED jobs => JobsInOrder'
             /\ \A b \in Job : JobFine(b) /\ b.req # r => JobFine(b)'
  BY <1>0, <1>2, <1>3, <1>4, <1>7, OthersKept
<1>8. CASE UNCHANGED <<jobs, replies, channel, crashed>>
  <2>1. Asking' /\ \A q \in Request : Awaited(q)' <=> Awaited(q)
    BY <1>0, <1>8, AskingKept
  <2>2. OnlyAbout(r)
    BY <1>0, <1>8, <2>1 DEF OnlyAbout, PatientInv, Calm
  <2>3. OnePlace'
    BY <1>6, <1>8 DEF PatientInv, OnePlace, Pushed
  <2>4. QED
    BY <1>7, <1>8, <2>1, <2>2, <2>3 DEF PatientInv, InOrder
<1>9. CASE /\ jobs' = Append(jobs, [req |-> sub[k].req, label |-> channel[k].label])
           /\ UNCHANGED <<replies, channel, crashed>>
  <2>1. /\ Asking' /\ \A q \in Request : Awaited(q)' <=> Awaited(q)
        /\ \A q \in Request, m \in Unit : Inference(q, m)' <=> Inference(q, m)
    BY <1>0, <1>9, AskingKept
  <2>2. OnlyAbout(r)
    BY <1>0, <1>9, <2>1 DEF OnlyAbout, PatientInv, Calm
  <2>3. PICK b \in Job : b = [req |-> r, label |-> r]
    BY DEF Job, Label
  <2>4. b.req = r /\ b.label = r /\ jobs' = Append(jobs, b)
    BY <1>1, <1>2, <1>9, <2>3
  <2>5. /\ \A i \in 1..Len(jobs') :
              \/ i \in 1..Len(jobs) /\ jobs'[i] = jobs[i]
              \/ i = Len(jobs) + 1 /\ jobs'[i] = b
        /\ \A i \in 1..Len(jobs) : jobs[i] \in Job /\ jobs[i].req # r
    <3>1. jobs \in Seq(Job)
      BY DEF NodeInv, TypeOK
    <3>2. \A i \in 1..Len(jobs) : jobs[i] \in Job /\ jobs[i].req # r
      BY <1>3, <3>1 DEF Pushed
    <3>3. QED
      BY <2>4, <3>1, <3>2, QueueItems
  <2>6. \A i \in 1..Len(jobs) :
            /\ JobFine(jobs[i])
            /\ \A j \in 1..Len(jobs) : jobs[i].req = jobs[j].req => i = j
    BY DEF PatientInv, InOrder, JobsInOrder, JobFine
  <2>7. JobFine(b)'
    <3>1. Goes(r, k)' /\ UnitOf(r)' = k
      BY <1>0, <1>2, <1>9, <2>1 DEF Goes, From, UnitOf
    <3>2. QED
      BY <2>4, <3>1 DEF JobFine
  <2>8. JobsInOrder'
    <3>1. ASSUME NEW i \in 1..Len(jobs')
          PROVE  JobFine(jobs[i])'
      <4>1. PICK c \in Job : c = jobs'[i]
        BY <2>5
      <4>2. JobFine(c)'
        BY <1>7, <2>2, <2>5, <2>6, <2>7, <4>1
      <4>3. QED
        BY <4>1, <4>2
           DEF JobFine, Goes, Inference, Awaited, IsAsked, Kind, UnitOf, From
    <3>2. \A i \in 1..Len(jobs'), j \in 1..Len(jobs') :
              jobs'[i].req = jobs'[j].req => i = j
      BY <2>4, <2>5, <2>6
    <3>3. QED
      BY <3>1, <3>2 DEF JobsInOrder, JobFine
  <2>9. OnePlace'
    <3>1. \A q \in Request : Pushed(q)' => Pushed(q) \/ q = r
      BY <2>4, <2>5 DEF Pushed
    <3>2. QED
      BY <1>3, <1>6, <3>1 DEF PatientInv, OnePlace
  <2>10. QED
    BY <1>7, <2>1, <2>2, <2>8, <2>9 DEF PatientInv, InOrder
<1>10. CASE ChannelSend(k, r) /\ UNCHANGED jobs
  <2>1. /\ UNCHANGED <<channel, crashed>>
        /\ replies' = [replies EXCEPT ![r] =
               Append(@, [to |-> From(r), label |-> RightLabel(r)])]
    BY <1>2, <1>10, SendHome
  <2>2. /\ Asking' /\ \A q \in Request : q # r => (Awaited(q)' <=> Awaited(q))
    BY <1>0, <1>2, <2>1, AnsweredNext
  <2>3. OnlyAbout(r)
    BY <1>0, <2>1, <2>2 DEF OnlyAbout, PatientInv, Calm
  <2>4. OnePlace'
    BY <1>6, <1>10 DEF PatientInv, OnePlace, Pushed
  <2>5. QED
    BY <1>7, <1>10, <2>2, <2>3, <2>4 DEF PatientInv, InOrder
<1>11. QED
  BY <1>1, <1>8, <1>9, <1>10 DEF SubDispatch, RefuseJob

(* The worker.                                                              *)
LEMMA WorkerPatient ==
    ASSUME NodeInv, PatientInv, Worker
    PROVE  PatientInv'
<1>0. /\ UNCHANGED <<asked, conn, work, units, events, ev, inbox, sub>>
      /\ channel \in [Unit -> Channel] /\ jobs \in Seq(Job)
      /\ \A k \in Unit : ~channel[k].held
  BY DEF Worker, WorkerTake, WorkerRun, WorkerSend, userVars, registryVars, subVars,
         NodeInv, TypeOK, PatientInv, Calm
<1>1. ASSUME NEW r \in Request, OnlyAbout(r), Kind(r) = "inference",
             ~Boxed(r), ~Taken(r)
      PROVE  /\ Owned' /\ Queued' /\ Handling' /\ Founding' /\ Calm'
             /\ \A m \in Unit : InboxInOrder(m)' /\ SubInOrder(m)'
             /\ UNCHANGED jobs /\ ~Pushed(r) => JobsInOrder'
             /\ UNCHANGED worker /\ ~Worked(r) => WorkerInOrder'
             /\ \A b \in Job : JobFine(b) /\ b.req # r => JobFine(b)'
  <2>1. \A m \in Unit : sub'[m] = Idle \/ (sub'[m] = sub[m] /\ sub[m].req # r)
    BY <1>0, <1>1 DEF Taken
  <2>2. QED
    BY <1>0, <1>1, <2>1, OthersKept
<1>2. \A q \in Request : (Boxed(q)' <=> Boxed(q)) /\ (Taken(q)' <=> Taken(q))
  BY <1>0 DEF Boxed, Taken
<1>3. ASSUME NEW k \in Unit, NEW l \in Label,
             channel' = [channel EXCEPT ![k].label = l]
      PROVE  /\ channel'[k].label = l
             /\ \A m \in Unit : /\ channel'[m].push = channel[m].push
                                /\ channel'[m].pub = channel[m].pub
                                /\ channel'[m].held = channel[m].held
                                /\ m # k => channel'[m].label = channel[m].label
  <2>1. channel[k] \in Channel
    BY <1>0
  <2>2. channel'[k] = [channel[k] EXCEPT !.label = l]
        /\ \A m \in Unit : m # k => channel'[m] = channel[m]
    BY <1>0, <1>3
  <2>3. QED
    BY <2>1, <2>2 DEF Channel
<1>4. ASSUME worker.step \in {"run", "send"}, NEW r \in Request, r = worker.job.req
      PROVE  /\ worker # Idle /\ worker \in WorkerStep /\ worker.job \in Job
             /\ UnitOf(r) \in Unit
             /\ Inference(r, UnitOf(r)) /\ Kind(r) = "inference" /\ Awaited(r)
             /\ Goes(r, UnitOf(r)) /\ channel[UnitOf(r)].label = r
             /\ worker.job.label = r
             /\ Worked(r) /\ ~Boxed(r) /\ ~Taken(r) /\ ~Pushed(r)
  <2>1. worker # Idle /\ worker \in WorkerStep /\ worker.job \in Job /\ UnitOf(r) \in Unit
    BY <1>4, WorkerAtWork
  <2>2. Goes(r, UnitOf(r)) /\ channel[UnitOf(r)].label = r /\ worker.job.label = r
    BY <1>4, <2>1 DEF PatientInv, InOrder, WorkerInOrder
  <2>3. Worked(r)
    BY <1>4, <2>1 DEF Worked
  <2>4. QED
    BY <2>1, <2>2, <2>3 DEF PatientInv, OnePlace, Goes, Inference
<1>5. ASSUME WorkerTake
      PROVE  PatientInv'
  <2>1. /\ worker = Idle /\ jobs # <<>> /\ jobs' = Tail(jobs)
        /\ UNCHANGED <<replies, crashed>>
    BY <1>5 DEF WorkerTake
  <2>2. PICK b \in Job : b = Head(jobs)
    BY <1>0, <2>1, QueueItems
  <2>3. /\ b = jobs[1] /\ 1 \in 1..Len(jobs) /\ jobs' \in Seq(Job)
        /\ \A i \in 1..Len(jobs') :
              i + 1 \in 1..Len(jobs) /\ jobs'[i] = jobs[i + 1] /\ i + 1 # 1
    BY <1>0, <2>1, <2>2, QueueItems
  <2>4. \A i \in 1..Len(jobs) :
            /\ jobs[i] \in Job /\ JobFine(jobs[i])
            /\ \A j \in 1..Len(jobs) : jobs[i].req = jobs[j].req => i = j
    BY <1>0 DEF PatientInv, InOrder, JobsInOrder, JobFine
  <2>5. PICK r \in Request : r = b.req
    BY DEF Job
  <2>6. PICK k \in Unit : k = UnitOf(r)
    BY <2>3, <2>4, <2>5 DEF JobFine
  <2>7. /\ Goes(r, k) /\ Inference(r, k) /\ Kind(r) = "inference" /\ b.label = r
    BY <2>3, <2>4, <2>5, <2>6 DEF JobFine, Goes, Inference
  <2>8. Pushed(r) /\ ~Boxed(r) /\ ~Taken(r) /\ ~Worked(r)
    <3>1. Pushed(r)
      BY <2>3, <2>5 DEF Pushed
    <3>2. QED
      BY <3>1 DEF PatientInv, OnePlace
  <2>9. /\ Asking' /\ \A q \in Request : Awaited(q)' <=> Awaited(q)
        /\ \A q \in Request, m \in Unit : Inference(q, m)' <=> Inference(q, m)
    BY <1>0, <2>1, AskingKept
  <2>10. \A q \in Request : Inference(q, k) => q = r
    BY <2>7, OneInference DEF Inference
  <2>11. \A i \in 1..Len(jobs') : jobs'[i] \in Job /\ JobFine(jobs'[i]) /\ jobs'[i].req # r
    <3>1. \A i \in 1..Len(jobs) : jobs[i].req = r => i = 1
      BY <2>3, <2>4, <2>5
    <3>2. QED
      BY <2>3, <2>4, <3>1
  <2>12. \A i \in 1..Len(jobs'), j \in 1..Len(jobs') :
             jobs'[i].req = jobs'[j].req => i = j
    <3>1. ASSUME NEW i \in 1..Len(jobs'), NEW j \in 1..Len(jobs'),
                 jobs'[i].req = jobs'[j].req
          PROVE  i = j
      <4>0. /\ i + 1 \in 1..Len(jobs) /\ j + 1 \in 1..Len(jobs)
            /\ jobs[i + 1].req = jobs[j + 1].req
        BY <2>3, <3>1
      <4>1. i + 1 = j + 1
        BY ONLY <2>4, <4>0
      <4>2. i \in Nat /\ j \in Nat
        OBVIOUS
      <4>3. QED
        BY <4>1, <4>2
    <3>2. QED
      BY <3>1
  <2>13. ~Pushed(r)' /\ \A q \in Request : Pushed(q)' => Pushed(q)
    BY <2>3, <2>11 DEF Pushed
  <2>14. ASSUME OnlyAbout(r)
         PROVE  JobsInOrder'
    <3>1. ASSUME NEW i \in 1..Len(jobs')
          PROVE  JobFine(jobs[i])'
      <4>1. PICK c \in Job : c = jobs'[i]
        BY <2>11
      <4>2. JobFine(c)'
        BY <1>1, <2>7, <2>8, <2>11, <2>14, <4>1
      <4>3. QED
        BY <4>1, <4>2
           DEF JobFine, Goes, Inference, Awaited, IsAsked, Kind, UnitOf, From
    <3>2. QED
      BY <2>12, <3>1 DEF JobsInOrder, JobFine
  <2>15. CASE UNCHANGED <<worker, channel>>
    <3>1. OnlyAbout(r)
      BY <1>0, <2>1, <2>9, <2>15 DEF OnlyAbout
    <3>2. OnePlace'
      BY <1>2, <2>13, <2>15 DEF PatientInv, OnePlace, Worked
    <3>3. QED
      BY <1>1, <2>7, <2>8, <2>9, <2>14, <2>15, <3>1, <3>2 DEF PatientInv, InOrder
  <2>16. CASE /\ worker' = [step |-> "run", job |-> b]
              /\ channel' = [channel EXCEPT ![k] = LabelForJob(@, b)]
    <3>1. channel' = [channel EXCEPT ![k].label = r] /\ r \in Label
      BY <2>7, <2>16 DEF LabelForJob, Label
    <3>2. /\ channel'[k].label = r
          /\ \A m \in Unit : /\ channel'[m].push = channel[m].push
                             /\ channel'[m].pub = channel[m].pub
                             /\ channel'[m].held = channel[m].held
                             /\ m # k => channel'[m].label = channel[m].label
      BY <1>3, <3>1
    <3>3. OnlyAbout(r)
      BY <1>0, <2>1, <2>9, <2>10, <3>2 DEF OnlyAbout
    <3>4. worker'.job = b
      BY <2>16
    <3>5. OnePlace'
      <4>1. \A q \in Request : Worked(q)' => q = r
        BY <2>5, <3>4 DEF Worked
      <4>2. QED
        BY <1>2, <2>8, <2>13, <4>1 DEF PatientInv, OnePlace
    <3>6. WorkerInOrder'
      <4>1. Inference(r, k)' /\ From(r)' = From(r) /\ UnitOf(r)' = k
        BY <1>0, <2>6, <2>7, <2>9 DEF From, UnitOf
      <4>2. Goes(r, k)' /\ channel'[k].label = r
        BY <2>7, <3>2, <4>1 DEF Goes
      <4>3. Goes(worker.job.req, UnitOf(worker.job.req))'
        BY <2>5, <3>4, <4>1, <4>2
           DEF Goes, Inference, Awaited, IsAsked, Kind, UnitOf, From
      <4>4. (channel[UnitOf(worker.job.req)].label = worker.job.req)'
        BY <2>5, <3>4, <4>1, <4>2 DEF UnitOf
      <4>5. QED
        BY <2>5, <2>7, <3>4, <4>3, <4>4 DEF WorkerInOrder
    <3>7. QED
      BY <1>1, <2>7, <2>8, <2>9, <2>14, <3>3, <3>5, <3>6 DEF PatientInv, InOrder
  <2>17. QED
    BY <1>5, <2>2, <2>5, <2>6, <2>15, <2>16 DEF WorkerTake
<1>6. ASSUME WorkerRun
      PROVE  PatientInv'
  <2>1. /\ worker.step = "run" /\ worker' = [worker EXCEPT !.step = "send"]
        /\ UNCHANGED <<replies, jobs, crashed>>
    BY <1>6 DEF WorkerRun
  <2>2. PICK r \in Request : r = worker.job.req
    BY <2>1, WorkerAtWork
  <2>3. PICK k \in Unit : k = UnitOf(r)
    BY <1>4, <2>1, <2>2
  <2>4. /\ worker # Idle /\ worker \in WorkerStep /\ worker.job.label = r
        /\ Goes(r, k) /\ Kind(r) = "inference" /\ channel[k].label = r
        /\ ~Boxed(r) /\ ~Taken(r) /\ ~Pushed(r) /\ Worked(r)
    BY <1>4, <2>1, <2>2, <2>3
  <2>5. worker'.job = worker.job /\ worker' # Idle
    BY <2>1, <2>4 DEF WorkerStep, Idle
  <2>6. /\ Asking' /\ \A q \in Request : Awaited(q)' <=> Awaited(q)
        /\ \A q \in Request, m \in Unit : Inference(q, m)' <=> Inference(q, m)
    BY <1>0, <2>1, AskingKept
  <2>7. \A m \in Unit : /\ channel'[m].push = channel[m].push
                        /\ channel'[m].pub = channel[m].pub
                        /\ channel'[m].held = channel[m].held
                        /\ channel'[m].label = channel[m].label
    <3>1. CASE UNCHANGED channel
      BY <3>1
    <3>2. CASE channel' = [channel EXCEPT ![k] = LabelForJob(@, worker.job)]
      <4>1. channel' = [channel EXCEPT ![k].label = r] /\ r \in Label
        BY <2>4, <3>2 DEF LabelForJob, Label
      <4>2. QED
        BY <1>3, <2>4, <4>1
    <3>3. QED
      BY <1>6, <2>2, <2>3, <3>1, <3>2 DEF WorkerRun
  <2>8. OnlyAbout(r)
    BY <1>0, <2>1, <2>6, <2>7 DEF OnlyAbout
  <2>9. OnePlace'
    <3>1. \A q \in Request : Worked(q)' <=> Worked(q)
      BY <2>4, <2>5 DEF Worked
    <3>2. QED
      BY <1>2, <2>1, <3>1 DEF PatientInv, OnePlace, Pushed
  <2>10. WorkerInOrder'
    <3>1. Inference(r, k)' /\ From(r)' = From(r) /\ UnitOf(r)' = k
      BY <1>0, <2>3, <2>4, <2>6 DEF From, UnitOf, Goes
    <3>2. Goes(r, k)' /\ channel'[k].label = r
      BY <2>4, <2>7, <3>1 DEF Goes
    <3>3. Goes(worker.job.req, UnitOf(worker.job.req))'
      BY <2>2, <2>5, <3>1, <3>2
         DEF Goes, Inference, Awaited, IsAsked, Kind, UnitOf, From
    <3>4. (channel[UnitOf(worker.job.req)].label = worker.job.req)'
      BY <2>2, <2>5, <3>1, <3>2 DEF UnitOf
    <3>5. QED
      BY <2>2, <2>4, <2>5, <3>3, <3>4 DEF WorkerInOrder
  <2>11. QED
    BY <1>1, <2>1, <2>4, <2>6, <2>8, <2>9, <2>10 DEF PatientInv, InOrder
<1>7. ASSUME WorkerSend
      PROVE  PatientInv'
  <2>1. /\ worker.step = "send" /\ worker' = Idle /\ UNCHANGED jobs
        /\ ChannelSend(UnitOf(worker.job.req), worker.job.req)
    BY <1>7 DEF WorkerSend, JobDone
  <2>2. PICK r \in Request : r = worker.job.req
    BY <2>1, WorkerAtWork
  <2>3. PICK k \in Unit : k = UnitOf(r)
    BY <1>4, <2>1, <2>2
  <2>4. /\ Goes(r, k) /\ Kind(r) = "inference" /\ channel[k].label = r /\ Awaited(r)
        /\ ~Boxed(r) /\ ~Taken(r) /\ ~Pushed(r) /\ Worked(r)
    BY <1>4, <2>1, <2>2, <2>3
  <2>5. /\ UNCHANGED <<channel, crashed>>
        /\ replies' = [replies EXCEPT ![r] =
               Append(@, [to |-> From(r), label |-> RightLabel(r)])]
    BY <2>1, <2>2, <2>3, <2>4, SendHome
  <2>6. /\ Asking' /\ \A q \in Request : q # r => (Awaited(q)' <=> Awaited(q))
    BY <1>0, <2>4, <2>5, AnsweredNext
  <2>7. OnlyAbout(r)
    BY <1>0, <2>5, <2>6 DEF OnlyAbout
  <2>8. WorkerInOrder' /\ \A q \in Request : ~Worked(q)'
    BY <2>1 DEF WorkerInOrder, Worked
  <2>9. OnePlace'
    BY <1>2, <2>1, <2>8 DEF PatientInv, OnePlace, Pushed
  <2>10. QED
    BY <1>1, <2>1, <2>4, <2>6, <2>7, <2>8, <2>9 DEF PatientInv, InOrder
<1>8. QED
  BY <1>5, <1>6, <1>7 DEF Worker

------------------------------------------------------------------------------
(* What patient users can rely on.                                          *)
LEMMA PatientInit == Init => PatientInv
<1> SUFFICES ASSUME Init
             PROVE  PatientInv
  OBVIOUS
<1>1. \A r \in Request : ~IsAsked(r) /\ replies[r] = <<>>
  BY DEF Init, IsAsked
<1>2. Asking
  BY <1>1 DEF Asking, OneByOne, Once, AtHome, Awaited
<1>3. /\ ev = Idle /\ ev.step = "idle" /\ worker = Idle /\ units = 0
      /\ \A u \in Users : work[u] = NoUnit
      /\ Len(events) = 0 /\ Len(jobs) = 0
      /\ \A k \in Unit : Len(inbox[k]) = 0 /\ sub[k] = Idle
  BY DEF Init, Idle
<1>4. \A i : i \notin 1..0
  OBVIOUS
<1>5. Owned /\ Queued /\ Handling /\ Founding
  BY <1>3, <1>4 DEF Owned, Queued, Handling, Founding, NoUnit
<1>6. InOrder /\ OnePlace
  BY <1>3, <1>4 DEF InOrder, InboxInOrder, SubInOrder, JobsInOrder, WorkerInOrder,
                    OnePlace, Boxed, Taken, Pushed, Worked
<1>7. Calm
  BY DEF Init, Calm, NoChannel
<1>8. QED
  BY <1>2, <1>5, <1>6, <1>7 DEF PatientInv

LEMMA PatientNext == NodeInv /\ PatientInv /\ Patient /\ [Next]_vars => PatientInv'
<1> SUFFICES ASSUME NodeInv, PatientInv, Patient, [Next]_vars
             PROVE  PatientInv'
  OBVIOUS
<1>1. CASE EventThread
  BY <1>1, SetupPatient, CallerPatient, ExitStopPatient, AnswerPatient, ReleasePatient
     DEF EventThread
<1>2. CASE \E k \in Unit : SubThread(k)
  BY <1>2, JoinPatient, SubTakePatient, SubDispatchPatient DEF SubThread
<1>3. CASE Worker
  BY <1>3, WorkerPatient
<1>4. CASE \E u \in Users : UserStep(u)
  BY <1>4, UserPatient
<1>5. CASE UNCHANGED vars
  <2>1. UNCHANGED <<asked, replies, conn, work, units, events, ev, channel, inbox,
                    sub, jobs, worker, crashed>>
    BY <1>5 DEF vars, userVars, registryVars, subVars, workerVars
  <2>2. Asking' /\ InOrder' /\ OnePlace' /\ Calm'
    BY <2>1, QuietEvent DEF PatientInv, Calm
  <2>3. \A r \in Request : Event(r) => Event(r)' /\ asked'[r] = asked[r]
    BY <2>1, AskingKept
  <2>4. Owned' /\ Queued' /\ Handling' /\ Founding'
    BY <2>1, <2>3, EventsKept
  <2>5. QED
    BY <2>2, <2>4 DEF PatientInv
<1>6. QED
  BY <1>1, <1>2, <1>3, <1>4, <1>5 DEF Next

(* Users that wait for their answers: each has one request at a time, whose *)
(* way through the queues and threads of the node is its own.               *)
LEMMA PatientInvariant == Patient => (Spec => []PatientInv)
<1> SUFFICES ASSUME Patient
             PROVE  Spec => []PatientInv
  OBVIOUS
<1>1. NodeInv /\ PatientInv /\ [Next]_vars => PatientInv'
  BY PatientNext
<1>2. QED
  BY <1>1, PatientInit, NodeInvariant, PTL DEF Spec

(* The worker and the SUB threads send only while the channel has its PUB   *)
(* socket: llm_channel_obj::send never meets the null pzmq that             *)
(* stop_subscriber("") leaves, if users wait for their answers.             *)
THEOREM PatientUsersDoNotCrash == Patient => (Spec => []NoCrash)
<1> SUFFICES ASSUME Patient
             PROVE  Spec => []NoCrash
  OBVIOUS
<1>1. PatientInv => NoCrash
  BY DEF PatientInv, Calm, NoCrash
<1>2. QED
  BY <1>1, PatientInvariant, PTL

(* set_push_url and stop_subscriber never close a PUSH socket that holds a  *)
(* result for a session that is gone, and StackFlow::send finds its session *)
(* open: no thread of the node blocks, if users wait for their answers.     *)
THEOREM PatientUsersDoNotBlock == Patient => (Spec => []NothingBlocks)
<1> SUFFICES ASSUME Patient
             PROVE  Spec => []NothingBlocks
  OBVIOUS
<1>1. NodeInv /\ PatientInv => NothingBlocks
  <2> SUFFICES ASSUME NodeInv, PatientInv
               PROVE  NothingBlocks
    OBVIOUS
  <2>1. ev.step # "blocked"
    BY DEF PatientInv, Handling
  <2>2. \A k \in Unit : sub[k].step # "blocked"
    BY DEF PatientInv, InOrder, SubInOrder, Idle
  <2>3. ev.step = "stop" => ~channel[ev.unit].held
    BY DEF NodeInv, InFlight, PatientInv, Calm
  <2>4. QED
    BY <2>1, <2>2, <2>3 DEF NothingBlocks
<1>2. QED
  BY <1>1, NodeInvariant, PatientInvariant, PTL

(* A result reaches the TCP session that sent the request, under its own    *)
(* request_id, although three threads write the channel's URL and id        *)
(* without a lock, if users wait for their answers.                         *)
THEOREM PatientResultsGoHome == Patient => (Spec => []ResultsGoHome)
<1> SUFFICES ASSUME Patient
             PROVE  Spec => []ResultsGoHome
  OBVIOUS
<1>1. PatientInv => ResultsGoHome
  <2> SUFFICES ASSUME PatientInv, NEW r \in Request, NEW i \in DOMAIN replies[r]
               PROVE  replies[r][i] = [to |-> From(r), label |-> RightLabel(r)]
    BY DEF ResultsGoHome
  <2> DEFINE line == [to |-> From(r), label |-> RightLabel(r)]
  <2>1. replies[r] = <<>> \/ replies[r] = <<line>>
    BY DEF PatientInv, Asking, Once
  <2> HIDE DEF line
  <2>2. DOMAIN <<>> = {} /\ DOMAIN <<line>> = {1} /\ <<line>>[1] = line
    OBVIOUS
  <2>3. replies[r] = <<line>> /\ i = 1
    BY <2>1, <2>2
  <2>4. QED
    BY <2>2, <2>3 DEF line
<1>2. QED
  BY <1>1, PatientInvariant, PTL
------------------------------------------------------------------------------
(* The node implements RequestReply.                                        *)

(* What the users see of a request, under the invariant.                    *)
LEMMA StatusIs ==
    ASSUME PatientInv, NEW r \in Request
    PROVE  Status(r) = IF ~IsAsked(r) THEN "new"
                       ELSE IF Awaited(r) THEN "asked" ELSE "answered"
  BY DEF Status, Awaited, PatientInv, Asking, Once

(* Every step asks one request, answers one, or changes none.               *)
LEMMA StepServes ==
    ASSUME NodeInv, PatientInv, Patient, [Next]_vars
    PROVE  \/ UNCHANGED <<asked, replies>>
           \/ \E r \in Request :
                 \/ /\ ~IsAsked(r) /\ Awaited(r)'
                    /\ \A q \in Request : q # r => /\ asked'[q] = asked[q]
                                                   /\ replies'[q] = replies[q]
                 \/ /\ Awaited(r) /\ IsAsked(r)' /\ ~Awaited(r)'
                    /\ \A q \in Request : q # r => /\ asked'[q] = asked[q]
                                                   /\ replies'[q] = replies[q]
<1>1. ASSUME NEW r \in Request, Awaited(r), UNCHANGED asked,
             replies' = [replies EXCEPT ![r] =
                 Append(@, [to |-> From(r), label |-> RightLabel(r)])]
      PROVE  /\ IsAsked(r)' /\ ~Awaited(r)'
             /\ \A q \in Request : q # r => /\ asked'[q] = asked[q]
                                            /\ replies'[q] = replies[q]
  <2> DEFINE line == [to |-> From(r), label |-> RightLabel(r)]
  <2>1. replies[r] = <<>> /\ Append(<<>>, line) # <<>>
    BY <1>1 DEF Awaited
  <2> HIDE DEF line
  <2>2. replies'[r] # <<>> /\ \A q \in Request : q # r => replies'[q] = replies[q]
    BY <1>1, <2>1 DEF NodeInv, TypeOK, line
  <2>3. QED
    BY <1>1, <2>2 DEF Awaited, IsAsked
<1>2. CASE EventThread
  <2>1. CASE Answer
    <3>1. PICK r \in Request : r = ev.req /\ Awaited(r)
      BY <2>1, HandledEvent DEF Answer
    <3>2. UNCHANGED asked
      BY <2>1 DEF Answer
    <3>3. QED
      BY <1>1, <2>1, <3>1, <3>2, AnswerGoesHome
  <2>2. CASE ~Answer
    BY <1>2, <2>2 DEF EventThread, SetupBegin, SetupRefuse, SetupAccept, ExitBegin,
                      TaskInfo, Pause, ExitStop, Release, userVars
  <2>3. QED
    BY <2>1, <2>2
<1>3. ASSUME NEW k \in Unit, SubThread(k)
      PROVE  \/ UNCHANGED <<asked, replies>>
             \/ \E r \in Request :
                   /\ Awaited(r) /\ IsAsked(r)' /\ ~Awaited(r)'
                   /\ \A q \in Request : q # r => /\ asked'[q] = asked[q]
                                                  /\ replies'[q] = replies[q]
  <2>1. UNCHANGED asked
    BY <1>3 DEF SubThread, Join, SubTake, SubDispatch, userVars
  <2>2. CASE UNCHANGED replies
    BY <2>1, <2>2
  <2>3. CASE SubDispatch(k) /\ ChannelSend(k, sub[k].req)
    <3>1. sub[k] # Idle
      BY <2>3 DEF SubDispatch, Idle
    <3>2. PICK r \in Request : r = sub[k].req
      BY <3>1, InFlightTypes DEF NodeInv
    <3>3. Goes(r, k) /\ channel[k].label = r /\ Awaited(r)
      BY <3>1, <3>2 DEF PatientInv, InOrder, SubInOrder, Goes, Inference
    <3>4. QED
      BY <1>1, <2>1, <2>3, <3>2, <3>3, SendHome
  <2>4. QED
    BY <1>3, <2>2, <2>3 DEF SubThread, Join, SubTake, SubDispatch, RefuseJob
<1>4. CASE Worker
  <2>1. UNCHANGED asked
    BY <1>4 DEF Worker, WorkerTake, WorkerRun, WorkerSend, userVars
  <2>2. CASE UNCHANGED replies
    BY <2>1, <2>2
  <2>3. CASE WorkerSend
    <3>1. worker.step = "send" /\ ChannelSend(UnitOf(worker.job.req), worker.job.req)
      BY <2>3 DEF WorkerSend
    <3>2. worker # Idle /\ worker.job.req \in Request /\ UnitOf(worker.job.req) \in Unit
      BY <3>1, WorkerAtWork
    <3>3. PICK r \in Request, k \in Unit : r = worker.job.req /\ k = UnitOf(r)
      BY <3>2
    <3>4. Goes(r, k) /\ channel[k].label = r /\ Awaited(r)
      BY <3>2, <3>3 DEF PatientInv, InOrder, WorkerInOrder, Goes, Inference
    <3>5. ChannelSend(k, r)
      BY <3>1, <3>3
    <3>6. QED
      BY <1>1, <2>1, <3>4, <3>5, SendHome
  <2>4. QED
    BY <1>4, <2>2, <2>3 DEF Worker, WorkerTake, WorkerRun
<1>5. ASSUME NEW u \in Users, UserStep(u)
      PROVE  \/ UNCHANGED <<asked, replies>>
             \/ \E r \in Request :
                   /\ ~IsAsked(r) /\ Awaited(r)'
                   /\ \A q \in Request : q # r => /\ asked'[q] = asked[q]
                                                  /\ replies'[q] = replies[q]
  <2>1. ASSUME NEW kind \in {"setup", "exit", "taskinfo", "pause", "inference"},
               Ask(u, kind, work[u]), UNCHANGED <<replies, conn, work>>
        PROVE  \E r \in Request :
                   /\ ~IsAsked(r) /\ Awaited(r)'
                   /\ \A q \in Request : q # r => /\ asked'[q] = asked[q]
                                                  /\ replies'[q] = replies[q]
    <3>1. PICK r \in Request :
              r = <<u, Sent(u) + 1>> /\ ~Awaited(r) /\ Awaited(r)'
      BY <2>1, AskedNext
    <3>2. \A q \in Request : q # r => asked'[q] = asked[q]
      BY <2>1, <3>1 DEF Ask, NodeInv, TypeOK
    <3>3. ~IsAsked(r)
      <4>1. /\ Sent(u) \in 0..MaxSent
            /\ \A m \in 1..MaxSent : IsAsked(<<u, m>>) <=> m <= Sent(u)
        BY SentCounts DEF NodeInv
      <4>2. Sent(u) + 1 \in 1..MaxSent /\ ~(Sent(u) + 1 <= Sent(u))
        BY <2>1, <4>1, NodeAssumption DEF Ask
      <4>3. QED
        BY <3>1, <4>1, <4>2
    <3>4. QED
      BY <2>1, <3>1, <3>2, <3>3
  <2>2. ASSUME NEW kind \in {"setup", "exit", "taskinfo", "pause"}, AskEvent(u, kind)
        PROVE  Ask(u, kind, work[u]) /\ UNCHANGED <<replies, conn, work>>
    BY <2>2 DEF AskEvent
  <2>3. ASSUME AskInference(u)
        PROVE  Ask(u, "inference", work[u]) /\ UNCHANGED <<replies, conn, work>>
    BY <2>3 DEF AskInference
  <2>4. ASSUME Reconnect(u)
        PROVE  UNCHANGED <<asked, replies>>
    BY <2>4 DEF Reconnect
  <2>5. QED
    BY <1>5, <2>1, <2>2, <2>3, <2>4 DEF UserStep
<1>6. CASE UNCHANGED vars
  BY <1>6 DEF vars, userVars
<1>7. QED
  BY <1>2, <1>3, <1>4, <1>5, <1>6 DEF Next

(* Each request that patient users ask is answered at most once, and only   *)
(* after it was asked: the node with its event queue, its SUB threads, its  *)
(* job queue and its worker implements RequestReply.                        *)
THEOREM NodeServesEachRequestOnce == Patient => (Spec => ImplementsRequestReply)
<1> SUFFICES ASSUME Patient
             PROVE  Spec => ImplementsRequestReply
  OBVIOUS
<1>1. Init => Service!Init
  <2> SUFFICES ASSUME Init
               PROVE  Service!Init
    OBVIOUS
  <2>1. \A r \in Request : ~IsAsked(r)
    BY DEF Init, IsAsked
  <2>2. QED
    BY <2>1 DEF Service!Init, Status
<1>2. NodeInv /\ PatientInv /\ PatientInv' /\ [Next]_vars
          => [Service!Next]_([r \in Request |-> Status(r)])
  <2> SUFFICES ASSUME NodeInv, PatientInv, PatientInv', [Next]_vars
               PROVE  [Service!Next]_([r \in Request |-> Status(r)])
    OBVIOUS
  <2>1. \A r \in Request :
            Status(r) = IF ~IsAsked(r) THEN "new"
                        ELSE IF Awaited(r) THEN "asked" ELSE "answered"
    BY StatusIs
  <2>2. \A r \in Request :
            Status(r)' = IF ~IsAsked(r)' THEN "new"
                         ELSE IF Awaited(r)' THEN "asked" ELSE "answered"
    BY DEF Status, Awaited, PatientInv, Asking, Once
  <2>3. ASSUME NEW q \in Request, asked'[q] = asked[q], replies'[q] = replies[q]
        PROVE  Status(q)' = Status(q)
    BY <2>1, <2>2, <2>3 DEF Awaited, IsAsked
  <2> DEFINE st  == [r \in Request |-> Status(r)]
             st2 == [r \in Request |-> Status(r)']
  <2>4. CASE UNCHANGED <<asked, replies>>
    <3>1. \A r \in Request : Status(r)' = Status(r)
      BY <2>3, <2>4
    <3>2. QED
      BY <3>1
  <2>5. ASSUME NEW r \in Request, ~IsAsked(r), Awaited(r)',
               \A q \in Request : q # r => /\ asked'[q] = asked[q]
                                           /\ replies'[q] = replies[q]
        PROVE  Service!Next
    <3>1. Status(r) = "new" /\ Status(r)' = "asked"
      BY <2>1, <2>2, <2>5 DEF Awaited
    <3>2. \A q \in Request : q # r => Status(q)' = Status(q)
      BY <2>3, <2>5
    <3>3. [q \in Request |-> Status(q)'] =
              [[q \in Request |-> Status(q)] EXCEPT ![r] = "asked"]
      BY <3>1, <3>2
    <3>4. Service!Ask(r)
      BY <3>1, <3>3 DEF Service!Ask
    <3>5. QED
      BY <3>4 DEF Service!Next
  <2>6. ASSUME NEW r \in Request, Awaited(r), IsAsked(r)', ~Awaited(r)',
               \A q \in Request : q # r => /\ asked'[q] = asked[q]
                                           /\ replies'[q] = replies[q]
        PROVE  Service!Next
    <3>1. Status(r) = "asked" /\ Status(r)' = "answered"
      BY <2>1, <2>2, <2>6 DEF Awaited
    <3>2. \A q \in Request : q # r => Status(q)' = Status(q)
      BY <2>3, <2>6
    <3>3. [q \in Request |-> Status(q)'] =
              [[q \in Request |-> Status(q)] EXCEPT ![r] = "answered"]
      BY <3>1, <3>2
    <3>4. Service!Answer(r)
      BY <3>1, <3>3 DEF Service!Answer
    <3>5. QED
      BY <3>4 DEF Service!Next
  <2>7. QED
    BY <2>4, <2>5, <2>6, StepServes
<1>3. QED
  BY <1>1, <1>2, NodeInvariant, PatientInvariant, PTL
     DEF Spec, ImplementsRequestReply, Service!Spec
==============================================================================
