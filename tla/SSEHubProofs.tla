---------------------------- MODULE SSEHubProofs -----------------------------
(***************************************************************************)
(* The hub of server-sent events for every number of connections.          *)
(***************************************************************************)
EXTENDS SSEHub, FiniteSetTheorems, TLAPS

Listening(c) == cpc[c] \in {"count", "stream", "leave"} /\ c \notin shut

\* Only the registered topic has clients, and its clients are exactly the
\* connections that listen.
ClientsInv ==
  /\ \A t \in Conns : \A c \in members[t] :
       t = topic /\ Listening(c) /\ due[c] = buffer[c]
  /\ \A c \in Conns : Listening(c) => topic # None /\ c \in members[topic]

\* Each topic is closed by at most one connection, after it has left the map.
ClosersInv ==
  /\ \A c \in Conns :
       /\ ending[c] # None => cpc[c] \in {"uncount", "close", "await", "done"}
       /\ ending[c] # None => ending[c] # topic
       /\ cpc[c] \in {"close", "await"} => ending[c] # None
  /\ \A c, d \in Conns : ending[c] = ending[d] /\ ending[c] # None => c = d

\* A run goroutine ends only after stopCh was closed, by the one who may.
RunInv ==
  /\ \A t \in stopped :
       \E c \in Conns : ending[c] = t /\ cpc[c] \in {"close", "await", "done"}
  /\ \A t \in Conns : rpc[t] = "done" => t \in stopped
  /\ topic # None => rpc[topic] # "none"

\* A connection that has not subscribed yet has made no topic.
FreshInv ==
  \A c \in Conns : cpc[c] = "idle" =>
    /\ rpc[c] = "none"
    /\ topic # c
    /\ c \notin shut
    /\ buffer[c] = 0
    /\ due[c] = 0
    /\ \A d \in Conns : ending[d] # c

HubInv ==
  /\ TypeOK
  /\ \A t \in Conns : pending[t] <= events
  /\ ClientsInv
  /\ ClosersInv
  /\ RunInv
  /\ FreshInv

LEMMA NoneIsNoConn == None \notin Conns
BY HubAssumption DEF Conns

LEMMA MembershipBoolean ==
  ASSUME NEW x, NEW S PROVE (x \in S) \in BOOLEAN
<1>1. CASE x \in S
  BY <1>1
<1>2. CASE x \notin S
  BY <1>2
<1>. QED  BY <1>1, <1>2

LEMMA HubInit == Init => HubInv
BY HubAssumption DEF Init, HubInv, TypeOK, ClientsInv, ClosersInv, RunInv, FreshInv,
   Listening, RunPCs, ConnPCs, Conns

LEMMA GoneIsFinite ==
  ASSUME NEW S \in SUBSET Conns PROVE IsFiniteSet(S) /\ Cardinality(S) \in Nat
<1>1. IsFiniteSet(1..MaxConns)
  BY HubAssumption, FS_Interval
<1>2. IsFiniteSet(S)
  BY <1>1, FS_Subset DEF Conns
<1>. QED  BY <1>2, FS_CardinalityType

LEMMA HubType == HubInv /\ [Next]_vars => TypeOK' /\ \A t \in Conns : pending'[t] <= events'
<1> SUFFICES ASSUME HubInv, [Next]_vars
             PROVE  TypeOK' /\ \A t \in Conns : pending'[t] <= events'
  OBVIOUS
<1>. USE HubAssumption DEF HubInv, TypeOK, RunPCs, ConnPCs, ConnTo, RunTo
<1>1. CASE UNCHANGED vars
  BY <1>1 DEF vars, topicVars, subVars, connVars, leaveVars, gauges
<1>2. ASSUME NEW c \in Conns, Subscribe(c) PROVE TypeOK' /\ \A t \in Conns : pending'[t] <= events'
  <2>1. members' \in [Conns -> SUBSET Conns] /\ topic' \in Conns \cup {None}
    BY <1>2 DEF Subscribe
  <2>2. rpc' \in [Conns -> RunPCs] /\ live' \in [Conns -> BOOLEAN] /\ cpc' \in [Conns -> ConnPCs]
    BY <1>2 DEF Subscribe
  <2>. QED  BY <1>2, <2>1, <2>2 DEF Subscribe, leaveVars, gauges
<1>3. ASSUME NEW c \in Conns, CountIn(c) PROVE TypeOK' /\ \A t \in Conns : pending'[t] <= events'
  BY <1>3 DEF CountIn, topicVars, subVars, leaveVars
<1>4. ASSUME NEW c \in Conns, ReadEvent(c) PROVE TypeOK' /\ \A t \in Conns : pending'[t] <= events'
  BY <1>4 DEF ReadEvent, topicVars, subVars, leaveVars, gauges
<1>5. ASSUME NEW c \in Conns, ChannelEnds(c) \/ ClientGone(c)
      PROVE  TypeOK' /\ \A t \in Conns : pending'[t] <= events'
  BY <1>5 DEF ChannelEnds, ClientGone, topicVars, subVars, leaveVars, gauges
<1>6. ASSUME NEW c \in Conns, Unsubscribe(c) PROVE TypeOK' /\ \A t \in Conns : pending'[t] <= events'
  <2>. USE <1>6 DEF Unsubscribe, WasMember, LeavesEmpty, TopicAfterClose
  <2>1. /\ members' \in [Conns -> SUBSET Conns]
        /\ topic' \in Conns \cup {None}
        /\ shut' \in SUBSET Conns
    BY DEF topicVars
  <2>2. removed' \in [Conns -> BOOLEAN]
    <3>. DEFINE was == WasMember(c, topic)
    <3>1. was \in BOOLEAN
      BY MembershipBoolean DEF WasMember
    <3>2. removed' = removed \/ removed' = [removed EXCEPT ![c] = was]
      BY Zenon, <1>6 DEF Unsubscribe, leaveVars
    <3>. HIDE DEF was
    <3>. QED  BY <3>1, <3>2 DEF TypeOK
  <2>5. ending' \in [Conns -> Conns \cup {None}]
    BY DEF leaveVars
  <2>3. /\ cpc' \in [Conns -> ConnPCs]
        /\ buffer' \in [Conns -> 0..ClientBuffer]
        /\ due' \in [Conns -> Int]
    OBVIOUS
  <2>4. UNCHANGED <<stopped, subVars, gauges>>
    BY DEF topicVars
  <2>. QED  BY <2>1, <2>2, <2>3, <2>4, <2>5 DEF subVars, gauges
<1>7. ASSUME NEW c \in Conns, CountOut(c) PROVE TypeOK' /\ \A t \in Conns : pending'[t] <= events'
  BY <1>7 DEF CountOut, subVars
<1>8. ASSUME NEW c \in Conns, CloseSub(c) PROVE TypeOK' /\ \A t \in Conns : pending'[t] <= events'
  BY <1>8 DEF CloseSub, topicVars, leaveVars, gauges
<1>9. ASSUME NEW c \in Conns, AwaitRun(c) PROVE TypeOK' /\ \A t \in Conns : pending'[t] <= events'
  <2>1. members' \in [Conns -> SUBSET Conns] /\ shut' \in SUBSET Conns
    BY <1>9 DEF AwaitRun, ClosersInv
  <2>2. pending' \in [Conns -> 0..MaxEvents] /\ \A t \in Conns : pending'[t] <= events
    BY <1>9 DEF AwaitRun, ClosersInv
  <2>3. cpc' \in [Conns -> ConnPCs]
    BY <1>9 DEF AwaitRun
  <2>. QED  BY <1>9, <2>1, <2>2, <2>3 DEF AwaitRun, leaveVars, gauges
<1>10. ASSUME NEW t \in Conns, Broadcast(t) PROVE TypeOK' /\ \A k \in Conns : pending'[k] <= events'
  <2>. DEFINE slow == {c \in members[t] : ~Room(c)}
  <2>1. Cardinality(slow) \in Nat
    BY GoneIsFinite
  <2>2. \A c \in members[t] \ slow : buffer[c] + 1 \in 0..ClientBuffer
    BY DEF Room
  <2>. QED  BY <1>10, <2>1, <2>2 DEF Broadcast, Dropped, StillMembers, leaveVars
<1>11. ASSUME NEW t \in Conns,
              ReadStop(t) \/ ReadClosed(t) \/ CheckStop(t) \/ Resubscribe(t) \/ BackoffEnds(t)
       PROVE  TypeOK' /\ \A k \in Conns : pending'[k] <= events'
  <2>1. ReadStop(t) \/ ReadClosed(t) => TypeOK' /\ \A k \in Conns : pending'[k] <= events'
    BY DEF ReadStop, ReadClosed, AfterClosedChannel, topicVars, connVars, leaveVars, gauges
  <2>2. CheckStop(t) => TypeOK' /\ \A k \in Conns : pending'[k] <= events'
    BY DEF CheckStop, AfterCheck, topicVars, connVars, leaveVars, gauges
  <2>3. Resubscribe(t) => TypeOK' /\ \A k \in Conns : pending'[k] <= events'
    BY DEF Resubscribe, topicVars, connVars, leaveVars, gauges
  <2>4. BackoffEnds(t) => TypeOK' /\ \A k \in Conns : pending'[k] <= events'
    BY DEF BackoffEnds, topicVars, connVars, leaveVars, gauges
  <2>. QED  BY <1>11, <2>1, <2>2, <2>3, <2>4
<1>12. ASSUME NEW t \in Conns, Lapse(t) PROVE TypeOK' /\ \A k \in Conns : pending'[k] <= events'
  BY <1>12 DEF Lapse, topicVars, connVars, leaveVars, gauges
<1>13. CASE Publish
  BY <1>13 DEF Publish, topicVars, connVars, leaveVars, gauges
<1>. QED  BY <1>1, <1>2, <1>3, <1>4, <1>5, <1>6, <1>7, <1>8, <1>9, <1>10, <1>11, <1>12, <1>13
          DEF Next, Leave, Run

Rest == ClientsInv /\ ClosersInv /\ RunInv /\ FreshInv

LEMMA HubNext == HubInv /\ [Next]_vars => HubInv'
<1> SUFFICES ASSUME HubInv, [Next]_vars PROVE Rest'
  BY HubType DEF HubInv, Rest
<1>0. TypeOK'
  BY HubType
<1>. USE HubAssumption, <1>0 DEF HubInv, TypeOK, RunPCs, ConnPCs, ConnTo, RunTo, Listening
<1>1. CASE UNCHANGED vars
  BY <1>1 DEF vars, topicVars, subVars, connVars, leaveVars, gauges, Rest, ClientsInv,
              ClosersInv, RunInv, FreshInv
<1>2. ASSUME NEW c \in Conns, Subscribe(c) PROVE Rest'
  <2>. USE <1>2 DEF Subscribe, leaveVars, gauges
  <2>1. ClientsInv'
    BY DEF ClientsInv, FreshInv
  <2>2. ClosersInv'
    BY DEF ClosersInv, FreshInv
  <2>3. RunInv'
    BY DEF RunInv, FreshInv
  <2>4. FreshInv'
    BY DEF FreshInv
  <2>. QED  BY <2>1, <2>2, <2>3, <2>4 DEF Rest
<1>3. ASSUME NEW c \in Conns, CountIn(c) \/ ReadEvent(c) \/ ChannelEnds(c) \/ ClientGone(c)
      PROVE  Rest'
  <2>. USE <1>3 DEF CountIn, ReadEvent, ChannelEnds, ClientGone, topicVars, subVars,
                    leaveVars, gauges
  <2>1. ClientsInv'
    BY DEF ClientsInv
  <2>2. ClosersInv' /\ RunInv'
    BY DEF ClosersInv, RunInv
  <2>3. FreshInv'
    BY DEF FreshInv
  <2>. QED  BY <2>1, <2>2, <2>3 DEF Rest
<1>4. ASSUME NEW c \in Conns, Unsubscribe(c) PROVE Rest'
  <2>. USE <1>4 DEF Unsubscribe, WasMember, LeavesEmpty, TopicAfterClose, topicVars, subVars,
                    leaveVars, gauges
  <2>1. ClientsInv'
    BY DEF ClientsInv
  <2>2. ClosersInv'
    BY DEF ClosersInv
  <2>3. RunInv'
    BY DEF RunInv
  <2>4. FreshInv'
    <3>1. \A d \in Conns : cpc'[d] = "idle" => d # c /\ cpc[d] = "idle"
      OBVIOUS
    <3>2. \A d \in Conns : ending'[d] \in {ending[d], topic, None}
      OBVIOUS
    <3>3. \A d \in Conns : d # c =>
            /\ buffer'[d] = buffer[d] /\ due'[d] = due[d] /\ rpc'[d] = rpc[d]
            /\ d \in shut' => d \in shut
      OBVIOUS
    <3>4. topic' \in {topic, None}
      OBVIOUS
    <3>. QED  BY <3>1, <3>2, <3>3, <3>4, NoneIsNoConn DEF FreshInv
  <2>. QED  BY <2>1, <2>2, <2>3, <2>4 DEF Rest
<1>5. ASSUME NEW c \in Conns, CountOut(c) \/ CloseSub(c) \/ AwaitRun(c) PROVE Rest'
  <2>. USE <1>5 DEF CountOut, CloseSub, AwaitRun, topicVars, subVars, leaveVars, gauges
  <2>1. ClientsInv'
    BY DEF ClientsInv, ClosersInv
  <2>2. ClosersInv'
    BY DEF ClosersInv
  <2>3. RunInv'
    BY DEF RunInv, ClosersInv
  <2>4. FreshInv'
    <3>1. ASSUME NEW d \in Conns, d \in shut', d \notin shut PROVE cpc[d] # "idle"
      BY <3>1 DEF ClientsInv, ClosersInv
    <3>. QED  BY <3>1 DEF FreshInv
  <2>. QED  BY <2>1, <2>2, <2>3, <2>4 DEF Rest
<1>6. ASSUME NEW t \in Conns, Broadcast(t) PROVE Rest'
  <2>. USE <1>6 DEF Broadcast, Dropped, StillMembers, Room, leaveVars
  <2>1. ClientsInv'
    BY DEF ClientsInv
  <2>2. ClosersInv' /\ RunInv'
    BY DEF ClosersInv, RunInv
  <2>3. FreshInv'
    BY DEF FreshInv, ClientsInv
  <2>. QED  BY <2>1, <2>2, <2>3 DEF Rest
<1>7. ASSUME NEW t \in Conns,
             \/ ReadStop(t) \/ ReadClosed(t) \/ CheckStop(t) \/ Resubscribe(t)
             \/ BackoffEnds(t) \/ Lapse(t) \/ Publish
      PROVE  Rest'
  <2>. USE <1>7 DEF ReadStop, ReadClosed, CheckStop, Resubscribe, BackoffEnds, Lapse, Publish,
                    AfterClosedChannel, AfterCheck, StopSeen, topicVars, connVars, leaveVars, gauges
  <2>1. ClientsInv' /\ ClosersInv'
    BY DEF ClientsInv, ClosersInv
  <2>2. RunInv'
    BY DEF RunInv
  <2>3. FreshInv'
    BY DEF FreshInv
  <2>. QED  BY <2>1, <2>2, <2>3 DEF Rest
<1>8. CASE Publish
  BY <1>8 DEF Publish, topicVars, connVars, leaveVars, gauges, Rest, ClientsInv, ClosersInv,
              RunInv, FreshInv
<1>. QED  BY <1>1, <1>2, <1>3, <1>4, <1>5, <1>6, <1>7, <1>8 DEF Next, Leave, Run

LEMMA HubAlways == Spec => []HubInv
BY HubInit, HubNext, PTL DEF Spec

(***************************************************************************)
(* Channels never hold more than their capacity, and what run may still    *)
(* read never exceeds what was published.                                  *)
(***************************************************************************)
THEOREM HubTypeCorrect == Spec => []TypeOK
<1>1. HubInv => TypeOK
  BY DEF HubInv
<1>. QED  BY <1>1, HubAlways, PTL

(***************************************************************************)
(* Whoever listens is served by the registered topic, whose run works.     *)
(***************************************************************************)
THEOREM ListenersServed == Spec => []ServedWhileOpen
<1>1. HubInv => ServedWhileOpen
  BY DEF HubInv, TypeOK, ServedWhileOpen, ClientsInv, ClosersInv, RunInv, Listening
<1>. QED  BY <1>1, HubAlways, PTL

(***************************************************************************)
(* broadcast never sends on a channel that somebody has closed.            *)
(***************************************************************************)
THEOREM NoPanicOnSend == Spec => []NoSendOnClosed
<1>1. HubInv => NoSendOnClosed
  BY DEF HubInv, NoSendOnClosed, ClientsInv, Listening
<1>. QED  BY <1>1, HubAlways, PTL

(***************************************************************************)
(* No stopCh is closed twice, whoever leaves when.                         *)
(***************************************************************************)
THEOREM NoPanicOnClose == Spec => []StopsOnce
<1>1. HubInv => StopsOnce
  BY DEF HubInv, TypeOK, StopsOnce, ClosersInv, RunInv
<1>. QED  BY <1>1, HubAlways, PTL

(***************************************************************************)
(* No client misses an event and stays connected.                          *)
(***************************************************************************)
THEOREM NothingSkipped == Spec => []NoSilentGap
<1>1. HubInv => NoSilentGap
  BY DEF HubInv, NoSilentGap, ClientsInv
<1>. QED  BY <1>1, HubAlways, PTL

------------------------------------------------------------------------------
(* Subscriptions that nobody closes                                        *)

Closed(t) == \E c \in Conns : ending[c] = t /\ cpc[c] \in {"await", "done"}

\* As long as no subscription has ended by itself, run finds its channel closed
\* only after close has closed it, and then ends without making a new one.
LapseInv ==
  /\ \A c \in Conns : ending[c] # None /\ cpc[c] \in {"close", "await", "done"} =>
                       ending[c] \in stopped
  /\ lapses = 0 => \A t \in Conns :
       /\ rpc[t] \in {"read", "check"} /\ ~live[t] => Closed(t)
       /\ rpc[t] = "check" => t \in stopped
       /\ rpc[t] \notin {"renew", "backoff"}
       /\ Closed(t) => ~live[t]

LEMMA LapseInit == Init => LapseInv
BY DEF Init, LapseInv, Closed

LEMMA LapseNext == HubInv /\ LapseInv /\ [Next]_vars => LapseInv'
<1> SUFFICES ASSUME HubInv, LapseInv, [Next]_vars PROVE LapseInv'
  OBVIOUS
<1>. USE HubAssumption, NoneIsNoConn DEF HubInv, TypeOK, ConnTo, RunTo, LapseInv, Closed
<1>1. CASE UNCHANGED vars
  BY <1>1 DEF vars, topicVars, subVars, connVars, leaveVars, gauges
<1>2. ASSUME NEW c \in Conns, Subscribe(c) PROVE LapseInv'
  BY <1>2 DEF Subscribe, leaveVars, gauges, FreshInv
<1>3. ASSUME NEW c \in Conns, CountIn(c) \/ ReadEvent(c) \/ ChannelEnds(c) \/ ClientGone(c)
      PROVE  LapseInv'
  BY <1>3 DEF CountIn, ReadEvent, ChannelEnds, ClientGone, topicVars, subVars, leaveVars, gauges
<1>4. ASSUME NEW c \in Conns, Unsubscribe(c) PROVE LapseInv'
  BY <1>4 DEF Unsubscribe, topicVars, subVars, leaveVars, gauges, TopicAfterClose, ClosersInv
<1>5. ASSUME NEW c \in Conns, CountOut(c) PROVE LapseInv'
  BY <1>5 DEF CountOut, subVars
<1>6. ASSUME NEW c \in Conns, CloseSub(c) PROVE LapseInv'
  BY <1>6 DEF CloseSub, topicVars, leaveVars, gauges, ClosersInv
<1>7. ASSUME NEW c \in Conns, AwaitRun(c) PROVE LapseInv'
  BY <1>7 DEF AwaitRun, leaveVars, gauges
<1>8. ASSUME NEW t \in Conns, Run(t) PROVE LapseInv'
  <2>. USE <1>8 DEF topicVars, connVars, leaveVars, gauges
  <2>1. CASE Broadcast(t)
    BY <2>1 DEF Broadcast
  <2>2. CASE ReadStop(t) \/ ReadClosed(t) \/ CheckStop(t)
    BY <2>2 DEF ReadStop, ReadClosed, CheckStop, AfterCheck, AfterClosedChannel, StopSeen
  <2>3. CASE Resubscribe(t) \/ BackoffEnds(t)
    BY <2>3 DEF Resubscribe, BackoffEnds
  <2>. QED  BY <2>1, <2>2, <2>3 DEF Run
<1>9. ASSUME NEW t \in Conns, Lapse(t) PROVE LapseInv'
  BY <1>9 DEF Lapse, topicVars, connVars, leaveVars, gauges
<1>10. CASE Publish
  BY <1>10 DEF Publish, topicVars, connVars, leaveVars, gauges
<1>. QED  BY <1>1, <1>2, <1>3, <1>4, <1>5, <1>6, <1>7, <1>8, <1>9, <1>10 DEF Next, Leave

(***************************************************************************)
(* A closed topic leaves a Redis subscription behind only after another    *)
(* one has ended by itself.                                                *)
(***************************************************************************)
THEOREM LeakIsRare == Spec => []LeakNeedsLapse
<1>1. HubInv /\ LapseInv => LeakNeedsLapse
  BY DEF HubInv, TypeOK, LapseInv, Closed, LeakNeedsLapse
<1>2. Spec => []LapseInv
  BY LapseInit, LapseNext, HubAlways, PTL DEF Spec
<1>. QED  BY <1>1, <1>2, HubAlways, PTL

------------------------------------------------------------------------------
(* The gauges                                                              *)

Member == UNION {members[t] : t \in Conns}
Counting == {c \in Conns : cpc[c] = "count"}
CountingTopic == {c \in Counting : rpc[c] # "none"}
Uncounting == {c \in Conns : cpc[c] = "uncount" /\ removed[c]}
UncountingTopic == {c \in Conns : cpc[c] = "uncount" /\ ending[c] # None}

GaugeInv ==
  /\ sseClients = Cardinality(Member) - Cardinality(Counting) + Cardinality(Uncounting)
  /\ sseTopics = (IF topic = None THEN 0 ELSE 1)
                   - Cardinality(CountingTopic) + Cardinality(UncountingTopic)

LEMMA GaugeInvIsTrue == TypeOK => (GaugeInv <=> GaugesTrue)
<1>. SUFFICES ASSUME TypeOK  PROVE GaugeInv <=> GaugesTrue
  OBVIOUS
<1>1. Uncounting = {c \in {d \in Conns : cpc[d] = "uncount"} : removed[c]}
  BY DEF Uncounting
<1>2. UncountingTopic = {c \in {d \in Conns : cpc[d] = "uncount"} : ending[c] # None}
  BY DEF UncountingTopic
<1>. QED  BY <1>1, <1>2 DEF GaugeInv, GaugesTrue, Member, Counting, CountingTopic

\* How the number of a set of connections changes.
LEMMA OneMore ==
  ASSUME NEW S \in SUBSET Conns, NEW c \in Conns, c \notin S, NEW T, T = S \cup {c}
  PROVE  Cardinality(T) = Cardinality(S) + 1
BY GoneIsFinite, FS_AddElement

LEMMA OneLess ==
  ASSUME NEW S \in SUBSET Conns, NEW c \in S, NEW T, T = S \ {c}
  PROVE  Cardinality(T) = Cardinality(S) - 1
BY GoneIsFinite, FS_RemoveElement

LEMMA SomeLess ==
  ASSUME NEW S \in SUBSET Conns, NEW G \in SUBSET S
  PROVE  Cardinality(S \ G) = Cardinality(S) - Cardinality(G)
<1>1. IsFiniteSet(S)
  BY GoneIsFinite
<1>2. S \cap G = G
  OBVIOUS
<1>. QED  BY <1>1, <1>2, FS_Difference

LEMMA Counts ==
  ASSUME TypeOK
  PROVE  /\ Member \in SUBSET Conns /\ Counting \in SUBSET Conns
         /\ CountingTopic \in SUBSET Conns /\ Uncounting \in SUBSET Conns
         /\ UncountingTopic \in SUBSET Conns
         /\ Cardinality(Member) \in Nat /\ Cardinality(Counting) \in Nat
         /\ Cardinality(CountingTopic) \in Nat /\ Cardinality(Uncounting) \in Nat
         /\ Cardinality(UncountingTopic) \in Nat
<1>1. /\ Member \in SUBSET Conns /\ Counting \in SUBSET Conns
      /\ CountingTopic \in SUBSET Conns /\ Uncounting \in SUBSET Conns
      /\ UncountingTopic \in SUBSET Conns
  BY DEF TypeOK, Member, Counting, CountingTopic, Uncounting, UncountingTopic
<1>. QED  BY <1>1, GoneIsFinite

\* All clients are those of the registered topic.
LEMMA MemberIs ==
  ASSUME HubInv
  PROVE  Member = IF topic = None THEN {} ELSE members[topic]
<1>1. \A t \in Conns : \A c \in members[t] : t = topic
  BY DEF HubInv, ClientsInv
<1>2. topic = None \/ topic \in Conns
  BY DEF HubInv, TypeOK
<1>. QED  BY <1>1, <1>2, NoneIsNoConn DEF Member

LEMMA GaugeInit == Init => GaugeInv
<1>. SUFFICES ASSUME Init  PROVE GaugeInv
  OBVIOUS
<1>1. Member = {} /\ Counting = {} /\ CountingTopic = {} /\ Uncounting = {} /\ UncountingTopic = {}
  BY DEF Init, Member, Counting, CountingTopic, Uncounting, UncountingTopic
<1>. QED  BY <1>1, FS_EmptySet DEF Init, GaugeInv

LEMMA GaugeSame ==
  ASSUME GaugeInv, UNCHANGED <<sseClients, sseTopics, topic>>,
         Member' = Member, Counting' = Counting, CountingTopic' = CountingTopic,
         Uncounting' = Uncounting, UncountingTopic' = UncountingTopic
  PROVE  GaugeInv'
BY DEF GaugeInv

LEMMA GaugeNext == HubInv /\ HubInv' /\ GaugeInv /\ [Next]_vars => GaugeInv'
<1>. SUFFICES ASSUME HubInv, HubInv', GaugeInv, [Next]_vars  PROVE GaugeInv'
  OBVIOUS
<1>0. TypeOK /\ TypeOK'
  BY DEF HubInv
<1>a. /\ Member = IF topic = None THEN {} ELSE members[topic]
      /\ Member' = IF topic' = None THEN {} ELSE members'[topic']
  <2>1. \A t \in Conns : \A c \in members'[t] : t = topic'
    BY DEF HubInv, ClientsInv
  <2>2. topic' = None \/ topic' \in Conns
    BY <1>0 DEF TypeOK
  <2>. QED  BY <2>1, <2>2, MemberIs, NoneIsNoConn DEF Member
<1>. USE DEF ConnTo, RunTo
<1>1. ASSUME NEW c \in Conns, Subscribe(c)  PROVE GaugeInv'
  <2>1. cpc[c] = "idle" /\ cpc' = [cpc EXCEPT ![c] = "count"]
        /\ UNCHANGED <<removed, ending, sseClients, sseTopics>>
    BY <1>1 DEF Subscribe, leaveVars, gauges
  <2>2. c \notin Member /\ c \notin Counting /\ rpc[c] = "none"
    BY <1>0, <2>1 DEF HubInv, ClientsInv, Listening, Member, Counting, FreshInv
  <2>3. Counting' = Counting \cup {c}
    BY <1>0, <2>1 DEF Counting, TypeOK
  <2>4. Uncounting' = Uncounting /\ UncountingTopic' = UncountingTopic
    BY <1>0, <2>1 DEF Uncounting, UncountingTopic, TypeOK
  <2>5. CASE topic = None
    <3>1. topic' = c /\ members'[c] = {c} /\ rpc' = [rpc EXCEPT ![c] = "read"]
      BY <1>0, <1>1, <2>5 DEF Subscribe, TypeOK
    <3>2. Member' = Member \cup {c} /\ topic' # None
      BY <1>a, <2>5, <3>1, NoneIsNoConn
    <3>3. CountingTopic' = CountingTopic \cup {c} /\ c \notin CountingTopic
      BY <1>0, <2>2, <2>3, <3>1 DEF CountingTopic, TypeOK
    <3>4. /\ Cardinality(Member') = Cardinality(Member) + 1
          /\ Cardinality(Counting') = Cardinality(Counting) + 1
          /\ Cardinality(CountingTopic') = Cardinality(CountingTopic) + 1
      BY <1>0, <2>2, <2>3, <3>2, <3>3, Counts, OneMore
    <3>. QED  BY <1>0, <2>1, <2>4, <2>5, <3>2, <3>4, Counts DEF GaugeInv
  <2>6. CASE topic # None
    <3>1. topic' = topic /\ members'[topic] = members[topic] \cup {c} /\ rpc' = rpc
      BY <1>0, <1>1, <2>6 DEF Subscribe, TypeOK
    <3>2. Member' = Member \cup {c}
      BY <1>a, <2>6, <3>1
    <3>3. CountingTopic' = CountingTopic
      BY <1>0, <2>2, <2>3, <3>1 DEF CountingTopic
    <3>4. /\ Cardinality(Member') = Cardinality(Member) + 1
          /\ Cardinality(Counting') = Cardinality(Counting) + 1
      BY <1>0, <2>2, <2>3, <3>2, Counts, OneMore
    <3>. QED  BY <1>0, <2>1, <2>4, <3>1, <3>3, <3>4, Counts DEF GaugeInv
  <2>. QED  BY <2>5, <2>6
<1>2. ASSUME NEW c \in Conns, CountIn(c)  PROVE GaugeInv'
  <2>1. /\ cpc[c] = "count" /\ cpc' = [cpc EXCEPT ![c] = "stream"]
        /\ sseClients' = sseClients + 1
        /\ sseTopics' = sseTopics + (IF rpc[c] # "none" THEN 1 ELSE 0)
        /\ UNCHANGED <<topic, members, rpc, removed, ending>>
    BY <1>2 DEF CountIn, topicVars, subVars, leaveVars
  <2>2. Counting' = Counting \ {c} /\ c \in Counting
    BY <1>0, <2>1 DEF Counting, TypeOK
  <2>3. Uncounting' = Uncounting /\ UncountingTopic' = UncountingTopic /\ Member' = Member
    BY <1>0, <2>1 DEF Uncounting, UncountingTopic, Member, TypeOK
  <2>4. Cardinality(Counting') = Cardinality(Counting) - 1
    BY <1>0, <2>2, Counts, OneLess
  <2>5. CASE rpc[c] # "none"
    <3>1. CountingTopic' = CountingTopic \ {c} /\ c \in CountingTopic
      BY <2>1, <2>2, <2>5 DEF CountingTopic
    <3>2. Cardinality(CountingTopic') = Cardinality(CountingTopic) - 1
      BY <1>0, <3>1, Counts, OneLess
    <3>. QED  BY <1>0, <2>1, <2>3, <2>4, <2>5, <3>2, Counts DEF GaugeInv, TypeOK
  <2>6. CASE rpc[c] = "none"
    <3>1. CountingTopic' = CountingTopic
      BY <2>1, <2>2, <2>6 DEF CountingTopic
    <3>. QED  BY <1>0, <2>1, <2>3, <2>4, <2>6, <3>1, Counts DEF GaugeInv, TypeOK
  <2>. QED  BY <2>5, <2>6
<1>3. ASSUME NEW c \in Conns, ReadEvent(c) \/ ChannelEnds(c) \/ ClientGone(c)  PROVE GaugeInv'
  <2>1. UNCHANGED <<sseClients, sseTopics, topic, members, rpc, removed, ending>>
    BY <1>3 DEF ReadEvent, ChannelEnds, ClientGone, gauges, topicVars, subVars, leaveVars
  <2>2. \A d \in Conns : /\ cpc'[d] = "count" <=> cpc[d] = "count"
                         /\ cpc'[d] = "uncount" <=> cpc[d] = "uncount"
    BY <1>0, <1>3 DEF ReadEvent, ChannelEnds, ClientGone, TypeOK
  <2>. QED  BY <2>1, <2>2, GaugeSame
            DEF Member, Counting, CountingTopic, Uncounting, UncountingTopic
<1>4. ASSUME NEW c \in Conns, Unsubscribe(c)  PROVE GaugeInv'
  <2>1. cpc[c] = "leave" /\ UNCHANGED <<sseClients, sseTopics, rpc>>
    BY <1>4 DEF Unsubscribe, subVars, gauges
  <2>2. CASE topic = None
    <3>1. UNCHANGED <<topic, members, removed, ending>> /\ cpc' = [cpc EXCEPT ![c] = "done"]
      BY <1>4, <2>2 DEF Unsubscribe, topicVars, leaveVars
    <3>2. \A d \in Conns : /\ cpc'[d] = "count" <=> cpc[d] = "count"
                           /\ cpc'[d] = "uncount" <=> cpc[d] = "uncount"
      BY <1>0, <2>1, <3>1 DEF TypeOK
    <3>. QED  BY <2>1, <3>1, <3>2, GaugeSame
              DEF Member, Counting, CountingTopic, Uncounting, UncountingTopic
  <2>3. CASE topic # None
    <3>1. /\ cpc' = [cpc EXCEPT ![c] = "uncount"]
          /\ members' = [members EXCEPT ![topic] = @ \ {c}]
          /\ removed' = [removed EXCEPT ![c] = WasMember(c, topic)]
          /\ ending' = [ending EXCEPT ![c] = IF LeavesEmpty(c, topic) THEN topic ELSE None]
          /\ topic' = IF LeavesEmpty(c, topic) THEN None ELSE topic
      BY <1>4, <2>3 DEF Unsubscribe, TopicAfterClose
    <3>2. /\ Counting' = Counting /\ CountingTopic' = CountingTopic
          /\ c \notin Uncounting /\ c \notin UncountingTopic
      BY <1>0, <2>1, <3>1 DEF Counting, CountingTopic, Uncounting, UncountingTopic, TypeOK
    <3>3. Member' = Member \ {c}
      BY <1>0, <1>a, <2>3, <3>1 DEF LeavesEmpty, TypeOK
    <3>4. Cardinality(Member') - Cardinality(Member)
            = Cardinality(Uncounting) - Cardinality(Uncounting')
      <4>1. \A d \in Conns \ {c} : cpc'[d] = cpc[d] /\ removed'[d] = removed[d]
        BY <1>0, <3>1 DEF TypeOK
      <4>2. cpc'[c] = "uncount" /\ (removed'[c] <=> c \in Member)
        <5>1. cpc'[c] = "uncount" /\ removed'[c] = WasMember(c, topic)
          BY <1>0, <3>1 DEF TypeOK
        <5>. QED  BY <1>a, <2>3, <5>1 DEF WasMember
      <4>3. CASE c \in Member
        <5>1. Uncounting' = Uncounting \cup {c}
          BY <4>1, <4>2, <4>3 DEF Uncounting
        <5>. QED  BY <1>0, <3>2, <3>3, <4>3, <5>1, Counts, OneLess, OneMore
      <4>4. CASE c \notin Member
        <5>1. Uncounting' = Uncounting /\ Member' = Member
          BY <3>2, <3>3, <4>1, <4>2, <4>4 DEF Uncounting
        <5>. QED  BY <1>0, <5>1, Counts
      <4>. QED  BY <4>3, <4>4
    <3>5. (IF topic' = None THEN 0 ELSE 1) + Cardinality(UncountingTopic')
            = 1 + Cardinality(UncountingTopic)
      <4>1. \A d \in Conns \ {c} : cpc'[d] = cpc[d] /\ ending'[d] = ending[d]
        BY <1>0, <3>1 DEF TypeOK
      <4>2. CASE LeavesEmpty(c, topic)
        <5>1. topic' = None /\ cpc'[c] = "uncount" /\ ending'[c] = topic
          BY <1>0, <3>1, <4>2 DEF TypeOK
        <5>2. UncountingTopic' = UncountingTopic \cup {c}
          BY <2>3, <4>1, <5>1 DEF UncountingTopic
        <5>. QED  BY <1>0, <3>2, <5>1, <5>2, Counts, OneMore
      <4>3. CASE ~LeavesEmpty(c, topic)
        <5>1. topic' = topic /\ ending'[c] = None
          BY <1>0, <3>1, <4>3 DEF TypeOK
        <5>2. UncountingTopic' = UncountingTopic
          BY <3>2, <4>1, <5>1 DEF UncountingTopic
        <5>. QED  BY <1>0, <2>3, <5>1, <5>2, Counts
      <4>. QED  BY <4>2, <4>3
    <3>6. sseClients' = Cardinality(Member') - Cardinality(Counting') + Cardinality(Uncounting')
      <4>1. /\ Cardinality(Member') \in Int /\ Cardinality(Uncounting') \in Int
        <5>1. Member' \in SUBSET Conns /\ Uncounting' \in SUBSET Conns
          BY <1>0 DEF Member, Uncounting, TypeOK
        <5>. QED  BY <5>1, GoneIsFinite
      <4>2. sseClients' = Cardinality(Member) - Cardinality(Counting) + Cardinality(Uncounting)
        BY <2>1 DEF GaugeInv
      <4>3. Cardinality(Counting') = Cardinality(Counting)
        BY <3>2
      <4>. QED  BY <1>0, <3>4, <4>1, <4>2, <4>3, Counts
    <3>7. sseTopics' = (IF topic' = None THEN 0 ELSE 1)
                        - Cardinality(CountingTopic') + Cardinality(UncountingTopic')
      <4>1. Cardinality(UncountingTopic') \in Int
        <5>1. UncountingTopic' \in SUBSET Conns
          BY DEF UncountingTopic
        <5>. QED  BY <5>1, GoneIsFinite
      <4>2. (IF topic' = None THEN 0 ELSE 1) \in Int
        OBVIOUS
      <4>3. sseTopics' = 1 - Cardinality(CountingTopic) + Cardinality(UncountingTopic)
        BY <2>1, <2>3 DEF GaugeInv
      <4>. QED  BY <1>0, <3>2, <3>5, <4>1, <4>2, <4>3, Counts
    <3>. QED  BY <3>6, <3>7 DEF GaugeInv
  <2>. QED  BY <2>2, <2>3
<1>5. ASSUME NEW c \in Conns, CountOut(c)  PROVE GaugeInv'
  <2>1. /\ cpc[c] = "uncount"
        /\ cpc' = [cpc EXCEPT ![c] = IF ending[c] # None THEN "close" ELSE "done"]
        /\ sseClients' = sseClients - (IF removed[c] THEN 1 ELSE 0)
        /\ sseTopics' = sseTopics - (IF ending[c] # None THEN 1 ELSE 0)
        /\ removed' = [removed EXCEPT ![c] = FALSE]
        /\ UNCHANGED <<topic, members, rpc, ending>>
    BY <1>5 DEF CountOut, subVars
  <2>2. /\ \A d \in Conns \ {c} : cpc'[d] = cpc[d] /\ removed'[d] = removed[d]
        /\ cpc'[c] \in {"close", "done"}
    BY <1>0, <2>1 DEF TypeOK
  <2>3. Member' = Member /\ Counting' = Counting /\ CountingTopic' = CountingTopic
    BY <2>1, <2>2 DEF Member, Counting, CountingTopic
  <2>4. Cardinality(Uncounting') = Cardinality(Uncounting) - (IF removed[c] THEN 1 ELSE 0)
    <3>1. Uncounting' = Uncounting \ {c} /\ (c \in Uncounting <=> removed[c])
      BY <2>1, <2>2 DEF Uncounting
    <3>2. CASE removed[c]
      BY <1>0, <3>1, <3>2, Counts, OneLess
    <3>3. CASE ~removed[c]
      <4>1. Uncounting' = Uncounting
        BY <3>1, <3>3
      <4>. QED  BY <1>0, <3>3, <4>1, Counts
    <3>. QED  BY <3>2, <3>3
  <2>5. Cardinality(UncountingTopic')
          = Cardinality(UncountingTopic) - (IF ending[c] # None THEN 1 ELSE 0)
    <3>1. UncountingTopic' = UncountingTopic \ {c} /\ (c \in UncountingTopic <=> ending[c] # None)
      BY <2>1, <2>2 DEF UncountingTopic
    <3>2. CASE ending[c] # None
      BY <1>0, <3>1, <3>2, Counts, OneLess
    <3>3. CASE ending[c] = None
      <4>1. UncountingTopic' = UncountingTopic
        BY <3>1, <3>3
      <4>. QED  BY <1>0, <3>3, <4>1, Counts
    <3>. QED  BY <3>2, <3>3
  <2>. QED  BY <1>0, <2>1, <2>3, <2>4, <2>5, Counts DEF GaugeInv, TypeOK
<1>6. ASSUME NEW c \in Conns, CloseSub(c) \/ AwaitRun(c)  PROVE GaugeInv'
  <2>1. UNCHANGED <<sseClients, sseTopics, topic, rpc, removed, ending>>
    BY <1>6 DEF CloseSub, AwaitRun, gauges, topicVars, leaveVars
  <2>2. \A d \in Conns : /\ cpc'[d] = "count" <=> cpc[d] = "count"
                         /\ cpc'[d] = "uncount" <=> cpc[d] = "uncount"
    BY <1>0, <1>6 DEF CloseSub, AwaitRun, TypeOK
  <2>3. topic # None => members'[topic] = members[topic]
    BY <1>0, <1>6 DEF CloseSub, AwaitRun, topicVars, TypeOK, HubInv, ClosersInv
  <2>. QED  BY <1>a, <2>1, <2>2, <2>3, GaugeSame
            DEF Counting, CountingTopic, Uncounting, UncountingTopic
<1>7. ASSUME NEW t \in Conns, Broadcast(t)  PROVE GaugeInv'
  <2>. DEFINE gone == {c \in members[t] : ~Room(c)}
  <2>1. /\ members' = [members EXCEPT ![t] = @ \ gone]
        /\ sseClients' = sseClients - Cardinality(gone)
        /\ UNCHANGED <<topic, rpc, cpc, removed, ending, sseTopics>>
    BY <1>7 DEF Broadcast, Dropped, StillMembers, leaveVars
  <2>2. gone \in SUBSET Member /\ Member' = Member \ gone
    <3>1. t # topic => gone = {}
      BY DEF HubInv, ClientsInv
    <3>2. gone \subseteq Member
      BY DEF Member
    <3>3. topic # None => members'[topic] = members[topic] \ gone
      BY <1>0, <2>1, <3>1 DEF TypeOK
    <3>4. CASE topic = None
      BY <1>a, <2>1, <3>2, <3>4
    <3>5. CASE topic # None
      <4>. HIDE DEF gone
      <4>. QED  BY <1>a, <2>1, <3>2, <3>3, <3>5
    <3>. QED  BY <3>4, <3>5
  <2>3. Cardinality(Member') = Cardinality(Member) - Cardinality(gone)
    BY <1>0, <2>2, Counts, SomeLess
  <2>4. Cardinality(gone) \in Nat
    BY <1>0, <2>2, Counts, GoneIsFinite
  <2>5. /\ Counting' = Counting /\ CountingTopic' = CountingTopic
        /\ Uncounting' = Uncounting /\ UncountingTopic' = UncountingTopic
    BY <2>1 DEF Counting, CountingTopic, Uncounting, UncountingTopic
  <2>. HIDE DEF gone
  <2>. QED  BY <1>0, <2>1, <2>3, <2>4, <2>5, Counts DEF GaugeInv, TypeOK
<1>8. ASSUME NEW t \in Conns,
             \/ ReadStop(t) \/ ReadClosed(t) \/ CheckStop(t) \/ Resubscribe(t)
             \/ BackoffEnds(t) \/ Lapse(t)
      PROVE  GaugeInv'
  <2>1. UNCHANGED <<sseClients, sseTopics, topic, members, cpc, removed, ending>>
    BY <1>8 DEF ReadStop, ReadClosed, CheckStop, Resubscribe, BackoffEnds, Lapse,
                topicVars, connVars, leaveVars, gauges
  <2>2. \A d \in Conns : rpc'[d] = "none" <=> rpc[d] = "none"
    BY <1>0, <1>8 DEF ReadStop, ReadClosed, CheckStop, Resubscribe, BackoffEnds, Lapse,
                      AfterClosedChannel, AfterCheck, TypeOK
  <2>3. /\ Member' = Member /\ Counting' = Counting /\ CountingTopic' = CountingTopic
        /\ Uncounting' = Uncounting /\ UncountingTopic' = UncountingTopic
    BY <2>1, <2>2 DEF Member, Counting, CountingTopic, Uncounting, UncountingTopic
  <2>. QED  BY <2>1, <2>3, GaugeSame
<1>9. CASE Publish \/ UNCHANGED vars
  <2>1. UNCHANGED <<sseClients, sseTopics, topic, members, cpc, removed, ending, rpc>>
    BY <1>9 DEF Publish, vars, topicVars, subVars, connVars, leaveVars, gauges
  <2>. QED  BY <2>1 DEF GaugeInv, Member, Counting, CountingTopic, Uncounting, UncountingTopic
<1>. QED  BY <1>1, <1>2, <1>3, <1>4, <1>5, <1>6, <1>7, <1>8, <1>9 DEF Next, Leave, Run

(***************************************************************************)
(* The gauges of connections and topics count what there is, but for those *)
(* between their step on the topics and their Inc or Dec: broadcast and    *)
(* unsubscribe never subtract the same client twice.                       *)
(***************************************************************************)
THEOREM GaugesAreTrue == Spec => []GaugesTrue
<1>1. HubInv /\ GaugeInv => GaugesTrue
  BY GaugeInvIsTrue DEF HubInv
<1>2. Spec => []GaugeInv
  BY GaugeInit, GaugeNext, HubAlways, PTL DEF Spec
<1>. QED  BY <1>1, <1>2, HubAlways, PTL

------------------------------------------------------------------------------
(* The hub implements the feed of events it promises                       *)

\* What the feed sees of the hub changes for nobody, or for one connection.
LEMMA FeedSame ==
  ASSUME TypeOK, UNCHANGED buffer, \A c \in Conns : Standing(c)' = Standing(c)
  PROVE  UNCHANGED Feed!feedVars
<1>1. [c \in Conns |-> Standing(c)]' = [c \in Conns |-> Standing(c)]
  OBVIOUS
<1>. QED  BY <1>1 DEF Feed!feedVars

LEMMA ListensIff ==
  ASSUME TypeOK, NEW c \in Conns  PROVE Standing(c) = "listening" <=> Listening(c)
BY DEF TypeOK, ConnPCs, Standing, Listening

\* The steps of one handler: it joins, takes an event, leaves or stutters.
LEMMA HandlerSimulates ==
  ASSUME HubInv, NEW c \in Conns,
         \/ Subscribe(c) \/ CountIn(c) \/ ReadEvent(c) \/ ChannelEnds(c) \/ ClientGone(c)
         \/ Leave(c)
  PROVE  [Feed!Next]_Feed!feedVars
<1>0. TypeOK /\ FreshInv /\ ClientsInv /\ ClosersInv
  BY DEF HubInv
<1>. USE DEF ConnTo
<1>1. CASE Subscribe(c)
  <2>1. /\ cpc[c] = "idle" /\ cpc' = [cpc EXCEPT ![c] = "count"]
        /\ UNCHANGED <<shut, buffer>>
    BY <1>1 DEF Subscribe
  <2>2. Standing(c) = "out" /\ Standing(c)' = "listening"
    BY <1>0, <2>1 DEF TypeOK, FreshInv, Standing
  <2>3. \A d \in Conns \ {c} : Standing(d)' = Standing(d)
    BY <1>0, <2>1 DEF TypeOK, Standing
  <2>4. Feed!Join(c)
    BY <2>1, <2>2, <2>3 DEF Feed!Join
  <2>. QED  BY <2>4 DEF Feed!Next
<1>2. CASE CountIn(c) \/ ChannelEnds(c) \/ ClientGone(c)
  <2>1. UNCHANGED <<shut, buffer>> /\ \A d \in Conns \ {c} : cpc'[d] = cpc[d]
    BY <1>0, <1>2 DEF CountIn, ChannelEnds, ClientGone, TypeOK
  <2>2. cpc[c] \in {"count", "stream"} /\ cpc'[c] \in {"stream", "leave"}
    BY <1>0, <1>2 DEF CountIn, ChannelEnds, ClientGone, TypeOK
  <2>3. \A d \in Conns : Standing(d)' = Standing(d)
    BY <2>1, <2>2 DEF Standing
  <2>. QED  BY <1>0, <2>1, <2>3, FeedSame
<1>3. CASE ReadEvent(c)
  <2>1. buffer[c] > 0 /\ buffer' = [buffer EXCEPT ![c] = @ - 1] /\ UNCHANGED <<cpc, shut>>
    BY <1>3 DEF ReadEvent
  <2>2. \A d \in Conns : Standing(d)' = Standing(d)
    BY <2>1 DEF Standing
  <2>3. Feed!Take(c)
    BY <2>1, <2>2 DEF Feed!Take
  <2>. QED  BY <2>3 DEF Feed!Next
<1>4. CASE Unsubscribe(c)
  <2>1. /\ cpc[c] = "leave" /\ cpc'[c] \in {"uncount", "done"}
        /\ \A d \in Conns \ {c} : cpc'[d] = cpc[d] /\ (d \in shut' <=> d \in shut)
        /\ buffer' = [buffer EXCEPT ![c] = 0]
    BY <1>0, <1>4 DEF Unsubscribe, TypeOK
  <2>2. Standing(c) \in {"listening", "cut"} /\ Standing(c)' = "gone"
    BY <2>1 DEF Standing
  <2>3. \A d \in Conns \ {c} : Standing(d)' = Standing(d)
    BY <2>1 DEF Standing
  <2>4. Feed!Leave(c)
    BY <2>1, <2>2, <2>3 DEF Feed!Leave
  <2>. QED  BY <2>4 DEF Feed!Next
<1>5. CASE CountOut(c) \/ CloseSub(c) \/ AwaitRun(c)
  <2>1. /\ \A d \in Conns \ {c} : cpc'[d] = cpc[d]
        /\ cpc[c] \in {"uncount", "close", "await"}
        /\ cpc'[c] \in {"close", "await", "done"}
        /\ UNCHANGED buffer
    BY <1>0, <1>5 DEF CountOut, CloseSub, AwaitRun, TypeOK
  <2>2. shut' = shut
    <3>1. CASE AwaitRun(c)
      <4>1. ending[c] \in Conns /\ ending[c] # topic
        BY <1>0, <3>1 DEF AwaitRun, ClosersInv, TypeOK
      <4>2. members[ending[c]] = {}
        BY <1>0, <4>1 DEF ClientsInv, TypeOK
      <4>. QED  BY <3>1, <4>2 DEF AwaitRun
    <3>. QED  BY <1>5, <3>1 DEF CountOut, CloseSub
  <2>3. \A d \in Conns : Standing(d)' = Standing(d)
    BY <2>1, <2>2 DEF Standing
  <2>. QED  BY <1>0, <2>1, <2>3, FeedSame
<1>. QED  BY <1>1, <1>2, <1>3, <1>4, <1>5 DEF Leave

\* A broadcast announces the event to all who listen; a topic that has left
\* the map reaches nobody.
LEMMA BroadcastSimulates ==
  ASSUME HubInv, NEW t \in Conns, Broadcast(t)
  PROVE  [Feed!Next]_Feed!feedVars
<1>0. TypeOK /\ ClientsInv
  BY DEF HubInv
<1>. DEFINE slow == {c \in members[t] : ~Room(c)}
<1>1. /\ buffer' = [c \in Conns |-> IF c \in members[t] \ slow THEN buffer[c] + 1 ELSE buffer[c]]
      /\ shut' = shut \cup slow
      /\ cpc' = cpc
  BY DEF Broadcast, Dropped
<1>2. CASE t # topic
  <2>1. members[t] = {}
    BY <1>0, <1>2 DEF ClientsInv, TypeOK
  <2>2. buffer' = buffer /\ shut' = shut
    BY <1>0, <1>1, <2>1 DEF TypeOK
  <2>3. \A c \in Conns : Standing(c)' = Standing(c)
    BY <1>1, <2>2 DEF Standing
  <2>. QED  BY <1>0, <2>2, <2>3, FeedSame
<1>3. CASE t = topic
  <2>1. \A c \in Conns : c \in members[t] <=> Standing(c) = "listening"
    BY <1>0, <1>3, ListensIff DEF ClientsInv, TypeOK
  <2>2. Feed!Listeners = members[t]
    BY <1>0, <2>1 DEF Feed!Listeners, TypeOK
  <2>3. Feed!Full = slow
    <3>1. \A c \in members[t] : c \in Conns
      BY <1>0, <1>3 DEF TypeOK, ClientsInv
    <3>2. \A c \in Conns : buffer[c] = ClientBuffer <=> ~Room(c)
      BY <1>0, HubAssumption DEF Room, TypeOK
    <3>. QED  BY <2>2, <3>1, <3>2 DEF Feed!Full
  <2>4. \A c \in Conns : Standing(c)' = IF c \in slow THEN "cut" ELSE Standing(c)
    <3>. TAKE c \in Conns
    <3>1. CASE c \in slow
      BY <1>0, <1>1, <3>1 DEF ClientsInv, Listening, Standing
    <3>2. CASE c \notin slow
      BY <1>1, <3>2 DEF Standing
    <3>. QED  BY <3>1, <3>2
  <2>. HIDE DEF slow
  <2>5. Feed!Announce
    BY <1>1, <2>2, <2>3, <2>4 DEF Feed!Announce
  <2>. QED  BY <2>5 DEF Feed!Next
<1>. QED  BY <1>2, <1>3

LEMMA HubSimulates ==
  ASSUME HubInv, [Next]_vars
  PROVE  [Feed!Next]_Feed!feedVars
<1>0. TypeOK
  BY DEF HubInv
<1>1. ASSUME UNCHANGED <<cpc, shut, buffer>>  PROVE UNCHANGED Feed!feedVars
  <2>1. \A c \in Conns : Standing(c)' = Standing(c)
    BY <1>1 DEF Standing
  <2>. QED  BY <1>0, <1>1, <2>1, FeedSame
<1>2. ASSUME NEW t \in Conns,
             \/ ReadStop(t) \/ ReadClosed(t) \/ CheckStop(t) \/ Resubscribe(t)
             \/ BackoffEnds(t) \/ Lapse(t)
      PROVE  UNCHANGED <<cpc, shut, buffer>>
  BY <1>2 DEF ReadStop, ReadClosed, CheckStop, Resubscribe, BackoffEnds, Lapse, connVars
<1>3. Publish \/ UNCHANGED vars => UNCHANGED <<cpc, shut, buffer>>
  BY DEF Publish, vars, connVars
<1>. QED  BY <1>1, <1>2, <1>3, HandlerSimulates, BroadcastSimulates DEF Next, Run

(***************************************************************************)
(* The hub, with its topics, run goroutines, lapsing subscriptions and     *)
(* overlapping departures, implements the feed: whatever run broadcasts    *)
(* reaches all listeners at once, and only the slow are cut off.           *)
(***************************************************************************)
THEOREM KeepsTheFeed == Spec => ImplementsFeed
<1>1. Init => Feed!Init
  BY DEF Init, Feed!Init, Standing
<1>2. HubInv /\ [Next]_vars => [Feed!Next]_Feed!feedVars
  BY HubSimulates
<1>. QED  BY <1>1, <1>2, HubAlways, PTL DEF Spec, ImplementsFeed, Feed!Spec
==============================================================================
