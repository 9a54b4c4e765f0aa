------------------------------- MODULE SSEHub --------------------------------
(***************************************************************************)
(* The fan-out of server-sent events in one API process: the connections   *)
(* of an account share a topic, which holds one Redis subscription and a   *)
(* goroutine that reads it (run).                                          *)
(*                                                                         *)
(* One account is modelled; accounts share nothing but the mutex of the    *)
(* hub.  Connections are numbered in the order in which they subscribe,    *)
(* and a topic has the number of the connection that made it.  A section   *)
(* under h.mu or t.mu is one step, since nothing else touches what it      *)
(* changes.  Events are counted and not told apart.                        *)
(***************************************************************************)
EXTENDS Integers, FiniteSets

CONSTANTS
  MaxConns,      \* bound: SSE connections of the account
  None,          \* no topic
  ClientBuffer,  \* capacity of a client channel (16)
  MaxEvents,     \* bound: events published
  MaxLapses      \* bound: how often a Redis subscription is closed by itself

ASSUME HubAssumption ==
  /\ MaxConns \in Nat
  /\ None \notin 1..MaxConns
  /\ ClientBuffer \in Nat \ {0}
  /\ MaxEvents \in Nat
  /\ MaxLapses \in Nat

Conns == 1..MaxConns

VARIABLES
  topic,       \* h.topics[account]
  members,     \* t.clients of each topic
  stopped,     \* topics whose stopCh is closed
  live,        \* topics whose current Redis subscription t.sub is open
  pending,     \* events received from Redis that run has not read yet
  rpc,         \* where the run goroutine of each topic is
  cpc,         \* where the handler of each connection is
  shut,        \* connections whose client channel is closed
  buffer,      \* events in the client channel
  removed,     \* unsubscribe: the client was still a member
  ending,      \* unsubscribe: the topic it found empty and closes, or None
  sseClients,  \* the gauge SSEClients
  sseTopics,   \* the gauge SSETopics
  due,         \* history: events broadcast while a member, minus those read
  events, lapses

topicVars == <<topic, members, stopped>>
subVars   == <<live, pending, rpc, events, lapses>>
connVars  == <<cpc, shut, buffer, due>>
leaveVars == <<removed, ending>>
gauges    == <<sseClients, sseTopics>>
vars == <<topicVars, subVars, connVars, leaveVars, gauges>>

RunPCs  == {"none", "read", "check", "renew", "backoff", "done"}
ConnPCs == {"idle", "count", "stream", "leave", "uncount", "close", "await", "done"}

TypeOK ==
  /\ topic \in Conns \cup {None}
  /\ members \in [Conns -> SUBSET Conns]
  /\ stopped \in SUBSET Conns
  /\ live \in [Conns -> BOOLEAN]
  /\ pending \in [Conns -> 0..MaxEvents]
  /\ rpc \in [Conns -> RunPCs]
  /\ cpc \in [Conns -> ConnPCs]
  /\ shut \in SUBSET Conns
  /\ buffer \in [Conns -> 0..ClientBuffer]
  /\ removed \in [Conns -> BOOLEAN]
  /\ ending \in [Conns -> Conns \cup {None}]
  /\ sseClients \in Int
  /\ sseTopics \in Int
  /\ due \in [Conns -> Int]
  /\ events \in 0..MaxEvents
  /\ lapses \in 0..MaxLapses

Init ==
  /\ topic = None
  /\ members = [t \in Conns |-> {}]
  /\ stopped = {}
  /\ live = [t \in Conns |-> FALSE]
  /\ pending = [t \in Conns |-> 0]
  /\ rpc = [t \in Conns |-> "none"]
  /\ cpc = [c \in Conns |-> "idle"]
  /\ shut = {}
  /\ buffer = [c \in Conns |-> 0]
  /\ removed = [c \in Conns |-> FALSE]
  /\ ending = [c \in Conns |-> None]
  /\ sseClients = 0
  /\ sseTopics = 0
  /\ due = [c \in Conns |-> 0]
  /\ events = 0
  /\ lapses = 0

ConnTo(c, from, to) == cpc[c] = from /\ cpc' = [cpc EXCEPT ![c] = to]
RunTo(t, from, to)  == rpc[t] = from /\ rpc' = [rpc EXCEPT ![t] = to]

------------------------------------------------------------------------------
(* The handler of a connection                                             *)

\* Under h.mu: the first client makes the topic and starts run.
Subscribe(c) ==
  /\ ConnTo(c, "idle", "count")
  /\ \A d \in 1..(c - 1) : cpc[d] # "idle"
  /\ IF topic = None
       THEN /\ topic' = c
            /\ members' = [members EXCEPT ![c] = {c}]
            /\ live' = [live EXCEPT ![c] = TRUE]
            /\ rpc' = [rpc EXCEPT ![c] = "read"]
       ELSE /\ members' = [members EXCEPT ![topic] = @ \cup {c}]
            /\ UNCHANGED <<topic, live, rpc>>
  /\ UNCHANGED <<stopped, pending, events, lapses, shut, buffer, due, leaveVars,
                 gauges>>

\* After h.mu is released.
CountIn(c) ==
  /\ ConnTo(c, "count", "stream")
  /\ sseClients' = sseClients + 1
  /\ sseTopics' = sseTopics + (IF rpc[c] # "none" THEN 1 ELSE 0)
  /\ UNCHANGED <<topicVars, subVars, shut, buffer, due, leaveVars>>

ReadEvent(c) ==
  /\ cpc[c] = "stream"
  /\ buffer[c] > 0
  /\ buffer' = [buffer EXCEPT ![c] = @ - 1]
  /\ due' = [due EXCEPT ![c] = @ - 1]
  /\ UNCHANGED <<topicVars, subVars, cpc, shut, leaveVars, gauges>>

\* A closed channel still yields what is buffered.
ChannelEnds(c) ==
  /\ c \in shut
  /\ buffer[c] = 0
  /\ ConnTo(c, "stream", "leave")
  /\ UNCHANGED <<topicVars, subVars, shut, buffer, due, leaveVars, gauges>>

\* The request context is done.
ClientGone(c) ==
  /\ ConnTo(c, "stream", "leave")
  /\ UNCHANGED <<topicVars, subVars, shut, buffer, due, leaveVars, gauges>>

\* Mutant: the client is taken for a member although broadcast dropped it.
RemovedAlways(c, t) == TRUE

WasMember(c, t) == c \in members[t]

\* Mutant: the client itself is counted, as before it was removed.
OneLeft(c, t) == Cardinality(members[t]) <= 1

LeavesEmpty(c, t) == members[t] \ {c} = {}

\* Mutant: an emptied topic stays in the map.
KeepTopic(t) == t

TopicAfterClose(t) == None

\* Under h.mu.  Without a topic the channel is closed (again) and that is all.
\* Nobody reads the channel any more.
Unsubscribe(c) ==
  LET t == topic
      empty == LeavesEmpty(c, t)
  IN  /\ buffer' = [buffer EXCEPT ![c] = 0]
      /\ due' = [due EXCEPT ![c] = 0]
      /\ IF t = None
           THEN /\ ConnTo(c, "leave", "done")
                /\ shut' = shut \cup {c}
                /\ UNCHANGED <<topicVars, leaveVars, subVars, gauges>>
           ELSE /\ ConnTo(c, "leave", "uncount")
                /\ members' = [members EXCEPT ![t] = @ \ {c}]
                /\ removed' = [removed EXCEPT ![c] = WasMember(c, t)]
                /\ shut' = IF c \in members[t] THEN shut \cup {c} ELSE shut
                /\ ending' = [ending EXCEPT ![c] = IF empty THEN t ELSE None]
                /\ topic' = IF empty THEN TopicAfterClose(t) ELSE t
                /\ UNCHANGED <<stopped, subVars, gauges>>

\* The gauges, and the first statement of sseTopic.close: close(stopCh).
CountOut(c) ==
  /\ ConnTo(c, "uncount", IF ending[c] # None THEN "close" ELSE "done")
  /\ sseClients' = sseClients - (IF removed[c] THEN 1 ELSE 0)
  /\ sseTopics' = sseTopics - (IF ending[c] # None THEN 1 ELSE 0)
  /\ stopped' = stopped \cup ({ending[c]} \ {None})
  /\ removed' = [removed EXCEPT ![c] = FALSE]
  /\ UNCHANGED <<topic, members, subVars, shut, buffer, due, ending>>

\* Under subMu.
CloseSub(c) ==
  /\ ConnTo(c, "close", "await")
  /\ live' = [live EXCEPT ![ending[c]] = FALSE]
  /\ UNCHANGED <<topicVars, pending, rpc, events, lapses, shut, buffer, due,
                 leaveVars, gauges>>

\* close waits for run and closes the channels of the clients that are left.
AwaitRun(c) ==
  /\ ConnTo(c, "await", "done")
  /\ rpc[ending[c]] = "done"
  /\ pending' = [pending EXCEPT ![ending[c]] = 0]
  /\ shut' = shut \cup members[ending[c]]
  /\ members' = [members EXCEPT ![ending[c]] = {}]
  /\ UNCHANGED <<topic, stopped, live, rpc, events, lapses, buffer, due,
                 leaveVars, gauges>>

Leave(c) == Unsubscribe(c) \/ CountOut(c) \/ CloseSub(c) \/ AwaitRun(c)

------------------------------------------------------------------------------
(* The run goroutine of a topic                                            *)

\* Mutant: run does not look at stopCh.
StopUnseen(t) == FALSE

StopSeen(t) == t \in stopped

\* Mutants: there is always room; a slow client stays, or its channel does.
RoomAlways(c) == TRUE

Room(c) == buffer[c] < ClientBuffer

SkipSlow(slow) == {}

Dropped(slow) == slow

ForgetSlow(M, slow) == M

StillMembers(M, slow) == M \ slow

\* Under t.mu: each client gets the event or, when its channel is full, is
\* dropped.
Broadcast(t) ==
  LET slow == {c \in members[t] : ~Room(c)}
      gone == Dropped(slow)
  IN  /\ rpc[t] = "read"
      /\ pending[t] > 0
      /\ pending' = [pending EXCEPT ![t] = @ - 1]
      /\ buffer' = [c \in Conns |-> IF c \in members[t] \ slow THEN buffer[c] + 1
                                                              ELSE buffer[c]]
      /\ due' = [c \in Conns |-> IF c \in members[t] \ gone THEN due[c] + 1
                                                           ELSE due[c]]
      /\ members' = [members EXCEPT ![t] = StillMembers(@, gone)]
      /\ shut' = shut \cup gone
      /\ sseClients' = sseClients - Cardinality(gone)
      /\ UNCHANGED <<topic, stopped, live, rpc, events, lapses, cpc, leaveVars,
                     sseTopics>>

ReadStop(t) ==
  /\ StopSeen(t)
  /\ RunTo(t, "read", "done")
  /\ UNCHANGED <<topicVars, live, pending, events, lapses, connVars, leaveVars,
                 gauges>>

\* Mutant: a closed channel is read on.
ReadOn == "read"

AfterClosedChannel == "check"

ReadClosed(t) ==
  /\ ~live[t]
  /\ pending[t] = 0
  /\ RunTo(t, "read", AfterClosedChannel)
  /\ UNCHANGED <<topicVars, live, pending, events, lapses, connVars, leaveVars,
                 gauges>>

\* Mutant: run subscribes again without having looked.
RenewUnchecked(t) == "renew"

AfterCheck(t) == IF StopSeen(t) THEN "done" ELSE "renew"

CheckStop(t) ==
  /\ RunTo(t, "check", AfterCheck(t))
  /\ UNCHANGED <<topicVars, live, pending, events, lapses, connVars, leaveVars,
                 gauges>>

\* Under subMu: close the old subscription and subscribe again, whether or not
\* close has closed the old one meanwhile.
Resubscribe(t) ==
  /\ RunTo(t, "renew", "backoff")
  /\ live' = [live EXCEPT ![t] = TRUE]
  /\ UNCHANGED <<topicVars, pending, events, lapses, connVars, leaveVars, gauges>>

\* After the wait run reads from t.sub again.
BackoffEnds(t) ==
  /\ \/ StopSeen(t) /\ RunTo(t, "backoff", "done")
     \/ RunTo(t, "backoff", "read")
  /\ UNCHANGED <<topicVars, live, pending, events, lapses, connVars, leaveVars,
                 gauges>>

Run(t) ==
  \/ Broadcast(t) \/ ReadStop(t) \/ ReadClosed(t) \/ CheckStop(t)
  \/ Resubscribe(t) \/ BackoffEnds(t)

------------------------------------------------------------------------------
(* Redis                                                                   *)

\* PUBLISH reaches every open subscription; it is counted while run may read it.
Publish ==
  /\ events < MaxEvents
  /\ events' = events + 1
  /\ pending' = [t \in Conns |-> 
                  IF live[t] /\ rpc[t] # "done" THEN pending[t] + 1 ELSE pending[t]]
  /\ UNCHANGED <<topicVars, live, rpc, lapses, connVars, leaveVars, gauges>>

\* The subscription ends by itself; what run has not read may be lost.
Lapse(t) ==
  /\ lapses < MaxLapses
  /\ lapses' = lapses + 1
  /\ live[t]
  /\ live' = [live EXCEPT ![t] = FALSE]
  /\ \E n \in 0..pending[t] : pending' = [pending EXCEPT ![t] = n]
  /\ UNCHANGED <<topicVars, rpc, events, connVars, leaveVars, gauges>>

------------------------------------------------------------------------------
Next ==
  \/ \E c \in Conns :
       \/ Subscribe(c) \/ CountIn(c) \/ ReadEvent(c) \/ ChannelEnds(c)
       \/ ClientGone(c) \/ Leave(c)
  \/ \E t \in Conns : Run(t) \/ Lapse(t)
  \/ Publish

Spec == Init /\ [][Next]_vars

\* Goroutines go on.  A handler that streams is not fair: its client may stop
\* reading, and nothing has to end a connection.
Fairness == \A c \in Conns : WF_vars(Leave(c)) /\ WF_vars(Run(c))

FairSpec == Spec /\ Fairness

------------------------------------------------------------------------------
(***************************************************************************)
(* A connection whose channel has not been closed is a client of the       *)
(* registered topic, which nobody closes and whose run goroutine works:    *)
(* leaving connections, slow clients and newcomers never take a topic away *)
(* from somebody who still listens.                                        *)
(***************************************************************************)
ServedWhileOpen ==
  \A c \in Conns :
    cpc[c] \in {"count", "stream"} /\ c \notin shut =>
      /\ topic # None
      /\ c \in members[topic]
      /\ topic \notin stopped
      /\ rpc[topic] \notin {"none", "done"}

(***************************************************************************)
(* broadcast sends under t.mu without looking whether the channel is       *)
(* closed, which would panic: every channel that somebody closes has left  *)
(* the clients of every topic.                                             *)
(***************************************************************************)
NoSendOnClosed == \A t \in Conns : members[t] \cap shut = {}

(***************************************************************************)
(* close(t.stopCh) panics the second time: no two connections close a      *)
(* topic, although several may leave it after broadcast emptied it.        *)
(***************************************************************************)
StopsOnce ==
  \A c \in Conns : cpc[c] = "uncount" /\ ending[c] # None =>
    /\ ending[c] \notin stopped
    /\ \A d \in Conns \ {c} : ending[d] # ending[c]

(***************************************************************************)
(* A client of a topic gets every event that run broadcasts: one that is   *)
(* too slow is disconnected, it never misses an event and stays.           *)
(***************************************************************************)
NoSilentGap ==
  \A t \in Conns : \A c \in members[t] : due[c] = buffer[c]

(***************************************************************************)
(* The gauges are off by the connections between a step on the topics and  *)
(* its Inc or Dec, and by nothing else: a client that broadcast drops is   *)
(* not subtracted again when its handler leaves.                           *)
(***************************************************************************)
GaugesTrue ==
  LET At(pc) == {c \in Conns : cpc[c] = pc}
  IN  /\ sseClients =
           Cardinality(UNION {members[t] : t \in Conns})
             - Cardinality(At("count"))
             + Cardinality({c \in At("uncount") : removed[c]})
      /\ sseTopics =
           (IF topic = None THEN 0 ELSE 1)
             - Cardinality({c \in At("count") : rpc[c] # "none"})
             + Cardinality({c \in At("uncount") : ending[c] # None})

(***************************************************************************)
(* A handler that leaves returns: close waits for run to end while run     *)
(* reads, resubscribes or backs off, and they never wait for each other.   *)
(***************************************************************************)
LeaversFinish == \A c \in Conns : cpc[c] = "leave" ~> cpc[c] = "done"

(***************************************************************************)
(* When the Redis subscription of the registered topic has ended, there is *)
(* a live one again some time, or no topic: SSE does not hang in silence.  *)
(***************************************************************************)
Served == topic # None => live[topic]

SubscriptionRecovers == ~Served ~> Served

(***************************************************************************)
(* A topic that has been closed keeps a Redis subscription only if an      *)
(* earlier one had ended by itself: then run, already past its check of    *)
(* stopCh, makes a new one that nobody closes (sse_hub.go 127-140,         *)
(* 170-182); without such a lapse close leaves none.                       *)
(***************************************************************************)
LeakNeedsLapse ==
  \A c \in Conns : cpc[c] = "done" /\ ending[c] # None /\ live[ending[c]] => lapses > 0

------------------------------------------------------------------------------
\* How the handler of a connection stands to the events of its account.
Standing(c) ==
  CASE cpc[c] = "idle" -> "out"
    [] cpc[c] \in {"count", "stream", "leave"} -> IF c \in shut THEN "cut" ELSE "listening"
    [] OTHER -> "gone"

Feed == INSTANCE EventFeed WITH
  Followers <- Conns, Capacity <- ClientBuffer,
  standing <- [c \in Conns |-> Standing(c)], waiting <- buffer

(***************************************************************************)
(* The hub implements the feed: a topic that is closed while another opens *)
(* never splits those who listen, an event that run broadcasts reaches all *)
(* of them or none, and only a slow client's channel is closed under it.   *)
(***************************************************************************)
ImplementsFeed == Feed!Spec
==============================================================================
