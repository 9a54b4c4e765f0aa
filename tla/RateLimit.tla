------------------------------ MODULE RateLimit ------------------------------
(***************************************************************************)
(* Rate limits: counters in Redis that live for a fixed window, and in     *)
(* each process a list of keys that are blocked until their window ends,   *)
(* which spares Redis the requests over the limit.                         *)
(*                                                                         *)
(* A request passes the limits of Chain one after the other (client IP,    *)
(* API key, API key and domain); the four Check functions of cache.go      *)
(* differ in the name of the key only.  Each process serves one request at *)
(* a time here; requests of one process share nothing but its list.  A     *)
(* round trip to Redis is one step and may take up to RedisTime.            *)
(***************************************************************************)
EXTENDS Integers, Sequences

CONSTANTS
  Procs,       \* processes
  RateKeys,    \* rate-limit keys
  Chain,       \* the keys of a request, in the order in which they are checked
  Limit,       \* limit of each key; 0: unlimited
  Window,      \* life of a counter
  RedisTime,   \* longest call to Redis
  MaxHits,     \* bound: requests counted by Redis for a key
  MaxTicks     \* bound: ticks

ASSUME LimitAssumption ==
  /\ Chain \in Seq(RateKeys)
  /\ Limit \in [RateKeys -> Nat]
  /\ Window \in Nat \ {0}
  /\ {RedisTime, MaxHits, MaxTicks} \subseteq Nat

VARIABLES
  clock,
  counter,     \* Redis: value and end of the window of each key
  blocked,     \* blockCache of each process: when the block of a key ends
  call,        \* the request each process is working on
  hits,        \* history: requests counted by Redis, by key and up to each tick
  passes       \* history: those among them that were let through

limitVars == <<clock, counter, blocked, call, hits, passes>>

Ticks == 0..MaxTicks
Ends == 0..(MaxTicks + Window)

LimitTypeOK ==
  /\ clock \in Ticks
  /\ counter \in [RateKeys -> [value : 0..MaxHits, ends : Ends]]
  /\ blocked \in [Procs -> [RateKeys -> Ends]]
  /\ call \in [Procs -> [state : {"idle", "check", "incr", "pttl"}, step : 1..(Len(Chain) + 1),
                         since : Ticks, asked : Ticks]]
  /\ hits \in [RateKeys -> [Ticks -> Nat]]
  /\ passes \in [RateKeys -> [Ticks -> Nat]]

NoCall == [state |-> "idle", step |-> 1, since |-> 0, asked |-> 0]

LimitInit ==
  /\ clock = 0
  /\ counter = [k \in RateKeys |-> [value |-> 0, ends |-> 0]]
  /\ blocked = [p \in Procs |-> [k \in RateKeys |-> 0]]
  /\ call = [p \in Procs |-> NoCall]
  /\ hits = [k \in RateKeys |-> [t \in Ticks |-> 0]]
  /\ passes = [k \in RateKeys |-> [t \in Ticks |-> 0]]

Key(p) == Chain[call[p].step]

\* The next limit of the chain, or the handler.
Proceed(p) ==
  call' = [call EXCEPT ![p] = IF @.step < Len(Chain)
                              THEN [NoCall EXCEPT !.state = "check", !.step = call[p].step + 1]
                              ELSE NoCall]

Refuse(p) == call' = [call EXCEPT ![p] = NoCall]

Request(p) ==
  /\ call[p].state = "idle"
  /\ Len(Chain) > 0
  /\ call' = [call EXCEPT ![p].state = "check"]
  /\ UNCHANGED <<clock, counter, blocked, hits, passes>>

IsBlocked(p, k) == blocked[p][k] > clock

\* An expired entry is removed when it is met.
Forget(p, k) == [blocked EXCEPT ![p][k] = IF @ > clock THEN @ ELSE 0]

\* No limit, or the key is in the list of blocked keys.
CheckLocally(p) ==
  /\ call[p].state = "check"
  /\ LET k == Key(p)
     IN  IF Limit[k] = 0 THEN Proceed(p) /\ UNCHANGED blocked
         ELSE /\ blocked' = Forget(p, k)
              /\ IF IsBlocked(p, k) THEN Refuse(p)
                 ELSE call' = [call EXCEPT ![p].state = "incr", ![p].since = clock,
                                           ![p].asked = clock]
  /\ UNCHANGED <<clock, counter, hits, passes>>

Running(k) == counter[k].ends > clock

\* The Lua script: INCR, and PEXPIRE for the first request of a window.
Counted(k) == IF Running(k) THEN [counter[k] EXCEPT !.value = @ + 1]
              ELSE [value |-> 1, ends |-> clock + Window]

\* Mutant: one more is let through.
OneMore(v, k) == v <= Limit[k] + 1

Allowed(v, k) == v <= Limit[k]

\* One more at the present tick: ticks to come say what there is so far.
Recorded(count) == [t \in Ticks |-> IF t < clock THEN count[t] ELSE count[t] + 1]

IncrWithTTL(p) ==
  LET k == Key(p)
      c == Counted(k)
  IN  /\ call[p].state = "incr"
      /\ c.value <= MaxHits
      /\ counter' = [counter EXCEPT ![k] = c]
      /\ hits' = [hits EXCEPT ![k] = Recorded(@)]
      /\ IF Allowed(c.value, k)
           THEN Proceed(p) /\ passes' = [passes EXCEPT ![k] = Recorded(@)]
           ELSE /\ call' = [call EXCEPT ![p].state = "pttl", ![p].asked = clock]
                /\ UNCHANGED passes
      /\ UNCHANGED <<clock, blocked>>

\* Redis fails: the request is let through.
FailOpen(p) ==
  /\ call[p].state = "incr"
  /\ Proceed(p)
  /\ UNCHANGED <<clock, counter, blocked, hits, passes>>

\* Mutant: the block is reckoned from the answer of PTTL, in whole windows.
BlockAWindow(p, ttl) == clock + Window

\* From the moment at which the request began.
BlockEnds(p, ttl) == call[p].since + ttl

\* The rest of the window; a whole window if PTTL fails or the window is over.
TimeToLive(k) == IF Running(k) THEN {counter[k].ends - clock, Window} ELSE {Window}

\* A block that is over already is not noted, nor one for which there is no room.
BlockUntilReset(p) ==
  LET k == Key(p)
  IN  /\ call[p].state = "pttl"
      /\ \E ttl \in TimeToLive(k) :
           \/ blocked' = [blocked EXCEPT ![p][k] = IF BlockEnds(p, ttl) > clock
                                                   THEN BlockEnds(p, ttl) ELSE @]
           \/ blocked[p][k] = 0 /\ UNCHANGED blocked
      /\ Refuse(p)
      /\ UNCHANGED <<clock, counter, hits, passes>>

LimitTick ==
  /\ clock < MaxTicks
  /\ \A p \in Procs : call[p].state \in {"incr", "pttl"} => clock < call[p].asked + RedisTime
  /\ clock' = clock + 1
  /\ UNCHANGED <<counter, blocked, call, hits, passes>>

LimitNext ==
  \/ \E p \in Procs : \/ Request(p) \/ CheckLocally(p) \/ IncrWithTTL(p) \/ FailOpen(p)
                      \/ BlockUntilReset(p)
  \/ LimitTick

LimitSpec == LimitInit /\ [][LimitNext]_limitVars

------------------------------------------------------------------------------
\* How many of a count there were from a tick on.
Since(count, from) == count[clock] - IF from > 0 THEN count[from - 1] ELSE 0

(***************************************************************************)
(* A request is refused only if more than the limit were counted in less   *)
(* than two windows (blockUntilWindowReset, the Lua script), or within a   *)
(* window and the call to PTTL: neither a window that ends between INCR    *)
(* and PTTL, nor one that another process has started meanwhile, shuts out *)
(* a client that keeps to its limit.                                       *)
(***************************************************************************)
RefusedForCause ==
  \A p \in Procs, k \in RateKeys :
    /\ IsBlocked(p, k) => Since(hits[k], clock - 2 * Window + 2) > Limit[k]
    /\ call[p].state = "pttl" /\ Key(p) = k =>
         Since(hits[k], clock - Window - RedisTime + 1) > Limit[k]

(***************************************************************************)
(* Between two instants that are one window apart at most twice the limit  *)
(* is let through (incrWithTTL), however many processes count.             *)
(***************************************************************************)
TwiceTheLimit ==
  \A k \in RateKeys :
    Limit[k] > 0 => Since(passes[k], clock - Window + 1) <= 2 * Limit[k]
==============================================================================
