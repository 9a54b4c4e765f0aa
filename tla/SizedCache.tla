----------------------------- MODULE SizedCache ------------------------------
(***************************************************************************)
(* The three in-process caches that keep a counter of their entries beside *)
(* a sync.Map: validated tokens (auth), blocked rate-limit keys (cache)    *)
(* and addresses known to be absent (smtp).  Each operation on the map and *)
(* each addition to the counter is one step; calls interleave in between.  *)
(*                                                                         *)
(* The first two remove an entry with LoadAndDelete and count what they    *)
(* have removed; at their limit they take no new entry.  ttlSet removes    *)
(* and counts whatever it finds stale, and evicts what is too much.  A     *)
(* sweep of the first two does to each stale entry what a look-up does.    *)
(***************************************************************************)
EXTENDS Integers, FiniteSets

CONSTANTS
  Tokens,      \* keys
  Calls,       \* calls in progress
  MaxEntries,
  MaxAges      \* bound: entries that become stale

ASSUME CacheAssumption ==
  /\ IsFiniteSet(Tokens) /\ IsFiniteSet(Calls)
  /\ MaxEntries \in Nat \ {0}
  /\ MaxAges \in Nat

VARIABLES
  style,      \* "bounded" (tokenCache, blockCache) or "evicting" (ttlSet)
  entry,      \* the map
  size,       \* the counter
  ops,        \* the calls: what each has seen, and what it will add to the counter
  swept,      \* what the sweep in progress will add to the counter
  ages

cacheVars == <<style, entry, size, ops, swept, ages>>

Present == {k \in Tokens : entry[k] # "none"}

CacheTypeOK ==
  /\ style \in {"bounded", "evicting"}
  /\ entry \in [Tokens -> {"none", "fresh", "stale"}]
  /\ size \in Int
  /\ ops \in [Calls -> [pc : {"idle", "put", "overwrite", "drop", "count", "sweep", "sweepDrop",
                               "measure", "evict", "evictDrop"},
                         key : Tokens \cup {"none"}, owed : -1..1, over : Nat]]
  /\ swept \in Int /\ swept <= 0
  /\ ages \in 0..MaxAges

Idle == [pc |-> "idle", key |-> "none", owed |-> 0, over |-> 0]

CacheInit ==
  /\ style \in {"bounded", "evicting"}
  /\ entry = [k \in Tokens |-> "none"]
  /\ size = 0
  /\ ops = [c \in Calls |-> Idle]
  /\ swept = 0
  /\ ages = 0

To(c, pc, k) == ops' = [ops EXCEPT ![c].pc = pc, ![c].key = k]

\* The counter is still to be changed by d.
Owe(c, d) == ops' = [ops EXCEPT ![c] = [Idle EXCEPT !.pc = "count", !.owed = d]]

GoStale(k) ==
  /\ ages < MaxAges
  /\ ages' = ages + 1
  /\ entry[k] = "fresh"
  /\ entry' = [entry EXCEPT ![k] = "stale"]
  /\ UNCHANGED <<style, size, ops, swept>>

\* Get, IsBlocked, Contains: what is absent or fresh ends the call.
LookUp(c) ==
  /\ ops[c].pc = "idle"
  /\ \E k \in Tokens : entry[k] = "stale" /\ To(c, "drop", k)
  /\ UNCHANGED <<style, entry, size, swept, ages>>

\* Mutant: removed, but not counted.
DropOwesNothing(found) == 0

\* LoadAndDelete tells whether there was an entry; Delete does not.
DropOwes(found) == IF found \/ style = "evicting" THEN -1 ELSE 0

\* The entry may have been refreshed or removed since it was seen.
Drop(c) ==
  LET k == ops[c].key
  IN  /\ ops[c].pc = "drop"
      /\ entry' = [entry EXCEPT ![k] = "none"]
      /\ Owe(c, DropOwes(entry[k] # "none"))
      /\ UNCHANGED <<style, size, swept, ages>>

\* Put, Block, Add: at the limit only for a key that is there already.
StartPut(c) ==
  /\ ops[c].pc = "idle"
  /\ \E k \in Tokens :
       /\ style = "bounded" /\ size >= MaxEntries => entry[k] # "none"
       /\ To(c, "put", k)
  /\ UNCHANGED <<style, entry, size, swept, ages>>

LoadOrStore(c) ==
  LET k == ops[c].key
  IN  /\ ops[c].pc = "put"
      /\ IF entry[k] = "none"
           THEN entry' = [entry EXCEPT ![k] = "fresh"] /\ Owe(c, 1)
           ELSE To(c, "overwrite", k) /\ UNCHANGED entry
      /\ UNCHANGED <<style, size, swept, ages>>

\* The key may be gone by now: then it comes back without being counted.
Overwrite(c) ==
  /\ ops[c].pc = "overwrite"
  /\ entry' = [entry EXCEPT ![ops[c].key] = "fresh"]
  /\ Owe(c, 0)
  /\ UNCHANGED <<style, size, swept, ages>>

Count(c) ==
  /\ ops[c].pc = "count"
  /\ size' = size + ops[c].owed
  /\ ops' = [ops EXCEPT ![c] = Idle]
  /\ UNCHANGED <<style, entry, swept, ages>>

------------------------------------------------------------------------------
(* maybeSweep of ttlSet, one at a time: the next is due much later.  It    *)
(* counts once what it has removed, stale or not by the time it is.        *)

Sweeping(c) == ops[c].pc \in {"sweep", "sweepDrop", "measure", "evict", "evictDrop"}

StartSweep(c) ==
  /\ style = "evicting"
  /\ \A d \in Calls : ~Sweeping(d)
  /\ ops[c].pc = "idle"
  /\ To(c, "sweep", "none")
  /\ UNCHANGED <<style, entry, size, swept, ages>>

\* Range: what is stale, or, when there is too much, whatever there is.
SweepSees(c) ==
  /\ \E k \in Present :
       \/ ops[c].pc = "sweep" /\ entry[k] = "stale" /\ To(c, "sweepDrop", k)
       \/ ops[c].pc = "evict" /\ ops[c].over > 0 /\ To(c, "evictDrop", k)
  /\ UNCHANGED <<style, entry, size, swept, ages>>

SweepDrops(c) ==
  /\ ops[c].pc \in {"sweepDrop", "evictDrop"}
  /\ entry' = [entry EXCEPT ![ops[c].key] = "none"]
  /\ ops' = [ops EXCEPT ![c].pc = IF @ = "sweepDrop" THEN "sweep" ELSE "evict",
                         ![c].over = IF ops[c].pc = "evictDrop" THEN @ - 1 ELSE @]
  /\ swept' = swept - 1
  /\ UNCHANGED <<style, size, ages>>

\* Range may end without what has changed meanwhile.
RangeEnds(c) ==
  /\ ops[c].pc \in {"sweep", "evict"}
  /\ size' = size + swept
  /\ swept' = 0
  /\ ops' = [ops EXCEPT ![c] = IF @.pc = "sweep" THEN [Idle EXCEPT !.pc = "measure"] ELSE Idle]
  /\ UNCHANGED <<style, entry, ages>>

\* How much is over the limit, by the counter.
Measure(c) ==
  /\ ops[c].pc = "measure"
  /\ ops' = [ops EXCEPT ![c] = IF size > MaxEntries
                                THEN [Idle EXCEPT !.pc = "evict", !.over = size - MaxEntries]
                                ELSE Idle]
  /\ UNCHANGED <<style, entry, size, swept, ages>>

CacheStep(c) ==
  \/ LookUp(c) \/ Drop(c) \/ StartPut(c) \/ LoadOrStore(c) \/ Overwrite(c) \/ Count(c)
  \/ StartSweep(c) \/ SweepSees(c) \/ SweepDrops(c) \/ RangeEnds(c) \/ Measure(c)

CacheNext == (\E c \in Calls : CacheStep(c)) \/ (\E k \in Tokens : GoStale(k))

CacheSpec == CacheInit /\ [][CacheNext]_cacheVars

------------------------------------------------------------------------------
\* The calls that will add d to the counter.
Owing(d) == {c \in Calls : ops[c].owed = d}

(***************************************************************************)
(* The counter never says that there are more entries than there are, once *)
(* what the calls in progress still owe it is added: no sequence of        *)
(* concurrent look-ups, insertions and sweeps leaves a cache that refuses  *)
(* or evicts entries although it has room.  (It may say that there are     *)
(* fewer, and the cache may then grow beyond its limit.)                   *)
(***************************************************************************)
NoPhantomEntries ==
  size + Cardinality(Owing(1)) - Cardinality(Owing(-1)) + swept <= Cardinality(Present)
==============================================================================
