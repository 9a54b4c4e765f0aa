----------------------------- MODULE CountCache ------------------------------
(***************************************************************************)
(* totalItems: the number of messages of one account (and one filter) is   *)
(* counted in MongoDB by a query that concurrent requests share, and kept  *)
(* in the process for a moment.  Time passes in ticks.                     *)
(***************************************************************************)
EXTENDS Integers

CONSTANTS
  Askers,      \* requests for a list of messages
  MaxTotal,    \* bound: messages
  KeepTotal,   \* messageCountCacheTTL (500 ms)
  CountTime,   \* time-out of CountDocuments (10 s)
  LastMoment   \* bound: ticks

ASSUME CountAssumption == {MaxTotal, KeepTotal, CountTime, LastMoment} \subseteq Nat

VARIABLES
  moment,
  total,       \* messages in MongoDB
  kept,        \* messageCountCache; until = 0: no entry
  counting,    \* messageCountSF
  asker,
  lastTrue     \* history: when each number was last the number of messages

countVars == <<moment, total, kept, counting, asker, lastTrue>>

Moments == 0..LastMoment
Totals == 0..MaxTotal

CountTypeOK ==
  /\ moment \in Moments
  /\ total \in Totals
  /\ kept \in [count : Totals, until : 0..(LastMoment + KeepTotal)]
  /\ counting \in [pc : {"none", "again", "asked", "read"}, count : Totals, since : Moments]
  /\ asker \in [Askers -> [pc : {"idle", "absent", "stale", "wait", "told"}, count : Totals,
                           at : Moments]]
  /\ lastTrue \in [Totals -> -1..LastMoment]

NoCount == [pc |-> "none", count |-> 0, since |-> 0]
NotKept == [count |-> 0, until |-> 0]
NotAsking == [pc |-> "idle", count |-> 0, at |-> 0]

CountInit ==
  /\ moment = 0
  /\ total = 0
  /\ kept = NotKept
  /\ counting = NoCount
  /\ asker = [r \in Askers |-> NotAsking]
  /\ lastTrue = [n \in Totals |-> IF n = 0 THEN 0 ELSE -1]

Told(n) == [pc |-> "told", count |-> n, at |-> moment]

\* The result of the shared query, for all who wait.
TellAll(n) == asker' = [r \in Askers |-> IF asker[r].pc = "wait" THEN Told(n) ELSE asker[r]]

\* Mail arrives, is deleted or expires.
TotalChanges ==
  /\ total' \in {total - 1, total + 1} \cap Totals
  /\ lastTrue' = [lastTrue EXCEPT ![total'] = moment]
  /\ UNCHANGED <<moment, kept, counting, asker>>

\* Mutant: every use prolongs the life of the number.
HitProlongs == [kept EXCEPT !.until = moment + KeepTotal]

HitLeaves == kept

LoadTotal(r) ==
  /\ asker[r].pc = "idle"
  /\ IF kept.until > moment
       THEN asker' = [asker EXCEPT ![r] = Told(kept.count)] /\ kept' = HitLeaves
       ELSE /\ asker' = [asker EXCEPT ![r].pc = IF kept.until = 0 THEN "absent" ELSE "stale"]
            /\ UNCHANGED kept
  /\ UNCHANGED <<moment, total, counting, lastTrue>>

\* The entry that is deleted may be a new one by now.
ShareCount(r) ==
  /\ asker[r].pc \in {"absent", "stale"}
  /\ asker' = [asker EXCEPT ![r].pc = "wait"]
  /\ kept' = IF asker[r].pc = "stale" THEN NotKept ELSE kept
  /\ counting' = IF counting.pc # "none" THEN counting ELSE [NoCount EXCEPT !.pc = "again"]
  /\ UNCHANGED <<moment, total, lastTrue>>

\* Somebody may have counted since the look-up.
LoadAgain ==
  /\ counting.pc = "again"
  /\ IF kept.until > moment
       THEN TellAll(kept.count) /\ counting' = NoCount
       ELSE counting' = [counting EXCEPT !.pc = "asked", !.since = moment] /\ UNCHANGED asker
  /\ UNCHANGED <<moment, total, kept, lastTrue>>

CountDocuments ==
  /\ counting.pc = "asked"
  /\ counting' = [counting EXCEPT !.pc = "read", !.count = total]
  /\ UNCHANGED <<moment, total, kept, asker, lastTrue>>

\* The number is kept from when the answer arrives.
KeepCount ==
  /\ counting.pc = "read"
  /\ kept' = [count |-> counting.count, until |-> moment + KeepTotal]
  /\ counting' = NoCount
  /\ TellAll(counting.count)
  /\ UNCHANGED <<moment, total, lastTrue>>

CountFails ==
  /\ counting.pc \in {"asked", "read"}
  /\ counting' = NoCount
  /\ asker' = [r \in Askers |-> IF asker[r].pc = "wait" THEN NotAsking ELSE asker[r]]
  /\ UNCHANGED <<moment, total, kept, lastTrue>>

\* The request is over, or its client has gone.
AskerLeaves(r) ==
  /\ asker[r].pc \in {"told", "wait"}
  /\ asker' = [asker EXCEPT ![r] = NotAsking]
  /\ UNCHANGED <<moment, total, kept, counting, lastTrue>>

\* A sweep may delete what has replaced the old entry that it saw.
SweepTotals ==
  /\ kept' = NotKept
  /\ UNCHANGED <<moment, total, counting, asker, lastTrue>>

MomentPasses ==
  /\ moment < LastMoment
  /\ counting.pc # "again"
  /\ counting.pc \in {"asked", "read"} => moment < counting.since + CountTime
  /\ moment' = moment + 1
  /\ lastTrue' = [lastTrue EXCEPT ![total] = moment + 1]
  /\ UNCHANGED <<total, kept, counting, asker>>

CountNext ==
  \/ \E r \in Askers : LoadTotal(r) \/ ShareCount(r) \/ AskerLeaves(r)
  \/ LoadAgain \/ CountDocuments \/ KeepCount \/ CountFails
  \/ TotalChanges \/ SweepTotals \/ MomentPasses

CountSpec == CountInit /\ [][CountNext]_countVars

------------------------------------------------------------------------------
(***************************************************************************)
(* The number a request is told was the number of messages not longer ago  *)
(* than a query and a kept number can last (countMessagesCachedWithFilter),*)
(* whichever of its four ways it comes by: kept, shared, found after all   *)
(* or counted.                                                             *)
(***************************************************************************)
TotalIsRecent ==
  \A r \in Askers : asker[r].pc = "told" =>
    /\ lastTrue[asker[r].count] # -1
    /\ asker[r].at <= lastTrue[asker[r].count] + KeepTotal + CountTime
==============================================================================
