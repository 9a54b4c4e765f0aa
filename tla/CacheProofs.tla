----------------------------- MODULE CacheProofs ------------------------------
(***************************************************************************)
(* What may be kept for a while: how many messages an account has          *)
(* (CountCache), the entries of the in-process caches (SizedCache), the    *)
(* counters and blocks of the rate limits (RateLimit), and the address     *)
(* keys and negative entries behind the answers to RCPT (SmtpFront); for   *)
(* every number of requests, calls, processes, addresses and sessions, all *)
(* lives and all limits.                                                   *)
(***************************************************************************)
EXTENDS CountCache, SizedCache, RateLimit, SmtpFront, FiniteSetTheorems, TLAPS

------------------------------------------------------------------------------
(* The number of messages of an account (CountCache).                      *)

\* A number n was right, and not before t.
RightSince(n, t) == lastTrue[n] # -1 /\ t <= lastTrue[n]

\* The number of messages is right now.
HistoryInv ==
  /\ lastTrue[total] = moment
  /\ \A n \in Totals : lastTrue[n] <= moment

\* The query in progress is not older than its time-out, and what it has read
\* was right since it was asked.
CountingInv ==
  /\ counting.pc \in {"asked", "read"} =>
       counting.since <= moment /\ moment <= counting.since + CountTime
  /\ counting.pc = "read" => RightSince(counting.count, counting.since)

\* A number is kept no longer than KeepTotal after a query.
KeptInv ==
  kept.until > 0 => RightSince(kept.count, kept.until - KeepTotal - CountTime)

CountInv == CountTypeOK /\ HistoryInv /\ CountingInv /\ KeptInv /\ TotalIsRecent

LEMMA CountInitially == CountInit => CountInv
BY CountAssumption
   DEF CountInit, CountInv, CountTypeOK, HistoryInv, CountingInv, KeptInv, TotalIsRecent, Moments,
       Totals, NotKept, NoCount, NotAsking

\* What the variables range over.
KeptType == [count : Totals, until : 0..(LastMoment + KeepTotal)]
CountingType == [pc : {"none", "again", "asked", "read"}, count : Totals, since : Moments]
AskerType == [pc : {"idle", "absent", "stale", "wait", "told"}, count : Totals, at : Moments]

LEMMA CountingParts ==
  CountTypeOK => /\ moment \in Int /\ total \in Totals
                 /\ kept \in KeptType /\ kept.count \in Totals /\ kept.until \in Int
                 /\ counting \in CountingType /\ counting.count \in Totals
                 /\ counting.since \in Int
                 /\ \A r \in Askers : /\ asker[r] \in AskerType /\ asker[r].count \in Totals
                                      /\ asker[r].at \in Int
                 /\ \A n \in Totals : lastTrue[n] \in Int
<1>. SUFFICES ASSUME CountTypeOK PROVE
       /\ moment \in Int /\ total \in Totals
       /\ kept \in KeptType /\ kept.count \in Totals /\ kept.until \in Int
       /\ counting \in CountingType /\ counting.count \in Totals
       /\ counting.since \in Int
       /\ \A r \in Askers : /\ asker[r] \in AskerType /\ asker[r].count \in Totals
                            /\ asker[r].at \in Int
       /\ \A n \in Totals : lastTrue[n] \in Int
  OBVIOUS
<1>. USE CountAssumption DEF Moments
<1>1. moment \in Int /\ total \in Totals
  BY DEF CountTypeOK
<1>2. kept \in KeptType /\ kept.count \in Totals /\ kept.until \in Int
  BY DEF CountTypeOK, KeptType
<1>3. counting \in CountingType /\ counting.count \in Totals /\ counting.since \in Int
  BY DEF CountTypeOK, CountingType
<1>4. \A r \in Askers : /\ asker[r] \in AskerType /\ asker[r].count \in Totals
                        /\ asker[r].at \in Int
  <2>1. asker \in [Askers -> AskerType]
    BY DEF CountTypeOK, AskerType
  <2>. QED  BY <2>1 DEF AskerType
<1>5. \A n \in Totals : lastTrue[n] \in Int
  BY DEF CountTypeOK
<1>. QED  BY <1>1, <1>2, <1>3, <1>4, <1>5

LEMMA CountType == CountInv /\ [CountNext]_countVars => CountTypeOK'
<1> SUFFICES ASSUME CountInv, [CountNext]_countVars PROVE CountTypeOK'
  OBVIOUS
<1>0. /\ CountTypeOK
      /\ moment \in Moments /\ total \in Totals /\ kept \in KeptType /\ counting \in CountingType
      /\ asker \in [Askers -> AskerType] /\ lastTrue \in [Totals -> -1..LastMoment]
  BY DEF CountInv, CountTypeOK, KeptType, CountingType, AskerType
<1>. SUFFICES /\ moment' \in Moments /\ total' \in Totals
              /\ kept' \in KeptType /\ counting' \in CountingType
              /\ asker' \in [Askers -> AskerType] /\ lastTrue' \in [Totals -> -1..LastMoment]
  BY DEF CountTypeOK, KeptType, CountingType, AskerType
<1>a. /\ 0 \in Totals /\ 0 \in Moments /\ Moments \subseteq Int
      /\ NoCount \in CountingType /\ NotKept \in KeptType /\ NotAsking \in AskerType
  BY CountAssumption
     DEF NoCount, NotKept, NotAsking, CountingType, KeptType, AskerType, Totals, Moments
<1>b. \A n \in Totals : Told(n) \in AskerType
  BY <1>0 DEF Told, AskerType
<1>c. \A r \in Askers, p \in {"idle", "absent", "stale", "wait", "told"} :
        [asker[r] EXCEPT !.pc = p] \in AskerType
  BY <1>0 DEF AskerType
<1>d. kept.count \in Totals /\ counting.count \in Totals
  BY <1>0, CountingParts
<1>e. \A n \in Totals : TellAll(n) => asker' \in [Askers -> AskerType]
  BY <1>0, <1>b DEF TellAll
<1>1. CASE UNCHANGED countVars
  BY <1>0, <1>1 DEF countVars
<1>2. ASSUME NEW r \in Askers, LoadTotal(r)
      PROVE  /\ asker' \in [Askers -> AskerType] /\ kept' = kept
             /\ UNCHANGED <<moment, total, counting, lastTrue>>
  <2>1. CASE kept.until > moment
    BY <1>0, <1>2, <1>b, <1>d, <2>1 DEF LoadTotal, HitLeaves
  <2>2. CASE ~(kept.until > moment)
    <3>. DEFINE p == IF kept.until = 0 THEN "absent" ELSE "stale"
    <3>1. asker' = [asker EXCEPT ![r] = [asker[r] EXCEPT !.pc = p]]
      BY <1>2, <2>2 DEF LoadTotal
    <3>2. p \in {"absent", "stale"}
      OBVIOUS
    <3>3. [asker[r] EXCEPT !.pc = p] \in AskerType
      BY <1>c, <3>2
    <3>. QED  BY <1>0, <1>2, <2>2, <3>1, <3>3 DEF LoadTotal
  <2>. QED  BY <2>1, <2>2
<1>3. ASSUME NEW r \in Askers, ShareCount(r)
      PROVE  /\ asker' \in [Askers -> AskerType] /\ kept' \in KeptType
             /\ counting' \in CountingType /\ UNCHANGED <<moment, total, lastTrue>>
  <2>1. asker' \in [Askers -> AskerType]
    <3>1. asker' = [asker EXCEPT ![r] = [asker[r] EXCEPT !.pc = "wait"]]
      BY <1>3 DEF ShareCount
    <3>. QED  BY <1>0, <1>c, <3>1
  <2>2. [NoCount EXCEPT !.pc = "again"] \in CountingType
    BY <1>a DEF NoCount, CountingType
  <2>. QED  BY <1>0, <1>a, <1>3, <2>1, <2>2 DEF ShareCount
<1>4. ASSUME NEW r \in Askers, AskerLeaves(r)
      PROVE  asker' \in [Askers -> AskerType] /\ UNCHANGED <<moment, total, kept, counting, lastTrue>>
  BY <1>0, <1>a, <1>4 DEF AskerLeaves
<1>5. CASE LoadAgain
  <2>1. [counting EXCEPT !.pc = "asked", !.since = moment] \in CountingType
    BY <1>0 DEF CountingType
  <2>. QED  BY <1>0, <1>a, <1>d, <1>e, <1>5, <2>1 DEF LoadAgain
<1>6. CASE CountDocuments
  BY <1>0, <1>6 DEF CountDocuments, CountingType
<1>7. CASE KeepCount
  <2>1. [count |-> counting.count, until |-> moment + KeepTotal] \in KeptType
    BY <1>0, <1>d, CountAssumption DEF KeptType, Moments
  <2>. QED  BY <1>0, <1>a, <1>d, <1>e, <1>7, <2>1 DEF KeepCount
<1>8. CASE CountFails
  BY <1>0, <1>a, <1>8 DEF CountFails
<1>9. CASE TotalChanges
  <2>1. total' \in Totals /\ moment \in -1..LastMoment
    BY <1>0, <1>9, CountAssumption DEF TotalChanges, Moments
  <2>. QED  BY <1>0, <1>9, <2>1 DEF TotalChanges
<1>10. CASE SweepTotals
  BY <1>0, <1>a, <1>10 DEF SweepTotals
<1>11. CASE MomentPasses
  <2>1. moment + 1 \in Moments /\ moment + 1 \in -1..LastMoment
    BY <1>0, <1>11, CountAssumption DEF MomentPasses, Moments
  <2>. QED  BY <1>0, <1>11, <2>1 DEF MomentPasses
<1>. QED
  BY <1>0, <1>1, <1>2, <1>3, <1>4, <1>5, <1>6, <1>7, <1>8, <1>9, <1>10, <1>11 DEF CountNext

\* The numbers remembered only become more recent.
LEMMA HistoryStep ==
  ASSUME CountInv, [CountNext]_countVars
  PROVE  /\ HistoryInv'
         /\ \A n \in Totals : lastTrue[n] <= lastTrue'[n]
         /\ moment <= moment'
<1>1. CountTypeOK /\ HistoryInv
  BY DEF CountInv
<1>2. /\ moment \in Int /\ total \in Totals /\ \A n \in Totals : lastTrue[n] \in Int
      /\ lastTrue \in [Totals -> -1..LastMoment]
  BY <1>1, CountingParts DEF CountTypeOK
<1>3. CASE TotalChanges
  BY <1>1, <1>2, <1>3 DEF TotalChanges, HistoryInv
<1>4. CASE MomentPasses
  BY <1>1, <1>2, <1>4 DEF MomentPasses, HistoryInv
<1>5. CASE UNCHANGED <<moment, total, lastTrue>>
  BY <1>1, <1>2, <1>5 DEF HistoryInv
<1>. QED
  BY <1>3, <1>4, <1>5
     DEF CountNext, countVars, LoadTotal, ShareCount, AskerLeaves, LoadAgain, CountDocuments,
         KeepCount, CountFails, SweepTotals

\* Whoever is told a number now is told a recent one.
RecentNow(n) == RightSince(n, moment - KeepTotal - CountTime)

LEMMA CountSteps == CountInv /\ [CountNext]_countVars => CountInv'
<1> SUFFICES ASSUME CountInv, [CountNext]_countVars
             PROVE  CountingInv' /\ KeptInv' /\ TotalIsRecent'
  BY CountType, HistoryStep DEF CountInv
<1>0. /\ CountTypeOK /\ HistoryInv /\ CountingInv /\ KeptInv /\ TotalIsRecent
      /\ CountTypeOK'
  BY CountType DEF CountInv
<1>a. /\ moment \in Int /\ total \in Totals /\ kept \in KeptType
      /\ kept.count \in Totals /\ kept.until \in Int
      /\ counting \in CountingType /\ counting.count \in Totals /\ counting.since \in Int
      /\ \A r \in Askers : asker[r].count \in Totals /\ asker[r].at \in Int
      /\ \A n \in Totals : lastTrue[n] \in Int
      /\ asker \in [Askers -> AskerType]
  BY <1>0, CountingParts DEF CountTypeOK, AskerType
<1>b. /\ moment' \in Int
      /\ \A n \in Totals : lastTrue'[n] \in Int
      /\ KeepTotal \in Nat /\ CountTime \in Nat
  BY <1>0, CountAssumption DEF CountTypeOK, Moments
<1>c. /\ \A n \in Totals : lastTrue[n] <= lastTrue'[n]
      /\ lastTrue[total] = moment /\ moment <= moment' /\ HistoryInv
  BY <1>0, HistoryStep DEF HistoryInv
<1>d. ASSUME NEW n \in Totals, NEW t \in Int, RightSince(n, t)
      PROVE  RightSince(n, t)'
  <2>1. lastTrue[n] # -1 /\ t <= lastTrue[n] /\ lastTrue'[n] >= lastTrue[n]
        /\ lastTrue'[n] \in Int /\ lastTrue[n] \in Int
    BY <1>a, <1>b, <1>c, <1>d DEF RightSince
  <2>2. lastTrue[n] \in -1..LastMoment
    BY <1>0 DEF CountTypeOK
  <2>. QED  BY <2>1, <2>2 DEF RightSince
<1>e. TotalIsRecent <=>
        \A r \in Askers : asker[r].pc = "told" =>
          RightSince(asker[r].count, asker[r].at - KeepTotal - CountTime)
  BY <1>a, <1>b DEF TotalIsRecent, RightSince
<1>f. ASSUME \A r \in Askers : asker'[r].pc = "told" =>
               \/ asker'[r] = asker[r]
               \/ \E n \in Totals : RecentNow(n) /\ asker'[r] = Told(n)
      PROVE  TotalIsRecent'
  <2>. SUFFICES ASSUME NEW r \in Askers, asker'[r].pc = "told"
                PROVE  /\ lastTrue'[asker'[r].count] # -1
                       /\ asker'[r].at <= lastTrue'[asker'[r].count] + KeepTotal + CountTime
    BY DEF TotalIsRecent
  <2>1. CASE asker'[r] = asker[r]
    <3>1. RightSince(asker[r].count, asker[r].at - KeepTotal - CountTime)
      BY <1>0, <1>e, <2>1
    <3>2. asker[r].count \in Totals /\ asker[r].at \in Int
      BY <1>a
    <3>3. asker[r].at - KeepTotal - CountTime \in Int
      BY <3>2, <1>b
    <3>4. /\ lastTrue'[asker[r].count] # -1
          /\ asker[r].at - KeepTotal - CountTime <= lastTrue'[asker[r].count]
      BY <1>d, <3>1, <3>2, <3>3 DEF RightSince
    <3>. QED  BY <1>b, <2>1, <3>2, <3>4
  <2>2. CASE \E n \in Totals : RecentNow(n) /\ asker'[r] = Told(n)
    <3>1. PICK n \in Totals : RecentNow(n) /\ asker'[r] = Told(n)
      BY <2>2
    <3>2. moment - KeepTotal - CountTime \in Int
      BY <1>a, <1>b
    <3>3. lastTrue'[n] # -1 /\ moment - KeepTotal - CountTime <= lastTrue'[n]
      BY <1>d, <3>1, <3>2 DEF RecentNow, RightSince
    <3>4. asker'[r].count = n /\ asker'[r].at = moment
      BY <3>1 DEF Told
    <3>. QED  BY <1>a, <1>b, <3>3, <3>4
  <2>. QED  BY <1>f, <2>1, <2>2
<1>g. ASSUME kept' = kept \/ kept' = NotKept PROVE KeptInv'
  <2>1. CASE kept' = NotKept
    BY <2>1 DEF KeptInv, NotKept
  <2>2. CASE kept' = kept
    <3>1. kept.until - KeepTotal - CountTime \in Int
      BY <1>a, <1>b
    <3>2. kept.until > 0 => RightSince(kept.count, kept.until - KeepTotal - CountTime)'
      BY <1>0, <1>a, <1>d, <2>2, <3>1 DEF KeptInv, RightSince
    <3>. QED  BY <2>2, <3>2 DEF KeptInv, RightSince
  <2>. QED  BY <1>g, <2>1, <2>2
<1>h. ASSUME counting' = counting, moment' = moment PROVE CountingInv'
  BY <1>0, <1>a, <1>d, <1>h DEF CountingInv, RightSince
<1>i. kept.until > moment => RecentNow(kept.count)
  BY <1>0, <1>a, <1>b DEF KeptInv, RecentNow, RightSince, CountTypeOK, Moments
<1>j. NoCount.pc = "none"
  BY DEF NoCount
<1>1. CASE UNCHANGED countVars
  BY <1>f, <1>g, <1>h, <1>1 DEF countVars
<1>2. ASSUME NEW r \in Askers, LoadTotal(r) PROVE CountingInv' /\ KeptInv' /\ TotalIsRecent'
  <2>1. kept' = kept /\ counting' = counting /\ moment' = moment
    BY <1>2 DEF LoadTotal, HitLeaves
  <2>2. \A q \in Askers : asker'[q].pc = "told" =>
          asker'[q] = asker[q] \/ (RecentNow(kept.count) /\ asker'[q] = Told(kept.count))
    <3>1. CASE kept.until > moment
      BY <1>2, <1>a, <1>i, <3>1 DEF LoadTotal
    <3>2. CASE ~(kept.until > moment)
      <4>1. asker' = [asker EXCEPT ![r].pc = IF kept.until = 0 THEN "absent" ELSE "stale"]
        BY <1>2, <3>2 DEF LoadTotal
      <4>. QED  BY <1>a, <4>1 DEF AskerType
    <3>. QED  BY <3>1, <3>2
  <2>. QED  BY <1>a, <1>f, <1>g, <1>h, <2>1, <2>2
<1>3. ASSUME NEW r \in Askers, ShareCount(r) PROVE CountingInv' /\ KeptInv' /\ TotalIsRecent'
  <2>1. kept' = kept \/ kept' = NotKept
    BY <1>3 DEF ShareCount
  <2>2. \A q \in Askers : asker'[q].pc = "told" => asker'[q] = asker[q]
    BY <1>3, <1>a DEF ShareCount, AskerType
  <2>3. CountingInv'
    <3>1. CASE counting' = counting
      BY <1>3, <1>h, <3>1 DEF ShareCount
    <3>2. CASE counting' = [NoCount EXCEPT !.pc = "again"]
      BY <3>2 DEF CountingInv, NoCount
    <3>. QED  BY <1>3, <3>1, <3>2 DEF ShareCount
  <2>. QED  BY <1>f, <1>g, <2>1, <2>2, <2>3
<1>4. ASSUME NEW r \in Askers, AskerLeaves(r) PROVE CountingInv' /\ KeptInv' /\ TotalIsRecent'
  <2>1. \A q \in Askers : asker'[q].pc = "told" => asker'[q] = asker[q]
    BY <1>4, <1>a DEF AskerLeaves, NotAsking
  <2>. QED  BY <1>4, <1>f, <1>g, <1>h, <2>1 DEF AskerLeaves
<1>5. CASE LoadAgain
  <2>1. kept' = kept /\ moment' = moment
    BY <1>5 DEF LoadAgain
  <2>2. CASE kept.until > moment
    <3>1. counting' = NoCount /\ TellAll(kept.count)
      BY <1>5, <2>2 DEF LoadAgain
    <3>2. CountingInv'
      BY <1>j, <3>1 DEF CountingInv
    <3>. QED  BY <1>a, <1>f, <1>g, <1>i, <2>1, <2>2, <3>1, <3>2 DEF TellAll
  <2>3. CASE ~(kept.until > moment)
    <3>1. asker' = asker /\ counting' = [counting EXCEPT !.pc = "asked", !.since = moment]
      BY <1>5, <2>3 DEF LoadAgain
    <3>2. counting'.pc = "asked" /\ counting'.since = moment
      BY <1>a, <3>1 DEF CountingType
    <3>3. CountingInv'
      BY <1>a, <1>b, <2>1, <3>2 DEF CountingInv
    <3>. QED  BY <1>f, <1>g, <2>1, <3>1, <3>3
  <2>. QED  BY <2>2, <2>3
<1>6. CASE CountDocuments
  <2>1. /\ counting'.pc = "read" /\ counting'.count = total
        /\ counting'.since = counting.since /\ counting.pc = "asked"
    BY <1>6, <1>a DEF CountDocuments, CountingType
  <2>2. kept' = kept /\ moment' = moment /\ asker' = asker /\ lastTrue' = lastTrue
    BY <1>6 DEF CountDocuments
  <2>3. counting.since <= moment /\ moment <= counting.since + CountTime
    BY <1>0, <2>1 DEF CountingInv
  <2>4. moment # -1
    BY <1>0, CountAssumption DEF CountTypeOK, Moments
  <2>5. CountingInv'
    BY <1>c, <2>1, <2>2, <2>3, <2>4 DEF CountingInv, RightSince
  <2>. QED  BY <1>f, <1>g, <2>2, <2>5
<1>7. CASE KeepCount
  <2>1. /\ RightSince(counting.count, counting.since)
        /\ counting.since <= moment /\ moment <= counting.since + CountTime
    BY <1>0, <1>7 DEF CountingInv, KeepCount
  <2>2. /\ kept'.count = counting.count /\ kept'.until = moment + KeepTotal
        /\ counting' = NoCount /\ moment' = moment /\ lastTrue' = lastTrue
    BY <1>7 DEF KeepCount
  <2>4. KeptInv'
    BY <1>a, <1>b, <2>1, <2>2 DEF KeptInv, RightSince
  <2>5. RecentNow(counting.count)
    BY <1>a, <1>b, <2>1 DEF RecentNow, RightSince
  <2>6. CountingInv'
    BY <1>j, <2>2 DEF CountingInv
  <2>7. \A q \in Askers : asker'[q].pc = "told" =>
          asker'[q] = asker[q] \/ asker'[q] = Told(counting.count)
    BY <1>7 DEF KeepCount, TellAll
  <2>. QED  BY <1>a, <1>f, <2>4, <2>5, <2>6, <2>7
<1>8. CASE CountFails
  <2>1. kept' = kept /\ counting' = NoCount
    BY <1>8 DEF CountFails
  <2>2. \A q \in Askers : asker'[q].pc = "told" => asker'[q] = asker[q]
    BY <1>8 DEF CountFails, NotAsking
  <2>3. CountingInv'
    BY <1>j, <2>1 DEF CountingInv
  <2>. QED  BY <1>f, <1>g, <2>1, <2>2, <2>3
<1>9. CASE TotalChanges \/ SweepTotals
  BY <1>f, <1>g, <1>h, <1>9 DEF TotalChanges, SweepTotals
<1>10. CASE MomentPasses
  <2>1. /\ kept' = kept /\ asker' = asker /\ counting' = counting /\ moment' = moment + 1
        /\ counting.pc \in {"asked", "read"} => moment < counting.since + CountTime
    BY <1>10 DEF MomentPasses
  <2>2. /\ counting.pc \in {"asked", "read"} =>
             counting.since <= moment' /\ moment' <= counting.since + CountTime
        /\ counting.pc = "read" => RightSince(counting.count, counting.since)'
    BY <1>0, <1>a, <1>b, <1>d, <2>1 DEF CountingInv
  <2>3. CountingInv'
    BY <2>1, <2>2 DEF CountingInv, RightSince
  <2>. QED  BY <1>f, <1>g, <2>1, <2>3
<1>. QED  BY <1>1, <1>2, <1>3, <1>4, <1>5, <1>6, <1>7, <1>8, <1>9, <1>10 DEF CountNext

(***************************************************************************)
(* The number a request is told was right not longer ago than a query and  *)
(* a kept number can last, whatever the life and the time-out are and      *)
(* however many requests share.                                            *)
(***************************************************************************)
THEOREM TotalsAreRecent == CountSpec => []TotalIsRecent
<1>1. CountInv => TotalIsRecent
  BY DEF CountInv
<1>. QED  BY <1>1, CountInitially, CountSteps, PTL DEF CountSpec

------------------------------------------------------------------------------
(* Rate limits (RateLimit).                                                *)

\* How many of a count there were before a tick.
Before(count, t) == IF t > 0 THEN count[t - 1] ELSE 0

\* A count grows up to tick c and says the same of what is to come.
History(count, c) ==
  /\ count \in [Ticks -> Nat]
  /\ \A t, u \in Ticks : t <= u => count[t] <= count[u]
  /\ \A t \in Ticks : c <= t => count[t] = count[c]

Starts(k) == counter[k].ends - Window

\* What the counter of a key says of the requests since its window started.
WindowInv(k) ==
  /\ History(hits[k], clock) /\ History(passes[k], clock)
  /\ Starts(k) <= clock
  /\ counter[k].value <= Since(hits[k], Starts(k))
  /\ Since(passes[k], Starts(k)) <= counter[k].value
  /\ Since(passes[k], Starts(k)) <= Limit[k]
  \* no window has begun since this one ended
  /\ counter[k].ends <= clock => Since(passes[k], counter[k].ends) = 0
  \* as long before this window as it lasts there was one other at most
  /\ Before(passes[k], Starts(k)) - Before(passes[k], Starts(k) - Window) <= Limit[k]

\* A request that waits for PTTL has found more than the limit in one window.
CallInv(p) ==
  /\ call[p].state = "idle" => call[p].step = 1
  /\ call[p].state # "idle" => call[p].step <= Len(Chain)
  /\ call[p].state \in {"incr", "pttl"} =>
       call[p].since <= call[p].asked /\ call[p].asked <= clock /\ clock <= call[p].asked + RedisTime
  /\ call[p].state = "pttl" => Since(hits[Key(p)], call[p].asked - Window + 1) > Limit[Key(p)]

\* A block ends at most a window after the call that found more than the limit.
BlockInv(p, k) ==
  blocked[p][k] > clock => Since(hits[k], blocked[p][k] - 2 * Window + 1) > Limit[k]

LimitInv ==
  /\ LimitTypeOK
  /\ \A k \in RateKeys : WindowInv(k)
  /\ \A p \in Procs : CallInv(p)
  /\ \A p \in Procs, k \in RateKeys : BlockInv(p, k)

LEMMA BeforeGrows ==
  ASSUME NEW c \in Ticks, NEW count, History(count, c), NEW g \in Int, g <= MaxTicks + 1
  PROVE  /\ Before(count, g) \in Nat
         /\ \A f \in Int : f <= g => Before(count, f) <= Before(count, g)
         /\ g <= c + 1 => Before(count, g) <= count[c]
<1>1. MaxTicks \in Nat /\ count \in [Ticks -> Nat]
  BY LimitAssumption DEF History
<1>2. Before(count, g) \in Nat
  BY <1>1 DEF Before, Ticks
<1>3. ASSUME NEW f \in Int, f <= g  PROVE Before(count, f) <= Before(count, g)
  <2>1. CASE f > 0
    <3>1. f - 1 \in Ticks /\ g - 1 \in Ticks /\ f - 1 <= g - 1
      BY <1>1, <1>3, <2>1 DEF Ticks
    <3>2. count[f - 1] <= count[g - 1]
      BY <3>1 DEF History
    <3>. QED  BY <1>3, <2>1, <3>2 DEF Before
  <2>2. CASE ~(f > 0)
    BY <1>2, <2>2 DEF Before
  <2>. QED  BY <2>1, <2>2
<1>4. ASSUME g <= c + 1  PROVE Before(count, g) <= count[c]
  <2>1. CASE g > 0
    <3>1. g - 1 \in Ticks /\ g - 1 <= c /\ c \in Ticks
      BY <1>1, <1>4, <2>1 DEF Ticks
    <3>2. count[g - 1] <= count[c]
      BY <3>1 DEF History
    <3>. QED  BY <2>1, <3>2 DEF Before
  <2>2. CASE ~(g > 0)
    BY <1>1, <2>2 DEF Before
  <2>. QED  BY <2>1, <2>2
<1>. QED  BY <1>2, <1>3, <1>4

\* One more request is recorded: there is one more now, and none more before.
LEMMA OneMoreNow ==
  ASSUME LimitTypeOK, NEW count, History(count, clock), NEW more, more = Recorded(count)
  PROVE  /\ History(more, clock) /\ more[clock] = count[clock] + 1
         /\ \A f \in Int : f <= clock => Before(more, f) = Before(count, f)
<1>1. clock \in Ticks /\ count \in [Ticks -> Nat] /\ MaxTicks \in Nat
  BY LimitAssumption DEF LimitTypeOK, History
<1>2. more = [t \in Ticks |-> IF t < clock THEN count[t] ELSE count[t] + 1]
  BY DEF Recorded
<1>3. more \in [Ticks -> Nat]
  BY <1>1, <1>2
<1>4. more[clock] = count[clock] + 1
  BY <1>1, <1>2 DEF Ticks
<1>5. ASSUME NEW t \in Ticks, NEW u \in Ticks, t <= u  PROVE more[t] <= more[u]
  <2>1. count[t] <= count[u] /\ count[t] \in Nat /\ count[u] \in Nat
    BY <1>1, <1>5 DEF History
  <2>2. u < clock => t < clock
    BY <1>1, <1>5 DEF Ticks
  <2>. QED  BY <1>2, <2>1, <2>2
<1>6. ASSUME NEW t \in Ticks, clock <= t  PROVE more[t] = more[clock]
  <2>1. count[t] = count[clock] /\ ~(t < clock)
    BY <1>1, <1>6 DEF History, Ticks
  <2>. QED  BY <1>2, <1>4, <2>1
<1>7. ASSUME NEW f \in Int, f <= clock  PROVE Before(more, f) = Before(count, f)
  <2>1. CASE f > 0
    <3>1. f - 1 \in Ticks /\ f - 1 < clock
      BY <1>1, <1>7, <2>1 DEF Ticks
    <3>. QED  BY <1>2, <2>1, <3>1 DEF Before
  <2>. QED  BY <2>1 DEF Before
<1>. QED  BY <1>3, <1>4, <1>5, <1>6, <1>7 DEF History

\* A tick later nothing more has been counted.
LEMMA ATickLater ==
  ASSUME NEW c \in Ticks, NEW count, History(count, c), c + 1 \in Ticks
  PROVE  /\ History(count, c + 1) /\ count[c + 1] = count[c]
         /\ Before(count, c + 1) = count[c]
<1>1. MaxTicks \in Nat
  BY LimitAssumption
<1>2. count[c + 1] = count[c]
  BY <1>1 DEF History, Ticks
<1>3. Before(count, c + 1) = count[c]
  BY <1>1 DEF Before, Ticks
<1>4. \A t \in Ticks : c + 1 <= t => count[t] = count[c + 1]
  BY <1>1, <1>2 DEF History, Ticks
<1>. QED  BY <1>2, <1>3, <1>4 DEF History

\* What the variables range over.
CounterType == [value : 0..MaxHits, ends : Ends]
CallType == [state : {"idle", "check", "incr", "pttl"}, step : 1..(Len(Chain) + 1),
             since : Ticks, asked : Ticks]

LEMMA LimitConstants ==
  /\ MaxTicks \in Nat /\ Window \in Nat /\ Window > 0 /\ RedisTime \in Nat /\ MaxHits \in Nat
  /\ Limit \in [RateKeys -> Nat] /\ Len(Chain) \in Nat
  /\ \A i \in 1..Len(Chain) : Chain[i] \in RateKeys
<1>1. Chain \in Seq(RateKeys)
  BY LimitAssumption
<1>2. Len(Chain) \in Nat /\ \A i \in 1..Len(Chain) : Chain[i] \in RateKeys
  BY <1>1
<1>. QED  BY <1>2, LimitAssumption

LEMMA LimitParts ==
  ASSUME LimitTypeOK
  PROVE  /\ clock \in Ticks /\ clock \in Int /\ 0 <= clock /\ clock <= MaxTicks
         /\ counter \in [RateKeys -> CounterType]
         /\ \A k \in RateKeys : /\ counter[k].value \in Nat /\ counter[k].value <= MaxHits
                                /\ counter[k].ends \in Nat
         /\ blocked \in [Procs -> [RateKeys -> Ends]]
         /\ \A p \in Procs, k \in RateKeys : blocked[p][k] \in Nat
         /\ call \in [Procs -> CallType]
         /\ \A p \in Procs : /\ call[p] \in CallType /\ call[p].step \in 1..(Len(Chain) + 1)
                             /\ call[p].since \in Ticks /\ call[p].asked \in Ticks
                             /\ call[p].since \in Nat /\ call[p].asked \in Nat
<1>. USE LimitConstants DEF Ticks, Ends
<1>1. clock \in Ticks /\ clock \in Int /\ 0 <= clock /\ clock <= MaxTicks
  BY DEF LimitTypeOK
<1>2. counter \in [RateKeys -> CounterType]
  BY DEF LimitTypeOK, CounterType
<1>3. \A k \in RateKeys : /\ counter[k].value \in Nat /\ counter[k].value <= MaxHits
                          /\ counter[k].ends \in Nat
  BY <1>2 DEF CounterType
<1>4. blocked \in [Procs -> [RateKeys -> Ends]]
  BY DEF LimitTypeOK
<1>5. \A p \in Procs, k \in RateKeys : blocked[p][k] \in Nat
  BY <1>4
<1>6. call \in [Procs -> CallType]
  BY DEF LimitTypeOK, CallType
<1>7. \A p \in Procs : /\ call[p] \in CallType /\ call[p].step \in 1..(Len(Chain) + 1)
                       /\ call[p].since \in Ticks /\ call[p].asked \in Ticks
                       /\ call[p].since \in Nat /\ call[p].asked \in Nat
  BY <1>6 DEF CallType
<1>. QED  BY <1>1, <1>2, <1>3, <1>4, <1>5, <1>6, <1>7

LEMMA NoCallType ==
  /\ NoCall \in CallType /\ NoCall.state = "idle" /\ NoCall.step = 1
  /\ \A i \in 1..(Len(Chain) + 1) :
       [NoCall EXCEPT !.state = "check", !.step = i] \in CallType
<1>1. 1 \in 1..(Len(Chain) + 1) /\ 0 \in Ticks
  BY LimitConstants DEF Ticks
<1>2. NoCall \in CallType
  BY <1>1 DEF NoCall, CallType
<1>3. \A i \in 1..(Len(Chain) + 1) : [NoCall EXCEPT !.state = "check", !.step = i] \in CallType
  BY <1>2 DEF CallType
<1>. QED  BY <1>2, <1>3 DEF NoCall

\* A step of one process that Redis has no part in.
LEMMA QuietStep ==
  ASSUME LimitInv, NEW p \in Procs, NEW u \in CallType, call' = [call EXCEPT ![p] = u],
         UNCHANGED <<clock, counter, hits, passes>>,
         u.state # "pttl", u.state = "idle" => u.step = 1, u.state # "idle" => u.step <= Len(Chain),
         u.state = "incr" => u.since = clock /\ u.asked = clock,
         blocked' \in [Procs -> [RateKeys -> Ends]],
         \A q \in Procs, k \in RateKeys :
           \/ blocked'[q][k] = blocked[q][k] \/ blocked'[q][k] <= clock
           \/ Since(hits[k], blocked'[q][k] - 2 * Window + 1) > Limit[k]
  PROVE  LimitInv'
<1>1. /\ LimitTypeOK /\ call \in [Procs -> CallType] /\ clock \in Int /\ RedisTime \in Nat
  BY LimitParts, LimitConstants DEF LimitInv
<1>2. call' \in [Procs -> CallType]
  BY <1>1
<1>3. LimitTypeOK'
  BY <1>1, <1>2 DEF LimitTypeOK, CallType
<1>4. ASSUME NEW k \in RateKeys  PROVE WindowInv(k)'
  BY DEF LimitInv, WindowInv, History, Starts, Since
<1>5. ASSUME NEW q \in Procs  PROVE CallInv(q)'
  <2>1. CASE q = p
    <3>1. call'[q] = u
      BY <1>1, <2>1
    <3>. QED  BY <1>1, <3>1 DEF CallInv
  <2>2. CASE q # p
    <3>1. call'[q] = call[q]
      BY <1>1, <2>2
    <3>. QED  BY <3>1 DEF LimitInv, CallInv, Key, Since
  <2>. QED  BY <2>1, <2>2
<1>6. ASSUME NEW q \in Procs, NEW k \in RateKeys  PROVE BlockInv(q, k)'
  <2>1. CASE blocked'[q][k] = blocked[q][k]
    BY <2>1 DEF LimitInv, BlockInv, Since
  <2>2. CASE blocked'[q][k] <= clock
    <3>1. blocked'[q][k] \in Int
      BY LimitConstants DEF Ends
    <3>. QED  BY <1>1, <2>2, <3>1 DEF BlockInv
  <2>3. CASE Since(hits[k], blocked'[q][k] - 2 * Window + 1) > Limit[k]
    BY <2>3 DEF BlockInv, Since
  <2>. QED  BY <2>1, <2>2, <2>3
<1>. QED  BY <1>3, <1>4, <1>5, <1>6 DEF LimitInv

\* The next limit of the chain, or the end of the request.
LEMMA NextOfChain ==
  ASSUME LimitInv, NEW p \in Procs, Proceed(p)
  PROVE  \E u \in CallType : /\ call' = [call EXCEPT ![p] = u] /\ u.state \in {"idle", "check"}
                             /\ u.state = "idle" => u.step = 1
                             /\ u.state # "idle" => u.step <= Len(Chain)
<1>1. call \in [Procs -> CallType] /\ call[p].step \in 1..(Len(Chain) + 1) /\ Len(Chain) \in Nat
  BY LimitParts, LimitConstants DEF LimitInv
<1>2. CASE call[p].step < Len(Chain)
  <2>. DEFINE u == [NoCall EXCEPT !.state = "check", !.step = call[p].step + 1]
  <2>1. call[p].step + 1 \in 1..(Len(Chain) + 1) /\ call[p].step + 1 <= Len(Chain)
    BY <1>1, <1>2
  <2>2. u \in CallType
    BY <2>1, NoCallType
  <2>3. u.state = "check" /\ u.step = call[p].step + 1
    BY DEF NoCall
  <2>4. call' = [call EXCEPT ![p] = u]
    BY <1>2 DEF Proceed
  <2>. QED  BY <2>1, <2>2, <2>3, <2>4
<1>3. CASE ~(call[p].step < Len(Chain))
  <2>1. call' = [call EXCEPT ![p] = NoCall]
    BY <1>3 DEF Proceed
  <2>. QED  BY <2>1, NoCallType
<1>. QED  BY <1>2, <1>3

LEMMA ForgetStep ==
  ASSUME LimitTypeOK, NEW p \in Procs, NEW k \in RateKeys, blocked' = Forget(p, k)
  PROVE  /\ blocked' \in [Procs -> [RateKeys -> Ends]]
         /\ \A q \in Procs, j \in RateKeys :
              blocked'[q][j] = blocked[q][j] \/ blocked'[q][j] <= clock
<1>1. blocked \in [Procs -> [RateKeys -> Ends]] /\ 0 \in Ends /\ clock \in Nat
  BY LimitParts, LimitConstants DEF Ends, Ticks
<1>2. blocked' = [blocked EXCEPT ![p] = [blocked[p] EXCEPT ![k] =
                    IF blocked[p][k] > clock THEN blocked[p][k] ELSE 0]]
  BY DEF Forget
<1>. QED  BY <1>1, <1>2

LEMMA LocalSteps ==
  ASSUME LimitInv, NEW p \in Procs, Request(p) \/ CheckLocally(p) \/ FailOpen(p)
  PROVE  LimitInv'
<1>1. /\ LimitTypeOK /\ call \in [Procs -> CallType] /\ call[p] \in CallType
      /\ blocked \in [Procs -> [RateKeys -> Ends]] /\ Len(Chain) \in Nat
      /\ call[p].step \in 1..(Len(Chain) + 1) /\ clock \in Ticks /\ clock \in Int
  BY LimitParts, LimitConstants DEF LimitInv
<1>2. CASE Request(p)
  <2>. DEFINE u == [call[p] EXCEPT !.state = "check"]
  <2>1. u \in CallType /\ u.state = "check" /\ u.step = call[p].step
    BY <1>1 DEF CallType
  <2>2. u.step <= Len(Chain) /\ call' = [call EXCEPT ![p] = u]
    BY <1>1, <1>2, <2>1 DEF Request, LimitInv, CallInv
  <2>3. UNCHANGED <<clock, counter, blocked, hits, passes>>
    BY <1>2 DEF Request
  <2>. HIDE DEF u
  <2>. QED  BY <1>1, <2>1, <2>2, <2>3, QuietStep
<1>3. CASE FailOpen(p)
  <2>1. UNCHANGED <<clock, counter, blocked, hits, passes>> /\ Proceed(p)
    BY <1>3 DEF FailOpen
  <2>2. PICK u \in CallType : /\ call' = [call EXCEPT ![p] = u] /\ u.state \in {"idle", "check"}
                              /\ u.state = "idle" => u.step = 1
                              /\ u.state # "idle" => u.step <= Len(Chain)
    BY <2>1, NextOfChain
  <2>. QED  BY <1>1, <2>1, <2>2, QuietStep
<1>4. CASE CheckLocally(p)
  <2>. DEFINE k == Key(p)
  <2>1. call[p].state = "check" /\ call[p].step <= Len(Chain)
        /\ UNCHANGED <<clock, counter, hits, passes>>
    BY <1>4 DEF CheckLocally, LimitInv, CallInv
  <2>2. k \in RateKeys
    BY <1>1, <2>1, LimitConstants DEF Key
  <2>3. CASE Limit[k] = 0
    <3>1. Proceed(p) /\ UNCHANGED blocked
      BY <1>4, <2>3 DEF CheckLocally
    <3>2. PICK u \in CallType : /\ call' = [call EXCEPT ![p] = u] /\ u.state \in {"idle", "check"}
                                /\ u.state = "idle" => u.step = 1
                                /\ u.state # "idle" => u.step <= Len(Chain)
      BY <3>1, NextOfChain
    <3>. QED  BY <1>1, <2>1, <3>1, <3>2, QuietStep
  <2>4. CASE Limit[k] # 0
    <3>1. blocked' = Forget(p, k)
      BY <1>4, <2>4 DEF CheckLocally
    <3>2. CASE IsBlocked(p, k)
      <4>1. call' = [call EXCEPT ![p] = NoCall]
        BY <1>4, <2>4, <3>2 DEF CheckLocally, Refuse
      <4>. QED  BY <1>1, <2>1, <2>2, <3>1, <4>1, ForgetStep, NoCallType, QuietStep
    <3>3. CASE ~IsBlocked(p, k)
      <4>. DEFINE u == [call[p] EXCEPT !.state = "incr", !.since = clock, !.asked = clock]
      <4>1. /\ u \in CallType /\ u.state = "incr" /\ u.step = call[p].step
            /\ u.since = clock /\ u.asked = clock
        BY <1>1 DEF CallType
      <4>2. call' = [call EXCEPT ![p] = u]
        BY <1>4, <2>4, <3>3 DEF CheckLocally
      <4>. HIDE DEF u, k
      <4>. QED  BY <1>1, <2>1, <2>2, <3>1, <4>1, <4>2, ForgetStep, QuietStep
    <3>. QED  BY <3>2, <3>3
  <2>. QED  BY <2>3, <2>4
<1>. QED  BY <1>2, <1>3, <1>4

\* A block ends a window after the call, at most.
LEMMA BlockStep ==
  ASSUME LimitInv, NEW p \in Procs, BlockUntilReset(p)  PROVE LimitInv'
<1>. DEFINE k == Key(p)
            w == call[p]
<1>1. /\ LimitTypeOK /\ call \in [Procs -> CallType] /\ clock \in Ticks /\ clock \in Nat
      /\ blocked \in [Procs -> [RateKeys -> Ends]] /\ w.step \in 1..(Len(Chain) + 1)
      /\ w.since \in Nat /\ w.asked \in Nat /\ w.since \in Ticks /\ w.asked \in Ticks
      /\ Window \in Nat /\ MaxTicks \in Nat /\ Window > 0
  BY LimitParts, LimitConstants DEF LimitInv, Ticks
<1>2. /\ w.state = "pttl" /\ w.step <= Len(Chain) /\ w.since <= w.asked /\ w.asked <= clock
      /\ Since(hits[k], w.asked - Window + 1) > Limit[k]
      /\ call' = [call EXCEPT ![p] = NoCall] /\ UNCHANGED <<clock, counter, hits, passes>>
  BY DEF BlockUntilReset, Refuse, LimitInv, CallInv
<1>3. k \in RateKeys
  BY <1>1, <1>2, LimitConstants DEF Key
<1>4. /\ counter[k].ends \in Nat /\ counter[k].ends - Window <= clock /\ History(hits[k], clock)
      /\ Limit[k] \in Nat
  BY <1>1, <1>3, LimitParts, LimitConstants DEF LimitInv, WindowInv, Starts
<1>5. PICK ttl \in TimeToLive(k) :
        \/ blocked' = [blocked EXCEPT ![p][k] = IF BlockEnds(p, ttl) > clock
                                                THEN BlockEnds(p, ttl) ELSE @]
        \/ blocked[p][k] = 0 /\ UNCHANGED blocked
  BY DEF BlockUntilReset
<1>6. ttl \in Nat /\ ttl <= Window
  BY <1>1, <1>4 DEF TimeToLive, Running
<1>. DEFINE end == BlockEnds(p, ttl)
<1>7. end \in Nat /\ end <= w.asked + Window /\ end \in Ends
  BY <1>1, <1>2, <1>6 DEF BlockEnds, Ends, Ticks
<1>8. Since(hits[k], end - 2 * Window + 1) > Limit[k]
  <2>. DEFINE f == end - 2 * Window + 1
              g == w.asked - Window + 1
  <2>1. f \in Int /\ g \in Int /\ f <= g /\ g <= MaxTicks + 1
    <3>1. end \in Nat /\ end <= w.asked + Window /\ w.asked <= MaxTicks
      BY <1>1, <1>7 DEF Ticks
    <3>2. w.asked \in Nat /\ Window \in Nat /\ Window > 0 /\ MaxTicks \in Nat
      BY <1>1
    <3>. HIDE DEF end, w
    <3>. QED  BY <3>1, <3>2
  <2>2. Before(hits[k], f) <= Before(hits[k], g) /\ Before(hits[k], g) \in Nat
        /\ Before(hits[k], f) \in Nat
    <3>. HIDE DEF f, g
    <3>1. f <= MaxTicks + 1
      BY <1>1, <2>1
    <3>. QED  BY <1>1, <1>4, <2>1, <3>1, BeforeGrows
  <2>3. hits[k][clock] \in Nat
    BY <1>1, <1>4 DEF History
  <2>4. hits[k][clock] - Before(hits[k], g) > Limit[k]
    BY <1>2 DEF Since, Before
  <2>5. hits[k][clock] - Before(hits[k], f) > Limit[k]
    <3>. HIDE DEF f, g, k
    <3>. QED  BY <1>4, <2>2, <2>3, <2>4
  <2>. QED  BY <2>5 DEF Since, Before
<1>9. CASE UNCHANGED blocked
  BY <1>1, <1>2, <1>9, NoCallType, QuietStep
<1>10. CASE blocked' = [blocked EXCEPT ![p][k] = IF end > clock THEN end ELSE @]
  <2>1. blocked' = [blocked EXCEPT ![p] = [blocked[p] EXCEPT ![k] =
                      IF end > clock THEN end ELSE blocked[p][k]]]
    BY <1>10
  <2>. HIDE DEF end, k
  <2>2. blocked' \in [Procs -> [RateKeys -> Ends]]
    BY <1>1, <1>3, <1>7, <2>1
  <2>3. \A q \in Procs, j \in RateKeys :
          blocked'[q][j] = blocked[q][j] \/ (j = k /\ blocked'[q][j] = end)
    BY <1>1, <1>3, <2>1
  <2>. QED  BY <1>1, <1>2, <1>8, <2>2, <2>3, NoCallType, QuietStep
<1>. QED  BY <1>5, <1>9, <1>10

\* Redis counts a request: in the window that runs, or as the first of a new one.
LEMMA WindowCounts ==
  ASSUME LimitInv, NEW k \in RateKeys, NEW c, c = Counted(k), c.value <= MaxHits
  PROVE  /\ c \in CounterType /\ c.value \in Nat /\ c.ends \in Nat
         /\ clock < c.ends /\ c.ends - Window <= clock
         /\ c.value <= 1 + Since(hits[k], c.ends - Window)
         /\ Since(passes[k], c.ends - Window) <= c.value - 1
         /\ Since(passes[k], c.ends - Window) <= Limit[k]
         /\ Before(passes[k], c.ends - Window) - Before(passes[k], c.ends - 2 * Window) <= Limit[k]
<1>1. /\ LimitTypeOK /\ clock \in Ticks /\ clock \in Nat /\ Window \in Nat /\ Window > 0
      /\ MaxTicks \in Nat /\ clock <= MaxTicks /\ counter[k] \in CounterType
      /\ counter[k].value \in Nat /\ counter[k].ends \in Nat /\ Limit[k] \in Nat /\ MaxHits \in Nat
  BY LimitParts, LimitConstants DEF LimitInv, Ticks
<1>2. WindowInv(k)
  BY DEF LimitInv
<1>3. History(hits[k], clock) /\ History(passes[k], clock)
  BY <1>2 DEF WindowInv
<1>4. hits[k][clock] \in Nat /\ passes[k][clock] \in Nat
  BY <1>1, <1>3 DEF History
<1>5. \A f, g \in Int : f <= g /\ g <= clock =>
        /\ Before(passes[k], f) \in Nat /\ Before(passes[k], g) \in Nat
        /\ Before(hits[k], f) \in Nat /\ Before(hits[k], g) <= hits[k][clock]
        /\ Before(passes[k], f) <= Before(passes[k], g) /\ Before(passes[k], g) <= passes[k][clock]
  <2>. SUFFICES ASSUME NEW f \in Int, NEW g \in Int, f <= g, g <= clock
                PROVE  /\ Before(passes[k], f) \in Nat /\ Before(passes[k], g) \in Nat
                       /\ Before(hits[k], f) \in Nat /\ Before(hits[k], g) <= hits[k][clock]
                       /\ Before(passes[k], f) <= Before(passes[k], g)
                       /\ Before(passes[k], g) <= passes[k][clock]
    OBVIOUS
  <2>1. g <= MaxTicks + 1 /\ f <= MaxTicks + 1 /\ g <= clock + 1
    BY <1>1
  <2>. QED  BY <1>1, <1>3, <2>1, BeforeGrows
<1>6. CASE Running(k)
  <2>1. c = [counter[k] EXCEPT !.value = counter[k].value + 1]
    BY <1>6 DEF Counted
  <2>2. c.value = counter[k].value + 1 /\ c.ends = counter[k].ends
    BY <1>1, <2>1 DEF CounterType
  <2>3. c \in CounterType
    BY <1>1, <2>1, <2>2 DEF CounterType
  <2>4. counter[k].ends - Window - Window = c.ends - 2 * Window
    BY <1>1, <2>2
  <2>5. /\ counter[k].value <= Since(hits[k], c.ends - Window)
        /\ Since(passes[k], c.ends - Window) <= counter[k].value
        /\ Since(passes[k], c.ends - Window) <= Limit[k]
        /\ Before(passes[k], c.ends - Window) - Before(passes[k], c.ends - 2 * Window) <= Limit[k]
        /\ c.ends - Window <= clock
    BY <1>2, <2>2, <2>4 DEF WindowInv, Starts
  <2>6. Since(hits[k], c.ends - Window) \in Int /\ Since(passes[k], c.ends - Window) \in Int
    <3>1. c.ends - Window \in Int
      BY <1>1, <2>2
    <3>. QED  BY <1>4, <1>5, <2>5, <3>1 DEF Since, Before
  <2>. QED  BY <1>1, <1>6, <2>2, <2>3, <2>5, <2>6 DEF Running
<1>7. CASE ~Running(k)
  <2>. DEFINE e == counter[k].ends
  <2>1. c.value = 1 /\ c.ends = clock + Window /\ e <= clock /\ c = [value |-> 1, ends |-> clock + Window]
    BY <1>1, <1>7 DEF Counted, Running
  <2>2. c \in CounterType
    BY <1>1, <2>1 DEF CounterType, Ends
  <2>3. c.ends - Window = clock /\ c.ends - 2 * Window = clock - Window
    BY <1>1, <2>1
  <2>4. Before(hits[k], clock) <= hits[k][clock] /\ Before(hits[k], clock) \in Nat
    BY <1>1, <1>5
  <2>5. /\ Before(passes[k], e) <= Before(passes[k], clock)
        /\ Before(passes[k], clock) <= passes[k][clock]
        /\ Before(passes[k], clock) \in Nat /\ Before(passes[k], e) \in Nat
    BY <1>1, <1>5, <2>1
  <2>6. passes[k][clock] - Before(passes[k], e) = 0
    BY <1>2, <2>1 DEF WindowInv, Since, Before
  <2>7. Since(hits[k], clock) \in Nat
    BY <1>4, <2>4 DEF Since, Before
  <2>8. Since(passes[k], clock) = 0
    <3>1. passes[k][clock] - Before(passes[k], clock) = 0
      BY <1>4, <2>5, <2>6
    <3>. QED  BY <3>1 DEF Since, Before
  <2>9. Before(passes[k], clock) - Before(passes[k], clock - Window) <= Limit[k]
    <3>. DEFINE s == Starts(k)
    <3>1. s \in Int /\ s <= clock - Window /\ clock - Window \in Int
      BY <1>1, <2>1 DEF Starts
    <3>2. /\ Before(passes[k], s) <= Before(passes[k], clock - Window)
          /\ Before(passes[k], s) \in Nat /\ Before(passes[k], clock - Window) \in Nat
      <4>. HIDE DEF s
      <4>1. clock - Window <= clock
        BY <1>1
      <4>. QED  BY <1>5, <3>1, <4>1
    <3>3. passes[k][clock] - Before(passes[k], s) <= Limit[k]
      BY <1>2 DEF WindowInv, Since, Before
    <3>. HIDE DEF s
    <3>. QED  BY <1>1, <1>4, <2>5, <3>2, <3>3
  <2>. QED  BY <1>1, <2>1, <2>2, <2>3, <2>7, <2>8, <2>9
<1>. QED  BY <1>6, <1>7

LEMMA IncrStep ==
  ASSUME LimitInv, NEW p \in Procs, IncrWithTTL(p)  PROVE LimitInv'
<1>. SUFFICES ASSUME NEW k, k = Key(p), NEW w, w = call[p], NEW c, c = Counted(k)
              PROVE  LimitInv'
  OBVIOUS
<1>1. /\ LimitTypeOK /\ call \in [Procs -> CallType] /\ clock \in Ticks /\ clock \in Nat
      /\ w \in CallType /\ w.step \in 1..(Len(Chain) + 1) /\ Len(Chain) \in Nat
      /\ w.since \in Nat /\ w.asked \in Nat
      /\ Window \in Nat /\ Window > 0 /\ MaxTicks \in Nat /\ RedisTime \in Nat
      /\ counter \in [RateKeys -> CounterType] /\ clock <= MaxTicks
      /\ blocked \in [Procs -> [RateKeys -> Ends]]
  BY LimitParts, LimitConstants DEF LimitInv, Ticks
<1>2. /\ w.state = "incr" /\ w.step <= Len(Chain) /\ w.since <= clock
      /\ c.value <= MaxHits /\ counter' = [counter EXCEPT ![k] = c]
      /\ hits' = [hits EXCEPT ![k] = Recorded(hits[k])] /\ UNCHANGED <<clock, blocked>>
  BY <1>1 DEF IncrWithTTL, LimitInv, CallInv
<1>3. k \in RateKeys
  BY <1>1, <1>2, LimitConstants DEF Key
<1>4. /\ c \in CounterType /\ c.value \in Nat /\ c.ends \in Nat
      /\ clock < c.ends /\ c.ends - Window <= clock
      /\ c.value <= 1 + Since(hits[k], c.ends - Window)
      /\ Since(passes[k], c.ends - Window) <= c.value - 1
      /\ Since(passes[k], c.ends - Window) <= Limit[k]
      /\ Before(passes[k], c.ends - Window) - Before(passes[k], c.ends - 2 * Window) <= Limit[k]
      /\ Limit[k] \in Nat
  BY <1>2, <1>3, WindowCounts, LimitConstants
<1>5. /\ hits \in [RateKeys -> [Ticks -> Nat]] /\ passes \in [RateKeys -> [Ticks -> Nat]]
      /\ \A j \in RateKeys : History(hits[j], clock) /\ History(passes[j], clock)
  BY DEF LimitInv, LimitTypeOK, WindowInv
<1>6. PICK u \in CallType :
        /\ call' = [call EXCEPT ![p] = u]
        /\ \/ /\ c.value <= Limit[k] /\ passes' = [passes EXCEPT ![k] = Recorded(passes[k])]
              /\ u.state \in {"idle", "check"}
              /\ u.state = "idle" => u.step = 1
              /\ u.state # "idle" => u.step <= Len(Chain)
           \/ /\ ~(c.value <= Limit[k]) /\ passes' = passes
              /\ u.state = "pttl" /\ u.asked = clock /\ u.since = w.since /\ u.step = w.step
  <2>1. CASE Allowed(c.value, k)
    <3>1. Proceed(p) /\ passes' = [passes EXCEPT ![k] = Recorded(passes[k])]
      BY <2>1 DEF IncrWithTTL
    <3>2. PICK u \in CallType : /\ call' = [call EXCEPT ![p] = u] /\ u.state \in {"idle", "check"}
                                /\ u.state = "idle" => u.step = 1
                                /\ u.state # "idle" => u.step <= Len(Chain)
      BY <3>1, NextOfChain
    <3>. QED  BY <2>1, <3>1, <3>2 DEF Allowed
  <2>2. CASE ~Allowed(c.value, k)
    <3>. DEFINE u == [w EXCEPT !.state = "pttl", !.asked = clock]
    <3>1. /\ u \in CallType /\ u.state = "pttl" /\ u.asked = clock /\ u.since = w.since
          /\ u.step = w.step
      BY <1>1 DEF CallType
    <3>2. call' = [call EXCEPT ![p] = u] /\ passes' = passes
      BY <2>2 DEF IncrWithTTL
    <3>. HIDE DEF u
    <3>. QED  BY <2>2, <3>1, <3>2 DEF Allowed
  <2>. QED  BY <2>1, <2>2
\* The counts of the key, and of the others.
<1>7. /\ hits' \in [RateKeys -> [Ticks -> Nat]] /\ History(hits'[k], clock)
      /\ hits'[k][clock] = hits[k][clock] + 1
      /\ \A f \in Int : f <= clock => Before(hits'[k], f) = Before(hits[k], f)
      /\ \A j \in RateKeys \ {k} : hits'[j] = hits[j]
  <2>1. hits'[k] = Recorded(hits[k]) /\ \A j \in RateKeys \ {k} : hits'[j] = hits[j]
    BY <1>2, <1>3, <1>5
  <2>2. /\ History(hits'[k], clock) /\ hits'[k][clock] = hits[k][clock] + 1
        /\ \A f \in Int : f <= clock => Before(hits'[k], f) = Before(hits[k], f)
    BY <1>1, <1>3, <1>5, <2>1, OneMoreNow
  <2>3. hits'[k] \in [Ticks -> Nat]
    BY <2>2 DEF History
  <2>. QED  BY <1>2, <1>3, <1>5, <2>1, <2>2, <2>3
<1>8. /\ passes' \in [RateKeys -> [Ticks -> Nat]] /\ History(passes'[k], clock)
      /\ \/ c.value <= Limit[k] /\ passes'[k][clock] = passes[k][clock] + 1
         \/ passes'[k][clock] = passes[k][clock]
      /\ \A f \in Int : f <= clock => Before(passes'[k], f) = Before(passes[k], f)
      /\ \A j \in RateKeys \ {k} : passes'[j] = passes[j]
  <2>1. CASE passes' = passes
    BY <1>3, <1>5, <2>1
  <2>2. CASE c.value <= Limit[k] /\ passes' = [passes EXCEPT ![k] = Recorded(passes[k])]
    <3>1. passes'[k] = Recorded(passes[k]) /\ \A j \in RateKeys \ {k} : passes'[j] = passes[j]
      BY <1>3, <1>5, <2>2
    <3>2. /\ History(passes'[k], clock) /\ passes'[k][clock] = passes[k][clock] + 1
          /\ \A f \in Int : f <= clock => Before(passes'[k], f) = Before(passes[k], f)
      BY <1>1, <1>3, <1>5, <3>1, OneMoreNow
    <3>3. passes'[k] \in [Ticks -> Nat]
      BY <3>2 DEF History
    <3>. QED  BY <1>3, <1>5, <2>2, <3>1, <3>2, <3>3
  <2>. QED  BY <1>6, <2>1, <2>2
<1>9. /\ hits[k][clock] \in Nat /\ passes[k][clock] \in Nat
      /\ \A f \in Int : f <= clock + 1 =>
           Before(hits[k], f) \in Nat /\ Before(passes[k], f) \in Nat
  <2>1. hits[k][clock] \in Nat /\ passes[k][clock] \in Nat
    BY <1>1, <1>3, <1>5
  <2>2. \A f \in Int : f <= clock + 1 => f <= MaxTicks + 1
    BY <1>1
  <2>. QED  BY <1>1, <1>3, <1>5, <2>1, <2>2, BeforeGrows
<1>10. LimitTypeOK'
  <2>1. call' \in [Procs -> CallType]
    BY <1>1, <1>6
  <2>2. counter' \in [RateKeys -> CounterType]
    BY <1>1, <1>2, <1>4
  <2>. QED  BY <1>1, <1>2, <1>7, <1>8, <2>1, <2>2 DEF LimitTypeOK, CallType, CounterType
<1>11. ASSUME NEW j \in RateKeys  PROVE WindowInv(j)'
  <2>1. CASE j # k
    <3>1. counter'[j] = counter[j] /\ hits'[j] = hits[j] /\ passes'[j] = passes[j] /\ clock' = clock
      BY <1>1, <1>2, <1>7, <1>8, <2>1
    <3>. QED  BY <3>1 DEF LimitInv, WindowInv, History, Starts, Since
  <2>2. CASE j = k
    <3>1. counter'[k] = c
      BY <1>1, <1>2, <1>3
    <3>. DEFINE s == c.ends - Window
                H == hits[k][clock]
                P == passes[k][clock]
    <3>2. s \in Int /\ s <= clock /\ s - Window = c.ends - 2 * Window /\ s - Window \in Int
          /\ s - Window <= clock
      <4>1. /\ c.ends \in Nat /\ c.ends - Window <= clock
            /\ clock \in Nat /\ Window \in Nat /\ Window > 0
        BY <1>1, <1>4
      <4>. QED  BY <4>1
    <3>3. c.value <= 1 + (H - Before(hits[k], s))
      BY <1>4 DEF Since, Before
    <3>4. P - Before(passes[k], s) <= c.value - 1 /\ P - Before(passes[k], s) <= Limit[k]
      BY <1>4 DEF Since, Before
    <3>5. Before(hits[k], s) \in Nat /\ Before(passes[k], s) \in Nat
      <4>1. s <= clock + 1 /\ s \in Int
        BY <1>1, <3>2
      <4>. HIDE DEF s
      <4>. QED  BY <1>9, <4>1
    <3>6. Before(passes'[k], s) - Before(passes'[k], s - Window) <= Limit[k]
      BY <1>4, <1>8, <3>2
    <3>7. c.value <= hits'[k][clock] - Before(hits'[k], s)
      <4>1. Before(hits'[k], s) = Before(hits[k], s) /\ hits'[k][clock] = H + 1 /\ H \in Nat
        BY <1>7, <1>9, <3>2
      <4>. HIDE DEF s, H
      <4>. QED  BY <1>4, <3>3, <3>5, <4>1
    <3>8. /\ passes'[k][clock] - Before(passes'[k], s) <= c.value
          /\ passes'[k][clock] - Before(passes'[k], s) <= Limit[k]
      <4>1. /\ Before(passes'[k], s) = Before(passes[k], s) /\ P \in Nat
            /\ (c.value <= Limit[k] /\ passes'[k][clock] = P + 1) \/ passes'[k][clock] = P
        BY <1>8, <1>9, <3>2
      <4>. HIDE DEF s, P
      <4>. QED  BY <1>4, <3>4, <3>5, <4>1
    <3>9. ~(c.ends <= clock) /\ clock' = clock
      BY <1>1, <1>2, <1>4
    <3>. QED  BY <1>7, <1>8, <2>2, <3>1, <3>2, <3>6, <3>7, <3>8, <3>9
              DEF WindowInv, Starts, Since, Before
  <2>. QED  BY <2>1, <2>2
\* Never less is counted since a tick.
<1>12. ASSUME NEW j \in RateKeys, NEW f \in Int, f <= MaxTicks + 1, Since(hits[j], f) > Limit[j]
       PROVE  Since(hits'[j], f) > Limit[j]
  <2>1. CASE j # k
    BY <1>7, <1>12, <2>1
  <2>2. CASE j = k /\ f <= clock
    <3>1. hits[k][clock] - Before(hits[k], f) > Limit[k]
      BY <1>12, <2>2 DEF Since, Before
    <3>2. Before(hits[k], f) \in Nat
      BY <1>1, <1>9, <2>2
    <3>3. hits'[k][clock] - Before(hits'[k], f) > Limit[k]
      BY <1>4, <1>7, <1>9, <2>2, <3>1, <3>2
    <3>. QED  BY <2>2, <3>3 DEF Since, Before
  <2>3. CASE j = k /\ ~(f <= clock)
    <3>1. f > 0 /\ f - 1 \in Ticks /\ clock <= f - 1
      BY <1>1, <1>12, <2>3 DEF Ticks
    <3>2. hits[k][f - 1] = hits[k][clock]
      BY <1>3, <1>5, <3>1 DEF History
    <3>3. Since(hits[k], f) = 0
      BY <1>9, <3>1, <3>2 DEF Since
    <3>. QED  BY <1>4, <1>12, <2>3, <3>3
  <2>. QED  BY <2>1, <2>2, <2>3
<1>13. ASSUME NEW q \in Procs  PROVE CallInv(q)'
  <2>1. CASE q = p /\ u.state # "pttl"
    <3>1. call'[q] = u
      BY <1>1, <1>6, <2>1
    <3>2. /\ u.state \in {"idle", "check"}
          /\ u.state = "idle" => u.step = 1
          /\ u.state # "idle" => u.step <= Len(Chain)
      BY <1>6, <2>1
    <3>. QED  BY <3>1, <3>2 DEF CallInv
  <2>2. CASE q = p /\ u.state = "pttl"
    <3>0. call'[q] = u
      BY <1>1, <1>6, <2>2
    <3>1. /\ call'[q] = u /\ ~(c.value <= Limit[k]) /\ u.asked = clock /\ u.since = w.since
          /\ u.step = w.step
      BY <1>6, <2>2, <3>0
    <3>2. Key(p)' = k
      BY <2>2, <3>1 DEF Key
    <3>. DEFINE s == c.ends - Window
                f == clock - Window + 1
    <3>3. c.value <= hits'[k][clock] - Before(hits'[k], s)
      <4>1. WindowInv(k)' /\ counter'[k] = c /\ clock' = clock
        BY <1>1, <1>2, <1>3, <1>11
      <4>. QED  BY <4>1 DEF WindowInv, Starts, Since, Before
    <3>4. Before(hits'[k], f) <= Before(hits'[k], s)
          /\ Before(hits'[k], f) \in Nat /\ Before(hits'[k], s) \in Nat
      <4>1. f \in Int /\ s \in Int /\ f <= s /\ s <= MaxTicks + 1 /\ f <= MaxTicks + 1
        <5>1. /\ c.ends \in Nat /\ clock < c.ends /\ c.ends - Window <= clock
              /\ clock \in Nat /\ Window \in Nat /\ MaxTicks \in Nat /\ clock <= MaxTicks
              /\ Window > 0
          BY <1>1, <1>4
        <5>. QED  BY <5>1
      <4>. HIDE DEF f, s
      <4>. QED  BY <1>1, <1>7, <4>1, BeforeGrows
    <3>5. hits'[k][clock] \in Nat
      BY <1>7, <1>9
    <3>6. hits'[k][clock] - Before(hits'[k], f) > Limit[k]
      <4>. HIDE DEF f, s
      <4>. QED  BY <1>4, <3>1, <3>3, <3>4, <3>5
    <3>7. (Since(hits[Key(p)], call[p].asked - Window + 1) > Limit[Key(p)])'
      BY <1>2, <2>2, <3>1, <3>2, <3>6 DEF Since, Before
    <3>8. /\ u.since <= u.asked /\ u.asked <= clock /\ clock <= u.asked + RedisTime
          /\ u.step <= Len(Chain)
      BY <1>1, <1>2, <3>1
    <3>. QED  BY <1>2, <2>2, <3>1, <3>7, <3>8 DEF CallInv
  <2>3. CASE q # p
    <3>1. call'[q] = call[q] /\ CallInv(q) /\ call[q] \in CallType /\ Key(q)' = Key(q)
      BY <1>1, <1>6, <2>3 DEF LimitInv, Key
    <3>2. ASSUME call[q].state = "pttl"
          PROVE  Since(hits'[Key(q)], call[q].asked - Window + 1) > Limit[Key(q)]
      <4>1. /\ Since(hits[Key(q)], call[q].asked - Window + 1) > Limit[Key(q)]
            /\ call[q].step <= Len(Chain) /\ call[q].asked <= clock
        BY <3>1, <3>2 DEF CallInv
      <4>2. Key(q) \in RateKeys /\ call[q].asked \in Nat
        BY <1>1, <4>1, LimitParts, LimitConstants DEF Key
      <4>3. call[q].asked - Window + 1 \in Int /\ call[q].asked - Window + 1 <= MaxTicks + 1
        BY <1>1, <4>1, <4>2
      <4>. QED  BY <1>12, <4>1, <4>2, <4>3
    <3>. QED  BY <1>2, <3>1, <3>2 DEF CallInv, Since
  <2>. QED  BY <2>1, <2>2, <2>3
<1>14. ASSUME NEW q \in Procs, NEW j \in RateKeys  PROVE BlockInv(q, j)'
  <2>1. blocked[q][j] \in Nat /\ blocked[q][j] <= MaxTicks + Window
    BY <1>1 DEF Ends
  <2>2. blocked[q][j] - 2 * Window + 1 \in Int /\ blocked[q][j] - 2 * Window + 1 <= MaxTicks + 1
    BY <1>1, <2>1
  <2>3. BlockInv(q, j)
    BY DEF LimitInv
  <2>4. blocked[q][j] > clock => Since(hits'[j], blocked[q][j] - 2 * Window + 1) > Limit[j]
    BY <1>12, <2>2, <2>3 DEF BlockInv
  <2>. QED  BY <1>2, <2>4 DEF BlockInv, Since
<1>. QED  BY <1>10, <1>11, <1>13, <1>14 DEF LimitInv

LEMMA LimitTickStep ==
  ASSUME LimitInv, LimitTick  PROVE LimitInv'
<1>1. /\ LimitTypeOK /\ clock \in Ticks /\ clock \in Nat /\ MaxTicks \in Nat /\ RedisTime \in Nat
      /\ Window \in Nat
  BY LimitParts, LimitConstants DEF LimitInv, Ticks
<1>2. /\ clock' = clock + 1 /\ UNCHANGED <<counter, blocked, call, hits, passes>>
      /\ clock + 1 \in Ticks /\ ~(clock + 1 <= clock)
      /\ \A p \in Procs : call[p].state \in {"incr", "pttl"} => clock < call[p].asked + RedisTime
  BY <1>1 DEF LimitTick, Ticks
<1>3. LimitTypeOK'
  BY <1>1, <1>2 DEF LimitTypeOK
<1>4. \A k \in RateKeys :
        /\ History(hits[k], clock) /\ History(passes[k], clock)
        /\ History(hits[k], clock + 1) /\ History(passes[k], clock + 1)
        /\ hits[k][clock + 1] = hits[k][clock] /\ passes[k][clock + 1] = passes[k][clock]
        /\ Before(passes[k], clock + 1) = passes[k][clock] /\ passes[k][clock] \in Nat
  <2>1. \A k \in RateKeys : History(hits[k], clock) /\ History(passes[k], clock)
    BY DEF LimitInv, WindowInv
  <2>2. \A k \in RateKeys : passes[k][clock] \in Nat
    BY <1>1, <2>1 DEF History
  <2>. QED  BY <1>1, <1>2, <2>1, <2>2, ATickLater
\* What was counted since a tick still is.
<1>5. \A k \in RateKeys : \A f \in Int :
        /\ Since(hits[k], f)' = Since(hits[k], f) /\ Since(passes[k], f)' = Since(passes[k], f)
  BY <1>2, <1>4 DEF Since
<1>6. ASSUME NEW k \in RateKeys  PROVE WindowInv(k)'
  <2>1. /\ counter[k].ends \in Nat /\ Starts(k) \in Int /\ Starts(k)' = Starts(k)
        /\ WindowInv(k)
    BY <1>1, <1>2, LimitParts DEF Starts, LimitInv
  <2>2. /\ counter[k].value <= Since(hits[k], Starts(k))
        /\ Since(passes[k], Starts(k)) <= counter[k].value
        /\ Since(passes[k], Starts(k)) <= Limit[k] /\ Starts(k) <= clock
        /\ counter[k].ends <= clock => Since(passes[k], counter[k].ends) = 0
        /\ Before(passes[k], Starts(k)) - Before(passes[k], Starts(k) - Window) <= Limit[k]
    BY <2>1 DEF WindowInv
  <2>3. /\ Since(hits[k], Starts(k))' = Since(hits[k], Starts(k))
        /\ Since(passes[k], Starts(k))' = Since(passes[k], Starts(k))
    BY <1>2, <1>4, <2>1 DEF Since
  <2>4. ASSUME counter[k].ends <= clock + 1
        PROVE  Since(passes[k], counter[k].ends)' = 0
    <3>1. CASE counter[k].ends <= clock
      BY <1>2, <1>4, <2>2, <3>1 DEF Since
    <3>2. CASE counter[k].ends = clock + 1
      <4>1. passes[k][clock + 1] - Before(passes[k], clock + 1) = 0
        BY <1>4
      <4>. QED  BY <1>2, <3>2, <4>1 DEF Since, Before
    <3>. QED  BY <1>1, <2>1, <2>4, <3>1, <3>2
  <2>5. Starts(k) <= clock + 1
    BY <1>1, <2>1, <2>2
  <2>6. History(hits[k], clock)' /\ History(passes[k], clock)'
    BY <1>2, <1>4
  <2>. QED  BY <1>2, <2>1, <2>2, <2>3, <2>4, <2>5, <2>6 DEF WindowInv
<1>7. ASSUME NEW p \in Procs  PROVE CallInv(p)'
  <2>1. /\ CallInv(p) /\ call[p].asked \in Nat /\ call[p].since \in Nat
        /\ call[p].step \in 1..(Len(Chain) + 1) /\ Key(p)' = Key(p)
    BY <1>1, <1>2, LimitParts DEF LimitInv, Key
  <2>2. ASSUME call[p].state = "pttl"
        PROVE  Since(hits[Key(p)], call[p].asked - Window + 1)' > Limit[Key(p)]
    <3>1. Key(p) \in RateKeys
      BY <2>1, <2>2, LimitConstants DEF CallInv, Key
    <3>2. Since(hits[Key(p)], call[p].asked - Window + 1) > Limit[Key(p)]
      BY <2>1, <2>2 DEF CallInv
    <3>. QED  BY <1>2, <1>4, <2>1, <3>1, <3>2 DEF Since
  <2>3. ASSUME call[p].state \in {"incr", "pttl"}
        PROVE  /\ call[p].since <= call[p].asked /\ call[p].asked <= clock + 1
               /\ clock + 1 <= call[p].asked + RedisTime
    BY <1>1, <1>2, <2>1, <2>3 DEF CallInv
  <2>. QED  BY <1>2, <2>1, <2>2, <2>3 DEF CallInv
<1>8. ASSUME NEW p \in Procs, NEW k \in RateKeys  PROVE BlockInv(p, k)'
  <2>1. BlockInv(p, k) /\ blocked[p][k] \in Nat
    BY <1>1, LimitParts DEF LimitInv
  <2>2. blocked[p][k] > clock + 1 => blocked[p][k] > clock
    BY <1>1, <2>1
  <2>. QED  BY <1>2, <1>4, <2>1, <2>2 DEF BlockInv, Since
<1>. QED  BY <1>3, <1>6, <1>7, <1>8 DEF LimitInv

LEMMA LimitBegins == LimitInit => LimitInv
<1>. SUFFICES ASSUME LimitInit  PROVE LimitInv
  OBVIOUS
<1>. USE LimitConstants
<1>1. 0 \in Ticks /\ 0 \in Ends /\ 0 \in 0..MaxHits /\ Ticks \subseteq Nat
  BY DEF Ticks, Ends
<1>2. LimitTypeOK
  BY <1>1, NoCallType DEF LimitInit, LimitTypeOK, CallType
<1>3. ASSUME NEW k \in RateKeys  PROVE WindowInv(k)
  <2>1. \A t \in Ticks : hits[k][t] = 0 /\ passes[k][t] = 0
    BY DEF LimitInit
  <2>2. hits[k] \in [Ticks -> Nat] /\ passes[k] \in [Ticks -> Nat]
    BY <1>2 DEF LimitTypeOK
  <2>3. clock = 0 /\ counter[k].value = 0 /\ counter[k].ends = 0
    BY DEF LimitInit
  <2>4. History(hits[k], clock) /\ History(passes[k], clock)
    BY <1>1, <2>1, <2>2, <2>3 DEF History
  <2>5. Starts(k) <= 0 /\ ~(Starts(k) > 0) /\ ~(Starts(k) - Window > 0) /\ Limit[k] \in Nat
    BY <2>3 DEF Starts
  <2>6. \A f \in Int : ~(f > 0) => Before(passes[k], f) = 0
    BY DEF Before
  <2>7. Since(hits[k], Starts(k)) = 0 /\ Since(passes[k], Starts(k)) = 0
        /\ Since(passes[k], counter[k].ends) = 0
    BY <1>1, <2>1, <2>3, <2>5 DEF Since
  <2>. QED  BY <2>3, <2>4, <2>5, <2>7 DEF WindowInv, Before
<1>4. \A p \in Procs : CallInv(p)
  BY DEF LimitInit, NoCall, CallInv
<1>5. \A p \in Procs, k \in RateKeys : BlockInv(p, k)
  BY DEF LimitInit, BlockInv
<1>. QED  BY <1>2, <1>3, <1>4, <1>5 DEF LimitInv

LEMMA LimitStep == LimitInv /\ [LimitNext]_limitVars => LimitInv'
<1>. SUFFICES ASSUME LimitInv, [LimitNext]_limitVars  PROVE LimitInv'
  OBVIOUS
<1>1. CASE UNCHANGED limitVars
  <2>1. UNCHANGED <<clock, counter, blocked, call, hits, passes>>
    BY <1>1 DEF limitVars
  <2>. QED  BY <2>1 DEF LimitInv, LimitTypeOK, WindowInv, History, Starts, Since, CallInv, Key,
                       BlockInv
<1>2. CASE LimitNext
  BY <1>2, LocalSteps, IncrStep, BlockStep, LimitTickStep DEF LimitNext
<1>. QED  BY <1>1, <1>2

(***************************************************************************)
(* A request is refused only if more than the limit were counted in less   *)
(* than two windows, or within a window and the call to PTTL               *)
(* (blockUntilWindowReset, the Lua script): for every limit, window and    *)
(* duration of a call to Redis, any chain of limits and any number of      *)
(* processes.                                                              *)
(***************************************************************************)
THEOREM RefusalsAreEarned == LimitSpec => []RefusedForCause
<1>1. LimitInv => RefusedForCause
  <2>. SUFFICES ASSUME LimitInv, NEW p \in Procs, NEW k \in RateKeys
                PROVE  /\ IsBlocked(p, k) => Since(hits[k], clock - 2 * Window + 2) > Limit[k]
                       /\ call[p].state = "pttl" /\ Key(p) = k =>
                            Since(hits[k], clock - Window - RedisTime + 1) > Limit[k]
    BY DEF RefusedForCause
  <2>1. /\ clock \in Ticks /\ clock \in Nat /\ clock <= MaxTicks /\ blocked[p][k] \in Nat
        /\ call[p].asked \in Nat /\ MaxTicks \in Nat /\ Window \in Nat /\ Window > 0
        /\ RedisTime \in Nat /\ Limit[k] \in Nat /\ blocked \in [Procs -> [RateKeys -> Ends]]
    BY LimitParts, LimitConstants DEF LimitInv, Ticks
  <2>2. History(hits[k], clock)
    BY DEF LimitInv, WindowInv
  <2>3. hits[k][clock] \in Nat
    BY <2>1, <2>2 DEF History
  <2>4. ASSUME NEW f \in Int, NEW g \in Int, f <= g, g <= MaxTicks + 1, Since(hits[k], g) > Limit[k]
        PROVE  Since(hits[k], f) > Limit[k]
    <3>1. f <= MaxTicks + 1
      BY <2>1, <2>4
    <3>2. /\ Before(hits[k], f) <= Before(hits[k], g)
          /\ Before(hits[k], f) \in Nat /\ Before(hits[k], g) \in Nat
      BY <2>1, <2>2, <2>4, <3>1, BeforeGrows
    <3>3. hits[k][clock] - Before(hits[k], g) > Limit[k]
      BY <2>4 DEF Since, Before
    <3>4. hits[k][clock] - Before(hits[k], f) > Limit[k]
      BY <2>1, <2>3, <3>2, <3>3
    <3>. QED  BY <3>4 DEF Since, Before
  <2>5. ASSUME IsBlocked(p, k)
        PROVE  Since(hits[k], clock - 2 * Window + 2) > Limit[k]
    <3>1. blocked[p][k] > clock /\ blocked[p][k] <= MaxTicks + Window
      BY <2>1, <2>5 DEF IsBlocked, Ends
    <3>2. Since(hits[k], blocked[p][k] - 2 * Window + 1) > Limit[k]
      BY <3>1 DEF LimitInv, BlockInv
    <3>3. /\ clock - 2 * Window + 2 \in Int /\ blocked[p][k] - 2 * Window + 1 \in Int
          /\ clock - 2 * Window + 2 <= blocked[p][k] - 2 * Window + 1
          /\ blocked[p][k] - 2 * Window + 1 <= MaxTicks + 1
      BY <2>1, <3>1
    <3>. QED  BY <2>4, <3>2, <3>3
  <2>6. ASSUME call[p].state = "pttl", Key(p) = k
        PROVE  Since(hits[k], clock - Window - RedisTime + 1) > Limit[k]
    <3>1. /\ Since(hits[k], call[p].asked - Window + 1) > Limit[k]
          /\ clock <= call[p].asked + RedisTime /\ call[p].asked <= clock
      BY <2>6 DEF LimitInv, CallInv
    <3>2. /\ clock - Window - RedisTime + 1 \in Int /\ call[p].asked - Window + 1 \in Int
          /\ clock - Window - RedisTime + 1 <= call[p].asked - Window + 1
          /\ call[p].asked - Window + 1 <= MaxTicks + 1
      BY <2>1, <3>1
    <3>. QED  BY <2>4, <3>1, <3>2
  <2>. QED  BY <2>5, <2>6
<1>. QED  BY <1>1, LimitBegins, LimitStep, PTL DEF LimitSpec

(***************************************************************************)
(* Between two instants that are one window apart at most twice the limit  *)
(* is let through (incrWithTTL): an interval of that length meets the      *)
(* window that runs and one other, and each lets through the limit.        *)
(***************************************************************************)
THEOREM NeverMoreThanTwice == LimitSpec => []TwiceTheLimit
<1>1. LimitInv => TwiceTheLimit
  <2>. SUFFICES ASSUME LimitInv, NEW k \in RateKeys
                PROVE  Since(passes[k], clock - Window + 1) <= 2 * Limit[k]
    BY DEF TwiceTheLimit
  <2>1. /\ clock \in Ticks /\ clock \in Nat /\ clock <= MaxTicks /\ counter[k].ends \in Nat
        /\ MaxTicks \in Nat /\ Window \in Nat /\ Window > 0 /\ Limit[k] \in Nat
    BY LimitParts, LimitConstants DEF LimitInv, Ticks
  <2>. DEFINE s == Starts(k)
              f == clock - Window + 1
  <2>2. /\ History(passes[k], clock) /\ s <= clock
        /\ Since(passes[k], s) <= Limit[k]
        /\ Before(passes[k], s) - Before(passes[k], s - Window) <= Limit[k]
    BY DEF LimitInv, WindowInv
  <2>3. passes[k][clock] \in Nat
    BY <2>1, <2>2 DEF History
  <2>4. s \in Int /\ f \in Int /\ s - Window \in Int /\ s - Window <= f /\ f <= MaxTicks + 1
        /\ s - Window <= MaxTicks + 1 /\ s <= MaxTicks + 1
    BY <2>1, <2>2 DEF Starts
  <2>5. /\ Before(passes[k], s - Window) <= Before(passes[k], f)
        /\ Before(passes[k], f) \in Nat /\ Before(passes[k], s - Window) \in Nat
        /\ Before(passes[k], s) \in Nat
    <3>. HIDE DEF s, f
    <3>. QED  BY <2>1, <2>2, <2>4, BeforeGrows
  <2>6. passes[k][clock] - Before(passes[k], s) <= Limit[k]
    BY <2>2 DEF Since, Before
  <2>7. passes[k][clock] - Before(passes[k], f) <= 2 * Limit[k]
    <3>. HIDE DEF s, f
    <3>. QED  BY <2>1, <2>2, <2>3, <2>5, <2>6
  <2>. QED  BY <2>7 DEF Since, Before
<1>. QED  BY <1>1, LimitBegins, LimitStep, PTL DEF LimitSpec

------------------------------------------------------------------------------
(* In-process caches that count their entries (SizedCache).                *)

CacheCallType ==
  [pc : {"idle", "put", "overwrite", "drop", "count", "sweep", "sweepDrop", "measure", "evict",
         "evictDrop"},
   key : Tokens \cup {"none"}, owed : -1..1, over : Nat]

\* Only a call that is about to count owes the counter something; whatever is
\* put or dropped is a token; what is evicted is too much.
OwedInv(c) ==
  /\ ops[c].owed # 0 => ops[c].pc = "count"
  /\ ops[c].pc \in {"put", "overwrite", "drop", "sweepDrop", "evictDrop"} => ops[c].key \in Tokens
  /\ ops[c].pc = "evictDrop" => ops[c].over > 0

CacheInv == CacheTypeOK /\ (\A c \in Calls : OwedInv(c)) /\ NoPhantomEntries

\* One element comes or goes: the cardinality follows.
LEMMA OneElement ==
  ASSUME NEW S, IsFiniteSet(S), NEW x, NEW T, T \ {x} = S \ {x}
  PROVE  /\ IsFiniteSet(T) /\ Cardinality(S) \in Nat /\ Cardinality(T) \in Nat
         /\ Cardinality(T) = Cardinality(S) + (IF x \in T THEN 1 ELSE 0) - (IF x \in S THEN 1 ELSE 0)
<1>. DEFINE R == S \ {x}
<1>1. IsFiniteSet(R) /\ x \notin R /\ Cardinality(S) \in Nat
      /\ Cardinality(R) = IF x \in S THEN Cardinality(S) - 1 ELSE Cardinality(S)
  BY FS_RemoveElement, FS_CardinalityType
<1>2. IsFiniteSet(R \cup {x}) /\ Cardinality(R \cup {x}) = Cardinality(R) + 1
      /\ Cardinality(R) \in Nat /\ Cardinality(R \cup {x}) \in Nat
  BY <1>1, FS_AddElement, FS_CardinalityType
<1>3. T = IF x \in T THEN R \cup {x} ELSE R
  OBVIOUS
<1>. HIDE DEF R
<1>4. IsFiniteSet(T) /\ Cardinality(T) = IF x \in T THEN Cardinality(R) + 1 ELSE Cardinality(R)
  <2>1. CASE x \in T
    BY <1>2, <1>3, <2>1
  <2>2. CASE x \notin T
    BY <1>1, <1>3, <2>2
  <2>. QED  BY <2>1, <2>2
<1>5. Cardinality(T) \in Nat
  BY <1>2, <1>4
<1>. QED  BY <1>1, <1>2, <1>4, <1>5

\* What the calls owe when one of them goes on.
LEMMA OwingChange ==
  ASSUME CacheTypeOK, NEW c \in Calls, NEW u \in CacheCallType, ops' = [ops EXCEPT ![c] = u]
  PROVE  /\ Cardinality(Owing(1)) \in Int /\ Cardinality(Owing(-1)) \in Int
         /\ Cardinality(Owing(1)') \in Int /\ Cardinality(Owing(-1)') \in Int
         /\ Cardinality(Owing(1)') - Cardinality(Owing(-1)')
              = Cardinality(Owing(1)) - Cardinality(Owing(-1)) + u.owed - ops[c].owed
<1>1. ops \in [Calls -> CacheCallType] /\ ops[c].owed \in -1..1 /\ u.owed \in -1..1
  BY DEF CacheTypeOK, CacheCallType
<1>2. \A d \in {1, -1} : IsFiniteSet(Owing(d))
  BY CacheAssumption, FS_Subset DEF Owing
<1>3. ASSUME NEW d \in {1, -1}
      PROVE  /\ Owing(d)' \ {c} = Owing(d) \ {c}
             /\ c \in Owing(d)' <=> u.owed = d
             /\ c \in Owing(d) <=> ops[c].owed = d
  BY <1>1 DEF Owing
<1>4. \A d \in {1, -1} :
        /\ Cardinality(Owing(d)) \in Nat /\ Cardinality(Owing(d)') \in Nat
        /\ Cardinality(Owing(d)') = Cardinality(Owing(d)) + (IF u.owed = d THEN 1 ELSE 0)
                                      - (IF ops[c].owed = d THEN 1 ELSE 0)
  BY <1>2, <1>3, OneElement
<1>5. /\ Cardinality(Owing(1)') = Cardinality(Owing(1)) + (IF u.owed = 1 THEN 1 ELSE 0)
                                    - (IF ops[c].owed = 1 THEN 1 ELSE 0)
      /\ Cardinality(Owing(-1)') = Cardinality(Owing(-1)) + (IF u.owed = -1 THEN 1 ELSE 0)
                                     - (IF ops[c].owed = -1 THEN 1 ELSE 0)
      /\ Cardinality(Owing(1)) \in Nat /\ Cardinality(Owing(1)') \in Nat
      /\ Cardinality(Owing(-1)) \in Nat /\ Cardinality(Owing(-1)') \in Nat
  BY <1>4
<1>. QED  BY <1>1, <1>5

\* How many entries there are when one is put or dropped.
LEMMA PresentChange ==
  ASSUME CacheTypeOK, NEW k \in Tokens, NEW e \in {"none", "fresh", "stale"},
         entry' = [entry EXCEPT ![k] = e]
  PROVE  /\ entry' \in [Tokens -> {"none", "fresh", "stale"}]
         /\ Cardinality(Present) \in Int /\ Cardinality(Present') \in Int
         /\ Cardinality(Present') = Cardinality(Present) + (IF e # "none" THEN 1 ELSE 0)
                                      - (IF entry[k] # "none" THEN 1 ELSE 0)
<1>1. entry \in [Tokens -> {"none", "fresh", "stale"}]
  BY DEF CacheTypeOK
<1>2. IsFiniteSet(Present)
  BY CacheAssumption, FS_Subset DEF Present
<1>3. /\ Present' \ {k} = Present \ {k}
      /\ k \in Present' <=> e # "none"
      /\ k \in Present <=> entry[k] # "none"
  BY <1>1 DEF Present
<1>. QED  BY <1>1, <1>2, <1>3, OneElement

LEMMA PresentIsFinite == IsFiniteSet(Present) /\ Cardinality(Present) \in Int
BY CacheAssumption, FS_Subset, FS_CardinalityType DEF Present

\* A step of one call keeps the balance.
LEMMA BalanceStep ==
  ASSUME CacheInv, NEW c \in Calls, NEW u \in CacheCallType, ops' = [ops EXCEPT ![c] = u],
         UNCHANGED <<style, ages>>,
         u.owed # 0 => u.pc = "count",
         u.pc \in {"put", "overwrite", "drop", "sweepDrop", "evictDrop"} => u.key \in Tokens,
         u.pc = "evictDrop" => u.over > 0,
         entry' \in [Tokens -> {"none", "fresh", "stale"}],
         size' \in Int, swept' \in Int, swept' <= 0,
         Cardinality(Present') \in Int,
         size' + swept' + u.owed - Cardinality(Present')
           <= size + swept + ops[c].owed - Cardinality(Present)
  PROVE  CacheInv'
<1>1. /\ CacheTypeOK /\ ops \in [Calls -> CacheCallType] /\ size \in Int /\ swept \in Int
      /\ ops[c].owed \in Int /\ u.owed \in Int /\ Cardinality(Present) \in Int
  BY PresentIsFinite DEF CacheInv, CacheTypeOK, CacheCallType
<1>2. CacheTypeOK'
  BY <1>1 DEF CacheTypeOK, CacheCallType
<1>3. ASSUME NEW d \in Calls  PROVE OwedInv(d)'
  <2>1. CASE d = c
    <3>1. ops'[d] = u
      BY <1>1, <2>1
    <3>. QED  BY <3>1 DEF OwedInv
  <2>2. CASE d # c
    <3>1. ops'[d] = ops[d]
      BY <1>1, <2>2
    <3>. QED  BY <3>1 DEF CacheInv, OwedInv
  <2>. QED  BY <2>1, <2>2
<1>4. NoPhantomEntries'
  <2>1. /\ Cardinality(Owing(1)) \in Int /\ Cardinality(Owing(-1)) \in Int
        /\ Cardinality(Owing(1)') \in Int /\ Cardinality(Owing(-1)') \in Int
        /\ Cardinality(Owing(1)') - Cardinality(Owing(-1)')
             = Cardinality(Owing(1)) - Cardinality(Owing(-1)) + u.owed - ops[c].owed
    BY <1>1, OwingChange
  <2>2. size + Cardinality(Owing(1)) - Cardinality(Owing(-1)) + swept <= Cardinality(Present)
    BY DEF CacheInv, NoPhantomEntries
  <2>3. size' + Cardinality(Owing(1)') - Cardinality(Owing(-1)') + swept' <= Cardinality(Present')
    BY <1>1, <2>1, <2>2
  <2>. QED  BY <2>3 DEF NoPhantomEntries
<1>. QED  BY <1>2, <1>3, <1>4 DEF CacheInv

LEMMA CacheParts ==
  ASSUME CacheInv, NEW c \in Calls
  PROVE  /\ CacheTypeOK /\ ops \in [Calls -> CacheCallType] /\ ops[c] \in CacheCallType
         /\ ops[c].owed \in -1..1 /\ ops[c].over \in Nat /\ OwedInv(c)
         /\ size \in Int /\ swept \in Int /\ swept <= 0
         /\ entry \in [Tokens -> {"none", "fresh", "stale"}]
         /\ Idle \in CacheCallType /\ Idle.pc = "idle" /\ Idle.owed = 0
<1>1. CacheTypeOK /\ OwedInv(c) /\ ops \in [Calls -> CacheCallType]
  BY DEF CacheInv, CacheTypeOK, CacheCallType
<1>2. Idle \in CacheCallType /\ Idle.pc = "idle" /\ Idle.owed = 0
  BY DEF Idle, CacheCallType
<1>. QED  BY <1>1, <1>2 DEF CacheTypeOK, CacheCallType

\* A call goes on without touching the map or the counter.
LEMMA ToStep ==
  ASSUME CacheInv, NEW c \in Calls, NEW k \in Tokens \cup {"none"},
         NEW pc \in {"put", "overwrite", "drop", "sweep", "sweepDrop", "evictDrop"}, To(c, pc, k),
         UNCHANGED <<style, entry, size, swept, ages>>, ops[c].owed = 0,
         pc # "sweep" => k \in Tokens, pc = "evictDrop" => ops[c].over > 0
  PROVE  CacheInv'
<1>. DEFINE u == [ops[c] EXCEPT !.pc = pc, !.key = k]
<1>1. /\ u \in CacheCallType /\ u.pc = pc /\ u.key = k /\ u.owed = ops[c].owed
      /\ u.over = ops[c].over
  BY CacheParts DEF CacheCallType
<1>2. ops' = [ops EXCEPT ![c] = u]
  BY DEF To
<1>3. Present' = Present /\ Cardinality(Present) \in Int
  BY PresentIsFinite DEF Present
<1>. HIDE DEF u
<1>4. /\ entry' \in [Tokens -> {"none", "fresh", "stale"}] /\ size' \in Int /\ swept' \in Int
      /\ swept' <= 0 /\ size' = size /\ swept' = swept
  BY CacheParts
<1>5. size' + swept' + u.owed - Cardinality(Present')
        <= size + swept + ops[c].owed - Cardinality(Present)
  BY <1>1, <1>3, <1>4
<1>. QED  BY <1>1, <1>2, <1>3, <1>4, <1>5, BalanceStep

\* A call puts or drops an entry and owes the counter no more than that.
LEMMA OweStep ==
  ASSUME CacheInv, NEW c \in Calls, NEW d \in -1..1, Owe(c, d), ops[c].owed = 0,
         NEW k \in Tokens, NEW e \in {"none", "fresh"}, entry' = [entry EXCEPT ![k] = e],
         UNCHANGED <<style, size, swept, ages>>,
         d <= (IF e # "none" THEN 1 ELSE 0) - (IF entry[k] # "none" THEN 1 ELSE 0)
  PROVE  CacheInv'
<1>. DEFINE u == [Idle EXCEPT !.pc = "count", !.owed = d]
<1>1. u \in CacheCallType /\ u.pc = "count" /\ u.owed = d
  BY CacheParts DEF CacheCallType, Idle
<1>2. ops' = [ops EXCEPT ![c] = u]
  BY DEF Owe
<1>3. /\ entry' \in [Tokens -> {"none", "fresh", "stale"}]
      /\ Cardinality(Present) \in Int /\ Cardinality(Present') \in Int
      /\ Cardinality(Present') = Cardinality(Present) + (IF e # "none" THEN 1 ELSE 0)
                                   - (IF entry[k] # "none" THEN 1 ELSE 0)
  BY CacheParts, PresentChange
<1>4. size' \in Int /\ swept' \in Int /\ swept' <= 0 /\ size' = size /\ swept' = swept
  BY CacheParts
<1>. HIDE DEF u
<1>5. size' + swept' + u.owed - Cardinality(Present')
        <= size + swept + ops[c].owed - Cardinality(Present)
  BY <1>1, <1>3, <1>4
<1>. QED  BY <1>1, <1>2, <1>3, <1>4, <1>5, BalanceStep

LEMMA CallSteps ==
  ASSUME CacheInv, NEW c \in Calls,
         LookUp(c) \/ Drop(c) \/ StartPut(c) \/ LoadOrStore(c) \/ Overwrite(c)
  PROVE  CacheInv'
<1>1. /\ ops[c].owed # 0 => ops[c].pc = "count"
      /\ ops[c].pc \in {"put", "overwrite", "drop"} => ops[c].key \in Tokens
      /\ ops[c].owed \in -1..1 /\ entry \in [Tokens -> {"none", "fresh", "stale"}]
  BY CacheParts DEF OwedInv
<1>2. CASE LookUp(c)
  BY <1>1, <1>2, ToStep DEF LookUp
<1>3. CASE StartPut(c)
  BY <1>1, <1>3, ToStep DEF StartPut
<1>4. CASE Drop(c)
  <2>. DEFINE d == DropOwes(entry[ops[c].key] # "none")
  <2>1. /\ ops[c].pc = "drop" /\ ops[c].key \in Tokens /\ ops[c].owed = 0
        /\ entry' = [entry EXCEPT ![ops[c].key] = "none"] /\ Owe(c, d)
        /\ UNCHANGED <<style, size, swept, ages>>
    BY <1>1, <1>4 DEF Drop
  <2>2. d \in -1..1 /\ d <= 0 - (IF entry[ops[c].key] # "none" THEN 1 ELSE 0)
    BY DEF DropOwes
  <2>. HIDE DEF d
  <2>. QED  BY <2>1, <2>2, OweStep
<1>5. CASE LoadOrStore(c)
  <2>1. ops[c].pc = "put" /\ ops[c].key \in Tokens /\ ops[c].owed = 0
        /\ UNCHANGED <<style, size, swept, ages>>
    BY <1>1, <1>5 DEF LoadOrStore
  <2>2. CASE entry[ops[c].key] = "none"
    <3>1. entry' = [entry EXCEPT ![ops[c].key] = "fresh"] /\ Owe(c, 1)
      BY <1>5, <2>2 DEF LoadOrStore
    <3>2. 1 \in -1..1 /\ 1 <= (IF "fresh" # "none" THEN 1 ELSE 0)
                               - (IF entry[ops[c].key] # "none" THEN 1 ELSE 0)
      BY <2>2
    <3>. QED  BY <2>1, <3>1, <3>2, OweStep
  <2>3. CASE entry[ops[c].key] # "none"
    <3>1. To(c, "overwrite", ops[c].key) /\ UNCHANGED entry
      BY <1>5, <2>3 DEF LoadOrStore
    <3>. QED  BY <2>1, <3>1, ToStep
  <2>. QED  BY <2>2, <2>3
<1>6. CASE Overwrite(c)
  <2>1. /\ ops[c].key \in Tokens /\ ops[c].owed = 0
        /\ entry' = [entry EXCEPT ![ops[c].key] = "fresh"] /\ Owe(c, 0)
        /\ UNCHANGED <<style, size, swept, ages>>
    BY <1>1, <1>6 DEF Overwrite
  <2>2. 0 \in -1..1 /\ 0 <= (IF "fresh" # "none" THEN 1 ELSE 0)
                             - (IF entry[ops[c].key] # "none" THEN 1 ELSE 0)
    OBVIOUS
  <2>. QED  BY <2>1, <2>2, OweStep
<1>. QED  BY <1>2, <1>3, <1>4, <1>5, <1>6

\* What is owed is counted.
LEMMA CountStep ==
  ASSUME CacheInv, NEW c \in Calls, Count(c)  PROVE CacheInv'
<1>1. /\ ops' = [ops EXCEPT ![c] = Idle] /\ size' = size + ops[c].owed
      /\ UNCHANGED <<style, entry, swept, ages>>
  BY DEF Count
<1>2. /\ Idle \in CacheCallType /\ Idle.pc = "idle" /\ Idle.owed = 0 /\ ops[c].owed \in -1..1
      /\ size \in Int /\ swept \in Int /\ swept <= 0
      /\ entry \in [Tokens -> {"none", "fresh", "stale"}]
  BY CacheParts
<1>3. Present' = Present /\ Cardinality(Present) \in Int
  BY <1>1, PresentIsFinite DEF Present
<1>4. size' \in Int /\ size' + swept' + Idle.owed - Cardinality(Present')
                         <= size + swept + ops[c].owed - Cardinality(Present)
  BY <1>1, <1>2, <1>3
<1>. QED  BY <1>1, <1>2, <1>3, <1>4, BalanceStep

LEMMA SweepSteps ==
  ASSUME CacheInv, NEW c \in Calls,
         StartSweep(c) \/ SweepSees(c) \/ SweepDrops(c) \/ RangeEnds(c) \/ Measure(c)
  PROVE  CacheInv'
<1>1. /\ ops[c] \in CacheCallType
      /\ ops[c].owed # 0 => ops[c].pc = "count"
      /\ ops[c].pc \in {"sweepDrop", "evictDrop"} => ops[c].key \in Tokens
      /\ ops[c].pc = "evictDrop" => ops[c].over > 0
      /\ ops[c].owed \in -1..1 /\ ops[c].over \in Nat
      /\ entry \in [Tokens -> {"none", "fresh", "stale"}]
      /\ size \in Int /\ swept \in Int /\ swept <= 0 /\ CacheTypeOK
      /\ Idle \in CacheCallType /\ Idle.pc = "idle" /\ Idle.owed = 0
  BY CacheParts DEF OwedInv
<1>2. IsFiniteSet(Present) /\ Cardinality(Present) \in Int /\ MaxEntries \in Nat
  BY PresentIsFinite, CacheAssumption
<1>3. CASE StartSweep(c)
  BY <1>1, <1>3, ToStep DEF StartSweep
<1>4. CASE SweepSees(c)
  <2>1. PICK k \in Present :
          \/ ops[c].pc = "sweep" /\ entry[k] = "stale" /\ To(c, "sweepDrop", k)
          \/ ops[c].pc = "evict" /\ ops[c].over > 0 /\ To(c, "evictDrop", k)
    BY <1>4 DEF SweepSees
  <2>2. k \in Tokens /\ ops[c].owed = 0 /\ UNCHANGED <<style, entry, size, swept, ages>>
    BY <1>1, <1>4, <2>1 DEF Present, SweepSees
  <2>. QED  BY <2>1, <2>2, ToStep
<1>5. CASE SweepDrops(c)
  <2>. DEFINE u == [ops[c] EXCEPT !.pc = IF @ = "sweepDrop" THEN "sweep" ELSE "evict",
                                  !.over = IF ops[c].pc = "evictDrop" THEN @ - 1 ELSE @]
              k == ops[c].key
  <2>1. /\ ops[c].pc \in {"sweepDrop", "evictDrop"} /\ k \in Tokens /\ ops[c].owed = 0
        /\ entry' = [entry EXCEPT ![k] = "none"] /\ swept' = swept - 1
        /\ ops' = [ops EXCEPT ![c] = u] /\ UNCHANGED <<style, size, ages>>
    BY <1>1, <1>5 DEF SweepDrops
  <2>2. (IF ops[c].pc = "evictDrop" THEN ops[c].over - 1 ELSE ops[c].over) \in Nat
    BY <1>1
  <2>3. u \in CacheCallType /\ u.pc \in {"sweep", "evict"} /\ u.owed = 0
    BY <1>1, <2>1, <2>2 DEF CacheCallType
  <2>4. /\ entry' \in [Tokens -> {"none", "fresh", "stale"}] /\ Cardinality(Present') \in Int
        /\ Cardinality(Present') = Cardinality(Present) + (IF "none" # "none" THEN 1 ELSE 0)
                                     - (IF entry[k] # "none" THEN 1 ELSE 0)
    <3>. HIDE DEF k, u
    <3>. QED  BY <1>1, <2>1, PresentChange
  <2>. HIDE DEF u, k
  <2>5. size' \in Int /\ swept' \in Int /\ swept' <= 0
        /\ size' + swept' + u.owed - Cardinality(Present')
             <= size + swept + ops[c].owed - Cardinality(Present)
    BY <1>1, <1>2, <2>1, <2>3, <2>4
  <2>. QED  BY <2>1, <2>3, <2>4, <2>5, BalanceStep
<1>6. CASE RangeEnds(c)
  <2>. DEFINE u == IF ops[c].pc = "sweep" THEN [Idle EXCEPT !.pc = "measure"] ELSE Idle
  <2>1. /\ ops' = [ops EXCEPT ![c] = u] /\ size' = size + swept /\ swept' = 0
        /\ ops[c].owed = 0 /\ UNCHANGED <<style, entry, ages>>
    BY <1>1, <1>6 DEF RangeEnds
  <2>2. u \in CacheCallType /\ u.pc \in {"measure", "idle"} /\ u.owed = 0
    BY <1>1 DEF CacheCallType, Idle
  <2>3. Present' = Present
    BY <2>1 DEF Present
  <2>. HIDE DEF u
  <2>4. /\ size' \in Int /\ swept' \in Int /\ swept' <= 0 /\ Cardinality(Present') \in Int
        /\ entry' \in [Tokens -> {"none", "fresh", "stale"}]
        /\ size' + swept' + u.owed - Cardinality(Present')
             <= size + swept + ops[c].owed - Cardinality(Present)
    BY <1>1, <1>2, <2>1, <2>2, <2>3
  <2>. QED  BY <2>1, <2>2, <2>4, BalanceStep
<1>7. CASE Measure(c)
  <2>. DEFINE u == IF size > MaxEntries
                   THEN [Idle EXCEPT !.pc = "evict", !.over = size - MaxEntries] ELSE Idle
  <2>1. /\ ops' = [ops EXCEPT ![c] = u] /\ ops[c].owed = 0
        /\ UNCHANGED <<style, entry, size, swept, ages>>
    BY <1>1, <1>7 DEF Measure
  <2>2. u \in CacheCallType /\ u.pc \in {"evict", "idle"} /\ u.owed = 0
    <3>1. size > MaxEntries => size - MaxEntries \in Nat
      BY <1>1, <1>2
    <3>. QED  BY <1>1, <3>1 DEF CacheCallType, Idle
  <2>3. Present' = Present
    BY <2>1 DEF Present
  <2>. HIDE DEF u
  <2>4. /\ size' \in Int /\ swept' \in Int /\ swept' <= 0 /\ Cardinality(Present') \in Int
        /\ entry' \in [Tokens -> {"none", "fresh", "stale"}]
        /\ size' + swept' + u.owed - Cardinality(Present')
             <= size + swept + ops[c].owed - Cardinality(Present)
    BY <1>1, <1>2, <2>1, <2>2, <2>3
  <2>. QED  BY <2>1, <2>2, <2>4, BalanceStep
<1>. QED  BY <1>3, <1>4, <1>5, <1>6, <1>7

LEMMA AgeStep ==
  ASSUME CacheInv, NEW k \in Tokens, GoStale(k)  PROVE CacheInv'
<1>1. /\ entry \in [Tokens -> {"none", "fresh", "stale"}] /\ MaxAges \in Nat /\ ages \in 0..MaxAges
  BY CacheAssumption DEF CacheInv, CacheTypeOK
<1>2. entry' \in [Tokens -> {"none", "fresh", "stale"}] /\ ages' \in 0..MaxAges
  BY <1>1 DEF GoStale
<1>3. Present' = Present
  BY <1>1 DEF GoStale, Present
<1>4. UNCHANGED <<style, size, ops, swept>>
  BY DEF GoStale
<1>. QED  BY <1>2, <1>3, <1>4 DEF CacheInv, CacheTypeOK, OwedInv, NoPhantomEntries, Owing

LEMMA CacheBegins == CacheInit => CacheInv
<1>. SUFFICES ASSUME CacheInit  PROVE CacheInv
  OBVIOUS
<1>1. CacheTypeOK
  BY CacheAssumption DEF CacheInit, CacheTypeOK, Idle
<1>2. \A c \in Calls : OwedInv(c)
  BY DEF CacheInit, OwedInv, Idle
<1>3. Owing(1) = {} /\ Owing(-1) = {} /\ Present = {} /\ size = 0 /\ swept = 0
  BY DEF CacheInit, Owing, Present, Idle
<1>4. NoPhantomEntries
  BY <1>3, FS_EmptySet DEF NoPhantomEntries
<1>. QED  BY <1>1, <1>2, <1>4 DEF CacheInv

LEMMA CacheMoves == CacheInv /\ [CacheNext]_cacheVars => CacheInv'
<1>. SUFFICES ASSUME CacheInv, [CacheNext]_cacheVars  PROVE CacheInv'
  OBVIOUS
<1>1. CASE UNCHANGED cacheVars
  BY <1>1 DEF cacheVars, CacheInv, CacheTypeOK, OwedInv, NoPhantomEntries, Owing, Present
<1>2. ASSUME NEW c \in Calls, CacheStep(c)  PROVE CacheInv'
  BY <1>2, CallSteps, CountStep, SweepSteps DEF CacheStep
<1>. QED  BY <1>1, <1>2, AgeStep DEF CacheNext

(***************************************************************************)
(* The counter of a cache never says that there are more entries than      *)
(* there are, once what the calls in progress owe it is added              *)
(* (tokenCache, blockCache, ttlSet): for every number of keys and calls    *)
(* and every limit.                                                        *)
(***************************************************************************)
THEOREM CountersDoNotExceed == CacheSpec => []NoPhantomEntries
<1>1. CacheInv => NoPhantomEntries
  BY DEF CacheInv
<1>. QED  BY <1>1, CacheBegins, CacheMoves, PTL DEF CacheSpec

------------------------------------------------------------------------------
(* What RCPT answers (SmtpFront).                                           *)

Exists(a) == ExistsAt(born[a], now)

\* The two histories tell the truth, and an account existed as long as it lived.
PastInv(a) ==
  /\ absentAt[a] <= now /\ existedAt[a] <= now
  /\ born[a] # None => born[a] <= now
  /\ IF Exists(a) THEN existedAt[a] = now ELSE absentAt[a] = now
  /\ born[a] # None => existedAt[a] = now \/ born[a] + AccountTTL <= existedAt[a]

\* The key of a new account is written within CallTime of the insert.
CreateInv(a) ==
  creating[a] # None => creating[a] <= existedAt[a] /\ now <= creating[a] + CallTime

\* What a query has read was so at some moment since it was asked; an account
\* that it has read may expire or be deleted meanwhile.
FlightInv(a) ==
  /\ flight[a].state # "none" => flight[a].since <= now /\ now <= flight[a].since + QueryTime
  /\ flight[a].state = "read" =>
       IF flight[a].seen = None THEN flight[a].since <= absentAt[a]
       ELSE /\ flight[a].seen <= now
            /\ \/ flight[a].since <= existedAt[a]
               \/ flight[a].seen + AccountTTL <= existedAt[a]
            /\ flight[a].since <= absentAt[a] \/ born[a] = flight[a].seen

KeyInv(a) ==
  keyUntil[a] > 0 =>
    /\ existedAt[a] >= 0
    /\ keyUntil[a] <= existedAt[a] + AccountTTL + QueryTime + WaitTime + CallTime

NegativeInv(a) ==
  negUntil[a] > 0 => negUntil[a] <= absentAt[a] + QueryTime + NegTTL

\* An answer is not older than its query, and neither is the writing of a key
\* than the wait and the query before it.
RcptInv(s) ==
  LET r == rcpt[s]
  IN  /\ r.state = "idle" => r.answer.kind = "none"
      /\ r.state # "idle" => r.addr \in Addrs /\ r.since <= now
      /\ r.state = "wait" =>
           /\ now <= r.since + WaitTime
           /\ r.answer.kind = "exists" =>
                existedAt[r.addr] >= 0 /\ r.since <= existedAt[r.addr] + QueryTime
           /\ r.answer.kind = "absent" => r.since <= absentAt[r.addr] + QueryTime
      /\ r.state = "warm" =>
           /\ now <= r.since + CallTime
           /\ r.answer.kind = "exists"
           /\ existedAt[r.addr] >= 0
           /\ r.since <= existedAt[r.addr] + QueryTime + WaitTime

AddressInv ==
  \A a \in Addrs : PastInv(a) /\ CreateInv(a) /\ FlightInv(a) /\ KeyInv(a) /\ NegativeInv(a)

FrontInv == FrontTypeOK /\ AddressInv /\ \A s \in Sessions : RcptInv(s)

------------------------------------------------------------------------------
FlightType == [state : {"none", "asked", "read"}, since : Time, seen : Time \cup {None}]
RcptType == [state : {"idle", "wait", "warm"}, addr : Addrs \cup {None}, since : Time,
             answer : Answers]

\* The types of the parts, as the provers use them.
LEMMA FrontParts ==
  ASSUME FrontTypeOK
  PROVE  /\ now \in Nat
         /\ flight \in [Addrs -> FlightType] /\ rcpt \in [Sessions -> RcptType]
         /\ \A a \in Addrs :
              /\ born[a] # None => born[a] \in Nat
              /\ creating[a] # None => creating[a] \in Nat
              /\ keyUntil[a] \in Nat /\ negUntil[a] \in Nat
              /\ flight[a] \in FlightType /\ flight[a].since \in Nat
              /\ flight[a].state \in {"none", "asked", "read"}
              /\ flight[a].seen # None => flight[a].seen \in Nat
              /\ absentAt[a] \in Nat /\ existedAt[a] \in Int /\ existedAt[a] >= -1
         /\ \A s \in Sessions :
              /\ rcpt[s] \in RcptType /\ rcpt[s].since \in Nat
              /\ rcpt[s].state \in {"idle", "wait", "warm"}
              /\ rcpt[s].answer \in Answers
              /\ rcpt[s].answer.ttl \in Nat /\ rcpt[s].answer.ttl <= AccountTTL
         /\ AccountTTL \in Nat /\ AccountTTL > 0 /\ NegTTL \in Nat /\ QueryTime \in Nat
         /\ WaitTime \in Nat /\ CallTime \in Nat /\ MaxTime \in Nat /\ WaitTime < NegTTL
         /\ None \notin Nat
<1>. USE FrontAssumption DEF Time, Horizon
<1>1. now \in Nat /\ flight \in [Addrs -> FlightType] /\ rcpt \in [Sessions -> RcptType]
  BY DEF FrontTypeOK, FlightType, RcptType
<1>2. \A a \in Addrs :
        /\ born[a] # None => born[a] \in Nat
        /\ creating[a] # None => creating[a] \in Nat
        /\ keyUntil[a] \in Nat /\ negUntil[a] \in Nat
        /\ absentAt[a] \in Nat /\ existedAt[a] \in Int /\ existedAt[a] >= -1
  BY DEF FrontTypeOK
<1>3. \A a \in Addrs : /\ flight[a] \in FlightType /\ flight[a].since \in Nat
                       /\ flight[a].state \in {"none", "asked", "read"}
                       /\ flight[a].seen # None => flight[a].seen \in Nat
  BY <1>1 DEF FlightType
<1>4. \A s \in Sessions : /\ rcpt[s] \in RcptType /\ rcpt[s].since \in Nat
                          /\ rcpt[s].state \in {"idle", "wait", "warm"}
                          /\ rcpt[s].answer \in Answers
  BY <1>1 DEF RcptType
<1>5. \A x \in Answers : x.ttl \in Nat /\ x.ttl <= AccountTTL
  BY DEF Answers
<1>6. /\ AccountTTL \in Nat /\ AccountTTL > 0 /\ NegTTL \in Nat /\ QueryTime \in Nat
      /\ WaitTime \in Nat /\ CallTime \in Nat /\ MaxTime \in Nat /\ WaitTime < NegTTL
      /\ None \notin Nat
  OBVIOUS
<1>. QED  BY <1>1, <1>2, <1>3, <1>4, <1>5, <1>6

LEMMA FrontInitially == FrontInit => FrontInv
<1>. SUFFICES ASSUME FrontInit PROVE FrontInv
  OBVIOUS
<1>. USE FrontAssumption DEF FrontInit, Time, Horizon
<1>1. FrontTypeOK
  <2>1. NoFlight \in FlightType
    BY DEF NoFlight, FlightType
  <2>2. NoRcpt \in RcptType
    BY DEF NoRcpt, RcptType, NoAnswer, Answers
  <2>. QED  BY <2>1, <2>2 DEF FrontTypeOK, FlightType, RcptType
<1>2. AddressInv
  BY DEF AddressInv, PastInv, CreateInv, FlightInv, KeyInv, NegativeInv, Exists, ExistsAt,
         NoFlight
<1>3. \A s \in Sessions : RcptInv(s)
  BY DEF RcptInv, NoRcpt, NoAnswer
<1>. QED  BY <1>1, <1>2, <1>3 DEF FrontInv

------------------------------------------------------------------------------
\* The steps that end with Remember.
Remembering ==
  \/ \E a \in Addrs : InsertAccount(a) \/ EraseAccount(a) \/ ExpireAccount(a)
  \/ FrontTick

\* All others leave time, accounts and history alone.
LEMMA Others ==
  ASSUME [FrontNext]_frontVars, ~Remembering
  PROVE  UNCHANGED <<now, born, history>>
BY DEF FrontNext, Remembering, Service, Lookup, Rcpt, Answered, CacheNewAddress, ForgetAddress,
       LoseKey, QueryReads, FlightLands, RcptFromRedis, RcptTurnedAway, RcptLooksUp, Data,
       ResetSession, TakeRefusal, TakeAccount, WarmAddress, LookupTimesOut, frontVars, storeVars,
       lookupVars, sessionVars, history

\* What a step does to the accounts and to the history.
LEMMA PastStep ==
  ASSUME FrontInv, [FrontNext]_frontVars, NEW a \in Addrs
  PROVE  /\ PastInv(a)'
         /\ now <= now' /\ absentAt[a] <= absentAt'[a] /\ existedAt[a] <= existedAt'[a]
         /\ born'[a] = born[a] \/ born[a] = None \/ absentAt'[a] = now'
         /\ now' \in Nat /\ absentAt'[a] \in Nat /\ existedAt'[a] \in Int
<1>. USE FrontParts DEF FrontInv
<1>1. PastInv(a) /\ FrontTypeOK
  BY DEF AddressInv
<1>2. CASE ~Remembering
  <2>1. now' = now /\ born' = born /\ absentAt' = absentAt /\ existedAt' = existedAt
    BY <1>2, Others DEF history
  <2>. QED  BY <1>1, <2>1 DEF PastInv, Exists, ExistsAt
<1>3. CASE \E x \in Addrs : InsertAccount(x) \/ EraseAccount(x) \/ ExpireAccount(x)
  <2>1. /\ now' = now
        /\ absentAt'[a] = IF ExistsAt(born'[a], now) THEN absentAt[a] ELSE now
        /\ existedAt'[a] = IF ExistsAt(born'[a], now) THEN now ELSE existedAt[a]
    BY <1>3 DEF InsertAccount, EraseAccount, ExpireAccount, Remember
  <2>2. born'[a] = born[a] \/ (born[a] = None /\ born'[a] = now) \/ born'[a] = None
    BY <1>1, <1>3 DEF InsertAccount, EraseAccount, ExpireAccount, FrontTypeOK
  <2>. QED  BY <1>1, <2>1, <2>2 DEF PastInv, Exists, ExistsAt
<1>4. CASE FrontTick
  <2>1. /\ now' = now + 1 /\ born' = born
        /\ absentAt'[a] = IF ExistsAt(born[a], now + 1) THEN absentAt[a] ELSE now + 1
        /\ existedAt'[a] = IF ExistsAt(born[a], now + 1) THEN now + 1 ELSE existedAt[a]
    BY <1>4 DEF FrontTick, Remember
  <2>. QED  BY <1>1, <2>1 DEF PastInv, Exists, ExistsAt
<1>. QED  BY <1>2, <1>3, <1>4 DEF Remembering

\* Time passes only when no deadline is reached.
LEMMA TimeStep ==
  ASSUME FrontInv, [FrontNext]_frontVars
  PROVE  now' = now \/ (now' = now + 1 /\ NothingDue
                          /\ UNCHANGED <<born, storeVars, lookupVars, sessionVars>>)
<1>1. CASE FrontTick
  BY <1>1 DEF FrontTick, storeVars
<1>2. CASE \E a \in Addrs : InsertAccount(a) \/ EraseAccount(a) \/ ExpireAccount(a)
  BY <1>2 DEF InsertAccount, EraseAccount, ExpireAccount
<1>. QED  BY <1>1, <1>2, Others DEF Remembering

LEMMA NewAccountStep ==
  ASSUME FrontInv, [FrontNext]_frontVars, NEW a \in Addrs
  PROVE  CreateInv(a)'
<1>. USE FrontParts, PastStep DEF FrontInv
<1>1. CreateInv(a) /\ PastInv(a) /\ PastInv(a)' /\ FrontTypeOK
  BY DEF AddressInv
<1>2. creating' = creating \/ \E x \in Addrs : InsertAccount(x) \/ CacheNewAddress(x)
  BY DEF FrontNext, Service, Lookup, Rcpt, Answered, ForgetAddress, EraseAccount, ExpireAccount,
         LoseKey, QueryReads, FlightLands, RcptFromRedis, RcptTurnedAway, RcptLooksUp, Data,
         ResetSession, TakeRefusal, TakeAccount, WarmAddress, LookupTimesOut, FrontTick,
         frontVars, storeVars
<1>3. CASE creating' = creating
  BY <1>1, <1>3, TimeStep DEF CreateInv, NothingDue
<1>4. ASSUME NEW x \in Addrs, InsertAccount(x) PROVE CreateInv(a)'
  <2>1. now' = now /\ (creating'[a] = creating[a] \/ (a = x /\ creating'[a] = now))
    BY <1>1, <1>4 DEF InsertAccount, FrontTypeOK
  <2>2. a = x => existedAt'[a] = now
    BY <1>1, <1>4 DEF InsertAccount, Remember, ExistsAt, FrontTypeOK
  <2>. QED  BY <1>1, <2>1, <2>2 DEF CreateInv
<1>5. ASSUME NEW x \in Addrs, CacheNewAddress(x) PROVE CreateInv(a)'
  <2>1. now' = now /\ (creating'[a] = creating[a] \/ creating'[a] = None)
    BY <1>1, <1>5 DEF CacheNewAddress, FrontTypeOK
  <2>. QED  BY <1>1, <2>1 DEF CreateInv
<1>. QED  BY <1>2, <1>3, <1>4, <1>5

LEMMA FlightStep ==
  ASSUME FrontInv, [FrontNext]_frontVars, NEW a \in Addrs
  PROVE  FlightInv(a)'
<1>. USE FrontParts, PastStep DEF FrontInv
<1>1. FlightInv(a) /\ PastInv(a) /\ PastInv(a)' /\ FrontTypeOK
  BY DEF AddressInv
<1>2. \/ flight' = flight
      \/ \E x \in Addrs : QueryReads(x) \/ FlightLands(x) \/ \E s \in Sessions : RcptLooksUp(s, x)
  BY DEF FrontNext, Service, Lookup, Rcpt, Answered, InsertAccount, CacheNewAddress,
         ForgetAddress, EraseAccount, ExpireAccount, LoseKey, RcptFromRedis, RcptTurnedAway, Data,
         ResetSession, TakeRefusal, TakeAccount, WarmAddress, LookupTimesOut, FrontTick,
         frontVars, lookupVars
<1>3. CASE flight' = flight
  <2>1. flight[a].state # "none" =>
          flight[a].since <= now' /\ now' <= flight[a].since + QueryTime
    BY <1>1, TimeStep DEF FlightInv, NothingDue
  <2>2. flight[a].state # "none" /\ flight[a].since <= now
          /\ born'[a] # born[a] /\ born[a] # None => flight[a].since <= absentAt'[a]
    BY <1>1
  <2>. QED  BY <1>1, <1>3, <2>1, <2>2 DEF FlightInv
<1>4. ASSUME NEW x \in Addrs, QueryReads(x) PROVE FlightInv(a)'
  <2>1. now' = now /\ born' = born /\ absentAt' = absentAt /\ existedAt' = existedAt
    BY <1>4 DEF QueryReads, storeVars, history
  <2>2. CASE a = x
    <3>1. /\ flight[a].state = "asked" /\ flight'[a].state = "read"
          /\ flight'[a].since = flight[a].since /\ flight'[a].seen = born[a]
      BY <1>1, <1>4, <2>2 DEF QueryReads, FlightType
    <3>. QED  BY <1>1, <2>1, <3>1 DEF FlightInv, PastInv, Exists, ExistsAt
  <2>3. CASE a # x
    <3>1. flight'[a] = flight[a]
      BY <1>1, <1>4, <2>3 DEF QueryReads
    <3>. QED  BY <1>1, <2>1, <3>1 DEF FlightInv
  <2>. QED  BY <2>2, <2>3
<1>5. ASSUME NEW x \in Addrs, FlightLands(x) PROVE FlightInv(a)'
  <2>1. now' = now /\ born' = born /\ absentAt' = absentAt /\ existedAt' = existedAt
    BY <1>5 DEF FlightLands, storeVars, history
  <2>2. flight'[a] = flight[a] \/ flight'[a] = NoFlight
    BY <1>1, <1>5 DEF FlightLands
  <2>. QED  BY <1>1, <2>1, <2>2 DEF FlightInv, NoFlight
<1>6. ASSUME NEW x \in Addrs, NEW s \in Sessions, RcptLooksUp(s, x) PROVE FlightInv(a)'
  <2>1. now' = now /\ born' = born /\ absentAt' = absentAt /\ existedAt' = existedAt
    BY <1>6 DEF RcptLooksUp, storeVars, history
  <2>2. \/ flight'[a] = flight[a]
        \/ flight'[a] = [state |-> "asked", since |-> now, seen |-> None]
    BY <1>1, <1>6 DEF RcptLooksUp
  <2>. QED  BY <1>1, <2>1, <2>2 DEF FlightInv
<1>. QED  BY <1>2, <1>3, <1>4, <1>5, <1>6

LEMMA KeyStep ==
  ASSUME FrontInv, [FrontNext]_frontVars, NEW a \in Addrs
  PROVE  KeyInv(a)'
<1>. USE FrontParts, PastStep DEF FrontInv
<1>1. KeyInv(a) /\ CreateInv(a) /\ FrontTypeOK
  BY DEF AddressInv
<1>2. \/ keyUntil' = keyUntil
      \/ \E x \in Addrs : CacheNewAddress(x) \/ ForgetAddress(x) \/ LoseKey(x)
      \/ \E s \in Sessions : WarmAddress(s)
  BY DEF FrontNext, Service, Lookup, Rcpt, Answered, InsertAccount, EraseAccount, ExpireAccount,
         QueryReads, FlightLands, RcptFromRedis, RcptTurnedAway, RcptLooksUp, Data, ResetSession,
         TakeRefusal, TakeAccount, LookupTimesOut, FrontTick, frontVars, storeVars
<1>3. CASE keyUntil'[a] = keyUntil[a]
  BY <1>1, <1>3 DEF KeyInv
<1>4. ASSUME NEW x \in Addrs, CacheNewAddress(x) PROVE KeyInv(a)'
  <2>1. \/ keyUntil'[a] = keyUntil[a]
        \/ creating[a] # None /\ keyUntil'[a] = now + AccountTTL
    BY <1>1, <1>4 DEF CacheNewAddress, FrontTypeOK
  <2>. QED  BY <1>1, <1>3, <2>1 DEF KeyInv, CreateInv
<1>5. ASSUME NEW x \in Addrs, ForgetAddress(x) \/ LoseKey(x) PROVE KeyInv(a)'
  <2>1. keyUntil'[a] = keyUntil[a] \/ keyUntil'[a] = 0
    BY <1>1, <1>5 DEF ForgetAddress, LoseKey, FrontTypeOK
  <2>. QED  BY <1>1, <1>3, <2>1 DEF KeyInv
<1>6. ASSUME NEW s \in Sessions, WarmAddress(s) PROVE KeyInv(a)'
  <2>1. rcpt[s].state = "warm" /\ RcptInv(s)
    BY <1>6 DEF WarmAddress
  <2>2. \/ keyUntil'[a] = keyUntil[a]
        \/ a = rcpt[s].addr /\ keyUntil'[a] = now + KeyLife(rcpt[s].answer.ttl)
    BY <1>1, <1>6 DEF WarmAddress, FrontTypeOK
  <2>3. KeyLife(rcpt[s].answer.ttl) \in Nat /\ KeyLife(rcpt[s].answer.ttl) <= AccountTTL
    BY <1>1 DEF KeyLife
  <2>. QED  BY <1>1, <1>3, <2>1, <2>2, <2>3 DEF KeyInv, RcptInv
<1>. QED  BY <1>2, <1>3, <1>4, <1>5, <1>6

LEMMA NegativeStep ==
  ASSUME FrontInv, [FrontNext]_frontVars, NEW a \in Addrs
  PROVE  NegativeInv(a)'
<1>. USE FrontParts, PastStep DEF FrontInv
<1>1. NegativeInv(a) /\ FrontTypeOK
  BY DEF AddressInv
<1>2. negUntil' = negUntil \/ \E s \in Sessions : TakeRefusal(s)
  BY DEF FrontNext, Service, Lookup, Rcpt, Answered, InsertAccount, CacheNewAddress,
         ForgetAddress, EraseAccount, ExpireAccount, LoseKey, QueryReads, FlightLands,
         RcptFromRedis, RcptTurnedAway, RcptLooksUp, Data, ResetSession, TakeAccount,
         WarmAddress, LookupTimesOut, FrontTick, frontVars, lookupVars
<1>3. CASE negUntil'[a] = negUntil[a]
  BY <1>1, <1>3 DEF NegativeInv
<1>4. ASSUME NEW s \in Sessions, TakeRefusal(s), negUntil'[a] # negUntil[a]
      PROVE  NegativeInv(a)'
  <2>1. /\ rcpt[s].state = "wait" /\ rcpt[s].answer.kind = "absent" /\ RcptInv(s)
        /\ a = rcpt[s].addr /\ negUntil'[a] = rcpt[s].since + NegTTL
    BY <1>1, <1>4 DEF TakeRefusal, NegativeEnds, FrontTypeOK
  <2>. QED  BY <1>1, <2>1 DEF NegativeInv, RcptInv
<1>. QED  BY <1>2, <1>3, <1>4

------------------------------------------------------------------------------
\* The answer a look-up may give now.
AnswerFor(a, ans) ==
  /\ ans \in Answers
  /\ ans.kind \in {"error", "absent", "exists"}
  /\ ans.kind = "exists" => existedAt[a] >= 0 /\ now <= existedAt[a] + QueryTime
  /\ ans.kind = "absent" => now <= absentAt[a] + QueryTime

LEMMA AnswerIsRecent ==
  ASSUME FrontInv, NEW a \in Addrs, flight[a].state = "read"
  PROVE  AnswerFor(a, LookupAnswer(flight[a].seen))
<1>. USE FrontParts DEF FrontInv
<1>1. FlightInv(a) /\ PastInv(a) /\ FrontTypeOK
  BY DEF AddressInv
<1>. DEFINE b == flight[a].seen
<1>2. CASE b = None
  <2>1. LookupAnswer(b) = [kind |-> "absent", ttl |-> 0]
    BY <1>2 DEF LookupAnswer
  <2>2. [kind |-> "absent", ttl |-> 0] \in Answers
    BY <1>1 DEF Answers
  <2>. QED  BY <1>1, <1>2, <2>1, <2>2 DEF AnswerFor, FlightInv
<1>3. CASE b # None /\ now > b + AccountTTL
  <2>1. LookupAnswer(b) = [kind |-> "absent", ttl |-> 0]
    BY <1>3 DEF LookupAnswer, Found
  <2>2. [kind |-> "absent", ttl |-> 0] \in Answers
    BY <1>1 DEF Answers
  <2>3. now <= absentAt[a] + QueryTime
    BY <1>1, <1>3 DEF FlightInv, PastInv, Exists, ExistsAt
  <2>. QED  BY <2>1, <2>2, <2>3 DEF AnswerFor
<1>4. CASE b # None /\ ~(now > b + AccountTTL)
  <2>1. b \in Nat /\ b <= now
    BY <1>1, <1>4 DEF FlightInv
  <2>2. LookupAnswer(b) = [kind |-> "exists", ttl |-> b + AccountTTL - now]
    BY <1>4 DEF LookupAnswer, Found
  <2>3. b + AccountTTL - now \in 0..AccountTTL
    BY <1>1, <1>4, <2>1
  <2>4. [kind |-> "exists", ttl |-> b + AccountTTL - now] \in Answers
    BY <2>3 DEF Answers
  <2>5. existedAt[a] >= 0 /\ now <= existedAt[a] + QueryTime
    BY <1>1, <1>4, <2>1 DEF FlightInv
  <2>. QED  BY <2>2, <2>4, <2>5 DEF AnswerFor
<1>. QED  BY <1>2, <1>3, <1>4

\* What FlightLands hands to a session.
LEMMA LandedAnswer ==
  ASSUME FrontInv, NEW a \in Addrs, FlightLands(a)
  PROVE  \E ans : /\ AnswerFor(a, ans)
                  /\ rcpt' = [s \in Sessions |->
                       IF rcpt[s].state = "wait" /\ rcpt[s].addr = a
                          /\ rcpt[s].answer.kind = "none"
                       THEN [rcpt[s] EXCEPT !.answer = ans] ELSE rcpt[s]]
<1>1. AnswerFor(a, [kind |-> "error", ttl |-> 0])
  BY FrontAssumption DEF AnswerFor, Answers
<1>2. flight[a].state = "read" => AnswerFor(a, LookupAnswer(flight[a].seen))
  BY AnswerIsRecent
<1>. QED  BY <1>1, <1>2 DEF FlightLands

LEMMA RcptStep ==
  ASSUME FrontInv, [FrontNext]_frontVars, NEW s \in Sessions
  PROVE  RcptInv(s)'
<1>. USE FrontParts, PastStep DEF FrontInv
<1>1. RcptInv(s) /\ FrontTypeOK
  OBVIOUS
<1>2. \/ rcpt' = rcpt
      \/ \E x \in Addrs : FlightLands(x) \/ \E t \in Sessions : RcptLooksUp(t, x)
      \/ \E t \in Sessions : Answered(t)
  BY DEF FrontNext, Service, Lookup, Rcpt, InsertAccount, CacheNewAddress, ForgetAddress,
         EraseAccount, ExpireAccount, LoseKey, QueryReads, RcptFromRedis, RcptTurnedAway, Data,
         ResetSession, FrontTick, frontVars, sessionVars
<1>3. CASE rcpt' = rcpt
  <2>1. /\ rcpt[s].state = "wait" => now' <= rcpt[s].since + WaitTime
        /\ rcpt[s].state = "warm" => now' <= rcpt[s].since + CallTime
    BY <1>1, TimeStep DEF RcptInv, NothingDue
  <2>. QED  BY <1>1, <1>3, <2>1 DEF RcptInv
<1>4. ASSUME rcpt'[s] = rcpt[s], UNCHANGED <<now, history>> PROVE RcptInv(s)'
  BY <1>1, <1>4 DEF RcptInv, history
<1>5. ASSUME rcpt'[s] = NoRcpt PROVE RcptInv(s)'
  BY <1>5 DEF RcptInv, NoRcpt, NoAnswer
<1>6. ASSUME NEW x \in Addrs, FlightLands(x) PROVE RcptInv(s)'
  <2>1. UNCHANGED <<now, history>>
    BY <1>6 DEF FlightLands
  <2>2. PICK ans :
          /\ AnswerFor(x, ans)
          /\ rcpt' = [t \in Sessions |->
               IF rcpt[t].state = "wait" /\ rcpt[t].addr = x /\ rcpt[t].answer.kind = "none"
               THEN [rcpt[t] EXCEPT !.answer = ans] ELSE rcpt[t]]
    BY <1>6, LandedAnswer
  <2>3. CASE rcpt[s].state = "wait" /\ rcpt[s].addr = x /\ rcpt[s].answer.kind = "none"
    <3>1. /\ rcpt'[s].state = "wait" /\ rcpt'[s].addr = x
          /\ rcpt'[s].since = rcpt[s].since /\ rcpt'[s].answer = ans
      BY <1>1, <2>2, <2>3 DEF RcptType
    <3>. QED  BY <1>1, <2>1, <2>2, <2>3, <3>1 DEF RcptInv, AnswerFor, history
  <2>4. CASE ~(rcpt[s].state = "wait" /\ rcpt[s].addr = x /\ rcpt[s].answer.kind = "none")
    BY <1>4, <2>1, <2>2, <2>4
  <2>. QED  BY <2>3, <2>4
<1>7. ASSUME NEW x \in Addrs, NEW t \in Sessions, RcptLooksUp(t, x) PROVE RcptInv(s)'
  <2>1. UNCHANGED <<now, history>>
    BY <1>7 DEF RcptLooksUp
  <2>2. CASE s = t
    <3>1. rcpt'[s] = [state |-> "wait", addr |-> x, since |-> now, answer |-> NoAnswer]
      BY <1>1, <1>7, <2>2 DEF RcptLooksUp
    <3>. QED  BY <1>1, <2>1, <3>1 DEF RcptInv, NoAnswer
  <2>3. CASE s # t
    BY <1>1, <1>4, <1>7, <2>1, <2>3 DEF RcptLooksUp
  <2>. QED  BY <2>2, <2>3
<1>8. ASSUME NEW t \in Sessions, Answered(t) PROVE RcptInv(s)'
  <2>1. UNCHANGED <<now, history>>
    BY <1>8 DEF Answered, TakeRefusal, TakeAccount, WarmAddress, LookupTimesOut
  <2>2. CASE s # t
    BY <1>1, <1>4, <1>8, <2>1, <2>2
       DEF Answered, TakeRefusal, TakeAccount, WarmAddress, LookupTimesOut
  <2>3. CASE s = t /\ TakeAccount(t)
    <3>1. /\ rcpt[s].state = "wait" /\ rcpt[s].answer.kind = "exists"
          /\ rcpt'[s].state = "warm" /\ rcpt'[s].addr = rcpt[s].addr
          /\ rcpt'[s].since = now /\ rcpt'[s].answer = rcpt[s].answer
      BY <1>1, <2>3 DEF TakeAccount, RcptType
    <3>. QED  BY <1>1, <2>1, <3>1 DEF RcptInv, history
  <2>4. CASE s = t /\ (TakeRefusal(t) \/ WarmAddress(t) \/ LookupTimesOut(t))
    BY <1>1, <1>5, <2>4 DEF TakeRefusal, WarmAddress, LookupTimesOut
  <2>. QED  BY <1>8, <2>2, <2>3, <2>4 DEF Answered
<1>. QED  BY <1>2, <1>3, <1>6, <1>7, <1>8

------------------------------------------------------------------------------
LEMMA FrontType == FrontInv /\ [FrontNext]_frontVars => FrontTypeOK'
<1>. SUFFICES ASSUME FrontInv, [FrontNext]_frontVars PROVE FrontTypeOK'
  OBVIOUS
<1>. USE FrontParts DEF FrontInv
<1>0. FrontTypeOK
  OBVIOUS
<1>a. /\ 0 \in Time /\ now \in Time /\ 0 \in Horizon
      /\ NoFlight \in FlightType /\ NoRcpt \in RcptType
      /\ now + AccountTTL \in Horizon
  BY <1>0 DEF Time, Horizon, NoFlight, FlightType, NoRcpt, RcptType, NoAnswer, Answers,
              FrontTypeOK
<1>b. ASSUME NEW b \in [Addrs -> Time \cup {None}], NEW t \in Time, Remember(b, t)
      PROVE  absentAt' \in [Addrs -> Time] /\ existedAt' \in [Addrs -> Time \cup {-1}]
  BY <1>0, <1>b DEF Remember, FrontTypeOK
<1>c. \A s \in Sessions, x \in Answers : [rcpt[s] EXCEPT !.answer = x] \in RcptType
  <2>1. rcpt \in [Sessions -> RcptType]
    OBVIOUS
  <2>. QED  BY <2>1 DEF RcptType
<1>d. \A a \in Addrs : [flight[a] EXCEPT !.state = "read", !.seen = born[a]] \in FlightType
  <2>1. \A a \in Addrs : flight[a] \in FlightType /\ born[a] \in Time \cup {None}
    BY <1>0 DEF FrontTypeOK
  <2>. QED  BY <2>1 DEF FlightType
<1>. USE <1>0 DEF FrontTypeOK, storeVars, lookupVars, sessionVars, history
<1>1. CASE UNCHANGED frontVars
  BY <1>1 DEF frontVars
<1>2. CASE FrontTick
  <2>1. now + 1 \in Time
    BY <1>2 DEF FrontTick, Time
  <2>. QED  BY <1>2, <1>b, <2>1 DEF FrontTick
<1>3. ASSUME NEW a \in Addrs, InsertAccount(a) PROVE FrontTypeOK'
  <2>1. born' \in [Addrs -> Time \cup {None}] /\ creating' \in [Addrs -> Time \cup {None}]
    BY <1>3, <1>a DEF InsertAccount
  <2>. QED  BY <1>3, <1>a, <1>b, <2>1 DEF InsertAccount
<1>4. ASSUME NEW a \in Addrs, EraseAccount(a) \/ ExpireAccount(a) PROVE FrontTypeOK'
  <2>1. born' \in [Addrs -> Time \cup {None}]
    BY <1>4 DEF EraseAccount, ExpireAccount
  <2>. QED  BY <1>4, <1>a, <1>b, <2>1 DEF EraseAccount, ExpireAccount
<1>5. ASSUME NEW a \in Addrs, CacheNewAddress(a) \/ ForgetAddress(a) \/ LoseKey(a)
      PROVE  FrontTypeOK'
  <2>1. keyUntil' \in [Addrs -> Horizon]
    BY <1>5, <1>a DEF CacheNewAddress, ForgetAddress, LoseKey
  <2>. QED  BY <1>5, <2>1 DEF CacheNewAddress, ForgetAddress, LoseKey
<1>6. ASSUME NEW a \in Addrs, QueryReads(a) PROVE FrontTypeOK'
  <2>1. flight' = [flight EXCEPT ![a] = [flight[a] EXCEPT !.state = "read", !.seen = born[a]]]
    BY <1>6 DEF QueryReads
  <2>2. flight' \in [Addrs -> FlightType]
    BY <1>d, <2>1
  <2>. QED  BY <1>6, <2>2 DEF QueryReads, FlightType
<1>7. ASSUME NEW a \in Addrs, FlightLands(a) PROVE FrontTypeOK'
  <2>1. PICK ans :
          /\ AnswerFor(a, ans)
          /\ rcpt' = [s \in Sessions |->
               IF rcpt[s].state = "wait" /\ rcpt[s].addr = a /\ rcpt[s].answer.kind = "none"
               THEN [rcpt[s] EXCEPT !.answer = ans] ELSE rcpt[s]]
    BY <1>7, LandedAnswer
  <2>2. \A s \in Sessions : [rcpt[s] EXCEPT !.answer = ans] \in RcptType
    BY <1>c, <2>1 DEF AnswerFor
  <2>3. rcpt' \in [Sessions -> RcptType]
    BY <2>1, <2>2
  <2>4. flight' \in [Addrs -> FlightType]
    BY <1>7, <1>a DEF FlightLands
  <2>. QED  BY <1>7, <2>3, <2>4 DEF FlightLands, FlightType, RcptType
<1>8. ASSUME NEW s \in Sessions, NEW a \in Addrs, RcptLooksUp(s, a) PROVE FrontTypeOK'
  <2>1. [state |-> "asked", since |-> now, seen |-> None] \in FlightType
    BY <1>a DEF FlightType
  <2>2. [state |-> "wait", addr |-> a, since |-> now, answer |-> NoAnswer] \in RcptType
    BY <1>a DEF RcptType, NoAnswer, Answers
  <2>3. flight' \in [Addrs -> FlightType] /\ rcpt' \in [Sessions -> RcptType]
    BY <1>8, <2>1, <2>2 DEF RcptLooksUp
  <2>. QED  BY <1>8, <2>3 DEF RcptLooksUp, FlightType, RcptType
<1>9. ASSUME NEW s \in Sessions, TakeAccount(s) PROVE FrontTypeOK'
  <2>1. [rcpt[s] EXCEPT !.state = "warm", !.since = now] \in RcptType
    BY <1>a DEF RcptType
  <2>2. rcpt' \in [Sessions -> RcptType]
    BY <1>9, <2>1 DEF TakeAccount
  <2>. QED  BY <1>9, <2>2 DEF TakeAccount, RcptType
<1>10. ASSUME NEW s \in Sessions, LookupTimesOut(s) PROVE FrontTypeOK'
  <2>1. rcpt' \in [Sessions -> RcptType]
    BY <1>10, <1>a DEF LookupTimesOut
  <2>. QED  BY <1>10, <2>1 DEF LookupTimesOut, RcptType
<1>11. ASSUME NEW s \in Sessions, TakeRefusal(s) PROVE FrontTypeOK'
  <2>1. rcpt' \in [Sessions -> RcptType]
    BY <1>11, <1>a DEF TakeRefusal
  <2>2. rcpt[s].since + NegTTL \in Horizon
    <3>1. rcpt[s].since \in Time
      BY DEF RcptType
    <3>. QED  BY <3>1 DEF Time, Horizon
  <2>3. negUntil' \in [Addrs -> Horizon]
    BY <1>11, <2>2 DEF TakeRefusal, NegativeEnds
  <2>. QED  BY <1>11, <2>1, <2>3 DEF TakeRefusal, RcptType
<1>12. ASSUME NEW s \in Sessions, WarmAddress(s) PROVE FrontTypeOK'
  <2>1. rcpt' \in [Sessions -> RcptType]
    BY <1>12, <1>a DEF WarmAddress
  <2>2. rcpt[s].addr \in Addrs
    BY <1>12 DEF WarmAddress, RcptInv
  <2>3. now + KeyLife(rcpt[s].answer.ttl) \in Horizon
    BY <1>a DEF KeyLife, Horizon, Time
  <2>4. keyUntil' \in [Addrs -> Horizon]
    BY <1>12, <2>3 DEF WarmAddress
  <2>5. to' \in [Sessions -> SUBSET Addrs]
    BY <1>12, <2>2 DEF WarmAddress, AddRcpt
  <2>. QED  BY <1>12, <2>1, <2>4, <2>5 DEF WarmAddress, RcptType
<1>13. ASSUME NEW s \in Sessions, Data(s) \/ ResetSession(s) PROVE FrontTypeOK'
  BY <1>13 DEF Data, ResetSession
<1>14. ASSUME NEW s \in Sessions, NEW a \in Addrs, RcptFromRedis(s, a) \/ RcptTurnedAway(s, a)
       PROVE  FrontTypeOK'
  BY <1>14 DEF RcptFromRedis, RcptTurnedAway, AddRcpt
<1>. QED
  BY <1>1, <1>2, <1>3, <1>4, <1>5, <1>6, <1>7, <1>8, <1>9, <1>10, <1>11, <1>12, <1>13, <1>14
     DEF FrontNext, Service, Lookup, Rcpt, Answered

LEMMA FrontSteps == FrontInv /\ [FrontNext]_frontVars => FrontInv'
<1>. SUFFICES ASSUME FrontInv, [FrontNext]_frontVars PROVE FrontInv'
  OBVIOUS
<1>1. AddressInv'
  BY PastStep, NewAccountStep, FlightStep, KeyStep, NegativeStep DEF AddressInv
<1>. QED  BY <1>1, RcptStep, FrontType DEF FrontInv

LEMMA AcceptedFromInv == FrontInv => AcceptedExisted
<1>. SUFFICES ASSUME FrontInv, NEW a \in Addrs,
                     KeyLive(a) \/ (\E s \in Sessions : rcpt[s].addr = a /\ rcpt[s].state = "warm")
              PROVE  /\ existedAt[a] # -1
                     /\ now < existedAt[a] + AccountTTL + QueryTime + WaitTime + CallTime
  BY DEF AcceptedExisted
<1>. USE FrontParts DEF FrontInv
<1>1. CASE KeyLive(a)
  BY <1>1 DEF KeyLive, AddressInv, KeyInv
<1>2. CASE \E s \in Sessions : rcpt[s].addr = a /\ rcpt[s].state = "warm"
  BY <1>2 DEF RcptInv
<1>. QED  BY <1>1, <1>2

LEMMA RefusedFromInv == FrontInv => RefusedWereAbsent
<1>. SUFFICES ASSUME FrontInv, NEW a \in Addrs,
                     \/ NegativeLive(a)
                     \/ \E s \in Sessions : rcpt[s].addr = a /\ rcpt[s].answer.kind = "absent"
              PROVE  now < absentAt[a] + NegTTL + QueryTime
  BY DEF RefusedWereAbsent
<1>. USE FrontParts DEF FrontInv
<1>1. CASE NegativeLive(a)
  BY <1>1 DEF NegativeLive, AddressInv, NegativeInv
<1>2. CASE \E s \in Sessions : rcpt[s].addr = a /\ rcpt[s].answer.kind = "absent"
  BY <1>2 DEF RcptInv
<1>. QED  BY <1>1, <1>2

(***************************************************************************)
(* RCPT accepts an address only if its account existed within the life of  *)
(* an account and the calls between reading it and writing its key,        *)
(* whatever the lives and time-outs are.                                   *)
(***************************************************************************)
THEOREM AcceptedAddressesExisted == FrontSpec => []AcceptedExisted
<1>. QED  BY FrontInitially, FrontSteps, AcceptedFromInv, PTL DEF FrontSpec

(***************************************************************************)
(* RCPT refuses an address for good only if it had no account within the   *)
(* life of a negative entry and the query behind it: an answer that is     *)
(* late, shared or kept refuses a new account no longer than that.         *)
(***************************************************************************)
THEOREM RefusedAddressesWereAbsent == FrontSpec => []RefusedWereAbsent
<1>. QED  BY FrontInitially, FrontSteps, RefusedFromInv, PTL DEF FrontSpec
==============================================================================
