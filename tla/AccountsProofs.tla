---------------------------- MODULE AccountsProofs ----------------------------
(***************************************************************************)
(* The age of what requests are let through by, and where accounts are     *)
(* created, for every number of requests and every tree of domains; and    *)
(* the choice of a domain in the yyds dialect.                             *)
(***************************************************************************)
EXTENDS Accounts, YydsAccounts, FiniteSetTheorems, NaturalsInduction, WellFoundedInduction, TLAPS

JobType ==
  [pc : {"idle", "check", "lock", "load", "store", "lookup", "gate", "hash", "insert", "made"},
   ask : Asks \cup {Nobody}, addr : Addresses \cup {Nobody}, since : 0..LastTick,
   view : Tables, asOf : Nat, at : 0..LastTick, failed : BOOLEAN, tries : 0..MaxTries]
CachedType == [known : BOOLEAN, table : Tables, until : Nat, asOf : Nat]

\* What the cache holds was true when it was read, not before its life began.
CachedInv == cached.known => cached.until <= cached.asOf + CacheTTL

\* One loads, under the mutex and within LoadTime.
LoadInv(r) ==
  /\ job[r].pc = "lock" => job[r].since <= tick
  /\ job[r].pc \in {"load", "store"} =>
       /\ holder = r
       /\ job[r].since <= job[r].at /\ job[r].at <= tick /\ tick <= job[r].at + LoadTime
  /\ job[r].pc = "store" => job[r].at <= job[r].asOf /\ job[r].asOf <= tick

\* Whoever waits for the mutex and will find the table fresh finds it at once.
WaitInv(r) ==
  job[r].pc = "lock" /\ Fresh(job[r].since) =>
    holder = Nobody /\ tick <= cached.asOf + LoadTime

FreshInv(r) ==
  job[r].pc \in {"lookup", "gate"} =>
    job[r].failed \/ job[r].at < job[r].asOf + CacheTTL + LoadTime

\* Where the address of a request is.
PlacedInv(r) ==
  job[r].pc # "idle" =>
    LET ask == job[r].ask
    IN  /\ ask \in Asks /\ job[r].addr \in Addresses
        /\ \/ ask.name # Nobody /\ job[r].addr = <<ask.name, ask.domain>>
           \/ ask.name = Nobody /\ job[r].addr[2] = ask.domain
           \/ ask.name # Nobody /\ job[r].addr[2] = ask.more

JobInv(r) == LoadInv(r) /\ WaitInv(r) /\ FreshInv(r) /\ PlacedInv(r)

AccountsInv == AccountsTypeOK /\ CachedInv /\ \A r \in Requests : JobInv(r)

LEMMA AccountsParts ==
  ASSUME AccountsTypeOK
  PROVE  /\ tick \in Nat /\ tick \in 0..LastTick /\ CacheTTL \in Nat /\ CacheTTL > 0
         /\ LoadTime \in Nat /\ LastTick \in Nat /\ MaxTries \in Nat
         /\ cached \in CachedType /\ cached.known \in BOOLEAN /\ cached.table \in Tables
         /\ cached.until \in Nat /\ cached.asOf \in Nat
         /\ job \in [Requests -> JobType] /\ table \in Tables
         /\ \A r \in Requests : /\ job[r] \in JobType /\ job[r].since \in 0..LastTick
                                /\ job[r].at \in 0..LastTick /\ job[r].asOf \in Nat
                                /\ job[r].view \in Tables /\ job[r].failed \in BOOLEAN
                                /\ job[r].tries \in 0..MaxTries
                                /\ job[r].addr \in Addresses \cup {Nobody}
         /\ AllOff \in Tables /\ NoJob \in JobType /\ Nobody \notin Requests
<1>. USE AccountsAssumption, RulesAssumption
<1>1. tick \in Nat /\ tick \in 0..LastTick /\ CacheTTL \in Nat /\ CacheTTL > 0
      /\ LoadTime \in Nat /\ LastTick \in Nat /\ MaxTries \in Nat /\ Nobody \notin Requests
      /\ table \in Tables
  BY DEF AccountsTypeOK
<1>2. cached \in CachedType /\ job \in [Requests -> JobType]
  BY DEF AccountsTypeOK, CachedType, JobType
<1>3. cached.known \in BOOLEAN /\ cached.table \in Tables /\ cached.until \in Nat
      /\ cached.asOf \in Nat
  BY <1>2 DEF CachedType
<1>4. \A r \in Requests : /\ job[r] \in JobType /\ job[r].since \in 0..LastTick
                          /\ job[r].at \in 0..LastTick /\ job[r].asOf \in Nat
                          /\ job[r].view \in Tables /\ job[r].failed \in BOOLEAN
                          /\ job[r].tries \in 0..MaxTries
                          /\ job[r].addr \in Addresses \cup {Nobody}
  BY <1>2 DEF JobType
<1>5. AllOff \in Tables
  BY DEF AllOff, Tables
<1>6. NoJob \in JobType
  BY <1>1, <1>5 DEF NoJob, JobType
<1>. QED  BY <1>1, <1>2, <1>3, <1>4, <1>5, <1>6

LEMMA AskParts ==
  ASSUME NEW a \in Asks
  PROVE  /\ a.kind \in {"create", "token", "random"} /\ a.name \in Names \cup {Nobody}
         /\ a.domain \in Domains /\ a.more \in Domains \cup {NoDomain}
BY AccountsAssumption, RulesAssumption DEF AskType

LEMMA AccountsInitially == AccountsInit => AccountsInv
<1>. SUFFICES ASSUME AccountsInit PROVE AccountsInv
  OBVIOUS
<1>1. AccountsTypeOK
  <2>. USE AccountsAssumption, RulesAssumption
  <2>1. AllOff \in Tables /\ [d \in Domains |-> "public"] \in Tables
    BY DEF AllOff, Tables
  <2>2. NoJob \in JobType
    BY <2>1 DEF NoJob, JobType
  <2>3. [known |-> FALSE, table |-> AllOff, until |-> 0, asOf |-> 0] \in CachedType
    BY <2>1 DEF CachedType
  <2>. QED  BY <2>1, <2>2, <2>3 DEF AccountsInit, AccountsTypeOK, JobType, CachedType
<1>2. CachedInv /\ \A r \in Requests : JobInv(r)
  BY DEF AccountsInit, CachedInv, JobInv, LoadInv, WaitInv, FreshInv, PlacedInv, NoJob
<1>. QED  BY <1>1, <1>2 DEF AccountsInv

------------------------------------------------------------------------------
\* A request that leaves the cache with what a table says.
Decided(r, asOf, failed) ==
  \/ job' = [job EXCEPT ![r] = NoJob]
  \/ \E pc \in {"lookup", "gate"} :
       job' = [job EXCEPT ![r] = [job[r] EXCEPT !.pc = pc, !.asOf = asOf, !.at = tick,
                                                !.failed = failed, !.view = AllOff]]

LEMMA DecideDecides ==
  ASSUME AccountsInv, NEW r \in Requests, job[r].pc # "idle", NEW tbl, NEW asOf, NEW failed,
         Decide(r, tbl, asOf, failed)
  PROVE  Decided(r, asOf, failed)
<1>1. job[r].ask \in Asks
  BY DEF AccountsInv, JobInv, PlacedInv
<1>2. AfterChecks(job[r].ask) \in {"gate", "lookup", "idle"}
  BY <1>1, AskParts DEF AfterChecks
<1>. QED  BY <1>2 DEF Decide, Decided, Reply

\* The job of a request after a step, and what that preserves.
LEMMA JobReplied ==
  ASSUME NEW r, job'[r] = NoJob
  PROVE  JobInv(r)'
BY DEF JobInv, LoadInv, WaitInv, FreshInv, PlacedInv, NoJob

LEMMA JobDecided ==
  ASSUME AccountsInv, NEW r \in Requests, job[r].pc # "idle", NEW asOf \in Nat,
         NEW failed \in BOOLEAN, Decided(r, asOf, failed),
         failed \/ tick < asOf + CacheTTL + LoadTime
  PROVE  /\ job' \in [Requests -> JobType] /\ JobInv(r)'
         /\ \A q \in Requests : q # r => job'[q] = job[q]
         /\ job'[r].pc \in {"idle", "lookup", "gate"}
<1>. USE AccountsParts DEF AccountsInv
<1>1. CASE job' = [job EXCEPT ![r] = NoJob]
  BY <1>1, JobReplied DEF NoJob
<1>2. ASSUME NEW pc \in {"lookup", "gate"},
             job' = [job EXCEPT ![r] = [job[r] EXCEPT !.pc = pc, !.asOf = asOf, !.at = tick,
                                                      !.failed = failed, !.view = AllOff]]
      PROVE  /\ job' \in [Requests -> JobType] /\ JobInv(r)'
             /\ \A q \in Requests : q # r => job'[q] = job[q]
             /\ job'[r].pc \in {"idle", "lookup", "gate"}
  <2>. DEFINE j == [job[r] EXCEPT !.pc = pc, !.asOf = asOf, !.at = tick, !.failed = failed,
                                  !.view = AllOff]
  <2>1. /\ j \in JobType /\ j.pc = pc /\ j.asOf = asOf /\ j.at = tick /\ j.failed = failed
        /\ j.ask = job[r].ask /\ j.addr = job[r].addr
    BY DEF JobType
  <2>2. job' \in [Requests -> JobType] /\ job'[r] = j
        /\ \A q \in Requests : q # r => job'[q] = job[q]
    BY <1>2, <2>1
  <2>. HIDE DEF j
  <2>3. FreshInv(r)' /\ LoadInv(r)' /\ WaitInv(r)'
    BY <2>1, <2>2, AccountsAssumption, RulesAssumption DEF FreshInv, LoadInv, WaitInv
  <2>4. PlacedInv(r)
    BY DEF JobInv
  <2>5. PlacedInv(r)'
    BY <2>1, <2>2, <2>4 DEF PlacedInv
  <2>. QED  BY <1>2, <2>1, <2>2, <2>3, <2>5 DEF JobInv
<1>. QED  BY <1>1, <1>2 DEF Decided

\* The other requests do not notice a step that leaves time, cache and mutex alone.
LEMMA OthersKept ==
  ASSUME NEW q, JobInv(q), job'[q] = job[q], UNCHANGED <<tick, cached, holder>>
  PROVE  JobInv(q)'
BY DEF JobInv, LoadInv, WaitInv, FreshInv, PlacedInv, Fresh

\* One that only goes on with its work after the checks.
LEMMA JobGoesOn ==
  ASSUME AccountsInv, NEW r \in Requests,
         job[r].pc \in {"lookup", "gate", "hash", "insert"}, NEW j \in JobType,
         job' = [job EXCEPT ![r] = j],
         UNCHANGED <<tick, table, cached, holder, syncs>>, taken' \in SUBSET Addresses,
         j.pc \in {"hash", "insert", "made"} \/ j = NoJob
           \/ (job[r].pc = "lookup" /\ j = [job[r] EXCEPT !.pc = "gate"]),
         j = NoJob \/ /\ j.ask = job[r].ask /\ j.addr \in Addresses
                      /\ \/ j.addr = job[r].addr
                         \/ j.addr[2] = RetryDomain(j.ask)
  PROVE  AccountsInv'
<1>. USE AccountsParts DEF AccountsInv
<1>1. /\ job' \in [Requests -> JobType] /\ job'[r] = j
      /\ \A q \in Requests : q # r => job'[q] = job[q]
  OBVIOUS
<1>2. AccountsTypeOK'
  BY <1>1 DEF AccountsTypeOK, JobType
<1>3. CachedInv'
  BY DEF CachedInv
<1>4. \A q \in Requests : q # r => JobInv(q)'
  BY <1>1, OthersKept
<1>5. JobInv(r)'
  <2>1. CASE j = NoJob
    BY <1>1, <2>1, JobReplied
  <2>2. CASE j # NoJob
    <3>1. PlacedInv(r) /\ FreshInv(r)
      BY DEF JobInv
    <3>2. PlacedInv(r)'
      BY <1>1, <2>2, <3>1 DEF PlacedInv, RetryDomain
    <3>3. CASE j.pc \in {"hash", "insert", "made"}
      BY <1>1, <3>2, <3>3 DEF JobInv, LoadInv, WaitInv, FreshInv
    <3>4. CASE job[r].pc = "lookup" /\ j = [job[r] EXCEPT !.pc = "gate"]
      <4>1. /\ j.pc = "gate" /\ j.at = job[r].at /\ j.asOf = job[r].asOf
            /\ j.failed = job[r].failed
        BY <3>4 DEF JobType
      <4>. QED  BY <1>1, <3>1, <3>2, <3>4, <4>1 DEF JobInv, LoadInv, WaitInv, FreshInv
    <3>. QED  BY <2>2, <3>3, <3>4
  <2>. QED  BY <2>1, <2>2
<1>. QED  BY <1>2, <1>3, <1>4, <1>5

------------------------------------------------------------------------------
LEMMA SubmitStep ==
  ASSUME AccountsInv, NEW r \in Requests, Submit(r)
  PROVE  AccountsInv'
<1>. USE AccountsParts DEF AccountsInv
<1>1. PICK ask \in Asks :
        \E n \in IF ask.name = Nobody THEN Generated ELSE {ask.name} :
          job' = [job EXCEPT ![r] = [NoJob EXCEPT !.pc = "check", !.ask = ask,
                                                  !.addr = <<n, ask.domain>>]]
  BY DEF Submit
<1>2. PICK n \in IF ask.name = Nobody THEN Generated ELSE {ask.name} :
        job' = [job EXCEPT ![r] = [NoJob EXCEPT !.pc = "check", !.ask = ask,
                                                !.addr = <<n, ask.domain>>]]
  BY <1>1
<1>. DEFINE j == [NoJob EXCEPT !.pc = "check", !.ask = ask, !.addr = <<n, ask.domain>>]
<1>3. <<n, ask.domain>> \in Addresses
  BY <1>2, AskParts DEF Addresses
<1>4. j \in JobType /\ j.pc = "check" /\ j.ask = ask /\ j.addr = <<n, ask.domain>>
  BY <1>3 DEF JobType, NoJob
<1>. HIDE DEF j
<1>5. /\ job' \in [Requests -> JobType] /\ job'[r] = j
      /\ \A q \in Requests : q # r => job'[q] = job[q]
  BY <1>2, <1>4 DEF j
<1>6. UNCHANGED <<tick, table, cached, holder, taken, syncs>>
  BY DEF Submit
<1>7. AccountsTypeOK'
  BY <1>5, <1>6 DEF AccountsTypeOK, JobType
<1>8. JobInv(r)'
  <2>1. PlacedInv(r)'
    <3>1. \/ ask.name # Nobody /\ n = ask.name
          \/ ask.name = Nobody
      BY <1>2
    <3>2. <<n, ask.domain>>[2] = ask.domain
      OBVIOUS
    <3>. QED  BY <1>3, <1>4, <1>5, <3>1, <3>2 DEF PlacedInv
  <2>. QED  BY <1>4, <1>5, <2>1 DEF JobInv, LoadInv, WaitInv, FreshInv
<1>. QED  BY <1>5, <1>6, <1>7, <1>8, OthersKept DEF CachedInv

LEMMA LookStep ==
  ASSUME AccountsInv, NEW r \in Requests, LookInCache(r)
  PROVE  AccountsInv'
<1>. USE AccountsParts DEF AccountsInv
<1>0. job[r].pc = "check" /\ UNCHANGED <<tick, table, cached, holder, taken, syncs>>
  BY DEF LookInCache
<1>1. CASE Fresh(tick)
  <2>1. Decided(r, cached.asOf, FALSE)
    BY <1>0, <1>1, DecideDecides DEF LookInCache
  <2>2. tick < cached.asOf + CacheTTL + LoadTime
    BY <1>1 DEF Fresh, CachedInv
  <2>3. /\ job' \in [Requests -> JobType] /\ JobInv(r)'
        /\ \A q \in Requests : q # r => job'[q] = job[q]
    BY <1>0, <2>1, <2>2, JobDecided
  <2>4. AccountsTypeOK'
    BY <1>0, <2>3 DEF AccountsTypeOK, JobType
  <2>. QED  BY <1>0, <2>3, <2>4, OthersKept DEF CachedInv
<1>2. CASE ~Fresh(tick)
  <2>. DEFINE j == [job[r] EXCEPT !.pc = "lock", !.since = tick]
  <2>1. job' = [job EXCEPT ![r] = j]
    BY <1>2 DEF LookInCache
  <2>2. /\ j \in JobType /\ j.pc = "lock" /\ j.since = tick /\ j.ask = job[r].ask
        /\ j.addr = job[r].addr
    BY DEF JobType
  <2>. HIDE DEF j
  <2>3. /\ job' \in [Requests -> JobType] /\ job'[r] = j
        /\ \A q \in Requests : q # r => job'[q] = job[q]
    BY <2>1, <2>2
  <2>4. AccountsTypeOK'
    BY <1>0, <2>3 DEF AccountsTypeOK, JobType
  <2>5. PlacedInv(r)'
    BY <1>0, <2>2, <2>3 DEF JobInv, PlacedInv
  <2>6. JobInv(r)'
    BY <1>0, <1>2, <2>2, <2>3, <2>5 DEF JobInv, LoadInv, WaitInv, FreshInv, Fresh
  <2>. QED  BY <1>0, <2>3, <2>4, <2>6, OthersKept DEF CachedInv
<1>. QED  BY <1>1, <1>2

LEMMA LockStep ==
  ASSUME AccountsInv, NEW r \in Requests, Lock(r)
  PROVE  AccountsInv'
<1>. USE AccountsParts DEF AccountsInv
<1>0. /\ job[r].pc = "lock" /\ holder = Nobody
      /\ \A q \in Requests : job[q].pc = "lock" => job[q].since >= job[r].since
      /\ UNCHANGED <<tick, table, cached, taken, syncs>>
      /\ LoadInv(r) /\ WaitInv(r) /\ PlacedInv(r)
  BY DEF Lock, JobInv
<1>1. CASE Fresh(job[r].since)
  <2>1. Decided(r, cached.asOf, FALSE) /\ holder' = holder
    BY <1>0, <1>1, DecideDecides DEF Lock
  <2>2. tick < cached.asOf + CacheTTL + LoadTime
    BY <1>0, <1>1 DEF WaitInv
  <2>3. /\ job' \in [Requests -> JobType] /\ JobInv(r)'
        /\ \A q \in Requests : q # r => job'[q] = job[q]
    BY <1>0, <2>1, <2>2, JobDecided
  <2>4. AccountsTypeOK'
    BY <1>0, <2>1, <2>3 DEF AccountsTypeOK, JobType
  <2>. QED  BY <1>0, <2>1, <2>3, <2>4, OthersKept DEF CachedInv
<1>2. CASE ~Fresh(job[r].since)
  <2>. DEFINE j == [job[r] EXCEPT !.pc = "load", !.at = tick]
  <2>1. job' = [job EXCEPT ![r] = j] /\ holder' = r
    BY <1>2 DEF Lock
  <2>2. /\ j \in JobType /\ j.pc = "load" /\ j.since = job[r].since /\ j.at = tick
        /\ j.ask = job[r].ask /\ j.addr = job[r].addr
    BY DEF JobType
  <2>. HIDE DEF j
  <2>3. /\ job' \in [Requests -> JobType] /\ job'[r] = j
        /\ \A q \in Requests : q # r => job'[q] = job[q]
    BY <2>1, <2>2
  <2>4. AccountsTypeOK'
    BY <1>0, <2>1, <2>3 DEF AccountsTypeOK, JobType
  <2>5. JobInv(r)'
    <3>1. PlacedInv(r)'
      BY <1>0, <2>2, <2>3 DEF PlacedInv
    <3>2. LoadInv(r)'
      BY <1>0, <2>1, <2>2, <2>3 DEF LoadInv
    <3>. QED  BY <2>2, <2>3, <3>1, <3>2 DEF JobInv, WaitInv, FreshInv
  <2>6. ASSUME NEW q \in Requests, q # r PROVE JobInv(q)'
    <3>1. JobInv(q) /\ job'[q] = job[q] /\ job[q].pc \notin {"load", "store"}
      BY <1>0, <2>3, <2>6 DEF JobInv, LoadInv
    <3>2. job[q].pc = "lock" => ~Fresh(job[q].since)
      BY <1>0, <1>2 DEF Fresh
    <3>3. WaitInv(q)'
      BY <1>0, <3>1, <3>2 DEF WaitInv, Fresh
    <3>. QED  BY <1>0, <3>1, <3>3 DEF JobInv, LoadInv, FreshInv, PlacedInv
  <2>. QED  BY <1>0, <2>4, <2>5, <2>6 DEF CachedInv
<1>. QED  BY <1>1, <1>2

LEMMA ListDomainsStep ==
  ASSUME AccountsInv, NEW r \in Requests, ListDomains(r)
  PROVE  AccountsInv'
<1>. USE AccountsParts DEF AccountsInv
<1>0. job[r].pc = "load" /\ UNCHANGED <<tick, table, cached, holder, taken, syncs>>
      /\ LoadInv(r) /\ PlacedInv(r)
  BY DEF ListDomains, JobInv
<1>. DEFINE j == [job[r] EXCEPT !.pc = "store", !.view = table, !.asOf = tick]
<1>1. job' = [job EXCEPT ![r] = j]
  BY DEF ListDomains
<1>2. /\ j \in JobType /\ j.pc = "store" /\ j.since = job[r].since /\ j.at = job[r].at
      /\ j.asOf = tick /\ j.ask = job[r].ask /\ j.addr = job[r].addr
  BY DEF JobType
<1>. HIDE DEF j
<1>3. /\ job' \in [Requests -> JobType] /\ job'[r] = j
      /\ \A q \in Requests : q # r => job'[q] = job[q]
  BY <1>1, <1>2
<1>4. AccountsTypeOK'
  BY <1>0, <1>3 DEF AccountsTypeOK, JobType
<1>5. PlacedInv(r)' /\ LoadInv(r)'
  BY <1>0, <1>2, <1>3 DEF PlacedInv, LoadInv
<1>6. JobInv(r)'
  BY <1>2, <1>3, <1>5 DEF JobInv, WaitInv, FreshInv
<1>. QED  BY <1>0, <1>3, <1>4, <1>6, OthersKept DEF CachedInv

LEMMA StoreStep ==
  ASSUME AccountsInv, NEW r \in Requests, StoreDomains(r)
  PROVE  AccountsInv'
<1>. USE AccountsParts DEF AccountsInv
<1>0. /\ job[r].pc = "store" /\ UNCHANGED <<tick, table, taken, syncs>> /\ holder' = Nobody
      /\ cached' = [known |-> TRUE, table |-> job[r].view, until |-> job[r].since + CacheTTL,
                    asOf |-> job[r].asOf]
      /\ Decide(r, job[r].view, job[r].asOf, FALSE)
      /\ LoadInv(r)
  BY DEF StoreDomains, JobInv
<1>1. /\ holder = r /\ job[r].since <= job[r].asOf /\ tick <= job[r].asOf + LoadTime
      /\ job[r].since \in Nat /\ job[r].at \in Nat
  BY <1>0 DEF LoadInv
<1>2. Decided(r, job[r].asOf, FALSE)
  BY <1>0, DecideDecides
<1>3. /\ job' \in [Requests -> JobType] /\ JobInv(r)'
      /\ \A q \in Requests : q # r => job'[q] = job[q]
  <2>1. job[r].pc # "idle" /\ job[r].asOf \in Nat
    BY <1>0
  <2>2. tick < job[r].asOf + CacheTTL + LoadTime
    BY <1>1, <2>1
  <2>. QED  BY <1>2, <2>1, <2>2, JobDecided
<1>4. cached' \in CachedType /\ CachedInv'
  BY <1>0, <1>1 DEF CachedType, CachedInv
<1>5. AccountsTypeOK'
  BY <1>0, <1>3, <1>4 DEF AccountsTypeOK, JobType, CachedType
<1>6. ASSUME NEW q \in Requests, q # r PROVE JobInv(q)'
  <2>1. JobInv(q) /\ job'[q] = job[q] /\ job[q].pc \notin {"load", "store"}
    BY <1>1, <1>3, <1>6 DEF JobInv, LoadInv
  <2>2. WaitInv(q)'
    BY <1>0, <1>1 DEF WaitInv
  <2>. QED  BY <1>0, <2>1, <2>2 DEF JobInv, LoadInv, FreshInv, PlacedInv
<1>. QED  BY <1>3, <1>4, <1>5, <1>6

LEMMA FailStep ==
  ASSUME AccountsInv, NEW r \in Requests, ListFails(r)
  PROVE  AccountsInv'
<1>. USE AccountsParts DEF AccountsInv
<1>0. /\ job[r].pc \in {"load", "store"} /\ UNCHANGED <<tick, table, taken, syncs>>
      /\ holder' = Nobody /\ cached' = cached /\ holder = r
      /\ Decide(r, cached.table, cached.asOf, TRUE) \/ job' = Reply(r)
  BY DEF ListFails, KeptAsIs, JobInv, LoadInv
<1>1. Decided(r, cached.asOf, TRUE)
  <2>1. CASE Decide(r, cached.table, cached.asOf, TRUE)
    <3>1. job[r].pc # "idle"
      BY <1>0
    <3>. QED  BY <2>1, <3>1, DecideDecides
  <2>2. CASE job' = Reply(r)
    BY <2>2 DEF Decided, Reply
  <2>. QED  BY <1>0, <2>1, <2>2
<1>2. /\ job' \in [Requests -> JobType] /\ JobInv(r)'
      /\ \A q \in Requests : q # r => job'[q] = job[q]
  <2>1. job[r].pc # "idle" /\ cached.asOf \in Nat /\ TRUE \in BOOLEAN
    BY <1>0
  <2>. QED  BY <1>1, <2>1, JobDecided
<1>3. AccountsTypeOK'
  BY <1>0, <1>2 DEF AccountsTypeOK, JobType
<1>4. ASSUME NEW q \in Requests, q # r PROVE JobInv(q)'
  <2>1. /\ JobInv(q) /\ job'[q] = job[q] /\ job[q].pc \notin {"load", "store"}
        /\ ~(job[q].pc = "lock" /\ Fresh(job[q].since))
    BY <1>0, <1>2, <1>4 DEF JobInv, LoadInv, WaitInv
  <2>. QED  BY <1>0, <2>1 DEF JobInv, LoadInv, FreshInv, PlacedInv, WaitInv, Fresh
<1>. QED  BY <1>0, <1>2, <1>3, <1>4 DEF CachedInv

LEMMA WorkStep ==
  ASSUME AccountsInv, NEW r \in Requests,
         BcryptPermit(r) \/ Hashed(r) \/ FindByAddress(r) \/ InsertAddress(r)
  PROVE  AccountsInv'
<1>. USE AccountsParts DEF AccountsInv
<1>1. /\ taken \in SUBSET Addresses
      /\ job[r].pc # "idle" => job[r].addr \in Addresses
  BY DEF AccountsTypeOK, JobInv, PlacedInv
<1>2. ASSUME job' = Reply(r), UNCHANGED <<tick, table, cached, holder, syncs>>, taken' = taken,
             job[r].pc \in {"lookup", "gate", "hash", "insert"}
      PROVE  AccountsInv'
  BY <1>1, <1>2, JobGoesOn DEF Reply
<1>3. ASSUME NEW pc \in {"insert", "made", "gate"},
             job' = [job EXCEPT ![r].pc = pc], UNCHANGED <<tick, table, cached, holder, syncs>>,
             taken' \in SUBSET Addresses, job[r].pc \in {"lookup", "hash", "insert"},
             pc = "gate" => job[r].pc = "lookup"
      PROVE  AccountsInv'
  <2>. DEFINE j == [job[r] EXCEPT !.pc = pc]
  <2>1. job' = [job EXCEPT ![r] = j]
    BY <1>3
  <2>2. j \in JobType /\ j.pc = pc /\ j.ask = job[r].ask /\ j.addr = job[r].addr
    BY DEF JobType
  <2>. HIDE DEF j
  <2>. QED  BY <1>1, <1>3, <2>1, <2>2, JobGoesOn DEF j
<1>4. CASE BcryptPermit(r)
  <2>1. CASE job' = Hash(r)
    <3>. DEFINE j == [NoJob EXCEPT !.pc = "hash", !.ask = job[r].ask, !.addr = job[r].addr]
    <3>1. j \in JobType /\ j.pc = "hash" /\ j.ask = job[r].ask /\ j.addr = job[r].addr
      BY DEF JobType, NoJob
    <3>2. job' = [job EXCEPT ![r] = j]
      BY <2>1 DEF Hash
    <3>. HIDE DEF j
    <3>. QED  BY <1>1, <1>4, <3>1, <3>2, JobGoesOn DEF BcryptPermit
  <2>. QED  BY <1>2, <1>4, <2>1 DEF BcryptPermit
<1>5. CASE Hashed(r)
  BY <1>1, <1>2, <1>3, <1>5 DEF Hashed, Go
<1>6. CASE FindByAddress(r)
  BY <1>1, <1>2, <1>3, <1>6 DEF FindByAddress, Go
<1>7. CASE InsertAddress(r)
  <2>0. /\ job[r].pc = "insert" /\ PlacedInv(r) /\ job[r].ask \in Asks
        /\ UNCHANGED <<tick, table, cached, holder, syncs>>
    BY <1>7 DEF InsertAddress, JobInv, PlacedInv
  <2>1. CASE taken' = taken \cup {job[r].addr} /\ job' = Go(r, "made")
    <3>1. job[r].addr \in Addresses
      BY <2>0 DEF PlacedInv
    <3>. QED  BY <1>1, <1>3, <2>0, <2>1, <3>1 DEF Go
  <2>2. ASSUME NEW n \in Generated, taken' = taken, RetryDomain(job[r].ask) # NoDomain,
               job[r].tries < MaxTries,
               job' = [job EXCEPT ![r].tries = @ + 1,
                                  ![r].addr = <<n, RetryDomain(job[r].ask)>>]
        PROVE  AccountsInv'
    <3>. DEFINE j == [job[r] EXCEPT !.tries = @ + 1, !.addr = <<n, RetryDomain(job[r].ask)>>]
    <3>1. job' = [job EXCEPT ![r] = j]
      BY <2>2
    <3>2. RetryDomain(job[r].ask) \in Domains
      BY <2>0, <2>2, AskParts DEF RetryDomain
    <3>3. <<n, RetryDomain(job[r].ask)>> \in Addresses /\ job[r].tries + 1 \in 0..MaxTries
      BY <2>2, <3>2 DEF Addresses
    <3>4. /\ j \in JobType /\ j.pc = "insert" /\ j.ask = job[r].ask
          /\ j.addr = <<n, RetryDomain(job[r].ask)>>
      BY <2>0, <3>3 DEF JobType
    <3>5. j.addr[2] = RetryDomain(j.ask) /\ j.addr \in Addresses
      BY <3>3, <3>4
    <3>6. taken' \in SUBSET Addresses
      BY <1>1, <2>2
    <3>. HIDE DEF j
    <3>. QED  BY <2>0, <3>1, <3>4, <3>5, <3>6, JobGoesOn
  <2>3. CASE taken' = taken /\ job' = Reply(r)
    BY <1>2, <2>0, <2>3
  <2>. QED  BY <1>7, <2>1, <2>2, <2>3 DEF InsertAddress
<1>. QED  BY <1>4, <1>5, <1>6, <1>7

LEMMA FinishStep ==
  ASSUME AccountsInv, NEW r \in Requests, Finish(r)
  PROVE  AccountsInv'
<1>. USE AccountsParts DEF AccountsInv
<1>1. job' = [job EXCEPT ![r] = NoJob] /\ UNCHANGED <<tick, table, cached, holder, taken, syncs>>
  BY DEF Finish, Reply
<1>2. job' \in [Requests -> JobType] /\ job'[r] = NoJob
      /\ \A q \in Requests : q # r => job'[q] = job[q]
  BY <1>1
<1>3. AccountsTypeOK'
  BY <1>1, <1>2 DEF AccountsTypeOK, JobType
<1>. QED  BY <1>1, <1>2, <1>3, JobReplied, OthersKept DEF CachedInv

LEMMA TickStep ==
  ASSUME AccountsInv, AccountsTick
  PROVE  AccountsInv'
<1>. USE AccountsParts DEF AccountsInv
<1>1. /\ tick' = tick + 1 /\ tick < LastTick
      /\ UNCHANGED <<table, cached, holder, job, taken, syncs>>
      /\ \A r \in Requests : job[r].pc \in {"load", "store"} => tick < job[r].at + LoadTime
      /\ holder = Nobody => \A r \in Requests : job[r].pc # "lock"
  BY DEF AccountsTick
<1>2. AccountsTypeOK'
  BY <1>1 DEF AccountsTypeOK
<1>3. ASSUME NEW r \in Requests PROVE JobInv(r)'
  <2>1. JobInv(r)
    OBVIOUS
  <2>2. LoadInv(r)'
    BY <1>1, <2>1 DEF JobInv, LoadInv
  <2>3. WaitInv(r)'
    BY <1>1, <2>1 DEF JobInv, WaitInv, Fresh
  <2>. QED  BY <1>1, <2>1, <2>2, <2>3 DEF JobInv, FreshInv, PlacedInv
<1>. QED  BY <1>1, <1>2, <1>3 DEF CachedInv

LEMMA AccountsSteps == AccountsInv /\ [AccountsNext]_accountVars => AccountsInv'
<1>. SUFFICES ASSUME AccountsInv, [AccountsNext]_accountVars PROVE AccountsInv'
  OBVIOUS
<1>1. ASSUME UNCHANGED <<tick, cached, holder, job>>, table' \in Tables,
             taken' \in SUBSET Addresses, syncs' \in 0..MaxSyncs
      PROVE  AccountsInv'
  <2>1. AccountsTypeOK'
    BY <1>1 DEF AccountsInv, AccountsTypeOK
  <2>. QED  BY <1>1, <2>1, OthersKept DEF AccountsInv, CachedInv
<1>2. CASE UNCHANGED accountVars
  BY <1>1, <1>2 DEF accountVars, AccountsInv, AccountsTypeOK
<1>3. CASE FreeAddress
  BY <1>1, <1>3 DEF FreeAddress, AccountsInv, AccountsTypeOK
<1>4. CASE SyncDomain
  <2>1. table' \in Tables /\ syncs' \in 0..MaxSyncs
    BY <1>4, AccountsAssumption, RulesAssumption DEF SyncDomain, Tables, AccountsInv, AccountsTypeOK
  <2>. QED  BY <1>1, <1>4, <2>1 DEF SyncDomain, AccountsInv, AccountsTypeOK
<1>. QED
  BY <1>2, <1>3, <1>4, SubmitStep, LookStep, LockStep, ListDomainsStep, StoreStep, FailStep,
     WorkStep, FinishStep, TickStep DEF AccountsNext, RequestStep

(***************************************************************************)
(* A request is let through by a table not older than the cache lives and  *)
(* a query takes, or because its own query failed, for every number of     *)
(* requests that wait for the mutex.                                       *)
(***************************************************************************)
THEOREM AllChecksAreFresh == AccountsSpec => []ChecksAreFresh
<1>1. AccountsInv => ChecksAreFresh
  BY DEF AccountsInv, JobInv, FreshInv, ChecksAreFresh
<1>. QED  BY <1>1, AccountsInitially, AccountsSteps, PTL DEF AccountsSpec

(***************************************************************************)
(* An account is created in the domain that was checked, or else in the    *)
(* other domain that a request with an address names as well.              *)
(***************************************************************************)
THEOREM AccountsStayWhereChecked == AccountsSpec => []CreatedWhereChecked
<1>1. AccountsInv => CreatedWhereChecked
  BY DEF AccountsInv, JobInv, PlacedInv, CreatedWhereChecked
<1>. QED  BY <1>1, AccountsInitially, AccountsSteps, PTL DEF AccountsSpec

------------------------------------------------------------------------------
(* The yyds dialect                                                        *)

VisitType ==
  [pc : {"idle", "find", "default", "choose", "check", "act", "refused"},
   ask : YydsAsks \cup {Nobody}, target : Domains \cup {NoDomain},
   at : Domains \cup {NoDomain}, addr : Addresses \cup {Nobody},
   tries : 0..MaxAttempts, seen : SUBSET Tables, chosen : BOOLEAN]

\* What each place of a request says about its fields.
VisitPlace(v) ==
  /\ visit[v].pc # "idle" => visit[v].ask \in YydsAsks
  /\ visit[v].pc \in {"default", "check"} => visit[v].target \in Domains /\ visit[v].at \in Domains
  /\ visit[v].pc = "act" => visit[v].addr \in Addresses

Several(S) == \E s, t \in S : s # t

\* As long as the domains do not change, the check of a domain that the server has
\* chosen finds that very domain, still visible to the caller.
ChosenInv(v) ==
  LET w == visit[v]
  IN  w.chosen =>
        /\ w.pc \in {"check", "act", "refused"}
        /\ IsFiniteSet(w.seen)
        /\ w.pc = "refused" => Several(w.seen)
        /\ w.pc = "check" =>
             /\ domains \in w.seen
             /\ ~Several(w.seen) => w.at = w.target /\ w.target \in Visible(w.ask.caller, domains)

YydsInv == YydsTypeOK /\ \A v \in Visitors : VisitPlace(v) /\ ChosenInv(v)

\* The two decisions agree: a domain that is shown may be used.
LEMMA ShownMayBeUsed ==
  ASSUME NEW c, NEW tbl, NEW d \in Visible(c, tbl)
  PROVE  tbl[d] # "off" /\ Accessible(c, d, d, tbl[d])
BY DEF Visible, Accessible

LEMMA VisitParts ==
  ASSUME YydsTypeOK, NEW v \in Visitors
  PROVE  /\ visit \in [Visitors -> VisitType] /\ visit[v] \in VisitType
         /\ visit[v].tries \in 0..MaxAttempts /\ visit[v].seen \in SUBSET Tables
         /\ visit[v].chosen \in BOOLEAN /\ visit[v].target \in Domains \cup {NoDomain}
         /\ visit[v].at \in Domains \cup {NoDomain} /\ visit[v].addr \in Addresses \cup {Nobody}
         /\ visit[v].ask \in YydsAsks \cup {Nobody}
         /\ visit[v].pc \in {"idle", "find", "default", "choose", "check", "act", "refused"}
         /\ domains \in Tables /\ MaxAttempts \in Nat
<1>1. visit \in [Visitors -> VisitType] /\ domains \in Tables /\ MaxAttempts \in Nat
  BY YydsAssumption DEF YydsTypeOK, VisitType
<1>2. visit[v] \in VisitType
  BY <1>1
<1>. QED  BY <1>1, <1>2 DEF VisitType

\* A step of one request that leaves the domains alone.
LEMMA VisitStep ==
  ASSUME YydsInv, NEW v \in Visitors, NEW w \in VisitType, Put(v, w),
         boxes' \subseteq Addresses, UNCHANGED <<domains, changes>>,
         w.pc # "idle" => w.ask \in YydsAsks,
         w.pc \in {"default", "check"} => w.target \in Domains /\ w.at \in Domains,
         w.pc = "act" => w.addr \in Addresses,
         w.chosen =>
           /\ w.pc \in {"check", "act", "refused"}
           /\ IsFiniteSet(w.seen)
           /\ w.pc = "refused" => Several(w.seen)
           /\ w.pc = "check" =>
                /\ domains \in w.seen
                /\ ~Several(w.seen) => w.at = w.target /\ w.target \in Visible(w.ask.caller, domains)
  PROVE  YydsInv'
<1>1. YydsTypeOK /\ visit \in [Visitors -> VisitType] /\ visit' = [visit EXCEPT ![v] = w]
  BY VisitParts DEF YydsInv, Put
<1>2. visit' \in [Visitors -> VisitType]
  BY <1>1
<1>3. YydsTypeOK'
  BY <1>1, <1>2 DEF YydsTypeOK, VisitType
<1>4. ASSUME NEW u \in Visitors  PROVE VisitPlace(u)' /\ ChosenInv(u)'
  <2>1. CASE u = v
    <3>1. visit'[u] = w
      BY <1>1, <2>1
    <3>. QED  BY <3>1 DEF VisitPlace, ChosenInv
  <2>2. CASE u # v
    <3>1. visit'[u] = visit[u]
      BY <1>1, <2>2
    <3>. QED  BY <3>1 DEF YydsInv, VisitPlace, ChosenInv
  <2>. QED  BY <2>1, <2>2
<1>. QED  BY <1>3, <1>4 DEF YydsInv

\* Where the answers of requests and their checks begin.
LEMMA NewVisits ==
  ASSUME YydsTypeOK
  PROVE  /\ NoVisit \in VisitType
         /\ \A ask \in YydsAsks : \A pc \in {"find", "choose"} :
              [NoVisit EXCEPT !.pc = pc, !.ask = ask] \in VisitType
<1>1. domains \in Tables /\ MaxAttempts \in Nat /\ 0 \in 0..MaxAttempts
  BY YydsAssumption DEF YydsTypeOK
<1>2. NoVisit \in VisitType
  BY <1>1 DEF NoVisit, VisitType
<1>3. \A ask \in YydsAsks : \A pc \in {"find", "choose"} :
        [NoVisit EXCEPT !.pc = pc, !.ask = ask] \in VisitType
  BY <1>1 DEF NoVisit, VisitType
<1>. QED  BY <1>2, <1>3

LEMMA NewCheck ==
  ASSUME YydsTypeOK, NEW ask \in YydsAsks, NEW t \in Domains, NEW chosen \in BOOLEAN,
         NEW pc \in {"default", "check"}, NEW w, w = Checking(pc, ask, t, chosen)
  PROVE  /\ w \in VisitType /\ w.pc = pc /\ w.ask = ask /\ w.target = t /\ w.at = t
         /\ w.seen = {domains} /\ w.chosen = chosen
<1>1. NoVisit \in VisitType /\ {domains} \in SUBSET Tables
  BY NewVisits DEF YydsTypeOK
<1>2. w \in VisitType
  BY <1>1 DEF Checking, VisitType
<1>3. /\ w.pc = pc /\ w.ask = ask /\ w.target = t /\ w.at = t
      /\ w.seen = {domains} /\ w.chosen = chosen
  BY DEF Checking, NoVisit
<1>. QED  BY <1>2, <1>3

LEMMA YydsAskParts ==
  ASSUME NEW a \in YydsAsks
  PROVE  /\ a.kind \in {"create", "token", "delete"} /\ a.name \in Names \cup {Nobody}
         /\ a.domain \in Domains \cup {NoDomain} /\ a.own \in Domains \cup {NoDomain}
         /\ a.kind # "create" => a.name # Nobody /\ a.domain # NoDomain
<1>1. a \in YydsAsk /\ (a.kind # "create" => a.name # Nobody /\ a.domain # NoDomain)
  BY YydsAssumption
<1>. QED  BY <1>1 DEF YydsAsk

LEMMA TargetsAreDomains ==
  ASSUME NEW d \in Domains, NEW sub  PROVE Targets(d, sub) \subseteq Domains
BY DEF Targets

\* A check begins, of a domain that was asked for or chosen.
LEMMA CheckBegins ==
  ASSUME YydsInv, NEW v \in Visitors, NEW ask \in YydsAsks, NEW t \in Domains,
         NEW chosen \in BOOLEAN, NEW pc \in {"default", "check"},
         Put(v, Checking(pc, ask, t, chosen)), UNCHANGED <<domains, boxes, changes>>,
         chosen => pc = "check" /\ t \in Visible(ask.caller, domains)
  PROVE  YydsInv'
<1>. SUFFICES ASSUME NEW w, w = Checking(pc, ask, t, chosen)  PROVE YydsInv'
  OBVIOUS
<1>1. /\ w \in VisitType /\ w.pc = pc /\ w.ask = ask /\ w.target = t /\ w.at = t
      /\ w.seen = {domains} /\ w.chosen = chosen
  BY NewCheck DEF YydsInv
<1>2. IsFiniteSet(w.seen)
  BY <1>1, FS_Singleton
<1>3. boxes' \subseteq Addresses
  BY DEF YydsInv, YydsTypeOK
<1>4. Put(v, w)
  OBVIOUS
<1>. QED  BY <1>1, <1>2, <1>3, <1>4, VisitStep

LEMMA AnswerStep ==
  ASSUME YydsInv, NEW v \in Visitors, Answer(v), boxes' \subseteq Addresses,
         UNCHANGED <<domains, changes>>
  PROVE  YydsInv'
<1>1. NoVisit \in VisitType
  BY NewVisits DEF YydsInv
<1>2. NoVisit.pc = "idle" /\ NoVisit.chosen = FALSE
  BY DEF NoVisit
<1>. QED  BY <1>1, <1>2, VisitStep DEF Answer

LEMMA SentOn ==
  ASSUME YydsInv, NEW v \in Visitors, NEW ask \in YydsAsks, NEW pc \in {"find", "choose"},
         Put(v, [NoVisit EXCEPT !.pc = pc, !.ask = ask]), UNCHANGED <<domains, boxes, changes>>
  PROVE  YydsInv'
<1>. DEFINE w == [NoVisit EXCEPT !.pc = pc, !.ask = ask]
<1>1. w \in VisitType
  BY NewVisits DEF YydsInv
<1>2. w.pc = pc /\ w.ask = ask /\ w.chosen = FALSE
  BY DEF NoVisit
<1>3. boxes' \subseteq Addresses
  BY DEF YydsInv, YydsTypeOK
<1>4. Put(v, w)
  OBVIOUS
<1>. HIDE DEF w
<1>. QED  BY <1>1, <1>2, <1>3, <1>4, VisitStep

\* What follows a check; one of a chosen domain fails only if the domains changed.
LEMMA JudgeStep ==
  ASSUME YydsInv, NEW v \in Visitors, visit[v].pc \in {"default", "check"},
         NEW ok \in BOOLEAN, Judge(v, ok), UNCHANGED <<domains, boxes, changes>>,
         visit[v].chosen /\ ~ok => Several(visit[v].seen)
  PROVE  YydsInv'
<1>. DEFINE w == visit[v]
<1>1. /\ w \in VisitType /\ w.ask \in YydsAsks /\ w.target \in Domains /\ w.at \in Domains
      /\ boxes' \subseteq Addresses
      /\ w.chosen => w.pc = "check" /\ IsFiniteSet(w.seen)
  BY VisitParts DEF YydsInv, YydsTypeOK, VisitPlace, ChosenInv
<1>2. CASE w.pc = "default" /\ ok
  <2>1. PICK t \in Targets(w.target, w.ask.sub) : Put(v, Checking("check", w.ask, t, FALSE))
    BY <1>2 DEF Judge
  <2>2. t \in Domains
    BY <1>1, TargetsAreDomains
  <2>. QED  BY <1>1, <2>1, <2>2, CheckBegins
<1>3. CASE w.pc = "default" /\ ~ok
  <2>1. Put(v, [NoVisit EXCEPT !.pc = "choose", !.ask = w.ask])
    BY <1>3 DEF Judge
  <2>. QED  BY <1>1, <2>1, SentOn
<1>4. CASE w.pc = "check" /\ ok
  <2>1. PICK n \in IF w.ask.name = Nobody THEN Generated ELSE {w.ask.name} :
          Put(v, [w EXCEPT !.pc = "act", !.addr = <<n, w.target>>])
    BY <1>4 DEF Judge
  <2>2. <<n, w.target>> \in Addresses
    BY <1>1, YydsAskParts DEF Addresses
  <2>. DEFINE u == [w EXCEPT !.pc = "act", !.addr = <<n, w.target>>]
  <2>3. /\ u \in VisitType /\ u.pc = "act" /\ u.ask = w.ask /\ u.addr = <<n, w.target>>
        /\ u.chosen = w.chosen /\ u.seen = w.seen
    BY <1>1, <2>2 DEF VisitType
  <2>4. Put(v, u)
    BY <2>1
  <2>. HIDE DEF u, w
  <2>. QED  BY <1>1, <2>2, <2>3, <2>4, VisitStep
<1>5. CASE w.pc = "check" /\ ~ok
  <2>1. Put(v, [w EXCEPT !.pc = "refused"])
    BY <1>5 DEF Judge
  <2>. DEFINE u == [w EXCEPT !.pc = "refused"]
  <2>2. /\ u \in VisitType /\ u.pc = "refused" /\ u.ask = w.ask
        /\ u.chosen = w.chosen /\ u.seen = w.seen
    BY <1>1 DEF VisitType
  <2>3. u.chosen => Several(u.seen)
    BY <1>5, <2>2
  <2>4. Put(v, u)
    BY <2>1
  <2>. HIDE DEF u, w
  <2>. QED  BY <1>1, <2>2, <2>3, <2>4, VisitStep
<1>. QED  BY <1>2, <1>3, <1>4, <1>5

LEMMA VisitBegins ==
  ASSUME YydsInv, NEW v \in Visitors, Visit(v)  PROVE YydsInv'
<1>1. PICK ask \in YydsAsks :
        IF ask.kind = "delete" THEN Put(v, [NoVisit EXCEPT !.pc = "find", !.ask = ask])
        ELSE IF ask.domain # NoDomain
          THEN \E t \in Targets(ask.domain, ask.sub) : Put(v, Checking("check", ask, t, FALSE))
        ELSE IF ask.own # NoDomain THEN Put(v, Checking("default", ask, ask.own, FALSE))
        ELSE Put(v, [NoVisit EXCEPT !.pc = "choose", !.ask = ask])
  BY DEF Visit
<1>2. UNCHANGED <<domains, boxes, changes>> /\ ask.domain \in Domains \cup {NoDomain}
      /\ ask.own \in Domains \cup {NoDomain}
  BY YydsAskParts DEF Visit
<1>3. CASE Put(v, [NoVisit EXCEPT !.pc = "find", !.ask = ask])
  BY <1>2, <1>3, SentOn
<1>4. CASE Put(v, [NoVisit EXCEPT !.pc = "choose", !.ask = ask])
  BY <1>2, <1>4, SentOn
<1>5. CASE ask.own # NoDomain /\ Put(v, Checking("default", ask, ask.own, FALSE))
  BY <1>2, <1>5, CheckBegins
<1>6. ASSUME ask.domain # NoDomain, NEW t \in Targets(ask.domain, ask.sub),
             Put(v, Checking("check", ask, t, FALSE))
      PROVE  YydsInv'
  BY <1>2, <1>6, TargetsAreDomains, CheckBegins
<1>. QED  BY <1>1, <1>3, <1>4, <1>5, <1>6

LEMMA FindStep ==
  ASSUME YydsInv, NEW v \in Visitors, FindByID(v)  PROVE YydsInv'
<1>. DEFINE w == visit[v]
            addr == <<w.ask.name, w.ask.domain>>
<1>1. /\ w \in VisitType /\ w.ask \in YydsAsks /\ ~w.chosen /\ boxes \subseteq Addresses
      /\ UNCHANGED <<domains, boxes, changes>>
  BY VisitParts DEF YydsInv, YydsTypeOK, VisitPlace, ChosenInv, FindByID
<1>2. CASE addr \notin boxes
  BY <1>1, <1>2, AnswerStep DEF FindByID
<1>3. CASE addr \in boxes /\ w.ask.caller.kind = "jwt"
  <2>. DEFINE u == [w EXCEPT !.pc = "act", !.addr = addr]
  <2>1. addr \in Addresses /\ Put(v, u)
    BY <1>1, <1>3 DEF FindByID
  <2>2. /\ u \in VisitType /\ u.pc = "act" /\ u.ask = w.ask /\ u.addr = addr
        /\ u.chosen = w.chosen
    BY <1>1, <2>1 DEF VisitType
  <2>. HIDE DEF u, w, addr
  <2>. QED  BY <1>1, <2>1, <2>2, VisitStep
<1>4. CASE addr \in boxes /\ w.ask.caller.kind # "jwt"
  <2>1. Put(v, Checking("check", w.ask, w.ask.domain, FALSE))
    BY <1>4 DEF FindByID
  <2>2. addr \in Addresses
    BY <1>1, <1>4
  <2>3. w.ask.domain \in Domains
    BY <2>2 DEF Addresses
  <2>. QED  BY <1>1, <2>1, <2>3, CheckBegins
<1>. QED  BY <1>2, <1>3, <1>4

LEMMA AskStep ==
  ASSUME YydsInv, NEW v \in Visitors, AskDomain(v)  PROVE YydsInv'
<1>. DEFINE w == visit[v]
            status == domains[w.at]
            ok == Accessible(w.ask.caller, w.target, w.at, status)
<1>1. /\ w \in VisitType /\ w.ask \in YydsAsks /\ w.target \in Domains /\ w.at \in Domains
      /\ w.pc \in {"default", "check"} /\ boxes' \subseteq Addresses
      /\ UNCHANGED <<domains, boxes, changes>> /\ w.chosen \in BOOLEAN
  BY VisitParts DEF YydsInv, YydsTypeOK, VisitPlace, AskDomain
<1>2. w.chosen =>
        /\ w.pc = "check" /\ IsFiniteSet(w.seen) /\ domains \in w.seen
        /\ ~Several(w.seen) => w.at = w.target /\ w.target \in Visible(w.ask.caller, domains)
  BY <1>1 DEF YydsInv, ChosenInv
<1>3. w.chosen /\ ~Several(w.seen) => status # "off" /\ ok
  BY <1>2, ShownMayBeUsed
<1>4. CASE status # "off" /\ ok
  <2>1. Judge(v, TRUE)
    BY <1>4 DEF AskDomain, Judge
  <2>. QED  BY <1>1, <2>1, JudgeStep
<1>5. CASE status # "off" /\ ~ok
  <2>1. Judge(v, FALSE)
    BY <1>5 DEF AskDomain, Judge
  <2>. QED  BY <1>1, <1>3, <1>5, <2>1, JudgeStep
<1>6. CASE status = "off" /\ NextCandidate(w.at) # NoDomain
  <2>. DEFINE u == [w EXCEPT !.at = NextCandidate(@)]
  <2>1. NextCandidate(w.at) \in Domains /\ Put(v, u)
    BY <1>1, <1>6, RulesAssumption DEF AskDomain, NextCandidate
  <2>2. /\ u \in VisitType /\ u.pc = w.pc /\ u.ask = w.ask /\ u.at \in Domains
        /\ u.target = w.target /\ u.seen = w.seen /\ u.chosen = w.chosen
    BY <1>1, <2>1 DEF VisitType
  <2>3. u.chosen => Several(u.seen)
    BY <1>3, <1>6, <2>2
  <2>. HIDE DEF u, w, status
  <2>. QED  BY <1>1, <1>2, <2>1, <2>2, <2>3, VisitStep
<1>7. CASE status = "off" /\ NextCandidate(w.at) = NoDomain
  <2>1. Judge(v, FALSE)
    BY <1>7 DEF AskDomain
  <2>. QED  BY <1>1, <1>3, <1>7, <2>1, JudgeStep
<1>. QED  BY <1>4, <1>5, <1>6, <1>7

LEMMA ChooseStep ==
  ASSUME YydsInv, NEW v \in Visitors, Choose(v)  PROVE YydsInv'
<1>. DEFINE ask == visit[v].ask
            list == Visible(ask.caller, domains)
<1>1. /\ ask \in YydsAsks /\ UNCHANGED <<domains, boxes, changes>> /\ boxes' \subseteq Addresses
      /\ list \subseteq Domains
  BY VisitParts DEF YydsInv, YydsTypeOK, VisitPlace, Choose, Visible
<1>2. CASE list = {}
  BY <1>1, <1>2, AnswerStep DEF Choose
<1>3. CASE list # {}
  <2>1. PICK d \in list :
          \E t \in Targets(d, ask.sub) : Put(v, Checking("check", ask, t, ~ask.sub))
    BY <1>3 DEF Choose
  <2>2. PICK t \in Targets(d, ask.sub) : Put(v, Checking("check", ask, t, ~ask.sub))
    BY <2>1
  <2>3. t \in Domains /\ (~ask.sub => t = d)
    BY <1>1, TargetsAreDomains DEF Targets
  <2>4. ask.sub \in BOOLEAN
    BY <1>1, YydsAssumption DEF YydsAsk
  <2>. QED  BY <1>1, <2>3, <2>4, <2>2, CheckBegins
<1>. QED  BY <1>2, <1>3

LEMMA CreateStep ==
  ASSUME YydsInv, NEW v \in Visitors, Create(v)  PROVE YydsInv'
<1>. DEFINE w == visit[v]
<1>1. /\ w \in VisitType /\ w.ask \in YydsAsks /\ w.addr \in Addresses /\ w.pc = "act"
      /\ boxes \subseteq Addresses /\ UNCHANGED <<domains, changes>>
      /\ w.tries \in 0..MaxAttempts /\ MaxAttempts \in Nat
      /\ w.chosen => IsFiniteSet(w.seen)
  BY VisitParts DEF YydsInv, YydsTypeOK, VisitPlace, ChosenInv, Create
<1>2. CASE w.addr \notin boxes
  <2>1. boxes' = boxes \cup {w.addr} /\ Answer(v)
    BY <1>2 DEF Create
  <2>. QED  BY <1>1, <2>1, AnswerStep
<1>3. CASE w.addr \in boxes /\ Answer(v)
  BY <1>1, <1>3, AnswerStep DEF Create
<1>4. CASE w.addr \in boxes /\ ~Answer(v)
  <2>1. w.tries < MaxAttempts /\ boxes' = boxes
    BY <1>4 DEF Create
  <2>2. PICK n \in Generated : Put(v, [w EXCEPT !.tries = @ + 1, !.addr = <<n, w.addr[2]>>])
    BY <1>4 DEF Create
  <2>3. <<n, w.addr[2]>> \in Addresses
    BY <1>1 DEF Addresses
  <2>4. w.tries + 1 \in 0..MaxAttempts
    BY <1>1, <2>1
  <2>. DEFINE u == [w EXCEPT !.tries = @ + 1, !.addr = <<n, w.addr[2]>>]
  <2>5. /\ u \in VisitType /\ u.pc = "act" /\ u.ask = w.ask /\ u.addr = <<n, w.addr[2]>>
        /\ u.chosen = w.chosen /\ u.seen = w.seen
    BY <1>1, <2>3, <2>4 DEF VisitType
  <2>6. Put(v, u)
    BY <2>2
  <2>. HIDE DEF u, w
  <2>. QED  BY <1>1, <2>1, <2>3, <2>5, <2>6, VisitStep
<1>. QED  BY <1>2, <1>3, <1>4

LEMMA RemoveStep ==
  ASSUME YydsInv, NEW v \in Visitors, Remove(v)  PROVE YydsInv'
<1>1. boxes' \subseteq Addresses /\ UNCHANGED <<domains, changes>> /\ Answer(v)
  BY DEF YydsInv, YydsTypeOK, Remove
<1>. QED  BY <1>1, AnswerStep

LEMMA EndStep ==
  ASSUME YydsInv, NEW v \in Visitors, End(v)  PROVE YydsInv'
<1>1. boxes' \subseteq Addresses /\ UNCHANGED <<domains, boxes, changes>>
  BY DEF YydsInv, YydsTypeOK, End
<1>2. CASE visit[v].pc = "default"
  <2>1. Judge(v, FALSE) /\ ~visit[v].chosen
    BY <1>2 DEF End, YydsInv, ChosenInv
  <2>. QED  BY <1>1, <1>2, <2>1, JudgeStep
<1>3. CASE visit[v].pc # "default"
  BY <1>1, <1>3, AnswerStep DEF End
<1>. QED  BY <1>2, <1>3

\* A domain changes: what a check has seen grows, and so does what may refuse it.
LEMMA ChangeStep ==
  ASSUME YydsInv, ChangeDomain  PROVE YydsInv'
<1>1. /\ visit \in [Visitors -> VisitType] /\ domains \in Tables /\ MaxChanges \in Nat
      /\ boxes' \subseteq Addresses /\ changes \in 0..MaxChanges
  BY YydsAssumption DEF YydsInv, YydsTypeOK, VisitType, ChangeDomain
<1>2. domains' \in Tables /\ changes' \in 0..MaxChanges
  <2>1. PICK d \in Domains, s \in {"off", "public", "private"} : domains' = [domains EXCEPT ![d] = s]
    BY DEF ChangeDomain
  <2>2. domains' \in Tables
    BY <1>1, <2>1 DEF Tables
  <2>. QED  BY <1>1, <2>2 DEF ChangeDomain
<1>3. ASSUME NEW v \in Visitors
      PROVE  visit'[v] \in VisitType /\ VisitPlace(v)' /\ ChosenInv(v)'
  <2>. DEFINE w == visit[v]
              u == [w EXCEPT !.seen = @ \cup {domains'}]
  <2>1. visit'[v] = IF w.pc \notin {"default", "check"} THEN w ELSE u
    BY DEF ChangeDomain
  <2>2. w \in VisitType /\ w.seen \in SUBSET Tables /\ VisitPlace(v) /\ ChosenInv(v)
    BY VisitParts DEF YydsInv
  <2>3. CASE w.pc \notin {"default", "check"}
    BY <2>1, <2>2, <2>3 DEF VisitPlace, ChosenInv
  <2>4. CASE w.pc \in {"default", "check"}
    <3>1. w.seen \cup {domains'} \in SUBSET Tables
      BY <1>2, <2>2
    <3>2. /\ u \in VisitType /\ u.pc = w.pc /\ u.ask = w.ask /\ u.target = w.target
          /\ u.at = w.at /\ u.chosen = w.chosen /\ u.seen = w.seen \cup {domains'}
      BY <2>2, <3>1 DEF VisitType
    <3>3. visit'[v] = u
      BY <2>1, <2>4
    <3>4. VisitPlace(v)'
      BY <2>2, <2>4, <3>2, <3>3 DEF VisitPlace
    <3>5. ASSUME w.chosen
          PROVE  /\ w.pc = "check" /\ IsFiniteSet(u.seen) /\ domains' \in u.seen
                 /\ ~Several(u.seen) => w.at = w.target
                                        /\ w.target \in Visible(w.ask.caller, domains')
      <4>1. /\ w.pc = "check" /\ IsFiniteSet(w.seen) /\ domains \in w.seen
            /\ ~Several(w.seen) => w.at = w.target /\ w.target \in Visible(w.ask.caller, domains)
        BY <2>2, <2>4, <3>5 DEF ChosenInv
      <4>2. IsFiniteSet(u.seen)
        BY <3>2, <4>1, FS_AddElement
      <4>3. ~Several(u.seen) => ~Several(w.seen) /\ domains' = domains
        BY <3>2, <4>1 DEF Several
      <4>. QED  BY <3>2, <4>1, <4>2, <4>3
    <3>6. ChosenInv(v)'
      <4>. HIDE DEF u, w
      <4>. QED  BY <3>2, <3>3, <3>5 DEF ChosenInv
    <3>. QED  BY <3>2, <3>3, <3>4, <3>6
  <2>. QED  BY <2>3, <2>4
<1>4. visit' \in [Visitors -> VisitType]
  <2>1. visit' = [v \in Visitors |-> visit'[v]]
    BY DEF ChangeDomain
  <2>. QED  BY <1>3, <2>1
<1>5. YydsTypeOK'
  BY <1>1, <1>2, <1>4 DEF YydsTypeOK, VisitType
<1>. QED  BY <1>3, <1>5 DEF YydsInv

LEMMA OtherStep ==
  ASSUME YydsInv, OtherRequest \/ UNCHANGED yydsVars  PROVE YydsInv'
<1>1. boxes' \subseteq Addresses /\ UNCHANGED <<domains, visit, changes>>
  BY DEF YydsInv, YydsTypeOK, OtherRequest, yydsVars
<1>. QED  BY <1>1 DEF YydsInv, YydsTypeOK, VisitPlace, ChosenInv

LEMMA YydsBegins == YydsInit => YydsInv
<1>. SUFFICES ASSUME YydsInit  PROVE YydsInv
  OBVIOUS
<1>1. 0 \in 0..MaxChanges /\ 0 \in 0..MaxAttempts
  BY YydsAssumption
<1>2. NoVisit \in VisitType
  BY <1>1 DEF NoVisit, VisitType
<1>3. YydsTypeOK
  BY <1>1, <1>2 DEF YydsInit, YydsTypeOK, VisitType
<1>4. ASSUME NEW v \in Visitors  PROVE VisitPlace(v) /\ ChosenInv(v)
  BY DEF YydsInit, NoVisit, VisitPlace, ChosenInv
<1>. QED  BY <1>3, <1>4 DEF YydsInv

LEMMA YydsStep == YydsInv /\ [YydsNext]_yydsVars => YydsInv'
<1>. SUFFICES ASSUME YydsInv, [YydsNext]_yydsVars  PROVE YydsInv'
  OBVIOUS
<1>1. ASSUME NEW v \in Visitors, VisitorStep(v)  PROVE YydsInv'
  BY <1>1, VisitBegins, FindStep, AskStep, ChooseStep, CreateStep, RemoveStep, EndStep
     DEF VisitorStep
<1>. QED  BY <1>1, ChangeStep, OtherStep DEF YydsNext

\* The domains of a set of several are at least two.
LEMMA SeveralAreTwo ==
  ASSUME NEW S, IsFiniteSet(S), Several(S)  PROVE Cardinality(S) > 1
<1>1. PICK s \in S, t \in S : s # t
  BY DEF Several
<1>2. /\ IsFiniteSet(S \ {s}) /\ Cardinality(S \ {s}) = Cardinality(S) - 1
  BY <1>1, FS_RemoveElement
<1>3. Cardinality(S \ {s}) # 0
  BY <1>1, <1>2, FS_EmptySet
<1>4. Cardinality(S) \in Nat /\ Cardinality(S \ {s}) \in Nat
  BY <1>2, FS_CardinalityType
<1>. QED  BY <1>2, <1>3, <1>4

(***************************************************************************)
(* A request that leaves the domain to the server is refused the domain    *)
(* the server has chosen only if the domains changed meanwhile: listing    *)
(* and checking follow rules of their own, and agree                       *)
(* (candidateDomainsForCreate, ensureDomainAccessible).                    *)
(***************************************************************************)
THEOREM ChoiceIsNotRefused == YydsSpec => []ChosenIsAccepted
<1>1. YydsInv => ChosenIsAccepted
  BY SeveralAreTwo DEF YydsInv, ChosenInv, ChosenIsAccepted
<1>. QED  BY <1>1, YydsBegins, YydsStep, PTL DEF YydsSpec

\* The requests of the yyds dialect are always in one of the places of the code, with
\* what that place needs: a domain to check, an address to act upon.
THEOREM YydsIsTyped == YydsSpec => []YydsTypeOK
<1>1. YydsInv => YydsTypeOK
  BY DEF YydsInv
<1>. QED  BY <1>1, YydsBegins, YydsStep, PTL DEF YydsSpec
------------------------------------------------------------------------------
(* Domains and those they lie under.                                       *)

LEMMA LeastNat ==
  ASSUME NEW T \in SUBSET Nat, T # {}
  PROVE  \E x \in T : \A y \in T : x <= y
<1>1. PICK x \in T : \A y \in T : ~(<<y, x>> \in OpToRel(<, Nat))
  BY NatLessThanWellFounded, WFMin
<1>2. \A y \in T : ~(y < x)
  BY <1>1 DEF OpToRel
<1>. QED  BY <1>2

\* Among some domains there is one whose parent is not among them.
LEMMA OnTop ==
  ASSUME NEW B \in SUBSET Domains, B # {}
  PROVE  \E d \in B : Parent[d] \notin B
<1>. DEFINE T == {Labels[d] : d \in B}
<1>1. T \in SUBSET Nat /\ T # {}
  BY RulesAssumption
<1>2. PICK n \in T : \A m \in T : n <= m
  BY <1>1, LeastNat
<1>3. PICK d \in B : Labels[d] = n
  BY <1>2
<1>4. ASSUME Parent[d] \in B  PROVE FALSE
  <2>1. Labels[Parent[d]] < Labels[d] /\ Labels[Parent[d]] \in Nat /\ Labels[d] \in Nat
    BY <1>4, RulesAssumption
  <2>2. Labels[d] <= Labels[Parent[d]]
    BY <1>2, <1>3, <1>4
  <2>. QED  BY <2>1, <2>2
<1>. QED  BY <1>4

Known == Domains \cup {NoDomain}

\* A search for a member of S goes to the parent of what is not in S.
Search(S, f, e) == IF e = NoDomain THEN NoDomain ELSE IF e \in S THEN e ELSE f[Parent[e]]

\* f says what a search finds from each member of D.
Finds(S, D, f) ==
  /\ D \subseteq Known /\ NoDomain \in D /\ \A e \in D \cap Domains : Parent[e] \in D
  /\ \A e \in D : f[e] = Search(S, f, e)

LEMMA FindsAlike ==
  ASSUME NEW S, NEW D, NEW E, NEW f, NEW g, Finds(S, D, f), Finds(S, E, g)
  PROVE  \A e \in D \cap E : f[e] = g[e]
<1>. DEFINE B == {e \in Domains : e \in D \cap E /\ f[e] # g[e]}
<1>1. ASSUME B # {}  PROVE FALSE
  <2>1. PICK e \in B : Parent[e] \notin B
    BY <1>1, OnTop
  <2>2. e \in Domains /\ e \in D /\ e \in E /\ f[e] # g[e]
    BY <2>1
  <2>3. Parent[e] \in D /\ Parent[e] \in E /\ Parent[e] \in Known /\ e # NoDomain
    BY <2>2, RulesAssumption DEF Finds, Known
  <2>4. f[e] = Search(S, f, e) /\ g[e] = Search(S, g, e)
    BY <2>2 DEF Finds
  <2>5. f[Parent[e]] # g[Parent[e]]
    BY <2>2, <2>4 DEF Search
  <2>6. Parent[e] = NoDomain
    BY <2>1, <2>3, <2>5 DEF Known
  <2>7. f[NoDomain] = NoDomain /\ g[NoDomain] = NoDomain
    BY DEF Finds, Search
  <2>. QED  BY <2>5, <2>6, <2>7
<1>2. f[NoDomain] = g[NoDomain]
  BY DEF Finds, Search
<1>. QED  BY <1>1, <1>2 DEF Finds, Known

\* Every search ends: some function says what it finds.
LEMMA SomeFind ==
  ASSUME NEW S, NEW d \in Known
  PROVE  \E D, f : d \in D /\ Finds(S, D, f)
<1>. DEFINE B == {e \in Domains : ~(\E D, f : e \in D /\ Finds(S, D, f))}
<1>1. \E D, f : NoDomain \in D /\ Finds(S, D, f)
  <2>. DEFINE f == [e \in {NoDomain} |-> NoDomain]
  <2>1. Finds(S, {NoDomain}, f)
    BY RulesAssumption DEF Finds, Search, Known
  <2>. QED  BY <2>1
<1>2. ASSUME B # {}  PROVE FALSE
  <2>1. PICK e \in B : Parent[e] \notin B
    BY <1>2, OnTop
  <2>2. e \in Domains /\ Parent[e] \in Known
    BY <2>1, RulesAssumption DEF Known
  <2>3. \E D, f : Parent[e] \in D /\ Finds(S, D, f)
    BY <1>1, <2>1, <2>2 DEF Known
  <2>4. PICK D, f : Parent[e] \in D /\ Finds(S, D, f)
    BY <2>3
  <2>5. e \notin D
    BY <2>1, <2>4
  <2>. DEFINE E == D \cup {e}
              g == [x \in E |-> IF x = e THEN Search(S, f, e) ELSE f[x]]
  <2>6. E \subseteq Known /\ NoDomain \in E /\ \A x \in E \cap Domains : Parent[x] \in E
    BY <2>2, <2>4 DEF Finds, Known
  <2>7. ASSUME NEW x \in E  PROVE g[x] = Search(S, g, x)
    <3>1. CASE x = e
      <4>1. Parent[e] # e /\ g[Parent[e]] = f[Parent[e]]
        BY <2>4, <2>5
      <4>. QED  BY <3>1, <4>1 DEF Search
    <3>2. CASE x # e
      <4>1. x \in D /\ g[x] = f[x] /\ f[x] = Search(S, f, x)
        BY <2>4, <3>2 DEF Finds
      <4>2. x # NoDomain => Parent[x] \in D /\ g[Parent[x]] = f[Parent[x]]
        BY <2>4, <2>5, <4>1 DEF Finds, Known
      <4>. QED  BY <4>1, <4>2 DEF Search
    <3>. QED  BY <3>1, <3>2
  <2>. HIDE DEF g
  <2>8. Finds(S, E, g)
    BY <2>6, <2>7 DEF Finds
  <2>. QED  BY <2>1, <2>8
<1>. QED  BY <1>1, <1>2 DEF Known

\* What Match finds, as the recursion of its definition says.
LEMMA MatchFinds ==
  ASSUME NEW S
  PROVE  /\ Match(NoDomain, S) = NoDomain
         /\ \A d \in Domains : Match(d, S) = IF d \in S THEN d ELSE Match(Parent[d], S)
<1>. DEFINE Fun(d) == CHOOSE h : h[1] \in SUBSET Known /\ d \in h[1] /\ Finds(S, h[1], h[2])
            all == [e \in Known |-> Fun(e)[2][e]]
<1>1. ASSUME NEW d \in Known  PROVE d \in Fun(d)[1] /\ Finds(S, Fun(d)[1], Fun(d)[2])
  <2>1. PICK D, f : d \in D /\ Finds(S, D, f)
    BY SomeFind
  <2>2. <<D, f>>[1] \in SUBSET Known /\ d \in <<D, f>>[1] /\ Finds(S, <<D, f>>[1], <<D, f>>[2])
    BY <2>1 DEF Finds
  <2>3. \E h : h[1] \in SUBSET Known /\ d \in h[1] /\ Finds(S, h[1], h[2])
    BY <2>2
  <2>. QED  BY <2>3
<1>. HIDE DEF Fun
<1>2. ASSUME NEW e \in Known  PROVE all[e] = Search(S, all, e)
  <2>1. all[e] = Fun(e)[2][e] /\ e \in Fun(e)[1] /\ Finds(S, Fun(e)[1], Fun(e)[2])
    BY <1>1
  <2>2. Fun(e)[2][e] = Search(S, Fun(e)[2], e)
    BY <2>1 DEF Finds
  <2>3. ASSUME e # NoDomain
        PROVE  Fun(e)[2][Parent[e]] = all[Parent[e]]
    <3>1. Parent[e] \in Known /\ Parent[e] \in Fun(e)[1]
      BY <2>1, <2>3, RulesAssumption DEF Finds, Known
    <3>2. Parent[e] \in Fun(Parent[e])[1] /\ Finds(S, Fun(Parent[e])[1], Fun(Parent[e])[2])
      BY <1>1, <3>1
    <3>3. Fun(e)[2][Parent[e]] = Fun(Parent[e])[2][Parent[e]]
      BY <2>1, <3>1, <3>2, FindsAlike
    <3>. QED  BY <3>1, <3>3
  <2>. HIDE DEF all
  <2>. QED  BY <2>1, <2>2, <2>3 DEF Search
<1>. DEFINE Is(m) == m = [e \in Domains \cup {NoDomain} |->
                           IF e = NoDomain THEN NoDomain
                           ELSE IF e \in S THEN e ELSE m[Parent[e]]]
            match == CHOOSE m : Is(m)
<1>3. Is(all)
  <2>1. all = [e \in Known |-> all[e]]
    OBVIOUS
  <2>. HIDE DEF all
  <2>2. all = [e \in Known |-> Search(S, all, e)]
    BY <1>2, <2>1
  <2>. QED  BY <2>2 DEF Search, Known
<1>4. Is(match)
  <2>. HIDE DEF Is, all
  <2>. QED  BY <1>3
<1>5. \A d : Match(d, S) = match[d]
  BY DEF Match
<1>. HIDE DEF match
<1>6. match[NoDomain] = NoDomain
      /\ \A d \in Domains : match[d] = IF d \in S THEN d ELSE match[Parent[d]]
  BY <1>4, RulesAssumption
<1>. QED  BY <1>5, <1>6

LEMMA MatchLabels ==
  ASSUME NEW S, NEW d \in Domains, Match(d, S) \in Domains
  PROVE  Labels[Match(d, S)] <= Labels[d]
<1>. DEFINE B == {e \in Domains : Match(e, S) \in Domains /\ ~(Labels[Match(e, S)] <= Labels[e])}
<1>1. ASSUME B # {}  PROVE FALSE
  <2>1. PICK e \in B : Parent[e] \notin B
    BY <1>1, OnTop
  <2>2. e \in Domains /\ Match(e, S) \in Domains /\ ~(Labels[Match(e, S)] <= Labels[e])
    BY <2>1
  <2>3. Labels[e] \in Nat /\ Labels[Match(e, S)] \in Nat
    BY <2>2, RulesAssumption
  <2>4. Match(e, S) # e
    BY <2>2, <2>3
  <2>5. Match(e, S) = Match(Parent[e], S) /\ Parent[e] \in Domains
    BY <2>2, <2>4, MatchFinds, RulesAssumption
  <2>6. Labels[Parent[e]] < Labels[e] /\ Labels[Parent[e]] \in Nat
    BY <2>2, <2>5, RulesAssumption
  <2>7. Labels[Match(e, S)] <= Labels[Parent[e]]
    BY <2>1, <2>2, <2>5
  <2>. QED  BY <2>2, <2>3, <2>6, <2>7
<1>. QED  BY <1>1

\* A search that S does not end before a has come to a.
ComesTo(d, S, a) == Match(d, S \cup {a}) = a

LEMMA ComesOn ==
  ASSUME NEW S, NEW a \in Domains, NEW d \in Domains, ComesTo(d, S, a), d # a
  PROVE  d \notin S /\ Parent[d] \in Domains /\ ComesTo(Parent[d], S, a)
<1>1. d \notin S \cup {a} /\ Match(Parent[d], S \cup {a}) = a
  BY MatchFinds DEF ComesTo
<1>2. Parent[d] # NoDomain
  BY <1>1, MatchFinds, RulesAssumption
<1>. QED  BY <1>1, <1>2, RulesAssumption DEF ComesTo

\* From there it goes on as if it had begun there.
LEMMA GoesOnFrom ==
  ASSUME NEW S, NEW a \in Domains, NEW d \in Domains, ComesTo(d, S, a)
  PROVE  Match(d, S) = Match(a, S)
<1>. DEFINE B == {e \in Domains : ComesTo(e, S, a) /\ Match(e, S) # Match(a, S)}
<1>1. ASSUME B # {}  PROVE FALSE
  <2>1. PICK e \in B : Parent[e] \notin B
    BY <1>1, OnTop
  <2>2. e \in Domains /\ ComesTo(e, S, a) /\ e # a /\ Match(e, S) # Match(a, S)
    BY <2>1
  <2>3. e \notin S /\ Parent[e] \in Domains /\ ComesTo(Parent[e], S, a)
    BY <2>2, ComesOn
  <2>4. Match(Parent[e], S) = Match(a, S)
    BY <2>1, <2>3
  <2>. QED  BY <2>2, <2>3, <2>4, MatchFinds
<1>. QED  BY <1>1

\* And, if a is not in S, to its parent.
LEMMA ComesToParent ==
  ASSUME NEW S, NEW a \in Domains \ S, NEW d \in Domains, ComesTo(d, S, a), Parent[a] \in Domains
  PROVE  ComesTo(d, S, Parent[a])
<1>. DEFINE B == {e \in Domains : ComesTo(e, S, a) /\ ~ComesTo(e, S, Parent[a])}
<1>1. ASSUME B # {}  PROVE FALSE
  <2>1. PICK e \in B : Parent[e] \notin B
    BY <1>1, OnTop
  <2>2. e \in Domains /\ ComesTo(e, S, a) /\ ~ComesTo(e, S, Parent[a])
    BY <2>1
  <2>3. Match(Parent[a], S \cup {Parent[a]}) = Parent[a]
    BY MatchFinds
  <2>4. e # Parent[a]
    BY <2>2, <2>3 DEF ComesTo
  <2>5. CASE e = a
    <3>1. Match(a, S \cup {Parent[a]}) = Match(Parent[a], S \cup {Parent[a]})
      BY <2>4, <2>5, MatchFinds
    <3>. QED  BY <2>2, <2>3, <2>5, <3>1 DEF ComesTo
  <2>6. CASE e # a
    <3>1. e \notin S /\ Parent[e] \in Domains /\ ComesTo(Parent[e], S, a)
      BY <2>2, <2>6, ComesOn
    <3>2. ComesTo(Parent[e], S, Parent[a])
      BY <2>1, <3>1
    <3>3. Match(e, S \cup {Parent[a]}) = Match(Parent[e], S \cup {Parent[a]})
      BY <2>2, <2>4, <3>1, MatchFinds
    <3>. QED  BY <2>2, <3>2, <3>3 DEF ComesTo
  <2>. QED  BY <2>5, <2>6
<1>. QED  BY <1>1

\* Only what has more labels than a matters.
LEMMA ComesToAlike ==
  ASSUME NEW S, NEW T, NEW a \in Domains, NEW d \in Domains, ComesTo(d, S, a),
         \A e \in Domains : ~(Labels[e] <= Labels[a]) => (e \in S <=> e \in T)
  PROVE  ComesTo(d, T, a)
<1>. DEFINE B == {e \in Domains : ComesTo(e, S, a) /\ ~ComesTo(e, T, a)}
<1>1. ASSUME B # {}  PROVE FALSE
  <2>1. PICK e \in B : Parent[e] \notin B
    BY <1>1, OnTop
  <2>2. e \in Domains /\ ComesTo(e, S, a) /\ ~ComesTo(e, T, a)
    BY <2>1
  <2>3. e # a
    BY <2>2, MatchFinds DEF ComesTo
  <2>4. e \notin S /\ Parent[e] \in Domains /\ ComesTo(Parent[e], S, a)
    BY <2>2, <2>3, ComesOn
  <2>5. ComesTo(Parent[e], T, a)
    BY <2>1, <2>4
  <2>6. Labels[a] <= Labels[Parent[e]] /\ Labels[Parent[e]] < Labels[e]
        /\ Labels[a] \in Nat /\ Labels[Parent[e]] \in Nat /\ Labels[e] \in Nat
    BY <2>2, <2>4, MatchLabels, RulesAssumption DEF ComesTo
  <2>7. e \notin T
    BY <2>2, <2>4, <2>6
  <2>8. Match(e, T \cup {a}) = Match(Parent[e], T \cup {a})
    BY <2>2, <2>3, <2>7, MatchFinds
  <2>. QED  BY <2>2, <2>5, <2>8 DEF ComesTo
<1>. QED  BY <1>1

(***************************************************************************)
(* Whoever is shown a domain and has the key that POST /accounts asks for  *)
(* may create accounts in it (ListDomains, ensureDomainAllowed): the exact *)
(* names of the one agree with the parents and wildcards of the other, for *)
(* every tree of domains and every key.                                    *)
(***************************************************************************)
THEOREM WhatIsListedMayBeUsed == AccountsSpec => []ListedIsUsable
<1>1. ListedIsUsable
  <2>. SUFFICES ASSUME NEW c \in Callers, NEW d \in Listed(c, cached.table)
                PROVE  IsDomainAllowed(c, d) /\ Usable(c, d, cached.table)
    BY DEF ListedIsUsable
  <2>1. d \in Domains
    BY DEF Listed
  <2>2. d # NoDomain
    BY <2>1, RulesAssumption
  <2>3. ASSUME d \in c.explicit  PROVE Match(d, c.explicit) # NoDomain
    <3>1. Match(d, c.explicit) = d
      BY <2>1, <2>3, MatchFinds
    <3>. QED  BY <2>2, <3>1
  <2>. QED  BY <2>3 DEF Listed, Usable, IsDomainAllowed, HasWildcardAccess
<1>. QED  BY <1>1, PTL DEF AccountsSpec

------------------------------------------------------------------------------
(* The check of a domain, one candidate after the other.                   *)

On(tbl) == {e \in Domains : tbl[e] # "off"}

OneMoved(S) == \E d \in Domains : \A s, t \in S : \A e \in Domains \ {d} : s[e] = t[e]

\* A check that has come to a candidate would have come to it in a single look at
\* some table it has seen, and that table says now what there is from there on.
Look(w, tbl) ==
  /\ w.pc = "find" => w.seen = {}
  /\ w.pc \in {"default", "check"} => tbl \in w.seen
  /\ w.pc = "check" /\ OneMoved(w.seen) =>
       \E t \in w.seen : /\ ComesTo(w.target, On(t), w.at)
                         /\ \A e \in Domains : Labels[e] <= Labels[w.at] => t[e] = tbl[e]
  /\ w.pc \in {"act", "refused"} /\ w.seen # {} /\ OneMoved(w.seen) =>
       \E t \in w.seen : (w.pc = "act") = MayUse(w.ask.caller, w.target, t)

Looks(v) == Look(visit[v], domains)

AllLook == \A v \in Visitors : Looks(v)

LookInv == YydsInv /\ AllLook

LEMMA LooksOn ==
  ASSUME LookInv, NEW v \in Visitors, NEW w, Put(v, w),
         domains' = domains, Look(w, domains)
  PROVE  AllLook'
<1>1. visit \in [Visitors -> VisitType] /\ visit' = [visit EXCEPT ![v] = w]
  BY VisitParts DEF LookInv, YydsInv, Put
<1>2. ASSUME NEW u \in Visitors  PROVE Looks(u)'
  <2>1. CASE u = v
    <3>1. visit'[u] = w
      BY <1>1, <2>1
    <3>. QED  BY <3>1 DEF Looks, Look
  <2>2. CASE u # v
    <3>1. visit'[u] = visit[u]
      BY <1>1, <2>2
    <3>. QED  BY <3>1 DEF LookInv, AllLook, Looks, Look
  <2>. QED  BY <2>1, <2>2
<1>. QED  BY <1>2 DEF AllLook

LEMMA LookBegins ==
  ASSUME YydsTypeOK, NEW ask \in YydsAsks, NEW t \in Domains, NEW chosen \in BOOLEAN,
         NEW pc \in {"default", "check"}
  PROVE  Look(Checking(pc, ask, t, chosen), domains)
<1>. SUFFICES ASSUME NEW w, w = Checking(pc, ask, t, chosen)  PROVE Look(w, domains)
  OBVIOUS
<1>1. w.pc = pc /\ w.target = t /\ w.at = t /\ w.seen = {domains}
  BY NewCheck
<1>2. ComesTo(t, On(domains), t)
  BY MatchFinds DEF ComesTo
<1>. QED  BY <1>1, <1>2 DEF Look

LEMMA LookElsewhere ==
  ASSUME NEW ask, NEW pc \in {"find", "choose"}
  PROVE  Look(NoVisit, domains) /\ Look([NoVisit EXCEPT !.pc = pc, !.ask = ask], domains)
BY DEF NoVisit, Look

\* What a check decides is what a single look would have decided.
LEMMA JudgeLooks ==
  ASSUME LookInv, NEW v \in Visitors, visit[v].pc \in {"default", "check"}, NEW ok \in BOOLEAN,
         Judge(v, ok), UNCHANGED domains,
         visit[v].pc = "check" /\ OneMoved(visit[v].seen) =>
           \E t \in visit[v].seen : ok = MayUse(visit[v].ask.caller, visit[v].target, t)
  PROVE  AllLook'
<1>. SUFFICES ASSUME NEW w, w = visit[v]  PROVE AllLook'
  OBVIOUS
<1>1. /\ w \in VisitType /\ w.ask \in YydsAsks /\ w.target \in Domains /\ YydsTypeOK
  BY VisitParts DEF LookInv, YydsInv, VisitPlace
<1>2. CASE w.pc = "default" /\ ok
  <2>1. PICK t \in Targets(w.target, w.ask.sub) : Put(v, Checking("check", w.ask, t, FALSE))
    BY <1>2 DEF Judge
  <2>2. t \in Domains
    BY <1>1, <2>1, TargetsAreDomains
  <2>3. Look(Checking("check", w.ask, t, FALSE), domains)
    BY <1>1, <2>2, LookBegins
  <2>. QED  BY <2>1, <2>3, LooksOn
<1>3. CASE w.pc = "default" /\ ~ok
  <2>1. Put(v, [NoVisit EXCEPT !.pc = "choose", !.ask = w.ask])
    BY <1>3 DEF Judge
  <2>2. Look([NoVisit EXCEPT !.pc = "choose", !.ask = w.ask], domains)
    BY LookElsewhere
  <2>. QED  BY <2>1, <2>2, LooksOn
<1>4. CASE w.pc = "check" /\ ok
  <2>1. PICK n \in IF w.ask.name = Nobody THEN Generated ELSE {w.ask.name} :
          Put(v, [w EXCEPT !.pc = "act", !.addr = <<n, w.target>>])
    BY <1>4 DEF Judge
  <2>. DEFINE u == [w EXCEPT !.pc = "act", !.addr = <<n, w.target>>]
  <2>2. u.pc = "act" /\ u.ask = w.ask /\ u.target = w.target /\ u.seen = w.seen
    BY <1>1 DEF VisitType
  <2>3. Put(v, u)
    BY <2>1
  <2>. HIDE DEF u
  <2>4. Look(u, domains)
    BY <1>4, <2>2 DEF Look
  <2>. QED  BY <2>3, <2>4, LooksOn
<1>5. CASE w.pc = "check" /\ ~ok
  <2>1. Put(v, [w EXCEPT !.pc = "refused"])
    BY <1>5 DEF Judge
  <2>. DEFINE u == [w EXCEPT !.pc = "refused"]
  <2>2. u.pc = "refused" /\ u.ask = w.ask /\ u.target = w.target /\ u.seen = w.seen
    BY <1>1 DEF VisitType
  <2>3. Put(v, u)
    BY <2>1
  <2>. HIDE DEF u
  <2>4. Look(u, domains)
    BY <1>5, <2>2 DEF Look
  <2>. QED  BY <2>3, <2>4, LooksOn
<1>. QED  BY <1>2, <1>3, <1>4, <1>5

\* The next query of a check.
LEMMA AskLooks ==
  ASSUME LookInv, NEW v \in Visitors, AskDomain(v)
  PROVE  AllLook'
<1>. SUFFICES ASSUME NEW w, w = visit[v], NEW status, status = domains[w.at],
                     NEW ok, ok = Accessible(w.ask.caller, w.target, w.at, status)
              PROVE  AllLook'
  OBVIOUS
<1>1. /\ w \in VisitType /\ w.ask \in YydsAsks /\ w.target \in Domains /\ w.at \in Domains
      /\ w.pc \in {"default", "check"} /\ UNCHANGED domains /\ Look(w, domains) /\ domains \in Tables
  BY VisitParts DEF LookInv, AllLook, Looks, YydsInv, VisitPlace, AskDomain
<1>2. ASSUME w.pc = "check", OneMoved(w.seen)
      PROVE  \E t \in w.seen : /\ ComesTo(w.target, On(t), w.at) /\ t[w.at] = status
                               /\ \A e \in Domains : Labels[e] <= Labels[w.at] => t[e] = domains[e]
  <2>1. Labels[w.at] <= Labels[w.at]
    BY <1>1, RulesAssumption
  <2>. QED  BY <1>1, <1>2, <2>1 DEF Look
<1>3. CASE status # "off"
  <2>0. ok \in BOOLEAN
    BY DEF Accessible, IsDomainAllowed
  <2>1. ASSUME w.pc = "check", OneMoved(w.seen)
        PROVE  \E t \in w.seen : ok = MayUse(w.ask.caller, w.target, t)
    <3>1. PICK t \in w.seen : ComesTo(w.target, On(t), w.at) /\ t[w.at] = status
      BY <1>2, <2>1
    <3>2. On(t) \cup {w.at} = On(t)
      BY <1>1, <1>3, <3>1 DEF On
    <3>3. Match(w.target, On(t)) = w.at
      BY <3>1, <3>2 DEF ComesTo
    <3>4. w.at # NoDomain
      BY <1>1, RulesAssumption
    <3>5. MayUse(w.ask.caller, w.target, t) <=> ok
      BY <3>1, <3>3, <3>4 DEF MayUse, On
    <3>6. MayUse(w.ask.caller, w.target, t) \in BOOLEAN
      BY DEF MayUse
    <3>. QED  BY <3>1, <3>5, <3>6, <2>0
  <2>2. CASE ok
    <3>1. Judge(v, TRUE)
      BY <1>3, <2>2 DEF AskDomain, Judge
    <3>. QED  BY <1>1, <2>1, <2>2, <3>1, JudgeLooks
  <2>3. CASE ~ok
    <3>1. Judge(v, FALSE)
      BY <1>3, <2>3 DEF AskDomain, Judge
    <3>2. ok = FALSE
      BY <2>0, <2>3
    <3>. QED  BY <1>1, <2>1, <3>1, <3>2, JudgeLooks
  <2>. QED  BY <2>2, <2>3
<1>4. CASE status = "off" /\ NextCandidate(w.at) # NoDomain
  <2>. DEFINE u == [w EXCEPT !.at = NextCandidate(@)]
  <2>1. /\ Put(v, u) /\ u.pc = w.pc /\ u.seen = w.seen /\ u.target = w.target
        /\ u.at = Parent[w.at] /\ Parent[w.at] \in Domains
    BY <1>1, <1>4, RulesAssumption DEF AskDomain, NextCandidate, VisitType
  <2>. HIDE DEF u
  <2>2. ASSUME u.pc = "check", OneMoved(u.seen)
        PROVE  \E t \in u.seen : /\ ComesTo(u.target, On(t), u.at)
                                 /\ \A e \in Domains : Labels[e] <= Labels[u.at] => t[e] = domains[e]
    <3>1. PICK t \in w.seen :
            /\ ComesTo(w.target, On(t), w.at) /\ t[w.at] = status
            /\ \A e \in Domains : Labels[e] <= Labels[w.at] => t[e] = domains[e]
      BY <1>2, <2>1, <2>2
    <3>2. w.at \in Domains \ On(t)
      BY <1>1, <1>4, <3>1 DEF On
    <3>3. ComesTo(w.target, On(t), Parent[w.at])
      BY <1>1, <2>1, <3>1, <3>2, ComesToParent
    <3>4. \A e \in Domains : Labels[e] <= Labels[Parent[w.at]] => Labels[e] <= Labels[w.at]
      <4>1. /\ Labels[Parent[w.at]] < Labels[w.at] /\ Labels[w.at] \in Nat
            /\ Labels[Parent[w.at]] \in Nat /\ \A e \in Domains : Labels[e] \in Nat
        BY <1>1, <2>1, RulesAssumption
      <4>. QED  BY <4>1
    <3>. QED  BY <2>1, <3>1, <3>3, <3>4
  <2>3. Look(u, domains)
    BY <1>1, <2>1, <2>2 DEF Look
  <2>. QED  BY <1>1, <2>1, <2>3, LooksOn
<1>5. CASE status = "off" /\ NextCandidate(w.at) = NoDomain
  <2>1. Judge(v, FALSE)
    BY <1>5 DEF AskDomain
  <2>2. ASSUME w.pc = "check", OneMoved(w.seen)
        PROVE  \E t \in w.seen : FALSE = MayUse(w.ask.caller, w.target, t)
    <3>1. PICK t \in w.seen : ComesTo(w.target, On(t), w.at) /\ t[w.at] = status
      BY <1>2, <2>2
    <3>2. w.at \notin On(t) /\ Parent[w.at] = NoDomain
      BY <1>5, <3>1 DEF On, NextCandidate
    <3>3. Match(w.target, On(t)) = NoDomain
      BY <1>1, <3>1, <3>2, GoesOnFrom, MatchFinds
    <3>. QED  BY <3>3 DEF MayUse, On
  <2>. QED  BY <1>1, <2>1, <2>2, JudgeLooks
<1>. QED  BY <1>3, <1>4, <1>5

LEMMA AnswerLooks ==
  ASSUME LookInv, NEW v \in Visitors, Answer(v), UNCHANGED domains
  PROVE  AllLook'
<1>1. Look(NoVisit, domains)
  BY DEF NoVisit, Look
<1>. QED  BY <1>1, LooksOn DEF Answer

LEMMA CheckLooks ==
  ASSUME LookInv, NEW v \in Visitors, NEW ask \in YydsAsks, NEW t \in Domains,
         NEW chosen \in BOOLEAN, NEW pc \in {"default", "check"},
         Put(v, Checking(pc, ask, t, chosen)), UNCHANGED domains
  PROVE  AllLook'
<1>1. Look(Checking(pc, ask, t, chosen), domains)
  BY LookBegins DEF LookInv, YydsInv
<1>. QED  BY <1>1, LooksOn

\* The steps that ask for no domain: a check begins or the request goes elsewhere.
LEMMA OtherPlacesLook ==
  ASSUME LookInv, NEW v \in Visitors,
         Visit(v) \/ FindByID(v) \/ Choose(v) \/ Create(v) \/ Remove(v) \/ End(v)
  PROVE  AllLook'
<1>. SUFFICES ASSUME NEW w, w = visit[v]  PROVE AllLook'
  OBVIOUS
<1>1. /\ w \in VisitType /\ UNCHANGED domains /\ Look(w, domains) /\ YydsTypeOK
      /\ w.pc # "idle" => w.ask \in YydsAsks
      /\ boxes \subseteq Addresses
  BY VisitParts DEF LookInv, AllLook, Looks, YydsInv, YydsTypeOK, VisitPlace, Visit, FindByID,
                    Choose, Create, Remove, End
<1>2. CASE Answer(v)
  BY <1>1, <1>2, AnswerLooks
<1>3. CASE Visit(v)
  <2>1. PICK ask \in YydsAsks :
          IF ask.kind = "delete" THEN Put(v, [NoVisit EXCEPT !.pc = "find", !.ask = ask])
          ELSE IF ask.domain # NoDomain
            THEN \E t \in Targets(ask.domain, ask.sub) : Put(v, Checking("check", ask, t, FALSE))
          ELSE IF ask.own # NoDomain THEN Put(v, Checking("default", ask, ask.own, FALSE))
          ELSE Put(v, [NoVisit EXCEPT !.pc = "choose", !.ask = ask])
    BY <1>3 DEF Visit
  <2>2. ask.domain \in Domains \cup {NoDomain} /\ ask.own \in Domains \cup {NoDomain}
    BY YydsAskParts
  <2>3. ASSUME NEW pc \in {"find", "choose"}, Put(v, [NoVisit EXCEPT !.pc = pc, !.ask = ask])
        PROVE  AllLook'
    BY <1>1, <2>3, LookElsewhere, LooksOn
  <2>4. CASE ask.own # NoDomain /\ Put(v, Checking("default", ask, ask.own, FALSE))
    BY <1>1, <2>2, <2>4, CheckLooks
  <2>5. ASSUME ask.domain # NoDomain, NEW t \in Targets(ask.domain, ask.sub),
               Put(v, Checking("check", ask, t, FALSE))
        PROVE  AllLook'
    BY <1>1, <2>2, <2>5, TargetsAreDomains, CheckLooks
  <2>. QED  BY <2>1, <2>3, <2>4, <2>5
<1>4. CASE FindByID(v) /\ ~Answer(v)
  <2>. SUFFICES ASSUME NEW addr, addr = <<w.ask.name, w.ask.domain>>  PROVE AllLook'
    OBVIOUS
  <2>1. w.pc = "find" /\ addr \in boxes /\ w.ask \in YydsAsks
    BY <1>1, <1>4 DEF FindByID
  <2>2. CASE w.ask.caller.kind = "jwt"
    <3>. DEFINE u == [w EXCEPT !.pc = "act", !.addr = addr]
    <3>1. Put(v, u)
      BY <1>4, <2>1, <2>2 DEF FindByID
    <3>2. u.pc = "act" /\ u.seen = {}
      BY <1>1, <2>1 DEF VisitType, Look
    <3>. HIDE DEF u
    <3>3. Look(u, domains)
      BY <3>2 DEF Look
    <3>. QED  BY <1>1, <3>1, <3>3, LooksOn
  <2>3. CASE w.ask.caller.kind # "jwt"
    <3>1. Put(v, Checking("check", w.ask, w.ask.domain, FALSE))
      BY <1>4, <2>1, <2>3 DEF FindByID
    <3>2. w.ask.domain \in Domains
      BY <1>1, <2>1 DEF Addresses
    <3>. QED  BY <1>1, <2>1, <3>1, <3>2, CheckLooks
  <2>. QED  BY <2>2, <2>3
<1>5. CASE Choose(v) /\ ~Answer(v)
  <2>1. PICK d \in Visible(w.ask.caller, domains) :
          \E t \in Targets(d, w.ask.sub) : Put(v, Checking("check", w.ask, t, ~w.ask.sub))
    BY <1>5 DEF Choose
  <2>2. PICK t \in Targets(d, w.ask.sub) : Put(v, Checking("check", w.ask, t, ~w.ask.sub))
    BY <2>1
  <2>3. w.ask \in YydsAsks /\ t \in Domains
    BY <1>1, <1>5, TargetsAreDomains DEF Choose, Visible
  <2>4. (~w.ask.sub) \in BOOLEAN
    OBVIOUS
  <2>. QED  BY <1>1, <2>2, <2>3, <2>4, CheckLooks
<1>6. CASE Create(v) /\ ~Answer(v)
  <2>1. PICK n \in Generated : Put(v, [w EXCEPT !.tries = @ + 1, !.addr = <<n, w.addr[2]>>])
    BY <1>6 DEF Create
  <2>. DEFINE u == [w EXCEPT !.tries = @ + 1, !.addr = <<n, w.addr[2]>>]
  <2>2. /\ u.pc = w.pc /\ w.pc = "act" /\ u.ask = w.ask /\ u.target = w.target
        /\ u.seen = w.seen
    BY <1>1, <1>6 DEF VisitType, Create
  <2>3. Put(v, u)
    BY <2>1
  <2>. HIDE DEF u
  <2>4. Look(u, domains)
    BY <1>1, <2>2 DEF Look
  <2>. QED  BY <1>1, <2>3, <2>4, LooksOn
<1>7. CASE Remove(v)
  BY <1>2, <1>7 DEF Remove
<1>8. CASE End(v) /\ ~Answer(v)
  <2>1. w.pc = "default" /\ Judge(v, FALSE)
    BY <1>8 DEF End
  <2>. QED  BY <1>1, <2>1, JudgeLooks
<1>. QED  BY <1>2, <1>3, <1>4, <1>5, <1>6, <1>7, <1>8

\* A domain changes: if it is one of those still to come, the new table is the one,
\* for those that are behind have not changed; otherwise the old one still is.
LEMMA ChangeLooks ==
  ASSUME LookInv, ChangeDomain
  PROVE  AllLook'
<1>1. ASSUME NEW v \in Visitors  PROVE Looks(v)'
  <2>. SUFFICES ASSUME NEW w, w = visit[v], NEW u, u = visit'[v], NEW new, new = domains'
                PROVE  Look(u, new)
    BY DEF Looks
  <2>1. /\ w \in VisitType /\ Look(w, domains)
        /\ w.pc \in {"default", "check"} => w.target \in Domains /\ w.at \in Domains
    BY VisitParts DEF LookInv, AllLook, Looks, YydsInv, VisitPlace
  <2>2. u = IF w.pc \notin {"default", "check"} THEN w ELSE [w EXCEPT !.seen = @ \cup {new}]
    BY DEF ChangeDomain
  <2>3. CASE w.pc \notin {"default", "check"}
    BY <2>1, <2>2, <2>3 DEF Look
  <2>4. CASE w.pc \in {"default", "check"}
    <3>1. /\ u.pc = w.pc /\ u.target = w.target /\ u.at = w.at /\ u.seen = w.seen \cup {new}
      BY <2>1, <2>2, <2>4 DEF VisitType
    <3>2. ASSUME w.pc = "check", OneMoved(u.seen)
          PROVE  \E t \in u.seen : /\ ComesTo(w.target, On(t), w.at)
                                   /\ \A e \in Domains : Labels[e] <= Labels[w.at] => t[e] = new[e]
      <4>1. PICK d \in Domains : \A s, t \in u.seen : \A e \in Domains \ {d} : s[e] = t[e]
        BY <3>2 DEF OneMoved
      <4>2. OneMoved(w.seen)
        BY <3>1, <4>1 DEF OneMoved
      <4>3. PICK t \in w.seen : ComesTo(w.target, On(t), w.at)
        BY <2>1, <3>2, <4>2 DEF Look
      <4>4. \A e \in Domains \ {d} : t[e] = new[e]
        BY <3>1, <4>1, <4>3
      <4>5. CASE Labels[d] <= Labels[w.at]
        <5>1. \A e \in Domains : ~(Labels[e] <= Labels[w.at]) => (e \in On(t) <=> e \in On(new))
          BY <4>4, <4>5 DEF On
        <5>2. ComesTo(w.target, On(new), w.at)
          BY <2>1, <3>2, <4>3, <5>1, ComesToAlike
        <5>. QED  BY <3>1, <5>2
      <4>6. CASE ~(Labels[d] <= Labels[w.at])
        BY <3>1, <4>3, <4>4, <4>6
      <4>. QED  BY <4>5, <4>6
    <3>. QED  BY <2>4, <3>1, <3>2 DEF Look
  <2>. QED  BY <2>3, <2>4
<1>. QED  BY <1>1 DEF AllLook

LEMMA LooksBegin == YydsInit => AllLook
<1>1. Look(NoVisit, domains)
  BY DEF NoVisit, Look
<1>. QED  BY <1>1 DEF YydsInit, AllLook, Looks

LEMMA LooksStay == LookInv /\ [YydsNext]_yydsVars => LookInv'
<1>. SUFFICES ASSUME LookInv, [YydsNext]_yydsVars  PROVE LookInv'
  OBVIOUS
<1>1. YydsInv'
  BY YydsStep DEF LookInv
<1>2. CASE \E v \in Visitors : VisitorStep(v)
  <2>1. PICK v \in Visitors : VisitorStep(v)
    BY <1>2
  <2>2. AllLook'
    BY <2>1, AskLooks, OtherPlacesLook DEF VisitorStep
  <2>. QED  BY <1>1, <2>2 DEF LookInv
<1>3. CASE ChangeDomain
  BY <1>1, <1>3, ChangeLooks DEF LookInv
<1>4. CASE OtherRequest \/ UNCHANGED yydsVars
  <2>1. UNCHANGED <<domains, visit>>
    BY <1>4 DEF OtherRequest, yydsVars
  <2>2. AllLook'
    BY <2>1 DEF LookInv, AllLook, Looks, Look
  <2>. QED  BY <1>1, <2>2 DEF LookInv
<1>. QED  BY <1>2, <1>3, <1>4 DEF YydsNext

(***************************************************************************)
(* The queries of a check, one per candidate, decide as a single look at   *)
(* the domains would have, at some moment of the check, whatever one       *)
(* domain does meanwhile (ensureDomainAccessible, domainutil.Candidates).  *)
(***************************************************************************)
THEOREM ChecksAreAtomic == YydsSpec => []DecidedAtOnce
<1>1. LookInv => DecidedAtOnce
  BY DEF LookInv, AllLook, Looks, Look, OneMoved, DecidedAtOnce
<1>2. YydsInit => LookInv
  BY YydsBegins, LooksBegin DEF LookInv
<1>. QED  BY <1>1, <1>2, LooksStay, PTL DEF YydsSpec
==============================================================================
