---------------------------- MODULE StorageProofs -----------------------------
(***************************************************************************)
(* Proofs about what the system stores: the runs that collect orphaned     *)
(* objects do not overlap, a stored message keeps its raw source, and the  *)
(* quota bounds what an account holds.  They rest on the invariants of     *)
(* MailSystemProofs.                                                       *)
(***************************************************************************)
EXTENDS MailSystemProofs

USE StoreAssumption, CollectorAssumption

(***************************************************************************)
(* While a run goes on its lock is in Redis, and has at least as much life *)
(* left as the run's age leaves it.                                        *)
(***************************************************************************)
LockInv ==
  \A g \in Collectors :
    /\ gpc[g] = "idle" => elapsed[g] = 0
    /\ Running(g) => lock = g /\ ttl + elapsed[g] >= LockTTL

LEMMA LockInit == GcInit => LockInv
BY DEF GcInit, LockInv, Running

LEMMA LockStutter ==
  ASSUME LockInv, UNCHANGED gcVars
  PROVE  LockInv'
BY DEF LockInv, Running, gcVars

\* A step of a run, or its end, that leaves lock and time alone.
LEMMA LockStepTo ==
  ASSUME GcTypeOK, LockInv, NEW g \in Collectors, Running(g),
         NEW l \in {"check", "delete", "unlock"},
         gpc' = [gpc EXCEPT ![g] = l], UNCHANGED <<lock, ttl, elapsed>>
  PROVE  LockInv'
BY DEF GcTypeOK, LockInv, Running

LEMMA LockNext ==
  ASSUME GcTypeOK, LockInv, GcNext
  PROVE  LockInv'
<1>1. ASSUME NEW g \in Collectors, Acquire(g)  PROVE LockInv'
  <2>1. \A h \in Collectors : ~Running(h)
    BY <1>1 DEF Acquire, LockInv
  <2>. QED  BY <1>1, <2>1 DEF Acquire, GcTypeOK, LockInv, Running
<1>2. ASSUME NEW g \in Collectors,
             ListMessageIDs(g) \/ ExistingMessageIDs(g) \/ DeletedAll(g) \/ GiveUp(g)
      PROVE  LockInv'
  BY <1>2, LockStepTo DEF ListMessageIDs, ExistingMessageIDs, DeletedAll, GiveUp,
                          StepTo, OutOfTime
<1>3. ASSUME NEW g \in Collectors, NEW o \in Oids, DeleteNext(g, o)  PROVE LockInv'
  BY <1>3, LockStepTo DEF DeleteNext, StepTo
<1>4. ASSUME NEW g \in Collectors, Unlock(g) \/ CollectorCrash(g)  PROVE LockInv'
  BY <1>4 DEF Unlock, CollectorCrash, Forget, GcTypeOK, LockInv, Running
<1>5. ASSUME Tick  PROVE LockInv'
  <2>1. ASSUME NEW g \in Collectors, Running(g)
        PROVE  /\ elapsed'[g] = elapsed[g] + 1
               /\ ttl' = ttl - 1
               /\ lock' = lock
    <3>1. /\ elapsed[g] \in Nat /\ elapsed[g] < RunBudget
          /\ ttl + elapsed[g] >= LockTTL
          /\ ttl \in Nat
      BY <1>5, <2>1 DEF Tick, OutOfTime, GcTypeOK, LockInv
    <3>2. ttl > 1
      BY <3>1
    <3>. QED  BY <1>5, <2>1, <3>1, <3>2 DEF Tick
  <2>2. ASSUME NEW g \in Collectors, ~Running(g)  PROVE elapsed'[g] = elapsed[g]
    BY <1>5, <2>2 DEF Tick
  <2>3. UNCHANGED gpc /\ (\A g \in Collectors : Running(g)' <=> Running(g))
    BY <1>5 DEF Tick, Running
  <2>. QED  BY <2>1, <2>2, <2>3 DEF GcTypeOK, LockInv, Running
<1>. QED  BY <1>1, <1>2, <1>3, <1>4, <1>5 DEF GcNext, CollectorStep

(***************************************************************************)
(* The lock keeps the runs apart: a run ends within its budget, which is   *)
(* shorter than the life of the lock it holds.                             *)
(***************************************************************************)
THEOREM RunsApart == Spec => []OneCollector
<1>1. LockInv => OneCollector
  BY DEF LockInv, OneCollector
<1>2. Init => LockInv
  BY LockInit DEF Init
<1>3. Shape /\ LockInv /\ [Next]_vars => LockInv'
  <2>1. Shape /\ LockInv /\ GcNext => LockInv'
    BY LockNext DEF Shape, TypeOK
  <2>2. LockInv /\ UNCHANGED gcVars => LockInv'
    BY LockStutter
  <2>. QED  BY <2>1, <2>2 DEF Next, vars
<1>. QED  BY <1>1, <1>2, <1>3, ShapeInit, ShapeNext, PTL DEF Spec

------------------------------------------------------------------------------
(***************************************************************************)
(* Object ids are used once.  A delivery waits in one buffer or is handled *)
(* by one worker, so that the id of its attempt for a recipient can only   *)
(* come up once, and never after it has been given up or inserted.         *)
(***************************************************************************)
Busy(w) == pc[w] # "idle"

DeliveryInv ==
  /\ \A d \in flight : d[2] <= delivered[d[1]]
  /\ \A w \in Workers : Busy(w) => /\ attempt[w] <= delivered[job[w]]
                                   /\ <<job[w], attempt[w]>> \notin flight
  /\ \A w, v \in Workers :
       Busy(w) /\ Busy(v) /\ job[w] = job[v] /\ attempt[w] = attempt[v] => w = v

\* The worker may still insert a document with the id o.
Takes(w, o) ==
  /\ Busy(w) /\ job[w] = o[1] /\ attempt[w] = o[3]
  /\ o[2] \in todo[w]
  /\ ~(pc[w] = "rollback" /\ rcpt[w] = o[2])

Coming(o) ==
  \/ o[3] > delivered[o[1]]
  \/ <<o[1], o[3]>> \in flight
  \/ \E w \in Workers : Takes(w, o)

\* The steps of a worker that neither take a delivery nor let go of it.
Holds(w) == UNCHANGED <<delivered, flight, job, attempt>> /\ Busy(w) /\ Busy(w)'
            /\ \A v \in Workers \ {w} : /\ pc'[v] = pc[v] /\ todo'[v] = todo[v]
                                        /\ rcpt'[v] = rcpt[v]

LEMMA ReturnHolds ==
  ASSUME Shape, NEW w \in Workers, Busy(w), NEW a, NEW r, Return(w, a, r),
         UNCHANGED <<delivered, flight>>
  PROVE  Holds(w) /\ todo'[w] = todo[w] \ {a} /\ pc'[w] = "next"
BY DEF Shape, TypeOK, IngestTypeOK, Return, Goto, Holds, Busy

LEMMA ProceedHolds ==
  ASSUME Shape, NEW w \in Workers, Busy(w), NEW l, l # "idle",
         Proceed(w, l), UNCHANGED <<delivered, flight>>
  PROVE  Holds(w) /\ todo'[w] = todo[w] /\ rcpt'[w] = rcpt[w] /\ pc'[w] = l
BY DEF Shape, TypeOK, IngestTypeOK, Proceed, Goto, Holds, Busy

LEMMA AbortHolds ==
  ASSUME Shape, NEW w \in Workers, Busy(w), NEW r, Abort(w, r),
         UNCHANGED <<delivered, flight>>
  PROVE  Holds(w) /\ todo'[w] = todo[w] /\ rcpt'[w] = rcpt[w] /\ pc'[w] = "rollback"
BY DEF Shape, TypeOK, IngestTypeOK, Abort, Goto, Holds, Busy

\* What every step of a worker inside the loop does with its recipients: none is
\* added, and the one to be rolled back is kept or left behind.
LEMMA InLoop ==
  ASSUME Shape, NEW w \in Workers,
         \/ \E a \in Accounts : LookupAccount(w, a)
         \/ CheckIngested(w) \/ Reserve(w) \/ Aggregate(w) \/ WriteBack(w)
         \/ ParseAndUpload(w) \/ Panic(w) \/ Insert(w) \/ Rollback(w)
  PROVE  /\ Holds(w) /\ pc'[w] \in WorkerPCs /\ todo'[w] \subseteq todo[w]
         /\ pc[w] = "rollback" => rcpt[w] \notin todo'[w]
         /\ pc'[w] = "insert" => pc[w] = "parse" /\ rcpt'[w] = rcpt[w]
<1>. USE DEF Busy, queueVars
<1>1. ASSUME NEW a \in Accounts, LookupAccount(w, a)
      PROVE  /\ Holds(w) /\ todo'[w] \subseteq todo[w] /\ pc'[w] \in {"next", "dedup"}
             /\ pc[w] = "next"
  <2>1. pc[w] = "next" /\ UNCHANGED <<delivered, flight>>
    BY <1>1 DEF LookupAccount
  <2>2. CASE \E r \in {"transient", "permanent"} : Return(w, a, r)
    BY <2>1, <2>2, ReturnHolds
  <2>3. CASE Goto(w, "dedup") /\ rcpt' = [rcpt EXCEPT ![w] = a] /\ UNCHANGED <<job, attempt, todo>>
    BY <2>1, <2>3 DEF Holds, Goto, Shape, TypeOK, IngestTypeOK
  <2>. QED  BY <1>1, <2>1, <2>2, <2>3 DEF LookupAccount
<1>2. ASSUME CheckIngested(w) \/ Reserve(w)
      PROVE  /\ Holds(w) /\ todo'[w] \subseteq todo[w]
             /\ pc'[w] \in {"next", "reserve", "aggregate", "parse"}
             /\ pc[w] # "rollback"
  <2>1. pc[w] \in {"dedup", "reserve", "reserveAgain"} /\ UNCHANGED <<delivered, flight>>
    BY <1>2 DEF CheckIngested, Reserve
  <2>2. CASE \E r \in {"ok", "transient", "permanent"} : Return(w, rcpt[w], r)
    BY <2>1, <2>2, ReturnHolds
  <2>3. CASE \E l \in {"reserve", "aggregate", "parse"} : Proceed(w, l)
    BY <2>1, <2>3, ProceedHolds
  <2>. QED  BY <1>2, <2>1, <2>2, <2>3 DEF CheckIngested, Reserve
<1>3. ASSUME Aggregate(w) \/ WriteBack(w)
      PROVE  /\ Holds(w) /\ todo'[w] \subseteq todo[w] /\ pc'[w] \in {"writeBack", "reserveAgain"}
             /\ pc[w] # "rollback"
  <2>1. /\ pc[w] \in {"aggregate", "writeBack"}
        /\ UNCHANGED <<delivered, flight, job, attempt, todo, rcpt>>
        /\ Goto(w, "writeBack") \/ Goto(w, "reserveAgain")
    BY <1>3 DEF Aggregate, WriteBack, Proceed
  <2>. QED  BY <2>1 DEF Holds, Goto, Shape, TypeOK, IngestTypeOK
<1>4. ASSUME ParseAndUpload(w) \/ Panic(w)
      PROVE  /\ Holds(w) /\ todo'[w] \subseteq todo[w] /\ pc'[w] \in {"insert", "rollback"}
             /\ pc[w] = "parse" /\ rcpt'[w] = rcpt[w]
  <2>1. pc[w] = "parse" /\ UNCHANGED <<delivered, flight>>
    BY <1>4 DEF ParseAndUpload, Panic
  <2>2. CASE ParseAndUpload(w)
    BY <2>1, <2>2, AbortHolds, ProceedHolds DEF ParseAndUpload
  <2>3. CASE Panic(w)
    <3>1. rcpt[w] \in todo[w]
      BY <2>1 DEF Shape, WorkerInv, InRecipient
    <3>. QED  BY <2>1, <2>3, <3>1 DEF Panic, Holds, Goto, Shape, TypeOK, IngestTypeOK
  <2>. QED  BY <1>4, <2>1, <2>2, <2>3
<1>5. ASSUME Insert(w)
      PROVE  /\ Holds(w) /\ todo'[w] \subseteq todo[w] /\ pc'[w] \in {"next", "rollback"}
             /\ pc[w] = "insert"
  <2>1. pc[w] = "insert" /\ UNCHANGED <<delivered, flight>>
    BY <1>5 DEF Insert
  <2>2. Return(w, rcpt[w], "ok") \/ \E r \in {"ok", "transient"} : Abort(w, r)
    BY <1>5 DEF Insert, Commit
  <2>. QED  BY <2>1, <2>2, ReturnHolds, AbortHolds
<1>6. ASSUME Rollback(w)
      PROVE  /\ Holds(w) /\ todo'[w] = todo[w] \ {rcpt[w]} /\ pc'[w] = "next"
             /\ pc[w] = "rollback"
  BY <1>6, ReturnHolds DEF Rollback
<1>. QED  BY <1>1, <1>2, <1>3, <1>4, <1>5, <1>6 DEF WorkerPCs

LEMMA ComingShrinks ==
  ASSUME Shape, DeliveryInv, [Next]_vars
  PROVE  DeliveryInv' /\ \A o \in Oids : Coming(o)' => Coming(o)
<1>. USE DEF Busy
<1>0. /\ \A o \in Oids : o[1] \in Msgs /\ o[2] \in Accounts /\ o[3] \in 1..MaxDeliver
      /\ \A w \in Workers : Busy(w) => job[w] \in Msgs /\ attempt[w] \in 1..MaxDeliver
      /\ \A m \in Msgs : delivered[m] \in Nat
      /\ \A d \in flight : d \in Msgs \X (1..MaxDeliver)
  BY DEF Oids, Shape, WorkerInv, TypeOK, IngestTypeOK
<1>1. ASSUME NEW w \in Workers, NEW m \in Msgs, NEW n \in 1..MaxDeliver, Receive(w, m, n)
      PROVE  DeliveryInv' /\ \A o \in Oids : Coming(o)' => Coming(o)
  <2>1. /\ <<m, n>> \in flight /\ flight' = flight \ {<<m, n>>} /\ UNCHANGED delivered
        /\ ~Busy(w) /\ job'[w] = m /\ attempt'[w] = n
        /\ pc'[w] \in {"settle", "next"}
        /\ \A v \in Workers \ {w} : /\ pc'[v] = pc[v] /\ job'[v] = job[v]
                                    /\ attempt'[v] = attempt[v]
                                    /\ todo'[v] = todo[v] /\ rcpt'[v] = rcpt[v]
    BY <1>1 DEF Receive, Goto, Shape, TypeOK, IngestTypeOK
  <2>2. DeliveryInv'
    BY <2>1 DEF DeliveryInv
  <2>3. ASSUME NEW o \in Oids, Coming(o)'  PROVE Coming(o)
    BY <2>1, <2>3 DEF Coming, Takes
  <2>. QED  BY <2>2, <2>3
<1>2. ASSUME NEW w \in Workers,
             \/ \E a \in Accounts : LookupAccount(w, a)
             \/ CheckIngested(w) \/ Reserve(w) \/ Aggregate(w) \/ WriteBack(w)
             \/ ParseAndUpload(w) \/ Panic(w) \/ Insert(w) \/ Rollback(w)
      PROVE  DeliveryInv' /\ \A o \in Oids : Coming(o)' => Coming(o)
  <2>1. /\ Holds(w) /\ todo'[w] \subseteq todo[w]
        /\ pc[w] = "rollback" => rcpt[w] \notin todo'[w]
    BY <1>2, InLoop
  <2>2. DeliveryInv'
    BY <2>1 DEF DeliveryInv, Holds
  <2>3. ASSUME NEW o \in Oids, Coming(o)'  PROVE Coming(o)
    <3>1. ASSUME NEW v \in Workers, Takes(v, o)'  PROVE Takes(v, o)
      BY <2>1, <3>1 DEF Takes, Holds
    <3>. QED  BY <2>1, <2>3, <3>1 DEF Coming, Holds
  <2>. QED  BY <2>2, <2>3
<1>3. ASSUME NEW w \in Workers, Settle(w) \/ Crash(w)
      PROVE  DeliveryInv' /\ \A o \in Oids : Coming(o)' => Coming(o)
  <2>1. BecomeIdle(w) /\ UNCHANGED <<delivered, flight>>
    BY <1>3 DEF Settle, Crash, queueVars
  <2>2. /\ pc'[w] = "idle"
        /\ \A v \in Workers \ {w} : /\ pc'[v] = pc[v] /\ job'[v] = job[v]
                                    /\ attempt'[v] = attempt[v]
                                    /\ todo'[v] = todo[v] /\ rcpt'[v] = rcpt[v]
    BY <2>1 DEF BecomeIdle, Goto, Shape, TypeOK, IngestTypeOK
  <2>3. DeliveryInv'
    BY <2>1, <2>2 DEF DeliveryInv
  <2>4. ASSUME NEW o \in Oids, Coming(o)'  PROVE Coming(o)
    BY <2>1, <2>2, <2>4 DEF Coming, Takes
  <2>. QED  BY <2>3, <2>4
<1>4. ASSUME NEW m \in Msgs, QueueStep(m)
      PROVE  DeliveryInv' /\ \A o \in Oids : Coming(o)' => Coming(o)
  <2>1. UNCHANGED <<pc, job, attempt, todo, rcpt>>
    BY <1>4 DEF QueueStep, Publish, Deliver, LoseDelivery, AckWaitExpires, AgeOut, workerVars
  <2>2. CASE Deliver(m)
    <3>1. /\ delivered' = [delivered EXCEPT ![m] = @ + 1]
          /\ flight' = flight \cup {<<m, delivered[m] + 1>>}
      BY <2>2 DEF Deliver
    <3>2. \A k \in Msgs : delivered'[k] = IF k = m THEN delivered[k] + 1 ELSE delivered[k]
      BY <3>1 DEF Shape, TypeOK, IngestTypeOK
    <3>3. ASSUME NEW d \in flight'  PROVE d[2] <= delivered'[d[1]]
      BY <1>0, <3>1, <3>2 DEF DeliveryInv
    <3>4. ASSUME NEW w \in Workers, Busy(w)
          PROVE  attempt[w] <= delivered'[job[w]] /\ <<job[w], attempt[w]>> \notin flight'
      BY <1>0, <3>1, <3>2, <3>4 DEF DeliveryInv
    <3>5. DeliveryInv'
      BY <2>1, <3>3, <3>4 DEF DeliveryInv
    <3>6. ASSUME NEW o \in Oids, Coming(o)'  PROVE Coming(o)
      <4>1. CASE o[3] > delivered'[o[1]]
        BY <1>0, <3>2, <4>1 DEF Coming
      <4>2. CASE <<o[1], o[3]>> \in flight'
        BY <1>0, <3>1, <4>2 DEF Coming
      <4>3. CASE (\E w \in Workers : Takes(w, o))'
        BY <2>1, <4>3 DEF Coming, Takes
      <4>. QED  BY <3>6, <4>1, <4>2, <4>3 DEF Coming
    <3>. QED  BY <3>5, <3>6
  <2>3. CASE ~Deliver(m)
    <3>1. delivered' = delivered /\ flight' \subseteq flight
      BY <1>4, <2>3 DEF QueueStep, Publish, LoseDelivery, AckWaitExpires, AgeOut
    <3>. QED  BY <2>1, <3>1 DEF DeliveryInv, Coming, Takes
  <2>. QED  BY <2>2, <2>3
<1>5. CASE UNCHANGED ingestVars
  BY <1>5 DEF ingestVars, queueVars, workerVars, DeliveryInv, Coming, Takes
<1>. QED  BY <1>1, <1>2, <1>3, <1>4, <1>5 DEF Next, IngestNext, WorkerStep, vars

------------------------------------------------------------------------------
(***************************************************************************)
(* The raw source of a stored message.  Nothing that removes objects has   *)
(* an id in hand that may still become a stored message: the background    *)
(* clean-ups have ids of documents that are gone for good, or of an insert *)
(* that came to nothing, and a collection has, besides those it has        *)
(* exposed, only ids whose document was soft-deleted.                      *)
(***************************************************************************)
Kept(o) == o \in obj \cup inline \cup exposed

ComingInv ==
  \A o \in Oids : Coming(o) => /\ doc[o] = "none" /\ o \notin cleanup
                               /\ \A c \in Clients : o \notin found[c]

LiveInv == \A o \in Oids : doc[o] = "live" => o \notin cleanup /\ Kept(o)

InsertInv == \A w \in Workers : pc[w] = "insert" => Kept(Oid(w))

DoomedInv ==
  \A g \in Collectors : \A o \in doomed[g] \ exposed : ~Coming(o) /\ doc[o] # "live"

FoundInv ==
  \A c \in Clients : \A o \in found[c] :
    /\ doc[o] = "live" => cpc[c] \in {"softDelete", "bulkUpdate", "eraseMany", "eraseAccount"}
    /\ cpc[c] = "bulkUpdate" /\ doc[o] = "live" => o \in batch[c]
    /\ cpc[c] = "eraseMany" => o[2] = cacct[c]

RawInv == ComingInv /\ LiveInv /\ InsertInv /\ DoomedInv /\ FoundInv

\* A step that makes no document, adds nothing to what the clients have found or
\* the clean-ups are to delete, and takes no object.
LEMMA RawQuiet ==
  ASSUME Shape, DeliveryInv, RawInv, [Next]_vars,
         \A o \in Oids : doc'[o] # "none" => doc[o] # "none",
         \A o \in Oids : doc'[o] = "live" => doc[o] = "live",
         cleanup' \subseteq cleanup,
         UNCHANGED <<cpc, cacct, found, batch>>,
         exposed \subseteq exposed', \A g \in Collectors : doomed'[g] \subseteq doomed[g],
         \A o \in Oids : Kept(o) => Kept(o)' \/ (o \in cleanup \ cleanup'),
         \A w \in Workers : pc'[w] = "insert" =>
           Kept(Oid(w))' \/ (pc[w] = "insert" /\ Oid(w)' = Oid(w))
  PROVE  RawInv'
<1>1. \A o \in Oids : Coming(o)' => Coming(o)
  BY ComingShrinks
<1>2. ComingInv'
  BY <1>1 DEF RawInv, ComingInv
<1>3. LiveInv'
  BY DEF RawInv, LiveInv
<1>4. InsertInv'
  <2>. SUFFICES ASSUME NEW w \in Workers, pc'[w] = "insert", pc[w] = "insert", Oid(w)' = Oid(w)
                PROVE  Kept(Oid(w))'
    BY DEF InsertInv
  <2>1. Coming(Oid(w)) /\ Oid(w) \in Oids
    <3>1. Oid(w) \in Oids
      BY Local DEF Shape, TypeOK, StoreAndWorkers, InRecipient
    <3>. QED  BY <3>1 DEF Coming, Takes, Busy, Oid, Shape, WorkerInv, InRecipient
  <2>2. Kept(Oid(w)) /\ Oid(w) \notin cleanup
    BY <2>1 DEF RawInv, InsertInv, ComingInv
  <2>3. \A o : o = Oid(w) => Kept(o)'
    BY <2>1, <2>2
  <2>. QED  BY <2>3 DEF Kept
<1>5. DoomedInv'
  BY <1>1 DEF RawInv, DoomedInv, Shape, TypeOK, GcTypeOK
<1>6. FoundInv'
  BY DEF RawInv, FoundInv, Shape, TypeOK, ApiTypeOK
<1>. QED  BY <1>2, <1>3, <1>4, <1>5, <1>6 DEF RawInv

LEMMA RawWorker ==
  ASSUME Shape, DeliveryInv, RawInv, [Next]_vars, NEW w \in Workers,
         WorkerStep(w) \/ Crash(w), ~Insert(w), UNCHANGED <<apiVars, gcVars>>
  PROVE  RawInv'
<1>1. UNCHANGED <<doc, cleanup, cpc, cacct, found, batch, doomed, exposed>>
  <2>1. UNCHANGED <<doc, cleanup>>
    BY DEF WorkerStep, Crash, Receive, LookupAccount, CheckIngested, Reserve, Aggregate,
           WriteBack, ParseAndUpload, Panic, Rollback, Settle, storeVars
  <2>. QED  BY <2>1 DEF apiVars, gcVars
<1>2. obj \subseteq obj' /\ inline \subseteq inline'
  BY DEF WorkerStep, Crash, Receive, LookupAccount, CheckIngested, Reserve, Aggregate,
         WriteBack, ParseAndUpload, KeepRawInline, Panic, Rollback, Settle, storeVars
<1>3. \A o \in Oids : Kept(o) => Kept(o)'
  BY <1>1, <1>2 DEF Kept
<1>4. \A v \in Workers \ {w} : pc'[v] = pc[v] /\ Oid(v)' = Oid(v)
  <2>1. CASE \E m \in Msgs, n \in 1..MaxDeliver : Receive(w, m, n)
    BY <2>1 DEF Receive, Goto, Oid, Shape, TypeOK, IngestTypeOK
  <2>2. CASE Settle(w) \/ Crash(w)
    BY <2>2 DEF Settle, Crash, BecomeIdle, Goto, Oid, Shape, TypeOK, IngestTypeOK
  <2>3. CASE Holds(w)
    BY <2>3 DEF Holds, Oid
  <2>. QED  BY <2>1, <2>2, <2>3, InLoop DEF WorkerStep
<1>5. ASSUME pc'[w] = "insert"  PROVE Kept(Oid(w))'
  <2>1. ~Settle(w) /\ ~Crash(w) /\ \A m \in Msgs, n \in 1..MaxDeliver : ~Receive(w, m, n)
    BY <1>5 DEF Settle, Crash, BecomeIdle, Receive, Goto, Shape, TypeOK, IngestTypeOK
  <2>2. pc[w] = "parse"
    BY <1>5, <2>1, InLoop DEF WorkerStep
  <2>3. ParseAndUpload(w)
    <3>1. ~Panic(w)
      BY <1>5 DEF Panic, Goto, Shape, TypeOK, IngestTypeOK
    <3>. QED  BY <2>1, <2>2, <3>1 DEF WorkerStep, LookupAccount, CheckIngested, Reserve,
                Aggregate, WriteBack, Insert, Rollback
  <2>4. ~Abort(w, "permanent")
    BY <1>5 DEF Abort, Goto, Shape, TypeOK, IngestTypeOK
  <2>5. Proceed(w, "insert") /\ Oid(w) \in obj' \cup inline'
    BY <2>3, <2>4 DEF ParseAndUpload, KeepRawInline
  <2>6. Oid(w)' = Oid(w)
    BY <2>5 DEF Proceed, Oid
  <2>. QED  BY <2>5, <2>6 DEF Kept
<1>. QED  BY <1>1, <1>3, <1>4, <1>5, RawQuiet

LEMMA RawInsert ==
  ASSUME Shape, DeliveryInv, RawInv, [Next]_vars, NEW w \in Workers, Insert(w),
         "ambiguous" \notin Faults, UNCHANGED <<apiVars, gcVars>>
  PROVE  RawInv'
<1>0. /\ pc[w] = "insert" /\ pc[w] \in InRecipient /\ Busy(w)
      /\ UNCHANGED <<inline, obj, delivered, flight, cpc, cacct, found, batch, doomed, exposed>>
  BY DEF Insert, InRecipient, Busy, queueVars, apiVars, gcVars
<1>1. Oid(w) \in Oids /\ job[w] \in Msgs /\ rcpt[w] \in todo[w]
  BY <1>0, Local DEF Shape, TypeOK, StoreAndWorkers, WorkerInv
<1>. SUFFICES ASSUME NEW o \in Oids, o = Oid(w)  PROVE RawInv'
  BY <1>1
<1>2. Coming(o) /\ o[1] = job[w] /\ o[2] = rcpt[w] /\ o[3] = attempt[w]
  BY <1>0, <1>1 DEF Coming, Takes, Oid
<1>3. /\ doc[o] = "none" /\ o \notin cleanup /\ \A c \in Clients : o \notin found[c]
      /\ Kept(o) /\ \A g \in Collectors : o \in doomed[g] => o \in exposed
  BY <1>0, <1>1, <1>2 DEF RawInv, ComingInv, InsertInv, DoomedInv
<1>4. /\ Holds(w) /\ pc'[w] # "insert" /\ todo'[w] \subseteq todo[w]
      /\ \A p \in Oids : Coming(p)' => Coming(p)
  BY InLoop, ComingShrinks, <1>0
<1>5. ~Coming(o)'
  <2>1. ~Takes(w, o)'
    <3>1. CASE Return(w, rcpt[w], "ok")
      BY <1>2, <3>1 DEF Return, Takes, Shape, TypeOK, IngestTypeOK
    <3>2. CASE \E r \in {"ok", "transient"} : Abort(w, r)
      BY <1>2, <3>2 DEF Abort, Goto, Takes, Shape, TypeOK, IngestTypeOK
    <3>. QED  BY <3>1, <3>2 DEF Insert, Commit
  <2>2. ASSUME NEW v \in Workers, v # w  PROVE ~Takes(v, o)'
    BY <1>0, <1>2, <1>4, <2>2 DEF Holds, DeliveryInv, Busy, Takes
  <2>3. ~(o[3] > delivered'[o[1]]) /\ <<o[1], o[3]>> \notin flight'
    <3>1. attempt[w] \in Nat /\ delivered[job[w]] \in Nat
      BY <1>1 DEF Shape, TypeOK, IngestTypeOK
    <3>. QED  BY <1>0, <1>2, <3>1 DEF DeliveryInv
  <2>. QED  BY <2>1, <2>2, <2>3 DEF Coming
<1>6. /\ \A p \in Oids \ {o} : doc'[p] = doc[p]
      /\ cleanup' \subseteq cleanup \cup {o}
      /\ doc'[o] = "live" => o \notin cleanup'
  <2>1. doc' = doc \/ (doc' = [doc EXCEPT ![Oid(w)] = "live"] /\ cleanup' = cleanup)
    BY Zenon DEF Insert
  <2>2. \/ cleanup' = cleanup
        \/ TryAsyncStorageCleanup({Oid(w)})
    BY Zenon DEF Insert
  <2>3. cleanup' \subseteq cleanup \cup {o}
    BY <2>2 DEF TryAsyncStorageCleanup
  <2>4. doc \in [Oids -> {"none", "live", "deleted"}]
    BY DEF Shape, TypeOK, StoreTypeOK
  <2>5. doc[o] = "none" /\ o \notin cleanup
    BY <1>3
  <2>6. CASE doc' = doc
    BY <2>3, <2>5, <2>6
  <2>7. CASE doc' = [doc EXCEPT ![Oid(w)] = "live"] /\ cleanup' = cleanup
    BY <2>3, <2>4, <2>5, <2>7
  <2>. QED  BY <2>1, <2>6, <2>7
<1>7. \A p : Kept(p)' <=> Kept(p)
  BY <1>0 DEF Kept
<1>8. ComingInv'
  BY <1>0, <1>4, <1>5, <1>6 DEF RawInv, ComingInv
<1>9. LiveInv'
  BY <1>3, <1>6, <1>7 DEF RawInv, LiveInv
<1>10. InsertInv'
  <2>1. \A v \in Workers \ {w} : pc'[v] = pc[v] /\ Oid(v)' = Oid(v)
    BY <1>4 DEF Holds, Oid
  <2>. QED  BY <1>0, <1>4, <2>1 DEF RawInv, InsertInv, Kept
<1>11. DoomedInv'
  <2>. SUFFICES ASSUME NEW g \in Collectors, NEW p \in doomed[g] \ exposed
                PROVE  ~Coming(p)' /\ doc'[p] # "live"
    BY <1>0 DEF DoomedInv
  <2>1. p \in Oids /\ p # o
    BY <1>3 DEF Shape, TypeOK, GcTypeOK
  <2>. QED  BY <1>4, <1>6, <2>1 DEF RawInv, DoomedInv
<1>12. FoundInv'
  <2>1. \A c \in Clients : \A p \in found[c] : p \in Oids /\ p # o
    BY <1>3 DEF Shape, TypeOK, ApiTypeOK
  <2>. QED  BY <1>0, <1>6, <2>1 DEF RawInv, FoundInv
<1>. QED  BY <1>8, <1>9, <1>10, <1>11, <1>12 DEF RawInv

LEMMA RawQueue ==
  ASSUME Shape, DeliveryInv, RawInv, [Next]_vars, NEW m \in Msgs, QueueStep(m),
         UNCHANGED <<apiVars, gcVars>>
  PROVE  RawInv'
<1>1. UNCHANGED <<storeVars, workerVars>>
  BY DEF QueueStep, Publish, Deliver, LoseDelivery, AckWaitExpires, AgeOut
<1>2. UNCHANGED <<doc, cleanup, cpc, cacct, found, batch, doomed, exposed, obj, inline, pc>>
      /\ \A w \in Workers : Oid(w)' = Oid(w)
  BY <1>1 DEF storeVars, workerVars, apiVars, gcVars, Oid
<1>. QED  BY <1>2, RawQuiet DEF Kept

LEMMA RawStore ==
  ASSUME Shape, DeliveryInv, RawInv, [Next]_vars, StoreStep,
         UNCHANGED <<ingestVars, apiVars, gcVars>>
  PROVE  RawInv'
<1>1. UNCHANGED <<cpc, cacct, found, batch, doomed, exposed, inline, pc>>
      /\ \A w \in Workers : Oid(w)' = Oid(w)
  <2>1. inline' = inline
    BY DEF StoreStep, ExpireAccount, RunCleanup, PurgeMessage
  <2>. QED  BY <2>1 DEF ingestVars, workerVars, apiVars, gcVars, Oid
<1>2. \A o \in Oids : doc'[o] = doc[o] \/ doc'[o] = "none"
  BY DEF StoreStep, ExpireAccount, RunCleanup, PurgeMessage, Removed
<1>3. /\ cleanup' \subseteq cleanup
      /\ \A o \in obj : o \in obj' \/ o \in cleanup \ cleanup'
  BY DEF StoreStep, ExpireAccount, RunCleanup, PurgeMessage
<1>4. \A o \in Oids : Kept(o) => Kept(o)' \/ o \in cleanup \ cleanup'
  BY <1>1, <1>3 DEF Kept
<1>. QED  BY <1>1, <1>2, <1>3, <1>4, RawQuiet

LEMMA RawCollector ==
  ASSUME Shape, DeliveryInv, RawInv, [Next]_vars, GcNext, UNCHANGED <<ingestVars, apiVars>>
  PROVE  RawInv'
<1>0. UNCHANGED <<doc, inline, cleanup, cpc, cacct, found, batch, pc>>
      /\ \A w \in Workers : Oid(w)' = Oid(w)
  BY GcWrites DEF ingestVars, workerVars, apiVars, Oid
<1>1. ASSUME NEW g \in Collectors, ExistingMessageIDs(g)  PROVE RawInv'
  <2>1. obj' = obj /\ exposed \subseteq exposed'
    BY <1>1 DEF ExistingMessageIDs
  <2>2. CASE doomed' = doomed
    BY <1>0, <2>1, <2>2, RawQuiet DEF Kept
  <2>3. CASE /\ doomed' = [doomed EXCEPT ![g] = Missing(page[g])]
             /\ exposed' = exposed \cup {o \in page[g] : doc[o] = "none"}
    <3>1. \A o \in Oids : Coming(o)' => Coming(o)
      BY ComingShrinks
    <3>2. ComingInv'
      BY <1>0, <3>1 DEF RawInv, ComingInv
    <3>3. LiveInv' /\ InsertInv'
      BY <1>0, <2>1 DEF RawInv, LiveInv, InsertInv, Kept
    <3>4. FoundInv'
      BY <1>0 DEF RawInv, FoundInv
    <3>5. ASSUME NEW h \in Collectors, NEW o \in doomed'[h] \ exposed'
          PROVE  ~Coming(o)' /\ doc'[o] # "live"
      <4>1. CASE h = g
        <5>1. o \in page[g] /\ doc[o] # "live" /\ doc[o] # "none" /\ o \in Oids
          BY <2>3, <3>5, <4>1 DEF Missing, Shape, TypeOK, GcTypeOK
        <5>. QED  BY <1>0, <3>1, <5>1 DEF RawInv, ComingInv
      <4>2. CASE h # g
        <5>1. o \in doomed[h] \ exposed /\ o \in Oids
          BY <2>1, <2>3, <3>5, <4>2 DEF Shape, TypeOK, GcTypeOK
        <5>. QED  BY <1>0, <3>1, <5>1 DEF RawInv, DoomedInv
      <4>. QED  BY <4>1, <4>2
    <3>. QED  BY <3>2, <3>3, <3>4, <3>5 DEF RawInv, DoomedInv
  <2>. QED  BY <1>1, <2>2, <2>3 DEF ExistingMessageIDs
<1>2. ASSUME NEW g \in Collectors, NEW o \in Oids, DeleteNext(g, o)  PROVE RawInv'
  <2>1. /\ o \in doomed[g] /\ exposed' = exposed
        /\ doomed' = [doomed EXCEPT ![g] = @ \ {o}]
        /\ obj \ {o} \subseteq obj'
    BY <1>2 DEF DeleteNext
  <2>2. o \in exposed \/ (~Coming(o) /\ doc[o] # "live")
    BY <2>1 DEF RawInv, DoomedInv
  <2>3. \A p \in Oids : p # o => (Kept(p) => Kept(p)')
    BY <1>0, <2>1 DEF Kept
  <2>4. o \in exposed => Kept(o)'
    BY <2>1 DEF Kept
  <2>5. \A p \in Oids : Coming(p)' => Coming(p)
    BY ComingShrinks
  <2>6. ComingInv' /\ FoundInv'
    BY <1>0, <2>5 DEF RawInv, ComingInv, FoundInv
  <2>7. LiveInv'
    BY <1>0, <2>2, <2>3, <2>4 DEF RawInv, LiveInv
  <2>8. InsertInv'
    <3>. SUFFICES ASSUME NEW w \in Workers, pc[w] = "insert", NEW p \in Oids, p = Oid(w)
                  PROVE  Kept(p)'
      <4>1. \A w \in Workers : pc[w] = "insert" => Oid(w) \in Oids
        BY Local DEF Shape, TypeOK, StoreAndWorkers, InRecipient
      <4>. QED  BY <1>0, <4>1 DEF InsertInv
    <3>1. Coming(p)
      BY DEF Coming, Takes, Busy, Oid, Shape, WorkerInv, InRecipient
    <3>2. Kept(p)
      BY DEF RawInv, InsertInv
    <3>. QED  BY <2>2, <2>3, <2>4, <3>1, <3>2
  <2>9. DoomedInv'
    <3>1. \A h \in Collectors : doomed'[h] \subseteq doomed[h] /\ doomed[h] \subseteq Oids
      BY <2>1 DEF Shape, TypeOK, GcTypeOK
    <3>. QED  BY <1>0, <2>1, <2>5, <3>1 DEF RawInv, DoomedInv
  <2>. QED  BY <2>6, <2>7, <2>8, <2>9 DEF RawInv
<1>3. ASSUME NEW g \in Collectors,
             \/ Acquire(g) \/ ListMessageIDs(g) \/ DeletedAll(g) \/ GiveUp(g)
             \/ Unlock(g) \/ CollectorCrash(g)
      PROVE  RawInv'
  <2>1. UNCHANGED <<obj, exposed>>
    BY <1>3 DEF Acquire, ListMessageIDs, DeletedAll, GiveUp, Unlock, CollectorCrash, Forget,
                storeVars
  <2>2. doomed' = doomed \/ doomed' = [doomed EXCEPT ![g] = {}]
    BY <1>3 DEF Acquire, ListMessageIDs, DeletedAll, GiveUp, Unlock, CollectorCrash, Forget
  <2>3. \A h \in Collectors : doomed'[h] \subseteq doomed[h]
    BY <2>2 DEF Shape, TypeOK, GcTypeOK
  <2>. QED  BY <1>0, <2>1, <2>3, RawQuiet DEF Kept
<1>4. ASSUME Tick  PROVE RawInv'
  <2>1. UNCHANGED <<obj, exposed, doomed>>
    BY <1>4 DEF Tick, storeVars
  <2>. QED  BY <1>0, <2>1, RawQuiet DEF Kept
<1>. QED  BY <1>1, <1>2, <1>3, <1>4 DEF GcNext, CollectorStep

\* What a step of a request may do: it makes no document, finds only documents, and
\* hands to the clean-up only what it has found and no longer finds undeleted.
LEMMA RawRequest ==
  ASSUME Shape, DeliveryInv, RawInv, [Next]_vars, NEW c \in Clients,
         UNCHANGED <<inline, obj, ingestVars, gcVars>>,
         \A o \in Oids : doc'[o] # "none" => doc[o] # "none",
         \A o \in Oids : doc'[o] = "live" => doc[o] = "live",
         \A o \in cleanup' \ cleanup : o \in found[c] /\ doc'[o] # "live",
         \A d \in Clients \ {c} : /\ cpc'[d] = cpc[d] /\ cacct'[d] = cacct[d]
                                  /\ found'[d] = found[d] /\ batch'[d] = batch[d],
         \A o \in found'[c] :
           /\ o \in Oids /\ (o \in found[c] \/ doc[o] # "none")
           /\ doc'[o] = "live" => cpc'[c] \in {"softDelete", "bulkUpdate", "eraseMany", "eraseAccount"}
           /\ cpc'[c] = "bulkUpdate" /\ doc'[o] = "live" => o \in batch'[c]
           /\ cpc'[c] = "eraseMany" => o[2] = cacct'[c]
  PROVE  RawInv'
<1>0. UNCHANGED <<pc, doomed, exposed>> /\ \A w \in Workers : Oid(w)' = Oid(w)
  BY DEF ingestVars, workerVars, gcVars, Oid
<1>1. \A o \in Oids : Coming(o)' => Coming(o)
  BY ComingShrinks
<1>2. ComingInv'
  <2>. SUFFICES ASSUME NEW o \in Oids, Coming(o)'
                PROVE  doc'[o] = "none" /\ o \notin cleanup' /\ \A d \in Clients : o \notin found'[d]
    BY DEF ComingInv
  <2>1. doc[o] = "none" /\ o \notin cleanup /\ \A d \in Clients : o \notin found[d]
    BY <1>1 DEF RawInv, ComingInv
  <2>2. \A d \in Clients : o \notin found'[d]
    BY <2>1
  <2>. QED  BY <2>1, <2>2
<1>3. LiveInv'
  BY <1>0 DEF RawInv, LiveInv, Kept
<1>4. InsertInv'
  BY <1>0 DEF RawInv, InsertInv, Kept
<1>5. DoomedInv'
  BY <1>0, <1>1 DEF RawInv, DoomedInv, Shape, TypeOK, GcTypeOK
<1>6. FoundInv'
  <2>. SUFFICES ASSUME NEW d \in Clients, NEW o \in found'[d]
                PROVE  /\ doc'[o] = "live" => cpc'[d] \in {"softDelete", "bulkUpdate", "eraseMany", "eraseAccount"}
                       /\ cpc'[d] = "bulkUpdate" /\ doc'[o] = "live" => o \in batch'[d]
                       /\ cpc'[d] = "eraseMany" => o[2] = cacct'[d]
    BY DEF FoundInv
  <2>1. CASE d = c
    BY <2>1
  <2>2. CASE d # c
    BY <2>2 DEF RawInv, FoundInv, Shape, TypeOK, ApiTypeOK
  <2>. QED  BY <2>1, <2>2
<1>. QED  BY <1>2, <1>3, <1>4, <1>5, <1>6 DEF RawInv

LEMMA RawApi ==
  ASSUME Shape, DeliveryInv, RawInv, [Next]_vars, ApiNext, UNCHANGED <<ingestVars, gcVars>>
  PROVE  RawInv'
<1>. USE DEF At
<1>0. /\ ApiTypeOK /\ doc \in [Oids -> {"none", "live", "deleted"}]
      /\ \A c \in Clients : found[c] \subseteq Oids
  BY DEF Shape, TypeOK, StoreTypeOK, ApiTypeOK
<1>1. ASSUME NEW c \in Clients, NEW S \in SUBSET Oids, SoftDeleted(S) = doc'
      PROVE  \A o \in Oids : /\ doc'[o] # "none" => doc[o] # "none"
                             /\ doc'[o] = "live" => doc[o] = "live" /\ o \notin S
  BY <1>0, <1>1 DEF SoftDeleted
<1>2. ASSUME NEW c \in Clients, NEW S \in SUBSET Oids, Removed(S) = doc'
      PROVE  \A o \in Oids : /\ doc'[o] # "none" => doc[o] # "none"
                             /\ doc'[o] = "live" => doc[o] = "live"
                             /\ o \in S => doc'[o] = "none"
  BY <1>2 DEF Removed
\* The answer empties the slot of the request.
<1>3. ASSUME NEW c \in Clients, Respond(c)
      PROVE  /\ \A d \in Clients \ {c} : /\ cpc'[d] = cpc[d] /\ cacct'[d] = cacct[d]
                                          /\ found'[d] = found[d] /\ batch'[d] = batch[d]
             /\ found'[c] = {}
  BY <1>0, <1>3 DEF Respond, ApiTypeOK
<1>4. ASSUME NEW c \in Clients, NEW o \in Oids, GetMeta(c, o)  PROVE RawInv'
  <2>1. /\ doc[o] = "live" /\ cpc' = [cpc EXCEPT ![c] = "softDelete"]
        /\ cacct' = [cacct EXCEPT ![c] = o[2]] /\ found' = [found EXCEPT ![c] = {o}]
        /\ UNCHANGED <<doc, inline, obj, cleanup, batch>>
    BY <1>4 DEF GetMeta, Begin, storeVars
  <2>. QED  BY <1>0, <2>1, RawRequest DEF ApiTypeOK
<1>5. ASSUME NEW c \in Clients, NEW a \in Accounts, StartBulk(c, a) \/ GetAccount(c, a)
      PROVE  RawInv'
  <2>1. \E l \in {"bulkFind", "eraseFind"} :
          /\ cpc' = [cpc EXCEPT ![c] = l]
          /\ cacct' = [cacct EXCEPT ![c] = a] /\ found' = [found EXCEPT ![c] = {}]
          /\ UNCHANGED <<doc, inline, obj, cleanup, batch>>
    BY <1>5 DEF StartBulk, GetAccount, Begin, storeVars
  <2>. QED  BY <1>0, <2>1, RawRequest DEF ApiTypeOK
<1>6. ASSUME NEW c \in Clients, SoftDelete(c)  PROVE RawInv'
  <2>1. UNCHANGED <<inline, obj, cleanup>>
    BY <1>6 DEF SoftDelete
  <2>2. /\ \A o \in Oids : doc'[o] # "none" => doc[o] # "none"
        /\ \A o \in Oids : doc'[o] = "live" => doc[o] = "live"
    BY <1>0, <1>1, <1>6 DEF SoftDelete
  <2>3. CASE Respond(c)
    BY <1>3, <2>1, <2>2, <2>3, RawRequest
  <2>4. CASE ~Respond(c)
    <3>1. /\ SoftDeleted(found[c]) = doc' /\ cpc' = [cpc EXCEPT ![c] = "release"]
          /\ UNCHANGED <<cacct, found, batch>>
      BY <1>6, <2>4 DEF SoftDelete
    <3>2. \A o \in found[c] : doc'[o] # "live"
      BY <1>0, <1>1, <3>1
    <3>. QED  BY <1>0, <2>1, <2>2, <3>1, <3>2, RawRequest DEF ApiTypeOK
  <2>. QED  BY <2>3, <2>4
<1>7. ASSUME NEW c \in Clients, Release(c) \/ BulkRelease(c)  PROVE RawInv'
  <2>1. /\ cpc[c] \in {"release", "bulkRelease"} /\ Respond(c)
        /\ TryAsyncStorageCleanup(found[c]) /\ UNCHANGED <<doc, inline, obj>>
    BY <1>7 DEF Release, BulkRelease
  <2>2. \A o \in found[c] : doc[o] # "live"
    BY <2>1 DEF RawInv, FoundInv
  <2>3. \A o \in cleanup' \ cleanup : o \in found[c]
    BY <2>1 DEF TryAsyncStorageCleanup
  <2>. QED  BY <1>3, <2>1, <2>2, <2>3, RawRequest
<1>8. ASSUME NEW c \in Clients, BulkFind(c)  PROVE RawInv'
  <2>1. cpc[c] = "bulkFind" /\ UNCHANGED <<doc, inline, obj, cleanup>>
    BY <1>8 DEF BulkFind, storeVars
  <2>2. \A o \in found[c] : doc[o] # "live"
    BY <2>1 DEF RawInv, FoundInv
  <2>3. ASSUME NEW S \in SUBSET Live(cacct[c]),
               batch' = [batch EXCEPT ![c] = S], found' = [found EXCEPT ![c] = @ \cup S],
               cpc' = [cpc EXCEPT ![c] = "bulkUpdate"], UNCHANGED cacct
        PROVE  RawInv'
    <3>1. \A o \in S : o \in Oids /\ doc[o] = "live"
      BY DEF Live
    <3>2. found'[c] = found[c] \cup S /\ batch'[c] = S /\ cpc'[c] = "bulkUpdate"
      BY <1>0, <2>3 DEF ApiTypeOK
    <3>3. \A d \in Clients \ {c} : /\ cpc'[d] = cpc[d] /\ cacct'[d] = cacct[d]
                                    /\ found'[d] = found[d] /\ batch'[d] = batch[d]
      BY <1>0, <2>3 DEF ApiTypeOK
    <3>. QED  BY <1>0, <2>1, <2>2, <3>1, <3>2, <3>3, RawRequest
  <2>4. CASE Respond(c)
    BY <1>3, <2>1, <2>4, RawRequest
  <2>5. CASE cpc' = [cpc EXCEPT ![c] = "bulkRelease"] /\ UNCHANGED <<cacct, found, batch>>
    BY <1>0, <2>1, <2>2, <2>5, RawRequest DEF ApiTypeOK
  <2>. QED  BY <1>8, <2>3, <2>4, <2>5 DEF BulkFind
<1>9. ASSUME NEW c \in Clients, BulkUpdate(c)  PROVE RawInv'
  <2>1. cpc[c] = "bulkUpdate" /\ UNCHANGED <<inline, obj, cleanup>> /\ batch[c] \subseteq Oids
    BY <1>0, <1>9 DEF BulkUpdate, ApiTypeOK
  <2>2. doc' = doc \/ \E S \in SUBSET batch[c] : doc' = SoftDeleted(S)
    BY <1>9 DEF BulkUpdate
  <2>3. \A o \in Oids : /\ doc'[o] # "none" => doc[o] # "none"
                        /\ doc'[o] = "live" => doc[o] = "live"
    BY <1>1, <2>1, <2>2
  <2>4. CASE Respond(c)
    BY <1>3, <2>1, <2>3, <2>4, RawRequest
  <2>5. CASE ~Respond(c)
    <3>1. /\ SoftDeleted(batch[c]) = doc' /\ cpc' = [cpc EXCEPT ![c] = "bulkFind"]
          /\ batch' = [batch EXCEPT ![c] = {}] /\ UNCHANGED <<cacct, found>>
      BY <1>9, <2>5 DEF BulkUpdate
    <3>2. \A o \in found[c] : doc'[o] # "live"
      BY <1>0, <1>1, <2>1, <3>1 DEF RawInv, FoundInv
    <3>. QED  BY <1>0, <2>1, <2>3, <3>1, <3>2, RawRequest DEF ApiTypeOK
  <2>. QED  BY <2>4, <2>5
<1>10. ASSUME NEW c \in Clients, RecalcAggregate(c) \/ RecalcWrite(c)  PROVE RawInv'
  <2>1. UNCHANGED <<doc, inline, obj, cleanup, cpc, cacct, found, batch>>
    BY <1>10 DEF RecalcAggregate, RecalcWrite, storeVars
  <2>. QED  BY <1>0, <2>1, RawRequest DEF RawInv, FoundInv
<1>11. ASSUME NEW c \in Clients, EraseFind(c)  PROVE RawInv'
  <2>1. /\ UNCHANGED <<doc, inline, obj, cleanup, cacct, batch>>
        /\ \/ /\ found' = [found EXCEPT ![c] = Documents(cacct[c])]
              /\ cpc' = [cpc EXCEPT ![c] = "eraseMany"]
           \/ found' = found /\ cpc' = [cpc EXCEPT ![c] = "eraseAccount"]
    BY <1>11 DEF EraseFind, storeVars
  <2>2. \A o \in Documents(cacct[c]) : o \in Oids /\ doc[o] # "none" /\ o[2] = cacct[c]
    BY DEF Documents
  <2>. QED  BY <1>0, <2>1, <2>2, RawRequest DEF ApiTypeOK
<1>12. ASSUME NEW c \in Clients, EraseMany(c)  PROVE RawInv'
  <2>1. /\ cpc[c] = "eraseMany" /\ UNCHANGED <<inline, obj, cacct, found, batch>>
        /\ cpc' = [cpc EXCEPT ![c] = "eraseAccount"]
    BY <1>12 DEF EraseMany
  <2>2. doc' = doc \/ \E S \in SUBSET Documents(cacct[c]) : doc' = Removed(S)
    BY <1>12 DEF EraseMany
  <2>3. \A o \in Oids : /\ doc'[o] # "none" => doc[o] # "none"
                        /\ doc'[o] = "live" => doc[o] = "live"
    BY <1>2, <2>2 DEF Documents
  <2>4. \A o \in cleanup' \ cleanup : o \in found[c] /\ doc'[o] # "live"
    <3>. SUFFICES ASSUME NEW o \in cleanup' \ cleanup  PROVE o \in found[c] /\ doc'[o] # "live"
      OBVIOUS
    <3>1. doc' = Removed(Documents(cacct[c])) /\ TryAsyncStorageCleanup(found[c])
      BY <1>12 DEF EraseMany
    <3>2. o \in found[c] /\ o \in Oids /\ o[2] = cacct[c]
      BY <1>0, <2>1, <3>1 DEF TryAsyncStorageCleanup, RawInv, FoundInv
    <3>. QED  BY <3>1, <3>2 DEF Removed, Documents
  <2>. QED  BY <1>0, <2>1, <2>3, <2>4, RawRequest DEF ApiTypeOK
<1>13. ASSUME NEW c \in Clients, EraseAccount(c) \/ ApiCrash(c)  PROVE RawInv'
  <2>1. Respond(c) /\ UNCHANGED <<doc, inline, obj, cleanup>>
    BY <1>13 DEF EraseAccount, ApiCrash, storeVars
  <2>. QED  BY <1>3, <2>1, RawRequest
<1>. QED  BY <1>4, <1>5, <1>6, <1>7, <1>8, <1>9, <1>10, <1>11, <1>12, <1>13 DEF ApiNext

LEMMA RawNext ==
  ASSUME "ambiguous" \notin Faults
  PROVE  Shape /\ DeliveryInv /\ RawInv /\ [Next]_vars => RawInv'
<1>. SUFFICES ASSUME Shape, DeliveryInv, RawInv, [Next]_vars  PROVE RawInv'
  OBVIOUS
<1>1. CASE IngestNext /\ UNCHANGED <<apiVars, gcVars>>
  BY <1>1, RawWorker, RawInsert, RawQueue DEF IngestNext
<1>2. CASE ApiNext /\ UNCHANGED <<ingestVars, gcVars>>
  BY <1>2, RawApi
<1>3. CASE GcNext /\ UNCHANGED <<ingestVars, apiVars>>
  BY <1>3, RawCollector
<1>4. CASE StoreStep /\ UNCHANGED <<ingestVars, apiVars, gcVars>>
  BY <1>4, RawStore
<1>5. CASE UNCHANGED vars
  <2>1. UNCHANGED <<doc, cleanup, cpc, cacct, found, batch, doomed, exposed, obj, inline, pc>>
        /\ \A w \in Workers : Oid(w)' = Oid(w)
    BY <1>5 DEF vars, storeVars, ingestVars, workerVars, apiVars, gcVars, Oid
  <2>. QED  BY <2>1, RawQuiet DEF Kept
<1>. QED  BY <1>1, <1>2, <1>3, <1>4, <1>5 DEF Next

LEMMA RawInit == Init => DeliveryInv /\ RawInv
BY DEF Init, StoreInit, IngestInit, ApiInit, GcInit, DeliveryInv, Busy,
       RawInv, ComingInv, LiveInv, InsertInv, DoomedInv, FoundInv

(***************************************************************************)
(* The removal of objects after a duplicate or failed insert, after a      *)
(* deletion and in a collection never takes the raw source of a stored     *)
(* message, unless a collection looked for the message while it was on its *)
(* way from the upload to the insert.  The hypothesis is the one           *)
(* TryAsyncStorageCleanup itself rests on: an insert that returns an error *)
(* has stored nothing.  (The run insert_timeout shows what happens else.)  *)
(***************************************************************************)
THEOREM RawSourcesKept ==
  ASSUME "ambiguous" \notin Faults
  PROVE  Spec => []OnlyExposedLoseRaw
<1>1. RawInv => OnlyExposedLoseRaw
  BY DEF RawInv, LiveInv, Kept, OnlyExposedLoseRaw
<1>2. Shape /\ DeliveryInv /\ [Next]_vars => DeliveryInv'
  BY ComingShrinks
<1>. QED  BY <1>1, <1>2, RawInit, RawNext, ShapeInit, ShapeNext, PTL DEF Spec

(***************************************************************************)
(* Without a collector every stored message keeps its raw source.          *)
(***************************************************************************)
THEOREM EveryMessageHasRaw ==
  ASSUME "ambiguous" \notin Faults, Collectors = {}
  PROVE  Spec => []LiveHasRaw
<1>1. Init => exposed = {}
  BY DEF Init, GcInit
<1>2. exposed = {} /\ [Next]_vars => (exposed = {})'
  BY DEF Next, vars, gcVars, GcNext, Tick
<1>3. RawInv /\ exposed = {} => LiveHasRaw
  BY DEF RawInv, LiveInv, Kept, LiveHasRaw
<1>4. Shape /\ DeliveryInv /\ [Next]_vars => DeliveryInv'
  BY ComingShrinks
<1>5. Shape /\ DeliveryInv /\ RawInv /\ [Next]_vars => RawInv'
  BY RawNext
<1>. QED  BY <1>1, <1>2, <1>3, <1>4, <1>5, RawInit, ShapeInit, ShapeNext, PTL DEF Spec

------------------------------------------------------------------------------
(* Sums of sizes: the weight of a set when each x in it weighs f[x].       *)

Units(S, f) == UNION {{x} \X (1..f[x]) : x \in S}
Weight(S, f) == Cardinality(Units(S, f))

LEMMA UnitsOfOne ==
  ASSUME NEW x, NEW n \in Nat
  PROVE  IsFiniteSet({x} \X (1..n)) /\ Cardinality({x} \X (1..n)) = n
<1>1. IsFiniteSet(1..n) /\ Cardinality(1..n) = n
  BY FS_Interval
<1>2. IsFiniteSet({x}) /\ Cardinality({x}) = 1
  BY FS_Singleton
<1>. DEFINE S == {x}
            T == 1..n
<1>. SUFFICES IsFiniteSet(S \X T) /\ Cardinality(S \X T) = n
  OBVIOUS
<1>3. IsFiniteSet(S) /\ Cardinality(S) = 1 /\ IsFiniteSet(T) /\ Cardinality(T) = n
  BY <1>1, <1>2
<1>. HIDE DEF S, T
<1>4. IsFiniteSet(S \X T) /\ Cardinality(S \X T) = Cardinality(S) * Cardinality(T)
  BY <1>3, FS_Product
<1>5. Cardinality(S) * Cardinality(T) = n
  BY <1>3
<1>. QED  BY <1>4, <1>5

LEMMA UnitsFinite ==
  ASSUME NEW S, IsFiniteSet(S), NEW f, \A x \in S : f[x] \in Nat
  PROVE  IsFiniteSet(Units(S, f)) /\ Weight(S, f) \in Nat
<1>. DEFINE F == [x \in S |-> {x} \X (1..f[x])]
<1>1. \A x \in S : IsFiniteSet(F[x])
  BY UnitsOfOne
<1>2. IsFiniteSet({F[x] : x \in S})
  <2>1. DOMAIN F = S
    OBVIOUS
  <2>. HIDE DEF F
  <2>. QED  BY <2>1, FiniteImage
<1>3. Units(S, f) = UNION {F[x] : x \in S}
  BY DEF Units
<1>4. \A T \in {F[x] : x \in S} : IsFiniteSet(T)
  BY <1>1
<1>. HIDE DEF F
<1>5. IsFiniteSet(Units(S, f))
  BY <1>2, <1>3, <1>4, FS_UNION
<1>. QED  BY <1>5, FS_CardinalityType DEF Weight

LEMMA WeightPlus ==
  ASSUME NEW S, IsFiniteSet(S), NEW f, \A y \in S : f[y] \in Nat,
         NEW x, x \notin S, f[x] \in Nat
  PROVE  Weight(S \cup {x}, f) = Weight(S, f) + f[x]
<1>. DEFINE P == {x} \X (1..f[x])
<1>1. IsFiniteSet(P) /\ Cardinality(P) = f[x]
  BY UnitsOfOne
<1>2. IsFiniteSet(Units(S, f)) /\ Weight(S, f) \in Nat
  BY UnitsFinite
<1>3. Units(S \cup {x}, f) = Units(S, f) \cup P
  BY DEF Units
<1>4. Units(S, f) \cap P = {}
  BY DEF Units
<1>. HIDE DEF P
<1>5. Cardinality(Units(S, f) \cup P)
        = Cardinality(Units(S, f)) + Cardinality(P) - Cardinality(Units(S, f) \cap P)
  BY <1>1, <1>2, FS_Union
<1>6. Cardinality({}) = 0
  BY FS_EmptySet
<1>7. Weight(S \cup {x}, f) = Cardinality(Units(S, f) \cup P)
      /\ Weight(S, f) = Cardinality(Units(S, f)) /\ Cardinality(Units(S, f) \cap P) = 0
  BY <1>3, <1>4, <1>6 DEF Weight
<1>. QED  BY <1>1, <1>2, <1>5, <1>7

LEMMA WeightWithout ==
  ASSUME NEW S, IsFiniteSet(S), NEW f, \A y \in S : f[y] \in Nat, NEW x
  PROVE  /\ Weight(S \ {x}, f) \in Nat
         /\ Weight(S, f) = Weight(S \ {x}, f) + (IF x \in S THEN f[x] ELSE 0)
<1>1. IsFiniteSet(S \ {x})
  BY FS_Subset
<1>2. Weight(S \ {x}, f) \in Nat
  BY <1>1, UnitsFinite
<1>3. CASE x \in S
  <2>1. (S \ {x}) \cup {x} = S
    BY <1>3
  <2>2. Weight((S \ {x}) \cup {x}, f) = Weight(S \ {x}, f) + f[x]
    BY <1>1, <1>3, WeightPlus
  <2>3. Weight(S, f) = Weight(S \ {x}, f) + f[x]
    BY <2>1, <2>2
  <2>. QED  BY <1>2, <1>3, <2>3
<1>4. CASE x \notin S
  <2>1. S \ {x} = S
    BY <1>4
  <2>2. Weight(S, f) = Weight(S \ {x}, f)
    BY <2>1
  <2>. QED  BY <1>2, <1>4, <2>2
<1>. QED  BY <1>3, <1>4

LEMMA WeightGrows ==
  ASSUME NEW S, IsFiniteSet(S), NEW f, \A x \in S : f[x] \in Nat, NEW T \in SUBSET S
  PROVE  Weight(T, f) <= Weight(S, f)
<1>1. Units(T, f) \in SUBSET Units(S, f)
  BY DEF Units
<1>. QED  BY <1>1, UnitsFinite, FS_Subset DEF Weight

LEMMA WeightAlike ==
  ASSUME NEW S, NEW f, NEW g, \A x \in S : f[x] = g[x]
  PROVE  Weight(S, f) = Weight(S, g)
<1>1. Units(S, f) = Units(S, g)
  BY DEF Units
<1>. QED  BY <1>1 DEF Weight

------------------------------------------------------------------------------
(* The sizes of messages and the bytes that workers hold, as weights.      *)

SizeOf == [o \in Oids |-> Size[o[1]]]

LEMMA BytesWeigh ==
  ASSUME NEW S \in SUBSET Oids
  PROVE  Bytes(S) = Weight(S, SizeOf) /\ IsFiniteSet(S) /\ Bytes(S) \in Nat
         /\ \A o \in S : SizeOf[o] \in Nat /\ SizeOf[o] = Size[o[1]]
<1>1. IsFiniteSet(S)
  BY OidsFinite, FS_Subset
<1>2. \A o \in S : SizeOf[o] \in Nat /\ SizeOf[o] = Size[o[1]]
  BY DEF SizeOf, Oids
<1>3. UNION {{o} \X (1..Size[o[1]]) : o \in S} = Units(S, SizeOf)
  BY <1>2 DEF Units
<1>. QED  BY <1>1, <1>2, <1>3, BytesType DEF Bytes, Weight

LEMMA BytesGrow ==
  ASSUME NEW S \in SUBSET Oids, NEW T \in SUBSET S
  PROVE  Bytes(T) \in Nat /\ Bytes(S) \in Nat /\ Bytes(T) <= Bytes(S)
<1>1. T \in SUBSET Oids
  OBVIOUS
<1>. QED  BY <1>1, BytesWeigh, WeightGrows

LEMMA BytesPlus ==
  ASSUME NEW S \in SUBSET Oids, NEW o \in Oids, o \notin S
  PROVE  Bytes(S \cup {o}) = Bytes(S) + Size[o[1]] /\ Size[o[1]] \in Nat /\ Bytes(S) \in Nat
<1>1. SizeOf[o] = Size[o[1]] /\ SizeOf[o] \in Nat
  BY DEF SizeOf, Oids
<1>2. S \cup {o} \in SUBSET Oids
  OBVIOUS
<1>. QED  BY <1>1, <1>2, BytesWeigh, WeightPlus

HoldingPCs == {"parse", "insert", "rollback"}
Holders(p, r, a) == {w \in Workers : r[w] = a /\ p[w] \in HoldingPCs}
JobSize(j) == [w \in Workers |-> Size[j[w]]]

\* The bytes that the worker w holds for the account a.
HoldOf(w, a) == IF rcpt[w] = a /\ pc[w] \in HoldingPCs THEN Size[job[w]] ELSE 0

LEMMA HeldApart ==
  ASSUME IsFiniteSet(Workers), NEW p, NEW r, NEW j, NEW a, NEW w \in Workers,
         \A v \in Workers : p[v] \in HoldingPCs => j[v] \in Msgs
  PROVE  /\ Weight(Holders(p, r, a) \ {w}, JobSize(j)) \in Nat
         /\ Cardinality(UNION {{v} \X (1..Size[j[v]]) : v \in Holders(p, r, a)})
              = Weight(Holders(p, r, a) \ {w}, JobSize(j))
                  + (IF r[w] = a /\ p[w] \in HoldingPCs THEN Size[j[w]] ELSE 0)
         /\ (IF r[w] = a /\ p[w] \in HoldingPCs THEN Size[j[w]] ELSE 0) \in Nat
<1>. DEFINE S == Holders(p, r, a)
            f == JobSize(j)
<1>1. S \in SUBSET Workers /\ (w \in S <=> r[w] = a /\ p[w] \in HoldingPCs)
  BY DEF Holders
<1>2. IsFiniteSet(S)
  BY <1>1, FS_Subset
<1>3. \A v \in S : f[v] = Size[j[v]] /\ f[v] \in Nat
  BY DEF Holders, JobSize
<1>4. f[w] = Size[j[w]]
  BY DEF JobSize
<1>5. UNION {{v} \X (1..Size[j[v]]) : v \in S} = Units(S, f)
  BY <1>3 DEF Units
<1>. HIDE DEF S, f
<1>6. /\ Weight(S \ {w}, f) \in Nat
      /\ Weight(S, f) = Weight(S \ {w}, f) + (IF w \in S THEN f[w] ELSE 0)
  BY <1>2, <1>3, WeightWithout
<1>7. Cardinality(UNION {{v} \X (1..Size[j[v]]) : v \in S}) = Weight(S, f)
  BY <1>5 DEF Weight
<1>8. (IF w \in S THEN f[w] ELSE 0) = (IF r[w] = a /\ p[w] \in HoldingPCs THEN Size[j[w]] ELSE 0)
      /\ (IF w \in S THEN f[w] ELSE 0) \in Nat
  BY <1>1, <1>3, <1>4
<1>. QED  BY <1>6, <1>7, <1>8 DEF S, f

\* When a worker moves, what is held changes by what this worker holds.
LEMMA HeldChange ==
  ASSUME Shape, Shape', IsFiniteSet(Workers), NEW w \in Workers, NEW a,
         \A v \in Workers \ {w} : pc'[v] = pc[v] /\ rcpt'[v] = rcpt[v] /\ job'[v] = job[v]
  PROVE  /\ HeldBytes(a) \in Nat /\ HeldBytes(a)' \in Nat
         /\ HoldOf(w, a) \in Nat /\ HoldOf(w, a)' \in Nat
         /\ HoldOf(w, a) <= HeldBytes(a)
         /\ HeldBytes(a)' = HeldBytes(a) - HoldOf(w, a) + HoldOf(w, a)'
<1>1. /\ \A v \in Workers : pc[v] \in HoldingPCs => job[v] \in Msgs
      /\ \A v \in Workers : pc'[v] \in HoldingPCs => job'[v] \in Msgs
  BY DEF Shape, WorkerInv, HoldingPCs
<1>2. /\ Weight(Holders(pc, rcpt, a) \ {w}, JobSize(job)) \in Nat
      /\ HeldBytes(a) = Weight(Holders(pc, rcpt, a) \ {w}, JobSize(job)) + HoldOf(w, a)
      /\ HoldOf(w, a) \in Nat
  <2>1. Holding(a) = Holders(pc, rcpt, a)
    BY DEF Holding, Holders, HoldingPCs
  <2>. QED  BY <1>1, <2>1, HeldApart DEF HeldBytes, HoldOf
<1>3. /\ Weight(Holders(pc', rcpt', a) \ {w}, JobSize(job')) \in Nat
      /\ HeldBytes(a)' = Weight(Holders(pc', rcpt', a) \ {w}, JobSize(job')) + HoldOf(w, a)'
      /\ HoldOf(w, a)' \in Nat
  <2>1. Holding(a)' = Holders(pc', rcpt', a)
    BY DEF Holding, Holders, HoldingPCs
  <2>2. HeldBytes(a)' = Cardinality(UNION {{v} \X (1..Size[job'[v]]) : v \in Holders(pc', rcpt', a)})
    BY <2>1 DEF HeldBytes
  <2>3. HoldOf(w, a)' = IF rcpt'[w] = a /\ pc'[w] \in HoldingPCs THEN Size[job'[w]] ELSE 0
    BY DEF HoldOf
  <2>4. /\ Weight(Holders(pc', rcpt', a) \ {w}, JobSize(job')) \in Nat
        /\ Cardinality(UNION {{v} \X (1..Size[job'[v]]) : v \in Holders(pc', rcpt', a)})
             = Weight(Holders(pc', rcpt', a) \ {w}, JobSize(job'))
                 + (IF rcpt'[w] = a /\ pc'[w] \in HoldingPCs THEN Size[job'[w]] ELSE 0)
        /\ (IF rcpt'[w] = a /\ pc'[w] \in HoldingPCs THEN Size[job'[w]] ELSE 0) \in Nat
    BY <1>1, HeldApart
  <2>. QED  BY <2>2, <2>3, <2>4, Zenon
<1>4. Weight(Holders(pc', rcpt', a) \ {w}, JobSize(job'))
        = Weight(Holders(pc, rcpt, a) \ {w}, JobSize(job))
  <2>1. Holders(pc', rcpt', a) \ {w} = Holders(pc, rcpt, a) \ {w}
    BY DEF Holders
  <2>2. \A v \in Holders(pc, rcpt, a) \ {w} : JobSize(job')[v] = JobSize(job)[v]
    BY DEF Holders, JobSize
  <2>3. Weight(Holders(pc, rcpt, a) \ {w}, JobSize(job'))
          = Weight(Holders(pc, rcpt, a) \ {w}, JobSize(job))
    BY <2>2, WeightAlike
  <2>. QED  BY <2>1, <2>3
<1>. QED  BY <1>2, <1>3, <1>4

LEMMA HeldIsNat ==
  ASSUME Shape, IsFiniteSet(Workers), NEW a
  PROVE  HeldBytes(a) \in Nat
<1>1. CASE Workers = {}
  <2>1. UNION {{v} \X (1..Size[job[v]]) : v \in Holding(a)} = {}
    BY <1>1 DEF Holding
  <2>. QED  BY <2>1, FS_EmptySet DEF HeldBytes
<1>2. CASE Workers # {}
  <2>1. PICK w \in Workers : TRUE
    BY <1>2
  <2>2. \A v \in Workers : pc[v] \in HoldingPCs => job[v] \in Msgs
    BY DEF Shape, WorkerInv, HoldingPCs
  <2>3. Holding(a) = Holders(pc, rcpt, a)
    BY DEF Holding, Holders, HoldingPCs
  <2>4. /\ Weight(Holders(pc, rcpt, a) \ {w}, JobSize(job)) \in Nat
        /\ Cardinality(UNION {{v} \X (1..Size[job[v]]) : v \in Holders(pc, rcpt, a)})
             = Weight(Holders(pc, rcpt, a) \ {w}, JobSize(job))
                 + (IF rcpt[w] = a /\ pc[w] \in HoldingPCs THEN Size[job[w]] ELSE 0)
        /\ (IF rcpt[w] = a /\ pc[w] \in HoldingPCs THEN Size[job[w]] ELSE 0) \in Nat
    BY <2>2, HeldApart
  <2>5. Cardinality(UNION {{v} \X (1..Size[job[v]]) : v \in Holders(pc, rcpt, a)}) \in Nat
    BY <2>4
  <2>. QED  BY <2>3, <2>5, Zenon DEF HeldBytes
<1>. QED  BY <1>1, <1>2

------------------------------------------------------------------------------
(***************************************************************************)
(* The quota.  RecalculateAccountUsed reads a sum and writes it back in    *)
(* two round trips, and two requests that delete one message each release  *)
(* its size: accounts.used is right for sure only where neither happens.   *)
(***************************************************************************)

\* No account has a limit, so that no worker recalculates, no bulk deletion
\* starts a recalculation, and requests come one after the other.
NeverRecalculated ==
  /\ \A a \in Accounts : Quota[a] <= 0
  /\ Ops \subseteq {"delete", "deleteAccount"}
  /\ \A c, d \in Clients : c = d

\* One worker, and no request takes single messages away.
OneAtATime ==
  /\ Ops \subseteq {"deleteAccount"}
  /\ \A w, v \in Workers : w = v

\* Messages already deleted whose bytes are yet to be released.
Releasing(a) ==
  UNION {found[c] : c \in {d \in Clients : cpc[d] = "release" /\ cacct[d] = a}}

CoveredInv ==
  \A a \in Accounts : Exists(a) =>
    used[a] >= Bytes(Live(a)) + HeldBytes(a) + Bytes(Releasing(a))

\* What the workers hold is going to be stored: it counts against the quota.
WithinInv ==
  \A a \in Accounts : Quota[a] > 0 => Bytes(Live(a)) + HeldBytes(a) <= Quota[a]

\* A worker recalculates for an account that is gone, or where nothing can
\* have been stored since it read the sum.
SumFits(w) ==
  \/ ~Exists(rcpt[w])
  \/ OneAtATime /\ (pc[w] = "writeBack" => total[w] >= Bytes(Live(rcpt[w])))

SumInv == \A w \in Workers : pc[w] \in {"aggregate", "writeBack"} => SumFits(w)

\* The requests under either hypothesis: none is a bulk deletion, and the
\* message of a DELETE has not been deleted behind its back.
RequestPCs == {"idle", "softDelete", "release", "eraseFind", "eraseMany", "eraseAccount"}

Deleting(c) ==
  /\ "delete" \in Ops
  /\ \E o \in Oids : /\ found[c] = {o}
                     /\ o[2] = cacct[c]
                     /\ cpc[c] = "softDelete" => doc[o] # "deleted"

RequestInv ==
  \A c \in Clients :
    /\ cpc[c] \in RequestPCs
    /\ rpc[c] = "idle"
    /\ cpc[c] \in {"softDelete", "release"} => Deleting(c)

QuotaInv == CoveredInv /\ WithinInv /\ SumInv /\ RequestInv

LEMMA LiveAndReleasing ==
  ASSUME Shape, NEW a
  PROVE  Live(a) \in SUBSET Oids /\ Releasing(a) \in SUBSET Oids
BY DEF Live, Releasing, Shape, TypeOK, ApiTypeOK

\* Nothing is stored, held or released anew, and used does not fall.
LEMMA QuotaQuiet ==
  ASSUME Shape, Shape', IsFiniteSet(Workers), CoveredInv, WithinInv,
         \A a \in Accounts : Exists(a)' => Exists(a) /\ used'[a] = used[a],
         \A a \in Accounts : /\ Live(a)' \in SUBSET Live(a)
                             /\ Releasing(a)' \in SUBSET Releasing(a),
         UNCHANGED <<pc, rcpt, job>>
  PROVE  CoveredInv' /\ WithinInv'
<1>. SUFFICES ASSUME NEW a \in Accounts
              PROVE  /\ Exists(a)' => used'[a] >= Bytes(Live(a))' + HeldBytes(a)' + Bytes(Releasing(a))'
                     /\ Quota[a] > 0 => Bytes(Live(a))' + HeldBytes(a)' <= Quota[a]
  BY DEF CoveredInv, WithinInv
<1>1. HeldBytes(a)' = HeldBytes(a)
  BY DEF HeldBytes, Holding
<1>2. HeldBytes(a) \in Nat
  BY HeldIsNat
<1>3. /\ Bytes(Live(a)') \in Nat /\ Bytes(Live(a)) \in Nat /\ Bytes(Live(a)') <= Bytes(Live(a))
      /\ Bytes(Releasing(a)') \in Nat /\ Bytes(Releasing(a)) \in Nat
      /\ Bytes(Releasing(a)') <= Bytes(Releasing(a))
  BY LiveAndReleasing, BytesGrow
<1>4. Bytes(Live(a))' = Bytes(Live(a)') /\ Bytes(Releasing(a))' = Bytes(Releasing(a)')
  BY DEF Bytes
<1>5. /\ Exists(a) => used[a] >= Bytes(Live(a)) + HeldBytes(a) + Bytes(Releasing(a))
      /\ Quota[a] > 0 => Bytes(Live(a)) + HeldBytes(a) <= Quota[a]
  BY DEF CoveredInv, WithinInv
<1>6. used[a] \in Nat /\ Quota[a] \in Int
  BY DEF Shape, TypeOK, StoreTypeOK
<1>. DEFINE L == Bytes(Live(a))  LL == Bytes(Live(a)')
            R == Bytes(Releasing(a))  RR == Bytes(Releasing(a)')  H == HeldBytes(a)
<1>7. ASSUME Exists(a)'
      PROVE  used'[a] >= LL + H + RR
  <2>1. used'[a] = used[a] /\ used[a] >= L + H + R
    BY <1>5, <1>7
  <2>. HIDE DEF L, LL, R, RR, H
  <2>. QED  BY <2>1, <1>2, <1>3, <1>6 DEF L, LL, R, RR, H
<1>8. ASSUME Quota[a] > 0
      PROVE  LL + H <= Quota[a]
  BY <1>2, <1>3, <1>5, <1>6, <1>8
<1>. QED  BY <1>1, <1>4, <1>7, <1>8, Zenon

\* A worker moves and balances what it takes into use, stores and holds.
LEMMA QuotaBalanced ==
  ASSUME Shape, Shape', IsFiniteSet(Workers), CoveredInv, NEW w \in Workers,
         \A v \in Workers \ {w} : pc'[v] = pc[v] /\ rcpt'[v] = rcpt[v] /\ job'[v] = job[v],
         UNCHANGED <<account, cpc, cacct, found>>, NEW a \in Accounts,
         Exists(a) => used'[a] + Bytes(Live(a)) + HoldOf(w, a)
                        >= used[a] + Bytes(Live(a)') + HoldOf(w, a)'
  PROVE  Exists(a)' => used'[a] >= Bytes(Live(a))' + HeldBytes(a)' + Bytes(Releasing(a))'
<1>1. /\ HeldBytes(a) \in Nat /\ HeldBytes(a)' \in Nat
      /\ HoldOf(w, a) \in Nat /\ HoldOf(w, a)' \in Nat
      /\ HeldBytes(a)' = HeldBytes(a) - HoldOf(w, a) + HoldOf(w, a)'
  BY HeldChange
<1>2. Releasing(a)' = Releasing(a) /\ Exists(a)' = Exists(a)
  BY DEF Releasing, Exists
<1>3. Bytes(Live(a)) \in Nat /\ Bytes(Releasing(a)) \in Nat
  BY LiveAndReleasing, BytesWeigh
<1>4. Live(a)' \in SUBSET Oids
  BY DEF Live
<1>5. Bytes(Live(a)') \in Nat
  BY <1>4, BytesWeigh
<1>6. Bytes(Live(a))' = Bytes(Live(a)') /\ Bytes(Releasing(a))' = Bytes(Releasing(a))
  BY <1>2 DEF Bytes
<1>7. used[a] \in Nat /\ used'[a] \in Nat
  BY DEF Shape, TypeOK, StoreTypeOK
<1>8. ASSUME Exists(a)
      PROVE  used'[a] >= Bytes(Live(a)') + HeldBytes(a)' + Bytes(Releasing(a))
  <2>1. used[a] >= Bytes(Live(a)) + HeldBytes(a) + Bytes(Releasing(a))
    BY <1>8 DEF CoveredInv
  <2>2. used'[a] + Bytes(Live(a)) + HoldOf(w, a) >= used[a] + Bytes(Live(a)') + HoldOf(w, a)'
    BY <1>8
  <2>. DEFINE L == Bytes(Live(a))  LL == Bytes(Live(a)')  R == Bytes(Releasing(a))
              H == HeldBytes(a)  HH == HeldBytes(a)'  K == HoldOf(w, a)  KK == HoldOf(w, a)'
  <2>3. /\ L \in Nat /\ LL \in Nat /\ R \in Nat /\ H \in Nat /\ HH \in Nat
        /\ K \in Nat /\ KK \in Nat /\ HH = H - K + KK
        /\ used[a] >= L + H + R /\ used'[a] + L + K >= used[a] + LL + KK
    BY <1>1, <1>3, <1>5, <2>1, <2>2
  <2>. HIDE DEF L, LL, R, H, HH, K, KK
  <2>4. used'[a] >= LL + HH + R
    BY <1>7, <2>3
  <2>. QED  BY <2>4 DEF L, LL, R, H, HH, K, KK
<1>. QED  BY <1>2, <1>6, <1>8, Zenon

LEMMA LimitBalanced ==
  ASSUME Shape, Shape', IsFiniteSet(Workers), WithinInv, NEW w \in Workers,
         \A v \in Workers \ {w} : pc'[v] = pc[v] /\ rcpt'[v] = rcpt[v] /\ job'[v] = job[v],
         NEW a \in Accounts,
         Bytes(Live(a)') + HoldOf(w, a)' <= Bytes(Live(a)) + HoldOf(w, a)
  PROVE  Quota[a] > 0 => Bytes(Live(a))' + HeldBytes(a)' <= Quota[a]
<1>1. /\ HeldBytes(a) \in Nat /\ HeldBytes(a)' \in Nat
      /\ HoldOf(w, a) \in Nat /\ HoldOf(w, a)' \in Nat
      /\ HeldBytes(a)' = HeldBytes(a) - HoldOf(w, a) + HoldOf(w, a)'
  BY HeldChange
<1>2. Bytes(Live(a)) \in Nat
  BY LiveAndReleasing, BytesWeigh
<1>3. Live(a)' \in SUBSET Oids
  BY DEF Live
<1>4. Bytes(Live(a)') \in Nat
  BY <1>3, BytesWeigh
<1>5. Bytes(Live(a))' = Bytes(Live(a)')
  BY DEF Bytes
<1>6. ASSUME Quota[a] > 0
      PROVE  Bytes(Live(a)') + HeldBytes(a)' <= Quota[a]
  <2>1. Bytes(Live(a)) + HeldBytes(a) <= Quota[a] /\ Quota[a] \in Int
    BY <1>6 DEF WithinInv
  <2>. DEFINE L == Bytes(Live(a))  LL == Bytes(Live(a)')
              H == HeldBytes(a)  HH == HeldBytes(a)'  K == HoldOf(w, a)  KK == HoldOf(w, a)'
  <2>2. /\ L \in Nat /\ LL \in Nat /\ H \in Nat /\ HH \in Nat
        /\ K \in Nat /\ KK \in Nat /\ HH = H - K + KK
        /\ L + H <= Quota[a] /\ LL + KK <= L + K
    BY <1>1, <1>2, <1>4, <2>1
  <2>. HIDE DEF L, LL, H, HH, K, KK
  <2>3. LL + HH <= Quota[a]
    BY <2>1, <2>2
  <2>. QED  BY <2>3 DEF L, LL, H, HH, K, KK
<1>. QED  BY <1>5, <1>6, Zenon

\* One worker moves; where it is left to recalculate, its sum fits.
LEMMA SumMoves ==
  ASSUME SumInv, NEW w \in Workers,
         \A v \in Workers \ {w} : pc'[v] = pc[v] /\ rcpt'[v] = rcpt[v],
         UNCHANGED account,
         pc'[w] \in {"aggregate", "writeBack"} => SumFits(w)'
  PROVE  SumInv'
<1>. SUFFICES ASSUME NEW v \in Workers, pc'[v] \in {"aggregate", "writeBack"}, v # w
              PROVE  SumFits(v)'
  BY DEF SumInv
<1>1. pc[v] \in {"aggregate", "writeBack"} /\ rcpt'[v] = rcpt[v]
  OBVIOUS
<1>2. ~Exists(rcpt[v]) \/ OneAtATime
  BY <1>1 DEF SumInv, SumFits
<1>3. ~OneAtATime
  BY DEF OneAtATime
<1>. QED  BY <1>1, <1>2, <1>3 DEF SumFits, Exists

\* The workers stand still, and nothing is stored.
LEMMA SumQuiet ==
  ASSUME Shape, SumInv, UNCHANGED <<pc, rcpt, total>>,
         \A a \in Accounts : Exists(a)' => Exists(a),
         \A a \in Accounts : Live(a)' \in SUBSET Live(a)
  PROVE  SumInv'
<1>. SUFFICES ASSUME NEW w \in Workers, pc[w] \in {"aggregate", "writeBack"}
              PROVE  SumFits(w)'
  BY DEF SumInv
<1>1. rcpt[w] \in Accounts /\ total[w] \in Nat
  BY DEF Shape, TypeOK, IngestTypeOK, WorkerInv, InRecipient
<1>2. SumFits(w)
  BY DEF SumInv
<1>3. CASE ~Exists(rcpt[w])
  BY <1>1, <1>3 DEF SumFits, Exists
<1>4. CASE OneAtATime /\ (pc[w] = "writeBack" => total[w] >= Bytes(Live(rcpt[w])))
  <2>1. Live(rcpt[w])' = {o \in Oids : o[2] = rcpt[w] /\ doc'[o] = "live"}
    BY DEF Live
  <2>2. Live(rcpt[w])' \in SUBSET Live(rcpt[w]) /\ Live(rcpt[w]) \in SUBSET Oids
    BY <1>1, LiveAndReleasing
  <2>3. /\ Bytes(Live(rcpt[w])') <= Bytes(Live(rcpt[w]))
        /\ Bytes(Live(rcpt[w])') \in Nat /\ Bytes(Live(rcpt[w])) \in Nat
    BY <2>2, BytesGrow
  <2>4. Bytes(Live(rcpt[w]))' = Bytes(Live(rcpt[w])')
    BY DEF Bytes
  <2>5. pc[w] = "writeBack" => total[w] >= Bytes(Live(rcpt[w])')
    BY <1>1, <1>4, <2>3
  <2>. QED  BY <1>4, <2>4, <2>5 DEF SumFits
<1>. QED  BY <1>2, <1>3, <1>4 DEF SumFits

\* What one step of a worker may touch.
WorkerMoves(w) ==
  /\ \A v \in Workers \ {w} : pc'[v] = pc[v] /\ rcpt'[v] = rcpt[v] /\ job'[v] = job[v]
  /\ UNCHANGED account

LEMMA OnlyOneMoves ==
  ASSUME Shape, NEW w \in Workers, WorkerStep(w) \/ Crash(w)
  PROVE  WorkerMoves(w)
<1>1. /\ pc \in [Workers -> WorkerPCs]
      /\ rcpt \in [Workers -> Accounts \cup {None}]
      /\ job \in [Workers -> Msgs \cup {None}]
  BY DEF Shape, TypeOK, IngestTypeOK
<1>2. CASE \/ \E m \in Msgs, n \in 1..MaxDeliver : Receive(w, m, n)
           \/ \E a \in Accounts : LookupAccount(w, a)
           \/ CheckIngested(w) \/ Settle(w) \/ Crash(w)
  BY <1>1, <1>2 DEF Receive, LookupAccount, CheckIngested, Settle, Crash, BecomeIdle, Goto,
                    Return, Proceed, storeVars, WorkerMoves
<1>3. CASE Reserve(w) \/ Aggregate(w) \/ WriteBack(w)
  BY <1>1, <1>3 DEF Reserve, Aggregate, WriteBack, Goto, Return, Proceed, storeVars, WorkerMoves
<1>4. CASE ParseAndUpload(w) \/ Panic(w) \/ Insert(w) \/ Rollback(w)
  BY <1>1, <1>4 DEF ParseAndUpload, Panic, Insert, Rollback, Commit, Goto, Return, Proceed,
                    Abort, storeVars, WorkerMoves
<1>. QED  BY <1>2, <1>3, <1>4 DEF WorkerStep

\* Steps of a worker that store nothing, use nothing and hold no more.
LEMMA QuotaIdle ==
  ASSUME Shape, Shape', IsFiniteSet(Workers), QuotaInv, NEW w \in Workers,
         WorkerMoves(w), UNCHANGED <<doc, used, apiVars>>,
         \A a \in Accounts : HoldOf(w, a)' <= HoldOf(w, a),
         pc'[w] \in {"aggregate", "writeBack"} => SumFits(w)'
  PROVE  QuotaInv'
<1>1. CoveredInv'
  <2>. SUFFICES ASSUME NEW a \in Accounts
                PROVE  Exists(a)' => used'[a] >= Bytes(Live(a))' + HeldBytes(a)' + Bytes(Releasing(a))'
    BY DEF CoveredInv
  <2>1. HoldOf(w, a) \in Nat /\ HoldOf(w, a)' \in Nat
    BY HeldChange DEF WorkerMoves
  <2>2. Live(a)' = Live(a)
    BY DEF Live
  <2>3. Bytes(Live(a)) \in Nat /\ used[a] \in Nat
    BY LiveAndReleasing, BytesWeigh DEF Shape, TypeOK, StoreTypeOK
  <2>4. used'[a] + Bytes(Live(a)) + HoldOf(w, a) >= used[a] + Bytes(Live(a)') + HoldOf(w, a)'
    <3>1. used'[a] = used[a] /\ Bytes(Live(a)') = Bytes(Live(a)) /\ HoldOf(w, a)' <= HoldOf(w, a)
      BY <2>2
    <3>. QED  BY <2>1, <2>3, <3>1
  <2>. QED  BY <2>4, QuotaBalanced DEF WorkerMoves, apiVars, QuotaInv
<1>2. WithinInv'
  <2>. SUFFICES ASSUME NEW a \in Accounts
                PROVE  Quota[a] > 0 => Bytes(Live(a))' + HeldBytes(a)' <= Quota[a]
    BY DEF WithinInv
  <2>1. HoldOf(w, a) \in Nat /\ HoldOf(w, a)' \in Nat
    BY HeldChange DEF WorkerMoves
  <2>2. Live(a)' = Live(a)
    BY DEF Live
  <2>3. Bytes(Live(a)) \in Nat
    BY LiveAndReleasing, BytesWeigh
  <2>4. Bytes(Live(a)') + HoldOf(w, a)' <= Bytes(Live(a)) + HoldOf(w, a)
    <3>1. Bytes(Live(a)') = Bytes(Live(a)) /\ HoldOf(w, a)' <= HoldOf(w, a)
      BY <2>2
    <3>. QED  BY <2>1, <2>3, <3>1
  <2>. QED  BY <2>4, LimitBalanced DEF WorkerMoves, QuotaInv
<1>3. SumInv'
  BY SumMoves DEF WorkerMoves, QuotaInv
<1>4. RequestInv'
  BY DEF RequestInv, Deleting, apiVars, QuotaInv
<1>. QED  BY <1>1, <1>2, <1>3, <1>4 DEF QuotaInv

LEMMA HoldsNothing ==
  ASSUME Shape, Shape', IsFiniteSet(Workers), NEW w \in Workers, WorkerMoves(w),
         pc'[w] \notin HoldingPCs
  PROVE  \A a \in Accounts : HoldOf(w, a)' = 0 /\ HoldOf(w, a)' <= HoldOf(w, a)
<1>. SUFFICES ASSUME NEW a \in Accounts
              PROVE  HoldOf(w, a)' = 0 /\ HoldOf(w, a)' <= HoldOf(w, a)
  OBVIOUS
<1>1. HoldOf(w, a) \in Nat
  BY HeldChange DEF WorkerMoves
<1>2. HoldOf(w, a)' = 0
  BY DEF HoldOf
<1>. QED  BY <1>1, <1>2

LEMMA HoldsTheSame ==
  ASSUME Shape, Shape', IsFiniteSet(Workers), NEW w \in Workers, WorkerMoves(w),
         pc[w] \in HoldingPCs, UNCHANGED <<rcpt, job>>
  PROVE  \A a \in Accounts : HoldOf(w, a)' <= HoldOf(w, a)
<1>. SUFFICES ASSUME NEW a \in Accounts
              PROVE  HoldOf(w, a)' <= HoldOf(w, a)
  OBVIOUS
<1>1. HoldOf(w, a) \in Nat
  BY HeldChange DEF WorkerMoves
<1>2. HoldOf(w, a)' = HoldOf(w, a) \/ HoldOf(w, a)' = 0
  BY DEF HoldOf
<1>. QED  BY <1>1, <1>2

\* TryReserveAccountUsed where it takes the bytes of the mail into use.
LEMMA QuotaReserve ==
  ASSUME Shape, Shape', IsFiniteSet(Workers), QuotaInv, NEW w \in Workers, WorkerMoves(w),
         pc[w] \in {"reserve", "reserveAgain"}, QuotaFits(rcpt[w], Size[job[w]]),
         used' = UsedPlus(rcpt[w], Size[job[w]]), Proceed(w, "parse"),
         UNCHANGED <<doc, apiVars>>
  PROVE  QuotaInv'
<1>. DEFINE d == Size[job[w]]
<1>1. /\ d \in Nat /\ rcpt[w] \in Accounts /\ used \in [Accounts -> Nat]
      /\ pc \in [Workers -> WorkerPCs] /\ Quota \in [Accounts -> Int]
  BY Local DEF Shape, TypeOK, StoreTypeOK, IngestTypeOK, StoreAndWorkers, InRecipient
<1>2. pc'[w] = "parse" /\ rcpt' = rcpt /\ job' = job
  BY <1>1 DEF Proceed, Goto
<1>3. \A a \in Accounts : /\ HoldOf(w, a) = 0
                          /\ HoldOf(w, a)' = IF a = rcpt[w] THEN d ELSE 0
                          /\ used'[a] = used[a] + (IF a = rcpt[w] THEN d ELSE 0)
                          /\ Live(a)' = Live(a)
  <2>. SUFFICES ASSUME NEW a \in Accounts
                PROVE  /\ HoldOf(w, a) = 0
                       /\ HoldOf(w, a)' = IF a = rcpt[w] THEN d ELSE 0
                       /\ used'[a] = used[a] + (IF a = rcpt[w] THEN d ELSE 0)
                       /\ Live(a)' = Live(a)
    OBVIOUS
  <2>1. HoldOf(w, a) = 0 /\ Live(a)' = Live(a)
    BY DEF HoldOf, HoldingPCs, Live
  <2>2. HoldOf(w, a)' = IF a = rcpt[w] THEN d ELSE 0
    BY <1>2 DEF HoldOf, HoldingPCs
  <2>3. used'[a] = used[a] + (IF a = rcpt[w] THEN d ELSE 0)
    BY <1>1 DEF UsedPlus
  <2>. QED  BY <2>1, <2>2, <2>3
<1>4. CoveredInv'
  <2>. SUFFICES ASSUME NEW a \in Accounts
                PROVE  Exists(a)' => used'[a] >= Bytes(Live(a))' + HeldBytes(a)' + Bytes(Releasing(a))'
    BY DEF CoveredInv
  <2>1. Bytes(Live(a)) \in Nat /\ Bytes(Live(a)') = Bytes(Live(a)) /\ used[a] \in Nat
    BY <1>1, <1>3, LiveAndReleasing, BytesWeigh
  <2>2. used'[a] + Bytes(Live(a)) + HoldOf(w, a) >= used[a] + Bytes(Live(a)') + HoldOf(w, a)'
    <3>1. /\ HoldOf(w, a) = 0 /\ HoldOf(w, a)' = IF a = rcpt[w] THEN d ELSE 0
          /\ used'[a] = used[a] + (IF a = rcpt[w] THEN d ELSE 0)
      BY <1>3
    <3>2. (IF a = rcpt[w] THEN d ELSE 0) \in Nat
      BY <1>1
    <3>. HIDE DEF d
    <3>. QED  BY <2>1, <3>1, <3>2
  <2>. QED  BY <2>2, QuotaBalanced DEF WorkerMoves, apiVars, QuotaInv
<1>5. WithinInv'
  <2>. SUFFICES ASSUME NEW a \in Accounts
                PROVE  Quota[a] > 0 => Bytes(Live(a))' + HeldBytes(a)' <= Quota[a]
    BY DEF WithinInv
  <2>1. CASE a # rcpt[w] \/ d = 0
    <3>1. Bytes(Live(a)) \in Nat /\ Bytes(Live(a)') = Bytes(Live(a))
      BY <1>3, LiveAndReleasing, BytesWeigh
    <3>2. HoldOf(w, a)' = 0 /\ HoldOf(w, a) = 0
      BY <1>3, <2>1
    <3>3. Bytes(Live(a)') + HoldOf(w, a)' <= Bytes(Live(a)) + HoldOf(w, a)
      BY <3>1, <3>2
    <3>. QED  BY <3>3, LimitBalanced DEF WorkerMoves, QuotaInv
  <2>2. CASE a = rcpt[w] /\ d # 0
    <3>1. Exists(a) /\ (Quota[a] <= 0 \/ used[a] + d <= Quota[a])
      BY <2>2 DEF QuotaFits
    <3>2. used[a] >= Bytes(Live(a)) + HeldBytes(a) + Bytes(Releasing(a))
      BY <3>1 DEF QuotaInv, CoveredInv
    <3>3. Bytes(Live(a)) \in Nat /\ Bytes(Releasing(a)) \in Nat
      BY LiveAndReleasing, BytesWeigh
    <3>4. HeldBytes(a) \in Nat /\ HeldBytes(a)' = HeldBytes(a) - HoldOf(w, a) + HoldOf(w, a)'
      BY HeldChange DEF WorkerMoves
    <3>5. HoldOf(w, a) = 0 /\ HoldOf(w, a)' = d
      BY <1>3, <2>2
    <3>6. HeldBytes(a)' = HeldBytes(a) + d
      BY <1>1, <3>4, <3>5
    <3>7. Bytes(Live(a))' = Bytes(Live(a))
      BY <1>3 DEF Bytes
    <3>8. ASSUME Quota[a] > 0
          PROVE  Bytes(Live(a)) + (HeldBytes(a) + d) <= Quota[a]
      <4>1. used[a] + d <= Quota[a] /\ Quota[a] \in Int /\ used[a] \in Nat
        BY <1>1, <3>1, <3>8
      <4>. DEFINE L == Bytes(Live(a))  R == Bytes(Releasing(a))  H == HeldBytes(a)
      <4>2. L \in Nat /\ R \in Nat /\ H \in Nat /\ used[a] >= L + H + R /\ d \in Nat
        BY <1>1, <3>2, <3>3, <3>4
      <4>. HIDE DEF L, R, H, d
      <4>3. L + (H + d) <= Quota[a]
        BY <4>1, <4>2
      <4>. QED  BY <4>3 DEF L, R, H, d
    <3>. QED  BY <3>6, <3>7, <3>8, Zenon
  <2>. QED  BY <2>1, <2>2
<1>6. SumInv'
  BY <1>2, SumMoves DEF WorkerMoves, QuotaInv
<1>7. RequestInv'
  BY DEF RequestInv, Deleting, apiVars, QuotaInv
<1>. QED  BY <1>4, <1>5, <1>6, <1>7 DEF QuotaInv

\* The message a worker stores takes the place of the bytes it held.
LEMMA QuotaInsert ==
  ASSUME Shape, Shape', IsFiniteSet(Workers), QuotaInv, NEW w \in Workers, WorkerMoves(w),
         pc[w] = "insert", IngestKeyFree(Oid(w)), doc' = [doc EXCEPT ![Oid(w)] = "live"],
         pc'[w] = "next", UNCHANGED <<used, apiVars>>
  PROVE  QuotaInv'
<1>. DEFINE o == Oid(w)  d == Size[job[w]]
<1>1. /\ o \in Oids /\ rcpt[w] \in Accounts /\ attempt[w] \in 1..MaxDeliver
      /\ d \in Nat /\ job[w] \in Msgs
  BY Local DEF Shape, TypeOK, StoreAndWorkers, InRecipient
<1>2. o[1] = job[w] /\ o[2] = rcpt[w] /\ o = <<o[1], o[2], attempt[w]>>
  BY DEF Oid
<1>3. doc[o] = "none" /\ doc \in [Oids -> {"none", "live", "deleted"}]
  BY <1>1, <1>2 DEF IngestKeyFree, HasMessageByIngest, Shape, TypeOK, StoreTypeOK
<1>. HIDE DEF o
<1>4. doc' = [doc EXCEPT ![o] = "live"]
  BY DEF o
<1>5. \A a \in Accounts : Live(a)' = IF a = rcpt[w] THEN Live(a) \cup {o} ELSE Live(a)
  BY <1>1, <1>2, <1>3, <1>4 DEF Live
<1>6. \A a \in Accounts :
        /\ HoldOf(w, a) = IF a = rcpt[w] THEN d ELSE 0
        /\ Bytes(Live(a)') = Bytes(Live(a)) + (IF a = rcpt[w] THEN d ELSE 0)
  <2>. SUFFICES ASSUME NEW a \in Accounts
                PROVE  /\ HoldOf(w, a) = IF a = rcpt[w] THEN d ELSE 0
                       /\ Bytes(Live(a)') = Bytes(Live(a)) + (IF a = rcpt[w] THEN d ELSE 0)
    OBVIOUS
  <2>1. HoldOf(w, a) = IF a = rcpt[w] THEN d ELSE 0
    BY DEF HoldOf, HoldingPCs
  <2>2. CASE a = rcpt[w]
    <3>1. Live(a) \in SUBSET Oids /\ o \notin Live(a)
      BY <1>3 DEF Live
    <3>2. Bytes(Live(a) \cup {o}) = Bytes(Live(a)) + Size[o[1]]
      BY <1>1, <3>1, BytesPlus
    <3>. QED  BY <1>2, <1>5, <2>1, <2>2, <3>2
  <2>3. CASE a # rcpt[w]
    <3>1. Bytes(Live(a)) \in Nat /\ Live(a)' = Live(a)
      BY <1>5, <2>3, LiveAndReleasing, BytesWeigh
    <3>. QED  BY <2>1, <2>3, <3>1
  <2>. QED  BY <2>2, <2>3
<1>7. \A a \in Accounts : HoldOf(w, a)' = 0
  BY HoldsNothing DEF HoldingPCs
<1>8. \A a \in Accounts : Bytes(Live(a)') + HoldOf(w, a)' <= Bytes(Live(a)) + HoldOf(w, a)
  <2>. SUFFICES ASSUME NEW a \in Accounts
                PROVE  Bytes(Live(a)') + HoldOf(w, a)' <= Bytes(Live(a)) + HoldOf(w, a)
    OBVIOUS
  <2>1. Bytes(Live(a)) \in Nat /\ (IF a = rcpt[w] THEN d ELSE 0) \in Nat
    BY <1>1, LiveAndReleasing, BytesWeigh
  <2>. HIDE DEF d
  <2>. QED  BY <1>6, <1>7, <2>1
<1>9. CoveredInv'
  <2>. SUFFICES ASSUME NEW a \in Accounts
                PROVE  Exists(a)' => used'[a] >= Bytes(Live(a))' + HeldBytes(a)' + Bytes(Releasing(a))'
    BY DEF CoveredInv
  <2>1. /\ Bytes(Live(a)) \in Nat /\ used[a] \in Nat /\ HoldOf(w, a) \in Nat
        /\ Bytes(Live(a)') \in Nat
    <3>1. Live(a)' \in SUBSET Oids
      BY DEF Live
    <3>2. Bytes(Live(a)) \in Nat /\ Bytes(Live(a)') \in Nat
      BY <3>1, LiveAndReleasing, BytesWeigh
    <3>. QED  BY <3>2, HeldChange DEF WorkerMoves, Shape, TypeOK, StoreTypeOK
  <2>2. used'[a] + Bytes(Live(a)) + HoldOf(w, a) >= used[a] + Bytes(Live(a)') + HoldOf(w, a)'
    <3>1. used'[a] = used[a] /\ HoldOf(w, a)' = 0
      BY <1>7
    <3>2. Bytes(Live(a)') + HoldOf(w, a)' <= Bytes(Live(a)) + HoldOf(w, a)
      BY <1>8
    <3>. QED  BY <2>1, <3>1, <3>2
  <2>. QED  BY <2>2, QuotaBalanced DEF WorkerMoves, apiVars, QuotaInv
<1>10. WithinInv'
  <2>. SUFFICES ASSUME NEW a \in Accounts
                PROVE  Quota[a] > 0 => Bytes(Live(a))' + HeldBytes(a)' <= Quota[a]
    BY DEF WithinInv
  <2>. QED  BY <1>8, LimitBalanced DEF WorkerMoves, QuotaInv
<1>11. SumInv'
  BY SumMoves DEF WorkerMoves, QuotaInv
<1>12. RequestInv'
  BY <1>3, <1>4 DEF RequestInv, Deleting, apiVars, QuotaInv
<1>. QED  BY <1>9, <1>10, <1>11, <1>12 DEF QuotaInv

\* The deferred release of what a worker held, clamped at zero.
LEMMA QuotaRollback ==
  ASSUME Shape, Shape', IsFiniteSet(Workers), QuotaInv, NEW w \in Workers, WorkerMoves(w),
         pc[w] = "rollback", pc'[w] = "next", used' = UsedMinus(rcpt[w], Size[job[w]]),
         UNCHANGED <<doc, apiVars>>
  PROVE  QuotaInv'
<1>. DEFINE d == Size[job[w]]
<1>1. /\ d \in Nat /\ rcpt[w] \in Accounts /\ used \in [Accounts -> Nat]
      /\ used' \in [Accounts -> Nat]
  BY Local DEF Shape, TypeOK, StoreTypeOK, StoreAndWorkers, InRecipient
<1>2. \A a \in Accounts : /\ HoldOf(w, a)' = 0
                          /\ HoldOf(w, a) = IF a = rcpt[w] THEN d ELSE 0
                          /\ Live(a)' = Live(a)
  <2>1. \A a \in Accounts : HoldOf(w, a)' = 0
    BY HoldsNothing DEF HoldingPCs
  <2>2. \A a \in Accounts : /\ HoldOf(w, a) = IF a = rcpt[w] THEN d ELSE 0
                            /\ Live(a)' = Live(a)
    BY DEF HoldOf, HoldingPCs, Live
  <2>. QED  BY <2>1, <2>2
<1>3. \A a \in Accounts : used'[a] + (IF a = rcpt[w] THEN d ELSE 0) >= used[a]
  BY <1>1 DEF UsedMinus
<1>4. CoveredInv'
  <2>. SUFFICES ASSUME NEW a \in Accounts
                PROVE  Exists(a)' => used'[a] >= Bytes(Live(a))' + HeldBytes(a)' + Bytes(Releasing(a))'
    BY DEF CoveredInv
  <2>1. Bytes(Live(a)) \in Nat /\ Bytes(Live(a)') = Bytes(Live(a))
    BY <1>2, LiveAndReleasing, BytesWeigh
  <2>2. /\ HoldOf(w, a)' = 0 /\ HoldOf(w, a) = (IF a = rcpt[w] THEN d ELSE 0)
        /\ used[a] \in Nat /\ used'[a] \in Nat /\ (IF a = rcpt[w] THEN d ELSE 0) \in Nat
        /\ used'[a] + (IF a = rcpt[w] THEN d ELSE 0) >= used[a]
    BY <1>1, <1>2, <1>3
  <2>3. used'[a] + Bytes(Live(a)) + HoldOf(w, a) >= used[a] + Bytes(Live(a)') + HoldOf(w, a)'
    <3>. HIDE DEF d
    <3>. QED  BY <2>1, <2>2
  <2>. QED  BY <2>3, QuotaBalanced DEF WorkerMoves, apiVars, QuotaInv
<1>5. WithinInv'
  <2>. SUFFICES ASSUME NEW a \in Accounts
                PROVE  Quota[a] > 0 => Bytes(Live(a))' + HeldBytes(a)' <= Quota[a]
    BY DEF WithinInv
  <2>1. Bytes(Live(a)) \in Nat /\ Bytes(Live(a)') = Bytes(Live(a))
    BY <1>2, LiveAndReleasing, BytesWeigh
  <2>2. /\ HoldOf(w, a)' = 0 /\ HoldOf(w, a) = (IF a = rcpt[w] THEN d ELSE 0)
        /\ (IF a = rcpt[w] THEN d ELSE 0) \in Nat
    BY <1>1, <1>2
  <2>3. Bytes(Live(a)') + HoldOf(w, a)' <= Bytes(Live(a)) + HoldOf(w, a)
    <3>. HIDE DEF d
    <3>. QED  BY <2>1, <2>2
  <2>. QED  BY <2>3, LimitBalanced DEF WorkerMoves, QuotaInv
<1>6. SumInv'
  BY SumMoves DEF WorkerMoves, QuotaInv
<1>7. RequestInv'
  BY DEF RequestInv, Deleting, apiVars, QuotaInv
<1>. QED  BY <1>4, <1>5, <1>6, <1>7 DEF QuotaInv

\* The sum is written back: it is right, because the only worker holds
\* nothing while it recalculates, or the account is gone.
LEMMA QuotaWriteBack ==
  ASSUME Shape, Shape', IsFiniteSet(Workers), QuotaInv, NEW w \in Workers, WorkerMoves(w),
         pc[w] = "writeBack", pc'[w] = "reserveAgain", used' = UsedSet(rcpt[w], total[w]),
         UNCHANGED <<doc, apiVars>>
  PROVE  QuotaInv'
<1>1. /\ rcpt[w] \in Accounts /\ used \in [Accounts -> Nat] /\ total[w] \in Nat
  BY DEF Shape, TypeOK, StoreTypeOK, IngestTypeOK, WorkerInv, InRecipient
<1>2. SumFits(w)
  BY DEF QuotaInv, SumInv
<1>3. \A a \in Accounts : HoldOf(w, a)' = 0 /\ HoldOf(w, a)' <= HoldOf(w, a)
  BY HoldsNothing DEF HoldingPCs
<1>4. CASE ~Exists(rcpt[w])
  <2>1. used' = used
    BY <1>4 DEF UsedSet
  <2>. QED  BY <1>3, <2>1, QuotaIdle
<1>5. CASE Exists(rcpt[w])
  <2>1. OneAtATime /\ total[w] >= Bytes(Live(rcpt[w]))
    BY <1>2, <1>5 DEF SumFits
  <2>2. used' = [used EXCEPT ![rcpt[w]] = total[w]]
    BY <1>5 DEF UsedSet
  <2>3. \A a \in Accounts : Holding(a)' = {} /\ Releasing(a)' = {} /\ Live(a)' = Live(a)
    <3>1. \A v \in Workers : v = w
      BY <2>1 DEF OneAtATime
    <3>2. \A c \in Clients : cpc[c] # "release"
      BY <2>1 DEF OneAtATime, QuotaInv, RequestInv, Deleting
    <3>3. cpc' = cpc
      BY DEF apiVars
    <3>. QED  BY <3>1, <3>2, <3>3 DEF Holding, Releasing, Live
  <2>4. \A a \in Accounts : HeldBytes(a)' = 0 /\ Bytes(Releasing(a))' = 0
    <3>1. Bytes({}) = 0
      <4>1. UNION {{o} \X (1..Size[o[1]]) : o \in {}} = {}
        OBVIOUS
      <4>. QED  BY <4>1, FS_EmptySet DEF Bytes
    <3>. SUFFICES ASSUME NEW a \in Accounts
                  PROVE  HeldBytes(a)' = 0 /\ Bytes(Releasing(a))' = 0
      OBVIOUS
    <3>2. UNION {{v} \X (1..Size[job'[v]]) : v \in Holding(a)'} = {}
      BY <2>3
    <3>3. HeldBytes(a)' = 0
      BY <3>2, FS_EmptySet DEF HeldBytes
    <3>4. Releasing(a)' = {}
      BY <2>3
    <3>5. Bytes(Releasing(a))' = Bytes(Releasing(a)')
      BY DEF Bytes
    <3>. QED  BY <3>1, <3>3, <3>4, <3>5
  <2>5. CoveredInv'
    <3>. SUFFICES ASSUME NEW a \in Accounts, Exists(a)'
                  PROVE  used'[a] >= Bytes(Live(a))' + HeldBytes(a)' + Bytes(Releasing(a))'
      BY DEF CoveredInv
    <3>1. Bytes(Live(a)) \in Nat /\ Bytes(Live(a))' = Bytes(Live(a))
      BY <2>3, LiveAndReleasing, BytesWeigh DEF Bytes
    <3>2. HeldBytes(a)' = 0 /\ Bytes(Releasing(a))' = 0
      BY <2>4
    <3>3. used'[a] >= Bytes(Live(a))
      <4>1. CASE a = rcpt[w]
        BY <1>1, <2>1, <2>2, <4>1
      <4>2. CASE a # rcpt[w]
        <5>1. Exists(a) /\ used'[a] = used[a] /\ used[a] \in Nat
          BY <1>1, <2>2, <4>2 DEF WorkerMoves, Exists
        <5>2. used[a] >= Bytes(Live(a)) + HeldBytes(a) + Bytes(Releasing(a))
          BY <5>1 DEF QuotaInv, CoveredInv
        <5>3. HeldBytes(a) \in Nat /\ Bytes(Releasing(a)) \in Nat
          BY HeldIsNat, LiveAndReleasing, BytesWeigh
        <5>. QED  BY <3>1, <5>1, <5>2, <5>3
      <4>. QED  BY <4>1, <4>2
    <3>4. used'[a] \in Nat
      BY DEF Shape, TypeOK, StoreTypeOK
    <3>. QED  BY <3>1, <3>2, <3>3, <3>4
  <2>6. WithinInv'
    <3>. SUFFICES ASSUME NEW a \in Accounts
                  PROVE  Quota[a] > 0 => Bytes(Live(a))' + HeldBytes(a)' <= Quota[a]
      BY DEF WithinInv
    <3>1. Bytes(Live(a)) \in Nat /\ Bytes(Live(a)') = Bytes(Live(a))
      BY <2>3, LiveAndReleasing, BytesWeigh
    <3>2. HoldOf(w, a) \in Nat /\ HoldOf(w, a)' \in Nat /\ HoldOf(w, a)' <= HoldOf(w, a)
      BY <1>3, HeldChange DEF WorkerMoves
    <3>3. Bytes(Live(a)') + HoldOf(w, a)' <= Bytes(Live(a)) + HoldOf(w, a)
      BY <3>1, <3>2
    <3>. QED  BY <3>3, LimitBalanced DEF WorkerMoves, QuotaInv
  <2>7. SumInv'
    BY SumMoves DEF WorkerMoves, QuotaInv
  <2>8. RequestInv'
    BY DEF RequestInv, Deleting, apiVars, QuotaInv
  <2>. QED  BY <2>5, <2>6, <2>7, <2>8 DEF QuotaInv
<1>. QED  BY <1>4, <1>5

QuotaHypothesis == NeverRecalculated \/ OneAtATime

LEMMA QuotaWorker ==
  ASSUME QuotaHypothesis, "ambiguous" \notin Faults, IsFiniteSet(Workers),
         Shape, Shape', QuotaInv, NEW w \in Workers, WorkerStep(w) \/ Crash(w),
         UNCHANGED apiVars
  PROVE  QuotaInv'
<1>1. WorkerMoves(w)
  BY OnlyOneMoves
<1>2. /\ pc \in [Workers -> WorkerPCs]
      /\ total \in [Workers -> Nat]
  BY DEF Shape, TypeOK, IngestTypeOK
\* Where a worker stores nothing, uses nothing and ends up holding nothing.
<1>3. ASSUME UNCHANGED <<doc, used>>, pc'[w] \notin HoldingPCs,
             pc'[w] \notin {"aggregate", "writeBack"}
      PROVE  QuotaInv'
  BY <1>1, <1>3, HoldsNothing, QuotaIdle
\* Where it goes on with the same recipient and holds what it held.
<1>4. ASSUME UNCHANGED <<doc, used, rcpt, job>>, pc[w] \in HoldingPCs,
             pc'[w] \notin {"aggregate", "writeBack"}
      PROVE  QuotaInv'
  BY <1>1, <1>4, HoldsTheSame, QuotaIdle
<1>5. CASE \/ \E m \in Msgs, n \in 1..MaxDeliver : Receive(w, m, n)
           \/ \E a \in Accounts : LookupAccount(w, a)
           \/ CheckIngested(w) \/ Settle(w) \/ Crash(w)
  <2>1. /\ UNCHANGED <<doc, used>>
        /\ pc'[w] \in {"idle", "settle", "next", "dedup", "reserve"}
    BY <1>2, <1>5 DEF Receive, LookupAccount, CheckIngested, Settle, Crash, BecomeIdle, Goto,
                      Return, Proceed, storeVars
  <2>. QED  BY <1>3, <2>1 DEF HoldingPCs
<1>6. CASE Reserve(w)
  <2>1. pc[w] \in {"reserve", "reserveAgain"} /\ UNCHANGED doc
    BY <1>6 DEF Reserve
  <2>2. \/ /\ QuotaFits(rcpt[w], Size[job[w]])
           /\ used' = UsedPlus(rcpt[w], Size[job[w]])
           /\ Proceed(w, "parse")
        \/ /\ ~QuotaFits(rcpt[w], Size[job[w]])
           /\ Proceed(w, "aggregate")
           /\ UNCHANGED used
        \/ /\ \E r \in {"permanent", "transient"} : Return(w, rcpt[w], r)
           /\ UNCHANGED used
    BY <1>6 DEF Reserve
  <2>3. CASE /\ QuotaFits(rcpt[w], Size[job[w]])
             /\ used' = UsedPlus(rcpt[w], Size[job[w]])
             /\ Proceed(w, "parse")
    BY <1>1, <2>1, <2>3, QuotaReserve
  <2>4. CASE /\ ~QuotaFits(rcpt[w], Size[job[w]])
             /\ Proceed(w, "aggregate")
             /\ UNCHANGED used
    <3>1. pc'[w] = "aggregate" /\ rcpt' = rcpt /\ UNCHANGED account
      BY <1>1, <1>2, <2>4 DEF Proceed, Goto, WorkerMoves
    <3>2. ~Exists(rcpt[w]) \/ ~(Quota[rcpt[w]] <= 0)
      BY <2>4 DEF QuotaFits
    <3>3. rcpt[w] \in Accounts
      BY <2>1 DEF Shape, TypeOK, IngestTypeOK, WorkerInv, InRecipient
    <3>4. ~Exists(rcpt[w]) \/ OneAtATime
      BY <3>2, <3>3 DEF QuotaHypothesis, NeverRecalculated
    <3>5. SumFits(w)'
      BY <3>1, <3>4 DEF SumFits, Exists
    <3>6. \A a \in Accounts : HoldOf(w, a)' <= HoldOf(w, a)
      BY <1>1, <3>1, HoldsNothing DEF HoldingPCs
    <3>. QED  BY <1>1, <2>1, <2>4, <3>5, <3>6, QuotaIdle
  <2>5. CASE /\ \E r \in {"permanent", "transient"} : Return(w, rcpt[w], r)
             /\ UNCHANGED used
    <3>1. pc'[w] = "next"
      BY <1>2, <2>5 DEF Return, Goto
    <3>. QED  BY <1>3, <2>1, <2>5, <3>1 DEF HoldingPCs
  <2>. QED  BY <2>2, <2>3, <2>4, <2>5
<1>7. CASE Aggregate(w)
  <2>1. pc[w] = "aggregate" /\ UNCHANGED <<doc, used, account>>
    BY <1>7 DEF Aggregate, storeVars
  <2>2. \/ pc'[w] = "writeBack" /\ rcpt' = rcpt /\ total'[w] = Bytes(Live(rcpt[w]))
        \/ pc'[w] = "reserveAgain"
    BY <1>2, <1>7 DEF Aggregate, Goto, Proceed
  <2>3. CASE pc'[w] = "writeBack" /\ rcpt' = rcpt /\ total'[w] = Bytes(Live(rcpt[w]))
    <3>1. ~Exists(rcpt[w]) \/ OneAtATime
      BY <2>1 DEF QuotaInv, SumInv, SumFits
    <3>2. Bytes(Live(rcpt[w]))' = Bytes(Live(rcpt[w]))
      BY <2>1, <2>3 DEF Bytes, Live
    <3>3. Bytes(Live(rcpt[w])) \in Nat
      BY LiveAndReleasing, BytesWeigh
    <3>4. total'[w] >= Bytes(Live(rcpt[w]))'
      BY <2>3, <3>2, <3>3
    <3>5. SumFits(w)'
      BY <2>1, <2>3, <3>1, <3>4 DEF SumFits, Exists
    <3>6. \A a \in Accounts : HoldOf(w, a)' <= HoldOf(w, a)
      BY <1>1, <2>3, HoldsNothing DEF HoldingPCs
    <3>. QED  BY <1>1, <2>1, <3>5, <3>6, QuotaIdle
  <2>. QED  BY <1>3, <2>1, <2>2, <2>3 DEF HoldingPCs
<1>8. CASE WriteBack(w)
  <2>1. /\ pc[w] = "writeBack" /\ pc'[w] = "reserveAgain" /\ UNCHANGED doc
        /\ used' = UsedSet(rcpt[w], total[w]) \/ UNCHANGED used
    BY <1>2, <1>8 DEF WriteBack, Goto
  <2>. QED  BY <1>1, <1>3, <2>1, QuotaWriteBack DEF HoldingPCs
<1>9. CASE ParseAndUpload(w) \/ Panic(w)
  <2>1. /\ UNCHANGED <<doc, used, rcpt, job>> /\ pc[w] = "parse"
        /\ pc'[w] \in {"insert", "rollback"}
    BY <1>2, <1>9 DEF ParseAndUpload, Panic, Proceed, Abort, Goto
  <2>. QED  BY <1>4, <2>1 DEF HoldingPCs
<1>10. CASE Insert(w)
  <2>1. /\ pc[w] = "insert" /\ UNCHANGED used
        /\ \/ /\ IngestKeyFree(Oid(w))
              /\ doc' = [doc EXCEPT ![Oid(w)] = "live"]
              /\ pc'[w] = "next"
           \/ /\ UNCHANGED <<doc, rcpt, job>>
              /\ pc'[w] = "rollback"
    BY <1>2, <1>10 DEF Insert, Commit, Return, Abort, Goto
  <2>. QED  BY <1>1, <1>4, <2>1, QuotaInsert DEF HoldingPCs
<1>11. CASE Rollback(w)
  <2>1. /\ pc[w] = "rollback" /\ pc'[w] = "next" /\ UNCHANGED doc
        /\ used' = UsedMinus(rcpt[w], Size[job[w]]) \/ UNCHANGED used
    BY <1>2, <1>11 DEF Rollback, Return, Goto
  <2>. QED  BY <1>1, <1>3, <2>1, QuotaRollback DEF HoldingPCs
<1>. QED  BY <1>5, <1>6, <1>7, <1>8, <1>9, <1>10, <1>11 DEF WorkerStep

\* The queue and the collectors touch nothing the quota is about; the TTL
\* indexes only take accounts and messages away.
LEMMA QuotaStore ==
  ASSUME Shape, Shape', IsFiniteSet(Workers), QuotaInv,
         UNCHANGED <<used, pc, rcpt, job, total, apiVars>>,
         \A a \in Accounts : Exists(a)' => Exists(a),
         doc' = doc \/ \E T : doc' = Removed(T)
  PROVE  QuotaInv'
<1>1. \A o \in Oids : doc'[o] = doc[o] \/ doc'[o] = "none"
  BY DEF Removed
<1>2. \A a \in Accounts : /\ Live(a)' \in SUBSET Live(a)
                          /\ Releasing(a)' \in SUBSET Releasing(a)
  BY <1>1 DEF Live, Releasing, apiVars
<1>3. CoveredInv' /\ WithinInv'
  BY <1>2, QuotaQuiet DEF QuotaInv
<1>4. SumInv'
  BY <1>2, SumQuiet DEF QuotaInv
<1>5. RequestInv'
  BY <1>1 DEF RequestInv, Deleting, apiVars, QuotaInv
<1>. QED  BY <1>3, <1>4, <1>5 DEF QuotaInv

\* What one step of a request may touch.
RequestMoves(c) ==
  /\ \A d \in Clients \ {c} :
       cpc'[d] = cpc[d] /\ cacct'[d] = cacct[d] /\ found'[d] = found[d] /\ rpc'[d] = rpc[d]
  /\ \A a \in Accounts : Exists(a)' => Exists(a)
  /\ UNCHANGED ingestVars

\* While a message is being deleted there is no other request.
LEMMA DeletesAlone ==
  ASSUME QuotaHypothesis, NEW c \in Clients, NEW d \in Clients, "delete" \in Ops
  PROVE  c = d
BY DEF QuotaHypothesis, NeverRecalculated, OneAtATime

LEMMA RequestStays ==
  ASSUME QuotaHypothesis, RequestInv, NEW c \in Clients, RequestMoves(c),
         cpc'[c] \in RequestPCs, rpc'[c] = "idle",
         cpc'[c] \in {"softDelete", "release"} => Deleting(c)'
  PROVE  RequestInv'
<1>. SUFFICES ASSUME NEW d \in Clients, d # c
              PROVE  /\ cpc'[d] \in RequestPCs
                     /\ rpc'[d] = "idle"
                     /\ cpc'[d] \in {"softDelete", "release"} => Deleting(d)'
  BY DEF RequestInv
<1>1. /\ cpc[d] \in RequestPCs /\ rpc[d] = "idle"
      /\ cpc[d] \in {"softDelete", "release"} => "delete" \in Ops
  BY DEF RequestInv, Deleting
<1>2. "delete" \notin Ops
  BY DeletesAlone
<1>. QED  BY <1>1, <1>2 DEF RequestMoves

\* Steps of a request that release nothing and have nothing to release.
LEMMA QuotaRequestQuiet ==
  ASSUME QuotaHypothesis, Shape, Shape', IsFiniteSet(Workers), QuotaInv,
         NEW c \in Clients, RequestMoves(c), used' = used,
         cpc'[c] \in RequestPCs \ {"release"}, rpc'[c] = "idle",
         cpc'[c] = "softDelete" => Deleting(c)',
         doc' = doc \/ \E T : doc' = SoftDeleted(T) \/ doc' = Removed(T)
  PROVE  QuotaInv'
<1>1. \A o \in Oids : doc'[o] = "live" => doc[o] = "live"
  BY DEF SoftDeleted, Removed
<1>2. \A a \in Accounts : Live(a)' \in SUBSET Live(a)
  BY <1>1 DEF Live
<1>3. \A a \in Accounts : Releasing(a)' \in SUBSET Releasing(a)
  <2>. SUFFICES ASSUME NEW a \in Accounts, NEW x \in Releasing(a)'
                PROVE  x \in Releasing(a)
    OBVIOUS
  <2>1. PICK d \in Clients : cpc'[d] = "release" /\ cacct'[d] = a /\ x \in found'[d]
    BY DEF Releasing
  <2>2. d # c
    BY <2>1
  <2>3. cpc[d] = "release" /\ cacct[d] = a /\ x \in found[d]
    BY <2>1, <2>2 DEF RequestMoves
  <2>. QED  BY <2>3 DEF Releasing
<1>4. UNCHANGED <<pc, rcpt, job, total>> /\ \A a \in Accounts : Exists(a)' => Exists(a)
  BY DEF RequestMoves, ingestVars, workerVars
<1>5. CoveredInv' /\ WithinInv'
  BY <1>2, <1>3, <1>4, QuotaQuiet DEF QuotaInv
<1>6. SumInv'
  BY <1>2, <1>4, SumQuiet DEF QuotaInv
<1>7. RequestInv'
  BY RequestStays DEF QuotaInv
<1>. QED  BY <1>5, <1>6, <1>7 DEF QuotaInv

\* The worker's side of a step of a request: it stands still.
LEMMA QuotaOtherSide ==
  ASSUME Shape, Shape', IsFiniteSet(Workers), QuotaInv, NEW c \in Clients, RequestMoves(c),
         \A o \in Oids : doc'[o] = "live" => doc[o] = "live"
  PROVE  /\ WithinInv' /\ SumInv'
         /\ \A a \in Accounts : HeldBytes(a)' = HeldBytes(a) /\ HeldBytes(a) \in Nat
<1>1. UNCHANGED <<pc, rcpt, job, total>> /\ \A a \in Accounts : Exists(a)' => Exists(a)
  BY DEF RequestMoves, ingestVars, workerVars
<1>2. \A a \in Accounts : Live(a)' \in SUBSET Live(a)
  BY DEF Live
<1>3. SumInv'
  BY <1>1, <1>2, SumQuiet DEF QuotaInv
<1>4. \A a \in Accounts : HeldBytes(a)' = HeldBytes(a) /\ HeldBytes(a) \in Nat
  <2>1. \A a \in Accounts : HeldBytes(a) \in Nat
    BY HeldIsNat
  <2>2. \A a \in Accounts : HeldBytes(a)' = HeldBytes(a)
    BY <1>1 DEF HeldBytes, Holding
  <2>. QED  BY <2>1, <2>2
<1>5. WithinInv'
  <2>. SUFFICES ASSUME NEW a \in Accounts, Quota[a] > 0
                PROVE  Bytes(Live(a))' + HeldBytes(a)' <= Quota[a]
    BY DEF WithinInv
  <2>1. Bytes(Live(a)) + HeldBytes(a) <= Quota[a] /\ Quota[a] \in Int
    BY DEF QuotaInv, WithinInv
  <2>2. HeldBytes(a)' = HeldBytes(a) /\ HeldBytes(a) \in Nat
    BY <1>4
  <2>3. /\ Bytes(Live(a)') <= Bytes(Live(a))
        /\ Bytes(Live(a)') \in Nat /\ Bytes(Live(a)) \in Nat
    BY <1>2, LiveAndReleasing, BytesGrow
  <2>4. Bytes(Live(a))' = Bytes(Live(a)')
    BY DEF Bytes
  <2>5. Bytes(Live(a)') + HeldBytes(a) <= Quota[a]
    BY <2>1, <2>2, <2>3
  <2>. QED  BY <2>2, <2>4, <2>5, Zenon
<1>. QED  BY <1>3, <1>4, <1>5

\* DeleteMessage hides the message; its bytes stay in use until the release.
LEMMA QuotaSoftDelete ==
  ASSUME QuotaHypothesis, Shape, Shape', IsFiniteSet(Workers), QuotaInv,
         NEW c \in Clients, RequestMoves(c), cpc[c] = "softDelete", cpc'[c] = "release",
         UNCHANGED <<used, account, cacct, found, rpc>>,
         \A o \in found[c] : doc[o] # "none", doc' = SoftDeleted(found[c])
  PROVE  QuotaInv'
<1>1. "delete" \in Ops /\ cacct[c] \in Accounts
  BY DEF QuotaInv, RequestInv, Deleting, Shape, ClientInv
<1>2. PICK o \in Oids : found[c] = {o} /\ o[2] = cacct[c] /\ doc[o] # "deleted"
  BY DEF QuotaInv, RequestInv, Deleting
<1>3. doc[o] = "live"
  BY <1>2 DEF Shape, TypeOK, StoreTypeOK
<1>4. doc' = [p \in Oids |-> IF p = o THEN "deleted" ELSE doc[p]]
  BY <1>2, <1>3 DEF SoftDeleted
<1>5. \A d \in Clients : d = c
  BY <1>1, DeletesAlone
<1>6. \A a \in Accounts : /\ Releasing(a) = {}
                          /\ Releasing(a)' = IF a = cacct[c] THEN {o} ELSE {}
                          /\ Live(a)' = IF a = cacct[c] THEN Live(a) \ {o} ELSE Live(a)
                          /\ a = cacct[c] => o \in Live(a)
  <2>. SUFFICES ASSUME NEW a \in Accounts
                PROVE  /\ Releasing(a) = {}
                       /\ Releasing(a)' = IF a = cacct[c] THEN {o} ELSE {}
                       /\ Live(a)' = IF a = cacct[c] THEN Live(a) \ {o} ELSE Live(a)
                       /\ a = cacct[c] => o \in Live(a)
    OBVIOUS
  <2>1. Releasing(a) = {}
    BY <1>5 DEF Releasing
  <2>2. Releasing(a)' = IF a = cacct[c] THEN {o} ELSE {}
    BY <1>2, <1>5 DEF Releasing
  <2>3. Live(a)' = IF a = cacct[c] THEN Live(a) \ {o} ELSE Live(a)
    BY <1>2, <1>4 DEF Live
  <2>4. a = cacct[c] => o \in Live(a)
    BY <1>2, <1>3 DEF Live
  <2>. QED  BY <2>1, <2>2, <2>3, <2>4
<1>7. \A p \in Oids : doc'[p] = "live" => doc[p] = "live"
  BY <1>4
<1>8. /\ WithinInv' /\ SumInv'
      /\ \A a \in Accounts : HeldBytes(a)' = HeldBytes(a) /\ HeldBytes(a) \in Nat
  BY <1>7, QuotaOtherSide
<1>9. CoveredInv'
  <2>. SUFFICES ASSUME NEW a \in Accounts, Exists(a)'
                PROVE  used'[a] >= Bytes(Live(a))' + HeldBytes(a)' + Bytes(Releasing(a))'
    BY DEF CoveredInv
  <2>1. used[a] >= Bytes(Live(a)) + HeldBytes(a) + Bytes(Releasing(a)) /\ used[a] \in Nat
    BY DEF QuotaInv, CoveredInv, Exists, Shape, TypeOK, StoreTypeOK
  <2>2. Bytes(Live(a)) + Bytes(Releasing(a)) = Bytes(Live(a)') + Bytes(Releasing(a)')
    <3>1. CASE a = cacct[c]
      <4>1. Live(a) \in SUBSET Oids /\ o \in Live(a)
        BY <1>6, <3>1, LiveAndReleasing
      <4>2. (Live(a) \ {o}) \cup {o} = Live(a) /\ {} \cup {o} = {o}
        BY <4>1
      <4>3. /\ Bytes((Live(a) \ {o}) \cup {o}) = Bytes(Live(a) \ {o}) + Size[o[1]]
            /\ Bytes(Live(a) \ {o}) \in Nat /\ Size[o[1]] \in Nat
        <5>. DEFINE S == Live(a) \ {o}
        <5>1. S \in SUBSET Oids /\ o \notin S
          BY <4>1
        <5>. HIDE DEF S
        <5>2. /\ Bytes(S \cup {o}) = Bytes(S) + Size[o[1]]
              /\ Bytes(S) \in Nat /\ Size[o[1]] \in Nat
          BY <5>1, BytesPlus
        <5>. QED  BY <5>2 DEF S
      <4>4. Bytes({} \cup {o}) = Bytes({}) + Size[o[1]] /\ Bytes({}) \in Nat
        <5>. DEFINE S == {}
        <5>1. S \in SUBSET Oids /\ o \notin S
          OBVIOUS
        <5>. HIDE DEF S
        <5>2. Bytes(S \cup {o}) = Bytes(S) + Size[o[1]] /\ Bytes(S) \in Nat
          BY <5>1, BytesPlus
        <5>. QED  BY <5>2 DEF S
      <4>5. /\ Bytes(Live(a)) = Bytes(Live(a) \ {o}) + Size[o[1]]
            /\ Bytes({o}) = Bytes({}) + Size[o[1]]
        BY <4>2, <4>3, <4>4
      <4>6. /\ Bytes(Live(a)') = Bytes(Live(a) \ {o}) /\ Bytes(Releasing(a)') = Bytes({o})
            /\ Bytes(Releasing(a)) = Bytes({})
        BY <1>6, <3>1
      <4>. QED  BY <4>3, <4>4, <4>5, <4>6
    <3>2. CASE a # cacct[c]
      BY <1>6, <3>2
    <3>. QED  BY <3>1, <3>2
  <2>3. /\ Bytes(Live(a)) \in Nat /\ Bytes(Releasing(a)) \in Nat
        /\ Bytes(Live(a)') \in Nat /\ Bytes(Releasing(a)') \in Nat
    <3>1. Live(a)' \in SUBSET Oids /\ Releasing(a)' \in SUBSET Oids
      BY <1>6 DEF Live
    <3>. QED  BY <3>1, LiveAndReleasing, BytesWeigh
  <2>4. HeldBytes(a)' = HeldBytes(a) /\ HeldBytes(a) \in Nat
    BY <1>8
  <2>5. Bytes(Live(a))' = Bytes(Live(a)') /\ Bytes(Releasing(a))' = Bytes(Releasing(a)')
    BY DEF Bytes
  <2>6. used[a] >= Bytes(Live(a)') + HeldBytes(a) + Bytes(Releasing(a)')
    BY <2>1, <2>2, <2>3, <2>4
  <2>. QED  BY <2>4, <2>5, <2>6, Zenon
<1>10. Deleting(c)'
  BY <1>1, <1>2 DEF Deleting
<1>11. RequestInv'
  <2>1. cpc'[c] \in RequestPCs /\ rpc'[c] = "idle"
    BY DEF RequestPCs, QuotaInv, RequestInv
  <2>. QED  BY <1>10, <2>1, RequestStays DEF QuotaInv
<1>. QED  BY <1>8, <1>9, <1>11 DEF QuotaInv

\* UpdateAccountUsed takes back what the deleted message had in use.
LEMMA QuotaRelease ==
  ASSUME QuotaHypothesis, Shape, Shape', IsFiniteSet(Workers), QuotaInv,
         NEW c \in Clients, RequestMoves(c), cpc[c] = "release", cpc'[c] = "idle",
         used' = UsedMinus(cacct[c], Bytes(found[c])), UNCHANGED <<account, doc, rpc>>
  PROVE  QuotaInv'
<1>1. "delete" \in Ops /\ cacct[c] \in Accounts /\ found[c] \in SUBSET Oids
  BY DEF QuotaInv, RequestInv, Deleting, Shape, ClientInv, TypeOK, ApiTypeOK
<1>2. \A d \in Clients : d = c
  BY <1>1, DeletesAlone
<1>3. \A a \in Accounts : /\ Releasing(a) = IF a = cacct[c] THEN found[c] ELSE {}
                          /\ Releasing(a)' = {}
                          /\ Live(a)' = Live(a)
  <2>1. \A a \in Accounts : Releasing(a) = IF a = cacct[c] THEN found[c] ELSE {}
    BY <1>2 DEF Releasing
  <2>2. \A a \in Accounts : Releasing(a)' = {}
    BY <1>2 DEF Releasing
  <2>3. \A a \in Accounts : Live(a)' = Live(a)
    BY DEF Live
  <2>. QED  BY <2>1, <2>2, <2>3
<1>4. /\ WithinInv' /\ SumInv'
      /\ \A a \in Accounts : HeldBytes(a)' = HeldBytes(a) /\ HeldBytes(a) \in Nat
  BY QuotaOtherSide
<1>5. Bytes({}) = 0
  <2>1. UNION {{o} \X (1..Size[o[1]]) : o \in {}} = {}
    OBVIOUS
  <2>. QED  BY <2>1, FS_EmptySet DEF Bytes
<1>6. CoveredInv'
  <2>. SUFFICES ASSUME NEW a \in Accounts, Exists(a)'
                PROVE  used'[a] >= Bytes(Live(a))' + HeldBytes(a)' + Bytes(Releasing(a))'
    BY DEF CoveredInv
  <2>1. used[a] >= Bytes(Live(a)) + HeldBytes(a) + Bytes(Releasing(a))
    BY DEF QuotaInv, CoveredInv, Exists
  <2>2. /\ Bytes(Live(a)) \in Nat /\ Bytes(Releasing(a)) \in Nat
        /\ used \in [Accounts -> Nat] /\ HeldBytes(a) \in Nat /\ Bytes(found[c]) \in Nat
    BY <1>1, <1>4, LiveAndReleasing, BytesWeigh DEF Shape, TypeOK, StoreTypeOK
  <2>3. used'[a] >= Bytes(Live(a)) + HeldBytes(a)
    <3>1. CASE a = cacct[c]
      <4>1. Bytes(Releasing(a)) = Bytes(found[c])
        BY <1>3, <3>1
      <4>2. used'[a] = IF used[a] > Bytes(found[c]) THEN used[a] - Bytes(found[c]) ELSE 0
        BY <2>2, <3>1 DEF UsedMinus, Exists
      <4>. DEFINE L == Bytes(Live(a))  R == Bytes(found[c])  H == HeldBytes(a)
      <4>3. /\ L \in Nat /\ R \in Nat /\ H \in Nat /\ used[a] \in Nat
            /\ used[a] >= L + H + R
            /\ used'[a] = IF used[a] > R THEN used[a] - R ELSE 0
        BY <2>1, <2>2, <4>1, <4>2
      <4>. HIDE DEF L, R, H
      <4>4. used'[a] >= L + H
        BY <4>3
      <4>. QED  BY <4>4 DEF L, R, H
    <3>2. CASE a # cacct[c]
      <4>1. used'[a] = used[a]
        BY <2>2, <3>2 DEF UsedMinus
      <4>. QED  BY <2>1, <2>2, <4>1
    <3>. QED  BY <3>1, <3>2
  <2>4. HeldBytes(a)' = HeldBytes(a)
    BY <1>4
  <2>5. Bytes(Live(a))' = Bytes(Live(a))
    BY <1>3 DEF Bytes
  <2>6. Bytes(Releasing(a))' = Bytes({})
    BY <1>3 DEF Bytes
  <2>7. used'[a] \in Nat
    BY DEF Shape, TypeOK, StoreTypeOK
  <2>. QED  BY <1>5, <2>2, <2>3, <2>4, <2>5, <2>6, <2>7
<1>7. RequestInv'
  <2>1. cpc'[c] \in RequestPCs /\ rpc'[c] = "idle"
    BY DEF RequestPCs, QuotaInv, RequestInv
  <2>. QED  BY <2>1, RequestStays DEF QuotaInv
<1>. QED  BY <1>4, <1>6, <1>7 DEF QuotaInv

LEMMA QuotaApi ==
  ASSUME QuotaHypothesis, Shape, Shape', IsFiniteSet(Workers), QuotaInv,
         ApiNext, UNCHANGED ingestVars
  PROVE  QuotaInv'
<1>1. PICK c \in Clients :
        \/ \E o \in Oids : GetMeta(c, o)
        \/ SoftDelete(c)
        \/ Release(c)
        \/ \E a \in Accounts : StartBulk(c, a) \/ GetAccount(c, a)
        \/ BulkFind(c)
        \/ BulkUpdate(c)
        \/ BulkRelease(c)
        \/ RecalcAggregate(c)
        \/ RecalcWrite(c)
        \/ EraseFind(c)
        \/ EraseMany(c)
        \/ EraseAccount(c)
        \/ ApiCrash(c)
  BY DEF ApiNext
<1>2. /\ cpc \in [Clients -> ClientPCs] /\ rpc \in [Clients -> {"idle", "aggregate", "write"}]
      /\ cacct \in [Clients -> Accounts \cup {None}] /\ found \in [Clients -> SUBSET Oids]
      /\ account \in [Accounts -> {"active", "expired", "deleted"}]
  BY DEF Shape, TypeOK, ApiTypeOK, StoreTypeOK
<1>3. /\ cpc[c] \in RequestPCs /\ rpc[c] = "idle" /\ "bulk" \notin Ops
  BY DEF QuotaInv, RequestInv, QuotaHypothesis, NeverRecalculated, OneAtATime
<1>4. CASE \E o \in Oids : GetMeta(c, o)
  <2>1. PICK o \in Oids : GetMeta(c, o)
    BY <1>4
  <2>2. RequestMoves(c) /\ used' = used /\ doc' = doc /\ rpc' = rpc
    BY <1>2, <2>1 DEF GetMeta, Begin, At, storeVars, recalcVars, RequestMoves, Exists
  <2>3. /\ "delete" \in Ops /\ cpc'[c] = "softDelete" /\ found'[c] = {o} /\ cacct'[c] = o[2]
        /\ doc[o] = "live"
    BY <1>2, <2>1 DEF GetMeta, Begin, At
  <2>4. Deleting(c)'
    BY <2>2, <2>3 DEF Deleting
  <2>. QED  BY <1>3, <2>2, <2>3, <2>4, QuotaRequestQuiet DEF RequestPCs
<1>5. CASE SoftDelete(c)
  <2>1. /\ RequestMoves(c) /\ cpc[c] = "softDelete" /\ UNCHANGED <<used, account, rpc>>
        /\ \/ /\ \A o \in found[c] : doc[o] # "none"
              /\ doc' = SoftDeleted(found[c])
              /\ cpc'[c] = "release"
              /\ UNCHANGED <<cacct, found>>
           \/ /\ cpc'[c] = "idle"
              /\ doc' = doc \/ doc' = SoftDeleted(found[c])
    BY <1>2, <1>5 DEF SoftDelete, Respond, At, recalcVars, RequestMoves, Exists
  <2>2. CASE /\ \A o \in found[c] : doc[o] # "none"
             /\ doc' = SoftDeleted(found[c])
             /\ cpc'[c] = "release"
             /\ UNCHANGED <<cacct, found>>
    BY <2>1, <2>2, QuotaSoftDelete
  <2>3. CASE cpc'[c] = "idle" /\ (doc' = doc \/ doc' = SoftDeleted(found[c]))
    BY <1>3, <2>1, <2>3, QuotaRequestQuiet DEF RequestPCs
  <2>. QED  BY <2>1, <2>2, <2>3
<1>6. CASE Release(c)
  <2>1. /\ RequestMoves(c) /\ cpc[c] = "release" /\ cpc'[c] = "idle"
        /\ UNCHANGED <<account, doc, rpc>>
        /\ used' = UsedMinus(cacct[c], Bytes(found[c])) \/ used' = used
    BY <1>2, <1>6 DEF Release, Respond, At, recalcVars, RequestMoves, Exists
  <2>. QED  BY <1>3, <2>1, QuotaRelease, QuotaRequestQuiet DEF RequestPCs
<1>7. CASE \E a \in Accounts : GetAccount(c, a)
  <2>1. /\ RequestMoves(c) /\ cpc'[c] = "eraseFind" /\ UNCHANGED <<used, doc, rpc>>
    BY <1>2, <1>7 DEF GetAccount, Begin, At, storeVars, recalcVars, RequestMoves, Exists
  <2>. QED  BY <1>3, <2>1, QuotaRequestQuiet DEF RequestPCs
<1>8. CASE EraseFind(c) \/ EraseMany(c) \/ EraseAccount(c)
  <2>1. /\ RequestMoves(c) /\ cpc'[c] \in {"eraseMany", "eraseAccount", "idle"}
        /\ UNCHANGED <<used, rpc>>
    BY <1>2, <1>8 DEF EraseFind, EraseMany, EraseAccount, Respond, At, storeVars, recalcVars,
                      RequestMoves, Exists
  <2>2. doc' = doc \/ \E T : doc' = Removed(T)
    BY <1>8 DEF EraseFind, EraseMany, EraseAccount, storeVars
  <2>. QED  BY <1>3, <2>1, <2>2, QuotaRequestQuiet DEF RequestPCs
<1>9. CASE ApiCrash(c)
  <2>1. /\ RequestMoves(c) /\ cpc'[c] = "idle" /\ rpc'[c] = "idle" /\ UNCHANGED <<used, doc>>
    BY <1>2, <1>9 DEF ApiCrash, RecalcDone, Respond, At, storeVars, RequestMoves, Exists
  <2>. QED  BY <2>1, QuotaRequestQuiet DEF RequestPCs
<1>10. ~(\/ \E a \in Accounts : StartBulk(c, a)
         \/ BulkFind(c) \/ BulkUpdate(c) \/ BulkRelease(c)
         \/ RecalcAggregate(c) \/ RecalcWrite(c))
  BY <1>3 DEF StartBulk, BulkFind, BulkUpdate, BulkRelease, RecalcAggregate, RecalcWrite,
              RequestPCs
<1>. QED  BY <1>1, <1>4, <1>5, <1>6, <1>7, <1>8, <1>9, <1>10

LEMMA QuotaNext ==
  ASSUME QuotaHypothesis, "ambiguous" \notin Faults, IsFiniteSet(Workers),
         Shape, Shape', QuotaInv, [Next]_vars
  PROVE  QuotaInv'
<1>1. CASE IngestNext /\ UNCHANGED <<apiVars, gcVars>>
  <2>1. CASE \E w \in Workers : WorkerStep(w) \/ Crash(w)
    BY <1>1, <2>1, QuotaWorker
  <2>2. CASE \E m \in Msgs : QueueStep(m)
    <3>1. UNCHANGED <<account, used, doc, pc, rcpt, job, total>>
      BY <2>2 DEF QueueStep, Publish, Deliver, LoseDelivery, AckWaitExpires, AgeOut,
                  storeVars, workerVars
    <3>. QED  BY <1>1, <3>1, QuotaStore DEF Exists
  <2>. QED  BY <1>1, <2>1, <2>2 DEF IngestNext
<1>2. CASE ApiNext /\ UNCHANGED <<ingestVars, gcVars>>
  BY <1>2, QuotaApi
<1>3. CASE GcNext /\ UNCHANGED <<ingestVars, apiVars>>
  <2>1. UNCHANGED <<account, used, doc, pc, rcpt, job, total>>
    BY <1>3, GcWrites DEF ingestVars, workerVars
  <2>. QED  BY <1>3, <2>1, QuotaStore DEF Exists
<1>4. CASE StoreStep /\ UNCHANGED <<ingestVars, apiVars, gcVars>>
  <2>1. /\ UNCHANGED <<used, pc, rcpt, job, total>>
        /\ \A a \in Accounts : Exists(a)' => Exists(a)
        /\ doc' = doc \/ \E T : doc' = Removed(T)
    <3>1. account \in [Accounts -> {"active", "expired", "deleted"}]
      BY DEF Shape, TypeOK, StoreTypeOK
    <3>. QED  BY <1>4, <3>1 DEF StoreStep, ExpireAccount, RunCleanup, PurgeMessage, Exists,
                               ingestVars, workerVars
  <2>. QED  BY <1>4, <2>1, QuotaStore
<1>5. CASE UNCHANGED vars
  <2>1. UNCHANGED <<account, used, doc, pc, rcpt, job, total, apiVars>>
    BY <1>5 DEF vars, storeVars, ingestVars, workerVars
  <2>. QED  BY <2>1, QuotaStore DEF Exists
<1>. QED  BY <1>1, <1>2, <1>3, <1>4, <1>5 DEF Next

LEMMA QuotaInit ==
  ASSUME Init, Shape
  PROVE  QuotaInv
<1>1. \A a \in Accounts : Live(a) = {} /\ Holding(a) = {} /\ Releasing(a) = {}
  BY DEF Init, StoreInit, IngestInit, ApiInit, Live, Holding, Releasing
<1>2. Bytes({}) = 0
  <2>1. UNION {{o} \X (1..Size[o[1]]) : o \in {}} = {}
    OBVIOUS
  <2>. QED  BY <2>1, FS_EmptySet DEF Bytes
<1>3. \A a \in Accounts :
        Bytes(Live(a)) = 0 /\ HeldBytes(a) = 0 /\ Bytes(Releasing(a)) = 0
  <2>. SUFFICES ASSUME NEW a \in Accounts
                PROVE  Bytes(Live(a)) = 0 /\ HeldBytes(a) = 0 /\ Bytes(Releasing(a)) = 0
    OBVIOUS
  <2>1. UNION {{v} \X (1..Size[job[v]]) : v \in Holding(a)} = {}
    BY <1>1
  <2>. QED  BY <1>1, <1>2, <2>1, FS_EmptySet DEF HeldBytes
<1>4. used \in [Accounts -> Nat] /\ Quota \in [Accounts -> Int]
  BY DEF Shape, TypeOK, StoreTypeOK
<1>5. CoveredInv /\ WithinInv
  BY <1>3, <1>4 DEF CoveredInv, WithinInv
<1>6. SumInv /\ RequestInv
  BY DEF Init, IngestInit, ApiInit, SumInv, RequestInv, RequestPCs
<1>. QED  BY <1>5, <1>6 DEF QuotaInv

LEMMA QuotaHolds ==
  ASSUME QuotaHypothesis, "ambiguous" \notin Faults, IsFiniteSet(Workers)
  PROVE  /\ Init => Shape /\ QuotaInv
         /\ Shape /\ QuotaInv /\ [Next]_vars => Shape' /\ QuotaInv'
         /\ Shape /\ QuotaInv => UsedCoversMail /\ LiveWithinQuota
<1>1. Init => Shape /\ QuotaInv
  BY ShapeInit, QuotaInit
<1>2. Shape /\ QuotaInv /\ [Next]_vars => Shape' /\ QuotaInv'
  BY ShapeNext, QuotaNext
<1>3. ASSUME Shape, QuotaInv
      PROVE  UsedCoversMail /\ LiveWithinQuota
  <2>1. ASSUME NEW a \in Accounts
        PROVE  /\ Bytes(Live(a)) \in Nat /\ HeldBytes(a) \in Nat /\ Bytes(Releasing(a)) \in Nat
               /\ used[a] \in Nat /\ Quota[a] \in Int
    BY <1>3, HeldIsNat, LiveAndReleasing, BytesWeigh DEF Shape, TypeOK, StoreTypeOK
  <2>2. UsedCoversMail
    <3>. SUFFICES ASSUME NEW a \in Accounts, Exists(a)
                  PROVE  used[a] >= Bytes(Live(a)) + HeldBytes(a)
      BY DEF UsedCoversMail
    <3>1. used[a] >= Bytes(Live(a)) + HeldBytes(a) + Bytes(Releasing(a))
      BY <1>3 DEF QuotaInv, CoveredInv
    <3>. QED  BY <2>1, <3>1
  <2>3. LiveWithinQuota
    <3>. SUFFICES ASSUME NEW a \in Accounts, Quota[a] > 0
                  PROVE  Bytes(Live(a)) <= Quota[a]
      BY DEF LiveWithinQuota
    <3>1. Bytes(Live(a)) + HeldBytes(a) <= Quota[a]
      BY <1>3 DEF QuotaInv, WithinInv
    <3>. QED  BY <2>1, <3>1
  <2>. QED  BY <2>2, <2>3
<1>. QED  BY <1>1, <1>2, <1>3

(***************************************************************************)
(* accounts.used covers the undeleted messages of an account and what the  *)
(* workers hold reserved for it, if nothing recalculates used and requests *)
(* come one by one, or if one worker stores and no message is deleted by   *)
(* itself; and if no reservation or insert is applied behind an error.     *)
(***************************************************************************)
THEOREM UsedIsNeverTooSmall ==
  ASSUME NeverRecalculated \/ OneAtATime, "ambiguous" \notin Faults, IsFiniteSet(Workers)
  PROVE  Spec => []UsedCoversMail
<1>1. QuotaHypothesis
  BY DEF QuotaHypothesis
<1>2. Init => Shape /\ QuotaInv
  BY <1>1, QuotaHolds
<1>3. Shape /\ QuotaInv /\ [Next]_vars => Shape' /\ QuotaInv'
  BY <1>1, QuotaHolds
<1>4. Shape /\ QuotaInv => UsedCoversMail
  BY <1>1, QuotaHolds
<1>. QED  BY <1>2, <1>3, <1>4, PTL DEF Spec

(***************************************************************************)
(* The messages of an account stay within its quota where one worker       *)
(* stores: TryReserveAccountUsed checks and takes in one update, and the   *)
(* sum that a refused worker writes back misses no reservation.            *)
(***************************************************************************)
THEOREM QuotaIsABound ==
  ASSUME OneAtATime, "ambiguous" \notin Faults
  PROVE  Spec => []LiveWithinQuota
<1>1. QuotaHypothesis
  BY DEF QuotaHypothesis
<1>2. IsFiniteSet(Workers)
  <2>1. CASE Workers = {}
    BY <2>1, FS_EmptySet
  <2>2. CASE Workers # {}
    <3>1. PICK w \in Workers : TRUE
      BY <2>2
    <3>2. Workers = {w}
      BY <3>1 DEF OneAtATime
    <3>. QED  BY <3>2, FS_Singleton
  <2>. QED  BY <2>1, <2>2
<1>3. Init => Shape /\ QuotaInv
  BY <1>1, <1>2, QuotaHolds
<1>4. Shape /\ QuotaInv /\ [Next]_vars => Shape' /\ QuotaInv'
  BY <1>1, <1>2, QuotaHolds
<1>5. Shape /\ QuotaInv => LiveWithinQuota
  BY <1>1, <1>2, QuotaHolds
<1>. QED  BY <1>3, <1>4, <1>5, PTL DEF Spec
==============================================================================
