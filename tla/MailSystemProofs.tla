-------------------------- MODULE MailSystemProofs ---------------------------
(***************************************************************************)
(* Proofs about MailSystem for every set of mails, accounts, workers and   *)
(* clients, every MaxDeliver and every set of faults.                      *)
(***************************************************************************)
EXTENDS MailSystem, FiniteSetTheorems, TLAPS

(***************************************************************************)
(* What the program counters of the processes say about their local        *)
(* variables.  Together with TypeOK it is inductive.                       *)
(***************************************************************************)
InRecipient == {"dedup", "reserve", "aggregate", "writeBack", "reserveAgain",
                "parse", "insert", "rollback"}

WorkerInv ==
  \A w \in Workers :
    /\ pc[w] = "idle" => todo[w] = {} /\ ~transient[w] /\ ~anyOk[w]
    /\ pc[w] # "idle" => /\ job[w] \in Msgs
                         /\ attempt[w] \in 1..MaxDeliver
                         /\ todo[w] \in SUBSET Rcpts[job[w]]
    /\ pc[w] \in InRecipient => rcpt[w] \in todo[w]
    /\ pc[w] = "settle" => /\ Content[job[w]] = "undecodable"
                           /\ ~transient[w] /\ ~anyOk[w]
    /\ pc[w] \notin {"idle", "settle"} => Content[job[w]] # "undecodable"

ClientInv ==
  \A c \in Clients :
    /\ cpc[c] # "idle" => cacct[c] \in Accounts
    /\ rpc[c] # "idle" => racct[c] \in Accounts

Shape == TypeOK /\ WorkerInv /\ ClientInv

USE StoreAssumption

(***************************************************************************)
(* The sizes of a set of messages sum up to a natural number.              *)
(***************************************************************************)
LEMMA FiniteImage ==
  ASSUME NEW S, IsFiniteSet(S), NEW f, DOMAIN f = S
  PROVE  IsFiniteSet({f[x] : x \in S})
<1>. DEFINE T == {f[x] : x \in S}
            g == [x \in S |-> f[x]]
<1>1. g \in Surjection(S, T)
  BY DEF Surjection
<1>. QED  BY <1>1, FS_Surjection

LEMMA OidsFinite == IsFiniteSet(Oids)
<1>. DEFINE Q == (Msgs \X Accounts) \X (1..MaxDeliver)
            F == [q \in Q |-> <<q[1][1], q[1][2], q[2]>>]
<1>1. IsFiniteSet(1..MaxDeliver)
  BY FS_Interval
<1>2. IsFiniteSet(Q)
  BY <1>1, FS_Product
<1>3. IsFiniteSet({F[q] : q \in Q})
  <2>1. DOMAIN F = Q
    OBVIOUS
  <2>. HIDE DEF F, Q
  <2>. QED  BY <1>2, <2>1, FiniteImage
<1>4. ASSUME NEW o \in Oids  PROVE o \in {F[q] : q \in Q}
  <2>1. PICK m \in Msgs, a \in Accounts, n \in 1..MaxDeliver : o = <<m, a, n>>
    BY DEF Oids
  <2>2. <<<<m, a>>, n>> \in Q
    OBVIOUS
  <2>3. F[<<<<m, a>>, n>>] = o
    BY <2>1, <2>2
  <2>. QED  BY <2>2, <2>3
<1>5. Oids \in SUBSET {F[q] : q \in Q}
  BY <1>4
<1>. QED  BY <1>3, <1>5, FS_Subset

LEMMA BytesType ==
  ASSUME NEW S \in SUBSET Oids
  PROVE  Bytes(S) \in Nat
<1>. DEFINE Part(o) == {o} \X (1..Size[o[1]])
<1>1. IsFiniteSet(S)
  BY OidsFinite, FS_Subset
<1>2. ASSUME NEW o \in S  PROVE IsFiniteSet(Part(o))
  <2>1. Size[o[1]] \in Nat
    BY DEF Oids
  <2>2. IsFiniteSet(1..Size[o[1]])
    BY <2>1, FS_Interval
  <2>. QED  BY <2>2, FS_Singleton, FS_Product
<1>3. IsFiniteSet({Part(o) : o \in S})
  <2>. DEFINE F == [o \in S |-> Part(o)]
  <2>1. DOMAIN F = S /\ \A o \in S : F[o] = Part(o)
    OBVIOUS
  <2>2. {F[o] : o \in S} = {Part(o) : o \in S}
    OBVIOUS
  <2>3. IsFiniteSet({F[o] : o \in S})
    <3>. HIDE DEF F, Part
    <3>. QED  BY <1>1, <2>1, FiniteImage
  <2>. QED  BY <2>2, <2>3
<1>4. IsFiniteSet(UNION {Part(o) : o \in S})
  <2>1. \A T \in {Part(o) : o \in S} : IsFiniteSet(T)
    BY <1>2
  <2>. HIDE DEF Part
  <2>. QED  BY <1>3, <2>1, FS_UNION
<1>. QED  BY <1>4, FS_CardinalityType DEF Bytes

LEMMA LiveBytesType == \A a \in Accounts : Bytes(Live(a)) \in Nat
BY BytesType DEF Live

------------------------------------------------------------------------------
(***************************************************************************)
(* Shape is inductive.  The workers leave the variables of the clients     *)
(* alone and the other way round; both write the store.                    *)
(***************************************************************************)
StoreAndWorkers == StoreTypeOK /\ IngestTypeOK /\ WorkerInv
StoreAndClients == StoreTypeOK /\ ApiTypeOK /\ ClientInv

LEMMA UsedMinusType ==
  ASSUME StoreTypeOK, NEW a \in Accounts, NEW d \in Nat
  PROVE  UsedMinus(a, d) \in [Accounts -> Nat]
BY DEF StoreTypeOK, UsedMinus

LEMMA UsedPlusType ==
  ASSUME StoreTypeOK, NEW a \in Accounts, NEW d \in Nat
  PROVE  UsedPlus(a, d) \in [Accounts -> Nat]
BY DEF StoreTypeOK, UsedPlus

LEMMA UsedSetType ==
  ASSUME StoreTypeOK, NEW a \in Accounts, NEW d \in Nat
  PROVE  UsedSet(a, d) \in [Accounts -> Nat]
BY DEF StoreTypeOK, UsedSet

LEMMA ReturnShape ==
  ASSUME StoreAndWorkers, NEW w \in Workers, NEW a \in Accounts,
         NEW r \in {"ok", "transient", "permanent"},
         pc[w] \notin {"idle", "settle"}, Return(w, a, r),
         UNCHANGED <<stream, delivered, awaiting, flight>>,
         stored' \in SUBSET (Msgs \X Accounts)
  PROVE  IngestTypeOK' /\ WorkerInv'
BY DEF StoreAndWorkers, IngestTypeOK, WorkerInv, InRecipient, WorkerPCs, Return, Goto

LEMMA ProceedShape ==
  ASSUME StoreAndWorkers, NEW w \in Workers, NEW l \in InRecipient,
         pc[w] \in InRecipient, Proceed(w, l),
         UNCHANGED <<stream, delivered, awaiting, flight, stored>>
  PROVE  IngestTypeOK' /\ WorkerInv'
BY DEF StoreAndWorkers, IngestTypeOK, WorkerInv, InRecipient, WorkerPCs, Proceed, Goto

LEMMA AbortShape ==
  ASSUME StoreAndWorkers, NEW w \in Workers,
         NEW r \in {"ok", "transient", "permanent"},
         pc[w] \in InRecipient, Abort(w, r),
         UNCHANGED <<stream, delivered, awaiting, flight>>,
         stored' \in SUBSET (Msgs \X Accounts)
  PROVE  IngestTypeOK' /\ WorkerInv'
BY DEF StoreAndWorkers, IngestTypeOK, WorkerInv, InRecipient, WorkerPCs, Abort, Goto

LEMMA BecomeIdleShape ==
  ASSUME StoreAndWorkers, NEW w \in Workers, BecomeIdle(w),
         stream' \in [Msgs -> {"unsent", "queued", "acked", "termed", "dropped"}],
         awaiting' \in SUBSET Msgs,
         UNCHANGED <<delivered, flight, stored, rejected>>
  PROVE  IngestTypeOK' /\ WorkerInv'
BY DEF StoreAndWorkers, IngestTypeOK, WorkerInv, InRecipient, WorkerPCs, BecomeIdle, Goto

\* The identifiers a worker in the middle of a recipient works with.
LEMMA Local ==
  ASSUME StoreAndWorkers, NEW w \in Workers
  PROVE  /\ pc[w] # "idle" => /\ job[w] \in Msgs
                              /\ Size[job[w]] \in Nat
                              /\ attempt[w] \in 1..MaxDeliver
                              /\ todo[w] \in SUBSET Accounts
         /\ pc[w] \in InRecipient => /\ pc[w] \notin {"idle", "settle"}
                                     /\ rcpt[w] \in Accounts
                                     /\ <<job[w], rcpt[w]>> \in Msgs \X Accounts
                                     /\ Oid(w) \in Oids
BY DEF StoreAndWorkers, IngestTypeOK, WorkerInv, InRecipient, Oid, Oids

LEMMA WorkerStepShape ==
  ASSUME StoreAndWorkers, NEW w \in Workers, WorkerStep(w) \/ Crash(w)
  PROVE  StoreAndWorkers'
<1>. USE DEF queueVars, storeVars
<1>1. ASSUME NEW m \in Msgs, NEW n \in 1..MaxDeliver, Receive(w, m, n)
      PROVE  StoreAndWorkers'
  <2>1. StoreTypeOK'
    BY <1>1 DEF Receive, StoreAndWorkers, StoreTypeOK
  <2>2. n \in 1..MaxDeliver /\ n \in 0..MaxDeliver
    OBVIOUS
  <2>3. Rcpts[m] \in SUBSET Accounts
    OBVIOUS
  <2>4. /\ flight' = flight \ {<<m, n>>}
        /\ job' = [job EXCEPT ![w] = m]
        /\ attempt' = [attempt EXCEPT ![w] = n]
        /\ pc[w] = "idle"
        /\ UNCHANGED <<stream, delivered, awaiting, rcpt, total, result, transient, anyOk,
                       stored, rejected>>
    BY <1>1 DEF Receive
  <2>5. CASE Content[m] = "undecodable" /\ Goto(w, "settle") /\ UNCHANGED todo
    <3>1. IngestTypeOK'
      BY <2>2, <2>4, <2>5 DEF StoreAndWorkers, IngestTypeOK, WorkerPCs, Goto
    <3>2. WorkerInv'
      BY <2>2, <2>4, <2>5 DEF StoreAndWorkers, IngestTypeOK, WorkerInv, InRecipient,
                              WorkerPCs, Goto
    <3>. QED  BY <2>1, <3>1, <3>2 DEF StoreAndWorkers
  <2>6. CASE /\ Content[m] # "undecodable" /\ Goto(w, "next")
             /\ todo' = [todo EXCEPT ![w] = Rcpts[m]]
    <3>1. IngestTypeOK'
      BY <2>2, <2>3, <2>4, <2>6 DEF StoreAndWorkers, IngestTypeOK, WorkerPCs, Goto
    <3>2. WorkerInv'
      BY <2>2, <2>3, <2>4, <2>6 DEF StoreAndWorkers, IngestTypeOK, WorkerInv, InRecipient,
                                    WorkerPCs, Goto
    <3>. QED  BY <2>1, <3>1, <3>2 DEF StoreAndWorkers
  <2>. QED  BY <1>1, <2>5, <2>6 DEF Receive
<1>2. ASSUME NEW a \in Accounts, LookupAccount(w, a)  PROVE StoreAndWorkers'
  <2>0. StoreTypeOK' /\ pc[w] \notin {"idle", "settle"} /\ stored' \in SUBSET (Msgs \X Accounts)
        /\ UNCHANGED <<stream, delivered, awaiting, flight>>
    BY <1>2 DEF LookupAccount, StoreAndWorkers, StoreTypeOK, IngestTypeOK
  <2>1. CASE \E r \in {"transient", "permanent"} : Return(w, a, r)
    BY <2>0, <2>1, ReturnShape DEF StoreAndWorkers
  <2>2. CASE /\ Goto(w, "dedup")
             /\ rcpt' = [rcpt EXCEPT ![w] = a]
             /\ UNCHANGED <<job, attempt, todo, total, result, transient, anyOk, rejected>>
    <3>1. UNCHANGED stored /\ a \in todo[w]
      BY <1>2 DEF LookupAccount
    <3>. QED  BY <2>0, <2>2, <3>1 DEF StoreAndWorkers, IngestTypeOK, WorkerInv, InRecipient,
                WorkerPCs, Goto
  <2>. QED  BY <1>2, <2>1, <2>2 DEF LookupAccount
<1>3. ASSUME CheckIngested(w)  PROVE StoreAndWorkers'
  <2>0. StoreTypeOK' /\ pc[w] \in InRecipient /\ stored' \in SUBSET (Msgs \X Accounts)
        /\ UNCHANGED <<stream, delivered, awaiting, flight, stored>>
    BY <1>3 DEF CheckIngested, InRecipient, StoreAndWorkers, StoreTypeOK, IngestTypeOK
  <2>1. rcpt[w] \in Accounts /\ pc[w] \notin {"idle", "settle"}
    BY <2>0, Local
  <2>2. (\E r \in {"ok", "transient"} : Return(w, rcpt[w], r)) \/ Proceed(w, "reserve")
    BY <1>3 DEF CheckIngested
  <2>. QED  BY <2>0, <2>1, <2>2, ReturnShape, ProceedShape DEF StoreAndWorkers, InRecipient
<1>4. ASSUME Reserve(w)  PROVE StoreAndWorkers'
  <2>0. /\ pc[w] \in InRecipient /\ stored' \in SUBSET (Msgs \X Accounts)
        /\ UNCHANGED <<account, doc, inline, obj, cleanup, stream, delivered, awaiting, flight, stored>>
    BY <1>4 DEF Reserve, InRecipient, StoreAndWorkers, IngestTypeOK
  <2>1. rcpt[w] \in Accounts /\ Size[job[w]] \in Nat /\ pc[w] \notin {"idle", "settle"}
    BY <2>0, Local
  <2>2. StoreTypeOK'
    <3>1. used' = UsedPlus(rcpt[w], Size[job[w]]) \/ used' = used
      BY <1>4 DEF Reserve
    <3>2. UsedPlus(rcpt[w], Size[job[w]]) \in [Accounts -> Nat]
      BY <2>1, UsedPlusType DEF StoreAndWorkers
    <3>. QED  BY <2>0, <3>1, <3>2 DEF StoreAndWorkers, StoreTypeOK
  <2>3. \/ \E r \in {"transient", "permanent"} : Return(w, rcpt[w], r)
        \/ Proceed(w, "parse")
        \/ Proceed(w, "aggregate")
    BY <1>4 DEF Reserve
  <2>. QED  BY <2>0, <2>1, <2>2, <2>3, ReturnShape, ProceedShape DEF StoreAndWorkers, InRecipient
<1>5. ASSUME Aggregate(w)  PROVE StoreAndWorkers'
  <2>0. /\ pc[w] \in InRecipient /\ stored' \in SUBSET (Msgs \X Accounts)
        /\ UNCHANGED <<stream, delivered, awaiting, flight, stored>> /\ StoreTypeOK'
    BY <1>5 DEF Aggregate, InRecipient, StoreAndWorkers, StoreTypeOK, IngestTypeOK
  <2>1. Bytes(Live(rcpt[w])) \in Nat
    BY <2>0, Local, LiveBytesType
  <2>2. CASE Proceed(w, "reserveAgain")
    BY <2>0, <2>2, ProceedShape DEF StoreAndWorkers, InRecipient
  <2>3. CASE /\ Goto(w, "writeBack")
             /\ total' = [total EXCEPT ![w] = Bytes(Live(rcpt[w]))]
             /\ UNCHANGED <<job, attempt, todo, rcpt, result, transient, anyOk, rejected>>
    BY <2>0, <2>1, <2>3 DEF StoreAndWorkers, IngestTypeOK, WorkerInv, InRecipient,
              WorkerPCs, Goto
  <2>. QED  BY <1>5, <2>2, <2>3 DEF Aggregate
<1>6. ASSUME WriteBack(w)  PROVE StoreAndWorkers'
  <2>1. pc[w] \in InRecipient
    BY <1>6 DEF WriteBack, InRecipient
  <2>2. rcpt[w] \in Accounts /\ total[w] \in Nat
    BY <2>1, Local DEF StoreAndWorkers, IngestTypeOK
  <2>3. StoreTypeOK'
    <3>1. used' = UsedSet(rcpt[w], total[w]) \/ used' = used
      BY <1>6 DEF WriteBack
    <3>2. UsedSet(rcpt[w], total[w]) \in [Accounts -> Nat]
      BY <2>2, UsedSetType DEF StoreAndWorkers
    <3>3. UNCHANGED <<account, doc, inline, obj, cleanup>>
      BY <1>6 DEF WriteBack
    <3>. QED  BY <3>1, <3>2, <3>3 DEF StoreAndWorkers, StoreTypeOK
  <2>4. IngestTypeOK' /\ WorkerInv'
    BY <1>6, <2>1 DEF StoreAndWorkers, IngestTypeOK, WorkerInv, InRecipient, WorkerPCs,
              Goto, WriteBack
  <2>. QED  BY <2>3, <2>4 DEF StoreAndWorkers
<1>7. ASSUME ParseAndUpload(w)  PROVE StoreAndWorkers'
  <2>0. /\ pc[w] \in InRecipient /\ stored' \in SUBSET (Msgs \X Accounts)
        /\ UNCHANGED <<stream, delivered, awaiting, flight, stored>>
    BY <1>7 DEF ParseAndUpload, InRecipient, StoreAndWorkers, IngestTypeOK
  <2>1. StoreTypeOK'
    BY <1>7, <2>0, Local DEF ParseAndUpload, KeepRawInline, StoreAndWorkers, StoreTypeOK
  <2>2. Abort(w, "permanent") \/ Proceed(w, "insert")
    BY <1>7 DEF ParseAndUpload
  <2>. QED  BY <2>0, <2>1, <2>2, AbortShape, ProceedShape DEF StoreAndWorkers, InRecipient
<1>8. ASSUME Panic(w)  PROVE StoreAndWorkers'
  <2>1. pc[w] \in InRecipient
    BY <1>8 DEF Panic, InRecipient
  <2>2. StoreTypeOK'
    BY <1>8, <2>1, Local DEF Panic, StoreAndWorkers, StoreTypeOK
  <2>3. IngestTypeOK' /\ WorkerInv'
    BY <1>8, <2>1, Local DEF StoreAndWorkers, IngestTypeOK, WorkerInv, InRecipient,
                             WorkerPCs, Panic, Goto
  <2>. QED  BY <2>2, <2>3 DEF StoreAndWorkers
<1>9. ASSUME Insert(w)  PROVE StoreAndWorkers'
  <2>0. /\ pc[w] \in InRecipient
        /\ UNCHANGED <<account, used, inline, obj, stream, delivered, awaiting, flight>>
    BY <1>9 DEF Insert, InRecipient
  <2>1. /\ Oid(w) \in Oids /\ rcpt[w] \in Accounts /\ pc[w] \notin {"idle", "settle"}
        /\ <<job[w], rcpt[w]>> \in Msgs \X Accounts
    BY <2>0, Local
  <2>2. stored' \in SUBSET (Msgs \X Accounts)
    BY <1>9, <2>1 DEF Insert, StoreAndWorkers, IngestTypeOK
  <2>3. doc' = [doc EXCEPT ![Oid(w)] = "live"] \/ doc' = doc
    BY <1>9 DEF Insert
  <2>4. cleanup' = cleanup \/ TryAsyncStorageCleanup({Oid(w)})
    BY <1>9 DEF Insert
  <2>5. StoreTypeOK'
    BY <2>0, <2>1, <2>3, <2>4 DEF StoreAndWorkers, StoreTypeOK, TryAsyncStorageCleanup
  <2>6. \/ Return(w, rcpt[w], "ok")
        \/ \E r \in {"ok", "transient"} : Abort(w, r)
    BY <1>9 DEF Insert, Commit
  <2>. QED  BY <2>0, <2>1, <2>2, <2>5, <2>6, ReturnShape, AbortShape DEF StoreAndWorkers
<1>10. ASSUME Rollback(w)  PROVE StoreAndWorkers'
  <2>0. /\ pc[w] \in InRecipient /\ stored' \in SUBSET (Msgs \X Accounts)
        /\ UNCHANGED <<account, doc, inline, obj, cleanup, stream, delivered, awaiting, flight, stored>>
    BY <1>10 DEF Rollback, InRecipient, StoreAndWorkers, IngestTypeOK
  <2>1. /\ rcpt[w] \in Accounts /\ Size[job[w]] \in Nat /\ pc[w] \notin {"idle", "settle"}
        /\ result[w] \in {"ok", "transient", "permanent"}
    BY <2>0, Local DEF StoreAndWorkers, IngestTypeOK
  <2>2. StoreTypeOK'
    <3>1. used' = UsedMinus(rcpt[w], Size[job[w]]) \/ used' = used
      BY <1>10 DEF Rollback
    <3>2. UsedMinus(rcpt[w], Size[job[w]]) \in [Accounts -> Nat]
      BY <2>1, UsedMinusType DEF StoreAndWorkers
    <3>. QED  BY <2>0, <3>1, <3>2 DEF StoreAndWorkers, StoreTypeOK
  <2>3. Return(w, rcpt[w], result[w])
    BY <1>10 DEF Rollback
  <2>. QED  BY <2>0, <2>1, <2>2, <2>3, ReturnShape DEF StoreAndWorkers
<1>11. ASSUME Settle(w)  PROVE StoreAndWorkers'
  <2>1. StoreTypeOK' /\ BecomeIdle(w) /\ UNCHANGED <<delivered, flight, stored, rejected>>
    BY <1>11 DEF Settle, StoreAndWorkers, StoreTypeOK
  <2>2. Answer(w) \in {"ack", "term", "nak"}
    BY DEF Answer
  <2>3. /\ stream' \in [Msgs -> {"unsent", "queued", "acked", "termed", "dropped"}]
        /\ awaiting' \in SUBSET Msgs
    BY <1>11, <2>2 DEF Settle, StoreAndWorkers, IngestTypeOK
  <2>. QED  BY <2>1, <2>3, BecomeIdleShape DEF StoreAndWorkers
<1>12. ASSUME Crash(w)  PROVE StoreAndWorkers'
  <2>1. /\ StoreTypeOK' /\ BecomeIdle(w)
        /\ UNCHANGED <<stream, awaiting, delivered, flight, stored, rejected>>
    BY <1>12 DEF Crash, StoreAndWorkers, StoreTypeOK
  <2>. QED  BY <2>1, BecomeIdleShape DEF StoreAndWorkers, IngestTypeOK
<1>. QED
  BY <1>1, <1>2, <1>3, <1>4, <1>5, <1>6, <1>7, <1>8, <1>9, <1>10, <1>11, <1>12
  DEF WorkerStep

LEMMA QueueStepShape ==
  ASSUME StoreAndWorkers, NEW m \in Msgs, QueueStep(m)
  PROVE  StoreAndWorkers'
<1>. USE DEF QueueStep, Publish, Deliver, LoseDelivery, AckWaitExpires, AgeOut
<1>1. StoreTypeOK' /\ UNCHANGED <<workerVars, stored, rejected>>
  BY DEF storeVars, StoreAndWorkers, StoreTypeOK
<1>2. /\ stream' \in [Msgs -> {"unsent", "queued", "acked", "termed", "dropped"}]
      /\ delivered' \in [Msgs -> 0..MaxDeliver]
      /\ awaiting' \in SUBSET Msgs
  BY DEF StoreAndWorkers, IngestTypeOK
<1>3. flight' \in SUBSET (Msgs \X (1..MaxDeliver))
  <2>1. CASE Deliver(m)
    <3>1. delivered[m] + 1 \in 1..MaxDeliver
      BY <2>1 DEF StoreAndWorkers, IngestTypeOK
    <3>. QED  BY <2>1, <3>1 DEF StoreAndWorkers, IngestTypeOK
  <2>2. CASE ~Deliver(m)
    BY <2>2 DEF StoreAndWorkers, IngestTypeOK
  <2>. QED  BY <2>1, <2>2
<1>. QED  BY <1>1, <1>2, <1>3 DEF StoreAndWorkers, IngestTypeOK, WorkerInv, workerVars

LEMMA ApiNextShape ==
  ASSUME StoreAndClients, ApiNext
  PROVE  StoreAndClients'
<1>. USE DEF storeVars, recalcVars, ClientPCs
<1>0. PICK c \in Clients :
        \/ \E o \in Oids : GetMeta(c, o)
        \/ SoftDelete(c)
        \/ Release(c)
        \/ \E a \in Accounts : StartBulk(c, a) \/ GetAccount(c, a)
        \/ BulkFind(c)
        \/ BulkUpdate(c)
        \/ BulkRelease(c)
        \/ RecalcAggregate(c)
        \/ RecalcWrite(c)
        \/ EraseFind(c)
        \/ EraseMany(c)
        \/ EraseAccount(c)
        \/ ApiCrash(c)
  BY DEF ApiNext
<1>a. /\ found[c] \in SUBSET Oids
      /\ cpc[c] # "idle" => cacct[c] \in Accounts
      /\ rpc[c] # "idle" => racct[c] \in Accounts
      /\ Bytes(found[c]) \in Nat
      /\ rsum[c] \in Nat
  BY BytesType DEF StoreAndClients, ApiTypeOK, ClientInv
<1>1. ASSUME NEW o \in Oids, GetMeta(c, o)  PROVE StoreAndClients'
  <2>1. o[2] \in Accounts
    BY DEF Oids
  <2>. QED  BY <1>1, <2>1 DEF StoreAndClients, StoreTypeOK, ApiTypeOK, ClientInv,
                              GetMeta, Begin, At
<1>2. CASE SoftDelete(c)
  BY <1>2 DEF StoreAndClients, StoreTypeOK, ApiTypeOK, ClientInv, SoftDelete,
              SoftDeleted, At, Respond
<1>3. CASE Release(c)
  <2>1. UsedMinus(cacct[c], Bytes(found[c])) \in [Accounts -> Nat]
    BY <1>3, <1>a, UsedMinusType DEF Release, StoreAndClients
  <2>. QED  BY <1>3, <1>a, <2>1 DEF StoreAndClients, StoreTypeOK, ApiTypeOK, ClientInv,
              Release, TryAsyncStorageCleanup, At, Respond
<1>4. ASSUME NEW a \in Accounts, StartBulk(c, a)  PROVE StoreAndClients'
  BY <1>4 DEF StoreAndClients, StoreTypeOK, ApiTypeOK, ClientInv, StartBulk, Begin, At
<1>5. ASSUME NEW a \in Accounts, GetAccount(c, a)  PROVE StoreAndClients'
  BY <1>5 DEF StoreAndClients, StoreTypeOK, ApiTypeOK, ClientInv, GetAccount, Begin, At
<1>6. CASE BulkFind(c)
  BY <1>6 DEF StoreAndClients, StoreTypeOK, ApiTypeOK, ClientInv, BulkFind, Live, At,
              Respond
<1>7. CASE BulkUpdate(c)
  <2>1. doc' = doc \/ \E S : doc' = SoftDeleted(S)
    BY <1>7 DEF BulkUpdate
  <2>2. doc' \in [Oids -> {"none", "live", "deleted"}]
    BY <2>1 DEF StoreAndClients, StoreTypeOK, SoftDeleted
  <2>3. StoreTypeOK'
    BY <1>7, <2>2 DEF BulkUpdate, StoreAndClients, StoreTypeOK
  <2>4. CASE At(c, "bulkFind") /\ batch' = [batch EXCEPT ![c] = {}] /\ UNCHANGED <<cacct, found>>
    BY <1>7, <2>3, <2>4 DEF BulkUpdate, StoreAndClients, ApiTypeOK, ClientInv, At
  <2>5. CASE Respond(c)
    BY <1>7, <2>3, <2>5 DEF BulkUpdate, StoreAndClients, ApiTypeOK, ClientInv, Respond, At
  <2>. QED  BY <1>7, <2>4, <2>5 DEF BulkUpdate
<1>8. CASE BulkRelease(c)
  <2>1. UsedMinus(cacct[c], Bytes(found[c])) \in [Accounts -> Nat]
    BY <1>8, <1>a, UsedMinusType DEF BulkRelease, StoreAndClients
  <2>. QED  BY <1>8, <1>a, <2>1 DEF StoreAndClients, StoreTypeOK, ApiTypeOK, ClientInv,
              BulkRelease, TryAsyncStorageCleanup, At, Respond
<1>9. CASE RecalcAggregate(c)
  <2>1. Bytes(Live(racct[c])) \in Nat
    BY <1>9, <1>a, LiveBytesType DEF RecalcAggregate
  <2>. QED  BY <1>9, <2>1 DEF StoreAndClients, StoreTypeOK, ApiTypeOK, ClientInv,
              RecalcAggregate, RecalcDone
<1>10. CASE RecalcWrite(c)
  <2>1. UsedSet(racct[c], rsum[c]) \in [Accounts -> Nat]
    BY <1>10, <1>a, UsedSetType DEF RecalcWrite, StoreAndClients
  <2>. QED  BY <1>10, <2>1 DEF StoreAndClients, StoreTypeOK, ApiTypeOK, ClientInv,
              RecalcWrite, RecalcDone
<1>11. CASE EraseFind(c)
  BY <1>11 DEF StoreAndClients, StoreTypeOK, ApiTypeOK, ClientInv, EraseFind,
               Documents, At
<1>12. CASE EraseMany(c)
  BY <1>12, <1>a DEF StoreAndClients, StoreTypeOK, ApiTypeOK, ClientInv, EraseMany,
               Removed, TryAsyncStorageCleanup, At
<1>13. CASE EraseAccount(c)
  BY <1>13 DEF StoreAndClients, StoreTypeOK, ApiTypeOK, ClientInv, EraseAccount, At,
               Respond
<1>14. CASE ApiCrash(c)
  BY <1>14 DEF StoreAndClients, StoreTypeOK, ApiTypeOK, ClientInv, ApiCrash, At,
               Respond, RecalcDone
<1>. QED
  BY <1>0, <1>1, <1>2, <1>3, <1>4, <1>5, <1>6, <1>7, <1>8, <1>9, <1>10, <1>11, <1>12,
     <1>13, <1>14

LEMMA StoreStepShape ==
  ASSUME StoreTypeOK, StoreStep
  PROVE  StoreTypeOK'
<1>1. ASSUME NEW a \in Accounts, ExpireAccount(a)  PROVE StoreTypeOK'
  BY <1>1 DEF StoreTypeOK, ExpireAccount
<1>2. ASSUME NEW o \in Oids, RunCleanup(o)  PROVE StoreTypeOK'
  BY <1>2 DEF StoreTypeOK, RunCleanup
<1>3. ASSUME NEW o \in Oids, PurgeMessage(o)  PROVE StoreTypeOK'
  BY <1>3 DEF StoreTypeOK, PurgeMessage, Removed
<1>. QED  BY <1>1, <1>2, <1>3 DEF StoreStep

(***************************************************************************)
(* Types of the collectors' variables.                                     *)
(***************************************************************************)
LEMMA GcInitType == GcInit => GcTypeOK
BY CollectorAssumption DEF GcInit, GcTypeOK, CollectorPCs

LEMMA FailType ==
  ASSUME GcTypeOK, Fail
  PROVE  failures' \in 0..MaxFailures
BY CollectorAssumption DEF GcTypeOK, Fail

LEMMA ListType ==
  ASSUME StoreTypeOK, GcTypeOK, NEW g \in Collectors, ListMessageIDs(g)
  PROVE  GcTypeOK'
<1>. DEFINE rest == After(cursor[g])
<1>1. /\ rest \in SUBSET Oids
      /\ UNCHANGED <<lock, ttl, doomed, deletedMsgs, elapsed, exposed>>
      /\ \E l \in CollectorPCs : gpc' = [gpc EXCEPT ![g] = l]
  BY DEF ListMessageIDs, StepTo, After, StoreTypeOK, CollectorPCs
<1>2. cursor' \in [Collectors -> Nat] /\ page' \in [Collectors -> SUBSET Oids]
  <2>1. ASSUME NEW last \in rest,
               page' = [page EXCEPT ![g] = rest \ After(Rank[last])],
               cursor' = [cursor EXCEPT ![g] = Rank[last]]
        PROVE  cursor' \in [Collectors -> Nat] /\ page' \in [Collectors -> SUBSET Oids]
    <3>1. Rank[last] \in Nat
      BY <1>1, CollectorAssumption
    <3>. QED  BY <1>1, <2>1, <3>1 DEF GcTypeOK
  <2>2. ASSUME page' = [page EXCEPT ![g] = rest],
               cursor' = [cursor EXCEPT ![g] = CursorAtEnd(@)]
        PROVE  cursor' \in [Collectors -> Nat] /\ page' \in [Collectors -> SUBSET Oids]
    BY <1>1, <2>2 DEF GcTypeOK, CursorAtEnd
  <2>3. ASSUME UNCHANGED <<page, cursor>>
        PROVE  cursor' \in [Collectors -> Nat] /\ page' \in [Collectors -> SUBSET Oids]
    BY <2>3 DEF GcTypeOK
  <2>. HIDE DEF rest
  <2>. QED  BY <2>1, <2>2, <2>3 DEF ListMessageIDs, rest
<1>3. failures' \in 0..MaxFailures
  BY FailType DEF ListMessageIDs, GcTypeOK
<1>4. gpc' \in [Collectors -> CollectorPCs]
  BY <1>1 DEF GcTypeOK
<1>. HIDE DEF rest
<1>. QED  BY <1>1, <1>2, <1>3, <1>4 DEF GcTypeOK

LEMMA GcNextType ==
  ASSUME StoreTypeOK, GcTypeOK, GcNext
  PROVE  StoreTypeOK' /\ GcTypeOK'
<1>. USE CollectorAssumption DEF CollectorPCs, storeVars
<1>1. StoreTypeOK'
  BY DEF GcNext, CollectorStep, StoreTypeOK, Acquire, ListMessageIDs, ExistingMessageIDs,
         DeleteNext, DeletedAll, GiveUp, Unlock, CollectorCrash, Tick, StepTo
<1>2. ASSUME NEW g \in Collectors, Acquire(g)  PROVE GcTypeOK'
  BY <1>2, FailType DEF Acquire, GcTypeOK
<1>3. ASSUME NEW g \in Collectors, ListMessageIDs(g)  PROVE GcTypeOK'
  BY <1>3, ListType
<1>4. ASSUME NEW g \in Collectors, ExistingMessageIDs(g)  PROVE GcTypeOK'
  BY <1>4, FailType DEF ExistingMessageIDs, StepTo, Missing, GcTypeOK
<1>5. ASSUME NEW g \in Collectors, NEW o \in Oids, DeleteNext(g, o)  PROVE GcTypeOK'
  BY <1>5, FailType DEF DeleteNext, StepTo, GcTypeOK
<1>6. ASSUME NEW g \in Collectors, DeletedAll(g) \/ GiveUp(g)  PROVE GcTypeOK'
  BY <1>6 DEF DeletedAll, GiveUp, StepTo, GcTypeOK
<1>7. ASSUME NEW g \in Collectors, Unlock(g) \/ CollectorCrash(g)  PROVE GcTypeOK'
  BY <1>7, FailType DEF Unlock, CollectorCrash, Forget, GcTypeOK
<1>8. ASSUME Tick  PROVE GcTypeOK'
  <2>1. elapsed' \in [Collectors -> 0..RunBudget]
    BY <1>8 DEF Tick, GcTypeOK
  <2>2. failures' \in 0..MaxFailures /\ ttl' \in 0..LockTTL /\ lock' \in Collectors \cup {None}
    BY <1>8, FailType DEF Tick, GcTypeOK
  <2>. QED  BY <1>8, <2>1, <2>2 DEF Tick, GcTypeOK
<1>. QED  BY <1>1, <1>2, <1>3, <1>4, <1>5, <1>6, <1>7, <1>8 DEF GcNext, CollectorStep

------------------------------------------------------------------------------
LEMMA ShapeInit == Init => Shape
<1>1. MaxDeliver \in Nat /\ 0 \in 0..MaxDeliver
  OBVIOUS
<1>2. StoreInit /\ IngestInit /\ ApiInit
      => StoreTypeOK /\ IngestTypeOK /\ ApiTypeOK /\ WorkerInv /\ ClientInv
  BY <1>1 DEF StoreInit, IngestInit, ApiInit, StoreTypeOK, IngestTypeOK, ApiTypeOK,
              WorkerInv, ClientInv, InRecipient, WorkerPCs, ClientPCs
<1>. QED  BY <1>2, GcInitType DEF Init, Shape, TypeOK

LEMMA WorkersUntouched ==
  ASSUME IngestTypeOK, WorkerInv, UNCHANGED ingestVars
  PROVE  IngestTypeOK' /\ WorkerInv'
BY DEF IngestTypeOK, WorkerInv, ingestVars, queueVars, workerVars

LEMMA ClientsUntouched ==
  ASSUME ApiTypeOK, ClientInv, UNCHANGED apiVars
  PROVE  ApiTypeOK' /\ ClientInv'
BY DEF ApiTypeOK, ClientInv, apiVars

LEMMA GcUntouched ==
  ASSUME GcTypeOK, UNCHANGED gcVars
  PROVE  GcTypeOK'
BY DEF GcTypeOK, gcVars

LEMMA ShapeNext == Shape /\ [Next]_vars => Shape'
<1>. SUFFICES ASSUME Shape, [Next]_vars  PROVE Shape'
  OBVIOUS
<1>. USE DEF Shape, TypeOK
<1>1. ASSUME IngestNext, UNCHANGED <<apiVars, gcVars>>  PROVE Shape'
  <2>1. StoreAndWorkers'
    BY <1>1, WorkerStepShape, QueueStepShape DEF IngestNext, StoreAndWorkers
  <2>. QED  BY <1>1, <2>1, ClientsUntouched, GcUntouched DEF StoreAndWorkers
<1>2. ASSUME ApiNext, UNCHANGED <<ingestVars, gcVars>>  PROVE Shape'
  <2>1. StoreAndClients'
    BY <1>2, ApiNextShape DEF StoreAndClients
  <2>. QED  BY <1>2, <2>1, WorkersUntouched, GcUntouched DEF StoreAndClients
<1>3. ASSUME GcNext, UNCHANGED <<ingestVars, apiVars>>  PROVE Shape'
  BY <1>3, GcNextType, WorkersUntouched, ClientsUntouched
<1>4. ASSUME StoreStep, UNCHANGED <<ingestVars, apiVars, gcVars>>  PROVE Shape'
  BY <1>4, StoreStepShape, WorkersUntouched, ClientsUntouched, GcUntouched
<1>5. ASSUME UNCHANGED vars  PROVE Shape'
  <2>1. UNCHANGED <<ingestVars, apiVars, gcVars>> /\ StoreTypeOK'
    BY <1>5 DEF vars, StoreTypeOK, storeVars
  <2>. QED  BY <2>1, WorkersUntouched, ClientsUntouched, GcUntouched
<1>. QED  BY <1>1, <1>2, <1>3, <1>4, <1>5 DEF Next

(***************************************************************************)
(* Type correctness: in particular accounts.used is never negative.        *)
(***************************************************************************)
THEOREM TypeCorrect == Spec => []TypeOK
<1>1. Shape => TypeOK
  BY DEF Shape
<1>. QED  BY <1>1, ShapeInit, ShapeNext, PTL DEF Spec

------------------------------------------------------------------------------
(***************************************************************************)
(* At most one copy.  Only Insert makes a document, and it asks the unique *)
(* index first; every other write leaves documents out or turns them into  *)
(* soft-deleted ones, which the index still covers.                        *)
(***************************************************************************)
NoNewDocument == \A o \in Oids : doc'[o] # "none" => doc[o] # "none"

LEMMA InsertsOne ==
  ASSUME Shape, NEW w \in Workers, Insert(w)
  PROVE  \/ doc' = doc /\ stored' = stored
         \/ /\ IngestKeyFree(Oid(w))
            /\ doc' = [doc EXCEPT ![Oid(w)] = "live"]
            /\ stored' = stored \cup {<<job[w], rcpt[w]>>}
BY DEF Insert

\* The clients, the collectors and the TTL indexes only take messages away.
LEMMA ApiWrites ==
  ASSUME ApiNext
  PROVE  doc' = doc \/ \E T : doc' = SoftDeleted(T) \/ doc' = Removed(T)
BY DEF ApiNext, GetMeta, SoftDelete, Release, StartBulk, GetAccount, BulkFind, BulkUpdate,
       BulkRelease, RecalcAggregate, RecalcWrite, EraseFind, EraseMany, EraseAccount,
       ApiCrash, storeVars

LEMMA GcWrites ==
  ASSUME GcNext
  PROVE  UNCHANGED <<account, used, doc, inline, cleanup>>
BY DEF GcNext, CollectorStep, Acquire, ListMessageIDs, ExistingMessageIDs, DeleteNext,
       DeletedAll, GiveUp, Unlock, CollectorCrash, Tick, StepTo, storeVars

LEMMA DocWrites ==
  ASSUME Shape, [Next]_vars
  PROVE  \/ /\ NoNewDocument
            /\ stored' = stored
         \/ \E w \in Workers : Insert(w)
<1>. USE DEF Shape, TypeOK, StoreTypeOK, NoNewDocument
<1>1. ASSUME NEW w \in Workers, WorkerStep(w) \/ Crash(w), ~Insert(w)
      PROVE  doc' = doc /\ stored' = stored
  BY <1>1 DEF WorkerStep, Crash, Receive, LookupAccount, CheckIngested, Reserve, Aggregate,
              WriteBack, ParseAndUpload, Panic, Rollback, Settle, storeVars
<1>2. ASSUME NEW m \in Msgs, QueueStep(m)  PROVE doc' = doc /\ stored' = stored
  BY <1>2 DEF QueueStep, Publish, Deliver, LoseDelivery, AckWaitExpires, AgeOut, storeVars
<1>3. ASSUME ApiNext, UNCHANGED ingestVars
      PROVE  NoNewDocument /\ stored' = stored
  <2>1. doc' = doc \/ \E T : doc' = SoftDeleted(T) \/ doc' = Removed(T)
    BY <1>3, ApiWrites
  <2>2. NoNewDocument
    BY <2>1 DEF SoftDeleted, Removed
  <2>. QED  BY <1>3, <2>2 DEF ingestVars
<1>4. ASSUME StoreStep, UNCHANGED ingestVars
      PROVE  NoNewDocument /\ stored' = stored
  BY <1>4 DEF StoreStep, ExpireAccount, RunCleanup, PurgeMessage, Removed, ingestVars
<1>5. ASSUME GcNext, UNCHANGED ingestVars  PROVE doc' = doc /\ stored' = stored
  BY <1>5, GcWrites DEF ingestVars
<1>6. ASSUME UNCHANGED vars  PROVE doc' = doc /\ stored' = stored
  BY <1>6 DEF vars, storeVars, ingestVars
<1>. QED  BY <1>1, <1>2, <1>3, <1>4, <1>5, <1>6 DEF Next, IngestNext

LEMMA AtMostOneCopyNext ==
  ASSUME Shape, AtMostOneCopy, [Next]_vars
  PROVE  AtMostOneCopy'
<1>1. CASE NoNewDocument
  <2>1. \A m \in Msgs, a \in Accounts, n \in 1..MaxDeliver : <<m, a, n>> \in Oids
    BY DEF Oids
  <2>. QED  BY <1>1, <2>1 DEF NoNewDocument, AtMostOneCopy
<1>2. ASSUME NEW w \in Workers, Insert(w)  PROVE AtMostOneCopy'
  <2>1. CASE doc' = doc
    BY <2>1 DEF AtMostOneCopy
  <2>2. CASE IngestKeyFree(Oid(w)) /\ doc' = [doc EXCEPT ![Oid(w)] = "live"]
    <3>1. pc[w] \in InRecipient
      BY <1>2 DEF Insert, InRecipient
    <3>2. job[w] \in Msgs /\ rcpt[w] \in Accounts /\ attempt[w] \in 1..MaxDeliver
      BY <3>1, Local DEF Shape, TypeOK, StoreAndWorkers, InRecipient
    <3>3. \A n \in 1..MaxDeliver : doc[<<job[w], rcpt[w], n>>] = "none"
      BY <2>2 DEF IngestKeyFree, HasMessageByIngest, Oid
    <3>4. ASSUME NEW m \in Msgs, NEW a \in Accounts, NEW n \in 1..MaxDeliver,
                 doc'[<<m, a, n>>] # "none"
          PROVE  \/ doc[<<m, a, n>>] # "none"
                 \/ m = job[w] /\ a = rcpt[w] /\ n = attempt[w]
      BY <2>2, <3>4 DEF Shape, TypeOK, StoreTypeOK, Oid, Oids
    <3>. QED  BY <3>2, <3>3, <3>4 DEF AtMostOneCopy
  <2>. QED  BY <1>2, <2>1, <2>2, InsertsOne
<1>. QED  BY <1>1, <1>2, DocWrites

(***************************************************************************)
(* However deliveries overlap, and whatever is deleted meanwhile, an       *)
(* account never has two documents of one mail.                            *)
(***************************************************************************)
THEOREM StoredOnce == Spec => []AtMostOneCopy
<1>1. Init => AtMostOneCopy
  BY DEF Init, StoreInit, AtMostOneCopy, Oids
<1>. QED  BY <1>1, ShapeInit, ShapeNext, AtMostOneCopyNext, PTL DEF Spec

------------------------------------------------------------------------------
(***************************************************************************)
(* Acked means handled.  The inductive invariant follows the loop of       *)
(* processMessage: as long as no recipient has failed for now, each one    *)
(* already taken was refused for good or, if anyOk says so, stored.        *)
(***************************************************************************)
Failing(w) == transient[w] \/ (pc[w] = "rollback" /\ result[w] = "transient")

LoopInv ==
  \A w \in Workers :
    pc[w] # "idle" /\ ~Failing(w) =>
      \A a \in Rcpts[job[w]] \ todo[w] :
        \/ <<job[w], a>> \in rejected
        \/ anyOk[w] /\ <<job[w], a>> \in stored
        \/ pc[w] = "settle"

RollbackInv ==
  \A w \in Workers :
    pc[w] = "rollback" /\ result[w] = "ok" => <<job[w], rcpt[w]>> \in stored

DocStored == \A o \in Oids : doc[o] # "none" => <<o[1], o[2]>> \in stored

Handled == /\ LoopInv /\ RollbackInv /\ DocStored
           /\ AckedMeansHandled /\ TermedMeansRejected

\* Steps that change neither the local state of the workers nor the stream.
LEMMA HandledStutter ==
  ASSUME Handled, UNCHANGED <<workerVars, stream, stored, rejected>>,
         NoNewDocument
  PROVE  Handled'
<1>. USE DEF Handled, workerVars
<1>1. LoopInv' /\ RollbackInv'
  BY DEF LoopInv, RollbackInv, Failing
<1>2. DocStored'
  BY DEF DocStored, NoNewDocument
<1>3. AckedMeansHandled' /\ TermedMeansRejected'
  BY DEF AckedMeansHandled, TermedMeansRejected
<1>. QED  BY <1>1, <1>2, <1>3

LEMMA HandledReturn ==
  ASSUME Shape, Handled, NEW w \in Workers, NEW a \in todo[w],
         NEW r \in {"ok", "transient", "permanent"},
         pc[w] \notin {"idle", "settle"},
         pc[w] = "rollback" => r = result[w],
         r = "ok" => <<job[w], a>> \in stored',
         Return(w, a, r), stored \subseteq stored', DocStored', UNCHANGED stream
  PROVE  Handled'
<1>. USE DEF Shape, TypeOK, IngestTypeOK, Handled
<1>0. /\ job[w] \in Msgs /\ a \in Accounts
      /\ rejected \subseteq rejected'
      /\ r = "permanent" => <<job[w], a>> \in rejected'
  BY DEF Return, WorkerInv
<1>1. LoopInv'
  <2>1. ASSUME NEW v \in Workers, v # w, (pc[v] # "idle" /\ ~Failing(v))',
               NEW b \in (Rcpts[job[v]] \ todo[v])'
        PROVE  (\/ <<job[v], b>> \in rejected
                \/ anyOk[v] /\ <<job[v], b>> \in stored
                \/ pc[v] = "settle")'
    BY <1>0, <2>1 DEF Return, Goto, LoopInv, Failing
  <2>2. ASSUME (~Failing(w))', NEW b \in (Rcpts[job[w]] \ todo[w])'
        PROVE  (\/ <<job[w], b>> \in rejected
                \/ anyOk[w] /\ <<job[w], b>> \in stored)'
    <3>1. /\ ~transient[w] /\ r # "transient" /\ ~Failing(w)
          /\ job'[w] = job[w]
          /\ b = a \/ b \in Rcpts[job[w]] \ todo[w]
          /\ anyOk'[w] = (anyOk[w] \/ r = "ok")
      BY <2>2 DEF Return, Goto, Failing
    <3>2. CASE b = a
      BY <1>0, <3>1, <3>2
    <3>3. CASE b \in Rcpts[job[w]] \ todo[w]
      BY <1>0, <3>1, <3>3 DEF LoopInv
    <3>. QED  BY <3>1, <3>2, <3>3
  <2>. QED  BY <2>1, <2>2 DEF LoopInv
<1>2. RollbackInv'
  BY DEF Return, Goto, RollbackInv
<1>3. AckedMeansHandled' /\ TermedMeansRejected'
  BY <1>0 DEF AckedMeansHandled, TermedMeansRejected
<1>. QED  BY <1>1, <1>2, <1>3

\* A step inside processForRecipient: only the program counter and what the
\* deferred rollback will return change.
LEMMA HandledInside ==
  ASSUME Shape, Handled, NEW w \in Workers,
         pc[w] \notin {"idle", "settle", "rollback"},
         pc'[w] \notin {"idle", "settle"},
         \A v \in Workers \ {w} : pc'[v] = pc[v] /\ result'[v] = result[v],
         pc'[w] = "rollback" /\ result'[w] = "ok" => <<job[w], rcpt[w]>> \in stored',
         UNCHANGED <<job, todo, rcpt, transient, anyOk, stream, rejected>>,
         stored \subseteq stored', DocStored'
  PROVE  Handled'
<1>. USE DEF Handled
<1>1. LoopInv'
  BY DEF LoopInv, Failing
<1>2. RollbackInv'
  BY DEF RollbackInv
<1>3. AckedMeansHandled' /\ TermedMeansRejected'
  BY DEF AckedMeansHandled, TermedMeansRejected
<1>. QED  BY <1>1, <1>2, <1>3

LEMMA HandledSettle ==
  ASSUME Shape, Handled, NEW w \in Workers, Settle(w)
  PROVE  Handled'
<1>. USE DEF Shape, TypeOK, IngestTypeOK, Handled
<1>1. UNCHANGED <<doc, stored, rejected>> /\ BecomeIdle(w)
  BY DEF Settle, storeVars
<1>2. LoopInv' /\ RollbackInv' /\ DocStored'
  BY <1>1 DEF BecomeIdle, Goto, LoopInv, RollbackInv, DocStored, Failing
<1>3. \/ UNCHANGED stream
      \/ stream' = [stream EXCEPT ![job[w]] =
                      CASE Answer(w) = "ack"  -> "acked"
                        [] Answer(w) = "term" -> "termed"
                        [] Answer(w) = "nak"  -> "queued"]
  BY DEF Settle
<1>4. ASSUME NEW m \in Msgs, stream'[m] # stream[m]
      PROVE  /\ m = job[w]
             /\ stream'[m] = "acked" => Answer(w) = "ack"
             /\ stream'[m] = "termed" => Answer(w) = "term"
  BY <1>3, <1>4 DEF Answer
<1>5. /\ Content[job[w]] # "undecodable" => pc[w] = "next" /\ todo[w] = {}
      /\ Content[job[w]] = "undecodable" => ~anyOk[w]
  BY DEF Settle, WorkerInv
<1>6. AckedMeansHandled'
  <2>. SUFFICES ASSUME NEW m \in Msgs, stream'[m] = "acked", NEW a \in Rcpts[m]
                PROVE  <<m, a>> \in stored \cup rejected
    BY <1>1 DEF AckedMeansHandled
  <2>1. CASE stream'[m] = stream[m]
    BY <2>1 DEF AckedMeansHandled
  <2>2. CASE stream'[m] # stream[m]
    <3>1. m = job[w] /\ ~transient[w] /\ anyOk[w]
      BY <1>4, <2>2 DEF Answer
    <3>2. pc[w] = "next" /\ todo[w] = {}
      BY <1>5, <3>1
    <3>. QED  BY <3>1, <3>2 DEF LoopInv, Failing
  <2>. QED  BY <2>1, <2>2
<1>7. TermedMeansRejected'
  <2>. SUFFICES ASSUME NEW m \in Msgs, stream'[m] = "termed",
                       Content[m] # "undecodable", NEW a \in Rcpts[m]
                PROVE  <<m, a>> \in rejected
    BY <1>1 DEF TermedMeansRejected
  <2>1. CASE stream'[m] = stream[m]
    BY <2>1 DEF TermedMeansRejected
  <2>2. CASE stream'[m] # stream[m]
    <3>1. m = job[w] /\ ~transient[w] /\ ~anyOk[w]
      BY <1>4, <2>2 DEF Answer
    <3>2. pc[w] = "next" /\ todo[w] = {}
      BY <1>5, <3>1
    <3>. QED  BY <3>1, <3>2 DEF LoopInv, Failing
  <2>. QED  BY <2>1, <2>2
<1>. QED  BY <1>2, <1>6, <1>7

\* No document without its history entry, and no entry is ever taken back.
LEMMA DocStoredNext ==
  ASSUME Shape, DocStored, [Next]_vars
  PROVE  DocStored' /\ stored \subseteq stored'
<1>1. CASE NoNewDocument /\ stored' = stored
  BY <1>1 DEF DocStored, NoNewDocument
<1>2. ASSUME NEW w \in Workers, Insert(w)
      PROVE  DocStored' /\ stored \subseteq stored'
  <2>1. CASE doc' = doc /\ stored' = stored
    BY <2>1 DEF DocStored
  <2>2. CASE /\ doc' = [doc EXCEPT ![Oid(w)] = "live"]
             /\ stored' = stored \cup {<<job[w], rcpt[w]>>}
    <3>1. ASSUME NEW o \in Oids, doc'[o] # "none"
          PROVE  doc[o] # "none" \/ (o[1] = job[w] /\ o[2] = rcpt[w])
      BY <2>2, <3>1 DEF Shape, TypeOK, StoreTypeOK, Oid
    <3>. QED  BY <2>2, <3>1 DEF DocStored
  <2>. QED  BY <1>2, <2>1, <2>2, InsertsOne
<1>. QED  BY <1>1, <1>2, DocWrites

LEMMA HandledWorker ==
  ASSUME Shape, Handled, NEW w \in Workers, WorkerStep(w) \/ Crash(w),
         DocStored', stored \subseteq stored'
  PROVE  Handled'
<1>. USE DEF queueVars
<1>0. StoreAndWorkers /\ DocStored
  BY DEF Shape, TypeOK, StoreAndWorkers, Handled
\* What a recipient's earlier document means for the history.
<1>a. ASSUME pc[w] \in InRecipient, HasMessageByIngest(job[w], rcpt[w])
      PROVE  <<job[w], rcpt[w]>> \in stored
  <2>1. PICK n \in 1..MaxDeliver : doc[<<job[w], rcpt[w], n>>] # "none"
    BY <1>a DEF HasMessageByIngest
  <2>2. <<job[w], rcpt[w], n>> \in Oids
    BY <1>0, <1>a, Local DEF Oids
  <2>. QED  BY <1>0, <2>1, <2>2 DEF DocStored
<1>b. pc[w] \in InRecipient => rcpt[w] \in todo[w] /\ pc[w] \notin {"idle", "settle"}
  BY DEF Shape, WorkerInv, InRecipient
<1>1. ASSUME NEW m \in Msgs, NEW n \in 1..MaxDeliver, Receive(w, m, n)
      PROVE  Handled'
  <2>1. LoopInv' /\ RollbackInv'
    BY <1>1 DEF Shape, TypeOK, IngestTypeOK, Handled, LoopInv, RollbackInv, Failing,
                Receive, Goto
  <2>2. AckedMeansHandled' /\ TermedMeansRejected'
    BY <1>1 DEF Handled, AckedMeansHandled, TermedMeansRejected, Receive
  <2>. QED  BY <2>1, <2>2 DEF Handled
<1>2. ASSUME NEW a \in Accounts, LookupAccount(w, a)  PROVE Handled'
  <2>0. UNCHANGED stream /\ a \in todo[w] /\ pc[w] = "next"
    BY <1>2 DEF LookupAccount
  <2>1. CASE Return(w, a, "transient")
    BY <2>0, <2>1, HandledReturn
  <2>3. CASE Return(w, a, "permanent")
    BY <2>0, <2>3, HandledReturn
  <2>2. CASE /\ Goto(w, "dedup")
             /\ rcpt' = [rcpt EXCEPT ![w] = a]
             /\ UNCHANGED <<job, attempt, todo, total, result, transient, anyOk, rejected>>
    <3>1. LoopInv'
      BY <2>0, <2>2 DEF Shape, TypeOK, IngestTypeOK, Handled, LoopInv, Failing, Goto
    <3>2. RollbackInv'
      BY <2>0, <2>2 DEF Shape, TypeOK, IngestTypeOK, Handled, RollbackInv, Goto
    <3>3. AckedMeansHandled' /\ TermedMeansRejected'
      BY <2>0, <2>2 DEF Handled, AckedMeansHandled, TermedMeansRejected
    <3>. QED  BY <3>1, <3>2, <3>3 DEF Handled
  <2>. QED  BY <1>2, <2>1, <2>3, <2>2 DEF LookupAccount
<1>3. ASSUME CheckIngested(w)  PROVE Handled'
  <2>0. UNCHANGED <<stream, stored>> /\ pc[w] = "dedup" /\ pc[w] \in InRecipient
    BY <1>3 DEF CheckIngested, InRecipient
  <2>1. CASE HasMessageByIngest(job[w], rcpt[w]) /\ Return(w, rcpt[w], "ok")
    BY <1>a, <1>b, <2>0, <2>1, HandledReturn
  <2>2. CASE Return(w, rcpt[w], "transient")
    BY <1>b, <2>0, <2>2, HandledReturn
  <2>3. CASE Proceed(w, "reserve")
    <3>. QED  BY <2>0, <2>3, HandledInside DEF Proceed, Goto, Shape, TypeOK, IngestTypeOK
  <2>. QED  BY <1>3, <2>1, <2>2, <2>3 DEF CheckIngested
<1>4. ASSUME Reserve(w)  PROVE Handled'
  <2>0. /\ UNCHANGED <<stream, stored>> /\ pc[w] \in {"reserve", "reserveAgain"}
        /\ pc[w] \in InRecipient
    BY <1>4 DEF Reserve, InRecipient
  <2>1. CASE Return(w, rcpt[w], "transient")
    BY <1>b, <2>0, <2>1, HandledReturn
  <2>3. CASE Return(w, rcpt[w], "permanent")
    BY <1>b, <2>0, <2>3, HandledReturn
  <2>2. CASE \E l \in {"parse", "aggregate"} : Proceed(w, l)
    BY <2>0, <2>2, HandledInside DEF Proceed, Goto, Shape, TypeOK, IngestTypeOK
  <2>. QED  BY <1>4, <2>1, <2>3, <2>2 DEF Reserve
<1>5. ASSUME Aggregate(w) \/ WriteBack(w)  PROVE Handled'
  <2>1. pc[w] \in {"aggregate", "writeBack"} /\ UNCHANGED <<stream, stored>>
    BY <1>5 DEF Aggregate, WriteBack
  <2>2. \/ Goto(w, "writeBack")
        \/ Goto(w, "reserveAgain")
    BY <1>5 DEF Aggregate, WriteBack, Proceed
  <2>3. UNCHANGED <<job, attempt, todo, rcpt, result, transient, anyOk, rejected>>
    BY <1>5 DEF Aggregate, WriteBack, Proceed
  <2>4. /\ \A v \in Workers \ {w} : pc'[v] = pc[v] /\ result'[v] = result[v]
        /\ pc'[w] \in {"writeBack", "reserveAgain"}
    BY <2>2, <2>3 DEF Goto, Shape, TypeOK, IngestTypeOK
  <2>. QED  BY <2>1, <2>3, <2>4, HandledInside
<1>6. ASSUME ParseAndUpload(w)  PROVE Handled'
  <2>1. pc[w] = "parse" /\ UNCHANGED <<stream, stored>>
    BY <1>6 DEF ParseAndUpload
  <2>2. Abort(w, "permanent") \/ Proceed(w, "insert")
    BY <1>6 DEF ParseAndUpload
  <2>. QED  BY <2>1, <2>2, HandledInside DEF Abort, Proceed, Goto, Shape, TypeOK,
                                             IngestTypeOK
<1>7. ASSUME Panic(w)  PROVE Handled'
  <2>1. LoopInv' /\ RollbackInv'
    BY <1>7 DEF Shape, TypeOK, IngestTypeOK, Handled, LoopInv, RollbackInv, Failing,
                Panic, Goto
  <2>2. AckedMeansHandled' /\ TermedMeansRejected'
    BY <1>7 DEF Handled, AckedMeansHandled, TermedMeansRejected, Panic
  <2>. QED  BY <2>1, <2>2 DEF Handled
<1>8. ASSUME Insert(w)  PROVE Handled'
  <2>0. UNCHANGED stream /\ pc[w] = "insert" /\ pc[w] \in InRecipient
    BY <1>8 DEF Insert, InRecipient
  <2>1. CASE <<job[w], rcpt[w]>> \in stored' /\ Return(w, rcpt[w], "ok")
    BY <1>b, <2>0, <2>1, HandledReturn
  <2>2. CASE <<job[w], rcpt[w]>> \in stored' /\ Abort(w, "ok")
    BY <2>0, <2>2, HandledInside DEF Abort, Goto, Shape, TypeOK, IngestTypeOK
  <2>3. CASE Abort(w, "transient")
    <3>1. /\ \A v \in Workers \ {w} : pc'[v] = pc[v] /\ result'[v] = result[v]
          /\ pc'[w] = "rollback" /\ result'[w] = "transient"
          /\ UNCHANGED <<job, todo, rcpt, transient, anyOk, rejected>>
      BY <2>3 DEF Abort, Goto, Shape, TypeOK, IngestTypeOK
    <3>. QED  BY <2>0, <3>1, HandledInside
  <2>4. ~IngestKeyFree(Oid(w)) => <<job[w], rcpt[w]>> \in stored
    BY <1>a, <2>0 DEF IngestKeyFree, Oid
  <2>. QED  BY <1>8, <2>1, <2>2, <2>3, <2>4 DEF Insert, Commit
<1>9. ASSUME Rollback(w)  PROVE Handled'
  <2>0. UNCHANGED <<stream, stored>> /\ pc[w] = "rollback" /\ pc[w] \in InRecipient
        /\ Return(w, rcpt[w], result[w])
    BY <1>9 DEF Rollback, InRecipient
  <2>1. /\ result[w] \in {"ok", "transient", "permanent"}
        /\ result[w] = "ok" => <<job[w], rcpt[w]>> \in stored
    BY <2>0 DEF Shape, TypeOK, IngestTypeOK, Handled, RollbackInv
  <2>. QED  BY <1>b, <2>0, <2>1, HandledReturn
<1>10. ASSUME Settle(w)  PROVE Handled'
  BY <1>10, HandledSettle
<1>11. ASSUME Crash(w)  PROVE Handled'
  <2>1. LoopInv' /\ RollbackInv'
    BY <1>11 DEF Shape, TypeOK, IngestTypeOK, Handled, LoopInv, RollbackInv, Failing,
                 Crash, BecomeIdle, Goto
  <2>2. AckedMeansHandled' /\ TermedMeansRejected'
    BY <1>11 DEF Handled, AckedMeansHandled, TermedMeansRejected, Crash
  <2>. QED  BY <2>1, <2>2 DEF Handled
<1>. QED  BY <1>1, <1>2, <1>3, <1>4, <1>5, <1>6, <1>7, <1>8, <1>9, <1>10, <1>11
          DEF WorkerStep

LEMMA HandledNext ==
  ASSUME Shape, Handled, [Next]_vars
  PROVE  Handled'
<1>0. DocStored' /\ stored \subseteq stored'
  BY DocStoredNext DEF Handled
<1>1. ASSUME NEW w \in Workers, WorkerStep(w) \/ Crash(w)  PROVE Handled'
  BY <1>0, <1>1, HandledWorker
<1>2. ASSUME NEW m \in Msgs, QueueStep(m)  PROVE Handled'
  <2>1. UNCHANGED <<doc, workerVars, stored, rejected>>
    BY <1>2 DEF QueueStep, Publish, Deliver, LoseDelivery, AckWaitExpires, AgeOut, storeVars
  <2>2. LoopInv' /\ RollbackInv'
    BY <2>1 DEF Handled, LoopInv, RollbackInv, Failing, workerVars
  <2>3. \A k \in Msgs : stream'[k] \in {"acked", "termed"} => stream'[k] = stream[k]
    BY <1>2 DEF QueueStep, Publish, Deliver, LoseDelivery, AckWaitExpires, AgeOut, Shape, TypeOK,
                IngestTypeOK
  <2>4. AckedMeansHandled' /\ TermedMeansRejected'
    BY <2>1, <2>3 DEF Handled, AckedMeansHandled, TermedMeansRejected
  <2>. QED  BY <1>0, <2>2, <2>4 DEF Handled
<1>3. ASSUME ~ \E w \in Workers : WorkerStep(w) \/ Crash(w),
             ~ \E m \in Msgs : QueueStep(m)
      PROVE  Handled'
  <2>1. UNCHANGED ingestVars
    BY <1>3 DEF Next, IngestNext, vars, ingestVars
  <2>2. ~ \E w \in Workers : Insert(w)
    BY <1>3 DEF WorkerStep
  <2>. QED  BY <2>1, <2>2, DocWrites, HandledStutter DEF ingestVars, queueVars
<1>. QED  BY <1>1, <1>2, <1>3

LEMMA HandledAlways == Spec => []Handled
<1>1. Init => Handled
  BY DEF Init, StoreInit, IngestInit, Handled, LoopInv, RollbackInv, DocStored,
         AckedMeansHandled, TermedMeansRejected
<1>. QED  BY <1>1, ShapeInit, ShapeNext, HandledNext, PTL DEF Spec

(***************************************************************************)
(* A mail that processMessage has led to an Ack is in the mailbox of each  *)
(* recipient, or was there, or was refused for good.                       *)
(***************************************************************************)
THEOREM AckedHandled == Spec => []AckedMeansHandled
<1>1. Handled => AckedMeansHandled
  BY DEF Handled
<1>. QED  BY <1>1, HandledAlways, PTL

(***************************************************************************)
(* A mail is terminated only when it cannot be decoded or was refused for  *)
(* every recipient.                                                        *)
(***************************************************************************)
THEOREM TermedRejected == Spec => []TermedMeansRejected
<1>1. Handled => TermedMeansRejected
  BY DEF Handled
<1>. QED  BY <1>1, HandledAlways, PTL

------------------------------------------------------------------------------
(***************************************************************************)
(* Refinement of the promised mailbox.  A mailbox entry is in the state of *)
(* its only document, so that a step of the store on documents is a step   *)
(* on entries; a worker acts only for a mail that was sent.                *)
(***************************************************************************)
SentInv ==
  /\ \A w \in Workers : pc[w] # "idle" => stream[job[w]] # "unsent"
  /\ \A d \in flight : stream[d[1]] # "unsent"

LEMMA SentNext ==
  ASSUME Shape, SentInv, [Next]_vars
  PROVE  SentInv'
<1>. USE DEF Shape, TypeOK, IngestTypeOK
<1>1. ASSUME NEW w \in Workers, WorkerStep(w) \/ Crash(w)  PROVE SentInv'
  <2>1. ASSUME NEW m \in Msgs, NEW n \in 1..MaxDeliver, Receive(w, m, n)  PROVE SentInv'
    BY <2>1 DEF Receive, Goto, SentInv
  <2>2. CASE Settle(w)
    <3>1. \A m \in Msgs : stream[m] # "unsent" => stream'[m] # "unsent"
      BY <2>2 DEF Settle, Answer
    <3>2. flight' = flight /\ BecomeIdle(w)
      BY <2>2 DEF Settle
    <3>. QED  BY <3>1, <3>2 DEF BecomeIdle, Goto, SentInv, WorkerInv
  <2>3. CASE Crash(w)
    BY <2>3 DEF Crash, BecomeIdle, Goto, SentInv, queueVars
  <2>4. ASSUME ~Settle(w), ~Crash(w), ~ \E m \in Msgs, n \in 1..MaxDeliver : Receive(w, m, n)
        PROVE  SentInv'
    <3>1. UNCHANGED <<stream, flight, job>> /\ pc[w] # "idle"
          /\ \A v \in Workers \ {w} : pc'[v] = pc[v]
      BY <1>1, <2>4 DEF WorkerStep, LookupAccount, CheckIngested, Reserve, Aggregate, WriteBack,
                ParseAndUpload, Panic, Insert, Commit, Rollback, Return, Proceed, Abort, Goto,
                queueVars
    <3>. QED  BY <3>1 DEF SentInv
  <2>. QED  BY <1>1, <2>1, <2>2, <2>3, <2>4
<1>2. ASSUME NEW m \in Msgs, QueueStep(m)  PROVE SentInv'
  <2>1. UNCHANGED <<pc, job>>
    BY <1>2 DEF QueueStep, Publish, Deliver, LoseDelivery, AckWaitExpires, AgeOut, workerVars
  <2>2. \A k \in Msgs : stream[k] # "unsent" => stream'[k] # "unsent"
    BY <1>2 DEF QueueStep, Publish, Deliver, LoseDelivery, AckWaitExpires, AgeOut
  <2>3. \A d \in flight' : d \in flight \/ (d[1] = m /\ stream[m] # "unsent")
    <3>1. CASE Deliver(m)
      BY <3>1 DEF Deliver
    <3>2. CASE ~Deliver(m)
      BY <1>2, <3>2 DEF QueueStep, Publish, LoseDelivery, AckWaitExpires, AgeOut
    <3>. QED  BY <3>1, <3>2
  <2>4. \A d \in flight' : d[1] \in Msgs
    BY <2>3
  <2>. QED  BY <2>1, <2>2, <2>3, <2>4 DEF SentInv, WorkerInv
<1>3. CASE UNCHANGED ingestVars
  BY <1>3 DEF ingestVars, queueVars, workerVars, SentInv
<1>. QED  BY <1>1, <1>2, <1>3 DEF Next, IngestNext, vars

\* What a step of the store on documents is on mailbox entries.
Box == [p \in Msgs \X Accounts |-> BoxState(p)]
Mail == [m \in Msgs |-> MailState(m)]

LEMMA BoxIsDoc ==
  ASSUME Shape, AtMostOneCopy, NEW p \in Msgs \X Accounts
  PROVE  /\ BoxState(p) \in {"absent", "live", "deleted"}
         /\ \A n \in 1..MaxDeliver :
              doc[<<p[1], p[2], n>>] # "none" => BoxState(p) = doc[<<p[1], p[2], n>>]
         /\ (\A n \in 1..MaxDeliver : doc[<<p[1], p[2], n>>] = "none") <=> BoxState(p) = "absent"
<1>1. \A n \in 1..MaxDeliver : doc[<<p[1], p[2], n>>] \in {"none", "live", "deleted"}
  BY DEF Shape, TypeOK, StoreTypeOK, Oids
<1>2. \A n, k \in 1..MaxDeliver :
        doc[<<p[1], p[2], n>>] # "none" /\ doc[<<p[1], p[2], k>>] # "none" => n = k
  BY DEF AtMostOneCopy
<1>. QED  BY <1>1, <1>2 DEF BoxState

LEMMA BoxTrash ==
  ASSUME Shape, AtMostOneCopy, NEW T, doc' = SoftDeleted(T)
  PROVE  \E S \in SUBSET (Msgs \X Accounts) :
           /\ \A p \in S : Box[p] = "live"
           /\ Box' = [p \in Msgs \X Accounts |-> IF p \in S THEN "deleted" ELSE Box[p]]
<1>. DEFINE S == {p \in Msgs \X Accounts : BoxState(p) = "live" /\ BoxState(p)' = "deleted"}
<1>1. ASSUME NEW p \in Msgs \X Accounts
      PROVE  BoxState(p)' = IF p \in S THEN "deleted" ELSE BoxState(p)
  <2>. DEFINE D(n) == doc[<<p[1], p[2], n>>]
  <2>1. \A n \in 1..MaxDeliver : /\ D(n)' = "none" <=> D(n) = "none"
                                 /\ D(n)' = D(n) \/ D(n)' = "deleted"
    BY DEF SoftDeleted, Oids
  <2>2. CASE \A n \in 1..MaxDeliver : D(n) = "none"
    <3>1. BoxState(p) = "absent" /\ BoxState(p)' = "absent"
      BY <2>1, <2>2 DEF BoxState
    <3>. QED  BY <3>1
  <2>3. ASSUME NEW n \in 1..MaxDeliver, D(n) # "none"
        PROVE  BoxState(p)' = IF p \in S THEN "deleted" ELSE BoxState(p)
    <3>1. BoxState(p) = D(n)
      BY <2>3, BoxIsDoc
    <3>2. BoxState(p)' = D(n)'
      <4>1. D(n)' \in {"live", "deleted"}
        BY <2>1, <2>3 DEF Shape, TypeOK, StoreTypeOK, Oids
      <4>2. \A k \in 1..MaxDeliver : k # n => D(k)' = "none"
        BY <2>1, <2>3 DEF AtMostOneCopy
      <4>. QED  BY <4>1, <4>2 DEF BoxState
    <3>3. D(n) \in {"live", "deleted"}
      BY <2>3 DEF Shape, TypeOK, StoreTypeOK, Oids
    <3>. QED  BY <2>1, <3>1, <3>2, <3>3
  <2>. QED  BY <2>2, <2>3
<1>2. Box' = [p \in Msgs \X Accounts |-> IF p \in S THEN "deleted" ELSE Box[p]]
  <2>. HIDE DEF S
  <2>. QED  BY <1>1 DEF Box
<1>3. \A p \in S : Box[p] = "live"
  BY DEF Box
<1>. QED  BY <1>2, <1>3

LEMMA BoxRemove ==
  ASSUME Shape, AtMostOneCopy, NEW T, doc' = Removed(T)
  PROVE  \E S \in SUBSET (Msgs \X Accounts) :
           Box' = [p \in Msgs \X Accounts |-> IF p \in S THEN "absent" ELSE Box[p]]
<1>. DEFINE S == {p \in Msgs \X Accounts : BoxState(p)' = "absent"}
<1>1. ASSUME NEW p \in Msgs \X Accounts
      PROVE  BoxState(p)' = IF p \in S THEN "absent" ELSE BoxState(p)
  <2>. DEFINE D(n) == doc[<<p[1], p[2], n>>]
  <2>1. \A n \in 1..MaxDeliver : D(n)' = D(n) \/ D(n)' = "none"
    BY DEF Removed, Oids
  <2>2. CASE \A n \in 1..MaxDeliver : D(n)' = "none"
    BY <2>2 DEF BoxState
  <2>3. ASSUME NEW n \in 1..MaxDeliver, D(n)' # "none"
        PROVE  BoxState(p)' = BoxState(p)
    <3>1. D(n) = D(n)' /\ \A k \in 1..MaxDeliver : k # n => D(k) = "none" /\ D(k)' = "none"
      BY <2>1, <2>3 DEF AtMostOneCopy
    <3>. QED  BY <3>1 DEF BoxState
  <2>. QED  BY <2>2, <2>3
<1>2. Box' = [p \in Msgs \X Accounts |-> IF p \in S THEN "absent" ELSE Box[p]]
  <2>. HIDE DEF S
  <2>. QED  BY <1>1 DEF Box
<1>. QED  BY <1>2

LEMMA BoxStore ==
  ASSUME Shape, NEW w \in Workers, pc[w] \in InRecipient, IngestKeyFree(Oid(w)),
         doc' = [doc EXCEPT ![Oid(w)] = "live"]
  PROVE  /\ Box[<<job[w], rcpt[w]>>] = "absent"
         /\ Box' = [Box EXCEPT ![<<job[w], rcpt[w]>>] = "live"]
<1>1. /\ <<job[w], rcpt[w]>> \in Msgs \X Accounts
      /\ attempt[w] \in 1..MaxDeliver /\ Oid(w) \in Oids
  BY Local DEF Shape, TypeOK, StoreAndWorkers, InRecipient
<1>2. \A n \in 1..MaxDeliver : doc[<<job[w], rcpt[w], n>>] = "none"
  BY DEF IngestKeyFree, HasMessageByIngest, Oid
<1>3. BoxState(<<job[w], rcpt[w]>>) = "absent"
  BY <1>2 DEF BoxState
<1>4. ASSUME NEW p \in Msgs \X Accounts, p = <<job[w], rcpt[w]>>
      PROVE  BoxState(p)' = "live"
  <2>1. doc'[<<p[1], p[2], attempt[w]>>] = "live"
    BY <1>1, <1>4 DEF Shape, TypeOK, StoreTypeOK, Oid
  <2>. QED  BY <1>1, <2>1 DEF BoxState
<1>5. ASSUME NEW p \in Msgs \X Accounts, p # <<job[w], rcpt[w]>>
      PROVE  BoxState(p)' = BoxState(p)
  <2>1. \A n \in 1..MaxDeliver : doc'[<<p[1], p[2], n>>] = doc[<<p[1], p[2], n>>]
    BY <1>1, <1>5 DEF Oid
  <2>. QED  BY <2>1 DEF BoxState
<1>. QED  BY <1>1, <1>3, <1>4, <1>5 DEF Box

LEMMA BoxSame ==
  ASSUME doc' = doc
  PROVE  Box' = Box
BY DEF Box, BoxState

\* The steps of the mailbox, on the mapped variables.
LEMMA MapsToStutter ==
  ASSUME Box' = Box, Mail' = Mail, stored' = stored, rejected' = rejected
  PROVE  UNCHANGED Promise!vars
BY DEF Promise!vars, Box, Mail

LEMMA SameMail ==
  ASSUME stream' = stream
  PROVE  Mail' = Mail
BY DEF Mail, MailState

LEMMA MapsToRemoval ==
  ASSUME Shape, AtMostOneCopy, NEW T, doc' = SoftDeleted(T) \/ doc' = Removed(T),
         UNCHANGED <<stream, stored, rejected>>
  PROVE  Promise!Next
<1>1. Mail' = Mail
  BY SameMail
<1>2. CASE doc' = SoftDeleted(T)
  <2>1. PICK S \in SUBSET (Msgs \X Accounts) :
          /\ \A p \in S : Box[p] = "live"
          /\ Box' = [p \in Msgs \X Accounts |-> IF p \in S THEN "deleted" ELSE Box[p]]
    BY <1>2, BoxTrash
  <2>2. Promise!Trash(S)
    BY <1>1, <2>1 DEF Promise!Trash, Promise!Pairs, Box, Mail
  <2>. QED  BY <2>2 DEF Promise!Next, Promise!Pairs
<1>3. CASE doc' = Removed(T)
  <2>1. PICK S \in SUBSET (Msgs \X Accounts) :
          Box' = [p \in Msgs \X Accounts |-> IF p \in S THEN "absent" ELSE Box[p]]
    BY <1>3, BoxRemove
  <2>2. Promise!Remove(S)
    BY <1>1, <2>1 DEF Promise!Remove, Promise!Pairs, Box, Mail
  <2>. QED  BY <2>2 DEF Promise!Next, Promise!Pairs
<1>. QED  BY <1>2, <1>3

LEMMA MapsToStore ==
  ASSUME Shape, SentInv, NEW w \in Workers, Insert(w), doc' # doc
  PROVE  Promise!Next
<1>1. /\ pc[w] \in InRecipient /\ UNCHANGED stream
      /\ IngestKeyFree(Oid(w)) /\ doc' = [doc EXCEPT ![Oid(w)] = "live"]
      /\ stored' = stored \cup {<<job[w], rcpt[w]>>}
      /\ UNCHANGED rejected
  BY DEF Insert, InRecipient, queueVars, Commit, Return, Abort
<1>2. /\ Box[<<job[w], rcpt[w]>>] = "absent"
      /\ Box' = [Box EXCEPT ![<<job[w], rcpt[w]>>] = "live"]
  BY <1>1, BoxStore
<1>3. job[w] \in Msgs /\ rcpt[w] \in Rcpts[job[w]] /\ rcpt[w] \in Accounts
  BY <1>1 DEF Shape, WorkerInv, InRecipient
<1>4. Mail[job[w]] # "unsent"
  BY <1>1, <1>3 DEF SentInv, InRecipient, Mail, MailState
<1>5. Mail' = Mail
  BY <1>1, SameMail
<1>6. Promise!Store(job[w], rcpt[w])
  BY <1>1, <1>2, <1>3, <1>4, <1>5 DEF Promise!Store, Box, Mail
<1>. QED  BY <1>3, <1>6 DEF Promise!Next

LEMMA MapsToRefuse ==
  ASSUME Shape, SentInv, NEW w \in Workers, pc[w] # "idle", NEW a \in todo[w],
         rejected' = rejected \cup {<<job[w], a>>}, UNCHANGED <<stream, doc, stored>>
  PROVE  Promise!Next
<1>1. Box' = Box /\ Mail' = Mail
  BY BoxSame, SameMail
<1>2. job[w] \in Msgs /\ a \in Rcpts[job[w]] /\ a \in Accounts
  BY DEF Shape, WorkerInv
<1>3. Mail[job[w]] # "unsent"
  BY <1>2 DEF SentInv, Mail, MailState
<1>4. Promise!Refuse(job[w], a)
  BY <1>1, <1>2, <1>3 DEF Promise!Refuse, Box, Mail
<1>. QED  BY <1>2, <1>4 DEF Promise!Next

LEMMA MapsToFinish ==
  ASSUME Shape, NEW m \in Msgs, stream[m] = "queued",
         NEW s \in {"acked", "termed"}, stream' = [stream EXCEPT ![m] = s],
         AckedMeansHandled', TermedMeansRejected', UNCHANGED <<doc, stored, rejected>>
  PROVE  Promise!Next
<1>1. Box' = Box
  BY BoxSame
<1>2. stream'[m] = s /\ \A k \in Msgs : k # m => stream'[k] = stream[k]
  BY DEF Shape, TypeOK, IngestTypeOK
<1>3. Mail' = [Mail EXCEPT ![m] = "done"] /\ Mail[m] = "queued"
  BY <1>2 DEF Mail, MailState
<1>4. \/ m \in {k \in Msgs : Content[k] = "undecodable"}
      \/ \A a \in Rcpts[m] : <<m, a>> \in stored \cup rejected
  BY <1>2 DEF AckedMeansHandled, TermedMeansRejected
<1>5. Promise!Finish(m)
  BY <1>1, <1>3, <1>4 DEF Promise!Finish, Box, Mail
<1>. QED  BY <1>5 DEF Promise!Next

LEMMA WorkerSimulates ==
  ASSUME Shape, SentInv, AckedMeansHandled', TermedMeansRejected',
         NEW w \in Workers, WorkerStep(w) \/ Crash(w)
  PROVE  Promise!Next \/ UNCHANGED Promise!vars
<1>1. ASSUME NEW a \in todo[w], NEW r \in {"ok", "transient", "permanent"}, pc[w] # "idle",
             Return(w, a, r), UNCHANGED <<stream, doc, stored>>
      PROVE  Promise!Next \/ UNCHANGED Promise!vars
  <2>1. rejected' = rejected \/ rejected' = rejected \cup {<<job[w], a>>}
    BY <1>1 DEF Return
  <2>. QED  BY <1>1, <2>1, MapsToRefuse, MapsToStutter, BoxSame, SameMail
<1>2. ASSUME UNCHANGED <<stream, doc, stored, rejected>>
      PROVE  UNCHANGED Promise!vars
  BY <1>2, MapsToStutter, BoxSame, SameMail
<1>3. ASSUME NEW m \in Msgs, NEW n \in 1..MaxDeliver, Receive(w, m, n)
      PROVE  UNCHANGED Promise!vars
  BY <1>2, <1>3 DEF Receive, storeVars
<1>4. ASSUME NEW a \in Accounts, LookupAccount(w, a)
      PROVE  Promise!Next \/ UNCHANGED Promise!vars
  BY <1>1, <1>2, <1>4 DEF LookupAccount, storeVars, queueVars
<1>5. pc[w] \in InRecipient => rcpt[w] \in todo[w] /\ pc[w] # "idle"
  BY DEF Shape, WorkerInv, InRecipient
<1>6. ASSUME CheckIngested(w)  PROVE Promise!Next \/ UNCHANGED Promise!vars
  BY <1>1, <1>2, <1>5, <1>6 DEF CheckIngested, Proceed, InRecipient, storeVars, queueVars
<1>7. ASSUME Reserve(w)  PROVE Promise!Next \/ UNCHANGED Promise!vars
  BY <1>1, <1>2, <1>5, <1>7 DEF Reserve, Proceed, InRecipient, queueVars
<1>8. ASSUME Aggregate(w) \/ WriteBack(w) \/ ParseAndUpload(w) \/ Panic(w) \/ Crash(w)
      PROVE  UNCHANGED Promise!vars
  BY <1>2, <1>8 DEF Aggregate, WriteBack, ParseAndUpload, Panic, Crash, BecomeIdle, Proceed, Abort,
                    storeVars, queueVars
<1>9. ASSUME Insert(w)  PROVE Promise!Next \/ UNCHANGED Promise!vars
  <2>1. CASE doc' # doc
    BY <1>9, <2>1, MapsToStore
  <2>2. CASE doc' = doc
    <3>1. pc[w] \in InRecipient /\ UNCHANGED <<stream, rejected>>
      BY <1>9 DEF Insert, InRecipient, Commit, Return, Abort, queueVars
    <3>2. ~(IngestKeyFree(Oid(w)) /\ doc' = [doc EXCEPT ![Oid(w)] = "live"])
      <4>1. Oid(w) \in Oids /\ job[w] \in Msgs /\ rcpt[w] \in Accounts /\ attempt[w] \in 1..MaxDeliver
        BY <3>1, Local DEF Shape, TypeOK, StoreAndWorkers, InRecipient
      <4>2. IngestKeyFree(Oid(w)) => doc[Oid(w)] = "none"
        BY <4>1 DEF IngestKeyFree, HasMessageByIngest, Oid
      <4>3. doc' = [doc EXCEPT ![Oid(w)] = "live"] => doc'[Oid(w)] = "live"
        BY <4>1 DEF Shape, TypeOK, StoreTypeOK
      <4>. QED  BY <2>2, <4>2, <4>3
    <3>3. stored' = stored
      BY <1>9, <3>2 DEF Insert
    <3>. QED  BY <1>2, <2>2, <3>1, <3>3
  <2>. QED  BY <2>1, <2>2
<1>10. ASSUME Rollback(w)  PROVE Promise!Next \/ UNCHANGED Promise!vars
  <2>1. result[w] \in {"ok", "transient", "permanent"}
    BY DEF Shape, TypeOK, IngestTypeOK
  <2>. QED  BY <1>1, <1>5, <1>10, <2>1 DEF Rollback, InRecipient, queueVars
<1>11. ASSUME Settle(w)  PROVE Promise!Next \/ UNCHANGED Promise!vars
  <2>1. UNCHANGED <<doc, stored, rejected>> /\ job[w] \in Msgs
    BY <1>11 DEF Settle, storeVars, Shape, WorkerInv
  <2>2. CASE UNCHANGED stream
    BY <1>2, <2>1, <2>2
  <2>3. CASE /\ stream[job[w]] = "queued"
             /\ stream' = [stream EXCEPT ![job[w]] =
                             CASE Answer(w) = "ack"  -> "acked"
                               [] Answer(w) = "term" -> "termed"
                               [] Answer(w) = "nak"  -> "queued"]
    <3>1. Answer(w) \in {"ack", "term", "nak"}
      BY DEF Answer
    <3>2. CASE Answer(w) = "nak"
      <4>1. stream' = stream
        BY <2>3, <3>2 DEF Shape, TypeOK, IngestTypeOK
      <4>. QED  BY <1>2, <2>1, <4>1
    <3>3. CASE Answer(w) # "nak"
      <4>1. \E s \in {"acked", "termed"} : stream' = [stream EXCEPT ![job[w]] = s]
        BY <2>3, <3>1, <3>3
      <4>. QED  BY <2>1, <2>3, <4>1, MapsToFinish
    <3>. QED  BY <3>2, <3>3
  <2>. QED  BY <1>11, <2>2, <2>3 DEF Settle
<1>. QED  BY <1>3, <1>4, <1>6, <1>7, <1>8, <1>9, <1>10, <1>11 DEF WorkerStep

LEMMA QueueSimulates ==
  ASSUME Shape, NEW m \in Msgs, QueueStep(m)
  PROVE  Promise!Next \/ UNCHANGED Promise!vars
<1>1. UNCHANGED <<doc, stored, rejected>> /\ Box' = Box
  BY BoxSame DEF QueueStep, Publish, Deliver, LoseDelivery, AckWaitExpires, AgeOut, storeVars
<1>2. \/ UNCHANGED stream
      \/ stream[m] = "unsent" /\ stream' = [stream EXCEPT ![m] = "queued"]
      \/ stream[m] = "queued" /\ stream' = [stream EXCEPT ![m] = "dropped"]
  BY DEF QueueStep, Publish, Deliver, LoseDelivery, AckWaitExpires, AgeOut
<1>3. CASE UNCHANGED stream
  BY <1>1, <1>3, MapsToStutter, SameMail
<1>4. CASE stream[m] = "unsent" /\ stream' = [stream EXCEPT ![m] = "queued"]
  <2>1. Mail[m] = "unsent" /\ Mail' = [Mail EXCEPT ![m] = "queued"]
    BY <1>4 DEF Shape, TypeOK, IngestTypeOK, Mail, MailState
  <2>2. Promise!Accept(m)
    BY <1>1, <2>1 DEF Promise!Accept, Box, Mail
  <2>. QED  BY <2>2 DEF Promise!Next
<1>5. CASE stream[m] = "queued" /\ stream' = [stream EXCEPT ![m] = "dropped"]
  <2>1. Mail[m] = "queued" /\ Mail' = [Mail EXCEPT ![m] = "dropped"]
    BY <1>5 DEF Shape, TypeOK, IngestTypeOK, Mail, MailState
  <2>2. Promise!Drop(m)
    BY <1>1, <2>1 DEF Promise!Drop, Box, Mail
  <2>. QED  BY <2>2 DEF Promise!Next
<1>. QED  BY <1>2, <1>3, <1>4, <1>5

LEMMA StepSimulates ==
  ASSUME Shape, SentInv, AtMostOneCopy, AckedMeansHandled', TermedMeansRejected', [Next]_vars
  PROVE  [Promise!Next]_Promise!vars
<1>1. ASSUME IngestNext  PROVE Promise!Next \/ UNCHANGED Promise!vars
  BY <1>1, WorkerSimulates, QueueSimulates DEF IngestNext
<1>2. ASSUME UNCHANGED ingestVars, doc' = doc \/ \E T : doc' = SoftDeleted(T) \/ doc' = Removed(T)
      PROVE  Promise!Next \/ UNCHANGED Promise!vars
  <2>1. UNCHANGED <<stream, stored, rejected>>
    BY <1>2 DEF ingestVars, queueVars
  <2>2. CASE doc' = doc
    BY <2>1, <2>2, MapsToStutter, BoxSame, SameMail
  <2>3. ASSUME NEW T, doc' = SoftDeleted(T) \/ doc' = Removed(T)
        PROVE  Promise!Next
    BY <2>1, <2>3, MapsToRemoval
  <2>. QED  BY <1>2, <2>2, <2>3
<1>3. StoreStep => doc' = doc \/ \E T : doc' = Removed(T)
  BY DEF StoreStep, ExpireAccount, RunCleanup, PurgeMessage
<1>4. UNCHANGED vars => UNCHANGED ingestVars /\ doc' = doc
  BY DEF vars, storeVars
<1>. QED  BY <1>1, <1>2, <1>3, <1>4, ApiWrites, GcWrites DEF Next

(***************************************************************************)
(* The mail system, with its queue, workers, clients, collectors, faults   *)
(* and overlapping deliveries, implements the mailbox it promises.         *)
(***************************************************************************)
THEOREM KeepsThePromise == Spec => ImplementsMailbox
<1>1. Init => Promise!Init
  <2>. SUFFICES ASSUME Init  PROVE Promise!Init
    OBVIOUS
  <2>1. \A m \in Msgs : MailState(m) = "unsent"
    BY DEF Init, IngestInit, MailState
  <2>2. \A p \in Msgs \X Accounts : BoxState(p) = "absent"
    BY DEF Init, StoreInit, Oids, BoxState
  <2>. QED  BY <2>1, <2>2 DEF Init, IngestInit, Promise!Init, Promise!Pairs
<1>2. Init => SentInv
  BY DEF Init, IngestInit, SentInv
<1>3. Shape /\ SentInv /\ AtMostOneCopy /\ AckedMeansHandled' /\ TermedMeansRejected' /\ [Next]_vars
        => [Promise!Next]_Promise!vars
  BY StepSimulates
<1>. QED  BY <1>1, <1>2, <1>3, ShapeInit, ShapeNext, SentNext, StoredOnce, AckedHandled,
             TermedRejected, PTL DEF Spec, ImplementsMailbox, Promise!Spec
==============================================================================
