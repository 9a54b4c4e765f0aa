------------------------------- MODULE Ingest --------------------------------
(***************************************************************************)
(* The way of an accepted mail from the JetStream work queue into the      *)
(* mailboxes of its recipients: the durable consumer "email-worker", the   *)
(* callback of Queue.Consume and Worker.processMessage with                *)
(* processForRecipient for each recipient in turn.                         *)
(*                                                                         *)
(* Each worker is a process that runs one callback at a time; the client   *)
(* library fetches deliveries ahead of it.  One action is one round trip   *)
(* to MongoDB, MinIO or JetStream together with the local computation that *)
(* leads to the next one.  The order in which the recipients are taken is  *)
(* left open.                                                              *)
(***************************************************************************)
EXTENDS MailStore

CONSTANT Workers

VARIABLES
  stream,     \* what became of each mail in the stream
  delivered,  \* metadata.NumDelivered of the last delivery, 0 before one
  awaiting,   \* mails with a delivery that is neither answered nor expired
  flight,     \* deliveries <<mail, number>> that wait in a client's buffer
  pc,         \* where each worker is
  job,        \* the mail it processes
  attempt,    \* the NumDelivered of the delivery it processes
  todo,       \* recipients the loop of processMessage has yet to take
  rcpt,       \* the recipient processForRecipient runs for
  total,      \* the sum RecalculateAccountUsed has read
  result,     \* what processForRecipient returns once deferred code has run
  transient,  \* transientErr # nil
  anyOk,      \* permanentFailures is below the number of recipients taken
  stored,     \* history: <<mail, account>> a document was ever inserted for
  rejected    \* history: <<mail, account>> that failed permanently

queueVars  == <<stream, delivered, awaiting, flight>>
workerVars == <<pc, job, attempt, todo, rcpt, total, result, transient, anyOk>>
ingestVars == <<queueVars, workerVars, stored, rejected>>

WorkerPCs == {"idle", "next", "dedup", "reserve", "aggregate", "writeBack",
              "reserveAgain", "parse", "insert", "rollback", "settle"}

IngestTypeOK ==
  /\ stream \in [Msgs -> {"unsent", "queued", "acked", "termed", "dropped"}]
  /\ delivered \in [Msgs -> 0..MaxDeliver]
  /\ awaiting \in SUBSET Msgs
  /\ flight \in SUBSET (Msgs \X (1..MaxDeliver))
  /\ pc \in [Workers -> WorkerPCs]
  /\ job \in [Workers -> Msgs \cup {None}]
  /\ attempt \in [Workers -> 0..MaxDeliver]
  /\ todo \in [Workers -> SUBSET Accounts]
  /\ rcpt \in [Workers -> Accounts \cup {None}]
  /\ total \in [Workers -> Nat]
  /\ result \in [Workers -> {"ok", "transient", "permanent"}]
  /\ transient \in [Workers -> BOOLEAN]
  /\ anyOk \in [Workers -> BOOLEAN]
  /\ stored \in SUBSET (Msgs \X Accounts)
  /\ rejected \in SUBSET (Msgs \X Accounts)

IngestInit ==
  /\ stream = [m \in Msgs |-> "unsent"]
  /\ delivered = [m \in Msgs |-> 0]
  /\ awaiting = {}
  /\ flight = {}
  /\ pc = [w \in Workers |-> "idle"]
  /\ job = [w \in Workers |-> None]
  /\ attempt = [w \in Workers |-> 0]
  /\ todo = [w \in Workers |-> {}]
  /\ rcpt = [w \in Workers |-> None]
  /\ total = [w \in Workers |-> 0]
  /\ result = [w \in Workers |-> "ok"]
  /\ transient = [w \in Workers |-> FALSE]
  /\ anyOk = [w \in Workers |-> FALSE]
  /\ stored = {}
  /\ rejected = {}

------------------------------------------------------------------------------
(***************************************************************************)
(* JetStream (external): a work-queue stream with explicit acks.           *)
(***************************************************************************)

\* Queue.Publish, called by Session.Data before it answers 250.
Publish(m) ==
  /\ stream[m] = "unsent"
  /\ stream' = [stream EXCEPT ![m] = "queued"]
  /\ UNCHANGED <<storeVars, delivered, awaiting, flight, workerVars, stored, rejected>>

\* The consumer fetches ahead: a delivery waits in the buffer of the client
\* library, and its AckWait runs, until the callback is free for it.
Deliver(m) ==
  /\ stream[m] = "queued"
  /\ m \notin awaiting
  /\ delivered[m] < MaxDeliver
  /\ delivered' = [delivered EXCEPT ![m] = @ + 1]
  /\ awaiting' = awaiting \cup {m}
  /\ flight' = flight \cup {<<m, delivered[m] + 1>>}
  /\ UNCHANGED <<storeVars, stream, workerVars, stored, rejected>>

\* A buffer is lost with its process.
LoseDelivery(m) ==
  /\ "crash" \in Faults
  /\ \E n \in 1..MaxDeliver : <<m, n>> \in flight /\ flight' = flight \ {<<m, n>>}
  /\ UNCHANGED <<storeVars, stream, delivered, awaiting, workerVars, stored, rejected>>

\* AckWait passes without an answer, because the delivery was lost, still waits
\* in a buffer, or is being processed: the heartbeat that InProgress sends is
\* best effort and never more frequent than every 5 seconds, whatever AckWait is.
AckWaitExpires(m) ==
  /\ m \in awaiting
  /\ awaiting' = awaiting \ {m}
  /\ UNCHANGED <<storeVars, stream, delivered, flight, workerVars, stored, rejected>>

\* MaxAge of the stream, the only way out for a mail delivered MaxDeliver times.
AgeOut(m) ==
  /\ stream[m] = "queued"
  /\ stream' = [stream EXCEPT ![m] = "dropped"]
  /\ awaiting' = awaiting \ {m}
  /\ UNCHANGED <<storeVars, delivered, flight, workerVars, stored, rejected>>

------------------------------------------------------------------------------
(***************************************************************************)
(* The worker.                                                             *)
(***************************************************************************)
Goto(w, label) == pc' = [pc EXCEPT ![w] = label]

Oid(w) == <<job[w], rcpt[w], attempt[w]>>

\* Mutant: the loop stays at the recipient it has just handled.
ReturnWithoutAdvancing(w, a, r) ==
  /\ Goto(w, "next")
  /\ rcpt' = [rcpt EXCEPT ![w] = None]
  /\ total' = [total EXCEPT ![w] = 0]
  /\ result' = [result EXCEPT ![w] = "ok"]
  /\ transient' = [transient EXCEPT ![w] = @ \/ r = "transient"]
  /\ anyOk' = [anyOk EXCEPT ![w] = @ \/ r = "ok"]
  /\ UNCHANGED <<job, attempt, todo, rejected>>

\* processForRecipient returns r for account a and the loop moves on.
Return(w, a, r) ==
  /\ Goto(w, "next")
  /\ todo' = [todo EXCEPT ![w] = @ \ {a}]
  /\ rcpt' = [rcpt EXCEPT ![w] = None]
  /\ total' = [total EXCEPT ![w] = 0]
  /\ result' = [result EXCEPT ![w] = "ok"]
  /\ transient' = [transient EXCEPT ![w] = @ \/ r = "transient"]
  /\ anyOk' = [anyOk EXCEPT ![w] = @ \/ r = "ok"]
  /\ rejected' = IF r = "permanent" THEN rejected \cup {<<job[w], a>>} ELSE rejected
  /\ UNCHANGED <<job, attempt>>

\* Control moves to label with the recipient unchanged.
Proceed(w, label) ==
  /\ Goto(w, label)
  /\ UNCHANGED <<job, attempt, todo, rcpt, total, result, transient, anyOk, rejected>>

\* The rest of processForRecipient is its deferred rollback, then returns r.
Abort(w, r) ==
  /\ Goto(w, "rollback")
  /\ result' = [result EXCEPT ![w] = r]
  /\ UNCHANGED <<job, attempt, todo, rcpt, total, transient, anyOk, rejected>>

\* The Consume callback starts for the n-th delivery of m.  A payload that cannot be
\* decoded is answered with Term; a mail without recipients fails permanently.
Receive(w, m, n) ==
  /\ pc[w] = "idle"
  /\ <<m, n>> \in flight
  /\ flight' = flight \ {<<m, n>>}
  /\ job' = [job EXCEPT ![w] = m]
  /\ attempt' = [attempt EXCEPT ![w] = n]
  /\ \/ /\ Content[m] = "undecodable"
        /\ Goto(w, "settle")
        /\ UNCHANGED todo
     \/ /\ Content[m] # "undecodable"
        /\ Goto(w, "next")
        /\ todo' = [todo EXCEPT ![w] = Rcpts[m]]
  /\ UNCHANGED <<storeVars, stream, delivered, awaiting, rcpt, total, result,
                 transient, anyOk, stored, rejected>>

\* The next recipient: GetAccountIDByAddress.
LookupAccount(w, a) ==
  /\ pc[w] = "next"
  /\ a \in todo[w]
  /\ \/ /\ Exists(a)
        /\ Goto(w, "dedup")
        /\ rcpt' = [rcpt EXCEPT ![w] = a]
        /\ UNCHANGED <<job, attempt, todo, total, result, transient, anyOk, rejected>>
     \/ ~Exists(a) /\ Return(w, a, "permanent")
     \/ "error" \in Faults /\ Return(w, a, "transient")
  /\ UNCHANGED <<storeVars, queueVars, stored>>

CheckIngested(w) ==
  /\ pc[w] = "dedup"
  /\ \/ HasMessageByIngest(job[w], rcpt[w]) /\ Return(w, rcpt[w], "ok")
     \/ ~HasMessageByIngest(job[w], rcpt[w]) /\ Proceed(w, "reserve")
     \/ "error" \in Faults /\ Return(w, rcpt[w], "transient")
  /\ UNCHANGED <<storeVars, queueVars, stored>>

\* TryReserveAccountUsed, first call (from "reserve") and second call, after
\* the recalculation (from "reserveAgain").  An error leaves reserved = false,
\* so an increment that was applied all the same is not rolled back.
Reserve(w) ==
  LET a == rcpt[w]
      delta == Size[job[w]]
  IN  /\ pc[w] \in {"reserve", "reserveAgain"}
      /\ \/ /\ QuotaFits(a, delta)
            /\ used' = UsedPlus(a, delta)
            /\ Proceed(w, "parse")
         \/ /\ ~QuotaFits(a, delta)
            /\ pc[w] = "reserve"
            /\ Proceed(w, "aggregate")
            /\ UNCHANGED used
         \/ /\ ~QuotaFits(a, delta)
            /\ pc[w] = "reserveAgain"
            /\ Return(w, a, "permanent")
            /\ UNCHANGED used
         \/ /\ "error" \in Faults
            /\ delta > 0
            /\ Return(w, a, "transient")
            /\ UNCHANGED used
         \/ /\ "ambiguous" \in Faults
            /\ delta > 0
            /\ QuotaFits(a, delta)
            /\ used' = UsedPlus(a, delta)
            /\ Return(w, a, "transient")
      /\ UNCHANGED <<account, doc, inline, obj, cleanup, queueVars, stored>>

\* RecalculateAccountUsed, first round trip: sum the undeleted messages.
Aggregate(w) ==
  /\ pc[w] = "aggregate"
  /\ \/ /\ Goto(w, "writeBack")
        /\ total' = [total EXCEPT ![w] = Bytes(Live(rcpt[w]))]
        /\ UNCHANGED <<job, attempt, todo, rcpt, result, transient, anyOk, rejected>>
     \/ "error" \in Faults /\ Proceed(w, "reserveAgain")
  /\ UNCHANGED <<storeVars, queueVars, stored>>

\* RecalculateAccountUsed, second round trip: write the sum back.
WriteBack(w) ==
  /\ pc[w] = "writeBack"
  /\ Goto(w, "reserveAgain")
  /\ total' = [total EXCEPT ![w] = 0]
  /\ \/ used' = UsedSet(rcpt[w], total[w])
     \/ "error" \in Faults /\ UNCHANGED used
  /\ UNCHANGED <<account, doc, inline, obj, cleanup, queueVars, stored,
                 job, attempt, todo, rcpt, result, transient, anyOk, rejected>>

\* Mutant: the error of the upload is only logged.
ForgetRawSource(o) == UNCHANGED inline

\* A raw source MinIO does not take travels in the document instead.
KeepRawInline(o) == inline' = inline \cup {o}

\* CreateReader, the upload of the raw source and the loop over MIME parts.
ParseAndUpload(w) ==
  /\ pc[w] = "parse"
  /\ \/ /\ Content[job[w]] = "badMime"
        /\ Abort(w, "permanent")
        /\ UNCHANGED <<obj, inline>>
     \/ /\ Content[job[w]] = "ok"
        /\ Proceed(w, "insert")
        /\ \/ obj' = obj \cup {Oid(w)} /\ UNCHANGED inline
           \/ /\ "upload" \in Faults
              /\ KeepRawInline(Oid(w))
              /\ obj' \in {obj, obj \cup {Oid(w)}}
  /\ UNCHANGED <<account, used, doc, cleanup, queueVars, stored>>

\* A panic, before or after the upload, unwinds through the deferred rollback into
\* the recover of the callback, which answers NakWithDelay: the other recipients
\* are skipped.
Panic(w) ==
  /\ "panic" \in Faults
  /\ pc[w] = "parse"
  /\ Goto(w, "rollback")
  /\ result' = [result EXCEPT ![w] = "transient"]
  /\ todo' = [todo EXCEPT ![w] = {rcpt[w]}]
  /\ obj' \in {obj, obj \cup {Oid(w)}}
  /\ UNCHANGED <<account, used, doc, inline, cleanup, queueVars, stored, rejected,
                 job, attempt, rcpt, total, transient, anyOk>>

\* committed = true: the deferred function keeps the reservation.
Commit(w) == Return(w, rcpt[w], "ok")

\* CreateMessage.  On success the SSE event is published, which leaves no
\* state behind.  Every error schedules the removal of the uploaded objects
\* and rolls the reservation back; a duplicate key counts as success.
Insert(w) ==
  LET o == Oid(w)
  IN  /\ pc[w] = "insert"
      /\ \/ /\ IngestKeyFree(o)
            /\ doc' = [doc EXCEPT ![o] = "live"]
            /\ stored' = stored \cup {<<job[w], rcpt[w]>>}
            /\ Commit(w)
            /\ UNCHANGED cleanup
         \/ /\ ~IngestKeyFree(o)
            /\ TryAsyncStorageCleanup({o})
            /\ Abort(w, "ok")
            /\ UNCHANGED <<doc, stored>>
         \/ /\ "error" \in Faults
            /\ TryAsyncStorageCleanup({o})
            /\ Abort(w, "transient")
            /\ UNCHANGED <<doc, stored>>
         \/ /\ "ambiguous" \in Faults
            /\ IngestKeyFree(o)
            /\ doc' = [doc EXCEPT ![o] = "live"]
            /\ stored' = stored \cup {<<job[w], rcpt[w]>>}
            /\ TryAsyncStorageCleanup({o})
            /\ Abort(w, "transient")
      /\ UNCHANGED <<account, used, inline, obj, queueVars>>

\* The deferred UpdateAccountUsed(-delta); its error is ignored.
Rollback(w) ==
  /\ pc[w] = "rollback"
  /\ \/ used' = UsedMinus(rcpt[w], Size[job[w]])
     \/ "error" \in Faults /\ UNCHANGED used
  /\ Return(w, rcpt[w], result[w])
  /\ UNCHANGED <<account, doc, inline, obj, cleanup, queueVars, stored>>

\* Mutant: one recipient that went well settles the mail.
AnswerAnyOk(w) == IF anyOk[w] THEN "ack" ELSE IF transient[w] THEN "nak" ELSE "term"

\* Mutant: no recipient went well, so the mail is taken to have failed for good.
AnswerNoneOk(w) == IF ~anyOk[w] THEN "term" ELSE IF transient[w] THEN "nak" ELSE "ack"

\* How the callback answers: NakWithDelay, Term or Ack.
Answer(w) == IF transient[w] THEN "nak" ELSE IF anyOk[w] THEN "ack" ELSE "term"

BecomeIdle(w) ==
  /\ Goto(w, "idle")
  /\ job' = [job EXCEPT ![w] = None]
  /\ attempt' = [attempt EXCEPT ![w] = 0]
  /\ todo' = [todo EXCEPT ![w] = {}]
  /\ rcpt' = [rcpt EXCEPT ![w] = None]
  /\ total' = [total EXCEPT ![w] = 0]
  /\ result' = [result EXCEPT ![w] = "ok"]
  /\ transient' = [transient EXCEPT ![w] = FALSE]
  /\ anyOk' = [anyOk EXCEPT ![w] = FALSE]

\* JetStream takes an answer from whichever delivery it comes.  An answer that
\* is lost is never repeated: errors of Ack, Nak and Term are discarded.
Settle(w) ==
  /\ \/ pc[w] = "settle"
     \/ pc[w] = "next" /\ todo[w] = {}
  /\ BecomeIdle(w)
  /\ \/ /\ stream[job[w]] = "queued"
        /\ awaiting' = awaiting \ {job[w]}
        /\ stream' = [stream EXCEPT ![job[w]] =
                        CASE Answer(w) = "ack"  -> "acked"
                          [] Answer(w) = "term" -> "termed"
                          [] Answer(w) = "nak"  -> "queued"]
     \/ /\ "ack" \in Faults \/ stream[job[w]] # "queued"
        /\ UNCHANGED <<stream, awaiting>>
  /\ UNCHANGED <<storeVars, delivered, flight, stored, rejected>>

\* The process dies; what it had reserved or uploaded stays behind.
Crash(w) ==
  /\ "crash" \in Faults
  /\ pc[w] # "idle"
  /\ BecomeIdle(w)
  /\ UNCHANGED <<storeVars, queueVars, stored, rejected>>

WorkerStep(w) ==
  \/ \E m \in Msgs, n \in 1..MaxDeliver : Receive(w, m, n)
  \/ \E a \in Accounts : LookupAccount(w, a)
  \/ CheckIngested(w)
  \/ Reserve(w)
  \/ Aggregate(w)
  \/ WriteBack(w)
  \/ ParseAndUpload(w)
  \/ Panic(w)
  \/ Insert(w)
  \/ Rollback(w)
  \/ Settle(w)

QueueStep(m) ==
  \/ Publish(m)
  \/ Deliver(m)
  \/ LoseDelivery(m)
  \/ AckWaitExpires(m)
  \/ AgeOut(m)

IngestNext ==
  \/ \E w \in Workers : WorkerStep(w) \/ Crash(w)
  \/ \E m \in Msgs : QueueStep(m)
==============================================================================
