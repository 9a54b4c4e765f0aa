----------------------------- MODULE MailSystem ------------------------------
(***************************************************************************)
(* The workers, the API requests, the collectors of orphaned objects and   *)
(* MongoDB's TTL indexes on one store, and the properties the whole has.   *)
(***************************************************************************)
EXTENDS Ingest, MailApi, ObjectGC

vars == <<storeVars, ingestVars, apiVars, gcVars>>

Init == StoreInit /\ IngestInit /\ ApiInit /\ GcInit

\* The TTL index on messages.createdAt.  A message lives for message.ttl (168h
\* unless configured), the stream keeps a mail for MaxAge = 24h, so a document
\* does not expire while the queue may still deliver its mail.
PurgeMessage(o) ==
  /\ doc[o] # "none"
  /\ stream[o[1]] # "queued"
  /\ \A w \in Workers : job[w] # o[1]
  /\ \A n \in 1..MaxDeliver : <<o[1], n>> \notin flight
  /\ doc' = Removed({o})
  /\ UNCHANGED <<account, used, inline, obj, cleanup>>

StoreStep ==
  \/ \E a \in Accounts : ExpireAccount(a)
  \/ \E o \in Oids : RunCleanup(o) \/ PurgeMessage(o)

Next ==
  \/ IngestNext /\ UNCHANGED <<apiVars, gcVars>>
  \/ ApiNext /\ UNCHANGED <<ingestVars, gcVars>>
  \/ GcNext /\ UNCHANGED <<ingestVars, apiVars>>
  \/ StoreStep /\ UNCHANGED <<ingestVars, apiVars, gcVars>>

Spec == Init /\ [][Next]_vars

\* A worker that is not dead goes on: its calls carry deadlines or fail with
\* the connection.  JetStream delivers what is due and expires what is not
\* answered.  The ticker of objectGCLoop starts run after run, and time passes.
Fairness ==
  /\ \A w \in Workers : WF_vars(WorkerStep(w) /\ UNCHANGED <<apiVars, gcVars>>)
  /\ \A m \in Msgs :
       WF_vars((Deliver(m) \/ AckWaitExpires(m)) /\ UNCHANGED <<apiVars, gcVars>>)
  /\ \A g \in Collectors :
       WF_vars(CollectorStep(g) /\ UNCHANGED <<ingestVars, apiVars>>)
  /\ WF_vars(Tick /\ UNCHANGED <<ingestVars, apiVars>>)

FairSpec == Spec /\ Fairness

------------------------------------------------------------------------------
(***************************************************************************)
(* Type invariant.  accounts.used is a natural number: every writer of it  *)
(* (reservation, rollback, release, recalculation) keeps it so.            *)
(***************************************************************************)
TypeOK == StoreTypeOK /\ IngestTypeOK /\ ApiTypeOK /\ GcTypeOK

(***************************************************************************)
(* However often JetStream delivers a mail, and however its deliveries     *)
(* overlap in different workers, a mailbox holds at most one document for  *)
(* it: HasMessageByIngest is only a shortcut, the unique index decides.    *)
(***************************************************************************)
AtMostOneCopy ==
  \A m \in Msgs, a \in Accounts : \A n1, n2 \in 1..MaxDeliver :
    doc[<<m, a, n1>>] # "none" /\ doc[<<m, a, n2>>] # "none" => n1 = n2

(***************************************************************************)
(* Ack takes a mail out of the work queue, so processMessage may lead to   *)
(* it only when each recipient has been stored, by whatever delivery, or   *)
(* has failed permanently: a transient failure of one recipient must not   *)
(* hide behind the success of another.                                     *)
(***************************************************************************)
AckedMeansHandled ==
  \A m \in Msgs : stream[m] = "acked" =>
    \A a \in Rcpts[m] : <<m, a>> \in stored \cup rejected

(***************************************************************************)
(* Term gives a mail up: nothing in it could be decoded, or it failed      *)
(* permanently for every recipient.                                        *)
(***************************************************************************)
TermedMeansRejected ==
  \A m \in Msgs : stream[m] = "termed" =>
    \/ Content[m] = "undecodable"
    \/ \A a \in Rcpts[m] : <<m, a>> \in rejected

(***************************************************************************)
(* The bytes the workers hold reserved for an account: reserved before the *)
(* upload and neither committed by the insert nor rolled back yet.         *)
(***************************************************************************)
Holding(a) == {w \in Workers : rcpt[w] = a /\ pc[w] \in {"parse", "insert", "rollback"}}
HeldBytes(a) ==
  Cardinality(UNION {{w} \X (1..Size[job[w]]) : w \in Holding(a)})

(***************************************************************************)
(* accounts.used accounts for every undeleted message and every            *)
(* reservation in flight, so that the check against the quota in           *)
(* TryReserveAccountUsed is never made against too small a number.         *)
(***************************************************************************)
UsedCoversMail ==
  \A a \in Accounts : Exists(a) => used[a] >= Bytes(Live(a)) + HeldBytes(a)

(***************************************************************************)
(* The quota is a bound on the storage of an account: its undeleted        *)
(* messages never take more bytes than the quota allows.                   *)
(***************************************************************************)
LiveWithinQuota ==
  \A a \in Accounts : Quota[a] > 0 => Bytes(Live(a)) <= Quota[a]

(***************************************************************************)
(* An undeleted message can be downloaded: its raw source is in MinIO or,  *)
(* when the upload failed, in the document.  The objects removed after a   *)
(* duplicate or failed insert are never those of the stored document.      *)
(***************************************************************************)
LiveHasRaw == \A o \in Oids : doc[o] = "live" => o \in obj \cup inline

(***************************************************************************)
(* A collection deletes the objects of a stored message only if it looked  *)
(* for the message between the upload and the insert: never because its    *)
(* page, its answer from MongoDB or its place in the run was stale.        *)
(***************************************************************************)
OnlyExposedLoseRaw ==
  \A o \in Oids : doc[o] = "live" /\ o \notin exposed => o \in obj \cup inline

(***************************************************************************)
(* The lock keeps the runs of the collectors apart, because a run gives up *)
(* before its lock can expire.                                             *)
(***************************************************************************)
OneCollector ==
  \A g, h \in Collectors : Running(g) /\ Running(h) => g = h

(***************************************************************************)
(* DELETE /accounts/:id cascades: a deleted account has no messages.       *)
(***************************************************************************)
DeletedAccountHasNoMail ==
  \A a \in Accounts : account[a] = "deleted" => Documents(a) = {}

(***************************************************************************)
(* A mail in the queue does not stay there undecided: it is acked, termed  *)
(* or dropped, or it has used up its MaxDeliver deliveries, whatever       *)
(* answers are lost and whatever workers crash.                            *)
(***************************************************************************)
Exhausted(m) ==
  /\ delivered[m] = MaxDeliver
  /\ m \notin awaiting
  /\ \A n \in 1..MaxDeliver : <<m, n>> \notin flight
  /\ \A w \in Workers : job[w] # m

QueuedIsDecided ==
  \A m \in Msgs : stream[m] = "queued" ~> (stream[m] # "queued" \/ Exhausted(m))

(***************************************************************************)
(* The objects of deleted, expired and never stored messages do not stay   *)
(* for ever: the page, the cap on deletions and the cursor of the runs     *)
(* never leave out an object for good.                                     *)
(***************************************************************************)
Orphan(o) == o \in obj /\ doc[o] # "live"

OrphansReclaimed == \A o \in Oids : Orphan(o) ~> ~Orphan(o)

------------------------------------------------------------------------------
(***************************************************************************)
(* The mail system implements the mailbox it promises: the state of a      *)
(* mailbox entry is that of its only document.                             *)
(***************************************************************************)
BoxState(p) ==
  IF \E n \in 1..MaxDeliver : doc[<<p[1], p[2], n>>] = "live" THEN "live"
  ELSE IF \E n \in 1..MaxDeliver : doc[<<p[1], p[2], n>>] = "deleted" THEN "deleted"
  ELSE "absent"

MailState(m) ==
  IF stream[m] \in {"acked", "termed"} THEN "done" ELSE stream[m]

Promise == INSTANCE Mailbox WITH
  Garbled <- {m \in Msgs : Content[m] = "undecodable"},
  mail <- [m \in Msgs |-> MailState(m)],
  box <- [p \in Msgs \X Accounts |-> BoxState(p)],
  stored <- stored,
  refused <- rejected

\* Every step of the system is a step of the promised mailbox, or none: no
\* second copy, no deleted message that reappears, no mail that is finished
\* before each recipient has it or has been refused it.
ImplementsMailbox == Promise!Spec
==============================================================================
