------------------------------ MODULE MailStore ------------------------------
(***************************************************************************)
(* The persistent state shared by the worker, API and SMTP processes and   *)
(* the atomic operations internal/store and internal/storage offer on it.  *)
(* Every operation here is one round trip to MongoDB or MinIO, so it is    *)
(* atomic; a Go method that makes two round trips is two operations here,  *)
(* and the processes that call it may be interleaved between them.         *)
(*                                                                         *)
(* A message document is identified by an object id.  The worker draws a   *)
(* fresh id in every attempt to store one delivery of a queued mail for    *)
(* one recipient, so the triple <<mail, account, delivery number>> names   *)
(* the id (bson.NewObjectID never repeats one).  The same id is the key    *)
(* prefix of the raw source and attachments in MinIO.                      *)
(***************************************************************************)
EXTENDS Integers, FiniteSets

CONSTANTS
  Msgs,         \* mails the SMTP server accepts; a member stands for the
                \* pair (IngestStream, IngestSeq) JetStream assigns to it
  Accounts,     \* mail accounts; a member stands for id and address
  Rcpts,        \* Rcpts[m]: the set of accounts in the envelope of m
  Size,         \* Size[m]: len(RawMessage)
  Quota,        \* Quota[a]: the account's quota, <= 0 for unlimited
  Content,      \* Content[m]: can the payload be decoded and parsed
  MaxDeliver,   \* nats.consumerMaxDeliver
  Faults,       \* the environment's faults that a model admits
  None          \* no mail, no account

ASSUME StoreAssumption ==
  /\ IsFiniteSet(Msgs)
  /\ IsFiniteSet(Accounts)
  /\ Rcpts \in [Msgs -> SUBSET Accounts]
  /\ Size \in [Msgs -> Nat]
  /\ Quota \in [Accounts -> Int]
  /\ Content \in [Msgs -> {"ok", "badMime", "undecodable"}]
  /\ MaxDeliver \in Nat \ {0}
  /\ None \notin Msgs
  /\ None \notin Accounts

(***************************************************************************)
(* error: a call fails without effect.  ambiguous: an insert or a          *)
(* reservation is applied but the caller sees an error (a timeout, or a    *)
(* context cancelled at shutdown).  partial: the same for a removal, which *)
(* may have reached some of its documents only.  upload: MinIO refuses an  *)
(* upload.  panic: the MIME parser panics.  crash: a process dies.  ack:   *)
(* an ack, nak or term is lost.                                            *)
(***************************************************************************)
FaultKinds == {"error", "ambiguous", "partial", "upload", "panic", "crash", "ack"}

VARIABLES
  account,  \* "active", "expired" by the TTL index, or "deleted" by its owner
  used,     \* accounts.used
  doc,      \* the documents of the messages collection, by object id
  inline,   \* ids whose document carries the raw source itself
  obj,      \* ids whose raw source is in MinIO
  cleanup   \* ids whose objects a background goroutine is about to delete

storeVars == <<account, used, doc, inline, obj, cleanup>>

Oids == Msgs \X Accounts \X (1..MaxDeliver)

StoreTypeOK ==
  /\ account \in [Accounts -> {"active", "expired", "deleted"}]
  /\ used \in [Accounts -> Nat]
  /\ doc \in [Oids -> {"none", "live", "deleted"}]
  /\ inline \in SUBSET Oids
  /\ obj \in SUBSET Oids
  /\ cleanup \in SUBSET Oids

StoreInit ==
  /\ account = [a \in Accounts |-> "active"]
  /\ used = [a \in Accounts |-> 0]
  /\ doc = [o \in Oids |-> "none"]
  /\ inline = {}
  /\ obj = {}
  /\ cleanup = {}

Exists(a) == account[a] = "active"

(***************************************************************************)
(* Queries.  Read paths filter isDeleted = false; the ingest lookup does   *)
(* not, so a soft-deleted document still answers it.                       *)
(***************************************************************************)
Documents(a) == {o \in Oids : o[2] = a /\ doc[o] # "none"}
Live(a) == {o \in Oids : o[2] = a /\ doc[o] = "live"}

\* Mutant: the ingest lookup and the index skip soft-deleted documents.
HasMessageByIngestLive(m, a) ==
  \E n \in 1..MaxDeliver : doc[<<m, a, n>>] = "live"

HasMessageByIngest(m, a) == \E n \in 1..MaxDeliver : doc[<<m, a, n>>] # "none"

\* The number of bytes in the messages of S: the sum of their sizes.
Bytes(S) == Cardinality(UNION {{o} \X (1..Size[o[1]]) : o \in S})

(***************************************************************************)
(* Account writes, as the new value of used.  An update whose filter       *)
(* matches no account changes nothing and is no error.                     *)
(***************************************************************************)
\* Mutant: the message itself is left out of the comparison.
QuotaFitsBefore(a, delta) ==
  Exists(a) /\ (Quota[a] <= 0 \/ used[a] < Quota[a])

QuotaFits(a, delta) ==
  \/ delta = 0
  \/ /\ Exists(a)
     /\ Quota[a] <= 0 \/ used[a] + delta <= Quota[a]

UsedPlus(a, delta) == [used EXCEPT ![a] = @ + delta]

\* Mutant: a plain $inc, without $max(0, ...).
UsedMinusUnclamped(a, delta) ==
  IF Exists(a) THEN [used EXCEPT ![a] = @ - delta] ELSE used

UsedMinus(a, delta) ==
  IF Exists(a)
    THEN [used EXCEPT ![a] = IF @ > delta THEN @ - delta ELSE 0]
    ELSE used

UsedSet(a, bytes) == IF Exists(a) THEN [used EXCEPT ![a] = bytes] ELSE used

(***************************************************************************)
(* The unique partial index {accountId, ingestStream, ingestSeq} decides   *)
(* whether an insert is a duplicate; it covers soft-deleted documents too. *)
(***************************************************************************)
\* Mutant: the index is missing.
IngestKeyAlwaysFree(o) == TRUE

IngestKeyFree(o) == ~HasMessageByIngest(o[1], o[2])

SoftDeleted(S) == [o \in Oids |-> IF o \in S /\ doc[o] # "none"
                                    THEN "deleted" ELSE doc[o]]
Removed(S) == [o \in Oids |-> IF o \in S THEN "none" ELSE doc[o]]

(***************************************************************************)
(* tryAsyncStorageCleanup takes a slot of a semaphore and deletes in a     *)
(* goroutine, or skips the id when no slot is free.                        *)
(***************************************************************************)
TryAsyncStorageCleanup(S) == \E T \in SUBSET S : cleanup' = cleanup \cup T

\* The goroutine deletes everything under the id's prefix, or fails.
RunCleanup(o) ==
  /\ o \in cleanup
  /\ cleanup' = cleanup \ {o}
  /\ \/ obj' = obj \ {o}
     \/ "error" \in Faults /\ obj' = obj
  /\ UNCHANGED <<account, used, doc, inline>>

\* The TTL index on accounts.createdAt; messages are left to their own index.
ExpireAccount(a) ==
  /\ Exists(a)
  /\ account' = [account EXCEPT ![a] = "expired"]
  /\ UNCHANGED <<used, doc, inline, obj, cleanup>>
==============================================================================
