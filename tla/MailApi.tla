------------------------------- MODULE MailApi -------------------------------
(***************************************************************************)
(* The REST handlers that remove mail: DELETE /messages/:id, the two bulk  *)
(* deletions and DELETE /accounts/:id.  A client stands for one request in *)
(* progress in some API process; requests of the same account holder may   *)
(* run concurrently.  One action is one round trip to MongoDB.             *)
(*                                                                         *)
(* A bulk deletion starts a goroutine that recalculates accounts.used      *)
(* after the response.  Each client has one slot for that goroutine, and   *)
(* starts no other bulk deletion while the slot is taken.                  *)
(***************************************************************************)
EXTENDS MailStore

CONSTANTS
  Clients,
  Ops           \* the requests a model admits, a subset of Requests

Requests == {"delete", "bulk", "deleteAccount"}

VARIABLES
  cpc,     \* where the handler is
  cacct,   \* the account of the request
  found,   \* the messages the handler has read from MongoDB so far
  batch,   \* the ones of the last Find of a bulk deletion
  rpc,     \* where the recalculating goroutine is
  racct,   \* its account
  rsum     \* the sum it has read

apiVars == <<cpc, cacct, found, batch, rpc, racct, rsum>>

ClientPCs == {"idle", "softDelete", "release", "bulkFind", "bulkUpdate",
              "bulkRelease", "eraseFind", "eraseMany", "eraseAccount"}

ApiTypeOK ==
  /\ cpc \in [Clients -> ClientPCs]
  /\ cacct \in [Clients -> Accounts \cup {None}]
  /\ found \in [Clients -> SUBSET Oids]
  /\ batch \in [Clients -> SUBSET Oids]
  /\ rpc \in [Clients -> {"idle", "aggregate", "write"}]
  /\ racct \in [Clients -> Accounts \cup {None}]
  /\ rsum \in [Clients -> Nat]

ApiInit ==
  /\ cpc = [c \in Clients |-> "idle"]
  /\ cacct = [c \in Clients |-> None]
  /\ found = [c \in Clients |-> {}]
  /\ batch = [c \in Clients |-> {}]
  /\ rpc = [c \in Clients |-> "idle"]
  /\ racct = [c \in Clients |-> None]
  /\ rsum = [c \in Clients |-> 0]

recalcVars == <<rpc, racct, rsum>>

At(c, label) == cpc' = [cpc EXCEPT ![c] = label]

Begin(c, label, a, S) ==
  /\ cpc[c] = "idle"
  /\ At(c, label)
  /\ cacct' = [cacct EXCEPT ![c] = a]
  /\ found' = [found EXCEPT ![c] = S]

Respond(c) ==
  /\ At(c, "idle")
  /\ cacct' = [cacct EXCEPT ![c] = None]
  /\ found' = [found EXCEPT ![c] = {}]
  /\ batch' = [batch EXCEPT ![c] = {}]

------------------------------------------------------------------------------
(***************************************************************************)
(* DELETE /messages/:id                                                    *)
(***************************************************************************)

\* Mutant: GetMessageMeta finds soft-deleted messages too.
GetMetaUnfiltered(c, o) ==
  /\ "delete" \in Ops
  /\ doc[o] # "none"
  /\ Begin(c, "softDelete", o[2], {o})
  /\ UNCHANGED <<storeVars, batch, recalcVars>>

\* GetMessageMeta, which finds undeleted messages only.
GetMeta(c, o) ==
  /\ "delete" \in Ops
  /\ doc[o] = "live"
  /\ Begin(c, "softDelete", o[2], {o})
  /\ UNCHANGED <<storeVars, batch, recalcVars>>

\* store.DeleteMessage, whose filter names the id and nothing else.
SoftDelete(c) ==
  /\ cpc[c] = "softDelete"
  /\ \/ /\ \A o \in found[c] : doc[o] # "none"
        /\ doc' = SoftDeleted(found[c])
        /\ At(c, "release")
        /\ UNCHANGED <<cacct, found, batch>>
     \/ /\ "error" \in Faults \/ \A o \in found[c] : doc[o] = "none"
        /\ Respond(c)
        /\ UNCHANGED doc
     \/ /\ "partial" \in Faults
        /\ doc' = SoftDeleted(found[c])
        /\ Respond(c)
  /\ UNCHANGED <<account, used, inline, obj, cleanup, recalcVars>>

\* UpdateAccountUsed(-size), best effort, and the asynchronous clean-up.
Release(c) ==
  /\ cpc[c] = "release"
  /\ \/ used' = UsedMinus(cacct[c], Bytes(found[c]))
     \/ "error" \in Faults /\ UNCHANGED used
  /\ TryAsyncStorageCleanup(found[c])
  /\ Respond(c)
  /\ UNCHANGED <<account, doc, inline, obj, recalcVars>>

------------------------------------------------------------------------------
(***************************************************************************)
(* DELETE /messages and POST /messages/bulk-delete: batches of Find and    *)
(* UpdateMany, then one release for everything that was found.             *)
(***************************************************************************)
StartBulk(c, a) ==
  /\ "bulk" \in Ops
  /\ rpc[c] = "idle"
  /\ Begin(c, "bulkFind", a, {})
  /\ UNCHANGED <<storeVars, batch, recalcVars>>

\* Find with the seen filter and the limit, or the ids of the request: some
\* undeleted messages, or none (the limit is reached or nothing is left).
BulkFind(c) ==
  /\ cpc[c] = "bulkFind"
  /\ \/ \E S \in SUBSET Live(cacct[c]) \ {{}} :
          /\ batch' = [batch EXCEPT ![c] = S]
          /\ found' = [found EXCEPT ![c] = @ \cup S]
          /\ At(c, "bulkUpdate")
          /\ UNCHANGED cacct
     \/ /\ found[c] # {}
        /\ At(c, "bulkRelease")
        /\ UNCHANGED <<cacct, found, batch>>
     \/ /\ "error" \in Faults \/ found[c] = {}
        /\ Respond(c)
  /\ UNCHANGED <<storeVars, recalcVars>>

\* An error here gives up what earlier batches have deleted: no release.
BulkUpdate(c) ==
  /\ cpc[c] = "bulkUpdate"
  /\ \/ /\ doc' = SoftDeleted(batch[c])
        /\ batch' = [batch EXCEPT ![c] = {}]
        /\ At(c, "bulkFind")
        /\ UNCHANGED <<cacct, found>>
     \/ /\ "error" \in Faults
        /\ Respond(c)
        /\ UNCHANGED doc
     \/ /\ "partial" \in Faults
        /\ \E S \in SUBSET batch[c] : doc' = SoftDeleted(S)
        /\ Respond(c)
  /\ UNCHANGED <<account, used, inline, obj, cleanup, recalcVars>>

BulkRelease(c) ==
  /\ cpc[c] = "bulkRelease"
  /\ \/ used' = UsedMinus(cacct[c], Bytes(found[c]))
     \/ "error" \in Faults /\ UNCHANGED used
  /\ rpc' = [rpc EXCEPT ![c] = "aggregate"]
  /\ racct' = [racct EXCEPT ![c] = cacct[c]]
  /\ TryAsyncStorageCleanup(found[c])
  /\ Respond(c)
  /\ UNCHANGED <<account, doc, inline, obj, rsum>>

RecalcDone(c) ==
  /\ rpc' = [rpc EXCEPT ![c] = "idle"]
  /\ racct' = [racct EXCEPT ![c] = None]
  /\ rsum' = [rsum EXCEPT ![c] = 0]

\* RecalculateAccountUsed in its own goroutine: read the sum, ...
RecalcAggregate(c) ==
  /\ rpc[c] = "aggregate"
  /\ \/ /\ rpc' = [rpc EXCEPT ![c] = "write"]
        /\ rsum' = [rsum EXCEPT ![c] = Bytes(Live(racct[c]))]
        /\ UNCHANGED racct
     \/ "error" \in Faults /\ RecalcDone(c)
  /\ UNCHANGED <<storeVars, cpc, cacct, found, batch>>

\* ... then write it.
RecalcWrite(c) ==
  /\ rpc[c] = "write"
  /\ \/ used' = UsedSet(racct[c], rsum[c])
     \/ "error" \in Faults /\ UNCHANGED used
  /\ RecalcDone(c)
  /\ UNCHANGED <<account, doc, inline, obj, cleanup, cpc, cacct, found, batch>>

------------------------------------------------------------------------------
(***************************************************************************)
(* DELETE /accounts/:id: the messages first, the account last.             *)
(***************************************************************************)
GetAccount(c, a) ==
  /\ "deleteAccount" \in Ops
  /\ Exists(a)
  /\ Begin(c, "eraseFind", a, {})
  /\ UNCHANGED <<storeVars, batch, recalcVars>>

\* HardDeleteMessagesByAccount, first round trip.
EraseFind(c) ==
  /\ cpc[c] = "eraseFind"
  /\ \/ /\ found' = [found EXCEPT ![c] = Documents(cacct[c])]
        /\ At(c, "eraseMany")
     \/ /\ "error" \in Faults
        /\ At(c, "eraseAccount")
        /\ UNCHANGED found
  /\ UNCHANGED <<storeVars, cacct, batch, recalcVars>>

\* Second round trip: whatever the account has by now.  An error is skipped.
EraseMany(c) ==
  /\ cpc[c] = "eraseMany"
  /\ At(c, "eraseAccount")
  /\ \/ /\ doc' = Removed(Documents(cacct[c]))
        /\ TryAsyncStorageCleanup(found[c])
     \/ "error" \in Faults /\ UNCHANGED <<doc, cleanup>>
     \/ /\ "partial" \in Faults
        /\ \E S \in SUBSET Documents(cacct[c]) : doc' = Removed(S)
        /\ UNCHANGED cleanup
  /\ UNCHANGED <<account, used, inline, obj, cacct, found, batch, recalcVars>>

EraseAccount(c) ==
  /\ cpc[c] = "eraseAccount"
  /\ \/ /\ Exists(cacct[c])
        /\ account' = [account EXCEPT ![cacct[c]] = "deleted"]
     \/ /\ "error" \in Faults \/ ~Exists(cacct[c])
        /\ UNCHANGED account
  /\ Respond(c)
  /\ UNCHANGED <<used, doc, inline, obj, cleanup, recalcVars>>

\* The API process dies, and with it the request and its goroutine.
ApiCrash(c) ==
  /\ "crash" \in Faults
  /\ cpc[c] # "idle" \/ rpc[c] # "idle"
  /\ Respond(c)
  /\ RecalcDone(c)
  /\ UNCHANGED storeVars

ApiNext ==
  \E c \in Clients :
    \/ \E o \in Oids : GetMeta(c, o)
    \/ SoftDelete(c)
    \/ Release(c)
    \/ \E a \in Accounts : StartBulk(c, a) \/ GetAccount(c, a)
    \/ BulkFind(c)
    \/ BulkUpdate(c)
    \/ BulkRelease(c)
    \/ RecalcAggregate(c)
    \/ RecalcWrite(c)
    \/ EraseFind(c)
    \/ EraseMany(c)
    \/ EraseAccount(c)
    \/ ApiCrash(c)
==============================================================================
