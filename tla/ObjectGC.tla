------------------------------ MODULE ObjectGC -------------------------------
(***************************************************************************)
(* The collection of orphaned objects: every worker process runs           *)
(* objectGCLoop, which takes a lock in Redis, lists a page of the objects  *)
(* in MinIO, asks MongoDB which of their messages exist and deletes the    *)
(* objects of the others.                                                  *)
(*                                                                         *)
(* A message prefix counts as one object.  Time passes in ticks, which     *)
(* wear down the lock and the time budget of a run.                        *)
(***************************************************************************)
EXTENDS MailStore

CONSTANTS
  Collectors,   \* the processes that run objectGCLoop
  Rank,         \* Rank[o]: the place of o in the order of object keys
  PageSize,     \* objects listed in one run (20000)
  MaxDeletes,   \* prefixes deleted in one run (200)
  LockTTL,      \* life of the lock (10 minutes)
  RunBudget,    \* time after which a run gives up (8 minutes)
  MaxFailures   \* bound: how often calls, processes or runs may fail

ASSUME CollectorAssumption ==
  /\ Rank \in [Oids -> Nat \ {0}]
  /\ \A o, p \in Oids : Rank[o] = Rank[p] => o = p
  /\ PageSize \in Nat \ {0}
  /\ MaxDeletes \in Nat \ {0}
  /\ LockTTL \in Nat
  /\ RunBudget \in Nat
  /\ RunBudget < LockTTL
  /\ MaxFailures \in Nat
  /\ None \notin Collectors

VARIABLES
  lock,      \* whose value is under mailapi:objgc:lock, or None
  ttl,       \* ticks until Redis drops the lock
  gpc,       \* where each collector is
  cursor,    \* objGCStartAfter: the rank after which the next run lists
  page,      \* the ids the run has listed
  doomed,    \* those it is still going to delete
  deletedMsgs,
  elapsed,   \* ticks since the run began
  failures,  \* how often something has failed
  exposed    \* history: ids without a document when a run looked for them

gcVars == <<lock, ttl, gpc, cursor, page, doomed, deletedMsgs, elapsed,
            failures, exposed>>

CollectorPCs == {"idle", "list", "check", "delete", "unlock"}

GcTypeOK ==
  /\ lock \in Collectors \cup {None}
  /\ ttl \in 0..LockTTL
  /\ gpc \in [Collectors -> CollectorPCs]
  /\ cursor \in [Collectors -> Nat]
  /\ page \in [Collectors -> SUBSET Oids]
  /\ doomed \in [Collectors -> SUBSET Oids]
  /\ deletedMsgs \in [Collectors -> Nat]
  /\ elapsed \in [Collectors -> 0..RunBudget]
  /\ failures \in 0..MaxFailures
  /\ exposed \in SUBSET Oids

GcInit ==
  /\ lock = None
  /\ ttl = 0
  /\ gpc = [g \in Collectors |-> "idle"]
  /\ cursor = [g \in Collectors |-> 0]
  /\ page = [g \in Collectors |-> {}]
  /\ doomed = [g \in Collectors |-> {}]
  /\ deletedMsgs = [g \in Collectors |-> 0]
  /\ elapsed = [g \in Collectors |-> 0]
  /\ failures = 0
  /\ exposed = {}

Running(g) == gpc[g] \in {"list", "check", "delete"}

\* Mutant: no context bounds the run as a whole.
NeverOutOfTime(g) == FALSE

\* runCtx has expired: the contexts of all calls of the run derive from it.
OutOfTime(g) == Running(g) /\ elapsed[g] = RunBudget

Fail == failures < MaxFailures /\ failures' = failures + 1

StepTo(g, label) ==
  /\ Running(g)
  /\ ~OutOfTime(g)
  /\ gpc' = [gpc EXCEPT ![g] = label]
  /\ UNCHANGED <<account, used, doc, inline, cleanup, lock, ttl, elapsed>>

\* SETNX.  When its reply is lost the lock stays although no run begins.
Acquire(g) ==
  /\ gpc[g] = "idle"
  /\ lock = None
  /\ lock' = g
  /\ ttl' = LockTTL
  /\ \/ gpc' = [gpc EXCEPT ![g] = "list"] /\ UNCHANGED failures
     \/ Fail /\ UNCHANGED gpc
  /\ UNCHANGED <<storeVars, cursor, page, doomed, deletedMsgs, elapsed, exposed>>

After(r) == {o \in obj : Rank[o] > r}
Before(S, o) == {p \in S : Rank[p] < Rank[o]}

\* Mutant: the cursor stays where the listing ended.
KeepCursor(r) == r

\* The cursor after a listing that ended before the page was full.
CursorAtEnd(r) == 0

\* ListMessageIDs stops the listing once the page is full; objects that arrive
\* before the listing ends still count.  The cursor moves before anything else.
ListMessageIDs(g) ==
  LET rest == After(cursor[g])
  IN  /\ gpc[g] = "list"
      /\ \/ /\ \/ \E last \in rest :
                    /\ page' = [page EXCEPT ![g] = rest \ After(Rank[last])]
                    /\ Cardinality(rest \ After(Rank[last])) >= PageSize
                    /\ cursor' = [cursor EXCEPT ![g] = Rank[last]]
               \/ /\ Cardinality(rest) < PageSize
                  /\ page' = [page EXCEPT ![g] = rest]
                  /\ cursor' = [cursor EXCEPT ![g] = CursorAtEnd(@)]
            /\ StepTo(g, IF rest = {} THEN "unlock" ELSE "check")
            /\ UNCHANGED failures
         \/ /\ Fail
            /\ StepTo(g, "unlock")
            /\ UNCHANGED <<page, cursor>>
      /\ UNCHANGED <<obj, doomed, deletedMsgs, exposed>>

\* Mutant: the answer of the existence check is not looked at.
MissingUnchecked(S) == S

\* ExistingMessageIDs finds undeleted messages only.
Missing(S) == {o \in S : doc[o] # "live"}

ExistingMessageIDs(g) ==
  /\ gpc[g] = "check"
  /\ \/ /\ doomed' = [doomed EXCEPT ![g] = Missing(page[g])]
        /\ exposed' = exposed \cup {o \in page[g] : doc[o] = "none"}
        /\ StepTo(g, "delete")
        /\ UNCHANGED failures
     \/ /\ Fail
        /\ StepTo(g, "unlock")
        /\ UNCHANGED <<doomed, exposed>>
  /\ UNCHANGED <<obj, cursor, page, deletedMsgs>>

\* DeleteByMessage for the next missing id, in the order of the listing; a
\* failure, before or after the removal, is logged and does not count.
DeleteNext(g, o) ==
  /\ gpc[g] = "delete"
  /\ o \in doomed[g]
  /\ Before(doomed[g], o) = {}
  /\ doomed' = [doomed EXCEPT ![g] = @ \ {o}]
  /\ \/ /\ obj' = obj \ {o}
        /\ deletedMsgs' = [deletedMsgs EXCEPT ![g] = @ + 1]
        /\ StepTo(g, IF deletedMsgs[g] + 1 >= MaxDeletes THEN "unlock" ELSE "delete")
        /\ UNCHANGED failures
     \/ /\ Fail
        /\ obj' \in {obj, obj \ {o}}
        /\ StepTo(g, "delete")
        /\ UNCHANGED deletedMsgs
  /\ UNCHANGED <<cursor, page, exposed>>

DeletedAll(g) ==
  /\ gpc[g] = "delete"
  /\ doomed[g] = {}
  /\ StepTo(g, "unlock")
  /\ UNCHANGED <<obj, cursor, page, doomed, deletedMsgs, failures, exposed>>

\* runCtx ends the run wherever it is.
GiveUp(g) ==
  /\ OutOfTime(g)
  /\ gpc' = [gpc EXCEPT ![g] = "unlock"]
  /\ UNCHANGED <<storeVars, lock, ttl, cursor, page, doomed, deletedMsgs, elapsed,
                 failures, exposed>>

Forget(g) ==
  /\ gpc' = [gpc EXCEPT ![g] = "idle"]
  /\ page' = [page EXCEPT ![g] = {}]
  /\ doomed' = [doomed EXCEPT ![g] = {}]
  /\ deletedMsgs' = [deletedMsgs EXCEPT ![g] = 0]
  /\ elapsed' = [elapsed EXCEPT ![g] = 0]
  /\ UNCHANGED exposed

\* objGCUnlockScript deletes the lock only if it still holds this run's value.
Unlock(g) ==
  /\ gpc[g] = "unlock"
  /\ \/ /\ IF lock = g THEN lock' = None /\ ttl' = 0 ELSE UNCHANGED <<lock, ttl>>
        /\ UNCHANGED failures
     \/ Fail /\ UNCHANGED <<lock, ttl>>
  /\ Forget(g)
  /\ UNCHANGED <<storeVars, cursor>>

\* The process dies and comes back: the cursor was in its memory only.
CollectorCrash(g) ==
  /\ gpc[g] # "idle"
  /\ Fail
  /\ Forget(g)
  /\ cursor' = [cursor EXCEPT ![g] = 0]
  /\ UNCHANGED <<storeVars, lock, ttl>>

\* Time passes, but not past the budget of a run: its calls return then.  That
\* a run uses up its budget counts as a failure.
Tick ==
  /\ lock # None
  /\ \A g \in Collectors : ~OutOfTime(g)
  /\ IF \E g \in Collectors : Running(g) /\ elapsed[g] + 1 = RunBudget
       THEN Fail ELSE UNCHANGED failures
  /\ ttl' = IF ttl > 0 THEN ttl - 1 ELSE 0
  /\ lock' = IF ttl <= 1 THEN None ELSE lock
  /\ elapsed' = [g \in Collectors |->
                   IF Running(g) /\ elapsed[g] < RunBudget THEN elapsed[g] + 1
                   ELSE elapsed[g]]
  /\ UNCHANGED <<storeVars, gpc, cursor, page, doomed, deletedMsgs, exposed>>

CollectorStep(g) ==
  \/ Acquire(g)
  \/ ListMessageIDs(g)
  \/ ExistingMessageIDs(g)
  \/ \E o \in Oids : DeleteNext(g, o)
  \/ DeletedAll(g)
  \/ GiveUp(g)
  \/ Unlock(g)

GcNext ==
  \/ \E g \in Collectors : CollectorStep(g) \/ CollectorCrash(g)
  \/ Tick
==============================================================================
