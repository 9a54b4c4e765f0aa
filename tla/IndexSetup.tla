----------------------------- MODULE IndexSetup ------------------------------
(***************************************************************************)
(* ensureIndexes: every process that starts brings the indexes of MongoDB  *)
(* into the shape its configuration wants, while others do the same or     *)
(* serve already.  Nothing coordinates them: a process lists the indexes,  *)
(* then drops by name, modifies or creates, and looks again when a         *)
(* creation fails.                                                         *)
(*                                                                         *)
(* Each call to MongoDB is one step.  An index is the record of what the   *)
(* code looks at; MongoDB names an index after its keys, so that dropping  *)
(* by name removes whatever index these keys have by then.  Of the         *)
(* documents only matters whether two of them have the same unique keys.   *)
(***************************************************************************)
EXTENDS Integers, Sequences

CONSTANTS
  Starters,   \* processes that call store.New
  Plan,       \* the tasks of ensureIndexes, in their order
  OldIndexes, \* the sets of indexes that an earlier release or an operator may have left
  NoIndex,
  MaxTrouble  \* bound: calls that fail and processes that die

TaskKinds == {"plain", "unique", "uniquePartial", "ttl", "noTTL", "drop"}
IndexKeys == {Plan[i].keys : i \in DOMAIN Plan}
Index == [unique : BOOLEAN, secs : Nat, partial : BOOLEAN]

ASSUME SetupAssumption ==
  /\ \A i \in DOMAIN Plan : /\ Plan[i].kind \in TaskKinds
                            /\ Plan[i].want \in Index
  /\ Plan \in Seq([keys : IndexKeys, kind : TaskKinds, want : Index])
  /\ \A i \in DOMAIN Plan : /\ Plan[i].kind = "unique" => Plan[i].want.unique
                            /\ Plan[i].kind = "uniquePartial" =>
                                 Plan[i].want.unique /\ Plan[i].want.partial
  /\ \A i, j \in DOMAIN Plan : Plan[i].keys = Plan[j].keys => i = j
  /\ OldIndexes \subseteq [IndexKeys -> Index \cup {NoIndex}]
  /\ NoIndex \notin Index
  /\ Starters # {}
  /\ MaxTrouble \in Nat

VARIABLES
  index,      \* the index on each list of keys
  twins,      \* lists of keys for which two documents are equal
  stage,      \* where each process is in its current task
  task,       \* which task that is
  old,        \* history: the indexes there were at first
  trouble

setupVars == <<index, twins, stage, task, old, trouble>>

Stages == {"list", "drop", "modify", "create", "recheck", "undo", "down", "up"}

SetupTypeOK ==
  /\ index \in [IndexKeys -> Index \cup {NoIndex}]
  /\ twins \in SUBSET IndexKeys
  /\ stage \in [Starters -> Stages]
  /\ task \in [Starters -> 1..(Len(Plan) + 1)]
  /\ \A p \in Starters : stage[p] \notin {"up", "down"} => task[p] \in DOMAIN Plan
  /\ old \in OldIndexes
  /\ trouble \in 0..MaxTrouble

SetupInit ==
  /\ old \in OldIndexes
  /\ index = old
  /\ twins = {}
  /\ stage = [p \in Starters |-> "down"]
  /\ task = [p \in Starters |-> 1]
  /\ trouble = 0

Keys(p) == Plan[task[p]].keys
Kind(p) == Plan[task[p]].kind
Want(p) == Plan[task[p]].want

\* What the code takes for the index of a task.
Satisfies(i, t) ==
  CASE t.kind = "plain"         -> i # NoIndex
    [] t.kind = "unique"        -> i # NoIndex /\ i.unique
    [] t.kind = "uniquePartial" -> i # NoIndex /\ i.unique /\ i.partial
    [] t.kind = "ttl"           -> i # NoIndex /\ i.secs = t.want.secs
                                   /\ i.partial = t.want.partial
    [] t.kind = "noTTL"         -> i = NoIndex \/ i.secs = 0
    [] t.kind = "drop"          -> i = NoIndex

Right(k) == \A n \in DOMAIN Plan : Plan[n].keys = k => Satisfies(index[k], Plan[n])

GoTo(p, s) == stage' = [stage EXCEPT ![p] = s] /\ UNCHANGED task

\* Mutant: off by one at the end of the plan.
NextTaskBeyond(p) ==
  /\ task' = [task EXCEPT ![p] = @ + 1]
  /\ stage' = [stage EXCEPT ![p] = IF task[p] <= Len(Plan) THEN "list" ELSE "up"]

\* The next task, or the start is over.
NextTask(p) ==
  /\ task' = [task EXCEPT ![p] = @ + 1]
  /\ stage' = [stage EXCEPT ![p] = IF task[p] < Len(Plan) THEN "list" ELSE "up"]

Start(p) ==
  /\ stage[p] = "down"
  /\ task' = [task EXCEPT ![p] = 1]
  /\ stage' = [stage EXCEPT ![p] = IF Len(Plan) = 0 THEN "up" ELSE "list"]
  /\ UNCHANGED <<index, twins, old, trouble>>

\* Mutants: an index that is there is taken for unique; an index that does not
\* fit is dropped even if it is not the code's own.
AfterListTrusting(p, i) == IF i = NoIndex THEN "create" ELSE "next"

AfterListCareless(p, i) ==
  IF Satisfies(i, Plan[task[p]]) THEN "next"
  ELSE IF i = NoIndex THEN "create" ELSE "drop"

\* What is to be done about the index that was found.
AfterList(p, i) ==
  CASE Satisfies(i, Plan[task[p]])                       -> "next"
    [] ~Satisfies(i, Plan[task[p]]) /\ i = NoIndex        -> "create"
    [] ~Satisfies(i, Plan[task[p]]) /\ i # NoIndex ->
         IF Kind(p) # "ttl" THEN "drop"
         ELSE IF i.secs = 0 THEN "down"
         ELSE IF i.partial # Want(p).partial THEN "drop" ELSE "modify"

ListIndexes(p) ==
  /\ stage[p] = "list"
  /\ LET s == AfterList(p, index[Keys(p)])
     IN  IF s = "next" THEN NextTask(p) ELSE GoTo(p, s)
  /\ UNCHANGED <<index, twins, old, trouble>>

\* By name; that there is none is no error.
DropIndex(p) ==
  /\ stage[p] = "drop"
  /\ index' = [index EXCEPT ![Keys(p)] = NoIndex]
  /\ IF Kind(p) \in {"noTTL", "drop"} THEN NextTask(p) ELSE GoTo(p, "create")
  /\ UNCHANGED <<twins, old, trouble>>

\* collMod, which works on an index that expires documents.
ModifyTTL(p) ==
  LET k == Keys(p)
  IN  /\ stage[p] = "modify"
      /\ IF index[k] # NoIndex /\ index[k].secs > 0
           THEN /\ index' = [index EXCEPT ![k].secs = Want(p).secs]
                /\ NextTask(p)
           ELSE GoTo(p, "drop") /\ UNCHANGED index
      /\ UNCHANGED <<twins, old, trouble>>

\* MongoDB refuses a second index on the same keys, and a unique one over twins.
Creatable(p) ==
  \/ index[Keys(p)] = Want(p)
  \/ index[Keys(p)] = NoIndex /\ ~(Want(p).unique /\ Keys(p) \in twins)

CreateIndex(p) ==
  /\ stage[p] = "create"
  /\ IF Creatable(p)
       THEN index' = [index EXCEPT ![Keys(p)] = Want(p)] /\ NextTask(p)
       ELSE GoTo(p, "recheck") /\ UNCHANGED index
  /\ UNCHANGED <<twins, old, trouble>>

\* Mutant: if it failed, somebody else will have done it.
DoneByOthers(p, i) == TRUE

RecheckFits(p, i) == Satisfies(i, Plan[task[p]])

\* The creation failed: somebody else may have done it.
Recheck(p) ==
  LET i == index[Keys(p)]
  IN  /\ stage[p] = "recheck"
      /\ IF RecheckFits(p, i) THEN NextTask(p)
         ELSE IF Kind(p) = "ttl" /\ i # NoIndex /\ i.secs = Want(p).secs THEN GoTo(p, "undo")
         ELSE GoTo(p, "down")
      /\ UNCHANGED <<index, twins, old, trouble>>

\* The right life on the wrong documents: drop it, and fail all the same.
UndoTTL(p) ==
  /\ stage[p] = "undo"
  /\ index' = [index EXCEPT ![Keys(p)] = NoIndex]
  /\ GoTo(p, "down")
  /\ UNCHANGED <<twins, old, trouble>>

\* A call fails, or the process dies; a write may have been applied.
Trouble(p) ==
  /\ trouble < MaxTrouble
  /\ trouble' = trouble + 1
  /\ \/ GoTo(p, "down") /\ UNCHANGED index
     \/ /\ stage[p] \in {"drop", "undo"}
        /\ index' = [index EXCEPT ![Keys(p)] = NoIndex]
        /\ GoTo(p, "down")
     \/ stage[p] = "modify" /\ GoTo(p, "drop") /\ UNCHANGED index
     \/ stage[p] = "create" /\ GoTo(p, "recheck") /\ UNCHANGED index
     \/ /\ stage[p] = "create"
        /\ Creatable(p)
        /\ index' = [index EXCEPT ![Keys(p)] = Want(p)]
        /\ GoTo(p, "recheck")
  /\ UNCHANGED <<twins, old>>

Wanted(k, kinds) == \E n \in DOMAIN Plan : Plan[n].keys = k /\ Plan[n].kind \in kinds

\* A process that serves inserts a document with keys that exist already.
InsertTwin(p) ==
  /\ stage[p] = "up"
  /\ \E k \in IndexKeys :
       /\ Wanted(k, {"unique", "uniquePartial"})
       /\ ~(index[k] # NoIndex /\ index[k].unique)
       /\ twins' = twins \cup {k}
  /\ UNCHANGED <<index, stage, task, old, trouble>>

SetupStep(p) ==
  \/ ListIndexes(p) \/ DropIndex(p) \/ ModifyTTL(p) \/ CreateIndex(p) \/ Recheck(p)
  \/ UndoTTL(p)

SetupNext ==
  \E p \in Starters : SetupStep(p) \/ Start(p) \/ Trouble(p) \/ InsertTwin(p)

SetupSpec == SetupInit /\ [][SetupNext]_setupVars

------------------------------------------------------------------------------
Past(p, k) == stage[p] # "down" /\ \A n \in DOMAIN Plan : Plan[n].keys = k => task[p] > n

(***************************************************************************)
(* Once every process is past a task, its index is as wanted (the          *)
(* "concurrent start" branches of store.go 383-392 to 561-576): a process  *)
(* that drops an index it saw before another one replaced it puts it back. *)
(***************************************************************************)
SettledIsRight ==
  \A k \in IndexKeys : (\A p \in Starters : Past(p, k)) => Right(k)

(***************************************************************************)
(* While a process serves, documents with equal unique keys can arise only *)
(* if a process that starts, or one that failed, replaces an index that    *)
(* was there before and was not unique (ensureUniqueIndex): on a new       *)
(* database and on one in shape, starts and restarts never open a gap.     *)
(***************************************************************************)
TwinsNeedLegacy ==
  \A k \in twins :
    \E n \in DOMAIN Plan : Plan[n].keys = k /\ old[k] # NoIndex /\ ~Satisfies(old[k], Plan[n])

(***************************************************************************)
(* An index on the keys of a TTL index that expires nothing is not the     *)
(* code's own and stays (store.go 504-508, 518-521).                       *)
(***************************************************************************)
ForeignIndexKept ==
  \A k \in IndexKeys :
    old[k] # NoIndex /\ old[k].secs = 0 /\ Wanted(k, {"ttl", "noTTL"}) => index[k] = old[k]
==============================================================================
