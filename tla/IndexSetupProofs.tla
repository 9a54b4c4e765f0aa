--------------------------- MODULE IndexSetupProofs ---------------------------
(***************************************************************************)
(* Setting up the indexes, for every number of processes, every plan and   *)
(* every state that the database may be found in.                          *)
(***************************************************************************)
EXTENDS IndexSetup, TLAPS

Working == {"list", "drop", "modify", "create", "recheck", "undo"}
Changing == {"drop", "modify", "create", "recheck", "undo"}

\* What a process knows where it is.
PlaceInv ==
  \A p \in Starters :
    /\ stage[p] = "up" => task[p] > Len(Plan)
    /\ stage[p] \in {"create", "recheck"} => Kind(p) \notin {"noTTL", "drop"}
    /\ stage[p] \in {"modify", "undo"} => Kind(p) = "ttl"
    /\ stage[p] = "modify" =>
         index[Keys(p)] = NoIndex \/ index[Keys(p)].partial = Want(p).partial

Foreign(k) == old[k] # NoIndex /\ old[k].secs = 0 /\ Wanted(k, {"ttl", "noTTL"})

\* Nobody sets out to change an index that is not the code's own.
ForeignInv ==
  \A k \in IndexKeys : Foreign(k) =>
    /\ index[k] = old[k]
    /\ \A p \in Starters : stage[p] \in Changing => Keys(p) # k

\* The unique index of task n, on a database that had none or the right one.
InShape(n) ==
  /\ Plan[n].kind \in {"unique", "uniquePartial"}
  /\ old[Plan[n].keys] = NoIndex \/ Satisfies(old[Plan[n].keys], Plan[n])

\* It is there once anybody is past its task, and never replaced.
ShapeInv ==
  \A n \in DOMAIN Plan : InShape(n) =>
    /\ index[Plan[n].keys] = NoIndex \/ Satisfies(index[Plan[n].keys], Plan[n])
    /\ \A p \in Starters :
         /\ stage[p] \in {"drop", "modify", "undo"} => task[p] # n
         /\ stage[p] # "down" /\ task[p] > n => Satisfies(index[Plan[n].keys], Plan[n])
    /\ Plan[n].keys \notin twins

TwinsInv == \A k \in twins : Wanted(k, {"unique", "uniquePartial"})

SetupInv ==
  SetupTypeOK /\ PlaceInv /\ SettledIsRight /\ ForeignInv /\ ShapeInv /\ TwinsInv

------------------------------------------------------------------------------
LEMMA PlanParts ==
  /\ Len(Plan) \in Nat /\ DOMAIN Plan = 1..Len(Plan)
  /\ \A n \in DOMAIN Plan :
       /\ Plan[n].keys \in IndexKeys /\ Plan[n].kind \in TaskKinds /\ Plan[n].want \in Index
       /\ Plan[n].want # NoIndex
       /\ Plan[n].kind = "unique" => Plan[n].want.unique
       /\ Plan[n].kind = "uniquePartial" => Plan[n].want.unique /\ Plan[n].want.partial
  /\ \A i, j \in DOMAIN Plan : Plan[i].keys = Plan[j].keys => i = j
<1>1. Plan \in Seq([keys : IndexKeys, kind : TaskKinds, want : Index])
  BY SetupAssumption
<1>2. Len(Plan) \in Nat /\ DOMAIN Plan = 1..Len(Plan)
  BY <1>1
<1>. QED  BY <1>2, SetupAssumption DEF IndexKeys

\* What the code creates is what it looks for.
LEMMA WantSatisfies ==
  ASSUME NEW n \in DOMAIN Plan, Plan[n].kind \notin {"noTTL", "drop"}
  PROVE  Satisfies(Plan[n].want, Plan[n])
BY PlanParts DEF Satisfies, TaskKinds

LEMMA NoIndexSatisfies ==
  ASSUME NEW n \in DOMAIN Plan
  PROVE  Satisfies(NoIndex, Plan[n]) <=> Plan[n].kind \in {"noTTL", "drop"}
BY PlanParts DEF Satisfies, TaskKinds

LEMMA PlaceParts ==
  ASSUME SetupTypeOK, NEW p \in Starters
  PROVE  /\ stage[p] \in Stages /\ task[p] \in 1..(Len(Plan) + 1)
         /\ stage[p] \in Working =>
              task[p] \in DOMAIN Plan /\ Keys(p) \in IndexKeys /\ Kind(p) \in TaskKinds
                /\ Want(p) \in Index
         /\ \A k \in IndexKeys : index[k] \in Index \cup {NoIndex}
BY PlanParts DEF SetupTypeOK, Working, Keys, Kind, Want

------------------------------------------------------------------------------
Acts(p) == SetupStep(p) \/ Start(p) \/ Trouble(p) \/ InsertTwin(p)

\* A step changes the place of one process only.
LEMMA OthersStay ==
  ASSUME SetupTypeOK, NEW p \in Starters, Acts(p)
  PROVE  /\ \A q \in Starters : q # p => stage'[q] = stage[q] /\ task'[q] = task[q]
         /\ old' = old
         /\ twins' = twins \/ InsertTwin(p)
BY DEF Acts, SetupStep, Start, Trouble, InsertTwin, ListIndexes, DropIndex, ModifyTTL, CreateIndex,
       Recheck, UndoTTL, GoTo, NextTask, SetupTypeOK

\* What it does to the index on k.
Changed(p, k) ==
  /\ stage[p] \in Changing /\ Keys(p) = k
  /\ \/ stage[p] \in {"drop", "undo"} /\ index'[k] = NoIndex
     \/ stage[p] = "create" /\ index'[k] = Want(p)
     \/ /\ stage[p] = "modify" /\ index[k] # NoIndex /\ index[k].secs > 0
        /\ index'[k] = [index[k] EXCEPT !.secs = Want(p).secs]

LEMMA IndexStep ==
  ASSUME SetupTypeOK, NEW p \in Starters, Acts(p), NEW k \in IndexKeys
  PROVE  index'[k] = index[k] \/ Changed(p, k)
<1>0. index \in [IndexKeys -> Index \cup {NoIndex}]
  BY DEF SetupTypeOK
<1>1. CASE DropIndex(p)
  BY <1>0, <1>1 DEF DropIndex, Changed, Changing
<1>2. CASE ModifyTTL(p)
  <2>1. \/ index' = index
        \/ /\ index[Keys(p)] # NoIndex /\ index[Keys(p)].secs > 0
           /\ index' = [index EXCEPT ![Keys(p)] = [index[Keys(p)] EXCEPT !.secs = Want(p).secs]]
    BY <1>2 DEF ModifyTTL
  <2>. QED  BY <1>0, <1>2, <2>1 DEF ModifyTTL, Changed, Changing
<1>3. CASE CreateIndex(p)
  BY <1>0, <1>3 DEF CreateIndex, Changed, Changing
<1>4. CASE UndoTTL(p)
  BY <1>0, <1>4 DEF UndoTTL, Changed, Changing
<1>5. CASE Trouble(p)
  BY <1>0, <1>5 DEF Trouble, Changed, Changing
<1>6. CASE ListIndexes(p) \/ Recheck(p) \/ Start(p) \/ InsertTwin(p)
  BY <1>6 DEF ListIndexes, Recheck, Start, InsertTwin
<1>. QED  BY <1>1, <1>2, <1>3, <1>4, <1>5, <1>6 DEF Acts, SetupStep

\* Where it takes the process: past a task only if its index fits.
Within(p) ==
  LET i == index[Keys(p)]
      t == Plan[task[p]]
  IN  /\ task'[p] = task[p]
      /\ \/ stage[p] = "list" /\ stage'[p] = "create" /\ i = NoIndex /\ ~Satisfies(i, t)
         \/ /\ stage[p] = "list" /\ stage'[p] = "drop" /\ i # NoIndex /\ ~Satisfies(i, t)
            /\ Kind(p) = "ttl" => i.secs # 0
         \/ /\ stage[p] = "list" /\ stage'[p] = "modify" /\ i # NoIndex /\ ~Satisfies(i, t)
            /\ Kind(p) = "ttl" /\ i.secs # 0 /\ i.partial = Want(p).partial
         \/ stage[p] = "drop" /\ stage'[p] = "create" /\ Kind(p) \notin {"noTTL", "drop"}
         \/ stage[p] = "modify" /\ stage'[p] = "drop"
         \/ stage[p] = "create" /\ stage'[p] = "recheck"
         \/ stage[p] = "recheck" /\ stage'[p] = "undo" /\ Kind(p) = "ttl" /\ i # NoIndex

Moved(p) ==
  \/ stage'[p] = "down" /\ task'[p] = task[p]
  \/ stage'[p] = stage[p] /\ task'[p] = task[p]
  \/ /\ stage[p] = "down" /\ task'[p] = 1
     /\ stage'[p] = IF Len(Plan) = 0 THEN "up" ELSE "list"
  \/ /\ stage[p] \in Working /\ task'[p] = task[p] + 1
     /\ stage'[p] = IF task[p] < Len(Plan) THEN "list" ELSE "up"
     /\ Satisfies(index'[Keys(p)], Plan[task[p]])
  \/ stage[p] \in Working /\ Within(p)

LEMMA PlaceStep ==
  ASSUME SetupTypeOK, PlaceInv, NEW p \in Starters, Acts(p)
  PROVE  Moved(p)
<1>0. /\ stage \in [Starters -> Stages] /\ task \in [Starters -> 1..(Len(Plan) + 1)]
      /\ index \in [IndexKeys -> Index \cup {NoIndex}]
  BY DEF SetupTypeOK
<1>. USE PlaceParts DEF Working
<1>a. ASSUME NEW s \in Stages, GoTo(p, s) PROVE stage'[p] = s /\ task'[p] = task[p]
  BY <1>0, <1>a DEF GoTo
<1>b. ASSUME NextTask(p)
      PROVE  /\ task'[p] = task[p] + 1
             /\ stage'[p] = IF task[p] < Len(Plan) THEN "list" ELSE "up"
  BY <1>0, <1>b DEF NextTask
<1>1. CASE ListIndexes(p)
  <2>. DEFINE i == index[Keys(p)]
  <2>. DEFINE t == Plan[task[p]]
  <2>0. /\ stage[p] = "list" /\ index' = index
        /\ IF AfterList(p, i) = "next" THEN NextTask(p) ELSE GoTo(p, AfterList(p, i))
    BY <1>1 DEF ListIndexes
  <2>1. CASE Satisfies(i, t)
    <3>1. AfterList(p, i) = "next"
      BY <2>1 DEF AfterList
    <3>. QED  BY <1>b, <2>0, <2>1, <3>1 DEF Moved
  <2>2. CASE ~Satisfies(i, t) /\ i = NoIndex
    <3>1. AfterList(p, i) = "create"
      BY <2>2 DEF AfterList
    <3>. QED  BY <1>a, <2>0, <2>2, <3>1 DEF Moved, Within, Stages
  <2>3. CASE ~Satisfies(i, t) /\ i # NoIndex
    <3>1. AfterList(p, i) = IF Kind(p) # "ttl" THEN "drop"
                            ELSE IF i.secs = 0 THEN "down"
                            ELSE IF i.partial # Want(p).partial THEN "drop" ELSE "modify"
      BY <2>3 DEF AfterList
    <3>. QED  BY <1>a, <2>0, <2>3, <3>1 DEF Moved, Within, Stages
  <2>. QED  BY <2>1, <2>2, <2>3
<1>2. CASE DropIndex(p)
  <2>1. stage[p] = "drop" /\ index'[Keys(p)] = NoIndex
    BY <1>0, <1>2 DEF DropIndex
  <2>2. CASE Kind(p) \in {"noTTL", "drop"}
    BY <1>2, <1>b, <2>1, <2>2, NoIndexSatisfies DEF DropIndex, Moved, Kind
  <2>3. CASE Kind(p) \notin {"noTTL", "drop"}
    BY <1>2, <1>a, <2>1, <2>3 DEF DropIndex, Moved, Within, Stages
  <2>. QED  BY <2>2, <2>3
<1>3. CASE ModifyTTL(p)
  <2>0. stage[p] = "modify" /\ Kind(p) = "ttl"
    BY <1>3 DEF ModifyTTL, PlaceInv
  <2>1. CASE index[Keys(p)] # NoIndex /\ index[Keys(p)].secs > 0
    <3>1. /\ NextTask(p) /\ index[Keys(p)] \in Index
          /\ index'[Keys(p)] = [index[Keys(p)] EXCEPT !.secs = Want(p).secs]
      BY <1>0, <1>3, <2>0, <2>1 DEF ModifyTTL
    <3>2. index[Keys(p)].partial = Want(p).partial
      BY <2>0, <2>1 DEF PlaceInv
    <3>3. /\ index'[Keys(p)] \in Index
          /\ index'[Keys(p)].secs = Want(p).secs /\ index'[Keys(p)].partial = Want(p).partial
      BY <2>0, <3>1, <3>2 DEF Index
    <3>4. index'[Keys(p)] # NoIndex
      BY <3>3, SetupAssumption
    <3>5. Satisfies(index'[Keys(p)], Plan[task[p]])
      BY <2>0, <3>3, <3>4 DEF Satisfies, Kind, Want
    <3>. QED  BY <1>b, <2>0, <3>1, <3>5 DEF Moved
  <2>2. CASE ~(index[Keys(p)] # NoIndex /\ index[Keys(p)].secs > 0)
    BY <1>3, <1>a, <2>0, <2>2 DEF ModifyTTL, Moved, Within, Stages
  <2>. QED  BY <2>1, <2>2
<1>4. CASE CreateIndex(p)
  <2>1. CASE Creatable(p)
    <3>1. stage[p] = "create" /\ NextTask(p) /\ index'[Keys(p)] = Want(p)
      BY <1>0, <1>4, <2>1 DEF CreateIndex
    <3>2. Satisfies(Want(p), Plan[task[p]])
      BY <3>1, WantSatisfies DEF PlaceInv, Kind, Want
    <3>. QED  BY <1>b, <3>1, <3>2 DEF Moved
  <2>2. CASE ~Creatable(p)
    BY <1>4, <1>a, <2>2 DEF CreateIndex, Moved, Within, Stages
  <2>. QED  BY <2>1, <2>2
<1>5. CASE Recheck(p)
  BY <1>5, <1>a, <1>b DEF Recheck, RecheckFits, Moved, Within, Stages
<1>6. CASE UndoTTL(p)
  BY <1>6, <1>a DEF UndoTTL, Moved, Stages
<1>7. CASE Start(p)
  BY <1>0, <1>7 DEF Start, Moved
<1>8. CASE Trouble(p)
  BY <1>8, <1>a DEF Trouble, Moved, Within, Stages
<1>9. CASE InsertTwin(p)
  BY <1>9 DEF InsertTwin, Moved
<1>. QED
  BY <1>1, <1>2, <1>3, <1>4, <1>5, <1>6, <1>7, <1>8, <1>9 DEF Acts, SetupStep

------------------------------------------------------------------------------
LEMMA SetupInitially == SetupInit => SetupInv
<1>. SUFFICES ASSUME SetupInit PROVE SetupInv
  OBVIOUS
<1>0. /\ \A p \in Starters : stage[p] = "down" /\ task[p] = 1
      /\ index = old /\ old \in OldIndexes /\ twins = {}
  BY DEF SetupInit
<1>1. SetupTypeOK
  BY PlanParts, SetupAssumption DEF SetupInit, SetupTypeOK, Stages
<1>2. PlaceInv /\ ForeignInv /\ TwinsInv
  BY <1>0 DEF PlaceInv, ForeignInv, TwinsInv, Changing
<1>3. ShapeInv
  BY <1>0 DEF ShapeInv, InShape
<1>4. SettledIsRight
  <2>1. SUFFICES ASSUME NEW k \in IndexKeys, \A p \in Starters : Past(p, k) PROVE Right(k)
    BY DEF SettledIsRight
  <2>. QED  BY <1>0, <2>1, SetupAssumption DEF Past
<1>. QED  BY <1>1, <1>2, <1>3, <1>4 DEF SetupInv

LEMMA TypeStep ==
  ASSUME SetupTypeOK, PlaceInv, NEW p \in Starters, Acts(p)
  PROVE  SetupTypeOK'
<1>0. /\ stage \in [Starters -> Stages] /\ task \in [Starters -> 1..(Len(Plan) + 1)]
      /\ index \in [IndexKeys -> Index \cup {NoIndex}] /\ twins \in SUBSET IndexKeys
      /\ old \in OldIndexes /\ trouble \in 0..MaxTrouble
      /\ \A q \in Starters : stage[q] \notin {"up", "down"} => task[q] \in DOMAIN Plan
  BY DEF SetupTypeOK
<1>1. /\ stage' \in [Starters -> Stages] /\ task' \in [Starters -> 1..(Len(Plan) + 1)]
      /\ \A q \in Starters : stage'[q] \notin {"up", "down"} => task'[q] \in DOMAIN Plan
  <2>1. /\ stage'[p] \in Stages /\ task'[p] \in 1..(Len(Plan) + 1)
        /\ stage'[p] \notin {"up", "down"} => task'[p] \in DOMAIN Plan
    BY <1>0, PlaceStep, PlanParts DEF Moved, Within, Working, Stages
  <2>2. \A q \in Starters : q # p => stage'[q] = stage[q] /\ task'[q] = task[q]
    BY OthersStay
  <2>3. DOMAIN stage' = Starters /\ DOMAIN task' = Starters
        /\ stage' = [q \in Starters |-> stage'[q]] /\ task' = [q \in Starters |-> task'[q]]
    BY <1>0 DEF Acts, SetupStep, Start, Trouble, InsertTwin, ListIndexes, DropIndex, ModifyTTL,
                CreateIndex, Recheck, UndoTTL, GoTo, NextTask
  <2>. QED  BY <1>0, <2>1, <2>2, <2>3
<1>2. index' \in [IndexKeys -> Index \cup {NoIndex}]
  <2>1. \A k \in IndexKeys : index'[k] \in Index \cup {NoIndex}
    <3>. SUFFICES ASSUME NEW k \in IndexKeys PROVE index'[k] \in Index \cup {NoIndex}
      OBVIOUS
    <3>1. CASE index'[k] = index[k]
      BY <1>0, <3>1
    <3>2. CASE Changed(p, k)
      <4>1. Want(p) \in Index /\ Want(p).secs \in Nat
        BY <3>2, PlaceParts DEF Changed, Changing, Working, Index
      <4>2. index[k] # NoIndex => [index[k] EXCEPT !.secs = Want(p).secs] \in Index
        BY <1>0, <4>1 DEF Index
      <4>. QED  BY <3>2, <4>1, <4>2 DEF Changed
    <3>. QED  BY <3>1, <3>2, IndexStep
  <2>2. index' = [k \in IndexKeys |-> index'[k]]
    BY <1>0 DEF Acts, SetupStep, Start, Trouble, InsertTwin, ListIndexes, DropIndex, ModifyTTL,
                CreateIndex, Recheck, UndoTTL
  <2>. QED  BY <2>1, <2>2
<1>3. twins' \in SUBSET IndexKeys
  BY <1>0, OthersStay DEF InsertTwin
<1>4. trouble' \in 0..MaxTrouble
  BY <1>0, SetupAssumption
     DEF Acts, SetupStep, Start, Trouble, InsertTwin, ListIndexes, DropIndex, ModifyTTL,
         CreateIndex, Recheck, UndoTTL
<1>. QED  BY <1>0, <1>1, <1>2, <1>3, <1>4, OthersStay DEF SetupTypeOK

LEMMA PlaceInvStep ==
  ASSUME SetupTypeOK, PlaceInv, NEW p \in Starters, Acts(p)
  PROVE  PlaceInv'
<1>. SUFFICES ASSUME NEW q \in Starters
     PROVE  /\ stage'[q] = "up" => task'[q] > Len(Plan)
            /\ stage'[q] \in {"create", "recheck"} => Kind(q)' \notin {"noTTL", "drop"}
            /\ stage'[q] \in {"modify", "undo"} => Kind(q)' = "ttl"
            /\ stage'[q] = "modify" =>
                 index'[Keys(q)'] = NoIndex \/ index'[Keys(q)'].partial = Want(q)'.partial
  BY DEF PlaceInv
<1>0. /\ stage[q] = "up" => task[q] > Len(Plan)
      /\ stage[q] \in {"create", "recheck"} => Kind(q) \notin {"noTTL", "drop"}
      /\ stage[q] \in {"modify", "undo"} => Kind(q) = "ttl"
      /\ stage[q] = "modify" =>
           index[Keys(q)] = NoIndex \/ index[Keys(q)].partial = Want(q).partial
      /\ task[q] \in 1..(Len(Plan) + 1) /\ Len(Plan) \in Nat
  BY PlaceParts, PlanParts DEF PlaceInv
<1>1. task'[q] = task[q] =>
        Kind(q)' = Kind(q) /\ Keys(q)' = Keys(q) /\ Want(q)' = Want(q)
  BY DEF Kind, Keys, Want
<1>2. ASSUME stage[q] = "modify", stage'[q] = "modify", task'[q] = task[q]
      PROVE  index'[Keys(q)] = NoIndex \/ index'[Keys(q)].partial = Want(q).partial
  <2>0. Keys(q) \in IndexKeys /\ task[q] \in DOMAIN Plan
    BY <1>2, PlaceParts DEF Working
  <2>1. CASE index'[Keys(q)] = index[Keys(q)]
    BY <1>0, <1>2, <2>1
  <2>2. CASE Changed(p, Keys(q))
    <3>1. task[p] \in DOMAIN Plan /\ Plan[task[p]].keys = Plan[task[q]].keys
      BY <2>2, PlaceParts DEF Changed, Changing, Working, Keys
    <3>2. Want(p) = Want(q)
      BY <2>0, <3>1, PlanParts DEF Want
    <3>3. index[Keys(q)] # NoIndex =>
            [index[Keys(q)] EXCEPT !.secs = Want(p).secs].partial = index[Keys(q)].partial
      BY <2>0, PlaceParts DEF Index
    <3>. QED  BY <1>0, <1>2, <2>2, <3>2, <3>3 DEF Changed
  <2>. QED  BY <2>0, <2>1, <2>2, IndexStep
<1>3. CASE q # p
  BY <1>0, <1>1, <1>2, <1>3, OthersStay
<1>4. CASE q = p
  <2>1. CASE stage'[p] = "modify" /\ stage[p] = "list"
    <3>1. Within(p) /\ stage[p] \in Working
      BY <2>1, PlaceStep DEF Moved
    <3>2. /\ task'[p] = task[p] /\ Kind(p) = "ttl" /\ index[Keys(p)].partial = Want(p).partial
      BY <2>1, <3>1 DEF Within
    <3>3. index'[Keys(p)] = index[Keys(p)]
      BY <2>1, <3>1, PlaceParts, IndexStep DEF Changed, Changing
    <3>. QED  BY <1>1, <1>4, <2>1, <3>2, <3>3
  <2>2. CASE ~(stage'[p] = "modify" /\ stage[p] = "list")
    BY <1>0, <1>1, <1>2, <1>4, <2>2, PlaceStep, NoIndexSatisfies, PlaceParts
       DEF Moved, Within, Working, Kind, Stages
  <2>. QED  BY <2>1, <2>2
<1>. QED  BY <1>3, <1>4

\* The index on the keys of a task fits if all are past it: whoever came past
\* it last found it so, and nobody is left who would change it.
LEMMA SettledStep ==
  ASSUME SetupInv, NEW p \in Starters, Acts(p)
  PROVE  SettledIsRight'
<1>. SUFFICES ASSUME NEW k \in IndexKeys, \A q \in Starters : Past(q, k)',
                     NEW n \in DOMAIN Plan, Plan[n].keys = k
              PROVE  Satisfies(index'[k], Plan[n])
  BY DEF SettledIsRight, Right
<1>0. /\ SetupTypeOK /\ PlaceInv /\ SettledIsRight
      /\ \A i, j \in DOMAIN Plan : Plan[i].keys = Plan[j].keys => i = j
      /\ Len(Plan) \in Nat /\ DOMAIN Plan = 1..Len(Plan)
  BY PlanParts DEF SetupInv
<1>1. \A q \in Starters : stage'[q] # "down" /\ task'[q] > n
  BY DEF Past
<1>2. \A q \in Starters : stage[q] # "down" /\ task[q] > n => Past(q, k)
  BY <1>0 DEF Past
<1>3. CASE stage[p] # "down" /\ task[p] > n
  <2>1. \A q \in Starters : Past(q, k)
    BY <1>1, <1>2, <1>3, <1>0, OthersStay
  <2>2. Satisfies(index[k], Plan[n])
    BY <1>0, <2>1 DEF SettledIsRight, Right
  <2>3. ~Changed(p, k)
    BY <1>0, <1>3, PlaceParts DEF Changed, Changing, Working, Keys
  <2>. QED  BY <1>0, <2>2, <2>3, IndexStep
<1>4. CASE ~(stage[p] # "down" /\ task[p] > n)
  <2>1. /\ stage'[p] # "down" /\ task'[p] > n /\ Moved(p)
        /\ task[p] \in Nat /\ n \in Nat /\ n >= 1 /\ n <= Len(Plan)
    BY <1>0, <1>1, PlaceStep, PlaceParts
  <2>2. /\ stage[p] \in Working /\ task'[p] = task[p] + 1
        /\ Satisfies(index'[Keys(p)], Plan[task[p]])
    BY <1>0, <1>4, <2>1 DEF Moved, Within, Working
  <2>3. task[p] = n
    BY <1>4, <2>1, <2>2 DEF Working
  <2>. QED  BY <2>2, <2>3 DEF Keys
<1>. QED  BY <1>3, <1>4

LEMMA ForeignStep ==
  ASSUME SetupInv, NEW p \in Starters, Acts(p)
  PROVE  ForeignInv'
<1>. SUFFICES ASSUME NEW k \in IndexKeys, Foreign(k)'
              PROVE  /\ index'[k] = old'[k]
                     /\ \A q \in Starters : stage'[q] \in Changing => Keys(q)' # k
  BY DEF ForeignInv
<1>0. SetupTypeOK /\ PlaceInv /\ ForeignInv /\ old' = old
  BY OthersStay DEF SetupInv
<1>1. /\ Foreign(k) /\ index[k] = old[k]
      /\ \A q \in Starters : stage[q] \in Changing => Keys(q) # k
  BY <1>0 DEF ForeignInv, Foreign, Wanted
<1>2. index'[k] = index[k]
  BY <1>0, <1>1, IndexStep DEF Changed
<1>3. ASSUME NEW q \in Starters, stage'[q] \in Changing PROVE Keys(q)' # k
  <2>1. CASE q # p
    BY <1>0, <1>1, <1>3, <2>1, OthersStay DEF Keys
  <2>2. CASE q = p /\ stage[p] \in Changing /\ task'[p] = task[p]
    BY <1>1, <2>2 DEF Keys
  <2>3. CASE q = p /\ ~(stage[p] \in Changing /\ task'[p] = task[p])
    <3>1. stage[p] = "list" /\ Within(p) /\ Moved(p)
      BY <1>0, <1>3, <2>3, PlaceStep DEF Moved, Within, Changing, Working
    <3>2. SUFFICES ASSUME Keys(p) = k PROVE FALSE
      BY <2>3, <3>1 DEF Within, Keys
    <3>3. /\ index[k] # NoIndex /\ index[k].secs = 0 /\ ~Satisfies(index[k], Plan[task[p]])
          /\ Kind(p) = "ttl" => index[k].secs # 0
      BY <1>1, <1>3, <2>3, <3>1, <3>2 DEF Within, Foreign, Changing
    <3>4. Kind(p) \in {"ttl", "noTTL"}
      <4>1. PICK n \in DOMAIN Plan : Plan[n].keys = k /\ Plan[n].kind \in {"ttl", "noTTL"}
        BY <1>1 DEF Foreign, Wanted
      <4>2. task[p] \in DOMAIN Plan
        BY <1>0, <3>1, PlaceParts DEF Working
      <4>. QED  BY <3>2, <4>1, <4>2, PlanParts DEF Keys, Kind
    <3>. QED  BY <3>3, <3>4 DEF Satisfies, Kind
  <2>. QED  BY <2>1, <2>2, <2>3
<1>. QED  BY <1>0, <1>1, <1>2, <1>3

LEMMA ShapeStep ==
  ASSUME SetupInv, NEW p \in Starters, Acts(p)
  PROVE  ShapeInv'
<1>. SUFFICES ASSUME NEW n \in DOMAIN Plan, InShape(n)'
     PROVE  /\ index'[Plan[n].keys] = NoIndex \/ Satisfies(index'[Plan[n].keys], Plan[n])
            /\ \A q \in Starters :
                 /\ stage'[q] \in {"drop", "modify", "undo"} => task'[q] # n
                 /\ stage'[q] # "down" /\ task'[q] > n =>
                      Satisfies(index'[Plan[n].keys], Plan[n])
            /\ Plan[n].keys \notin twins'
  BY DEF ShapeInv
<1>. DEFINE k == Plan[n].keys
<1>0. SetupTypeOK /\ PlaceInv /\ ShapeInv /\ old' = old /\ k \in IndexKeys
  BY OthersStay, PlanParts DEF SetupInv
<1>1. /\ InShape(n)
      /\ index[k] = NoIndex \/ Satisfies(index[k], Plan[n])
      /\ \A q \in Starters :
           /\ stage[q] \in {"drop", "modify", "undo"} => task[q] # n
           /\ stage[q] # "down" /\ task[q] > n => Satisfies(index[k], Plan[n])
      /\ k \notin twins
  BY <1>0 DEF ShapeInv, InShape
<1>2. Plan[n].kind \in {"unique", "uniquePartial"}
  BY <1>1 DEF InShape
<1>3. Changed(p, k) => stage[p] = "create" /\ task[p] = n /\ index'[k] = Plan[n].want
  <2>1. Changed(p, k) => task[p] = n
    BY <1>0, PlaceParts, PlanParts DEF Changed, Changing, Working, Keys
  <2>. QED  BY <1>1, <2>1 DEF Changed, Want
<1>4. Satisfies(Plan[n].want, Plan[n])
  BY <1>2, WantSatisfies
<1>5. /\ index'[k] = NoIndex \/ Satisfies(index'[k], Plan[n])
      /\ Satisfies(index[k], Plan[n]) => Satisfies(index'[k], Plan[n])
  BY <1>0, <1>1, <1>3, <1>4, IndexStep
<1>6. Len(Plan) \in Nat /\ DOMAIN Plan = 1..Len(Plan) /\ task[p] \in Nat /\ task[p] >= 1
  BY <1>0, PlanParts, PlaceParts
<1>7. ASSUME NEW q \in Starters
      PROVE  /\ stage'[q] \in {"drop", "modify", "undo"} => task'[q] # n
             /\ stage'[q] # "down" /\ task'[q] > n => Satisfies(index'[k], Plan[n])
  <2>1. CASE q # p
    BY <1>1, <1>5, <2>1, <1>0, OthersStay
  <2>2. CASE q = p
    <3>1. Moved(p)
      BY <1>0, PlaceStep
    <3>2. stage'[p] # "down" /\ task'[p] > n => Satisfies(index'[k], Plan[n])
      <4>1. CASE stage[p] # "down" /\ task[p] > n
        BY <1>1, <1>5, <4>1
      <4>2. CASE stage[p] \in Working /\ task[p] = n /\ task'[p] = task[p] + 1
        BY <3>1, <1>6, <4>2 DEF Moved, Within, Working, Keys
      <4>. QED  BY <1>6, <3>1, <4>1, <4>2 DEF Moved, Within, Working
    <3>3. stage'[p] \in {"drop", "modify", "undo"} => task'[p] # n
      <4>. SUFFICES ASSUME stage'[p] \in {"drop", "modify", "undo"}, task'[p] = n PROVE FALSE
        OBVIOUS
      <4>1. stage[p] \in Working /\ Within(p) /\ task[p] = n
        BY <1>1, <3>1 DEF Moved, Within, Working
      <4>2. Kind(p) # "ttl" /\ Plan[task[p]] = Plan[n] /\ Keys(p) = k
        BY <1>2, <4>1 DEF Kind, Keys
      <4>. QED  BY <1>1, <4>1, <4>2 DEF Within
    <3>. QED  BY <2>2, <3>2, <3>3
  <2>. QED  BY <2>1, <2>2
<1>8. k \notin twins'
  <2>1. ASSUME InsertTwin(p), k \in twins' PROVE FALSE
    <3>1. stage[p] = "up" /\ ~(index[k] # NoIndex /\ index[k].unique)
      BY <1>1, <2>1 DEF InsertTwin
    <3>2. Satisfies(index[k], Plan[n])
      BY <1>0, <1>1, <1>6, <3>1, PlaceParts DEF PlaceInv
    <3>. QED  BY <1>2, <3>1, <3>2 DEF Satisfies
  <2>. QED  BY <1>0, <1>1, <2>1, OthersStay
<1>. QED  BY <1>5, <1>7, <1>8

LEMMA SetupSteps == SetupInv /\ [SetupNext]_setupVars => SetupInv'
<1>. SUFFICES ASSUME SetupInv, [SetupNext]_setupVars PROVE SetupInv'
  OBVIOUS
<1>1. ASSUME NEW p \in Starters, Acts(p) PROVE SetupInv'
  <2>1. TwinsInv'
    <3>1. \A k \in twins' : k \in twins \/ Wanted(k, {"unique", "uniquePartial"})
      BY <1>1, OthersStay DEF InsertTwin, SetupInv
    <3>. QED  BY <3>1 DEF TwinsInv, SetupInv, Wanted
  <2>. QED
    BY <1>1, <2>1, TypeStep, PlaceInvStep, SettledStep, ForeignStep, ShapeStep DEF SetupInv
<1>2. CASE UNCHANGED setupVars
  <2>1. UNCHANGED <<index, twins, stage, task, old, trouble>>
    BY <1>2 DEF setupVars
  <2>2. SetupTypeOK' /\ PlaceInv' /\ TwinsInv'
    BY <2>1 DEF SetupInv, SetupTypeOK, PlaceInv, Keys, Kind, Want, TwinsInv, Wanted
  <2>3. SettledIsRight'
    BY <2>1 DEF SetupInv, SettledIsRight, Past, Right, Satisfies
  <2>4. ForeignInv'
    BY <2>1 DEF SetupInv, ForeignInv, Foreign, Wanted, Keys
  <2>5. ShapeInv'
    BY <2>1 DEF SetupInv, ShapeInv, InShape
  <2>. QED  BY <2>2, <2>3, <2>4, <2>5 DEF SetupInv
<1>. QED  BY <1>1, <1>2 DEF SetupNext, Acts

LEMMA FromSetupInv ==
  SetupInv => SettledIsRight /\ TwinsNeedLegacy /\ ForeignIndexKept
<1>. SUFFICES ASSUME SetupInv PROVE SettledIsRight /\ TwinsNeedLegacy /\ ForeignIndexKept
  OBVIOUS
<1>1. ForeignIndexKept
  BY DEF SetupInv, ForeignInv, Foreign, ForeignIndexKept
<1>2. TwinsNeedLegacy
  <2>1. SUFFICES ASSUME NEW k \in twins
        PROVE \E n \in DOMAIN Plan :
                Plan[n].keys = k /\ old[k] # NoIndex /\ ~Satisfies(old[k], Plan[n])
    BY DEF TwinsNeedLegacy
  <2>2. PICK n \in DOMAIN Plan :
          Plan[n].keys = k /\ Plan[n].kind \in {"unique", "uniquePartial"}
    BY DEF SetupInv, TwinsInv, Wanted
  <2>3. ~InShape(n)
    BY <2>2 DEF SetupInv, ShapeInv
  <2>. QED  BY <2>2, <2>3 DEF InShape
<1>. QED  BY <1>1, <1>2 DEF SetupInv

(***************************************************************************)
(* Once every process is past a task its index is as wanted, however many  *)
(* start at once, whatever fails and whatever they find.                   *)
(***************************************************************************)
THEOREM SettledIndexesAreRight == SetupSpec => []SettledIsRight
<1>. QED  BY SetupInitially, SetupSteps, FromSetupInv, PTL DEF SetupSpec

(***************************************************************************)
(* A unique index that was not there, or was right, never has a gap while  *)
(* a process serves: equal documents need an old index that was replaced.  *)
(***************************************************************************)
THEOREM OnlyLegacyLetsTwinsIn == SetupSpec => []TwinsNeedLegacy
<1>. QED  BY SetupInitially, SetupSteps, FromSetupInv, PTL DEF SetupSpec

(***************************************************************************)
(* An index that expires nothing on the keys of a TTL index is never       *)
(* touched.                                                                *)
(***************************************************************************)
THEOREM ForeignIndexesAreKept == SetupSpec => []ForeignIndexKept
<1>. QED  BY SetupInitially, SetupSteps, FromSetupInv, PTL DEF SetupSpec
==============================================================================
