---------------------------- MODULE ListingProofs -----------------------------
(***************************************************************************)
(* Walking through a changing mailbox (Listing), for every number of       *)
(* messages and walkers and every page size; and what requests are told    *)
(* about the flags they set (Flags).                                       *)
(***************************************************************************)
EXTENDS Listing, Flags, FiniteSetTheorems, NaturalsInduction, WellFoundedInduction, TLAPS

(* Orders on finite sets.                                                  *)

LEMMA LeastNumber ==
  ASSUME NEW T \in SUBSET Nat, T # {}
  PROVE  \E x \in T : \A y \in T : x <= y
<1>1. PICK x \in T : \A y \in T : ~(<<y, x>> \in OpToRel(<, Nat))
  BY NatLessThanWellFounded, WFMin
<1>2. \A y \in T : ~(y < x)
  BY <1>1 DEF OpToRel
<1>. QED  BY <1>2

\* A finite set that is not empty has a first element in every strict order.
LEMMA FirstElement ==
  ASSUME NEW S, IsFiniteSet(S), S # {}, NEW R,
         \A x \in S : <<x, x>> \notin R,
         \A x, y, z \in S : <<x, y>> \in R /\ <<y, z>> \in R => <<x, z>> \in R,
         \A x, y \in S : x = y \/ <<x, y>> \in R \/ <<y, x>> \in R
  PROVE  \E x \in S : \A y \in S : y = x \/ <<x, y>> \in R
<1>. DEFINE Before(x) == {y \in S : <<y, x>> \in R}
<1>1. \A x \in S : IsFiniteSet(Before(x)) /\ Cardinality(Before(x)) \in Nat
  <2>. SUFFICES ASSUME NEW x \in S
                PROVE  IsFiniteSet(Before(x)) /\ Cardinality(Before(x)) \in Nat
    OBVIOUS
  <2>1. Before(x) \in SUBSET S
    OBVIOUS
  <2>. HIDE DEF Before
  <2>2. IsFiniteSet(Before(x))
    BY <2>1, FS_Subset
  <2>. QED  BY <2>2, FS_CardinalityType
<1>. DEFINE Sizes == {Cardinality(Before(x)) : x \in S}
<1>2. Sizes \in SUBSET Nat /\ Sizes # {}
  <2>. HIDE DEF Before
  <2>. QED  BY <1>1
<1>3. PICK n \in Sizes : \A k \in Sizes : n <= k
  BY <1>2, LeastNumber
<1>4. PICK x \in S : n = Cardinality(Before(x))
  BY <1>3
<1>5. ASSUME NEW y \in S, <<y, x>> \in R PROVE FALSE
  <2>1. Before(y) \subseteq Before(x) /\ y \in Before(x) /\ y \notin Before(y)
    BY <1>5, Zenon
  <2>2. /\ Cardinality(Before(y)) <= Cardinality(Before(x))
        /\ Cardinality(Before(x)) # Cardinality(Before(y))
    <3>1. IsFiniteSet(Before(x)) /\ Before(y) \in SUBSET Before(x) /\ Before(x) # Before(y)
      BY <1>1, <2>1
    <3>. HIDE DEF Before
    <3>. QED  BY <3>1, FS_Subset
  <2>3. n <= Cardinality(Before(y))
    <3>. HIDE DEF Before
    <3>. QED  BY <1>3
  <2>4. Cardinality(Before(y)) \in Nat /\ Cardinality(Before(x)) \in Nat
    BY <1>1
  <2>. HIDE DEF Before
  <2>. QED  BY <1>4, <2>2, <2>3, <2>4
<1>. QED  BY <1>5

------------------------------------------------------------------------------
(* The order of the messages.                                              *)

LEMMA MailOrder ==
  /\ \A m, n \in Mails : Older(m, n) <=> Precedes(n, m)
  /\ \A m \in Mails : ~Precedes(m, m)
  /\ \A m, n \in Mails : ~(Precedes(m, n) /\ Precedes(n, m))
  /\ \A m, n, o \in Mails : Precedes(m, n) /\ Precedes(n, o) => Precedes(m, o)
  /\ \A m, n \in Mails : m = n \/ Precedes(m, n) \/ Precedes(n, m)
<1>1. \A m \in Mails : CreatedAt[m] \in Nat /\ IdOrder[m] \in Nat
  BY ListingAssumption
<1>2. \A m, n \in Mails : IdOrder[m] = IdOrder[n] => m = n
  BY ListingAssumption
<1>. QED  BY <1>1, <1>2 DEF Older, Precedes

LEMMA LastOfPage ==
  ASSUME NEW P \in SUBSET Mails, P # {}
  PROVE  NextCursor(P) \in P /\ \A n \in P : n = NextCursor(P) \/ Precedes(n, NextCursor(P))
<1>. DEFINE R == {x \in Mails \X Mails : Precedes(x[2], x[1])}
<1>1. IsFiniteSet(P)
  BY FS_Subset, ListingAssumption
<1>2. \A x, y \in Mails : <<x, y>> \in R <=> Precedes(y, x)
  OBVIOUS
<1>3. \E x \in P : \A y \in P : y = x \/ <<x, y>> \in R
  <2>. HIDE DEF R
  <2>1. /\ \A x \in P : <<x, x>> \notin R
        /\ \A x, y, z \in P : <<x, y>> \in R /\ <<y, z>> \in R => <<x, z>> \in R
        /\ \A x, y \in P : x = y \/ <<x, y>> \in R \/ <<y, x>> \in R
    BY <1>2, MailOrder
  <2>. QED  BY <1>1, <2>1, FirstElement
<1>4. \E x \in P : \A y \in P : y = x \/ Precedes(y, x)
  BY <1>2, <1>3
<1>. QED  BY <1>4 DEF NextCursor

\* The first page of a set that is not empty is not empty.
LEMMA SomeFirst ==
  ASSUME NEW C \in SUBSET Mails, C # {}
  PROVE  FirstOf(C) # {}
<1>. DEFINE R == {x \in Mails \X Mails : Precedes(x[1], x[2])}
<1>1. IsFiniteSet(C)
  BY FS_Subset, ListingAssumption
<1>2. \A x, y \in Mails : <<x, y>> \in R <=> Precedes(x, y)
  OBVIOUS
<1>3. \E x \in C : \A y \in C : y = x \/ <<x, y>> \in R
  <2>. HIDE DEF R
  <2>1. /\ \A x \in C : <<x, x>> \notin R
        /\ \A x, y, z \in C : <<x, y>> \in R /\ <<y, z>> \in R => <<x, z>> \in R
        /\ \A x, y \in C : x = y \/ <<x, y>> \in R \/ <<y, x>> \in R
    BY <1>2, MailOrder
  <2>. QED  BY <1>1, <2>1, FirstElement
<1>4. PICK m \in C : \A y \in C : y = m \/ Precedes(m, y)
  BY <1>2, <1>3
<1>5. {n \in C : Precedes(n, m)} = {}
  BY <1>4, MailOrder
<1>6. m \in FirstOf(C)
  <2>1. Cardinality({n \in C : Precedes(n, m)}) = 0
    BY <1>5, FS_EmptySet
  <2>. QED  BY <1>4, <2>1, ListingAssumption DEF FirstOf
<1>. QED  BY <1>6

\* What is left for the next pages lies behind the cursor.
LEMMA RestIsOlder ==
  ASSUME NEW C \in SUBSET Mails, NEW m \in C, m \notin FirstOf(C)
  PROVE  FirstOf(C) # {} /\ Older(m, NextCursor(FirstOf(C)))
<1>. DEFINE Before(x) == {n \in C : Precedes(n, x)}
<1>1. \A x \in C : IsFiniteSet(Before(x)) /\ Cardinality(Before(x)) \in Nat
  <2>. SUFFICES ASSUME NEW x \in C
                PROVE  IsFiniteSet(Before(x)) /\ Cardinality(Before(x)) \in Nat
    OBVIOUS
  <2>1. Before(x) \in SUBSET Mails
    OBVIOUS
  <2>. HIDE DEF Before
  <2>2. IsFiniteSet(Before(x))
    BY <2>1, FS_Subset, ListingAssumption
  <2>. QED  BY <2>2, FS_CardinalityType
<1>2. FirstOf(C) # {} /\ FirstOf(C) \in SUBSET Mails
  BY SomeFirst DEF FirstOf
<1>3. PICK p \in C : p = NextCursor(FirstOf(C)) /\ p \in FirstOf(C)
  BY <1>2, LastOfPage DEF FirstOf
<1>4. ~(Cardinality(Before(m)) < PerPage) /\ Cardinality(Before(p)) < PerPage
  BY <1>3 DEF FirstOf
<1>5. ASSUME Precedes(m, p) PROVE FALSE
  <2>1. Before(m) \in SUBSET Before(p)
    BY <1>5, MailOrder
  <2>2. Cardinality(Before(m)) <= Cardinality(Before(p))
    <3>1. IsFiniteSet(Before(p))
      BY <1>1
    <3>. HIDE DEF Before
    <3>. QED  BY <2>1, <3>1, FS_Subset
  <2>. QED  BY <1>1, <1>4, <2>2, ListingAssumption
<1>6. m # p
  BY <1>3
<1>. QED  BY <1>2, <1>3, <1>5, <1>6, MailOrder

------------------------------------------------------------------------------
\* Whether a page with the cursor c may contain m.
Beyond(m, c) == c # NoMail => Older(m, c)

\* What has been read of the mail that is still listed is on the page, or
\* behind its cursor.
QueryInv(k) ==
  LET q == query[k]
  IN  /\ q.still \subseteq Shown(k[1], mail)
      /\ q.state = "read" =>
           /\ \A m \in q.page : Beyond(m, k[3])
           /\ \A m \in q.still : Beyond(m, k[3]) =>
                m \in q.page \/ (q.page # {} /\ Older(m, NextCursor(q.page)))

\* What a walker has been given lies before its cursor; what it is owed and has
\* not been given lies behind, and is in every page being read.
WalkInv(r) ==
  LET w == walk[r]
  IN  /\ ~w.again
      /\ w.state = "off" => w.still = {} /\ w.got = {}
      /\ w.state # "off" => w.key \in PageKeys
      /\ w.state \in {"ready", "wait"} =>
           IF w.key[3] = NoMail THEN w.got = {} /\ w.still = {}
           ELSE /\ \A m \in w.got : m = w.key[3] \/ Precedes(m, w.key[3])
                /\ \A m \in w.still : m \in w.got \/ Older(m, w.key[3])
                /\ w.still \subseteq Shown(w.key[1], mail)
                /\ \A k \in PageKeys : k[1] = w.key[1] /\ query[k].state = "read" =>
                     w.still \subseteq query[k].still
      /\ w.state = "done" => w.still \subseteq w.got

ListInv ==
  /\ ListTypeOK
  /\ \A k \in PageKeys : QueryInv(k)
  /\ \A r \in Walkers : WalkInv(r)

QueryType == [state : {"none", "asked", "found", "read", "lost"},
              page : SUBSET Mails, still : SUBSET Mails]
WalkType == [state : {"off", "ready", "wait", "done", "lost"}, key : PageKeys \cup {<<>>},
             got : SUBSET Mails, still : SUBSET Mails, again : BOOLEAN]

LEMMA ListParts ==
  ASSUME ListTypeOK
  PROVE  /\ query \in [PageKeys -> QueryType] /\ walk \in [Walkers -> WalkType]
         /\ mail \in [Mails -> [state : {"coming", "here", "gone"}, seen : BOOLEAN]]
         /\ turns \in 0..MaxTurns
         /\ \A k \in PageKeys : /\ query[k] \in QueryType /\ query[k].page \in SUBSET Mails
                                /\ query[k].still \in SUBSET Mails
         /\ \A r \in Walkers : /\ walk[r] \in WalkType /\ walk[r].got \in SUBSET Mails
                               /\ walk[r].still \in SUBSET Mails /\ walk[r].again \in BOOLEAN
                               /\ walk[r].state \in {"off", "ready", "wait", "done", "lost"}
<1>1. query \in [PageKeys -> QueryType] /\ walk \in [Walkers -> WalkType]
  BY DEF ListTypeOK, QueryType, WalkType
<1>2. \A k \in PageKeys : /\ query[k] \in QueryType /\ query[k].page \in SUBSET Mails
                          /\ query[k].still \in SUBSET Mails
  BY <1>1 DEF QueryType
<1>3. \A r \in Walkers : /\ walk[r] \in WalkType /\ walk[r].got \in SUBSET Mails
                         /\ walk[r].still \in SUBSET Mails /\ walk[r].again \in BOOLEAN
                         /\ walk[r].state \in {"off", "ready", "wait", "done", "lost"}
  BY <1>1 DEF WalkType
<1>. QED  BY <1>1, <1>2, <1>3 DEF ListTypeOK

LEMMA KeyParts ==
  ASSUME NEW k \in PageKeys
  PROVE  /\ k = <<k[1], k[2], k[3]>> /\ k[3] \in Cursors
         /\ \A c \in Cursors : <<k[1], k[2], c>> \in PageKeys
BY DEF PageKeys

LEMMA ListInitially == ListInit => ListInv
<1>. SUFFICES ASSUME ListInit PROVE ListInv
  OBVIOUS
<1>1. ListTypeOK
  <2>1. NoQuery \in QueryType /\ NoWalk \in WalkType
    BY DEF NoQuery, QueryType, NoWalk, WalkType
  <2>. QED  BY <2>1, ListingAssumption DEF ListInit, ListTypeOK, QueryType, WalkType
<1>2. \A k \in PageKeys : QueryInv(k)
  BY DEF ListInit, QueryInv, NoQuery
<1>3. \A r \in Walkers : WalkInv(r)
  BY DEF ListInit, WalkInv, NoWalk
<1>. QED  BY <1>1, <1>2, <1>3 DEF ListInv

------------------------------------------------------------------------------
LEMMA ArriveStep ==
  ASSUME ListInv, NEW m \in Mails, Arrive(m)
  PROVE  ListInv'
<1>. USE ListParts DEF ListInv
<1>1. \A f : Shown(f, mail) \subseteq Shown(f, mail')
  BY DEF Arrive, Shown
<1>2. query' = query /\ walk' = walk /\ turns' = turns
  BY DEF Arrive
<1>3. ListTypeOK'
  <2>1. mail' \in [Mails -> [state : {"coming", "here", "gone"}, seen : BOOLEAN]]
    BY DEF Arrive
  <2>. QED  BY <1>2, <2>1 DEF ListTypeOK
<1>4. \A k \in PageKeys : QueryInv(k)'
  BY <1>1, <1>2 DEF QueryInv, Beyond
<1>5. \A r \in Walkers : WalkInv(r)'
  BY <1>1, <1>2 DEF WalkInv
<1>. QED  BY <1>3, <1>4, <1>5

\* A message that leaves the list is struck from what is still owed, and from
\* nothing else.
LEMMA RemainingFields ==
  ASSUME ListInv, NEW box, Remaining(box)
  PROVE  /\ \A k \in PageKeys : query'[k].state = query[k].state /\ query'[k].page = query[k].page
              /\ query'[k].still = query[k].still \cap Shown(k[1], box)
         /\ \A r \in Walkers : /\ walk'[r].state = walk[r].state /\ walk'[r].key = walk[r].key
                               /\ walk'[r].got = walk[r].got /\ walk'[r].again = walk[r].again
                               /\ walk'[r].still = IF walk[r].still = {} THEN {}
                                    ELSE walk[r].still \cap Shown(walk[r].key[1], box)
<1>1. ASSUME NEW k \in PageKeys
      PROVE  query'[k].state = query[k].state /\ query'[k].page = query[k].page
             /\ query'[k].still = query[k].still \cap Shown(k[1], box)
  <2>1. query'[k] = [query[k] EXCEPT !.still = @ \cap Shown(k[1], box)]
    BY DEF Remaining
  <2>2. query[k] \in QueryType
    BY ListParts DEF ListInv
  <2>. QED  BY <2>1, <2>2 DEF QueryType
<1>2. ASSUME NEW r \in Walkers
      PROVE  /\ walk'[r].state = walk[r].state /\ walk'[r].key = walk[r].key
             /\ walk'[r].got = walk[r].got /\ walk'[r].again = walk[r].again
             /\ walk'[r].still = IF walk[r].still = {} THEN {}
                  ELSE walk[r].still \cap Shown(walk[r].key[1], box)
  <2>1. walk'[r] = IF walk[r].still = {} THEN walk[r]
                   ELSE [walk[r] EXCEPT !.still = @ \cap Shown(walk[r].key[1], box)]
    BY DEF Remaining
  <2>2. walk[r] \in WalkType
    BY ListParts DEF ListInv
  <2>3. CASE walk[r].still = {}
    BY <2>1, <2>3
  <2>4. CASE walk[r].still # {}
    <3>1. walk'[r] = [walk[r] EXCEPT !.still = @ \cap Shown(walk[r].key[1], box)]
      BY <2>1, <2>4
    <3>. QED  BY <2>2, <2>4, <3>1 DEF WalkType
  <2>. QED  BY <2>3, <2>4
<1>. QED  BY <1>1, <1>2

LEMMA LeaveStep ==
  ASSUME ListInv, NEW m \in Mails, Leave(m) \/ TurnSeen(m)
  PROVE  ListInv'
<1>. USE ListParts DEF ListInv
<1>1. mail' \in [Mails -> [state : {"coming", "here", "gone"}, seen : BOOLEAN]]
  <2>. DEFINE T == [state : {"coming", "here", "gone"}, seen : BOOLEAN]
  <2>1. mail[m] \in T
    OBVIOUS
  <2>2. [mail[m] EXCEPT !.state = "gone"] \in T /\ [mail[m] EXCEPT !.seen = ~@] \in T
    BY <2>1
  <2>3. \/ mail' = [mail EXCEPT ![m] = [mail[m] EXCEPT !.state = "gone"]]
        \/ mail' = [mail EXCEPT ![m] = [mail[m] EXCEPT !.seen = ~@]]
    BY DEF Leave, TurnSeen
  <2>. QED  BY <2>2, <2>3
<1>2. Remaining(mail') /\ turns' \in 0..MaxTurns
  BY ListingAssumption DEF Leave, TurnSeen
<1>3. ListTypeOK'
  <2>1. query' \in [PageKeys -> QueryType]
    <3>1. \A k \in PageKeys :
            [query[k] EXCEPT !.still = @ \cap Shown(k[1], mail')] \in QueryType
      BY DEF QueryType
    <3>. QED  BY <1>2, <3>1 DEF Remaining
  <2>2. walk' \in [Walkers -> WalkType]
    <3>1. \A r \in Walkers :
            [walk[r] EXCEPT !.still = @ \cap Shown(walk[r].key[1], mail')] \in WalkType
      BY DEF WalkType
    <3>. QED  BY <1>2, <3>1 DEF Remaining
  <2>. QED  BY <1>1, <1>2, <2>1, <2>2 DEF ListTypeOK, QueryType, WalkType
<1>4. /\ \A k \in PageKeys : query'[k].state = query[k].state /\ query'[k].page = query[k].page
           /\ query'[k].still = query[k].still \cap Shown(k[1], mail')
      /\ \A r \in Walkers : /\ walk'[r].state = walk[r].state /\ walk'[r].key = walk[r].key
                            /\ walk'[r].got = walk[r].got /\ walk'[r].again = walk[r].again
                            /\ walk'[r].still = IF walk[r].still = {} THEN {}
                                 ELSE walk[r].still \cap Shown(walk[r].key[1], mail')
  <2>. HIDE DEF ListInv
  <2>. QED  BY <1>2, RemainingFields
<1>5. ASSUME NEW k \in PageKeys PROVE QueryInv(k)'
  BY <1>4 DEF QueryInv, Beyond
<1>6. ASSUME NEW r \in Walkers PROVE WalkInv(r)'
  <2>1. WalkInv(r)
    OBVIOUS
  <2>2. /\ walk'[r].still \subseteq walk[r].still
        /\ walk'[r].still \subseteq Shown(walk[r].key[1], mail')
    BY <1>4
  <2>3. \A k \in PageKeys :
          k[1] = walk[r].key[1] /\ walk[r].still \subseteq query[k].still
          => walk'[r].still \subseteq query'[k].still
    BY <1>4, <2>2
  <2>4. ~walk'[r].again /\ (walk'[r].state # "off" => walk'[r].key \in PageKeys)
    BY <1>4, <2>1 DEF WalkInv
  <2>5. /\ walk'[r].state = "off" => walk'[r].still = {} /\ walk'[r].got = {}
        /\ walk'[r].state = "done" => walk'[r].still \subseteq walk'[r].got
    BY <1>4, <2>1, <2>2 DEF WalkInv
  <2>6. ASSUME walk[r].state \in {"ready", "wait"}, walk[r].key[3] = NoMail
        PROVE  walk'[r].got = {} /\ walk'[r].still = {}
    BY <1>4, <2>1, <2>2, <2>6 DEF WalkInv
  <2>7. ASSUME walk[r].state \in {"ready", "wait"}, walk[r].key[3] # NoMail
        PROVE  /\ \A n \in walk'[r].got : n = walk[r].key[3] \/ Precedes(n, walk[r].key[3])
               /\ \A n \in walk'[r].still : n \in walk'[r].got \/ Older(n, walk[r].key[3])
               /\ \A k \in PageKeys : k[1] = walk[r].key[1] /\ query'[k].state = "read" =>
                    walk'[r].still \subseteq query'[k].still
    <3>. HIDE DEF ListInv
    <3>1. /\ \A n \in walk[r].got : n = walk[r].key[3] \/ Precedes(n, walk[r].key[3])
          /\ \A n \in walk[r].still : n \in walk[r].got \/ Older(n, walk[r].key[3])
          /\ \A k \in PageKeys : k[1] = walk[r].key[1] /\ query[k].state = "read" =>
               walk[r].still \subseteq query[k].still
      BY <2>1, <2>7 DEF WalkInv
    <3>2. walk'[r].got = walk[r].got /\ \A k \in PageKeys : query'[k].state = query[k].state
      BY <1>4
    <3>3. \A n \in walk'[r].got : n = walk[r].key[3] \/ Precedes(n, walk[r].key[3])
      BY <3>1, <3>2
    <3>4. \A n \in walk'[r].still : n \in walk'[r].got \/ Older(n, walk[r].key[3])
      BY <2>2, <3>1, <3>2
    <3>5. ASSUME NEW k \in PageKeys, k[1] = walk[r].key[1], query'[k].state = "read"
          PROVE  walk'[r].still \subseteq query'[k].still
      BY <2>3, <3>1, <3>2, <3>5
    <3>. QED  BY <3>3, <3>4, <3>5
  <2>8. walk'[r].state = walk[r].state /\ walk'[r].key = walk[r].key
    BY <1>4
  <2>. QED  BY <2>2, <2>4, <2>5, <2>6, <2>7, <2>8 DEF WalkInv
<1>. QED  BY <1>3, <1>5, <1>6

LEMMA WalkerStep ==
  ASSUME ListInv, NEW r \in Walkers, Begin(r) \/ Ask(r) \/ GiveUp(r)
  PROVE  ListInv'
<1>. USE ListParts DEF ListInv
<1>0. mail' = mail /\ turns' = turns /\ \A q \in Walkers : q # r => walk'[q] = walk[q]
  BY DEF Begin, Ask, GiveUp
<1>1. CASE Begin(r)
  <2>1. PICK k \in Kinds :
          walk' = [walk EXCEPT ![r] = [walk[r] EXCEPT !.state = "ready",
                                                      !.key = <<k[1], k[2], NoMail>>]]
    BY <1>1 DEF Begin
  <2>2. <<k[1], k[2], NoMail>> \in PageKeys
    BY DEF PageKeys, Cursors
  <2>3. [walk[r] EXCEPT !.state = "ready", !.key = <<k[1], k[2], NoMail>>] \in WalkType
    BY <2>2 DEF WalkType
  <2>4. query' = query
    BY <1>1 DEF Begin
  <2>5. ListTypeOK'
    <3>1. walk' \in [Walkers -> WalkType]
      BY <2>1, <2>3
    <3>. QED  BY <1>0, <2>4, <3>1 DEF ListTypeOK, WalkType
  <2>6. /\ walk'[r].state = "ready" /\ walk'[r].key = <<k[1], k[2], NoMail>>
        /\ walk'[r].got = walk[r].got /\ walk'[r].still = walk[r].still
        /\ walk'[r].again = walk[r].again /\ walk[r].state = "off"
    BY <1>1, <2>1 DEF WalkType, Begin
  <2>7. WalkInv(r)'
    BY <2>2, <2>6 DEF WalkInv
  <2>8. \A q \in Walkers : q # r => WalkInv(q)'
    BY <1>0, <2>4 DEF WalkInv
  <2>9. \A c \in PageKeys : QueryInv(c)'
    BY <1>0, <2>4 DEF QueryInv, Beyond
  <2>. QED  BY <2>5, <2>7, <2>8, <2>9
<1>2. CASE Ask(r)
  <2>. DEFINE k == walk[r].key
  <2>1. /\ walk[r].state = "ready" /\ walk' = [walk EXCEPT ![r] = [walk[r] EXCEPT !.state = "wait"]]
        /\ \/ query' = query
           \/ query[k].state = "none"
                /\ query' = [query EXCEPT ![k] = [query[k] EXCEPT !.state = "asked"]]
    BY <1>2 DEF Ask
  <2>2. k \in PageKeys
    BY <2>1 DEF WalkInv
  <2>3. ListTypeOK'
    <3>1. [walk[r] EXCEPT !.state = "wait"] \in WalkType
      BY DEF WalkType
    <3>2. [query[k] EXCEPT !.state = "asked"] \in QueryType
      BY <2>2 DEF QueryType
    <3>3. walk' \in [Walkers -> WalkType] /\ query' \in [PageKeys -> QueryType]
      BY <2>1, <3>1, <3>2
    <3>. QED  BY <1>0, <3>3 DEF ListTypeOK, QueryType, WalkType
  <2>4. /\ walk'[r].state = "wait" /\ walk'[r].key = k /\ walk'[r].got = walk[r].got
        /\ walk'[r].still = walk[r].still /\ walk'[r].again = walk[r].again
    BY <2>1 DEF WalkType
  <2>5. \A c \in PageKeys : /\ query'[c].still = query[c].still /\ query'[c].page = query[c].page
                            /\ query'[c].state = query[c].state \/ query'[c].state = "asked"
    BY <2>1, <2>2 DEF QueryType
  <2>6. \A c \in PageKeys : QueryInv(c)'
    BY <1>0, <2>5 DEF QueryInv, Beyond
  <2>7. WalkInv(r)'
    BY <1>0, <2>1, <2>4, <2>5 DEF WalkInv
  <2>8. \A q \in Walkers : q # r => WalkInv(q)'
    BY <1>0, <2>5 DEF WalkInv
  <2>. QED  BY <2>3, <2>6, <2>7, <2>8
<1>3. CASE GiveUp(r)
  <2>1. /\ walk[r].state = "wait" /\ query' = query
        /\ walk' = [walk EXCEPT ![r] = [walk[r] EXCEPT !.state = "lost"]]
    BY <1>3 DEF GiveUp
  <2>2. ListTypeOK'
    <3>1. [walk[r] EXCEPT !.state = "lost"] \in WalkType
      BY DEF WalkType
    <3>2. walk' \in [Walkers -> WalkType]
      BY <2>1, <3>1
    <3>. QED  BY <1>0, <2>1, <3>2 DEF ListTypeOK, WalkType
  <2>3. /\ walk'[r].state = "lost" /\ walk'[r].key = walk[r].key
        /\ walk'[r].again = walk[r].again
    BY <2>1 DEF WalkType
  <2>4. WalkInv(r)'
    BY <2>1, <2>3 DEF WalkInv
  <2>5. \A q \in Walkers : q # r => WalkInv(q)'
    BY <1>0, <2>1 DEF WalkInv
  <2>6. \A c \in PageKeys : QueryInv(c)'
    BY <1>0, <2>1 DEF QueryInv, Beyond
  <2>. QED  BY <2>2, <2>4, <2>5, <2>6
<1>. QED  BY <1>1, <1>2, <1>3

LEMMA PageFound ==
  ASSUME ListInv, NEW k \in PageKeys, FindCursor(k)
  PROVE  ListInv'
<1>. USE ListParts DEF ListInv
<1>1. PICK st \in {"found", "lost"} : query' = [query EXCEPT ![k] = [query[k] EXCEPT !.state = st]]
  BY DEF FindCursor
<1>2. mail' = mail /\ walk' = walk /\ turns' = turns
  BY DEF FindCursor
<1>3. [query[k] EXCEPT !.state = st] \in QueryType
  BY DEF QueryType
<1>4. query' \in [PageKeys -> QueryType]
  BY <1>1, <1>3
<1>5. ListTypeOK'
  BY <1>2, <1>4 DEF ListTypeOK, QueryType
<1>6. \A c \in PageKeys : /\ query'[c].still = query[c].still /\ query'[c].page = query[c].page
                          /\ query'[c].state = query[c].state \/ query'[c].state # "read"
  BY <1>1 DEF QueryType
<1>7. \A c \in PageKeys : QueryInv(c)'
  BY <1>2, <1>6 DEF QueryInv, Beyond
<1>8. \A r \in Walkers : WalkInv(r)'
  BY <1>2, <1>6 DEF WalkInv
<1>. QED  BY <1>5, <1>7, <1>8

LEMMA ReadStep ==
  ASSUME ListInv, NEW k \in PageKeys, ReadPage(k)
  PROVE  ListInv'
<1>. USE ListParts DEF ListInv
<1>. DEFINE C == Candidates(k, mail)
<1>. DEFINE S == Shown(k[1], mail)
<1>1. /\ query' = [query EXCEPT ![k] = [state |-> "read", page |-> FirstOf(C), still |-> S]]
      /\ mail' = mail /\ walk' = walk /\ turns' = turns
  BY DEF ReadPage
<1>2. /\ C \in SUBSET Mails /\ FirstOf(C) \subseteq C /\ S \in SUBSET Mails
      /\ \A m : m \in C <=> m \in S /\ Beyond(m, k[3])
  BY DEF Candidates, FirstOf, Shown, Beyond
<1>3. [state |-> "read", page |-> FirstOf(C), still |-> S] \in QueryType
  BY <1>2 DEF QueryType
<1>4. query' \in [PageKeys -> QueryType]
  BY <1>1, <1>3
<1>5. ListTypeOK'
  BY <1>1, <1>4 DEF ListTypeOK, QueryType
<1>6. /\ query'[k].state = "read" /\ query'[k].page = FirstOf(C) /\ query'[k].still = S
      /\ \A c \in PageKeys : c # k => query'[c] = query[c]
  BY <1>1
<1>7. QueryInv(k)'
  <2>1. \A m \in FirstOf(C) : Beyond(m, k[3])
    BY <1>2
  <2>2. \A m \in S : Beyond(m, k[3]) =>
          m \in FirstOf(C) \/ (FirstOf(C) # {} /\ Older(m, NextCursor(FirstOf(C))))
    BY <1>2, RestIsOlder
  <2>. HIDE DEF C
  <2>. QED  BY <1>1, <1>6, <2>1, <2>2 DEF QueryInv, Beyond
<1>8. \A c \in PageKeys : c # k => QueryInv(c)'
  BY <1>1, <1>6 DEF QueryInv, Beyond
<1>9. ASSUME NEW r \in Walkers PROVE WalkInv(r)'
  <2>1. WalkInv(r) /\ walk'[r] = walk[r]
    BY <1>1
  <2>2. ASSUME walk[r].state \in {"ready", "wait"}, walk[r].key[3] # NoMail, NEW c \in PageKeys,
               c[1] = walk[r].key[1], query'[c].state = "read"
        PROVE  walk[r].still \subseteq query'[c].still
    BY <1>6, <2>1, <2>2 DEF WalkInv
  <2>. QED  BY <1>1, <2>1, <2>2 DEF WalkInv
<1>. QED  BY <1>5, <1>7, <1>8, <1>9

------------------------------------------------------------------------------
\* A walker that has been given the page of key k.
Fits(w, k) ==
  /\ w \in WalkType /\ ~w.again /\ w.key \in PageKeys /\ w.key[1] = k[1]
  /\ w.state \in {"ready", "done"}
  /\ w.state = "done" => w.still \subseteq w.got
  /\ w.state = "ready" =>
       /\ w.key[3] # NoMail
       /\ \A m \in w.got : m = w.key[3] \/ Precedes(m, w.key[3])
       /\ \A m \in w.still : m \in w.got \/ Older(m, w.key[3])
  /\ w.still \subseteq Shown(k[1], mail)
  /\ \A c \in PageKeys : c[1] = k[1] /\ query[c].state = "read" => w.still \subseteq query[c].still

LEMMA GivenFits ==
  ASSUME ListInv, NEW k \in PageKeys, NEW r \in Walkers, query[k].state = "read",
         walk[r].state = "wait", walk[r].key = k
  PROVE  Fits(Given(r, k), k)
<1>. USE ListParts DEF ListInv
<1>. DEFINE P == query[k].page
<1>. DEFINE St == IF k[3] = NoMail THEN Owed(k) ELSE walk[r].still
<1>. DEFINE w == Given(r, k)
<1>0. /\ P \in SUBSET Mails /\ walk[r] \in WalkType /\ walk[r].got \in SUBSET Mails
      /\ walk[r].again = FALSE
      /\ \A m \in P : Beyond(m, k[3])
      /\ \A m \in query[k].still : Beyond(m, k[3]) =>
           m \in P \/ (P # {} /\ Older(m, NextCursor(P)))
      /\ query[k].still \subseteq Shown(k[1], mail)
  BY DEF QueryInv, WalkInv
<1>1. CASE k[3] = NoMail
  <2>1. walk[r].got = {} /\ walk[r].still = {}
    BY <1>1 DEF WalkInv
  <2>2. /\ St \subseteq query[k].still /\ St \in SUBSET Mails
        /\ \A c \in PageKeys : c[1] = k[1] /\ query[c].state = "read" =>
             St \subseteq query[c].still
    BY <1>1 DEF Owed
  <2>3. \A m \in St : Beyond(m, k[3])
    BY <1>1 DEF Beyond
  <2>. QED
    <3>1. /\ w.again = FALSE /\ w.still = St /\ w.got = P
          /\ w.state = IF P = {} THEN "done" ELSE "ready"
          /\ w.key = IF P = {} THEN k ELSE <<k[1], k[2], NextCursor(P)>>
      BY <1>0, <1>1, <2>1 DEF Given, WalkType
    <3>2. P # {} => /\ NextCursor(P) \in P
                    /\ \A n \in P : n = NextCursor(P) \/ Precedes(n, NextCursor(P))
      BY <1>0, LastOfPage
    <3>3. w.key \in PageKeys /\ w.key[1] = k[1] /\ (P # {} => w.key[3] = NextCursor(P))
      BY <1>0, <3>1, <3>2, KeyParts DEF Cursors
    <3>4. w \in WalkType
      <4>1. w.again \in BOOLEAN /\ w.still \in SUBSET Mails /\ w.got \in SUBSET Mails
            /\ w.state \in {"off", "ready", "wait", "done", "lost"}
        BY <1>0, <2>2, <3>1
      <4>2. w = [walk[r] EXCEPT !.state = w.state, !.key = w.key, !.got = w.got,
                                !.again = w.again, !.still = w.still]
        BY <1>0 DEF Given, WalkType
      <4>. HIDE DEF w
      <4>. QED  BY <1>0, <3>3, <4>1, <4>2 DEF WalkType
    <3>5. P # {} => NextCursor(P) # NoMail
      BY <1>0, <3>2, ListingAssumption
    <3>6. \A m \in St : m \in P \/ (P # {} /\ Older(m, NextCursor(P)))
      BY <1>0, <2>2, <2>3
    <3>7. St \subseteq Shown(k[1], mail)
      BY <1>0, <2>2
    <3>8. Fits(w, k)
      <4>. HIDE DEF w, P, St
      <4>. QED  BY <2>2, <3>1, <3>2, <3>3, <3>4, <3>5, <3>6, <3>7 DEF Fits
    <3>. QED  BY <3>8
<1>2. CASE k[3] # NoMail
  <2>0. k[3] \in Mails
    BY <1>2, KeyParts DEF Cursors
  <2>1. /\ \A m \in walk[r].got : m = k[3] \/ Precedes(m, k[3])
        /\ \A m \in walk[r].still : m \in walk[r].got \/ Older(m, k[3])
        /\ walk[r].still \subseteq Shown(k[1], mail)
        /\ \A c \in PageKeys : c[1] = k[1] /\ query[c].state = "read" =>
             walk[r].still \subseteq query[c].still
    BY <1>2 DEF WalkInv
  <2>2. walk[r].got \cap P = {}
    BY <1>0, <1>2, <2>0, <2>1, MailOrder DEF Beyond
  <2>. QED
    <3>1. /\ w.again = FALSE /\ w.still = walk[r].still /\ w.got = walk[r].got \cup P
          /\ w.state = IF P = {} THEN "done" ELSE "ready"
          /\ w.key = IF P = {} THEN k ELSE <<k[1], k[2], NextCursor(P)>>
      BY <1>0, <1>2, <2>2 DEF Given, WalkType
    <3>2. P # {} => /\ NextCursor(P) \in P
                    /\ \A n \in P : n = NextCursor(P) \/ Precedes(n, NextCursor(P))
      BY <1>0, LastOfPage
    <3>3. w.key \in PageKeys /\ w.key[1] = k[1] /\ (P # {} => w.key[3] = NextCursor(P))
      BY <1>0, <3>1, <3>2, KeyParts DEF Cursors
    <3>4. w \in WalkType
      <4>1. w.again \in BOOLEAN /\ w.still \in SUBSET Mails /\ w.got \in SUBSET Mails
            /\ w.state \in {"off", "ready", "wait", "done", "lost"}
        BY <1>0, <3>1
      <4>2. w = [walk[r] EXCEPT !.state = w.state, !.key = w.key, !.got = w.got,
                                !.again = w.again, !.still = w.still]
        BY <1>0 DEF Given, WalkType
      <4>. HIDE DEF w
      <4>. QED  BY <1>0, <3>3, <4>1, <4>2 DEF WalkType
    <3>5. P # {} => /\ NextCursor(P) # NoMail /\ NextCursor(P) \in Mails
                    /\ Precedes(k[3], NextCursor(P))
      BY <1>0, <1>2, <2>0, <3>2, MailOrder, ListingAssumption DEF Beyond
    <3>6. P # {} => \A m \in w.got : m = NextCursor(P) \/ Precedes(m, NextCursor(P))
      BY <1>0, <2>0, <2>1, <3>1, <3>2, <3>5, MailOrder
    <3>7. \A m \in walk[r].still :
            m \in walk[r].got \/ m \in P \/ (P # {} /\ Older(m, NextCursor(P)))
      BY <1>0, <2>1 DEF Beyond
    <3>8. Fits(w, k)
      <4>. HIDE DEF w, P
      <4>. QED  BY <2>1, <3>1, <3>3, <3>4, <3>5, <3>6, <3>7 DEF Fits
    <3>. QED  BY <3>8
<1>. QED  BY <1>1, <1>2

LEMMA LandStep ==
  ASSUME ListInv, NEW k \in PageKeys, Land(k)
  PROVE  ListInv'
<1>. USE ListParts DEF ListInv
<1>0. mail' = mail /\ turns' = turns /\ query' = [query EXCEPT ![k] = NoQuery]
  BY DEF Land
<1>1. PICK outcome \in {"error", "read", "lost"} :
        /\ outcome # "error" => query[k].state = outcome
        /\ walk' = [r \in Walkers |->
             IF walk[r].state # "wait" \/ walk[r].key # k THEN walk[r]
             ELSE CASE outcome = "read"  -> Given(r, k)
                    [] outcome = "lost"  -> [walk[r] EXCEPT !.state = "lost"]
                    [] outcome = "error" -> [walk[r] EXCEPT !.state = "ready"]]
  BY DEF Land
<1>2. query'[k] = NoQuery /\ \A c \in PageKeys : c # k => query'[c] = query[c]
  BY <1>0
<1>3. ASSUME NEW r \in Walkers PROVE walk'[r] \in WalkType /\ WalkInv(r)'
  <2>0. WalkInv(r) /\ walk[r] \in WalkType
    OBVIOUS
  <2>a. \A c \in PageKeys : query'[c].state = "read" => query'[c] = query[c]
    BY <1>2 DEF NoQuery
  <2>1. CASE walk'[r] = walk[r]
    BY <1>0, <2>0, <2>1, <2>a DEF WalkInv
  <2>2. CASE walk'[r] = [walk[r] EXCEPT !.state = "lost"] /\ walk[r].state = "wait"
    <3>1. /\ walk'[r].state = "lost" /\ walk'[r].key = walk[r].key
          /\ walk'[r].again = walk[r].again /\ walk'[r] \in WalkType
      BY <2>2 DEF WalkType
    <3>. QED  BY <2>0, <2>2, <3>1 DEF WalkInv
  <2>3. CASE walk'[r] = [walk[r] EXCEPT !.state = "ready"] /\ walk[r].state = "wait"
    <3>1. /\ walk'[r].state = "ready" /\ walk'[r].key = walk[r].key
          /\ walk'[r].again = walk[r].again /\ walk'[r].got = walk[r].got
          /\ walk'[r].still = walk[r].still /\ walk'[r] \in WalkType
      BY <2>3 DEF WalkType
    <3>. QED  BY <1>0, <2>0, <2>3, <2>a, <3>1 DEF WalkInv
  <2>4. CASE /\ outcome = "read" /\ walk[r].state = "wait" /\ walk[r].key = k
             /\ walk'[r] = Given(r, k)
    <3>. DEFINE w == Given(r, k)
    <3>1. Fits(w, k) /\ walk'[r] = w
      BY <1>1, <2>4, GivenFits
    <3>. HIDE DEF w
    <3>2. /\ w.still \subseteq Shown(w.key[1], mail')
          /\ \A c \in PageKeys : c[1] = w.key[1] /\ query'[c].state = "read" =>
               w.still \subseteq query'[c].still
      BY <1>0, <2>a, <3>1 DEF Fits
    <3>. QED  BY <3>1, <3>2 DEF WalkInv, Fits
  <2>. QED  BY <1>1, <2>1, <2>2, <2>3, <2>4
<1>4. ListTypeOK'
  <2>1. walk' \in [Walkers -> WalkType]
    BY <1>1, <1>3
  <2>2. query' \in [PageKeys -> QueryType]
    <3>1. NoQuery \in QueryType
      BY DEF NoQuery, QueryType
    <3>. QED  BY <1>0, <3>1
  <2>. QED  BY <1>0, <2>1, <2>2 DEF ListTypeOK, QueryType, WalkType
<1>5. \A c \in PageKeys : QueryInv(c)'
  BY <1>0, <1>2 DEF QueryInv, NoQuery, Beyond
<1>. QED  BY <1>3, <1>4, <1>5

LEMMA ListSteps == ListInv /\ [ListNext]_listVars => ListInv'
<1>. SUFFICES ASSUME ListInv, [ListNext]_listVars PROVE ListInv'
  OBVIOUS
<1>1. CASE UNCHANGED listVars
  <2>1. UNCHANGED <<mail, query, walk, turns>>
    BY <1>1 DEF listVars
  <2>2. ListTypeOK'
    BY <2>1 DEF ListInv, ListTypeOK
  <2>3. \A k \in PageKeys : QueryInv(k)'
    BY <2>1 DEF ListInv, QueryInv, Beyond
  <2>4. \A r \in Walkers : WalkInv(r)'
    BY <2>1 DEF ListInv, WalkInv
  <2>. QED  BY <2>2, <2>3, <2>4 DEF ListInv
<1>. QED  BY <1>1, ArriveStep, LeaveStep, WalkerStep, PageFound, ReadStep, LandStep DEF ListNext

(***************************************************************************)
(* No walk is given a message twice, whatever arrives, leaves or changes   *)
(* its flags meanwhile, for every page size.                               *)
(***************************************************************************)
THEOREM NothingComesTwice == ListSpec => []NothingTwice
<1>1. ListInv => NothingTwice
  BY DEF ListInv, WalkInv, NothingTwice
<1>. QED  BY <1>1, ListInitially, ListSteps, PTL DEF ListSpec

(***************************************************************************)
(* A walk that ends has been given every message that was listed all the   *)
(* time, for every page size and however many share its queries.           *)
(***************************************************************************)
THEOREM NothingIsSkipped == ListSpec => []NothingSkipped
<1>1. ListInv => NothingSkipped
  BY DEF ListInv, WalkInv, NothingSkipped
<1>. QED  BY <1>1, ListInitially, ListSteps, PTL DEF ListSpec

------------------------------------------------------------------------------
(* The flags seen and keep (Flags).                                        *)

FlagFunctions == UNION {[S -> BOOLEAN] : S \in SUBSET Flag}
EditType == [state : {"idle", "read", "done", "missing"}, letter : Letters \cup {{}},
             want : FlagFunctions \cup {<<>>}, set : FlagFunctions \cup {<<>>},
             saw : SUBSET (Flag \X BOOLEAN)]

\* A flag that a request asks for is either still to be written or was seen.
EditInv(e) ==
  LET r == edit[e]
  IN  /\ r.state = "read" =>
           /\ r.letter \in Letters /\ r.want \in FlagFunctions /\ r.set \in FlagFunctions
           /\ \A f \in DOMAIN r.want :
                (f \in DOMAIN r.set /\ r.set[f] = r.want[f]) \/ <<f, r.want[f]>> \in r.saw
      /\ r.state = "done" => \A f \in DOMAIN r.want : <<f, r.want[f]>> \in r.saw

FlagsInv ==
  /\ flags \in [Letters -> [Flag -> BOOLEAN]]
  /\ edit \in [Editors -> EditType]
  /\ \A e \in Editors : EditInv(e)

LEMMA FlagsInitially == FlagsInit => FlagsInv
<1>. SUFFICES ASSUME FlagsInit PROVE FlagsInv
  OBVIOUS
<1>1. NoEdit \in EditType
  BY DEF NoEdit, EditType
<1>2. NoEdit.state = "idle"
  BY DEF NoEdit
<1>. QED  BY <1>1, <1>2 DEF FlagsInit, FlagsInv, EditInv

LEMMA WantsAreFlags == Wants \subseteq FlagFunctions
BY DEF Wants, FlagFunctions, Flag

LEMMA FlagFunctionParts ==
  ASSUME NEW g \in FlagFunctions
  PROVE  DOMAIN g \subseteq Flag /\ \A f \in DOMAIN g : g[f] \in BOOLEAN
BY DEF FlagFunctions

LEMMA WithType ==
  ASSUME NEW fl \in [Flag -> BOOLEAN], NEW g \in FlagFunctions
  PROVE  /\ With(fl, g) \in [Flag -> BOOLEAN]
         /\ \A f \in DOMAIN g : <<f, g[f]>> \in Pairs(With(fl, g))
<1>1. With(fl, g) \in [Flag -> BOOLEAN]
  BY FlagFunctionParts DEF With
<1>2. \A f \in DOMAIN g : f \in Flag /\ With(fl, g)[f] = g[f]
  BY FlagFunctionParts DEF With
<1>. QED  BY <1>1, <1>2 DEF Pairs

LEMMA PairsType ==
  ASSUME NEW fl \in [Flag -> BOOLEAN]
  PROVE  Pairs(fl) \in SUBSET (Flag \X BOOLEAN)
BY DEF Pairs

\* A request that only sees more.
LEMMA SeesMore ==
  ASSUME NEW e \in Editors, FlagsInv, NEW seen \in SUBSET (Flag \X BOOLEAN),
         edit'[e] = [edit[e] EXCEPT !.saw = @ \cup seen]
  PROVE  edit'[e] \in EditType /\ EditInv(e)'
<1>1. edit[e] \in EditType /\ EditInv(e)
  BY DEF FlagsInv
<1>2. /\ edit'[e] \in EditType
      /\ edit'[e].state = edit[e].state /\ edit'[e].letter = edit[e].letter
      /\ edit'[e].want = edit[e].want /\ edit'[e].set = edit[e].set
      /\ edit[e].saw \subseteq edit'[e].saw
  BY <1>1 DEF EditType
<1>. QED  BY <1>1, <1>2 DEF EditInv

LEMMA Unedited ==
  ASSUME NEW e \in Editors, FlagsInv, edit'[e] = edit[e]
  PROVE  edit'[e] \in EditType /\ EditInv(e)'
BY DEF FlagsInv, EditInv

LEMMA WatchKeeps ==
  ASSUME FlagsInv, NEW fl \in [Letters -> [Flag -> BOOLEAN]], Watch(fl)
  PROVE  edit' \in [Editors -> EditType] /\ \A e \in Editors : EditInv(e)'
<1>1. ASSUME NEW e \in Editors PROVE edit'[e] \in EditType /\ EditInv(e)'
  <2>1. CASE edit[e].state # "read"
    BY <2>1, Unedited DEF Watch
  <2>2. CASE edit[e].state = "read"
    <3>1. edit[e].letter \in Letters
      BY <2>2 DEF FlagsInv, EditInv
    <3>2. Pairs(fl[edit[e].letter]) \in SUBSET (Flag \X BOOLEAN)
      BY <3>1, PairsType
    <3>. QED  BY <2>2, <3>2, SeesMore DEF Watch
  <2>. QED  BY <2>1, <2>2
<1>. QED  BY <1>1 DEF Watch

LEMMA ReadLetterStep ==
  ASSUME FlagsInv, NEW e \in Editors, ReadLetter(e)
  PROVE  FlagsInv'
<1>1. PICK m \in Letters, want \in Wants :
        edit' = [edit EXCEPT ![e] =
                   IF m \in here
                   THEN [state |-> "read", letter |-> m, want |-> want,
                         set |-> ToSet(m, want), saw |-> Pairs(flags[m])]
                   ELSE [NoEdit EXCEPT !.state = "missing"]]
  BY DEF ReadLetter
<1>2. /\ edit \in [Editors -> EditType] /\ flags \in [Letters -> [Flag -> BOOLEAN]]
      /\ flags' = flags /\ want \in FlagFunctions
      /\ \A i \in Editors : i # e => edit'[i] = edit[i]
  BY <1>1, WantsAreFlags DEF FlagsInv, ReadLetter
<1>. DEFINE D == {f \in DOMAIN want : flags[m][f] # want[f]}
<1>3. ToSet(m, want) = [f \in D |-> want[f]]
  BY DEF ToSet, Restrict
<1>4. ToSet(m, want) \in FlagFunctions
  BY <1>2, <1>3, FlagFunctionParts DEF FlagFunctions
<1>5. \A f \in DOMAIN want :
        \/ f \in DOMAIN ToSet(m, want) /\ ToSet(m, want)[f] = want[f]
        \/ <<f, want[f]>> \in Pairs(flags[m])
  <2>1. \A f \in DOMAIN want : f \in Flag
    BY <1>2, FlagFunctionParts
  <2>2. \A f \in D : f \in DOMAIN ToSet(m, want) /\ ToSet(m, want)[f] = want[f]
    BY <1>3
  <2>3. \A f \in DOMAIN want : f \notin D => <<f, want[f]>> \in Pairs(flags[m])
    BY <2>1 DEF Pairs
  <2>. QED  BY <2>2, <2>3
<1>6. edit'[e] \in EditType /\ EditInv(e)'
  <2>1. CASE m \in here
    <3>. DEFINE r == [state |-> "read", letter |-> m, want |-> want, set |-> ToSet(m, want),
                      saw |-> Pairs(flags[m])]
    <3>1. edit'[e] = r
      BY <1>1, <1>2, <2>1
    <3>2. Pairs(flags[m]) \in SUBSET (Flag \X BOOLEAN)
      BY <1>2, PairsType
    <3>3. r \in EditType
      BY <1>2, <1>4, <3>2 DEF EditType
    <3>4. /\ r.state = "read" /\ r.letter = m /\ r.want = want /\ r.set = ToSet(m, want)
          /\ r.saw = Pairs(flags[m])
      OBVIOUS
    <3>. HIDE DEF r
    <3>. QED  BY <1>2, <1>4, <1>5, <3>1, <3>3, <3>4 DEF EditInv
  <2>2. CASE m \notin here
    <3>1. edit'[e] = [NoEdit EXCEPT !.state = "missing"]
      BY <1>1, <1>2, <2>2
    <3>2. edit'[e] \in EditType /\ edit'[e].state = "missing"
      BY <3>1 DEF NoEdit, EditType
    <3>. QED  BY <3>2 DEF EditInv
  <2>. QED  BY <2>1, <2>2
<1>7. \A i \in Editors : edit'[i] \in EditType /\ EditInv(i)'
  BY <1>2, <1>6, Unedited
<1>8. edit' \in [Editors -> EditType]
  BY <1>1, <1>2, <1>7
<1>. QED  BY <1>2, <1>7, <1>8 DEF FlagsInv

LEMMA UpdateFlagsStep ==
  ASSUME FlagsInv, NEW e \in Editors, UpdateFlags(e)
  PROVE  FlagsInv'
<1>. DEFINE m == edit[e].letter
<1>0. /\ edit \in [Editors -> EditType] /\ flags \in [Letters -> [Flag -> BOOLEAN]]
      /\ edit[e].state = "read" /\ m \in Letters /\ edit[e].set \in FlagFunctions
      /\ edit[e].want \in FlagFunctions /\ EditInv(e)
  BY DEF FlagsInv, EditInv, UpdateFlags
<1>1. CASE m \in here
  <2>1. /\ flags' = [flags EXCEPT ![m] = With(flags[m], edit[e].set)]
        /\ edit' = [i \in Editors |->
             CASE i = e -> [edit[e] EXCEPT !.state = "done", !.saw = @ \cup Pairs(flags'[m])]
               [] i # e /\ edit[i].state = "read" /\ edit[i].letter = m ->
                    [edit[i] EXCEPT !.saw = @ \cup Pairs(flags'[m])]
               [] OTHER -> edit[i]]
    BY <1>1 DEF UpdateFlags
  <2>2. /\ flags' \in [Letters -> [Flag -> BOOLEAN]]
        /\ flags'[m] = With(flags[m], edit[e].set)
    BY <1>0, <2>1, WithType
  <2>3. Pairs(flags'[m]) \in SUBSET (Flag \X BOOLEAN)
    BY <1>0, <2>2, PairsType
  <2>4. edit'[e] \in EditType /\ EditInv(e)'
    <3>1. edit'[e] = [edit[e] EXCEPT !.state = "done", !.saw = @ \cup Pairs(flags'[m])]
      BY <2>1
    <3>2. edit[e] \in EditType
      BY <1>0
    <3>3. /\ edit'[e] \in EditType /\ edit'[e].state = "done"
          /\ edit'[e].want = edit[e].want /\ edit'[e].saw = edit[e].saw \cup Pairs(flags'[m])
      BY <2>3, <3>1, <3>2 DEF EditType
    <3>4. \A f \in DOMAIN edit[e].set : <<f, edit[e].set[f]>> \in Pairs(flags'[m])
      BY <1>0, <2>2, WithType
    <3>5. \A f \in DOMAIN edit[e].want : <<f, edit[e].want[f]>> \in edit'[e].saw
      BY <1>0, <3>3, <3>4 DEF EditInv
    <3>. QED  BY <3>3, <3>5 DEF EditInv
  <2>5. ASSUME NEW i \in Editors, i # e PROVE edit'[i] \in EditType /\ EditInv(i)'
    <3>1. CASE edit[i].state = "read" /\ edit[i].letter = m
      <4>1. edit'[i] = [edit[i] EXCEPT !.saw = @ \cup Pairs(flags'[m])]
        BY <2>1, <2>5, <3>1
      <4>. QED  BY <2>3, <4>1, SeesMore
    <3>2. CASE ~(edit[i].state = "read" /\ edit[i].letter = m)
      <4>1. edit'[i] = edit[i]
        BY <2>1, <2>5, <3>2
      <4>. QED  BY <4>1, Unedited
    <3>. QED  BY <3>1, <3>2
  <2>6. \A i \in Editors : edit'[i] \in EditType /\ EditInv(i)'
    BY <2>4, <2>5
  <2>7. edit' \in [Editors -> EditType]
    BY <2>1, <2>6
  <2>. QED  BY <2>2, <2>6, <2>7 DEF FlagsInv
<1>2. CASE m \notin here
  <2>1. edit' = [edit EXCEPT ![e] = [edit[e] EXCEPT !.state = "missing"]] /\ flags' = flags
    BY <1>2 DEF UpdateFlags
  <2>2. edit'[e] \in EditType /\ edit'[e].state = "missing"
    <3>1. edit'[e] = [edit[e] EXCEPT !.state = "missing"] /\ edit[e] \in EditType
      BY <1>0, <2>1
    <3>. QED  BY <3>1 DEF EditType
  <2>3. \A i \in Editors : edit'[i] \in EditType /\ EditInv(i)'
    <3>1. EditInv(e)'
      BY <2>2 DEF EditInv
    <3>2. \A i \in Editors : i # e => edit'[i] = edit[i]
      BY <1>0, <2>1
    <3>. QED  BY <2>2, <3>1, <3>2, Unedited
  <2>4. edit' \in [Editors -> EditType]
    BY <1>0, <2>1, <2>3
  <2>. QED  BY <1>0, <2>1, <2>3, <2>4 DEF FlagsInv
<1>. QED  BY <1>1, <1>2

LEMMA NothingToSetStep ==
  ASSUME FlagsInv, NEW e \in Editors, NothingToSet(e)
  PROVE  FlagsInv'
<1>0. /\ edit \in [Editors -> EditType] /\ flags' = flags /\ edit[e].state = "read"
      /\ DOMAIN edit[e].set = {} /\ EditInv(e) /\ edit[e] \in EditType
      /\ edit' = [edit EXCEPT ![e] = [edit[e] EXCEPT !.state = "done"]]
  BY DEF FlagsInv, NothingToSet
<1>1. /\ edit'[e] \in EditType /\ edit'[e].state = "done" /\ edit'[e].want = edit[e].want
      /\ edit'[e].saw = edit[e].saw
  BY <1>0 DEF EditType
<1>2. EditInv(e)'
  BY <1>0, <1>1 DEF EditInv
<1>3. \A i \in Editors : i # e => edit'[i] = edit[i]
  BY <1>0
<1>4. \A i \in Editors : edit'[i] \in EditType /\ EditInv(i)'
  BY <1>1, <1>2, <1>3, Unedited
<1>5. edit' \in [Editors -> EditType]
  BY <1>0, <1>4
<1>. QED  BY <1>0, <1>4, <1>5 DEF FlagsInv

LEMMA BulkStep ==
  ASSUME FlagsInv, NEW want \in Wants, NEW S, Watch(flags'),
         flags' = [m \in Letters |-> IF m \in S THEN With(flags[m], want) ELSE flags[m]]
  PROVE  FlagsInv'
<1>1. want \in FlagFunctions /\ flags \in [Letters -> [Flag -> BOOLEAN]]
  BY WantsAreFlags DEF FlagsInv
<1>2. \A m \in Letters : With(flags[m], want) \in [Flag -> BOOLEAN]
  BY <1>1, WithType
<1>3. flags' \in [Letters -> [Flag -> BOOLEAN]]
  BY <1>1, <1>2
<1>. QED  BY <1>3, WatchKeeps DEF FlagsInv

LEMMA FlagsSteps == FlagsInv /\ [FlagsNext]_flagVars => FlagsInv'
<1>. SUFFICES ASSUME FlagsInv, [FlagsNext]_flagVars PROVE FlagsInv'
  OBVIOUS
<1>1. ASSUME UNCHANGED <<flags, edit>> PROVE FlagsInv'
  BY <1>1, Unedited DEF FlagsInv
<1>2. CASE UNCHANGED flagVars
  BY <1>1, <1>2 DEF flagVars
<1>3. ASSUME NEW m \in Letters, Vanish(m) PROVE FlagsInv'
  BY <1>1, <1>3 DEF Vanish
<1>4. ASSUME NEW want \in Wants, BulkAll(want) PROVE FlagsInv'
  BY <1>4, BulkStep DEF BulkAll
<1>5. ASSUME NEW want \in Wants, NEW ids \in SUBSET Letters, BulkByIDs(ids, want) PROVE FlagsInv'
  BY <1>5, BulkStep DEF BulkByIDs
<1>. QED
  BY <1>2, <1>3, <1>4, <1>5, ReadLetterStep, UpdateFlagsStep, NothingToSetStep DEF FlagsNext

(***************************************************************************)
(* A PATCH answered with success tells the truth: each flag it asked for   *)
(* had that value at some moment of the request, for every number of       *)
(* requests and messages.                                                  *)
(***************************************************************************)
THEOREM AnswersTellTheTruth == FlagsSpec => []AnsweredFlagsHeld
<1>1. FlagsInv => AnsweredFlagsHeld
  BY DEF FlagsInv, EditInv, AnsweredFlagsHeld
<1>. QED  BY <1>1, FlagsInitially, FlagsSteps, PTL DEF FlagsSpec

------------------------------------------------------------------------------
\* A PATCH that will write asks for something, and writes no more than that.
AsksInv ==
  \A e \in Editors : edit[e].state = "read" =>
    edit[e].want \in Wants /\ DOMAIN edit[e].set \subseteq DOMAIN edit[e].want

LettersInv == here \subseteq Letters /\ edits \in 0..MaxEdits

\* What a request asks for and will write is fixed when it has read.
LEMMA AsksStep ==
  ASSUME FlagsInv, [FlagsNext]_flagVars,
         NEW e \in Editors, edit'[e].state = "read"
  PROVE  \/ /\ edit[e].state = "read" /\ edit'[e].want = edit[e].want
            /\ edit'[e].set = edit[e].set
         \/ edit'[e].want \in Wants /\ DOMAIN edit'[e].set \subseteq DOMAIN edit'[e].want
<1>0. edit \in [Editors -> EditType]
  BY DEF FlagsInv
<1>. DEFINE Same == /\ edit[e].state = "read" /\ edit'[e].want = edit[e].want
                    /\ edit'[e].set = edit[e].set
<1>a. ASSUME NEW seen, edit'[e] = [edit[e] EXCEPT !.saw = @ \cup seen]  PROVE Same
  <2>1. edit[e] \in EditType
    BY <1>0
  <2>. QED  BY <1>a, <2>1 DEF EditType
<1>b. ASSUME edit'[e] = edit[e]  PROVE Same
  BY <1>b
<1>c. ASSUME NEW fl, Watch(fl)  PROVE Same
  <2>1. \/ edit'[e] = edit[e]
        \/ edit'[e] = [edit[e] EXCEPT !.saw = @ \cup Pairs(fl[edit[e].letter])]
    BY <1>c DEF Watch
  <2>. QED  BY <1>a, <1>b, <2>1
<1>1. ASSUME NEW i \in Editors, ReadLetter(i)
      PROVE  Same \/ (edit'[e].want \in Wants /\ DOMAIN edit'[e].set \subseteq DOMAIN edit'[e].want)
  <2>1. PICK m \in Letters, want \in Wants :
          edit' = [edit EXCEPT ![i] =
                     IF m \in here
                     THEN [state |-> "read", letter |-> m, want |-> want,
                           set |-> ToSet(m, want), saw |-> Pairs(flags[m])]
                     ELSE [NoEdit EXCEPT !.state = "missing"]]
    BY <1>1 DEF ReadLetter
  <2>2. CASE e # i
    BY <1>0, <1>b, <2>1, <2>2
  <2>3. CASE e = i
    <3>1. m \in here
      <4>1. [NoEdit EXCEPT !.state = "missing"].state = "missing"
        BY DEF NoEdit
      <4>. QED  BY <1>0, <2>1, <2>3, <4>1
    <3>2. edit'[e].want = want /\ edit'[e].set = ToSet(m, want)
      BY <1>0, <2>1, <2>3, <3>1
    <3>3. DOMAIN ToSet(m, want) \subseteq DOMAIN want
      BY DEF ToSet, Restrict
    <3>. QED  BY <3>2, <3>3
  <2>. QED  BY <2>2, <2>3
<1>2. ASSUME NEW i \in Editors, UpdateFlags(i)  PROVE Same
  <2>. DEFINE m == edit[i].letter
  <2>1. CASE m \in here
    <3>1. edit' = [j \in Editors |->
             CASE j = i -> [edit[i] EXCEPT !.state = "done", !.saw = @ \cup Pairs(flags'[m])]
               [] j # i /\ edit[j].state = "read" /\ edit[j].letter = m ->
                    [edit[j] EXCEPT !.saw = @ \cup Pairs(flags'[m])]
               [] OTHER -> edit[j]]
      BY <1>2, <2>1 DEF UpdateFlags
    <3>2. e # i
      <4>1. ASSUME e = i  PROVE edit'[e].state = "done"
        <5>1. edit'[e] = [edit[i] EXCEPT !.state = "done", !.saw = @ \cup Pairs(flags'[m])]
          BY <3>1, <4>1
        <5>2. edit[i] \in EditType
          BY <1>0
        <5>. QED  BY <5>1, <5>2 DEF EditType
      <4>. QED  BY <4>1
    <3>3. \/ edit'[e] = edit[e]
          \/ edit'[e] = [edit[e] EXCEPT !.saw = @ \cup Pairs(flags'[m])]
      BY <3>1, <3>2
    <3>. QED  BY <1>a, <1>b, <3>3
  <2>2. CASE m \notin here
    <3>1. edit' = [edit EXCEPT ![i] = [edit[i] EXCEPT !.state = "missing"]]
      BY <1>2, <2>2 DEF UpdateFlags
    <3>2. e # i
      <4>1. edit[i] \in EditType
        BY <1>0
      <4>. QED  BY <1>0, <3>1, <4>1 DEF EditType
    <3>. QED  BY <1>0, <1>b, <3>1, <3>2
  <2>. QED  BY <2>1, <2>2
<1>3. ASSUME NEW i \in Editors, NothingToSet(i)  PROVE Same
  <2>1. edit' = [edit EXCEPT ![i] = [edit[i] EXCEPT !.state = "done"]] /\ edit[i] \in EditType
    BY <1>0, <1>3 DEF NothingToSet
  <2>2. e # i
    BY <1>0, <2>1 DEF EditType
  <2>. QED  BY <1>0, <1>b, <2>1, <2>2
<1>4. ASSUME NEW want \in Wants, BulkAll(want)  PROVE Same
  BY <1>4, <1>c DEF BulkAll
<1>5. ASSUME NEW want \in Wants, NEW ids \in SUBSET Letters, BulkByIDs(ids, want)  PROVE Same
  BY <1>5, <1>c DEF BulkByIDs
<1>6. ASSUME (\E m \in Letters : Vanish(m)) \/ UNCHANGED flagVars  PROVE Same
  BY <1>6, <1>b DEF Vanish, flagVars
<1>. QED  BY <1>1, <1>2, <1>3, <1>4, <1>5, <1>6 DEF FlagsNext

(***************************************************************************)
(* The flags of a message stay two truth values, and a PATCH never writes  *)
(* a flag that it was not asked for (UpdateMessage).                       *)
(***************************************************************************)
THEOREM FlagsAreTyped == FlagsSpec => []FlagsTypeOK
<1>1. FlagsInit => LettersInv /\ AsksInv
  BY FlagsAssumption DEF FlagsInit, NoEdit, AsksInv, LettersInv
<1>2. FlagsInv /\ AsksInv /\ [FlagsNext]_flagVars => AsksInv'
  <2>. SUFFICES ASSUME FlagsInv, AsksInv, [FlagsNext]_flagVars,
                       NEW e \in Editors, edit'[e].state = "read"
                PROVE  edit'[e].want \in Wants /\ DOMAIN edit'[e].set \subseteq DOMAIN edit'[e].want
    BY DEF AsksInv
  <2>. QED  BY AsksStep DEF AsksInv
<1>3. LettersInv /\ [FlagsNext]_flagVars => LettersInv'
  <2>1. [FlagsNext]_flagVars =>
          /\ here' = here \/ \E m \in Letters : here' = here \ {m}
          /\ edits' = edits \/ (edits < MaxEdits /\ edits' = edits + 1)
    <3>1. \A e \in Editors : ReadLetter(e) \/ UpdateFlags(e) \/ NothingToSet(e) =>
            here' = here /\ edits' = edits
      BY DEF ReadLetter, UpdateFlags, NothingToSet
    <3>2. \A want \in Wants : \A ids \in SUBSET Letters : BulkAll(want) \/ BulkByIDs(ids, want) =>
            here' = here /\ edits < MaxEdits /\ edits' = edits + 1
      BY DEF BulkAll, BulkByIDs
    <3>3. \A m \in Letters : Vanish(m) => here' = here \ {m} /\ edits' = edits
      BY DEF Vanish
    <3>. QED  BY <3>1, <3>2, <3>3 DEF FlagsNext, flagVars
  <2>. QED  BY <2>1, FlagsAssumption DEF LettersInv
<1>4. FlagsInv /\ AsksInv /\ LettersInv => FlagsTypeOK
  <2>. SUFFICES ASSUME FlagsInv, AsksInv, LettersInv  PROVE FlagsTypeOK
    OBVIOUS
  <2>1. \A e \in Editors : edit[e] \in EditType
    BY DEF FlagsInv
  <2>2. \A e \in Editors : /\ edit[e].state \in {"idle", "read", "done", "missing"}
                           /\ edit[e].saw \subseteq Flag \X BOOLEAN
    BY <2>1 DEF EditType
  <2>. QED  BY <2>2 DEF FlagsInv, AsksInv, LettersInv, FlagsTypeOK
<1>. QED  BY <1>1, <1>2, <1>3, <1>4, FlagsInitially, FlagsSteps, PTL DEF FlagsSpec
==============================================================================
