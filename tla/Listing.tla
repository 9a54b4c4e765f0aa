------------------------------- MODULE Listing -------------------------------
(***************************************************************************)
(* Walking through the messages of an account page by page, newest first,  *)
(* while mail arrives, is read and is deleted.                             *)
(*                                                                         *)
(* A walker asks for the first page and then for what follows the last     *)
(* message it was given: by nextCursor, which names its createdAt and id,  *)
(* or by the message id alone, which is looked up first.  Requests for the *)
(* same page share one query (listMessagesSF).  Pages reached by number    *)
(* (skip) and totalItems are left out.  Mail may be stored later than      *)
(* mail with a younger createdAt: workers set it before they upload.       *)
(***************************************************************************)
EXTENDS Integers, FiniteSets

CONSTANTS
  Mails, Walkers,
  CreatedAt,   \* createdAt of each message
  IdOrder,     \* the order of the message ids
  PerPage,     \* itemsPerPage
  NoMail,      \* no cursor: the first page
  Kinds,       \* the filters and the styles of cursor that are used together
  MaxTurns     \* bound: changes of seen

ASSUME ListingAssumption ==
  /\ CreatedAt \in [Mails -> Nat]
  /\ IdOrder \in [Mails -> Nat]
  /\ \A m, n \in Mails : IdOrder[m] = IdOrder[n] => m = n
  /\ IsFiniteSet(Mails)
  /\ PerPage \in Nat \ {0}
  /\ NoMail \notin Mails
  /\ Kinds \subseteq {"all", "unseen"} \X {"token", "id"}
  /\ MaxTurns \in Nat

VARIABLES
  mail,    \* the messages of the account in MongoDB
  query,   \* listMessagesSF: the query in progress for each page
  walk,    \* the walkers
  turns

listVars == <<mail, query, walk, turns>>

Cursors == Mails \cup {NoMail}
PageKeys == {<<k[1], k[2], c>> : k \in Kinds, c \in Cursors}

ListTypeOK ==
  /\ mail \in [Mails -> [state : {"coming", "here", "gone"}, seen : BOOLEAN]]
  /\ query \in [PageKeys -> [state : {"none", "asked", "found", "read", "lost"},
                             page : SUBSET Mails, still : SUBSET Mails]]
  /\ walk \in [Walkers -> [state : {"off", "ready", "wait", "done", "lost"},
                           key : PageKeys \cup {<<>>}, got : SUBSET Mails, still : SUBSET Mails,
                           again : BOOLEAN]]
  /\ turns \in 0..MaxTurns

NoQuery == [state |-> "none", page |-> {}, still |-> {}]
NoWalk == [state |-> "off", key |-> <<>>, got |-> {}, still |-> {},
           again |-> FALSE]

ListInit ==
  /\ mail = [m \in Mails |-> [state |-> "coming", seen |-> FALSE]]
  /\ query = [k \in PageKeys |-> NoQuery]
  /\ walk = [r \in Walkers |-> NoWalk]
  /\ turns = 0

------------------------------------------------------------------------------
Shown(f, box) == {m \in Mails : box[m].state = "here" /\ (f = "unseen" => ~box[m].seen)}

\* Mutants: the order forgets the ids; $lte instead of $lt.
OlderByTime(m, n) == CreatedAt[m] < CreatedAt[n]

OlderOrSame(m, n) == CreatedAt[m] <= CreatedAt[n]

\* What the filter of a cursor n lets through.
Older(m, n) == \/ CreatedAt[m] < CreatedAt[n]
               \/ CreatedAt[m] = CreatedAt[n] /\ IdOrder[m] < IdOrder[n]

\* The sort order.
Precedes(m, n) == \/ CreatedAt[m] > CreatedAt[n]
                  \/ CreatedAt[m] = CreatedAt[n] /\ IdOrder[m] > IdOrder[n]

\* What the query of key k finds in the mailbox box.
Candidates(k, box) == {m \in Shown(k[1], box) : k[3] # NoMail => Older(m, k[3])}

\* The first PerPage of a set.
FirstOf(S) == {m \in S : Cardinality({n \in S : Precedes(n, m)}) < PerPage}

\* nextCursor: the last message of a page.
NextCursor(P) == CHOOSE m \in P : \A n \in P : n = m \/ Precedes(n, m)

\* The mail that has stayed in the filter in spite of the step to box.
Remaining(box) ==
  /\ query' = [k \in PageKeys |-> [query[k] EXCEPT !.still = @ \cap Shown(k[1], box)]]
  /\ walk' = [r \in Walkers |->
               IF walk[r].still = {} THEN walk[r]
               ELSE [walk[r] EXCEPT !.still = @ \cap Shown(walk[r].key[1], box)]]

------------------------------------------------------------------------------
(* What happens to the mailbox meanwhile.                                  *)

Arrive(m) ==
  /\ mail[m].state = "coming"
  /\ mail' = [mail EXCEPT ![m].state = "here"]
  /\ UNCHANGED <<query, walk, turns>>

\* Deleted, or expired.
Leave(m) ==
  /\ mail[m].state = "here"
  /\ mail' = [mail EXCEPT ![m].state = "gone"]
  /\ Remaining(mail')
  /\ UNCHANGED turns

TurnSeen(m) ==
  /\ mail[m].state = "here"
  /\ turns < MaxTurns
  /\ turns' = turns + 1
  /\ mail' = [mail EXCEPT ![m].seen = ~@]
  /\ Remaining(mail')

------------------------------------------------------------------------------
(* The shared query.                                                       *)

\* Start it or join it.
Ask(r) ==
  LET k == walk[r].key
  IN  /\ walk[r].state = "ready"
      /\ walk' = [walk EXCEPT ![r].state = "wait"]
      /\ query' = IF query[k].state # "none" THEN query
                  ELSE [query EXCEPT ![k].state = "asked"]
      /\ UNCHANGED <<mail, turns>>

\* A bare message id must be that of a message that is still listed.
FindCursor(k) ==
  /\ query[k].state = "asked"
  /\ k[2] = "id" /\ k[3] # NoMail
  /\ query' = [query EXCEPT ![k].state = IF k[3] \in Shown(k[1], mail) THEN "found"
                                                                     ELSE "lost"]
  /\ UNCHANGED <<mail, walk, turns>>

ReadPage(k) ==
  /\ \/ query[k].state = "found"
     \/ query[k].state = "asked" /\ (k[2] = "token" \/ k[3] = NoMail)
  /\ query' = [query EXCEPT ![k] = [state |-> "read", page |-> FirstOf(Candidates(k, mail)),
                                    still |-> Shown(k[1], mail)]]
  /\ UNCHANGED <<mail, walk, turns>>

\* The mail a walk that gets its first page has to show: what was listed when
\* the oldest query in progress was read, and has been since.
Owed(k) == {m \in query[k].still : \A q \in PageKeys :
              q[1] = k[1] /\ query[q].state = "read" => m \in query[q].still}

\* What becomes of a walker that is given page P.
Given(r, k) ==
  LET P == query[k].page
  IN  [walk[r] EXCEPT
         !.state = IF P = {} THEN "done" ELSE "ready",
         !.key = IF P = {} THEN @ ELSE <<k[1], k[2], NextCursor(P)>>,
         !.got = @ \cup P,
         !.again = @ \/ (walk[r].got \cap P # {}),
         !.still = IF k[3] = NoMail THEN Owed(k) ELSE @]

\* All who wait are given the page, are told that the cursor is unknown, or,
\* when the query fails, ask again.
Land(k) ==
  /\ query[k].state # "none"
  /\ \E outcome \in {"error"} \cup (IF query[k].state \in {"read", "lost"}
                                    THEN {query[k].state} ELSE {}) :
       walk' = [r \in Walkers |->
                 IF walk[r].state # "wait" \/ walk[r].key # k THEN walk[r]
                 ELSE CASE outcome = "read"  -> Given(r, k)
                        [] outcome = "lost"  -> [walk[r] EXCEPT !.state = "lost"]
                        [] outcome = "error" -> [walk[r] EXCEPT !.state = "ready"]]
  /\ query' = [query EXCEPT ![k] = NoQuery]
  /\ UNCHANGED <<mail, turns>>

Begin(r) ==
  /\ walk[r].state = "off"
  /\ \E k \in Kinds :
       walk' = [walk EXCEPT ![r].state = "ready", ![r].key = <<k[1], k[2], NoMail>>]
  /\ UNCHANGED <<mail, query, turns>>

\* The client gives up; the query goes on.
GiveUp(r) ==
  /\ walk[r].state = "wait"
  /\ walk' = [walk EXCEPT ![r].state = "lost"]
  /\ UNCHANGED <<mail, query, turns>>

ListNext ==
  \/ \E m \in Mails : Arrive(m) \/ Leave(m) \/ TurnSeen(m)
  \/ \E r \in Walkers : Begin(r) \/ Ask(r) \/ GiveUp(r)
  \/ \E k \in PageKeys : FindCursor(k) \/ ReadPage(k) \/ Land(k)

ListSpec == ListInit /\ [][ListNext]_listVars

------------------------------------------------------------------------------
(***************************************************************************)
(* No walk is given a message twice (ListMessagesAfter, nextCursor):       *)
(* neither messages of the same millisecond, nor new mail, nor a message   *)
(* that goes and comes back into the filter make one appear again.         *)
(***************************************************************************)
NothingTwice == \A r \in Walkers : ~walk[r].again

(***************************************************************************)
(* A walk that comes to its end has been given every message that was      *)
(* listed throughout, from the moment the oldest query in progress at its  *)
(* first page was read: shared queries and ties at the page boundary lose  *)
(* none.                                                                   *)
(***************************************************************************)
NothingSkipped ==
  \A r \in Walkers : walk[r].state = "done" => walk[r].still \subseteq walk[r].got
==============================================================================
