------------------------------- MODULE Mailbox -------------------------------
(***************************************************************************)
(* What the mail system promises, without queue, workers or storage: a     *)
(* mail that was accepted is put at most once into the mailbox of each     *)
(* recipient, a message that its owner has deleted does not come back, and *)
(* a mail leaves the queue only when each recipient has got it or it was   *)
(* refused for that recipient, unless the queue drops it for its age.      *)
(***************************************************************************)
CONSTANTS Msgs, Accounts, Rcpts, Garbled

VARIABLES
  mail,     \* "unsent", "queued", "done" or "dropped"
  box,      \* box[m, a]: "absent", "live" or "deleted"
  stored,   \* pairs <<m, a>> that have been in a mailbox
  refused   \* pairs <<m, a>> that were refused for good

vars == <<mail, box, stored, refused>>

Pairs == Msgs \X Accounts

Init ==
  /\ mail = [m \in Msgs |-> "unsent"]
  /\ box = [p \in Pairs |-> "absent"]
  /\ stored = {}
  /\ refused = {}

Accept(m) ==
  /\ mail[m] = "unsent"
  /\ mail' = [mail EXCEPT ![m] = "queued"]
  /\ UNCHANGED <<box, stored, refused>>

Store(m, a) ==
  /\ mail[m] # "unsent"
  /\ a \in Rcpts[m]
  /\ box[<<m, a>>] = "absent"
  /\ box' = [box EXCEPT ![<<m, a>>] = "live"]
  /\ stored' = stored \cup {<<m, a>>}
  /\ UNCHANGED <<mail, refused>>

Refuse(m, a) ==
  /\ mail[m] # "unsent"
  /\ a \in Rcpts[m]
  /\ refused' = refused \cup {<<m, a>>}
  /\ UNCHANGED <<mail, box, stored>>

Finish(m) ==
  /\ mail[m] = "queued"
  /\ m \in Garbled \/ \A a \in Rcpts[m] : <<m, a>> \in stored \cup refused
  /\ mail' = [mail EXCEPT ![m] = "done"]
  /\ UNCHANGED <<box, stored, refused>>

Drop(m) ==
  /\ mail[m] = "queued"
  /\ mail' = [mail EXCEPT ![m] = "dropped"]
  /\ UNCHANGED <<box, stored, refused>>

\* The owner deletes messages: they stay on record but out of sight.
Trash(S) ==
  /\ \A p \in S : box[p] = "live"
  /\ box' = [p \in Pairs |-> IF p \in S THEN "deleted" ELSE box[p]]
  /\ UNCHANGED <<mail, stored, refused>>

\* Retention or the deletion of the account removes messages for good.
Remove(S) ==
  /\ box' = [p \in Pairs |-> IF p \in S THEN "absent" ELSE box[p]]
  /\ UNCHANGED <<mail, stored, refused>>

Next ==
  \/ \E m \in Msgs : Accept(m) \/ Finish(m) \/ Drop(m)
  \/ \E m \in Msgs, a \in Accounts : Store(m, a) \/ Refuse(m, a)
  \/ \E S \in SUBSET Pairs : Trash(S) \/ Remove(S)

Spec == Init /\ [][Next]_vars
==============================================================================
