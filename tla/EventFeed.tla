------------------------------ MODULE EventFeed -------------------------------
(***************************************************************************)
(* What the hub promises to those who follow an account, without topics,   *)
(* subscriptions or goroutines: an event reaches at once everybody who     *)
(* listens at that moment.  One who has no room for it is cut off; it may  *)
(* still take what was waiting, and gets nothing more.  Nobody is cut off  *)
(* for any other reason.                                                   *)
(***************************************************************************)
EXTENDS Naturals

CONSTANTS Followers, Capacity

VARIABLES
  standing,  \* "out", "listening", "cut" or "gone"
  waiting    \* events a follower has got and not taken yet

feedVars == <<standing, waiting>>

Listeners == {f \in Followers : standing[f] = "listening"}
Full == {f \in Listeners : waiting[f] = Capacity}

Init ==
  /\ standing = [f \in Followers |-> "out"]
  /\ waiting = [f \in Followers |-> 0]

Join(f) ==
  /\ standing[f] = "out"
  /\ standing' = [standing EXCEPT ![f] = "listening"]
  /\ UNCHANGED waiting

Take(f) ==
  /\ waiting[f] > 0
  /\ waiting' = [waiting EXCEPT ![f] = @ - 1]
  /\ UNCHANGED standing

Leave(f) ==
  /\ standing[f] \in {"listening", "cut"}
  /\ standing' = [standing EXCEPT ![f] = "gone"]
  /\ waiting' = [waiting EXCEPT ![f] = 0]

Announce ==
  /\ standing' = [f \in Followers |-> IF f \in Full THEN "cut" ELSE standing[f]]
  /\ waiting' = [f \in Followers |-> IF f \in Listeners \ Full THEN waiting[f] + 1
                                                               ELSE waiting[f]]

Next ==
  \/ \E f \in Followers : Join(f) \/ Take(f) \/ Leave(f)
  \/ Announce

Spec == Init /\ [][Next]_feedVars
==============================================================================
