---------------------------- MODULE MCMailSystem -----------------------------
(***************************************************************************)
(* Small instances of MailSystem.                                          *)
(***************************************************************************)
EXTENDS MailSystem, SequencesExt, TLC

CONSTANTS m1, m2, m3, a1, a2, w1, w2, c1, c2, g1, g2

\* One mail for two accounts.
OneMailTwoRcpts == (m1 :> {a1, a2})
\* Two mails for one account.
TwoMailsOneRcpt == (m1 :> {a1} @@ m2 :> {a1})
OneMailOneRcpt  == (m1 :> {a1})

UnitSize == [m \in Msgs |-> 1]
SizesTwoOne == (m1 :> 2 @@ m2 :> 1)
Unlimited == [a \in Accounts |-> 0]
QuotaTwo == [a \in Accounts |-> 2]
AllOk == [m \in Msgs |-> "ok"]
\* m1 fits into only one of the mailboxes of its two recipients, where it
\* competes with m2; m3 cannot be decoded.
TwoOneOneRcpts == (m1 :> {a1, a2} @@ m2 :> {a2} @@ m3 :> {a1})
SizesTwoOneOne == (m1 :> 2 @@ m2 :> 1 @@ m3 :> 1)
QuotaOneTwo == (a1 :> 1 @@ a2 :> 2)
OkOkGarbled == (m1 :> "ok" @@ m2 :> "ok" @@ m3 :> "undecodable")
OkBad == (m1 :> "ok" @@ m2 :> "badMime")

\* Object keys in any fixed order; the order of deliveries where it matters.
AnyRank == LET S == Msgs \X Accounts \X (1..MaxDeliver)
               place == SetToSeq(S)
           IN  [o \in S |-> CHOOSE i \in 1..Cardinality(S) : place[i] = o]
DeliveryRank == [o \in Msgs \X Accounts \X (1..MaxDeliver) |-> o[3]]

\* Interchangeable identities; only for runs whose constants do not tell them
\* apart.
AccountsAndWorkers == Permutations(Accounts) \cup Permutations(Workers)
==============================================================================
