-------------------------------- MODULE Flags --------------------------------
(***************************************************************************)
(* The flags seen and keep of the messages of an account, set one message  *)
(* at a time (read the message, write only what differs) or in bulk.  A    *)
(* message that is not kept expires.                                       *)
(***************************************************************************)
EXTENDS Naturals, FiniteSets, Functions

CONSTANTS
  Letters,     \* the messages
  Editors,     \* requests of the account's clients
  AllowKeep,   \* allowMessageKeep
  MaxEdits     \* bound: bulk requests

ASSUME FlagsAssumption == AllowKeep \in BOOLEAN /\ MaxEdits \in Nat

VARIABLES
  here,      \* messages that are neither deleted nor expired
  flags,     \* their flags
  edit,      \* the PATCH requests for one message
  edits

flagVars == <<here, flags, edit, edits>>

Flag == {"seen", "keep"}
\* What a request may ask for: at least one flag, and keep only if it is allowed.
Wants == UNION {[S -> BOOLEAN] : S \in (SUBSET (IF AllowKeep THEN Flag ELSE {"seen"})) \ {{}}}

NoEdit == [state |-> "idle", letter |-> {}, want |-> <<>>, set |-> <<>>, saw |-> {}]

FlagsTypeOK ==
  /\ here \subseteq Letters
  /\ flags \in [Letters -> [Flag -> BOOLEAN]]
  /\ \A e \in Editors :
       /\ edit[e].state \in {"idle", "read", "done", "missing"}
       /\ edit[e].state = "read" => /\ edit[e].want \in Wants
                                    /\ DOMAIN edit[e].set \subseteq DOMAIN edit[e].want
       /\ edit[e].saw \subseteq Flag \X BOOLEAN
  /\ edits \in 0..MaxEdits

FlagsInit ==
  /\ here = Letters
  /\ flags = [m \in Letters |-> [f \in Flag |-> FALSE]]
  /\ edit = [e \in Editors |-> NoEdit]
  /\ edits = 0

\* The flags of old with those of want in their place.
With(old, want) == [f \in Flag |-> IF f \in DOMAIN want THEN want[f] ELSE old[f]]

Pairs(fl) == {<<f, fl[f]>> : f \in Flag}

\* History: what each request in progress could have seen of its message.
Watch(fl) ==
  edit' = [e \in Editors |-> IF edit[e].state # "read" THEN edit[e]
                             ELSE [edit[e] EXCEPT !.saw = @ \cup Pairs(fl[edit[e].letter])]]

------------------------------------------------------------------------------
\* Mutant: nothing is written unless every flag differs.
ToSetIfAll(m, want) ==
  IF \A f \in DOMAIN want : flags[m][f] # want[f] THEN want ELSE <<>>

\* Only what differs is written.
ToSet(m, want) ==
  Restrict(want, {f \in DOMAIN want : flags[m][f] # want[f]})

\* UpdateMessage reads the message ...
ReadLetter(e) ==
  /\ edit[e].state = "idle"
  /\ \E m \in Letters, want \in Wants :
       edit' = [edit EXCEPT ![e] =
                  IF m \in here
                  THEN [state |-> "read", letter |-> m, want |-> want,
                        set |-> ToSet(m, want), saw |-> Pairs(flags[m])]
                  ELSE [NoEdit EXCEPT !.state = "missing"]]
  /\ UNCHANGED <<here, flags, edits>>

\* ... and writes, unless it is gone by then.
UpdateFlags(e) ==
  LET m == edit[e].letter
  IN  /\ edit[e].state = "read"
      /\ DOMAIN edit[e].set # {}
      /\ IF m \in here
           THEN /\ flags' = [flags EXCEPT ![m] = With(@, edit[e].set)]
                /\ edit' = [i \in Editors |->
                     CASE i = e -> [edit[e] EXCEPT !.state = "done",
                                                   !.saw = @ \cup Pairs(flags'[m])]
                       [] i # e /\ edit[i].state = "read" /\ edit[i].letter = m ->
                            [edit[i] EXCEPT !.saw = @ \cup Pairs(flags'[m])]
                       [] OTHER -> edit[i]]
           ELSE edit' = [edit EXCEPT ![e].state = "missing"] /\ UNCHANGED flags
      /\ UNCHANGED <<here, edits>>

NothingToSet(e) ==
  /\ edit[e].state = "read"
  /\ DOMAIN edit[e].set = {}
  /\ edit' = [edit EXCEPT ![e].state = "done"]
  /\ UNCHANGED <<here, flags, edits>>

\* BulkUpdateMessageFlagsByIDs
BulkByIDs(ids, want) ==
  /\ edits < MaxEdits
  /\ edits' = edits + 1
  /\ flags' = [m \in Letters |-> IF m \in ids \cap here THEN With(flags[m], want) ELSE flags[m]]
  /\ Watch(flags')
  /\ UNCHANGED here

\* Those whose flags "really need the change": every flag of the request differs.
InNeed(want) == {m \in here : \A f \in DOMAIN want : flags[m][f] # want[f]}

\* BulkUpdateMessageFlagsByAccount
BulkAll(want) ==
  /\ edits < MaxEdits
  /\ edits' = edits + 1
  /\ flags' = [m \in Letters |-> IF m \in InNeed(want) THEN With(flags[m], want) ELSE flags[m]]
  /\ Watch(flags')
  /\ UNCHANGED here

\* Deleted, or expired if it is not kept: the two differ only in when.
Vanish(m) ==
  /\ m \in here
  /\ here' = here \ {m}
  /\ UNCHANGED <<flags, edit, edits>>

FlagsNext ==
  \/ \E e \in Editors : ReadLetter(e) \/ UpdateFlags(e) \/ NothingToSet(e)
  \/ \E want \in Wants : BulkAll(want) \/ \E ids \in SUBSET Letters : BulkByIDs(ids, want)
  \/ \E m \in Letters : Vanish(m)

FlagsSpec == FlagsInit /\ [][FlagsNext]_flagVars

------------------------------------------------------------------------------
(***************************************************************************)
(* A PATCH of one message that is answered with success tells the truth:   *)
(* each flag it asked for had that value at some moment of the request     *)
(* (UpdateMessage), although it may have written none or one of them and   *)
(* others changed them meanwhile.                                          *)
(***************************************************************************)
AnsweredFlagsHeld ==
  \A e \in Editors : edit[e].state = "done" =>
    \A f \in DOMAIN edit[e].want : <<f, edit[e].want[f]>> \in edit[e].saw

(***************************************************************************)
(* A bulk request for all messages of the account leaves all of them with  *)
(* the flags it asks for (message_bulk.go 28).                             *)
(***************************************************************************)
AllMeansAll ==
  [][\A want \in Wants : BulkAll(want) =>
       \A m \in here, f \in DOMAIN want : flags'[m][f] = want[f]]_flagVars
==============================================================================
