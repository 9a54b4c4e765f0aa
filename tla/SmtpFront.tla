----------------------------- MODULE SmtpFront -------------------------------
(***************************************************************************)
(* The SMTP front end and the addresses it accepts: RCPT asks Redis, and   *)
(* on a miss MongoDB, through a shared look-up per address, a limit on the *)
(* look-ups and a negative cache; the API creates and deletes accounts     *)
(* and keeps the Redis keys; MongoDB expires accounts.                     *)
(*                                                                         *)
(* Time passes in ticks.  A call with a deadline is over when its deadline *)
(* is reached: Tick waits for it.  A round trip is one step, except that   *)
(* the answer of a look-up may take its time.  Of a mail only the          *)
(* recipients collected so far are kept.                                   *)
(***************************************************************************)
EXTENDS Integers, FiniteSets

CONSTANTS
  Addrs,       \* addresses
  Sessions,    \* SMTP sessions
  None,        \* no account
  AccountTTL,  \* accountTTL: life of an account and of its key
  NegTTL,      \* life of a negative cache entry (30 s)
  QueryTime,   \* time-out of the query to MongoDB (3 s)
  WaitTime,    \* how long RCPT waits for the look-up (2 s)
  CallTime,    \* longest write of a key to Redis (2 s in the SMTP server)
  MaxLookup,   \* cap(lookupSem)
  MaxTime      \* bound: ticks

ASSUME FrontAssumption ==
  /\ None \notin Nat
  /\ AccountTTL \in Nat \ {0}
  /\ {NegTTL, QueryTime, WaitTime, CallTime, MaxLookup, MaxTime} \subseteq Nat
  /\ WaitTime < NegTTL

VARIABLES
  now,
  born,       \* createdAt of the account at each address, or None
  keyUntil,   \* when the Redis key of an address expires
  creating,   \* CreateAccount: the insert is done, the key is not written yet
  deleting,   \* DeleteAccount: the key is removed, the account is not yet
  negUntil,   \* negAddrCache
  flight,     \* lookupSF: the look-up in progress for each address
  rcpt,       \* the RCPT command a session is working on
  to,         \* Session.to
  absentAt,   \* history: when the address last had no account
  existedAt   \* history: when it last had one

storeVars == <<born, keyUntil, creating, deleting>>
lookupVars == <<negUntil, flight>>
sessionVars == <<rcpt, to>>
history == <<absentAt, existedAt>>
frontVars == <<now, storeVars, lookupVars, sessionVars, history>>

Time == 0..MaxTime
\* The latest time that a step within MaxTime can compute.
Horizon == 0..(MaxTime + AccountTTL + NegTTL)

Answers == [kind : {"none", "error", "absent", "exists"}, ttl : 0..AccountTTL]
NoAnswer == [kind |-> "none", ttl |-> 0]

FrontTypeOK ==
  /\ now \in Time
  /\ born \in [Addrs -> Time \cup {None}]
  /\ keyUntil \in [Addrs -> Horizon]
  /\ creating \in [Addrs -> Time \cup {None}]
  /\ deleting \in [Addrs -> BOOLEAN]
  /\ negUntil \in [Addrs -> Horizon]
  /\ flight \in [Addrs -> [state : {"none", "asked", "read"}, since : Time,
                           seen : Time \cup {None}]]
  /\ rcpt \in [Sessions -> [state : {"idle", "wait", "warm"}, addr : Addrs \cup {None},
                            since : Time, answer : Answers]]
  /\ to \in [Sessions -> SUBSET Addrs]
  /\ absentAt \in [Addrs -> Time]
  /\ existedAt \in [Addrs -> Time \cup {-1}]

NoFlight == [state |-> "none", since |-> 0, seen |-> None]
NoRcpt == [state |-> "idle", addr |-> None, since |-> 0, answer |-> NoAnswer]

FrontInit ==
  /\ now = 0
  /\ born = [a \in Addrs |-> None]
  /\ keyUntil = [a \in Addrs |-> 0]
  /\ creating = [a \in Addrs |-> None]
  /\ deleting = [a \in Addrs |-> FALSE]
  /\ negUntil = [a \in Addrs |-> 0]
  /\ flight = [a \in Addrs |-> NoFlight]
  /\ rcpt = [s \in Sessions |-> NoRcpt]
  /\ to = [s \in Sessions |-> {}]
  /\ absentAt = [a \in Addrs |-> 0]
  /\ existedAt = [a \in Addrs |-> -1]

\* Expired accounts do not exist, although MongoDB may not have removed them.
ExistsAt(b, t) == b # None /\ t <= b + AccountTTL

\* The history after a step that ends at time t with the accounts b.
Remember(b, t) ==
  /\ absentAt' = [a \in Addrs |-> IF ExistsAt(b[a], t) THEN absentAt[a] ELSE t]
  /\ existedAt' = [a \in Addrs |-> IF ExistsAt(b[a], t) THEN t ELSE existedAt[a]]

------------------------------------------------------------------------------
(* The API and MongoDB                                                     *)

\* CreateAccount inserts the account and then writes its key.
InsertAccount(a) ==
  /\ born[a] = None
  /\ creating[a] = None
  /\ born' = [born EXCEPT ![a] = now]
  /\ creating' = [creating EXCEPT ![a] = now]
  /\ Remember(born', now)
  /\ UNCHANGED <<now, keyUntil, deleting, lookupVars, sessionVars>>

\* A failure is ignored.
CacheNewAddress(a) ==
  /\ creating[a] # None
  /\ creating' = [creating EXCEPT ![a] = None]
  /\ \/ keyUntil' = [keyUntil EXCEPT ![a] = now + AccountTTL]
     \/ UNCHANGED keyUntil
  /\ UNCHANGED <<now, born, deleting, lookupVars, sessionVars, history>>

\* DeleteAccount finds the account and removes its key; a failure is ignored.
ForgetAddress(a) ==
  /\ born[a] # None
  /\ ~deleting[a]
  /\ deleting' = [deleting EXCEPT ![a] = TRUE]
  /\ \/ keyUntil' = [keyUntil EXCEPT ![a] = 0]
     \/ UNCHANGED keyUntil
  /\ UNCHANGED <<now, born, creating, lookupVars, sessionVars, history>>

\* Nobody else removes the account meanwhile (bound).
EraseAccount(a) ==
  /\ deleting[a]
  /\ deleting' = [deleting EXCEPT ![a] = FALSE]
  /\ born' = [born EXCEPT ![a] = None]
  /\ Remember(born', now)
  /\ UNCHANGED <<now, keyUntil, creating, lookupVars, sessionVars>>

\* The TTL monitor of MongoDB.
ExpireAccount(a) ==
  /\ born[a] # None
  /\ now >= born[a] + AccountTTL
  /\ ~deleting[a]
  /\ born' = [born EXCEPT ![a] = None]
  /\ Remember(born', now)
  /\ UNCHANGED <<now, keyUntil, creating, deleting, lookupVars, sessionVars>>

\* Redis loses a key.
LoseKey(a) ==
  /\ keyUntil[a] > now
  /\ keyUntil' = [keyUntil EXCEPT ![a] = 0]
  /\ UNCHANGED <<now, born, creating, deleting, lookupVars, sessionVars, history>>

------------------------------------------------------------------------------
(* RCPT                                                                    *)

AddRcpt(s, a) == to' = [to EXCEPT ![s] = @ \cup {a}]

KeyLive(a) == keyUntil[a] > now

NegativeLive(a) == negUntil[a] > now

\* Those who hold a permit of lookupSem.
LookingUp == {s \in Sessions : rcpt[s].state # "idle"}

\* HasAddress finds the key, or fails.
RcptFromRedis(s, a) ==
  /\ rcpt[s].state = "idle"
  /\ \/ KeyLive(a) /\ AddRcpt(s, a)
     \/ UNCHANGED to
  /\ UNCHANGED <<now, storeVars, lookupVars, rcpt, history>>

\* On a miss: the negative cache or the limit on look-ups answers.
RcptTurnedAway(s, a) ==
  /\ rcpt[s].state = "idle"
  /\ ~KeyLive(a)
  /\ NegativeLive(a) \/ Cardinality(LookingUp) >= MaxLookup
  /\ UNCHANGED <<now, storeVars, lookupVars, rcpt, to, history>>

\* Start a look-up or join the one in progress (DoChan).
RcptLooksUp(s, a) ==
  /\ rcpt[s].state = "idle"
  /\ ~KeyLive(a)
  /\ ~NegativeLive(a)
  /\ Cardinality(LookingUp) < MaxLookup
  /\ now + WaitTime + CallTime <= MaxTime
  /\ rcpt' = [rcpt EXCEPT ![s] = [state |-> "wait", addr |-> a, since |-> now,
                                  answer |-> NoAnswer]]
  /\ flight' = IF flight[a].state # "none" THEN flight
               ELSE [flight EXCEPT ![a] = [state |-> "asked", since |-> now, seen |-> None]]
  /\ UNCHANGED <<now, storeVars, negUntil, to, history>>

\* MongoDB answers the query.
QueryReads(a) ==
  /\ flight[a].state = "asked"
  /\ flight' = [flight EXCEPT ![a].state = "read", ![a].seen = born[a]]
  /\ UNCHANGED <<now, storeVars, negUntil, sessionVars, history>>

\* What the shared function makes of the document it found.
Found(b) == IF now > b + AccountTTL THEN [kind |-> "absent", ttl |-> 0]
            ELSE [kind |-> "exists", ttl |-> b + AccountTTL - now]

LookupAnswer(b) == IF b = None THEN [kind |-> "absent", ttl |-> 0] ELSE Found(b)

\* All who wait for the look-up get its answer, or the error of the query.
FlightLands(a) ==
  /\ flight[a].state # "none"
  /\ \E ans \in {[kind |-> "error", ttl |-> 0]}
                  \cup (IF flight[a].state = "read" THEN {LookupAnswer(flight[a].seen)}
                                                     ELSE {}) :
       rcpt' = [s \in Sessions |->
                 IF rcpt[s].state = "wait" /\ rcpt[s].addr = a
                    /\ rcpt[s].answer.kind = "none"
                 THEN [rcpt[s] EXCEPT !.answer = ans] ELSE rcpt[s]]
  /\ flight' = [flight EXCEPT ![a] = NoFlight]
  /\ UNCHANGED <<now, storeVars, negUntil, to, history>>

\* Mutant: the negative entry lives from when it is written.
NegativeFromNow(s) == now + NegTTL + WaitTime

\* The entry lives from the moment at which this RCPT began.
NegativeEnds(s) == rcpt[s].since + NegTTL

TakeRefusal(s) ==
  LET a == rcpt[s].addr
  IN  /\ rcpt[s].state = "wait"
      /\ rcpt[s].answer.kind \in {"error", "absent"}
      /\ rcpt' = [rcpt EXCEPT ![s] = NoRcpt]
      /\ IF rcpt[s].answer.kind = "absent"
           THEN negUntil' = [negUntil EXCEPT ![a] = NegativeEnds(s)]
           ELSE UNCHANGED negUntil
      /\ UNCHANGED <<now, storeVars, flight, to, history>>

TakeAccount(s) ==
  /\ rcpt[s].state = "wait"
  /\ rcpt[s].answer.kind = "exists"
  /\ rcpt' = [rcpt EXCEPT ![s].state = "warm", ![s].since = now]
  /\ UNCHANGED <<now, storeVars, lookupVars, to, history>>

\* Mutant: the key gets a full life whatever is left of the account.
FullLife(left) == 2 * AccountTTL

\* A remaining life of 0 is taken for "no life given".
KeyLife(left) == IF left = 0 THEN AccountTTL ELSE left

\* SetAddress; a failure is ignored.
WarmAddress(s) ==
  LET a == rcpt[s].addr
  IN  /\ rcpt[s].state = "warm"
      /\ \/ keyUntil' = [keyUntil EXCEPT ![a] = now + KeyLife(rcpt[s].answer.ttl)]
         \/ UNCHANGED keyUntil
      /\ rcpt' = [rcpt EXCEPT ![s] = NoRcpt]
      /\ AddRcpt(s, a)
      /\ UNCHANGED <<now, born, creating, deleting, lookupVars, history>>

\* select may take this branch although an answer is there.
LookupTimesOut(s) ==
  /\ rcpt[s].state = "wait"
  /\ now >= rcpt[s].since + WaitTime
  /\ rcpt' = [rcpt EXCEPT ![s] = NoRcpt]
  /\ UNCHANGED <<now, storeVars, lookupVars, to, history>>

\* DATA hands the mail to the queue, or fails; go-smtp then resets the session.
Data(s) ==
  /\ rcpt[s].state = "idle"
  /\ to[s] # {}
  /\ to' = [to EXCEPT ![s] = {}]
  /\ UNCHANGED <<now, storeVars, lookupVars, rcpt, history>>

\* RSET, or a new MAIL.
ResetSession(s) ==
  /\ rcpt[s].state = "idle"
  /\ to' = [to EXCEPT ![s] = {}]
  /\ UNCHANGED <<now, storeVars, lookupVars, rcpt, history>>

------------------------------------------------------------------------------
\* No deadline has been reached.
NothingDue ==
  /\ \A a \in Addrs : /\ flight[a].state # "none" => now < flight[a].since + QueryTime
                      /\ creating[a] # None => now < creating[a] + CallTime
  /\ \A s \in Sessions :
       /\ rcpt[s].state = "wait" => now < rcpt[s].since + WaitTime
       /\ rcpt[s].state = "warm" => now < rcpt[s].since + CallTime

FrontTick ==
  /\ now < MaxTime
  /\ NothingDue
  /\ now' = now + 1
  /\ Remember(born, now + 1)
  /\ UNCHANGED <<born, keyUntil, creating, deleting, lookupVars, sessionVars>>

Service(a) == 
  \/ InsertAccount(a) \/ CacheNewAddress(a) \/ ForgetAddress(a)
  \/ EraseAccount(a) \/ ExpireAccount(a) \/ LoseKey(a)

Rcpt(s) ==
  \/ \E a \in Addrs : RcptFromRedis(s, a) \/ RcptTurnedAway(s, a) \/ RcptLooksUp(s, a)
  \/ Data(s) \/ ResetSession(s)

Lookup(a) == QueryReads(a) \/ FlightLands(a)

\* What ends a wait.
Answered(s) == TakeRefusal(s) \/ TakeAccount(s) \/ WarmAddress(s) \/ LookupTimesOut(s)

FrontNext ==
  \/ \E a \in Addrs : Service(a) \/ Lookup(a)
  \/ \E s \in Sessions : Rcpt(s) \/ Answered(s)
  \/ FrontTick

FrontSpec == FrontInit /\ [][FrontNext]_frontVars

------------------------------------------------------------------------------
(***************************************************************************)
(* An address is refused for good (550) only if it had no account at some  *)
(* moment not longer ago than a negative entry and the query behind it can *)
(* last (server.go 218-300): negative cache, shared look-up and late       *)
(* answers together refuse a new account no longer than that.              *)
(***************************************************************************)
RefusedWereAbsent ==
  \A a \in Addrs :
    \/ NegativeLive(a)
    \/ \E s \in Sessions : rcpt[s].addr = a /\ rcpt[s].answer.kind = "absent"
    => now < absentAt[a] + NegTTL + QueryTime

(***************************************************************************)
(* An address is accepted only if its account existed not longer ago than  *)
(* an account lives, plus the calls between reading it and writing its key *)
(* (CreateAccount, DeleteAccount, lookupAndWarmAddress): neither a late    *)
(* key of a deleted account nor one that is written again and again keeps  *)
(* an address alive without its account.                                   *)
(***************************************************************************)
AcceptedExisted ==
  \A a \in Addrs :
    KeyLive(a) \/ (\E s \in Sessions : rcpt[s].addr = a /\ rcpt[s].state = "warm")
    => /\ existedAt[a] # -1
       /\ now < existedAt[a] + AccountTTL + QueryTime + WaitTime + CallTime
==============================================================================
