------------------------------ MODULE Accounts -------------------------------
(***************************************************************************)
(* Who may use which domain, and the three handlers that ask: creating an  *)
(* account, getting a token, and proposing addresses.  The domains are in  *)
(* MongoDB; each process reads them through a cache of a fixed life behind *)
(* a mutex, which serves what it has when MongoDB fails.  Hashing a        *)
(* password takes one of few permits.                                      *)
(*                                                                         *)
(* Rate limits are in RateLimit, the Redis key of a new account in         *)
(* SmtpFront.  One process, whose requests interleave.                     *)
(***************************************************************************)
EXTENDS DomainRules, Integers, FiniteSets

CONSTANTS
  Asks,        \* the requests, see AskType
  Requests,    \* slots for requests in progress
  CacheTTL,    \* domainsCacheTTL
  LoadTime,    \* longest ListDomains
  MaxBcrypt,   \* cap(bcryptSem)
  MaxTries,    \* how often another address is generated
  LastTick, MaxSyncs   \* bounds

\* The domain is that of the address, if a name is given; more is the field
\* domain of a request that gives an address as well.
AskType == [kind : {"create", "token", "random"}, caller : Callers,
            name : Names \cup {Nobody}, domain : Domains, more : Domains \cup {NoDomain}]

ASSUME AccountsAssumption ==
  /\ Nobody \notin Requests
  /\ Asks \subseteq AskType
  /\ \A a \in Asks : a.kind = "token" => a.name # Nobody
  /\ CacheTTL \in Nat \ {0}
  /\ {LoadTime, MaxBcrypt, MaxTries, LastTick, MaxSyncs} \subseteq Nat

VARIABLES
  tick,
  table,      \* the domains in MongoDB
  cached,     \* domainCache
  holder,     \* who holds domainCacheMu
  job,        \* the requests in progress
  taken,      \* addresses with an account
  syncs

accountVars == <<tick, table, cached, holder, job, taken, syncs>>

AccountsTypeOK ==
  /\ tick \in 0..LastTick
  /\ table \in Tables
  /\ cached \in [known : BOOLEAN, table : Tables, until : Nat, asOf : Nat]
  /\ holder \in Requests \cup {Nobody}
  /\ job \in [Requests ->
       [pc : {"idle", "check", "lock", "load", "store", "lookup", "gate", "hash", "insert", "made"},
        ask : Asks \cup {Nobody}, addr : Addresses \cup {Nobody}, since : 0..LastTick,
        view : Tables, asOf : Nat, at : 0..LastTick, failed : BOOLEAN, tries : 0..MaxTries]]
  /\ taken \in SUBSET Addresses
  /\ syncs \in 0..MaxSyncs

AllOff == [d \in Domains |-> "off"]
NoJob == [pc |-> "idle", ask |-> Nobody, addr |-> Nobody, since |-> 0, view |-> AllOff,
          asOf |-> 0, at |-> 0, failed |-> FALSE, tries |-> 0]

AccountsInit ==
  /\ tick = 0
  /\ table = [d \in Domains |-> "public"]
  /\ cached = [known |-> FALSE, table |-> AllOff, until |-> 0, asOf |-> 0]
  /\ holder = Nobody
  /\ job = [r \in Requests |-> NoJob]
  /\ taken = {}
  /\ syncs = 0

------------------------------------------------------------------------------
(* The domain cache                                                        *)

Go(r, pc) == [job EXCEPT ![r].pc = pc]
Reply(r) == [job EXCEPT ![r] = NoJob]

AfterChecks(ask) == CASE ask.kind = "create" -> "gate"
                      [] ask.kind = "token"  -> "lookup"
                      [] ask.kind = "random" -> "idle"

\* The request goes on, or is refused, by what a table says.
Decide(r, tbl, asOf, failed) ==
  LET ask == job[r].ask
  IN  job' = IF Usable(ask.caller, ask.domain, tbl) /\ AfterChecks(ask) # "idle"
             THEN [job EXCEPT ![r].pc = AfterChecks(ask), ![r].asOf = asOf, ![r].at = tick,
                              ![r].failed = failed, ![r].view = AllOff]
             ELSE Reply(r)

\* The caller is known and may use the domain, as far as that goes without
\* looking it up.
Submit(r) ==
  /\ job[r].pc = "idle"
  /\ \E ask \in Asks :
       /\ ask.kind # "token" => RequireAPIKey(ask.caller)
       /\ IsDomainAllowed(ask.caller, ask.domain)
       /\ \E n \in IF ask.name = Nobody THEN Generated ELSE {ask.name} :
            job' = [job EXCEPT ![r] = [NoJob EXCEPT !.pc = "check", !.ask = ask,
                                                    !.addr = <<n, ask.domain>>]]
  /\ UNCHANGED <<tick, table, cached, holder, taken, syncs>>

Fresh(since) == cached.known /\ since < cached.until

\* "now" is read here, once.
LookInCache(r) ==
  /\ job[r].pc = "check"
  /\ IF Fresh(tick) THEN Decide(r, cached.table, cached.asOf, FALSE)
     ELSE job' = [job EXCEPT ![r].pc = "lock", ![r].since = tick]
  /\ UNCHANGED <<tick, table, cached, holder, taken, syncs>>

\* A mutex of Go is not handed to a late comer once somebody waits for long.
Lock(r) ==
  /\ job[r].pc = "lock"
  /\ holder = Nobody
  /\ \A q \in Requests : job[q].pc = "lock" => job[q].since >= job[r].since
  /\ IF Fresh(job[r].since)
       THEN Decide(r, cached.table, cached.asOf, FALSE) /\ UNCHANGED holder
       ELSE /\ job' = [job EXCEPT ![r].pc = "load", ![r].at = tick]
            /\ holder' = r
  /\ UNCHANGED <<tick, table, cached, taken, syncs>>

ListDomains(r) ==
  /\ job[r].pc = "load"
  /\ job' = [job EXCEPT ![r].pc = "store", ![r].view = table, ![r].asOf = tick]
  /\ UNCHANGED <<tick, table, cached, holder, taken, syncs>>

StoreDomains(r) ==
  /\ job[r].pc = "store"
  /\ cached' = [known |-> TRUE, table |-> job[r].view, until |-> job[r].since + CacheTTL,
                asOf |-> job[r].asOf]
  /\ holder' = Nobody
  /\ Decide(r, job[r].view, job[r].asOf, FALSE)
  /\ UNCHANGED <<tick, table, taken, syncs>>

\* Mutant: what is served because of a failure counts as fresh again.
Renewed(r) == [cached EXCEPT !.until = job[r].since + CacheTTL]

KeptAsIs(r) == cached

\* MongoDB does not answer: what there is is used, however old.
ListFails(r) ==
  /\ job[r].pc \in {"load", "store"}
  /\ holder' = Nobody
  /\ IF cached.known
       THEN cached' = KeptAsIs(r) /\ Decide(r, cached.table, cached.asOf, TRUE)
       ELSE job' = Reply(r) /\ UNCHANGED cached
  /\ UNCHANGED <<tick, table, taken, syncs>>

------------------------------------------------------------------------------
(* Creating an account, getting a token                                    *)

Hashing == {r \in Requests : job[r].pc = "hash"}

\* What the checks were based on is forgotten.
Hash(r) == [job EXCEPT ![r] = [NoJob EXCEPT !.pc = "hash", !.ask = job[r].ask,
                                            !.addr = job[r].addr]]

\* A permit for bcrypt, or 503 after a wait.
BcryptPermit(r) ==
  /\ job[r].pc = "gate"
  /\ job' = IF Cardinality(Hashing) < MaxBcrypt THEN Hash(r) ELSE Reply(r)
  /\ UNCHANGED <<tick, table, cached, holder, taken, syncs>>

\* A token is answered, or refused, when the password has been compared.
Hashed(r) ==
  /\ job[r].pc = "hash"
  /\ job' = IF job[r].ask.kind = "create" THEN Go(r, "insert") ELSE Reply(r)
  /\ UNCHANGED <<tick, table, cached, holder, taken, syncs>>

FindByAddress(r) ==
  /\ job[r].pc = "lookup"
  /\ job' = IF job[r].addr \in taken THEN Go(r, "gate") ELSE Reply(r)
  /\ UNCHANGED <<tick, table, cached, holder, taken, syncs>>

\* Mutant: the domain of the key, not the one that was asked for.
DomainOfKey(ask) == Match(ask.domain, ask.caller.explicit)

\* The field domain of the request: without it there is no other address.
RetryDomain(ask) == IF ask.name = Nobody THEN ask.domain ELSE ask.more

InsertAddress(r) ==
  LET j == job[r]
  IN  /\ j.pc = "insert"
      /\ IF j.addr \notin taken
           THEN taken' = taken \cup {j.addr} /\ job' = Go(r, "made")
           ELSE /\ UNCHANGED taken
                /\ IF RetryDomain(j.ask) # NoDomain /\ j.tries < MaxTries
                     THEN \E n \in Generated :
                            job' = [job EXCEPT ![r].tries = @ + 1,
                                               ![r].addr = <<n, RetryDomain(j.ask)>>]
                     ELSE job' = Reply(r)
      /\ UNCHANGED <<tick, table, cached, holder, syncs>>

\* A success is answered; an insert or an earlier step fails and is answered so.
Finish(r) ==
  /\ job[r].pc \in {"made", "insert", "lookup", "gate"}
  /\ job' = Reply(r)
  /\ UNCHANGED <<tick, table, cached, holder, taken, syncs>>

\* An account is deleted or expires.
FreeAddress ==
  /\ \E a \in taken : taken' = taken \ {a}
  /\ UNCHANGED <<tick, table, cached, holder, job, syncs>>

\* SyncDomains of a process that starts, one upsert at a time.
SyncDomain ==
  /\ syncs < MaxSyncs
  /\ syncs' = syncs + 1
  /\ \E d \in Domains, v \in {"off", "public", "private"} : table' = [table EXCEPT ![d] = v]
  /\ UNCHANGED <<tick, cached, holder, job, taken>>

AccountsTick ==
  /\ tick < LastTick
  /\ \A r \in Requests : job[r].pc \in {"load", "store"} => tick < job[r].at + LoadTime
  /\ holder = Nobody => \A r \in Requests : job[r].pc # "lock"
  /\ tick' = tick + 1
  /\ UNCHANGED <<table, cached, holder, job, taken, syncs>>

RequestStep(r) ==
  \/ Submit(r) \/ LookInCache(r) \/ Lock(r) \/ ListDomains(r) \/ StoreDomains(r) \/ ListFails(r)
  \/ BcryptPermit(r) \/ Hashed(r) \/ FindByAddress(r) \/ InsertAddress(r) \/ Finish(r)

AccountsNext == (\E r \in Requests : RequestStep(r)) \/ FreeAddress \/ SyncDomain \/ AccountsTick

AccountsSpec == AccountsInit /\ [][AccountsNext]_accountVars

------------------------------------------------------------------------------
(***************************************************************************)
(* A request is let through by what MongoDB said of its domain not longer  *)
(* ago than the cache lives and a query takes (getDomainCache), or else    *)
(* because its own query failed: however many wait for the mutex, nobody   *)
(* is served the old table of somebody else's failure.                     *)
(***************************************************************************)
ChecksAreFresh ==
  \A r \in Requests : job[r].pc \in {"lookup", "gate"} =>
    \/ job[r].failed
    \/ job[r].at < job[r].asOf + CacheTTL + LoadTime

(***************************************************************************)
(* An account is created at the address asked for, or at a generated one   *)
(* of the domain that was checked; only a request that gives an address    *)
(* and another domain as well may end in that other domain, which nobody   *)
(* has checked (CreateAccount retries whenever the field domain is set).   *)
(***************************************************************************)
CreatedWhereChecked ==
  \A r \in Requests : job[r].pc = "made" =>
    LET ask == job[r].ask
    IN  \/ ask.name # Nobody /\ job[r].addr = <<ask.name, ask.domain>>
        \/ ask.name = Nobody /\ job[r].addr[2] = ask.domain
        \/ ask.name # Nobody /\ job[r].addr[2] = ask.more

(***************************************************************************)
(* Whoever is shown a domain by GET /domains and has the key that POST     *)
(* /accounts asks for may create accounts in it: the two handlers decide   *)
(* by different rules (exact names here, parents and wildcards there).     *)
(***************************************************************************)
ListedIsUsable ==
  \A c \in Callers : \A d \in Listed(c, cached.table) :
    IsDomainAllowed(c, d) /\ Usable(c, d, cached.table)
==============================================================================
