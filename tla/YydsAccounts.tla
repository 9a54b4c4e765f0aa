----------------------------- MODULE YydsAccounts ----------------------------
(***************************************************************************)
(* Creating, using and deleting inboxes in the yyds dialect, which decides *)
(* on a domain without the cache of the core handlers: it asks MongoDB for *)
(* the name, then for its parents one by one, while a process that starts  *)
(* synchronises the domains one by one.  Without a domain in the request   *)
(* it takes the one its key names, if that may be used, or a visible one.  *)
(*                                                                         *)
(* Each query is one step.  Other handlers create and delete accounts at   *)
(* any time; deleting an account is one step here, see MailApi.            *)
(***************************************************************************)
EXTENDS DomainRules, Naturals, FiniteSets

CONSTANTS
  Visitors,    \* requests in progress
  YydsAsks,    \* the requests, see YydsAsk
  MaxAttempts, \* how often another address is generated
  MaxChanges   \* bound: domains changed

\* No domain: the server chooses.  No name: the server generates one.  With
\* sub the address lies in a subdomain of the domain.  own is the default
\* domain of an API key.
YydsAsk == [kind : {"create", "token", "delete"}, caller : Callers, name : Names \cup {Nobody},
            domain : Domains \cup {NoDomain}, sub : BOOLEAN, own : Domains \cup {NoDomain}]

ASSUME YydsAssumption ==
  /\ YydsAsks \subseteq YydsAsk
  /\ \A a \in YydsAsks : /\ a.kind # "create" => a.name # Nobody /\ a.domain # NoDomain /\ ~a.sub
                         /\ a.caller.kind # "key" => a.own = NoDomain
  /\ {MaxAttempts, MaxChanges} \subseteq Nat

VARIABLES
  domains,    \* the domains in MongoDB
  boxes,      \* addresses with an account
  visit,      \* the requests in progress
  changes

yydsVars == <<domains, boxes, visit, changes>>

\* seen is history: what the collection of domains was since the check of
\* target began; chosen says that the server has taken target from its list.
YydsTypeOK ==
  /\ domains \in Tables
  /\ boxes \subseteq Addresses
  /\ visit \in [Visitors ->
       [pc : {"idle", "find", "default", "choose", "check", "act", "refused"},
        ask : YydsAsks \cup {Nobody}, target : Domains \cup {NoDomain},
        at : Domains \cup {NoDomain}, addr : Addresses \cup {Nobody},
        tries : 0..MaxAttempts, seen : SUBSET Tables, chosen : BOOLEAN]]
  /\ changes \in 0..MaxChanges

NoVisit == [pc |-> "idle", ask |-> Nobody, target |-> NoDomain, at |-> NoDomain,
            addr |-> Nobody, tries |-> 0, seen |-> {}, chosen |-> FALSE]

YydsInit ==
  /\ domains \in Tables
  /\ boxes = {}
  /\ visit = [v \in Visitors |-> NoVisit]
  /\ changes = 0

------------------------------------------------------------------------------
(* Decisions                                                               *)

\* ensureDomainAccessible: d is asked for, m is the domain found for it.
Accessible(c, d, m, status) ==
  CASE c.kind = "key" -> /\ IsDomainAllowed(c, d)
                         /\ status = "private" => IsDomainExplicitlyAllowed(c, m)
    [] c.kind = "jwt" -> IsDomainAllowed(c, d)
    [] OTHER          -> status = "public"

\* Mutant: keys without domains of their own are shown private ones.
VisibleWithPrivate(c, tbl) ==
  {d \in Domains : /\ tbl[d] # "off"
                   /\ IF c.kind \in {"key", "jwt"} THEN IsDomainAllowed(c, d)
                      ELSE tbl[d] = "public"}

Visible(c, tbl) ==
  {d \in Domains : /\ tbl[d] # "off"
                   /\ IF c.kind \in {"key", "jwt"}
                      THEN /\ IsDomainAllowed(c, d)
                           /\ tbl[d] = "private" => IsDomainExplicitlyAllowed(c, d)
                      ELSE tbl[d] = "public"}

\* The domains an address may get when d was asked for or chosen.
Targets(d, sub) == IF sub THEN {e \in Domains : Parent[e] = d} ELSE {d}

------------------------------------------------------------------------------
Put(v, w) == visit' = [visit EXCEPT ![v] = w]

Answer(v) == Put(v, NoVisit)

\* A check of target begins.
Checking(pc, ask, target, chosen) ==
  [NoVisit EXCEPT !.pc = pc, !.ask = ask, !.target = target, !.at = target,
                  !.seen = {domains}, !.chosen = chosen]

\* requireCreateAccountAuth, requireAnyAuth and the beginning of each handler.
Visit(v) ==
  /\ visit[v].pc = "idle"
  /\ \E ask \in YydsAsks :
       /\ ask.kind = "create" => RequireAPIKey(ask.caller)
       /\ ask.kind = "delete" => ask.caller.kind \in {"key", "jwt"}
       /\ IF ask.kind = "delete"
            THEN Put(v, [NoVisit EXCEPT !.pc = "find", !.ask = ask])
          ELSE IF ask.domain # NoDomain
            THEN \E t \in Targets(ask.domain, ask.sub) : Put(v, Checking("check", ask, t, FALSE))
          ELSE IF ask.own # NoDomain
            THEN Put(v, Checking("default", ask, ask.own, FALSE))
          ELSE Put(v, [NoVisit EXCEPT !.pc = "choose", !.ask = ask])
  /\ UNCHANGED <<domains, boxes, changes>>

\* accountByIDAuthorized: a token is enough for its own account.
FindByID(v) ==
  LET ask == visit[v].ask
      addr == <<ask.name, ask.domain>>
  IN  /\ visit[v].pc = "find"
      /\ IF addr \notin boxes THEN Answer(v)
         ELSE IF ask.caller.kind = "jwt"
           THEN Put(v, [visit[v] EXCEPT !.pc = "act", !.addr = addr])
         ELSE Put(v, Checking("check", ask, ask.domain, FALSE))
      /\ UNCHANGED <<domains, boxes, changes>>

\* What follows a check of the default domain, and of the domain itself.
Judge(v, ok) ==
  LET w == visit[v]
  IN  CASE w.pc = "default" /\ ok ->
             \E t \in Targets(w.target, w.ask.sub) : Put(v, Checking("check", w.ask, t, FALSE))
        [] w.pc = "default" /\ ~ok ->
             Put(v, [NoVisit EXCEPT !.pc = "choose", !.ask = w.ask])
        [] w.pc = "check" /\ ok ->
             \E n \in IF w.ask.name = Nobody THEN Generated ELSE {w.ask.name} :
               Put(v, [w EXCEPT !.pc = "act", !.addr = <<n, w.target>>])
        [] w.pc = "check" /\ ~ok -> Put(v, [w EXCEPT !.pc = "refused"])

\* Mutant: only the name itself is looked for.
ExactOnly(d) == NoDomain

\* domainutil.Candidates
NextCandidate(d) == Parent[d]

\* GetDomainByName of the next candidate.
AskDomain(v) ==
  LET w == visit[v]
      status == domains[w.at]
  IN  /\ w.pc \in {"default", "check"}
      /\ IF status # "off" THEN Judge(v, Accessible(w.ask.caller, w.target, w.at, status))
         ELSE IF NextCandidate(w.at) # NoDomain THEN Put(v, [w EXCEPT !.at = NextCandidate(@)])
         ELSE Judge(v, FALSE)
      /\ UNCHANGED <<domains, boxes, changes>>

\* The list is read and some domain of it is taken; the strategies of the
\* request only put it in order.
Choose(v) ==
  LET ask == visit[v].ask
      list == Visible(ask.caller, domains)
  IN  /\ visit[v].pc = "choose"
      /\ IF list = {} THEN Answer(v)
         ELSE \E d \in list : \E t \in Targets(d, ask.sub) :
                Put(v, Checking("check", ask, t, ~ask.sub))
      /\ UNCHANGED <<domains, boxes, changes>>

\* An address that is taken is replaced only if the server has made it up.
Create(v) ==
  LET w == visit[v]
  IN  /\ w.pc = "act" /\ w.ask.kind = "create"
      /\ IF w.addr \notin boxes THEN boxes' = boxes \cup {w.addr} /\ Answer(v)
         ELSE /\ UNCHANGED boxes
              /\ IF w.ask.name = Nobody /\ w.tries < MaxAttempts
                   THEN \E n \in Generated :
                          Put(v, [w EXCEPT !.tries = @ + 1, !.addr = <<n, w.addr[2]>>])
                   ELSE Answer(v)
      /\ UNCHANGED <<domains, changes>>

Remove(v) ==
  /\ visit[v].pc = "act" /\ visit[v].ask.kind = "delete"
  /\ boxes' = boxes \ {visit[v].addr}
  /\ Answer(v)
  /\ UNCHANGED <<domains, changes>>

\* A refusal or a token is answered; any call fails.  The check of a default
\* domain that fails is as good as a refusal.
End(v) ==
  /\ visit[v].pc # "idle"
  /\ IF visit[v].pc = "default" THEN Judge(v, FALSE) ELSE Answer(v)
  /\ UNCHANGED <<domains, boxes, changes>>

\* SyncDomains of a process that starts, or an operator.
ChangeDomain ==
  /\ changes < MaxChanges
  /\ changes' = changes + 1
  /\ \E d \in Domains, s \in {"off", "public", "private"} : domains' = [domains EXCEPT ![d] = s]
  /\ visit' = [v \in Visitors |-> IF visit[v].pc \notin {"default", "check"} THEN visit[v]
                                  ELSE [visit[v] EXCEPT !.seen = @ \cup {domains'}]]
  /\ UNCHANGED boxes

\* Another handler creates or deletes an account, or one expires.
OtherRequest ==
  /\ \E a \in Addresses : boxes' \in {boxes \cup {a}, boxes \ {a}}
  /\ UNCHANGED <<domains, visit, changes>>

VisitorStep(v) ==
  Visit(v) \/ FindByID(v) \/ AskDomain(v) \/ Choose(v) \/ Create(v) \/ Remove(v) \/ End(v)

YydsNext == (\E v \in Visitors : VisitorStep(v)) \/ ChangeDomain \/ OtherRequest

YydsSpec == YydsInit /\ [][YydsNext]_yydsVars

------------------------------------------------------------------------------
\* The decision that the most specific domain of a table calls for.
MayUse(c, d, tbl) ==
  LET m == Match(d, {e \in Domains : tbl[e] # "off"})
  IN  m # NoDomain /\ Accessible(c, d, m, tbl[m])

(***************************************************************************)
(* The queries of a check, one per candidate, decide as a single look at   *)
(* the domains at some moment of the check would (ensureDomainAccessible), *)
(* as long as only one domain changes meanwhile.  When two do, they may    *)
(* decide as no look would have.                                           *)
(***************************************************************************)
DecidedAtOnce ==
  \A v \in Visitors :
    LET w == visit[v]
        oneMoved == \E d \in Domains : \A s, t \in w.seen : \A e \in Domains \ {d} : s[e] = t[e]
    IN  w.pc \in {"act", "refused"} /\ w.seen # {} /\ oneMoved
          => \E t \in w.seen : (w.pc = "act") = MayUse(w.ask.caller, w.target, t)

(***************************************************************************)
(* A request that leaves the domain to the server is not refused the       *)
(* domain that the server has chosen, unless the domains change in between *)
(* (candidateDomainsForCreate, ensureDomainAccessible: listing and checking *)
(* follow rules of their own).                                             *)
(***************************************************************************)
ChosenIsAccepted ==
  \A v \in Visitors : visit[v].pc = "refused" /\ visit[v].chosen => Cardinality(visit[v].seen) > 1
==============================================================================
