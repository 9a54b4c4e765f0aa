---------------------------- MODULE DomainRules ------------------------------
(***************************************************************************)
(* Who may use which domain: the decisions that the handlers take on what  *)
(* they know of the caller and of the domains.                             *)
(*                                                                         *)
(* A domain is a name and its Parent what is left without its first label. *)
(* An address is a local part in a domain.                                 *)
(***************************************************************************)
EXTENDS Naturals

CONSTANTS
  Domains, Parent, NoDomain,
  Labels,      \* how many labels a domain has
  Names,       \* local parts that clients ask for
  Generated,   \* local parts that the generator may come up with
  Nobody,
  Callers      \* [kind, explicit, wildcard] of those who call

\* "open": no API keys are configured; "anon": they are, but none was given.
Caller == [kind : {"open", "anon", "key", "jwt"}, explicit : SUBSET Domains,
           wildcard : BOOLEAN]

ASSUME RulesAssumption ==
  /\ Parent \in [Domains -> Domains \cup {NoDomain}]
  /\ NoDomain \notin Domains
  /\ Labels \in [Domains -> Nat]
  /\ \A d \in Domains : Parent[d] # NoDomain => Labels[Parent[d]] < Labels[d]
  /\ Nobody \notin Names \cup Generated
  /\ Callers \subseteq Caller
  /\ \A c \in Callers : c.kind \in {"open", "anon"} => c.wildcard /\ c.explicit = {}

\* What the collection of domains may say of each name.
Tables == [Domains -> {"off", "public", "private"}]
Addresses == (Names \cup Generated) \X Domains

\* The most specific of the names in S that d is or lies under.
Match(d, S) ==
  LET match[e \in Domains \cup {NoDomain}] ==
        IF e = NoDomain THEN NoDomain ELSE IF e \in S THEN e ELSE match[Parent[e]]
  IN  match[d]

IsDomainAllowed(c, d) == c.wildcard \/ Match(d, c.explicit) # NoDomain

IsDomainExplicitlyAllowed(c, d) == d \in c.explicit

HasWildcardAccess(c) == c.wildcard

RequireAPIKey(c) == c.kind # "anon"

\* Mutant: the list shows private domains to those who list nothing.
ListedToAll(c, tbl) ==
  {d \in Domains : tbl[d] # "off" /\ (HasWildcardAccess(c) \/ d \in c.explicit)}

\* ListDomains
Listed(c, tbl) ==
  {d \in Domains : /\ tbl[d] # "off"
                   /\ HasWildcardAccess(c) \/ d \in c.explicit
                   /\ tbl[d] = "private" => IsDomainExplicitlyAllowed(c, d)}

\* What getDomainInfo says of the domain, and the rule for private ones.
Usable(c, d, tbl) ==
  /\ tbl[d] # "off"
  /\ tbl[d] = "private" => IsDomainExplicitlyAllowed(c, d)
==============================================================================
