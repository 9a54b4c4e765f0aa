----------------------------- MODULE MCServices ------------------------------
(***************************************************************************)
(* Small instances of the parts that are specified on their own, checked   *)
(* side by side: a behaviour is one of one part, while the variables of    *)
(* the others keep their initial values.                                   *)
(***************************************************************************)
EXTENDS SmtpFront, RateLimit, IndexSetup, Listing, Flags, Accounts, YydsAccounts, SizedCache,
        CountCache, TLC

CONSTANTS i1, i2

VARIABLE part

Parts == {"front", "limit", "setup", "list", "flags", "accounts", "yyds", "cache",
          "count"}

------------------------------------------------------------------------------
(* Values of the constants                                                 *)

\* The API key has no limit.
IpThenKey == <<"ip", "key">>
LimitOne == ("ip" :> 1 @@ "key" :> 0)

Is(unique, secs, partial) == [unique |-> unique, secs |-> secs, partial |-> partial]
Task(keys, kind, want) == [keys |-> keys, kind |-> kind, want |-> want]

\* One task of each kind.
SixTasks == << Task("address", "unique", Is(TRUE, 0, FALSE)),
               Task("role", "plain", Is(FALSE, 0, FALSE)),
               Task("accountId", "drop", Is(FALSE, 0, FALSE)),
               Task("accountExpiry", "noTTL", Is(FALSE, 0, FALSE)),
               Task("expiry", "ttl", Is(FALSE, 2, TRUE)),
               Task("ingest", "uniquePartial", Is(TRUE, 0, TRUE)) >>

NoIndexes == [k \in IndexKeys |-> NoIndex]

\* For each list of keys what may be there: nothing, what is wanted, and what
\* an earlier release or somebody else has left.  Tasks on different keys
\* meet only in their order, so at most two start from something odd.
SomeOldIndexes ==
  {[NoIndexes EXCEPT !["address"] = a, !["expiry"] = e] :
     a \in {NoIndex, Is(FALSE, 0, FALSE), Is(TRUE, 0, FALSE)},
     e \in {NoIndex, Is(FALSE, 0, FALSE), Is(FALSE, 1, TRUE), Is(FALSE, 2, TRUE),
            Is(FALSE, 2, FALSE)}}
  \cup {[NoIndexes EXCEPT !["role"] = Is(FALSE, 0, FALSE), !["accountId"] = Is(FALSE, 0, FALSE),
                          !["accountExpiry"] = x, !["ingest"] = g] :
          x \in {Is(FALSE, 0, FALSE), Is(FALSE, 2, FALSE)},
          g \in {NoIndex, Is(TRUE, 0, FALSE), Is(FALSE, 0, FALSE)}}

SameMoment == (i1 :> 1 @@ i2 :> 1)
FirstSecond == (i1 :> 1 @@ i2 :> 2)
UnseenByBoth == {<<"unseen", "token">>, <<"unseen", "id">>}

\* "s.d" is a subdomain of "d".
Subdomain == ("d" :> NoDomain @@ "s.d" :> "d")
LabelsOf == ("d" :> 1 @@ "s.d" :> 2)

KeyForD == [kind |-> "key", explicit |-> {"d"}, wildcard |-> FALSE]
KeyForAll == [kind |-> "key", explicit |-> {"s.d"}, wildcard |-> TRUE]
TokenForSD == [kind |-> "jwt", explicit |-> {"s.d"}, wildcard |-> FALSE]
NoKeyGiven == [kind |-> "anon", explicit |-> {}, wildcard |-> TRUE]
FourCallers == {KeyForD, KeyForAll, TokenForSD, NoKeyGiven}

Asked(kind, caller, name, domain, more) ==
  [kind |-> kind, caller |-> caller, name |-> name, domain |-> domain, more |-> more]

FourAsks == {Asked("create", KeyForD, Nobody, "s.d", NoDomain),
             Asked("create", KeyForAll, "n", "d", "s.d"),
             Asked("token", NoKeyGiven, "n", "d", NoDomain),
             Asked("random", KeyForD, Nobody, "d", NoDomain)}

YydsAsked(kind, caller, name, domain, sub, own) ==
  [kind |-> kind, caller |-> caller, name |-> name, domain |-> domain, sub |-> sub, own |-> own]

SevenYydsAsks ==
  {YydsAsked("create", KeyForD, Nobody, NoDomain, FALSE, NoDomain),
   YydsAsked("create", KeyForAll, Nobody, NoDomain, TRUE, "d"),
   YydsAsked("create", KeyForAll, "n", NoDomain, FALSE, "s.d"),
   YydsAsked("create", TokenForSD, "n", "s.d", FALSE, NoDomain),
   YydsAsked("token", NoKeyGiven, "n", "s.d", FALSE, NoDomain),
   YydsAsked("delete", KeyForD, "n", "s.d", FALSE, NoDomain),
   YydsAsked("delete", TokenForSD, "n", "s.d", FALSE, NoDomain)}

\* All parts share their actors.
Interchangeable == Permutations(Procs)

------------------------------------------------------------------------------
ServicesInit ==
  /\ part \in Parts
  /\ FrontInit /\ LimitInit /\ SetupInit /\ ListInit /\ FlagsInit /\ AccountsInit
  /\ YydsInit /\ CacheInit /\ CountInit
  /\ part # "setup" => old = NoIndexes
  /\ part # "yyds" => domains = [d \in Domains |-> "public"]
  /\ part # "cache" => style = "bounded"

Only(p) ==
  /\ part = p /\ UNCHANGED part
  /\ p # "front" => UNCHANGED frontVars
  /\ p # "limit" => UNCHANGED limitVars
  /\ p # "setup" => UNCHANGED setupVars
  /\ p # "list" => UNCHANGED listVars
  /\ p # "flags" => UNCHANGED flagVars
  /\ p # "accounts" => UNCHANGED accountVars
  /\ p # "yyds" => UNCHANGED yydsVars
  /\ p # "cache" => UNCHANGED cacheVars
  /\ p # "count" => UNCHANGED countVars

ServicesNext ==
  \/ Only("front") /\ FrontNext
  \/ Only("limit") /\ LimitNext
  \/ Only("setup") /\ SetupNext
  \/ Only("list") /\ ListNext
  \/ Only("flags") /\ FlagsNext
  \/ Only("accounts") /\ AccountsNext
  \/ Only("yyds") /\ YydsNext
  \/ Only("cache") /\ CacheNext
  \/ Only("count") /\ CountNext

ServicesSpec ==
  ServicesInit /\ [][ServicesNext]_<<part, frontVars, limitVars, setupVars, listVars, flagVars,
                                     accountVars, yydsVars, cacheVars, countVars>>

\* States are told apart by the part that moves; the others stand still.
Moving ==
  <<part, CASE part = "front"    -> frontVars
            [] part = "limit"    -> limitVars
            [] part = "setup"    -> setupVars
            [] part = "list"     -> listVars
            [] part = "flags"    -> flagVars
            [] part = "accounts" -> accountVars
            [] part = "yyds"     -> yydsVars
            [] part = "cache"    -> cacheVars
            [] part = "count"    -> countVars>>

\* The types of the part that moves.
ServicesTypeOK ==
  CASE part = "front"    -> FrontTypeOK
    [] part = "limit"    -> LimitTypeOK
    [] part = "setup"    -> SetupTypeOK
    [] part = "list"     -> ListTypeOK
    [] part = "flags"    -> FlagsTypeOK
    [] part = "accounts" -> AccountsTypeOK
    [] part = "yyds"     -> YydsTypeOK
    [] part = "cache"    -> CacheTypeOK
    [] part = "count"    -> CountTypeOK
==============================================================================
