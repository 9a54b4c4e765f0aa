---------------------------- MODULE ServicesProofs ----------------------------
(***************************************************************************)
(* The parts that are specified on their own, side by side: each behaves   *)
(* as specified when they are put together, so what the proofs say of one  *)
(* holds of the instances that TLC checks.                                 *)
(***************************************************************************)
EXTENDS MCServices, CacheProofs, IndexSetupProofs, ListingProofs, AccountsProofs

servicesVars ==
  <<part, frontVars, limitVars, setupVars, listVars, flagVars, accountVars, yydsVars, cacheVars,
    countVars>>

\* Each part takes a step of its own or none.
LEMMA PartsStep ==
  ASSUME [ServicesNext]_servicesVars
  PROVE  /\ [FrontNext]_frontVars /\ [LimitNext]_limitVars /\ [SetupNext]_setupVars
         /\ [ListNext]_listVars /\ [FlagsNext]_flagVars /\ [AccountsNext]_accountVars
         /\ [YydsNext]_yydsVars /\ [CacheNext]_cacheVars /\ [CountNext]_countVars
<1>1. CASE UNCHANGED servicesVars
  BY <1>1 DEF servicesVars
<1>2. CASE ServicesNext
  BY <1>2 DEF ServicesNext, Only
<1>. QED  BY <1>1, <1>2

(***************************************************************************)
(* Put side by side, each part is the part that was specified: the common  *)
(* run takes nothing from any of them and adds nothing.                    *)
(***************************************************************************)
THEOREM PartsAreAsSpecified ==
  ServicesSpec => /\ FrontSpec /\ LimitSpec /\ SetupSpec /\ ListSpec /\ FlagsSpec
                  /\ AccountsSpec /\ YydsSpec /\ CacheSpec /\ CountSpec
<1>1. ServicesInit => /\ FrontInit /\ LimitInit /\ SetupInit /\ ListInit /\ FlagsInit
                      /\ AccountsInit /\ YydsInit /\ CacheInit /\ CountInit
  BY DEF ServicesInit
<1>2. [ServicesNext]_servicesVars =>
        /\ [FrontNext]_frontVars /\ [LimitNext]_limitVars /\ [SetupNext]_setupVars
        /\ [ListNext]_listVars /\ [FlagsNext]_flagVars /\ [AccountsNext]_accountVars
        /\ [YydsNext]_yydsVars /\ [CacheNext]_cacheVars /\ [CountNext]_countVars
  BY PartsStep
<1>3. ServicesSpec => ServicesInit /\ [][ServicesNext]_servicesVars
  BY DEF ServicesSpec, servicesVars
<1>. QED  BY <1>1, <1>2, <1>3, PTL
          DEF FrontSpec, LimitSpec, SetupSpec, ListSpec, FlagsSpec, AccountsSpec, YydsSpec,
              CacheSpec, CountSpec

\* The types of each part.
LEMMA PartsAreTyped ==
  /\ FrontSpec => []FrontTypeOK
  /\ LimitSpec => []LimitTypeOK
  /\ SetupSpec => []SetupTypeOK
  /\ ListSpec => []ListTypeOK
  /\ AccountsSpec => []AccountsTypeOK
  /\ CacheSpec => []CacheTypeOK
  /\ CountSpec => []CountTypeOK
<1>1. FrontSpec => []FrontTypeOK
  <2>1. FrontInv => FrontTypeOK
    BY DEF FrontInv
  <2>. QED  BY <2>1, FrontInitially, FrontSteps, PTL DEF FrontSpec
<1>2. LimitSpec => []LimitTypeOK
  <2>1. LimitInv => LimitTypeOK
    BY DEF LimitInv
  <2>. QED  BY <2>1, LimitBegins, LimitStep, PTL DEF LimitSpec
<1>3. SetupSpec => []SetupTypeOK
  <2>1. SetupInv => SetupTypeOK
    BY DEF SetupInv
  <2>. QED  BY <2>1, SetupInitially, SetupSteps, PTL DEF SetupSpec
<1>4. ListSpec => []ListTypeOK
  <2>1. ListInv => ListTypeOK
    BY DEF ListInv
  <2>. QED  BY <2>1, ListInitially, ListSteps, PTL DEF ListSpec
<1>5. AccountsSpec => []AccountsTypeOK
  <2>1. AccountsInv => AccountsTypeOK
    BY DEF AccountsInv
  <2>. QED  BY <2>1, AccountsInitially, AccountsSteps, PTL DEF AccountsSpec
<1>6. CacheSpec => []CacheTypeOK
  <2>1. CacheInv => CacheTypeOK
    BY DEF CacheInv
  <2>. QED  BY <2>1, CacheBegins, CacheMoves, PTL DEF CacheSpec
<1>7. CountSpec => []CountTypeOK
  <2>1. CountInv => CountTypeOK
    BY DEF CountInv
  <2>. QED  BY <2>1, CountInitially, CountSteps, PTL DEF CountSpec
<1>. QED  BY <1>1, <1>2, <1>3, <1>4, <1>5, <1>6, <1>7

PartKnown == part \in Parts

AllTyped ==
  /\ FrontTypeOK /\ LimitTypeOK /\ SetupTypeOK /\ ListTypeOK /\ FlagsTypeOK /\ AccountsTypeOK
  /\ YydsTypeOK /\ CacheTypeOK /\ CountTypeOK

(***************************************************************************)
(* Whatever part moves, its variables and those of all the others have     *)
(* their types, for every value of the constants.                          *)
(***************************************************************************)
THEOREM ServicesAreTyped == ServicesSpec => []ServicesTypeOK
<1>1. ServicesInit => PartKnown
  BY DEF ServicesInit, PartKnown
<1>2. PartKnown /\ [ServicesNext]_servicesVars => PartKnown'
  BY DEF ServicesNext, Only, servicesVars, PartKnown
<1>3. PartKnown /\ AllTyped => ServicesTypeOK
  <2>. SUFFICES ASSUME PartKnown, AllTyped  PROVE ServicesTypeOK
    OBVIOUS
  <2>1. CASE part = "front"
    BY <2>1 DEF AllTyped, ServicesTypeOK
  <2>2. CASE part = "limit"
    BY <2>2 DEF AllTyped, ServicesTypeOK
  <2>3. CASE part = "setup"
    BY <2>3 DEF AllTyped, ServicesTypeOK
  <2>4. CASE part = "list"
    BY <2>4 DEF AllTyped, ServicesTypeOK
  <2>5. CASE part = "flags"
    BY <2>5 DEF AllTyped, ServicesTypeOK
  <2>6. CASE part = "accounts"
    BY <2>6 DEF AllTyped, ServicesTypeOK
  <2>7. CASE part = "yyds"
    BY <2>7 DEF AllTyped, ServicesTypeOK
  <2>8. CASE part = "cache"
    BY <2>8 DEF AllTyped, ServicesTypeOK
  <2>9. CASE part = "count"
    BY <2>9 DEF AllTyped, ServicesTypeOK
  <2>. QED  BY <2>1, <2>2, <2>3, <2>4, <2>5, <2>6, <2>7, <2>8, <2>9 DEF Parts, PartKnown
<1>4. ServicesSpec => ServicesInit /\ [][ServicesNext]_servicesVars
  BY DEF ServicesSpec, servicesVars
<1>5. ServicesSpec => []PartKnown
  BY <1>1, <1>2, <1>4, PTL
<1>6. ServicesSpec => []AllTyped
  BY PartsAreAsSpecified, PartsAreTyped, FlagsAreTyped, YydsIsTyped, PTL DEF AllTyped
<1>. QED  BY <1>3, <1>5, <1>6, PTL
==============================================================================
