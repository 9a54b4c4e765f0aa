SPECIFICATION ServicesSpec
CONSTANTS
  i1 = i1
  i2 = i2
  \* SmtpFront
  Addrs = {x1}
  Sessions = {p1, p2}
  None = None
  AccountTTL = 3
  NegTTL = 2
  QueryTime = 1
  WaitTime = 1
  CallTime = 1
  MaxLookup = 2
  MaxTime = 6
  \* RateLimit
  Procs = {p1, p2}
  RateKeys = {"ip", "key"}
  Chain <- IpThenKey
  Limit <- LimitOne
  Window = 2
  RedisTime = 1
  MaxHits = 3
  MaxTicks = 6
  \* IndexSetup
  Starters = {p1, p2}
  Plan <- SixTasks
  OldIndexes <- SomeOldIndexes
  NoIndex = NoIndex
  MaxTrouble = 2
  \* Listing
  Mails = {i1, i2}
  Walkers = {p1, p2}
  CreatedAt <- SameMoment
  IdOrder <- FirstSecond
  PerPage = 1
  NoMail = NoMail
  Kinds <- UnseenByBoth
  MaxTurns = 2
  \* Flags
  Letters = {k1, k2}
  Editors = {p1, p2}
  AllowKeep = TRUE
  MaxEdits = 1
  \* DomainRules, Accounts
  Domains = {"d", "s.d"}
  Parent <- Subdomain
  NoDomain = NoDomain
  Labels <- LabelsOf
  Names = {"n"}
  Generated = {"g"}
  Nobody = Nobody
  Callers <- FourCallers
  Asks <- FourAsks
  Requests = {p1, p2}
  CacheTTL = 1
  LoadTime = 1
  MaxBcrypt = 1
  MaxTries = 1
  LastTick = 2
  MaxSyncs = 1
  \* YydsAccounts
  Visitors = {i1}
  YydsAsks <- SevenYydsAsks
  MaxAttempts = 1
  MaxChanges = 2
  \* SizedCache
  Tokens = {k1, k2}
  Calls = {p1, p2}
  MaxEntries = 1
  MaxAges = 2
  \* CountCache
  Askers = {p1, p2}
  MaxTotal = 1
  KeepTotal = 2
  CountTime = 1
  LastMoment = 5
VIEW Moving
SYMMETRY Interchangeable
CHECK_DEADLOCK FALSE
INVARIANTS
  ServicesTypeOK
  
  AcceptedExisted
  RefusedForCause
  TwiceTheLimit
  SettledIsRight
  
  ForeignIndexKept
  NothingTwice
  NothingSkipped
  AnsweredFlagsHeld
  ChecksAreFresh
  
  
  DecidedAtOnce
  ChosenIsAccepted
  NoPhantomEntries
  TotalIsRecent
