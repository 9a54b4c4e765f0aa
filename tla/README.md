# A TLA+ verification of mailapi

mailapi is a temporary-mail service.  Three kinds of process share MongoDB,
Redis, NATS JetStream and MinIO: `cmd/smtp` accepts mail and puts it into a
JetStream work queue, `cmd/worker` takes it out and stores it for each
recipient, and `cmd/api` serves REST and server-sent events.  The processes
hold no locks across them, so what makes the service correct is the order of
their round trips, a few conditional updates and one unique index.  That is
what is modelled here.

## Inventory

| Part | State it keeps | Operations | What is hard | What makes it correct |
|---|---|---|---|---|
| Queue: `internal/queue`, JetStream | stream of mails, delivery counts, unanswered deliveries | Publish, Consume with Ack / Nak / Term, heartbeat | redelivery after AckWait, prefetch, lost answers, MaxDeliver, MaxAge | a mail leaves the queue only when it is finished; it does not stay undecided |
| Worker: `internal/worker` | per callback: recipients left, reservation, what failed | `processMessage`, `processForRecipient`, `tryAsyncStorageCleanup`, `objectGCOnce` | partial failure over recipients, panics, crashes, the same mail in two workers | one copy per mailbox; Ack only when each recipient is served |
| Store: `internal/store`, MongoDB | accounts with `used`, messages, indexes | conditional `$inc`, aggregation, soft and hard deletion, TTL | two round trips that are not atomic, applied writes that report an error | `used` covers what is stored; quota |
| Objects: `internal/storage`, MinIO | raw sources and attachments by message id | upload, removal by prefix, paged listing | removal of the wrong prefix, orphans | an undeleted message has its source; orphans go |
| Removal handlers: `internal/handler` (message, message_bulk, account) | the request in progress | the four deletions | concurrent requests for the same message, failure between batches | deletion is final; releases balance reservations |
| Object collection: `objectGCLoop` | lock in Redis, cursor | list, look up, delete | lock expiry, page and cap, uploads in progress | one run at a time; only orphans; all orphans |
| SSE hub: `sse_hub.go` | topics, clients, one Redis subscription per topic | Subscribe, unsubscribe, broadcast, resubscribe, close | goroutines under two mutexes, slow clients, shutdown during a resubscription | no leak, no client without a topic |
| SMTP: `internal/smtp` | session, negative cache, look-ups in progress | MAIL, RCPT, DATA, RSET | stale address keys, shared look-ups, time-outs | accepted recipients existed lately, refused ones did not |
| Redis cache: `internal/cache` | address keys, rate-limit windows, local block list | SetAddress, Check…RateLimit, Publish | windows that end between two calls, several processes, bounded block list | nobody is refused without cause; at most twice the limit in a window |
| Accounts and domains: `internal/handler` (account, token, domain, domain_cache, bcrypt_gate), `internal/middleware`, `internal/domainutil` | domain cache, bcrypt permits, who holds the mutex | create account, token, random address, list domains | stale cache, failing MongoDB, retry with another address | checks rest on recent data; accounts are where they were checked |
| yyds dialect: `internal/dialect/yyds` | the request in progress | create, token, delete; messages through the core handlers | domains asked for one by one while they change | the decision is that of one moment |
| Listing and flags: `internal/store`, `internal/handler` message.go | shared queries, cached totals, cursors | pages by cursor, PATCH, bulk updates, totals | a mailbox that changes between pages and between read and write | no message twice, none skipped; answers are true |
| Index set-up: `ensureIndexes` | indexes | list, drop by name, modify, create, look again | several processes start, fail and restart on an old database | the wanted indexes are there in the end; no gap in uniqueness |
| Token cache, block list, negative cache | a map and a counter of its entries | look-up, insert, sweep | the counter is changed beside the map | no cache shuts out entries although it has room |
| Dispatcher, queue codec, prefixes, configuration, cfworker proxy, health, metrics, debug server, `cmd`, deployment | none, or fixed at start | | | see *Not modelled* |

## What is modelled now

    MailStore            MongoDB and MinIO: the shared state and its atomic writes
      |-- Ingest         JetStream consumer and workers
      |-- MailApi        the handlers that delete
      |-- ObjectGC       the collection of orphaned objects
            |
       MailSystem        their composition and all properties
            |-- Mailbox  (INSTANCE) the abstract promise
       MCMailSystem      small instances for TLC
       MailSystemProofs, StorageProofs

    SSEHub               server-sent events in one API process, a system of its own
      |-- EventFeed      (INSTANCE) the abstract promise
       SSEHubProofs

    SmtpFront            RCPT, address keys, creation and expiry of accounts
    RateLimit            rate limits of several processes
    IndexSetup           ensureIndexes of processes that start together
    Listing              pages by cursor            Flags       seen and keep
    CountCache           cached totals              SizedCache  counted caches
    DomainRules          who may use which domain
      |-- Accounts       core handlers and their domain cache
      |-- YydsAccounts   yyds dialect
       MCServices        one instance of each of these, side by side
       IndexSetupProofs, ListingProofs (of Listing and Flags), AccountsProofs (of the
       domains and accounts), CacheProofs (of SmtpFront, RateLimit, CountCache, SizedCache)
         |-- ServicesProofs  (of MCServices, from the theorems of these four)

One action is one round trip to MongoDB, MinIO, Redis or JetStream, together
with the local computation that leads to the next one.  A Go method with two
round trips is two actions, and everything else may happen between them.

**MailStore.**  `account` is the existence of each account, `used` is
`accounts.used`.  `doc[<<mail, account, delivery>>]` is the message document
made by that delivery: the worker draws a fresh ObjectID for each recipient of
each delivery, so the triple names the id.  `obj` and `inline` say where the raw
source is (MinIO, or `rawMessage` in the document when the upload failed).
`cleanup` holds the prefixes that background goroutines are about to delete;
their semaphore may be full, so any subset of the requested ids may be dropped.

**Ingest.**  `Deliver`, `AckWaitExpires`, `LoseDelivery` and `AgeOut` are
JetStream and its client library, which fetches ahead: `flight` is the buffer,
and a delivery may expire and be repeated while it still waits there.
`Receive` to `Settle` follow `Queue.Consume`, `processMessage` and
`processForRecipient` label by label: look the account up, ask whether the mail
is there already, reserve quota (with recalculation and one retry), parse and
upload, insert, and the deferred rollback.  A mail stands for its stream
sequence number, and an account for its id and its address.  The order of
recipients is left open.  A worker is one callback at a time.  Publishing
the SSE event leaves no state and is not an action.

**MailApi.**  A client is a request in progress; `Ops` selects the kinds of
requests of an instance.  The deletions of the yyds dialect call the same
handlers.  The goroutine that recalculates `used` after a bulk deletion has one
slot per client.

**ObjectGC.**  Collectors race for the lock `mailapi:objgc:lock`.  Time is a
`Tick` that ages the lock and the run; a run that has used up its budget stops
before the next tick, because the contexts of all its calls derive from the
budget.  A message prefix counts as one object.  A listing is one step and
returns the objects up to some last one, at least `PageSize` of them, or all
that are left.  Failing calls, dying processes and runs out of time are bounded
together by `MaxFailures`.

**SSEHub.**  The connections of one account, the run goroutine of each topic, and
Redis.  A section of code under `h.mu` or `t.mu` is one step; what lies between
two sections (the gauges after `h.mu` is released, `close(stopCh)`, closing the
subscription under `subMu`, waiting for `doneCh`) is a step of its own.  Topics are
named after the connection that made them, so an old topic that is still being
closed and a new one can be told apart.  The code expects that a Redis channel may
end by itself (`sse_hub.go:145`): `Lapse`, which may lose what was not read.  The
hub meets the mail system only through `Publish`, an event for an account, so
the two are not composed.

**SmtpFront.**  `born` is `createdAt` of the account at an address, `keyUntil` the
expiry of its Redis key, `negUntil` the negative cache, `flight` the query that
`lookupSF` shares and `rcpt` a RCPT that waits for it or is about to write the key.
Time passes in ticks; a call with a deadline ends before its deadline passes.
`InsertAccount` and `CacheNewAddress`, `ForgetAddress` and `EraseAccount` are the two
halves of `CreateAccount` and `DeleteAccount`.  `absentAt` and `existedAt` remember when
an address last had no account, and when it had one.

**RateLimit.**  `counter` is Redis, `blocked` the list of blocked keys of each process.  A
request goes through the limits of `Chain` one after the other: a local look, the Lua
script, and PTTL when it is over the limit.  `hits` and `passes` are histories by key: how
many requests Redis had counted, and how many were let through, up to each tick.

**IndexSetup.**  `Plan` is the list of tasks of `ensureIndexes`; a task is a list of
keys, a kind (one per helper function) and the index wanted.  `stage` is where a process
is in its task, each call to MongoDB a step; `Trouble` is a call that fails or a process
that dies, and `Start` may happen again.  `InsertTwin` is a process that is up and
inserts a second document with equal unique keys when no unique index stands in its way.

**Listing.**  A walker asks for the first page and then for what follows its cursor, a
token (`nextCursor`) or a message id that is looked up first.  `query` is
`listMessagesSF`: who asks for the same page shares its query.  `CreatedAt` may be equal
for several messages and need not follow the order of arrival.

**Flags.**  `ReadLetter` and `UpdateFlags` are the two round trips of a PATCH; `saw` is
the history of the values that the message had in between.  Bulk updates are one step.

**CountCache.**  `kept` is the cached total, `counting` the shared query, and `asker` the
requests, each of which may be told a kept, a shared, a re-read or a new number.

**SizedCache.**  The three caches that count beside a `sync.Map`; `style` tells those that
refuse at the limit from the one that evicts.  Each operation on map or counter is a step;
`swept` is what the sweep in progress has removed and will count when it ends.

**DomainRules.**  `Match` walks from a domain to its parents, as `domainutil` does; a parent
has fewer `Labels`, which is all that is assumed of the tree.

**Accounts.**  `cached` is the table in `domainCache`, `holder` the owner of
`domainCacheMu`, `job` a request with what it was let through by (`asOf`, `failed`).
Creating an address may be repeated with another one after a conflict.  Rate limits and
the Redis key of a new account are in the modules above.

**YydsAccounts.**  `AskDomain` is one `GetDomainByName` of `ensureDomainAccessible`;
`Choose` reads the list when the request leaves the domain to the server.  Other
handlers are `OtherRequest`, which creates or deletes any account.

**Mailbox** is the abstract promise: a mail is put at most once into each
recipient's mailbox, a trashed message does not come back, and a mail is
finished only when each recipient has it or was refused it.  `MailSystem`
defines the refinement mapping and `ImplementsMailbox`.

**EventFeed** is what the hub promises, with neither topics nor subscriptions nor goroutines:
an event reaches everybody who listens at once; who has no room is cut off, may take what
was waiting and gets nothing more; nobody is cut off for any other reason.  `SSEHub` defines
the mapping (`Standing`, and the fill of a channel) and `ImplementsFeed`.

### Faults

`Faults` selects what may go wrong in an instance: `error` (a call fails without
effect), `ambiguous` (an insert or a reservation is applied although it reports
an error), `partial` (the same for removals, which may have reached only some
documents), `upload`, `panic`, `crash` and `ack` (an answer to JetStream is
lost).  Duplicate and delayed deliveries need no fault.

### Assumptions about the environment

* `message.ttl` (168 h by default, `config.go:431`) is longer than the MaxAge of
  the stream (24 h): `PurgeMessage` does not remove a document whose mail the
  queue may still deliver.  With a shorter TTL a redelivery could store a mail
  again after its first copy expired.
* The metadata of a delivery can be read; otherwise `IngestSeq` is 0 and the code
  switches its duplicate detection off (`queue.go:251`).
* `ListMessageIDs` returns a full page without an error although it cancels its
  own listing (`storage.go:219`).
* MongoDB writes of one document, its unique index, and the Redis `SETNX` and
  unlock script are atomic; Redis does not lose the lock.
* In the services a call with a time-out ends within it, and the clocks of processes and
  databases agree to a tick.  A Go mutex goes to who waits longest (`Accounts!Lock`), as it
  does under contention.  MongoDB names an index after its keys, and building or dropping one is a single step.

## Properties

| Property | Says | Code it is about |
|---|---|---|
| `TypeOK` | types; `used` is never negative | `UpdateAccountUsed` |
| `AtMostOneCopy` | one document per mail and account | `HasMessageByIngest`, unique index |
| `AckedMeansHandled` | Ack only when each recipient is stored or refused for good | `processMessage` |
| `TermedMeansRejected` | Term only when nothing could be done for anybody | `processMessage`, `Consume` |
| `UsedCoversMail` | `used` is at least the stored bytes and the reservations in progress | reserve, rollback, release, recalculation |
| `LiveWithinQuota` | stored bytes stay within the quota | `TryReserveAccountUsed` |
| `LiveHasRaw` | an undeleted message has its raw source | upload, fallback, clean-up |
| `OnlyExposedLoseRaw` | a collection takes the source of a message only if it looked between upload and insert | `objectGCOnce` |
| `OneCollector` | collection runs do not overlap | lock life and time budget |
| `DeletedAccountHasNoMail` | account deletion cascades | `DeleteAccount` |
| `QueuedIsDecided` (liveness) | a queued mail is decided, or its deliveries are used up | `Consume`, `Answer` |
| `OrphansReclaimed` (liveness) | no orphan stays for ever | page, cap and cursor |
| `ServedWhileOpen` | who listens is a client of the registered topic, which works | `Subscribe`, `unsubscribe` |
| `NoSendOnClosed`, `StopsOnce` | nothing is sent on a closed channel, no `stopCh` is closed twice (both would panic) | `broadcast`, `close` |
| `NoSilentGap` | a slow client is disconnected and never skipped | `broadcast` |
| `GaugesTrue` | the gauges count clients and topics | all of the hub |
| `LeakNeedsLapse` | a closed topic leaves a Redis subscription behind only after another one ended by itself | `close`, `run` |
| `LeaversFinish` (liveness) | a leaving handler returns | `close` waits for `run` |
| `SubscriptionRecovers` (liveness) | an ended subscription is replaced | `run` |
| `ImplementsFeed` (refinement) | every step is a step of `EventFeed` | all of the hub |
| `ImplementsMailbox` (refinement) | every step is a step of `Mailbox` | everything |
| `AcceptedExisted` | RCPT accepts only what existed within the life of a key and the calls before it | `CreateAccount`, `DeleteAccount`, `lookupAndWarmAddress` |
| `RefusedWereAbsent` | RCPT refuses for good only what was absent within the life of a negative entry and a query | negative cache, shared look-up |
| `RefusedForCause` | a refused request had more than the limit counted shortly before | `blockUntilWindowReset` |
| `TwiceTheLimit` | within a window at most twice the limit passes | `incrWithTTL` |
| `SettledIsRight` | past its task in every process, an index is as wanted | `ensureIndex…` |
| `TwinsNeedLegacy` | equal unique keys need an old index that was replaced | `ensureUniqueIndex` |
| `ForeignIndexKept` | an index that expires nothing stays | `ensureTTLIndex` |
| `NothingTwice`, `NothingSkipped` | a walk gets no message twice and all that were listed throughout | `ListMessagesAfter`, `nextCursor` |
| `AnsweredFlagsHeld` | the flags of an answered PATCH were true at some moment of it | `UpdateMessage` |
| `AllMeansAll` | a bulk request for all messages reaches all | `BulkUpdateMessageFlagsByAccount` |
| `TotalIsRecent` | a total was true within its life and a query | `countMessagesCachedWithFilter` |
| `NoPhantomEntries` | no counter says more than the map holds | `ttlSet`, `tokenCache`, `blockCache` |
| `ChecksAreFresh` | a domain check rests on recent data or on this request's own failed query | `getDomainCache` |
| `CreatedWhereChecked` | accounts are where they were asked for, or in the checked domain, but for one retry | `CreateAccount` |
| `ListedIsUsable` | a domain that is shown may be used | `ListDomains`, `CreateAccount` |
| `DecidedAtOnce` | queries one by one decide as one look would, if one domain changes | `ensureDomainAccessible` |
| `ChosenIsAccepted` | a domain the server chose is refused only if the domains changed | `candidateDomainsForCreate` |

## Runs

The runs are instances of `MCMailSystem`, except `sse` (of `SSEHub`), `services`
(`MCServices`) and `bulk_all` (`Flags`).  The
systems may stop (all mail handled, all connections closed), so deadlock is not
checked.

| Run | Instance | Result |
|---|---|---|
| `delivery` | one mail, two recipients, two workers, two deliveries; ambiguous writes, panics, crashes, lost answers | `AtMostOneCopy`, `AckedMeansHandled` hold |
| `settling` | two mails for one mailbox (one undecodable), one worker, a deleting client, unlimited quota; crashes, lost answers; fairness | `QueuedIsDecided`, `UsedCoversMail` hold |
| `quota` | three mails (one undecodable), two mailboxes with quotas 1 and 2, a mail of size 2, one worker | `LiveWithinQuota`, `TermedMeansRejected` hold |
| `removal` | one mail, two deliveries, every deletion, partial writes, failing uploads, crashes | `TypeOK`, `LiveHasRaw`, `ImplementsMailbox` hold |
| `gc` | two collectors, page 1, cap 1, one failure, one mail with two deliveries, panics; fairness | `OneCollector`, `OnlyExposedLoseRaw`, `OrphansReclaimed` hold |
| `quota_race` | two workers, quota 2, sizes 2 and 1 | `LiveWithinQuota` violated |
| `erase_race` | account deletion during an insert | `DeletedAccountHasNoMail` violated |
| `insert_timeout` | an insert that is applied and reported as failed | `LiveHasRaw` violated |
| `gc_race` | one collector, one worker, no faults | `LiveHasRaw` violated |
| `sse` | three connections, client channels of size 1, two events, one subscription that ends; fairness | all hub properties and `ImplementsFeed` hold |
| `services` | the nine small instances of `MCServices`, below | the properties from `AcceptedExisted` on hold, except `AllMeansAll` |
| `bulk_all` | two messages, one PATCH, one bulk request | `AllMeansAll` violated |

Bounds.  Two workers and two deliveries are what it takes for one mail to be
processed twice at once, and for a late answer to meet a newer delivery; two
recipients are what it takes for one to fail and the other to be stored.  Sizes
of 1 and 2 against quotas of 1 and 2 give a mail that fits alone and not beside
another, and one that never fits.  In `gc` two objects against a page and a cap of
one make the cursor move, wrap and be cut off by the cap, and the first object is
freed again while the second is listed; a lock of two ticks against a budget
of one is the smallest case of the code's 10 and 8 minutes.
In `sse` three connections let one be dropped, leave late and meet a topic that a third
has made anew; two events fill a channel of size 1 and find it full; connections
are numbered in the order in which they subscribe, which loses nothing because each
is used once.
`UsedCoversMail` is checked on an unlimited account, where nothing recalculates,
and with one deleting client.  With a finite quota, or a bulk deletion, a
recalculation may overwrite a reservation (`quota_race`), and two requests that
delete the same message release its size twice (`DeleteMessage` does not look at
`isDeleted`, `store.go:1488`); both make `used` too small.  `LiveWithinQuota`
holds for one worker without deletions and fails in general.
Symmetry is used in `delivery` only, whose constants treat accounts and workers
alike; the liveness runs use none.

`services` puts nine systems side by side: `part` names the one that moves, the others keep
their initial values, so that their states add up instead of multiplying.  The view
`Moving` leaves out what stands still (it has one value for each `part`), and the symmetry
swaps the two actors that the parts share; no constant tells them apart.
Its bounds, each the smallest with which the cases named happen:

* *front*: one address, two sessions, permits for both; lives of 3 (account), 2 (negative
  entry) and 1 (each call) within 6 ticks, so that an account can be created, looked up,
  deleted and made again while its key, its absence and a late answer are around.
* *limit*: two processes, a chain of two keys of which the second is unlimited, limit 1,
  window 2, calls of 1, three counted requests in 6 ticks: a whole window and parts of its
  neighbours.
* *setup*: six tasks, one of each kind, two processes, two failures; for each list of keys no
  index, the wanted one, and those of an earlier release or a stranger.
* *list*: two messages of the same millisecond, pages of one, two walkers that share queries
  with a filter, two changes of `seen`.
* *flags*: two messages, two editors, one bulk request.
* *accounts*: a domain and its subdomain; a key for one, a key for all, a token and a caller
  without key; a cache life and a query of one tick each, two ticks, one bcrypt permit, one
  retry, one changed domain.
* *yyds*: the same domains and callers, seven kinds of request, any table at first, two
  changes.  With two changes `DecidedAtOnce` fails without its condition, so the
  bound reaches what the condition excludes.  One request at a time: requests meet only in
  the accounts, which `OtherRequest` changes at will.
* *cache*: two keys, two calls, room for one, two entries that become stale.
* *count*: up to one message, two requests, a life of 2 and a query of 1 within 5 ticks.

Fairness (`FairSpec`).  A worker that is alive goes on, since each of its calls has a
deadline or fails with its connection; no fairness is assumed for a crash, and a
crashed worker is weakly fair again because its process is restarted.  JetStream
delivers what is due and expires what is not answered.  The ticker of
`objectGCLoop` starts run after run, and time passes.  In `SSEHub` the run goroutines
and the handlers that leave go on, while a handler that streams need not (its client
may stop reading, and nothing has to end a connection).  `AgeOut`, publication, clients
and every fault are not fair: nothing has to happen.

## Findings

1. `quota_race`: `RecalculateAccountUsed` reads the sum and writes it in two round
   trips, so a reservation made in between, or held for a mail not inserted yet, is
   lost and the mailbox ends above its quota.
2. `erase_race`: a mail inserted while its account is being deleted survives it.
3. `insert_timeout`: after any error of `CreateMessage` the uploaded objects are
   removed, also when the insert was applied; the stored message has no source.
4. `gc_race`: a collection that falls between upload and insert deletes the source of
   a message that is then stored; the age of the object is not looked at.
5. `bulk_all`: the filter of a bulk update asks for messages in which both flags differ
   (`store.go:1469`); with `all`, `seen` and `keep` a message that was read already is
   skipped, stays unkept and expires, while `message_bulk.go:29` promises all messages.

Four observations that contradict no text: a recalculation that fails is taken for one that
found nothing to correct (`worker.go:348` drops its error), so a mail may be refused for good
although the mailbox is empty and `used` only holds the bytes of a worker that died; `close` does not wait for `run` before it
closes the subscription, so that a `run` about to resubscribe leaves one behind
(`LeakNeedsLapse` says when); `CreateAccount` retries a taken address in the field `domain`
of the request, which was not checked when an address was given as well
(`CreatedWhereChecked` names this case); and a bounded cache may grow beyond its limit
when its counter drifts down (`NoPhantomEntries` excludes only the other direction).

## Proofs

The proofs hold for every value of the constants that the assumptions in the modules
allow: any set of mails, accounts, workers, clients, collectors, connections, processes
and keys, any sizes, quotas, limits, lives and bounds.  `MailSystemProofs` and
`StorageProofs` are about the mail system:

| Theorem | Property | Hypotheses besides the assumptions |
|---|---|---|
| `TypeCorrect` | `TypeOK` | |
| `StoredOnce` | `AtMostOneCopy` | |
| `AckedHandled`, `TermedRejected` | `AckedMeansHandled`, `TermedMeansRejected` | |
| `KeepsThePromise` | `ImplementsMailbox` | |
| `RunsApart` | `OneCollector` | |
| `RawSourcesKept` | `OnlyExposedLoseRaw` | no ambiguous writes |
| `EveryMessageHasRaw` | `LiveHasRaw` | no ambiguous writes, no collectors |
| `UsedIsNeverTooSmall` | `UsedCoversMail` | no ambiguous writes, finitely many workers; `NeverRecalculated` or `OneAtATime` |
| `QuotaIsABound` | `LiveWithinQuota` | no ambiguous writes; `OneAtATime` |

`NeverRecalculated` says that no account has a limit, that there are no bulk deletions and
that requests come one by one; `OneAtATime` that there is one worker and that messages are
deleted with their account only.  The hypotheses are those under which the code is right,
not those under which a proof was found: an ambiguous insert loses the source
(`insert_timeout`), a collection does (`gc_race`), two workers exceed a quota
(`quota_race`), two requests that delete the same message release it twice, and even with one
worker a DELETE releases again what a recalculation after its soft deletion has left out
already (TLC finds a mailbox above its quota then, too).
`settling` is an instance of the first hypothesis, `quota` of the second, and `removal` of
`EveryMessageHasRaw`.

`SSEHubProofs`, for every number of connections, events and ended subscriptions and every
channel capacity:

| Theorem | Property |
|---|---|
| `HubTypeCorrect` | `TypeOK` |
| `ListenersServed` | `ServedWhileOpen` |
| `NoPanicOnSend`, `NoPanicOnClose` | `NoSendOnClosed`, `StopsOnce` |
| `NothingSkipped` | `NoSilentGap` |
| `LeakIsRare` | `LeakNeedsLapse` |
| `GaugesAreTrue` | `GaugesTrue` |
| `KeepsTheFeed` | `ImplementsFeed` |

And the services, for every number of actors and every value of lives, limits and bounds:

| Theorem | Property | Module |
|---|---|---|
| `AcceptedAddressesExisted`, `RefusedAddressesWereAbsent` | `AcceptedExisted`, `RefusedWereAbsent` | `CacheProofs` |
| `SettledIndexesAreRight`, `OnlyLegacyLetsTwinsIn`, `ForeignIndexesAreKept` | `SettledIsRight`, `TwinsNeedLegacy`, `ForeignIndexKept` | `IndexSetupProofs` |
| `NothingComesTwice`, `NothingIsSkipped`, `AnswersTellTheTruth` | `NothingTwice`, `NothingSkipped`, `AnsweredFlagsHeld` | `ListingProofs` |
| `AllChecksAreFresh`, `AccountsStayWhereChecked`, `WhatIsListedMayBeUsed` | `ChecksAreFresh`, `CreatedWhereChecked`, `ListedIsUsable` | `AccountsProofs` |
| `ChoiceIsNotRefused`, `ChecksAreAtomic`, `YydsIsTyped` | `ChosenIsAccepted`, `DecidedAtOnce`, `YydsTypeOK` | `AccountsProofs` |
| `TotalsAreRecent` | `TotalIsRecent` | `CacheProofs` |
| `RefusalsAreEarned`, `NeverMoreThanTwice` | `RefusedForCause`, `TwiceTheLimit` | `CacheProofs` |
| `CountersDoNotExceed` | `NoPhantomEntries` | `CacheProofs` |
| `FlagsAreTyped` | `FlagsTypeOK`, a part of the next | `ListingProofs` |
| `ServicesAreTyped` | `ServicesTypeOK` | `ServicesProofs` |
| `PartsAreAsSpecified` | the specification of each service follows from that of the common run | `ServicesProofs` |

### The mail system

`TypeOK` is not inductive: `UsedMinus` needs the recipient of a worker to be an account,
which its program counter implies.  `Shape` adds those implications (`WorkerInv`,
`ClientInv`) and is inductive; the steps of workers, queue, clients, collectors
and TTL are separate lemmas, since each leaves the variables of the others alone.
That the sum of the sizes of a set of messages is a number needs the set of ids to
be finite (`OidsFinite`, `BytesType`).

`StoredOnce` follows from `DocWrites`: only `Insert` makes a
document, after asking the index, and everything else removes documents or soft-deletes
them, which the index still covers.  `AckedHandled` and `TermedRejected` share the
invariant `Handled`: as long as no recipient has failed for now, each recipient the
loop has taken was refused for good, or was stored and `anyOk` says so; a deferred
rollback that will return success has found or made the document.

`KeepsThePromise` is the refinement.  With `AtMostOneCopy` the state of a mailbox entry is
that of its only document, so what a step does to documents (insert one, soft-delete some,
remove some) it does to entries; with `Handled` a mail that is acked or termed is finished
in the sense of the promise; and `SentInv` says that a worker acts only for a mail that was
sent.  Every other step leaves the promised state alone.

`RunsApart` rests on `LockInv`: a running collector holds the lock, and the lock's
remaining life plus the age of the run is at least the life of a lock.

`RawSourcesKept` and `EveryMessageHasRaw` rest on object ids being used once.
`DeliveryInv` says that a delivery waits in one buffer or is handled by one worker, hence
an id that is still to come (`Coming`) comes from one worker only, and an id once given up
does not come back (`ComingShrinks`).  `RawInv` then ties together everybody who may delete
objects: what clean-ups, collections and requests hold are ids whose document is gone for
good, soft-deleted or never made, and never one that is still to come.

The quota theorems rest on `QuotaInv`: `used` covers the undeleted messages, what the
workers hold, and what deletions in progress are about to release (`CoveredInv`); the
messages and what is held stay within the quota, since all that is held may be stored
(`WithinInv`); a worker recalculates only for an account that is gone, or with a sum that
is still right when it writes it (`SumInv`); and the message of a DELETE has not been
deleted behind its back, so that it is released once (`RequestInv`).  A step then has to
balance what it takes into use, stores and holds (`QuotaBalanced`, `LimitBalanced`).
Sums are cardinalities of disjoint unions: `WeightPlus`, `WeightWithout` and `HeldChange`
say how they change with one message or one worker.

### The hub

The theorems on the hub share `HubInv`: the clients of topics are exactly the connections
that listen, and only the registered topic has any (`ClientsInv`); a topic is closed by one
connection, after it left the map (`ClosersInv`); a run goroutine ends only after that
(`RunInv`).  None of the properties is inductive without the others: that a new topic
cannot inherit clients needs `ClientsInv`, and that nobody will stop the registered topic
needs `ClosersInv`.

`LapseInv` says that as long as nothing has lapsed a run goroutine finds its channel closed
only after `close` has stopped it; it is proved on top of `HubInv`.  `GaugesTrue` is
inductive given `HubInv`; its proof follows the cardinality of each of the sets it speaks
of by the one connection that enters or leaves it.

`KeepsTheFeed` is the refinement.  A handler that subscribes, reads or leaves takes the step of
the feed with its name; what it does to topics, subscriptions and gauges the feed does not
see.  A broadcast is many sends to the clients of a topic in the hub, and one `Announce` in the
feed.  The two agree because of `ClientsInv` and `ClosersInv`: if the goroutine that broadcasts
runs the registered topic, its clients are all who listen; if it runs an older one, that topic
has none and nothing happens.  A handler that closes a topic closes no client's channel, since
by then the topic is empty.

### The services

Each service has one invariant of its own, because each property speaks of the past of a
value that has passed through several hands:

* `FrontInv`: an entry of any kind (key, negative entry, query, answer, RCPT) lies within so
  many ticks of `absentAt` or `existedAt` as the calls before it may take; the deadlines that
  hold back the clock turn each bound into the next.
* `SetupInv`: what a process knows where it is (`PlaceInv`), and that a unique index that was
  right, or made on a new database, is there once anybody is past it (`ShapeInv`).  A step of a process is first reduced to what it may do
  to an index (`Changed`) and to its own place (`Moved`), so that the 6 by 8 cases of
  kinds and stages are looked at once.
* `ListInv`: what a walk has been given lies before its cursor, what it is owed lies behind and
  is in every page being read, and what a page leaves out is older than its last message; `FirstElement` (a finite non-empty set has a first element in
  a strict total order) makes "the first `PerPage`" a set with these properties.
* `EditInv`: each flag that a PATCH will not write, or has written, is among those it saw.
* `AccountsInv`: the age of the table a request waits for or holds.  That nobody is served an
  old table from the mutex rests on its order: who waits now began not before who held it.
* `YydsInv` with `ChosenInv`: as long as the domains do not change, the check of a domain that
  the server has chosen finds that very domain, still visible to the caller.
* `LookInv`: a check that has climbed to a candidate would have come to it in a single look at
  some table it has seen, and that table agrees with the present one on all that is still
  to be asked, because it has no more labels than the candidate.
  Both need to know what the recursive function `Match` returns.  Induction on the labels
  is done without the library's induction theorems: a least counterexample
  (`MatchFinds`) would have a parent with fewer labels.
* `CountInv`: each number, kept, shared or told, was right since the query behind it.
* `LimitInv`: how the counter of a key relates to the histories of the requests counted and
  let through since its window began, and in the window's length before that (`WindowInv`); from when
  on a request that waits for PTTL, or a block, can show more than the limit (`CallInv`, `BlockInv`).
* `CacheInv`: `NoPhantomEntries` with what a call owes where it is (`OwedInv`); each
  insertion and removal of the map moves one call in or out of those that owe.

`ServicesProofs` puts the services together.  A step of `MCServices` is a step of one
service and none of the others (`PartsStep`), so each is as specified in the common run
(`PartsAreAsSpecified`), and the theorems of all of them hold of it.  The types of a service
are a part of its invariant; those of `Flags` need `AsksInv`: a PATCH that has
read its message asks for something, and will write only what it asks for.

### Model-checked only

The four liveness properties (`QueuedIsDecided`, `OrphansReclaimed`, `LeaversFinish`,
`SubscriptionRecovers`), because proofs from fairness need ENABLED.  Every other property of
a passing run is stated by a theorem.

## Not modelled

* Pages by number, and how a total relates to its page: skipping over a list that changes
  promises nothing that could be stated.
* `normalizeMissingMessageKeep`, an update that fills in a missing field during `store.New`.
* Attachments apart from the raw source (same prefix, same removal), the text of messages,
  search, reading and downloading: they leave the modelled state alone.
* Listeners, TLS and the domain list of an SMTP listener (fixed at start; they filter before
  RCPT), signing and parsing of tokens (a library), the access log.
* WebSocket streams, statistics, plans and formatting of the yyds dialect; the dispatcher (a
  function of host and headers), the cfworker proxy (stateless forwarding), the queue codec
  (a binary format; `Ingest` keeps whether a payload can be decoded), address prefixes,
  configuration, health, metrics, debug server and deployment.
* An upper bound of `used`: that it returns to the stored bytes once a recalculation
  runs undisturbed.  The hazards without a property are listed in `PROJECT.json` with the reason.
