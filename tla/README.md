# JanusLLM in TLA+

JanusLLM (`src/`) is an LLM gateway in Go: clients call it with an API key, it
checks the key against PostgreSQL, limits the key's rate, forwards the request
to one of the upstreams of the model group that the request names, and bills
the key for the tokens used. One process serves all requests; the database is
the only thing that survives it.

This directory holds TLA+ models of the parts of the gateway where goroutines
share state, the TLC configurations that check them, and TLAPS proofs of every
safety property that a run checks. Paths below are relative to `src/`.

## The system

| Component | State | Operations | Interacts with |
|---|---|---|---|
| Key cache (`cmd/main.go`) | `validKeys`, guarded by `mutex`: row, LastSyncAt, LastAccessAt | `getValidKeyForRequest`, `refreshCachedKeys`, `invalidateKeyCache`, `invalidateTeamKeyCache` | reads `janus_auth_key` joined with its team; removes rings of the rate limiter |
| Rate limiter (`internal/proxy/ratelimit.go`, `proxy.go`) | `keyRequestRing`, and in each ring the recorded times | `GetOrCreateRequestRing`, `AllowAt`, `RemoveRequestRing` | limits come from the cached row; removed by the key cache |
| Forwarding (`internal/proxy/proxy.go`) | per request only: candidates, attempts, what was written | `HandleRequest`, `forwardOnce`, `streamToClient` | calls upstreams; chooses by and reports to a balancer; leaves the usage for billing |
| Balancers (`internal/balancer/balancer.go`) | counters; for the latency strategy `stats` | `Next`, `Observe` | shared by the handlers of a model group |
| Spend pipeline (`cmd/main.go`, `internal/proxy/proxy.go`, `internal/spend/spend.go`) | `SpendLogQueue`, `keySpendQueue`, the flushers' batches | `logSpendMiddleware`, `FlushSpendLog`, `FlushKeySpend` | inserts into `janus_spend_log`; lowers `balance`, behind the key cache's back |
| Model permissions (`internal/auth/auth.go`, `cmd/admin.go`) | two columns | `normalizeModelList`, `EffectiveModelList`, `isValidModel`, `accessibleModelGroups` | written by the admin API, read by the key cache |
| Admin API (`cmd/admin.go`) | rows of organizations, teams and keys, under the foreign keys of `scripts/db/create_core_tables.sql` | create, read, update, delete | writes the database and then invalidates the cache; charges and log inserts of the spend pipeline meet its rows |
| Provider adapters (`internal/proxy/adapter.go`) | none | `BuildSpendPayload`, `ParseSpendStreamLine` | called by forwarding; what they read goes to `CreateSpendRecord` |
| Configuration sync (`cmd/config_sync.go`) | `janus_model_group`, `janus_model_endpoint` | `syncConfigToGormDB`, once at start-up | refuses a file with repeated names, which Forwarding assumes; shares its tables with other gateways that start |
| Background goroutine (`startBackgroundTasks`) | a ticker | every minute: the refresh, and then the start of two flushers | key cache, spend pipeline |

A request passes `checkKeyMiddleware` (key cache, rate limiter, model
permission), then `HandleRequest` (forwarding), and on the way back
`logSpendMiddleware` (spend pipeline).

What is hard about it, and hard to test: handlers, the background goroutine and
admin handlers share the key cache with database reads between their critical
sections; a handler samples a time long before it uses it; rings, channels and
cache entries are created with double-checked locking and dropped while held;
flushers may overlap and handlers may block on full channels; database errors
and stops of the process lose what is in memory; gateways that start together
plan from stale reads and wait for each other's rows; admin handlers of several
statements run against billing that still holds what they change; the usage of
a stream comes in pieces; retries must neither answer twice nor leave an
upstream out. `PROJECT.json` lists each of these hazards at
its line with the properties that cover it.

What makes each component correct, in a sentence:

- Key cache: a revoked or changed key is served for no longer than
  `keyCacheSyncTTL`, and a key that is invalid at the time of a request is not
  served at all.
- Rate limiter: no burst above the limit, no denial without one.
- Forwarding: one answer per request, at the cost of a bounded number of
  attempts, and only after all upstreams failed an error for exhaustion.
- Balancers: each upstream gets its share of first choices; one that works is
  preferred to one that does not.
- Spend pipeline: every record and every charge is booked once, or lost by a
  failure; handlers do not hang on billing.
- Permissions: a request gets through if and only if both columns allow it.
- Adapters: an answer costs the same whole or streamed, and is billed if and
  only if it was delivered.
- Admin API: a key belongs to the organization of its team, no flush fails on a
  row that is gone, and balance and total are what was granted and charged.
- Configuration sync: after a start the enabled rows are those of its file, if
  no other file was synchronised meanwhile, and a start comes to an end.

## Modules

| Module | What it is |
|---|---|
| `KeyCache` | the key cache: handlers, refresher, admins, charges |
| `KeyCacheIdle` | `KeyCache` with a record of the last use of each key |
| `KeyCacheProofs` | TLAPS proofs about `KeyCache` |
| `RateLimiter` | one key's registry entry and rings |
| `RateLimiterProofs` | TLAPS proofs about `RateLimiter` |
| `SpendLedger` | the abstract promise of billing: booked once or lost |
| `SpendPipeline` | the queues and flushers, which implement `SpendLedger` twice |
| `SpendPipelineProofs` | TLAPS proofs about `SpendPipeline`, the refinement among them |
| `Balancer` | the state and the operators of the four strategies |
| `Selection` | handlers that share a balancer, under any strategy |
| `SelectionProofs` | TLAPS proofs about `Selection` and `Balancer` |
| `Usage` | what the adapters read of an answer, and what it costs |
| `Forwarding` | retries over the upstreams, with the latency strategy of `Balancer` and the billing of `Usage` |
| `ForwardingProofs` | TLAPS proofs about `Forwarding`, and about what `Usage` reads |
| `AdminStore` | organizations, teams, keys, the spend log and the charges of keys |
| `Permissions` | the model lists and who reads and writes them |
| `AdminStoreProofs` | TLAPS proofs about what the admin API writes: `AdminStore`, and at its end `Permissions` |
| `ConfigSync` | the transactions of gateways that start on one database |
| `ConfigSyncProofs` | TLAPS proofs about `ConfigSync` |
| `SumTheorems` | least elements, and what sums over a finite set are, for the proofs |
| `MC*` | instances for TLC |

An operator whose comment calls it a mutant is a plausible mistake in the
definition after it; it is not part of any specification, and each property
is violated when its mutant takes the definition's place.

### KeyCache

A goroutine is a record with a program counter; a step is one critical section
of `mutex`, one database statement, or one critical section of the ring
registry. A handler goes `Arrive` (samples `now`), `Lookup...`, then either
`Touch` or `Load...` and `Store`, and `Admit`; a refusal goes `Drop`, `Unring`.
The refresher takes a `Snapshot` and then handles its keys in any order. It
keeps of the snapshot only the two times, as the code does. An admin writes
the row (`UpdateKey`, `UpdateTeam`) and invalidates the keys later, one at a
time; `Pluck` may fail, which the code passes over in silence. `Charge` is the
spend flusher. A failed statement of an admin changes nothing and is no step.

A row is four columns: the limit, the balance, the expiry and `grant`, which
stands for the effective model list that `Permissions` computes. `lastHeld` is
a history variable that says when the database last gave up each row, and
`HeldSince(k, r, t)` that it held row `r` at `t` or later.

`isKeyLocallyValid` is not called by the program and not modelled; `deleteKey`
always answers 409 and changes nothing, and `deleteTeam` is refused by a
foreign key while keys remain.

### KeyCacheIdle

Adds to each step of `KeyCache` a record of when a handler last accessed the
entry of a key, and what that was when the refresher took its snapshot.

### RateLimiter

Keys share nothing here, so the module is about one key. A handler finds or
creates the ring (`Find`, `FindAgain`, `Create`), samples the time (`Stamp`)
and only then enters the ring (`Grant`, `Deny`). `Prunes` relates the number of
dropped times to the list, in place of the loop, so that it can be proved
about. `granted` is the history of what each ring let through.

### SpendLedger and SpendPipeline

A record, and likewise an amount, is represented by the request it bills, and
the database by how often it bills that request. So "billed twice" is a count
of two, and the sum of a flusher is the set of its terms, positive if one of
them is. `Crash` stops the process between any two steps and starts it again
with empty queues. `LogLedger` and `ChargeLedger` are `SpendLedger` under two
refinement mappings: for each request whether its record (its amount) is
nowhere, pending in a queue or batch, booked, or lost.

### Forwarding

An attempt is one step (`Unprepared`, `Fails`, `Succeeds`, `StreamEnds`,
`StreamBreaks`) that chooses how long it took and what the client and billing
got; the report to the balancer and the decision what to do next is another
(`Return`, `RetrySame`, `RetryOther`, `GiveUp`), so that other handlers come in
between. Nothing an attempt does before its end is visible to another handler.
`stats` and `index` are `Balancer`'s; `success` is a history of latencies.

A request that asked for a stream may get a whole answer, as `shouldStream`
goes by the header of the response, or a stream, which may break off after any
line. The amount billed is what `Usage` computes of the lines or the body with
the adapter of the upstream; `BilledOnce` compares it with what the answer says
it used.

### Usage

Pure operators. A JSON object is a function on the fields that are present, an
unreadable one has none; `StreamPayload` folds `parseSpendStreamLine` over the
lines of a stream. The lower part of the module has the answers of the two
providers in both forms, as the repository's tests and fixtures show them, with
every way to spread the counts over the lines. An Anthropic stream read by the
OpenAI adapter is left out of the properties: the code does not read its
message_start (`Misread` in Forwarding, and a hazard in `PROJECT.json`).

### Balancer and Selection

`Balancer` has the two variables of a balancer and a relation for each
strategy's `Next`; numbers of a uint64 are taken modulo `Word`, which is what
`Unsigned` does to a negative sum of weights. `Forwarding` extends it and
chooses by latency. `Selection` extends it with a strategy and weights, as the
file may give them, and handlers that choose (`Select`) and report (`Return`,
`Retry`). `turns` counts the choices of each upstream since the counter was
last zero; `last` and `all` remember what was reported of it. A client-sticky
choice depends on nothing that changes, and no property is about it.

### Permissions

Pure operators, over lists that are sequences of names. The state is the two
columns; initially they hold any text, since rows may be older than the admin
API, and the actions are its writes. The loops over a list are folds (`Kept`,
`Distinct`).

### AdminStore

The tables are functions from ids to rows, and every statement is an action
that the database commits or refuses: `CheckTeam` and `InsertKey` are the two of
`createKey`, `FindKey` the first of `updateKey` and `deleteKey`. `UpdateOthers`
stands for all columns of a key that the module leaves out. A request copies
team and organization from the row (`Admit`) and leaves a record and an amount
(`Bill`), which any set of flushers writes later (`InsertBatch`, `Charge`). How
they wait meanwhile, and how they are lost, is in `SpendPipeline`; here the
point is what they meet. Amounts have a fraction of the database's last decimal
place, and `Rounded` is PostgreSQL's. `granted` is a history of what an
administrator set a balance to. A handler keeps the row it read only so that
the mutants can write it back.

### ConfigSync

Each replica runs one transaction: two reads, the plan, one statement per row,
the commit. A statement takes the row's lock (`writes`) or waits for the
transaction that `Holders` names; that, the order in which unsorted queries
return rows, and the abort of one of a cycle (`AbortDeadlocked`) are
PostgreSQL's, as the code uses it at READ COMMITTED. What was read may be stale
when it is used: an `Insert` of a row that meanwhile exists is a `Duplicate`,
which rolls everything back and ends the start, and a gateway may be started
again. `since`, a history, holds the files that others committed since the
transaction began to read.

The plan disables an endpoint whose group its first read did not see, even if
the file has it (`StaleEndpoints`); no such plan is ever committed, because the
group is then inserted a second time, and fails. `CommitMirrorsFile` depends on
that unique name.

## What the runs check

| Run | Instance | Shows |
|---|---|---|
| `key_cache_revoke` | 1 key, 1 handler, 1 admin, balances {0, 1}, an expiry at 1, clock to 3, fair | `AdmittedIsValid`, `BoundedStaleness`, `RevokedIsForgotten`, and the proofs' `IInv`, which has the types |
| `key_cache_idle` | 1 key, 1 handler, clock to 4 | violated: `EvictedWasIdle` |
| `ring` | 2 handlers, limits 0, 1, 2, 2 rings, window 2, clock to 4 | `Spacing`, `DenialJustified`, `ReplacedOnlyByOtherLimit`, and the proofs' `IInv`, which has the types |
| `spend_books` | 2 requests, 2 keys, spends {0, 1}, 2 + 2 flushers, channels of 1 | the proofs' `IInv`, which has the types, `ChargesOwnKey`, `LogIsLedger`, `ChargeIsLedger`, `LossNeedsFailure` |
| `spend_live` | 2 requests, 2 keys, 1 + 1 flushers, fair | `HandlersFinish`, `LogSettles`, `ChargeSettles` |
| `forwarding` | 2 requests, one for a stream, 3 upstreams with -1, 5 and 1 retries, one of them Anthropic's, 3 answers, fair; streams of up to 3 tokens of each kind | the proofs' `IInv`, `OneAnswer`, `ExhaustionIsTotal`, `BilledOnce`, `StreamedAsWhole`, `EveryRequestAnswered` |
| `balancer` | 2 handlers, 3 upstreams, 4 strategies, 4 weightings, a counter of 4 bits | the proofs' `IInv`, `FairRounds`, `LatencyWithinObserved`, `FirstChoiceWorks` |
| `stream_usage` | 1 request, 2 upstreams | violated: `StreamUsageBilled` |
| `prefers_success` | 3 requests, 2 upstreams, latencies 1, 4, 30 | violated: `PrefersLowerSuccess` |
| `config_sync` | 2 replicas, 5 files over 2 groups, 4 synchronisations, fair | the proofs' `IInv`, `SameFileNoDeadlock`, `CommitEnablesFile`, `CommitMirrorsFile`, `SyncsEnd` |
| `admin_store` | 2 organizations, teams, keys, admin handlers and requests | the proofs' `IInv`, `KeyInOrganizationOfTeam`, `RecordsAttributable`, `FlushesSucceed`, `TotalIsCharges`, `BalanceIsGrantLessCharges` |
| `permissions` | all pairs of lists of up to 2 names, and all writes of such | `Intersection`, `ListedIsUsable`, `WritesKeepMeaning` |

### Bounds

- `MaxClock` and `LastWrite` (KeyCache): the clock stops and the admins stop
  writing. The clock reaches past `SyncTTL` and `IdleTTL` after the last write,
  so that stale entries are served, refreshed, refused and evicted. The real TTLs are 1 and 30 minutes;
  the proofs hold for any.
- KeyCache has one handler, which a second access of the same handler, the
  refresher and the admin race with. An instance with two handlers and two
  grants has four million states and shows nothing else; the proofs cover any
  number.
- `MaxRings` and `MaxClock` (RateLimiter): no ring is created or removed beyond
  the bound. Two rings are enough for a handler to hold one and find another;
  the window is passed twice.
- `LogCap`, `KeyCap` = 1 in place of 100, so that channels are full with two
  handlers; `LogFlushers`, `KeyFlushers` bound the overlap of flushers, which
  the code does not.
- `MaxLen` (Permissions): lists of two names are enough for a star or a blank
  before or behind a name, for a repetition, and for lists with nothing in
  common or only a part. With three names the reading properties hold too, but
  the writes are too many.
- `MaxSyncs` (ConfigSync): four synchronisations are two that leave enabled and
  disabled rows behind and two that overlap on these. The run has two replicas;
  with three and three synchronisations the properties hold as well.
- `Word` = 16 (Balancer) holds two rounds of every weighting of the run, and is
  a multiple of no round but the one whose weights FairRounds excludes, so that
  the counter wraps within a round. In the runs of `Forwarding` it is the number
  of upstreams: there only the residue matters.
- `Counts` (Forwarding): up to three tokens of each kind let every line of a stream
  report less than, as much as, or more than the one before it, zero included;
  `StreamedAsWhole` goes through all streams of these once, before the first
  request begins. The runs of `Forwarding` have one answer of each provider and one
  without usage, and a price that tells the two kinds of token apart.
- Ids (AdminStore): two of each let a row be deleted and another take its place
  while a handler still holds the first; no id is used again, as sequences do
  not repeat. Two admin handlers are enough for one to change what the other
  has read. The two amounts are half a unit, which is rounded up, and nine and
  a half, which overdraws the balance of eight; with a third request the
  properties are the same but the run is too long.
- Requests are bounded everywhere by the number of handlers; in KeyCache and
  RateLimiter a handler is reused.

Deadlock is checked everywhere but in the runs of `Forwarding`, where the
system rests when all its requests have been answered, of `ConfigSync`, where
it rests when all replicas have started or given up, and of `AdminStore`, where
it rests when every id of an organization has been given out and deleted again. (Deadlocks of
transactions are a state predicate there, `Deadlocked`.)

### Fairness

- `KeyCache!FairSpec`: a goroutine that can take a step does, the ticker keeps
  firing and time passes. Handlers arrive at will. A refresh's query ends; it
  may fail any number of times, but not always (strong fairness of
  `RefreshLoad`): if the database failed every refresh, a revoked key that
  nobody uses would stay cached until it is idle for 30 minutes.
- `SpendPipeline!FairSpec`: handlers and flushers that can run do run, and the
  background goroutine keeps starting flushers, which supposes that each
  refresh before them ends. Nothing is assumed about the database's answers,
  about requests being answered, or about crashes. A flusher slot is reused
  when its flusher ends.
- `Forwarding!FairSpec`: handlers go on, and an attempt ends, which the timeouts
  of `buildHTTPClient` ensure, but not for a request for a stream (`MayStall`):
  its body has no timeout.

- `ConfigSync!FairSpec`: a gateway that starts goes on, the database answers,
  and PostgreSQL resolves deadlocks. Errors and stops may come at any time.

### Findings

Three runs show the program doing other than its text says; `PROJECT.json`
quotes the lines.

1. `key_cache_idle`: the refresher overwrites the time of an access that came
   between its snapshot and its store, and a later refresh logs an entry as
   idle, and evicts it with the key's request window, although it was used
   within the idle time. It is a performance matter and resets a rate window;
   `BoundedStaleness` is not affected.
2. `stream_usage`: the usage of a stream that breaks off is not billed.
3. `prefers_success`: failures count in the latency average, so an upstream
   that fails fast can be preferred over one that succeeds faster.

## What is proved

Every safety invariant and every action property that a passing run checks, for
every value of the constants that satisfies the modules' assumptions: without
bounds on time, keys, handlers, rings, rows, replicas or the length of a list
(the bounding constants occur only in guards, or in sets whose every size is
covered). Each component has an inductive invariant, the `IInv` of its module,
which TLC checks on that module's run, and the proof has one lemma or step per
action; of `Permissions` it is enough that the columns hold lists of names.

- `KeyCacheProofs`: `TypeCorrect`, `Inductive`, `StalenessIsBounded`,
  `OnlyValidKeysAdmitted`. `BoundedStaleness` alone is not inductive: a request
  is let in from a cache entry that somebody else stored. The invariant `IInv`
  adds that every entry's row was the database's at LastSyncAt or later, and
  the same of every row that a goroutine holds and is about to store. This
  rests on one observation: every goroutine samples its time before it reads the
  row, so a late store carries an early stamp, and `HeldSince` is a statement
  about the past that no step can undo (`HeldStable`).
- `RateLimiterProofs`: `Inductive`, `RingSpacing`, `LimitPerWindow`,
  `DenialsJustified`, `OnlyOtherLimitsReplace`. `RingOK` says that a ring remembers the latest of
  the times it let through and that what it forgot has left its window at the
  current time. With the order of the critical sections the new entry of a
  grant is a window away from the one `max` places before it, although the
  recorded times are not sorted. That is `Spacing`; `LimitPerWindow` says what it
  means for the owner of a key: count the requests that sampled the time in a
  window and were let through in it, and there are no more than the limit. (The
  least of their places in the log and the place `max` behind it are a window
  apart.) A registered ring is replaced only by one of
  another limit because who creates a ring looks again under the write lock.
- `SpendPipelineProofs`: `TypeCorrect`, `Inductive`, `ChargesAreOwn`,
  `LogImplementsLedger`, `ChargeImplementsLedger`, `LossOnlyByFailure`,
  `AtMostOnce`, `SettledForGood`. A record that is in two queues
  or batches, or waits in one after it was written, would be booked twice; so
  the invariant says that it is in one place at most and not yet booked there
  (`LogOnce`, `KeyOnce`), and that the book counts what was handed over
  (`LogCounted`, `KeyCounted`). For the charges it also says that every channel
  with something in it is reached from `keySpendQueue` or held by a flusher
  (`ChannelsReached`): an amount elsewhere would be lost without a failure.
  Then each step maps to a step of `SpendLedger` or leaves the book unchanged
  (`LogSteps`, `KeySteps`), and what was lost changes only in the steps that
  `LossNeedsFailure` names; what was booked or lost before a step is so after it
  (`SettledForGood`). `ChargesOwnKey`, that a sum has amounts of one key, is
  inductive with `ChannelsOwned`: no two keys share a channel, a channel has
  amounts of its key only, and the channels that handlers and flushers took from
  `keySpendQueue` some time ago are still its own, since no entry of the map is
  ever replaced.
- `AdminStoreProofs`: `Inductive`, `KeysInOrganization`, `RecordsAttributed`,
  `FlushesFindRows`, `TotalsAreCharges`, `BalancesAddUp`. `createKey` inserts a
  row on what an earlier statement told it about the team. `TeamsRemembered`
  says that this stays true as long as the team exists, because an id is not
  used again and no team changes its organization, and the foreign key refuses
  the insert when the team is gone. `KeysStay` says that keys in use remain.
  The sums are of the amounts that were charged, over any finite set of
  requests; a charge adds its batch to them (`SumUnion`), and rounds by half a
  unit at most.
- `AdminStoreProofs`, about `Permissions`: `ColumnsAreLists`, `ModelsIntersect`,
  `ListingAgrees`, `WritesMean`, for lists of any length. What a list permits
  depends only on the set of names in it; `KeptFacts` and `DistinctFacts` say
  what the two loops do to that set, and the rest is a distinction of cases by
  which column permits everything.
- `SelectionProofs`: `Inductive`, `RoundsAreFair`, `LatencyBetweenObserved`,
  `FirstChoicesWork`. `FairRounds` speaks of the ends of rounds only. The
  invariant speaks of every state: the numbers that were drawn since the
  counter was last zero are consecutive, and each upstream was chosen as often
  as one of them fell into its stretch of the round (`TurnsTaken`, `Drawn`),
  whichever handler drew it. Over whole rounds that is its weight, as
  the stretches divide a round. The smoothed latency is an average with weights
  that are not negative, and `HeardLast` ties the state that `Observe` keeps to
  how the last report ended.
- `ForwardingProofs`: `Inductive`, `TypeCorrect`, `AnsweredOnce`,
  `ExhaustedByAll`, `NoneTriedTooOften`, `EffortFalls`, `StreamedSame`,
  `BilledForUse`. The candidates of a request
  are a rotation of the group, so each upstream occurs once (`Candidates` is
  injective and onto). The invariant says that upstreams no longer listed had
  all the attempts due to them, those behind the first none (`Sending`), and
  that a handler has written an answer when, and only when, it has an end
  (`Answering`). `NoneTriedTooOften` holds also of attempts that ended otherwise
  than by exhaustion, and `EffortFalls` is the half of `EveryRequestAnswered`
  that needs no fairness: each step takes one off the steps that its handler has
  left (`StepsLeft`), whatever the upstreams and the other handlers do. `StreamedSame` unrolls `parseSpendStreamLine` over the lines of
  each provider's answer, for counts of any size; `BilledForUse` supposes that
  every answer is `Provided`, one of the two providers' or one without usage,
  which `MCForwarding` has TLC check of its instance.
- `ConfigSyncProofs`: `Inductive`, `TypeCorrect`, `NoDeadlock`, `SomeoneGoesOn`,
  `StartEnables`, `StartMirrors`. The invariant says of a transaction that what it has written
  together with what it has left to write is what its file and its reads call
  for (`OnPlan`), that a statement which would write a row a second time, or
  disable a row of its file, lies behind an insert that must fail (`Blocked`),
  that its locks are its own, and that rows once inserted stay rows. The
  deadlock freedom is from an order: who holds a row of a file holds
  the row of the file's first group (`FirstGroupFirst`), so only one of those
  with the same file holds any. As nobody waits for a transaction that has ended,
  one of those that run does not wait, or they wait in circles (`SomeoneGoesOn`).
  For `StartMirrors` a row that was read to be
  off stays so (`Settled`), unless another file was committed.

`LimitPerWindow`, `AtMostOnce`, `SettledForGood`, `NoneTriedTooOften`,
`EffortFalls` and `SomeoneGoesOn` are theorems only: they follow from what the
runs check, or from the proof of it, and have no run of their own.

The assumptions that the proofs use are those of the modules, where TLC
evaluates them: that requests (`AdminStore`) and the names of groups and
endpoints are finite sets; that no upstream occurs twice in a group, which
`buildConfigSyncPlan` ensures of the file; that the values which stand for "no
row", "no key" or "no price" are none of the rows, keys or prices; and the types
of the constants.

Induction over data is needed in several places: sums over a set, positions in a
file, the loops over a list or over the lines of a stream. The proofs do it by
a minimal counterexample (`LeastNat`, `MinimalSet` in `SumTheorems`, from the
library's `WFMin`): the theorems on induction take the formula as an operator,
which the installed provers cannot instantiate, but the least element of a set
needs none.

Model-checked only: liveness (`RevokedIsForgotten`, `HandlersFinish`,
`LogSettles`, `ChargeSettles`, `EveryRequestAnswered`, `SyncsEnd`), as fairness
and ENABLED are out of reach of the prover; that `SpendLedger` is implemented
is proved of its steps, and it promises no progress. For
`EveryRequestAnswered` what `EffortFalls` leaves is that steps are taken. The three findings
are counterexamples.

## What is not modelled

- The requests that adapters build, headers, parsing, Swagger and the dashboard:
  formatting, or no state.
- Admin authentication: one comparison per request with a row that is written
  once per start, by `syncMasterAdminUser`, before the configuration is
  synchronised. Two properties of the code are worth knowing: of two gateways
  that start on an empty database at the same time one may fail on the unique
  user name, and a start that fails later leaves its master key in force.
- The configuration file and the rest of the start: sequential, before the
  first request.
- The model list columns in `AdminStore` (see `Permissions`) and the cache
  invalidations of the admin handlers there (see `KeyCache`).
- Several gateway processes on one database, but for their start (ConfigSync):
  caches, rings and queues are per process, and the code does nothing to relate
  them.
- A comma in a model name, which the column format splits when it is read back.
- Retry-After, the cache-hit and latency fields of a spend record.

## Plan

Done: `KeyCache`, `RateLimiter`, `SpendPipeline` over `SpendLedger`,
`Forwarding` with `Usage`, `Permissions`, `ConfigSync`, `Balancer` with
`Selection`, `AdminStore`, and the theorems about each.

Since the first plan `EffortFalls` has taken the measure of the retries,
`SettledForGood` what `SpendLedger` promises on its own, and `ChargesAreOwn` the
keys of the charges. Left to do:

1. A measure for `ConfigSync`, by which a transaction that does not wait comes
   to its end: the statements left, once the plan is made.
2. One for the flushers of `SpendPipeline`: what waits in the channels that a
   flusher has taken from the map, against what handlers may still add.
3. Names for the lemmas on folds that `ForwardingProofs` and `AdminStoreProofs`
   each need in a form of their own.

A module that joins key cache, rate limiter and billing was considered and left
out: the code bounds neither what a key spends beyond its balance nor what it
sends after its ring is reset, so there is nothing to check of the whole that
the parts do not show.
