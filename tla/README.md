# codex-carpool in TLA+

codex-carpool is a plugin of CLIProxyAPI (CPA). It meters managed API keys in US
dollars: it admits or refuses a request when CPA asks for an account, charges the
actual usage when CPA reports it, keeps two fixed dollar cycles per Key, and
persists everything in SQLite. This directory models the concurrent and durable
parts of that program in TLA+, and its prices and reports, checks them with TLC on
small instances, and proves the most important invariants with TLAPS for every value
of the constants.

All source paths below are relative to `src/internal/quota/` unless they say
otherwise.

## The system

```
  CPA ── before-auth ──> CaptureRequestContent ─┐ (claimed once)
      ── pick account ─> admit ─────────────────┴─> marker, cycle rows
      ── terminal usage > RecordUsage ── takes marker ── charges meters
                                          └─ pending shards ─ flush ─> SQLite
  operator ── management HTTP ─> policies, reset, rates, catalog, switch
  models.dev <── modelRateSyncLoop ──> rate card (memory + SQLite)
  host ── configure / shutdown ──> Open, CloseAdmissions, close
```

| component | state it keeps | operations | what makes it correct |
|---|---|---|---|
| usage ledger (`engine.go`, `store_usage.go`) | meters, 32 pending shards, two counters, the persistence alarm, `usage_buckets` | charge, enqueue, log, flush (take, write, settle or merge back), reset, load | no charge is lost, doubled or resurrected; counters and ages are true; the alarm is lowered while there is work |
| callback markers (`engine.go`, `store_pending.go`) | `pendingRequests`, `recentUsageCallbacks`, `pending_request_markers` | add, expire, take nearest, discard, checkpoint, load | a marker settles one callback, a callback settles once, usage goes to the Key that admitted it |
| budget cycles (`billing.go`, `store_cycles.go`) | start of the 5-hour and 7-day cycle per Key, in memory and SQLite; the spend meter | compare with the budget, start or roll over, charge late, prune | spend of an active cycle is complete, boundaries do not move, overshoot is bounded |
| rate card and synchronization (`models_dev.go`, `store_models.go`, `billing.go`) | card and status in memory and SQLite, wake-up flags | PUT rates, PUT models, switch, synchronize, close | memory and SQLite agree, 304 never hides a stale card, no priced model loses its price, due refreshes happen |
| pricing (`billing.go`) | none | normalize usage, cost with tiers and modes, saturating sums | exact, monotone, never negative |
| admission gate (`engine.go`, `routing.go`, `ip_whitelist.go`, `access_schedule.go`) | policies, captured content | ordered gates, first refusal wins | the order of refusals; nothing is recorded for a bypass |
| captured content and filter (`request_content.go`, `content_filter*.go`) | bounded map of excerpts, compiled rules | capture, claim once, prune, match | bounded; claimed once, by its own Key |
| policy administration (`panel.go`, `config.go`, `store.go`) | `policiesByID`, `policiesByHash` | upsert, rebind, reset, delete | a raw key belongs to one Key; no rebind while usage is awaited |
| lifecycle (`cmd/codex-carpool/main.go`, `engine.go`) | the runtime pointer, `closed`, `admissionsClosed`, `usageClosed` | configure, shutdown with a 20 s drain, close | one engine per database; nothing admitted is forgotten by a safe reload |
| retention, logs, analysis (`store_logs.go`, `panel_analysis.go`, `store_usage.go`) | SQLite tables | sweep, page, aggregate | nothing still needed is swept |
| store (`store.go`, `lock_*.go`) | the SQLite connection, a file lock | transactions, schema | each transaction is all or nothing |

Interaction is by shared memory and locks. `adminMu` is held for reading by
admissions and callbacks and for writing by policy changes and resets; `flushMu`
serializes flushes; each shard, the markers, the cycles, the rates and the
duplicate filter have locks of their own; `rateSyncRunMu` serializes everything
that changes card or status, also during an HTTP request; `close` holds none of
`adminMu`, `pendingMu` while it works. Several of the hard behaviours follow from
steps between two of these locks. `PROJECT.json` lists them as hazards, each at its
line and with the properties that would catch it.

## Modules

| module | models | checked by | proved in |
|---|---|---|---|
| `ChargeLedger` | what the ledger promises: a charge is accepted, then persisted exactly once, or lost by a crash | as a refinement target | |
| `UsageLedger` | `RecordUsage`, `enqueueBuckets`, `enqueueDecision`, `flushLoop`, `flushPending`, `ResetPolicyUsage`, restart | `ledger` | `UsageLedgerProofs` |
| `MarkerLife` | what a marker promises: it waits, over restarts, until one callback uses it or it is given up | as a refinement target | |
| `CallbackMarkers` | `addPendingRequest`, `takePendingRequest`, `claimUsageCallback`, rebind, reset, `close`, reload | `markers`, `markers_reload` | `CallbackMarkersProofs` |
| `BudgetCycles` | `admit` around `ensureBudgetCycles`, `fixedWindowSnapshot`, `chargeDollarSpend`, retention, restart | `cycles` | `BudgetCyclesProofs` |
| `RateSync` | `SyncModelRates`, `modelRateSyncLoop`, the operator's calls, close, restart | `ratesync`, `ratesync_live`, `ratesync_request` | `RateProofs` |
| `Lifecycle` | `configure`, `cliproxyPluginShutdown`, `releaseRuntimeEngine`, the steps of `close`, the loops, the handlers, crashes, the file lock | `lifecycle` | `LifecycleProofs` |
| `Admission` | `CaptureRequestContent`, `pickAuth`, all gates of `admit`, saves of Keys and of the content filter | `admission` | `AdmissionProofs` |
| `Pricing` | rates from an operator and from models.dev, usage conventions, `modelRequestCost`, the charge, reload | `pricing`, `pricing_reload` | `RateProofs` |
| `UsageReports` | `UsageAnalysis`, `ModelUsageRanking`, with flush, reset and retention between their queries | `reports` | `UsageReportsProofs` |
| `Sums` | nothing of the program: the laws of the finite sums that the proofs need | | itself |

The modules share no variables. Where one stops, its header says which module goes on:
`Lifecycle` takes the marker of a request as found (the matching is in
`CallbackMarkers`) and its charge as one item (the queue is in `UsageLedger`);
`Admission` lets the environment answer for budget, rate and store (`BudgetCycles`,
`RateSync`, `UsageLedger`); `RateSync` knows one price per model (`Pricing` has the
rest of a rate).

`MC*` modules hold only the values that a `.cfg` cannot write: functions, records, and
the symmetry sets. Every module declares its limits in code (queue sizes, ages, widths)
and the bounds of the model as separate constants; the latter occur in guards only
and end in a "counts how often" variable.

Operators kept beside a definition and commented *Mutant* are the definition with a
plausible bug. Nothing refers to them; substituting one for its neighbour must break
a property, which is how the strength of the properties was tested.

### UsageLedger

One variable per piece of shared state: `meter` (engine.states), `pending` and
`logs` (the shards), `since` and `flightSince` (`pendingSince`, `inFlightSince`),
`bucketCount`, `logCount`, `degraded`, `durable` (`usage_buckets`). A callback is
charged in separate steps: the meter and the cost bucket, then the decision log,
then the token bucket, because the code takes a different lock for each; when one of
the charges is refused, raising the alarm is one more step (`RaiseAlarm`), because the
code stores `true` only after `enqueueBuckets` has returned and unlocked. A flush is
a small program: it takes the shards one by one, gives back the slots *after* it has
unlocked the shard, writes one transaction, and settles or merges back. A reset
flushes first, inside `adminMu`, then deletes and forgets. `EnqueueDecision`
reserves its slot and appends in one step; only `logCount` could show the moment
between.

Abstractions: a slot stands for the bucket time and the model; logs are counted; the
charged amount is an input (any member of `Amounts`).

Run `ledger`: one Key whose cost bucket lies in one shard and whose token bucket and
logs lie in the other, one bucket and one log allowed, two callbacks, two ticks, one
failure, one restart, one reset: every limit is reached, an age can refuse a charge, a
flush that fails meets a shard that has filled meanwhile. `Conservation` says that each
bucket's meter is what SQLite has plus what is queued, in flight or refused.
`ImplementsLedger` is the refinement of `ChargeLedger` by
`accepted <- durable + pending + flight`. `CountersExact`, `LogsAccounted`,
`QueueAgeTruthful`, `QueueBounded` and `ResetErases` are stated in the module. Two of
them are weaker than a reader may expect because the code is: a failed flush returns
buckets without looking at the limit (so the bound grows by one queue per shard and
failure), and it cuts logs off uncounted when the log queue is full, after which an
empty shard can keep an age. The same run checks liveness (`EventuallyStored`,
`ResetReturns`, `AlarmClears`) under the fairness that the ticker fires, a running
callback or flush goes on, and `flushMu` and `adminMu` are granted (`sync.Mutex` and
`sync.RWMutex` do not starve a waiter).

`AlarmClears` says that the alarm goes down whenever something is queued or in flight
while it is up. It says no more because the code does no more. The stronger
`degraded ~> ~degraded` is false, with no failing write at all: a charge is
refused for its age, the flush that was late takes everything, commits and lowers the
alarm, and only then does the callback raise it (`engine.go:914-915` after `1193`). The
queues are empty, and a flush that finds nothing returns before it would lower the alarm
(`1158-1160`). It heals by the damage it does: the admission it refuses with 503 queues
a decision log (`646-655`), which is work, and `AlarmClears` applies.

A refused charge stays in the in-memory meter (`engine.go:1040`) and is gone after a
restart, although a later flush may have lowered the alarm by then. `refused`
in `Conservation` is exactly this amount.

Proved for all Keys, shards, slots, limits and callers: every safety property of the run
and the refinement. `Conservation` alone is not inductive: restoring a
batch preserves it only if the batch holds no bucket of a shard that was restored
already, and a reset erases only if nothing can be queued behind the flush. `IInv`
adds exactly these facts (`BatchCovers`: which shards the batch may come from at each
step; `ResetExclusive`: what a reset may rely on while it holds `adminMu`). The ages
need `FlightAged`: a shard of the batch that has not been settled or merged back
carries something and the age of it.

`LogsAccounted` needs `LogsInBatch`: logs in flight belong to a shard that the flush has
still to settle or merge back, so it cannot finish and forget them. `CountersExact` is
proved as `Counted`: a counter is what the shards hold plus, between the unlock of a
shard and the subtraction, what was taken from that shard. `QueueBounded` is the one
whose invariant is not a restatement (`Bounded` in the proofs): while a flush goes from
shard to shard, callbacks fill the queue behind it again, and after `n` shards the batch
may hold `n` full queues. So what the batch carries is bounded by the failures so far
*and* the shards passed, and batch and queue together by one queue more.

### CallbackMarkers

A marker is named by its request. `Admit` runs under `adminMu.RLock` and leaves a
marker; `Claim` and `Take` are the two critical sections of `RecordUsage`; `Nearest`
is the matching rule (same Key, compatible model and account, smallest distance in
time; ties go to the earlier list entry). `UpsertPolicy`, `ResetRows` and
`ResetMemory` hold `adminMu` for writing. The binding of raw keys is there twice, in the
map the engine reads (`owner`) and in `key_policies` (`keyRows`): a deletion takes the row
of the Key in the transaction that takes its markers (`ResetRows`), the map only after it
(`ResetMemory`), and `Open` reads the rows. `CloseAdmissions`, `CopyMarkers`,
`Checkpoint`, `CloseUsage` and `Stop` are the steps of `close`, which holds no lock
that admissions or callbacks need. `Open` loads the rows; `Crash` and `EndProcess` end
the process.

The history variables `excused`, `lost`, `expired`, `discarded`, `forgotten` and
`orphaned` name every way the code can lose or repeat a settlement, so each property says "except in
these cases" and the run shows that there are no others. `excused` covers two
real gaps: a callback that takes a marker between the copy and `usageClosed`, and a
row whose deletion failed. `orphaned` covers a third: `close` does not hold `adminMu`, so
it may copy the markers of a Key, let `DeletePolicy` commit (which takes policy and markers
from the tables), write the markers again from its copy, and have the process end before
`discardKeyAccounting`; the next `Open` then loads waiting markers of a Key that is gone.
`BindingStable` holds for every other marker; without the exception TLC shows these steps.

`markers` has three requests, two raw keys, room for two markers, one administrative
change, one failure and one reload: the smallest instance with an overflow, a tie, a
duplicate and a rebind. `markers_reload` shows that two markers of one millisecond make
the checkpoint lose all of them.

`ImplementsMarkerLife` is the refinement of `MarkerLife`, which knows no list, row,
checkpoint or clock: `waiting` is what memory holds while a process runs and the rows not
yet expired while none does, `used` is `consumed`, `dropped` is `expired`, `discarded` and
`lost`, and `doubtful` is `excused`, of which nothing is promised. It says more than the
invariants: every step of the engine either leaves one new marker, uses one, gives some up
or brings some into doubt, and nothing leads back to waiting. A load that did not look at
the age of a row (`OpenAnyAge`) breaks it: a marker given up would wait again.

Proved for any number of Keys, raw keys, requests, callers, limits and reloads: types,
all five invariants and the refinement. None is inductive alone. The invariant adds that what waits
anywhere has not been consumed (`WaitingUnused`); how memory, the copy taken by `close`
and the rows relate at each step of `close` and after a load (`CopyTrue`, `RowsLoaded`,
`LoadedEarlier`, `ExpiredOld`); that the maps of a running process are the rows of
`key_policies`, but for a deletion halfway (`MapsFollow`), so that what a stopped one has
stored is bound to its Key or orphaned (`StoredBound`); that a policy change has the engine for
itself (`Alone`); that the duplicate filter knows every callback under way (`Known`);
and `OwnMarker`, a statement about cardinalities: an admission that fails discards *some*
marker with equal fields, and there are always enough fresh ones that it never discards
a loaded one. The proof covers what the run's one caller does not: callbacks that
overlap in any number. The refinement needs two more conjuncts: what was given up does not
wait (`GivenUp`), and a request without a marker is in no list of markers (`NewUnknown`).
The steps in which a marker leaves memory, a process ends and `Open` loads the rows are
where `NoStaleRows`, `WaitingUnused` and `ExpiredOld` are used again.

### BudgetCycles

One Key, `WindowCount` windows. `Arrive` reads the clock before any lock, as
`pickAuth` does; `ReadCycles`, `CheckWindow` (which prunes the meter at the reader's
time), `Decide`, `EnsureCycles` (SQLite) and `InstallCycles` (memory) follow. `Settle`
charges at the request's own time. `Flush`, `PruneRetention`, `Summary`, `Reset` and
`Restart` are the rest. The queue between a charge and SQLite is one variable here;
its inner steps are `UsageLedger`'s.

`cycles` uses widths 1 and 3, budgets 1 and 2, costs 1 and 2, five ticks and three
requests by two overlapping clients: a request can straddle a rollover of the short
window and of the long one, and a cost can arrive after either. A cycle is started by
the first request to take the lock, which need not be the first to arrive: a request
that read the clock earlier may lie in front of the cycle (`billing.go:507`).

Proved for any number, width and budget of windows and any finite set of clients: types
and all four properties of the run. The inductive invariant needs
`YoungSpendKept` (nothing younger than the meter's span is missing from the meter or,
counting the queue, from SQLite: this is where retention >= 7 days is used) and
`WritingCycles` (memory and SQLite differ only between the two writes of one request).

`OvershootBounded` needs to know which requests may still charge an exhausted cycle:
those past the check of its window, and those that compare with a copy of a cycle that
has been replaced since (`Coming`). `Headroom` says that there is room for one cost of
each of them; a charge uses the room of its request, and passing the check makes room
because the spend was below the budget then. A charge of a request that is *not* among
them would break this, which is why `SentInCycle` and `ChargesHaveCycle` are part of the
invariant: whatever is charged lies in a cycle that memory and SQLite know, and a new
cycle starts empty, also after a restart that went back to an older row.

### RateSync

A rate is its source, its `RateCardOnly` mark and one price; a model without a rate has
`NoRate`. `run` is
`SyncModelRates` between taking and releasing `rateSyncRunMu`: `asked`, `answered`,
`committed`, `failed`. `loop` is `modelRateSyncLoop` with the status it has read;
`timer` says whether the loop's timer was set for the present `NextSyncAt` or for a
later time; `panel` is where the operator's call stands. `PUT models` does not take the
mutex, so the catalog may change at any point of a run; the candidates and their marks
are those of its beginning. An ETag *is* the content it stands for; a response may come
without one.

`ratesync`: one model and one price, so that four operator calls (switch on, switch
off, edit, switch on again) fit, with one upstream change, one failure and one restart.
The catalog has other models too, so it may not contain this one. What several models
add is covered by the proof, which is for any set of models.

`ratesync_live`: two operator calls, two failures (the request, then saving that it
failed), two passages of `NextSyncAt`. Its fairness: a running goroutine goes on, an
HTTP request ends by its 12 s timeout, and the loop gets the mutex although operators
ask for it too. `LoopEnds` holds for finitely many failures only: when saving the
status fails for ever, a due loop never reaches its `select`, and `close` waits for it
for ever.

`ratesync_request` shows a request for a refresh that is lost when it comes between the
loop's reading of the status and its swap of the flag. A rate set by hand that
models.dev can match is overwritten by the next synchronization
(`store_models.go:193`); `HandPricedStayPriced` says only that it keeps *a* price.
`CardInStep` compares memory with what SQLite was given; what reading it back makes of
it is `pricing_reload`.

Proved for any set of models and prices: types, `CardInStep`, `NotModifiedIsCurrent`,
`HandPricedStayPriced`. The inductive invariant says that between commit and
installation SQLite is ahead of memory by exactly the merge of the run, and that a
stored ETag describes the stored card: every priced candidate has the price of
models.dev and nothing else comes from there. Only `edited` (the card was replaced
while synchronization stayed on) breaks the latter, and the property excludes it.

### Lifecycle

Several processes with one database file, several threads of a host that call
`cliproxyPluginShutdown`, and requests in every step of a handler. `Open` is one step
because `configure` holds `runtime.mu` throughout. A shutdown is a small program:
`ShutdownStart` reads the pointer, `CloseAdmissions`, `Drain` (which may end at any
time, by its 20 s deadline), `EnterClose` under `closeMu`, then the steps of `close`:
`Save`, `CloseUsage`, `AwaitRateLoop`, `AwaitFlushLoop`, `FinalFlush`, `CloseStore`,
`MarkClosed`, and `Release`. A request picks the pointer (`Pick`), and `Check`,
`AddMarker`, `Admit` or `AdmitFails`, `Callback`, `Settle`, `Take`, `Charge` are the
points between which an engine may be closed under it.

`late` names the requests that were inside a handler when `close` passed them, the only
ones a conservative reload forgets; `lost` those a crash or a failed write took. A
`configure` that comes while a shutdown runs is refused by `IsClosing`, except in two
gaps: between reading the pointer and `CloseAdmissions`, and between the end of `close`
and `releaseRuntimeEngine`. There it reports success for an engine that is closed or
about to be. `ConfiguredLives` names these gaps (`Overlaps`) and covers every other
moment.

`lifecycle`: two processes, two engines, two threads in the one and one in the other,
one request, one failure or crash. Two engines are the least for a reload, two threads
for two shutdowns of one engine. `ShutdownReturns` assumes that a running thread goes
on and that both loops end when told; the latter is `LoopEnds` of `RateSync` and, for
the flush loop, a `select` on the closed channel.

Proved for any number of processes, engines, threads and requests: types,
`OneEngineSettles`, `NoOrphan`, `ConfiguredLives` and `NothingForgotten`. The argument:
an engine that lives has the lock, or its close has given SQLite back and has only
`MarkClosed` left (`LockHeld`); one thread at a time closes an engine (`OneCloser`);
each engine that lives is pointed at by its process or held by a shutdown (`Attended`);
and a request that was admitted is sheltered by the engine with the lock or, from the
checkpoint on, by SQLite (`Sheltered`, `Promised`).

### Admission

CPA calls the plugin twice. Before authentication `Lookup`, `Scan` and `Insert` find
the Key, match the text against the filter in force and keep the finding in a bounded
map; `Pick` reads the clock and `Gate` is `admit` under `adminMu.RLock`: it claims the
finding and applies the eleven gates in their order. `Retry` is CPA asking for another
account with the same headers. `UpsertPolicy`, `UpdatePolicyIPWhitelist`,
`ResetPolicyUsage`, `DeletePolicy` and the two steps of `ConfigureContentFilter` run
between any of these.

A text is the set of filter terms in it, but *which* text of a body is scanned
(`RequestText`: the last user turn, in parts or not, of messages, input items or a
prompt) follows the code. `AnswersAreJust` compares every answer with a statement of
what the policy asks for that is written differently: the schedule as intervals, the
candidate as the one nothing precedes, the text as what the user said last.

What the code does and a reader may not expect, stated in `Kept` and `FilterStored`
rather than hidden: a finding is missed when the map was full, the capture outlived
2 minutes, or the Key was reset, deleted or its raw key bound elsewhere between the two
calls; a retry has no finding any more and is judged by the rewritten model; two filter
saves that overlap may leave the older settings in memory. `Engine.Reconfigure` is not
called by `main.go` and is left out. The limits on scanned text (64k runes, 4 MB of
JSON), padded IDs and daylight saving inside a schedule are abstracted.

`admission`: two requests, two Keys, two fingerprints, room for one finding and one
marker, two changes by operators, three slots around the end of the week (an overnight
rule spans it).

Proved for any number of Keys, requests, rules and savers: `MapsAgree`, `FilterStored`,
the bounds of the two maps (`MapsStayBounded`), that the arithmetic of a schedule opens
exactly in its intervals (`ScheduleIsIntervals`), and `AnswersAreJust` (`GateIsJust`).
The last has one hypothesis, `TextIsRead`: the text the code extracts from a body is what
the user said last. It is a statement about the inputs, which are constants; the bodies
of the run satisfy it (a chat whose last user turn comes in parts, a list of input items).
The invariant (`FindingInv`) follows a finding from the scan to the gate: a request that
comes to the gate has its own finding in the map, or is one whose finding the map did
not keep; no edit between the two calls can give it another's.

### Pricing

One model, one request. `Normalized`, `FromModelsDev` and `Reloaded` are the three ways
a rate comes to be; the callback goes through the provider's convention (`Billable`), the
choice of tier or mode (`RateFor`), the ambiguity test, rounding and saturation (`Cost`),
and the last step charges (`Settlement`). `sort.Slice` is not stable, so `Normalized`
gives every list in which the tiers may be sorted. The names of the module (`PriceInit`,
`SetRate`, `Reload`, ...) are disjoint from those of `RateSync`, so that `RateProofs` can
extend both.

`TruePrice` starts from the *use*: the tokens really used are reported in each convention,
with numbers left out, and must cost what a reference that knows the use says.
`NeverMoreThanUsed` is about arbitrary, contradictory callbacks. It bounds the charge by
the units at the dearest price only while the units are below `MaxInt`: at `MaxInt` a sum
of buckets that has saturated counts as equal to the total (`billing.go:273`), and more
tokens than units are charged, each bucket at its own price. With `Unit = 4` and
`MaxInt = 30` TLC shows such a callback; the proof attempt asked for the condition first.

`pricing` uses up to seven tokens, tiers on both sides of their thresholds, a saturation
point of 30, and rates that are free, tiered, in modes, and from models.dev with inherited
prices. `pricing_reload` shows that a rate with a reasoning price of its own charges
reasoning at the output price after a restart.

Proved for every set of rates, catalog entries, callbacks and uses, and every `Unit`,
`MaxInt` and `LegacySize`: both properties. The state is small (`PriceInv`: the marker has
the rate as it was set when the request was admitted, or as a restart reads it, and a
settlement was made with such a rate), the argument is in the operators:

1. numbers: a saturating sum is the sum cut at `MaxInt` (`Cap`), however it is nested; a
   rounded product is off by half a unit at most, and fills what room there is exactly when
   the product before rounding does (`RoundedSaturates`);
2. a cost of five parts is the cut sum of the five, so its order does not matter, and it
   stops at the part that saturates without losing anything (`CostAddsUp`);
3. tiers: the last one reached in *any* sorted list is the largest reached, so the prices
   at a context are those of the rate as it was set (`RateForIsPricesAt`);
4. conventions: what a provider reports of a use, brought back into buckets, is the use
   without what the callback leaves out (`Known`), or the callback contradicts itself;
5. the settlement: the ambiguity test finds every threshold between the known and the
   true context, so what is charged has the prices of the true one.

### UsageReports

Time is counted in the five-minute buckets to which usage is truncated before it is
stored (`store.go:21`, `store_usage.go:84`), and so are the offsets of a zone, which has
one transition. The analysis of a Key and the model ranking are several queries on a
connection of their own; `RecordUsage`, a flush with its failure, a reset and the
retention run between them. The calendar walk (`PeriodStart`, which truncates a bucket to
the hour of the local clock or to its local day, month or year, and `NextPeriod`, with
Go's `time.Date` and `AddDate`) is checked against the civil calendar (`CivilPeriod`: the
wall hour with its offset, as a clock may show an hour twice), in zones whose days have
23, 24 and 25 hours and whose offsets have half hours. `ReportTrue` excuses only what came
between the queries.

Two kinds of zones are excluded, by name. By the hour `ReportTrue` is stated where a clock
changes on the hour and by whole hours (`ByWholeHours`). Australia/Lord_Howe changes by
half an hour: from then on a wall hour begins half past of the walk, so its rows are in no
point and the total is too small (`panel_analysis.go:160`, `174`); without the condition
`reports` fails in that zone. By the day, month and year it is checked with the others. And
`ZonesRegular` excludes zones that skip midnight (Africa/Cairo, America/Santiago): from
such a day on `AddDate` walks at a shifted time, rows fall outside every point, and the
total is too small (`panel_analysis.go:105`). The summary (three sums) and the trend
(fixed UTC bins) are not modelled.

Proved for any number of Keys, models, buckets and zones, any number of buckets in an
hour, for periods of any number of days, and for intervals of any length: `ReportTrue` and
`RankingComplete`. The calendar comes first: `IntervalIsDays` (the half-open interval in
UTC is the civil days asked for) and `StartsArePeriods` (the loop visits the first bucket
of each period of the interval and nothing else). The proof numbers the periods
(`Period`), the hours as if the clock never changed: `WholeHours` shows that a clock that
changes by whole hours keeps one offset through such an hour, `HourBegins` that truncating
by the shifted clock finds the same begin, and `PeriodNumbers` that two instants share
their civil period just when they share the number. The loop is a recursive function; `WalkExists` shows that
such a function exists even if some walk did not end, and `WalkVisits` what it is. The
invariant then says, for every slot, what each query has seen: the first one the rows of
its moment, which afterwards only grow unless something is removed (`Seen`), and that
what had been settled when a ranking was asked for is queued, in flight or stored, the
nearer to its query the further (`OnItsWay`). Points, total and models are compared by
`SumOnPart` and `SumPartition`: a stored row is in exactly one point.

## Runs

| run | question | size |
|---|---|---|
| `ledger` | are charges conserved through flush, failure, reset and restart; is what is queued stored, does a reset return, is the alarm lowered while there is work? | 1 Key in 2 shards, 2 calls, 2 ticks |
| `markers` | is each marker used once, by the right Key, and accounted for; does it implement `MarkerLife`? | 3 requests, 2 raw keys |
| `markers_reload` (violation) | does a safe reload keep every marker? | 2 requests of one millisecond |
| `cycles` | is the spend of an active cycle complete, do boundaries stay? | 2 windows, 2 clients, 5 ticks |
| `ratesync` | do memory, SQLite and a 304 agree? | 1 model, 4 operator calls |
| `ratesync_live` | do due refreshes happen, does close end? | 1 model, 2 operator calls |
| `ratesync_request` (violation) | is an added model's refresh queued? | 1 model |
| `lifecycle` | one engine per database, none orphaned, nothing forgotten, every shutdown returns? | 2 processes, 2 engines, 2 threads |
| `admission` | is every answer the one the policy asks for; is memory what a restart loads? | 2 requests, 2 Keys, 2 changes |
| `pricing` | does a use cost the same in every convention, and never more? | all uses up to 7 tokens |
| `pricing_reload` (violation) | does a rate survive a restart? | as `pricing` |
| `reports` | do points, totals, models and ranking agree with what was stored? | 2 Keys, 4 zones, 3 buckets |

Deadlock is checked in `reports`, where something can always be asked for. The other
models stop when their bounds are used up, and the engine itself stops at `close`.

## Fairness

Only what the code's scheduling gives: a goroutine that can run goes on (weak), a ticker
fires again (weak), an HTTP request ends by its timeout, and `sync.Mutex` and
`sync.RWMutex` do not starve a waiter (strong fairness of the reset that waits for
`flushMu` and of the loop that waits for `rateSyncRunMu`). No operator, callback
or host thread is assumed to begin anything; what has begun goes on.

## Proofs

`tlapm` checks every step of the eight proof modules. Each theorem `Spec => []Inv` goes
through the inductive invariant of its module (`IInv`, or the invariant named above the
theorem), with one lemma or step per action or per conjunct, and lemmas about the
operators first. Every safety property that a passing run checks is proved for all
values of the constants; the inductive invariants were checked by TLC on the instances of
the runs before.

`Sums` holds what four of the modules share. The community modules define a sum over a
set by a recursive function on its subsets; the induction theorems of the library cannot
be instantiated, so `Sums` proves the laws (any order, pointwise, parts of a partition,
comparison) by minimal counterexample: a non-empty set of subsets of a finite set has a
smallest member (`SubsetInduction`), and a non-empty finite set of integers a least one
(`LeastExists`).

Assumptions on constants are the named `ASSUME`s of the modules; TLC evaluates them in
the runs.

- `None` is nothing else, and limits and bounds are natural numbers, or positive.
- The sets that the code adds up or counts are finite: Keys, buckets, clients, requests,
  times. They are maps and slices of a running process.
- `WindowAssumption`: a retention is no shorter than the meter's span, which is no
  shorter than a window (`NormalizeConfig` enforces 168 h).
- `SeedAssumption`: no two stored policies have one fingerprint (`key_sha256` is UNIQUE).
- `RuleAssumption`: a rule begins and ends within a day, at two different times
  (`normalizeAccessRules` refuses the rest).
- `RateAssumption`, `CallbackAssumption`: the types of a rate, of an entry of models.dev and
  of a callback. Prices are not negative (`normalizeModelRate` refuses others); the numbers of
  a callback may be. A use fits into an integer, and a rate has finitely many tiers.
- `HidingAssumption`: a callback that does not tell its total is complete otherwise; the
  code could not know of a token that neither a bucket nor the total has.
- `ConventionAssumption`: a provider whose words the code takes for those of a convention
  counts in that convention. It is about providers; nothing in the code could check it.
- `RequestAssumption`: priorities and identifiers of candidates are compared as integers.
- `CalendarAssumption`: the days that may be asked for have no gaps; a month has at most as
  many days as a year; a transition does not set the clock back into the day before.
  `ZonesRegular`: every day begins at 0:00. Offsets and transitions are whole buckets of
  five minutes, as in every zone of today. The first two exclude real zones, see
  `UsageReports`; for these `ReportTrue` is false.

Only model-checked:

- liveness, since fairness and ENABLED are outside the prover's reach: `EventuallyStored`,
  `ResetReturns`, `AlarmClears`, `DueIsServed`, `LoopEnds`, `ShutdownReturns`;
- that the extraction satisfies `TextIsRead`, for the bodies of `MCAdmission`.

## Not modelled

- Text processing: decoding of JSON and forms, regular expressions, excerpts, localization.
- Schema creation and column migration, file permissions; seeding an old database.
- Paging, filtering and clearing of decision and operational logs; the summary and the
  trend of the analysis; the reader's fallback connection (it decides only whether a
  query times out).
- HTTP parsing and status codes, the C ABI, the web panel, build scripts.
- The running sums of `meterState` (five hours, seven days): no decision reads them.

They keep no state the accounting depends on.

## Plan

Done: all modules above, the proofs of every safety property of the passing runs, and the
refinements of `ChargeLedger` and `MarkerLife`. What could follow:

1. an abstract specification of one engine per database that `Lifecycle` implements;
2. the summary and trend reports.
