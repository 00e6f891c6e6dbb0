------------------------------ MODULE RateSync ------------------------------
(***************************************************************************)
(* The model rate card and its synchronization with models.dev             *)
(* (internal/quota/models_dev.go, store_models.go, billing.go,             *)
(* cmd/codex-carpool/main.go).                                             *)
(*                                                                         *)
(* The card lives in memory and in SQLite.  Operators replace it, replace  *)
(* the model catalog and switch synchronization on and off; a loop         *)
(* synchronizes when it is due or forced.  Whoever changes the card or the *)
(* status holds rateSyncRunMu, also over the HTTP request.                 *)
(*                                                                         *)
(* Abstractions: a rate is its source, its RateCardOnly mark and one       *)
(* price; an ETag is the content it stands for; the catalog fingerprint is *)
(* the set of candidates (owners and matching rules are left out, so       *)
(* upstream says for each model its price or that it has no match); times  *)
(* are one bit, NextSyncAt is past or not; one operator call at a time.    *)
(***************************************************************************)
EXTENDS FiniteSets, Naturals

CONSTANTS
  Models,
  Prices,       \* prices of models.dev
  HandPrice,    \* a price set by hand
  None,         \* no match, no ETag
  \* Bounds of the model, used in guards only:
  MaxChanges, MaxUpstream, MaxFailures, MaxTicks, MaxRestarts

ASSUME PriceAssumption == HandPrice \notin Prices /\ None \notin Prices /\ None # HandPrice
ASSUME BoundAssumption == {MaxChanges, MaxUpstream, MaxFailures, MaxTicks, MaxRestarts} \subseteq Nat

VARIABLES
  card,         \* engine.modelRates
  cardRows,     \* model_rates
  catalog,      \* model_catalog: which of Models are available; it has others too
  status,       \* engine.rateSyncStatus
  statusRows,   \* its copy in plugin_metadata
  due,          \* NextSyncAt is missing or past
  forced,       \* rateSyncForced
  wake,         \* rateSyncWake holds a token
  timer,        \* the loop's timer: set for NextSyncAt, for a later time, or fired
  stop,         \* rateSyncStop is closed
  loop,         \* where modelRateSyncLoop stands and the status it has read
  panel,        \* where the operator's call stands
  run,          \* SyncModelRates under rateSyncRunMu, or free
  upstream,     \* what models.dev offers now
  requested,    \* history: a refresh was requested and none has started since
  edited,       \* history: the card was replaced since the last complete response
  changes, moves, failures, ticks, restarts    \* how much of each bound is used

bounds == <<changes, moves, failures, ticks, restarts>>
rates  == <<card, cardRows>>
state  == <<status, statusRows>>
wakes  == <<forced, wake, stop>>
vars   == <<rates, catalog, state, due, timer, wakes, loop, panel, run, upstream, requested,
            edited, bounds>>

Upstream   == [Models -> Prices \cup {None}]
Rate       == [source : {"legacy", "manual", "models.dev"}, only : BOOLEAN,
               price : Prices \cup {HandPrice}]
Status     == [enabled : BOOLEAN, etag : Upstream \cup {None}, fingerprint : SUBSET Models]
Free       == [by |-> "none", pc |-> "free", candidates |-> {}, added |-> {},
               body |-> None, retired |-> {}]
Seed       == [source |-> "legacy", only |-> FALSE, price |-> HandPrice]

\* What the card has of a model without a rate.
NoRate     == [source |-> "none", only |-> FALSE, price |-> None]

Init ==
  /\ card \in [Models -> {NoRate, Seed}] /\ cardRows = card
  /\ catalog \in SUBSET Models
  /\ status = [enabled |-> FALSE, etag |-> None, fingerprint |-> {}] /\ statusRows = status
  /\ due = TRUE
  /\ forced = FALSE /\ wake = FALSE /\ timer = "late" /\ stop = FALSE
  /\ loop = [pc |-> "status", enabled |-> FALSE, due |-> FALSE]
  /\ panel = "idle" /\ run = Free
  /\ upstream \in Upstream
  /\ requested = FALSE /\ edited = FALSE
  /\ changes = 0 /\ moves = 0 /\ failures = 0 /\ ticks = 0 /\ restarts = 0

-----------------------------------------------------------------------------
(* What one synchronization does to the card.                               *)

Has(c, m, source) == c[m].source = source

\* modelRateSyncCandidates: the catalog and what was added to the card by hand.
Candidates(c) ==
  catalog \cup {m \in Models : \/ Has(c, m, "manual")
                               \/ Has(c, m, "models.dev") /\ c[m].only}

\* The candidates that carry the RateCardOnly mark.
Added(c) == (Candidates(c) \ catalog) \cup {m \in catalog : c[m].only}

\* Mutant: a candidate that models.dev does not price is matched too.
MatchedUnpriced(candidates, body) == candidates

\* modelRatesFromModelsDev: the candidates that models.dev prices.
Matched(candidates, body) == {m \in candidates : body[m] # None}

\* Mutant: every rate without a match is retired, also one set by hand.
RetiredAll(c, r) == {m \in Models : c[m] # NoRate /\ m \notin Matched(r.candidates, r.body)}

\* The rates of the source that the response no longer has.
Retired(c, r) == {m \in Models : Has(c, m, "models.dev") /\ m \notin Matched(r.candidates, r.body)}

\* The card c after the complete response of run r.
Merged(c, r, retired) ==
  [m \in Models |->
     IF m \in Matched(r.candidates, r.body)
     THEN [source |-> "models.dev", only |-> m \in r.added, price |-> r.body[m]]
     ELSE IF m \in retired THEN NoRate ELSE c[m]]

\* Mutant: memory keeps what SQLite retired.
InstalledKeeping(c, r) == Merged(c, r, {})
Installed(c, r) == Merged(c, r, r.retired)

-----------------------------------------------------------------------------
(* SyncModelRates, run by the loop or by the operator's call.               *)

Held == run.pc # "free"

\* Mutant: the operator's call ends without waking the loop.
ResumeQuietly(by) ==
  /\ loop' = IF by = "loop" THEN [loop EXCEPT !.pc = "status"] ELSE loop
  /\ panel' = IF by = "panel" THEN "idle" ELSE panel

\* Where its caller goes on: the operator's call wakes the loop.
Resume(by) ==
  /\ loop' = IF by = "loop" THEN [loop EXCEPT !.pc = "status"] ELSE loop
  /\ panel' = IF by = "panel" THEN "wake" ELSE panel

BeginSync(by) ==
  /\ ~Held
  /\ \/ by = "loop" /\ loop.pc = "begin"
     \/ by = "panel" /\ panel = "sync"
  /\ run' = [by |-> by, pc |-> "asked", candidates |-> Candidates(card),
             added |-> Added(card), body |-> None, retired |-> {}]
  /\ requested' = FALSE
  /\ UNCHANGED <<rates, catalog, state, due, timer, wakes, loop, panel, upstream, edited, bounds>>

\* finishModelRateSync saved the attempt, and memory follows.
Finish(new) ==
  /\ status' = new /\ statusRows' = new
  /\ due' = FALSE /\ timer' = "late"
  /\ run' = Free
  /\ Resume(run.by)

\* It could not save it: nothing is known of the attempt.
FinishFails ==
  /\ run.pc = "failed" /\ failures < MaxFailures
  /\ failures' = failures + 1
  /\ run' = Free
  /\ Resume(run.by)
  /\ UNCHANGED <<rates, catalog, state, due, timer, wakes, upstream, requested, edited,
                 changes, moves, ticks, restarts>>

FinishFailed ==
  /\ run.pc = "failed"
  /\ Finish(status)
  /\ UNCHANGED <<rates, catalog, wakes, upstream, requested, edited, bounds>>

\* Mutant: the fingerprint of the candidates is not compared.
AsksForTag == status.etag # None
AsksConditionally == status.etag # None /\ status.fingerprint = run.candidates

\* models.dev cannot be reached, or answers nonsense.
Unreachable ==
  /\ run.pc = "asked" /\ failures < MaxFailures
  /\ failures' = failures + 1
  /\ run' = [run EXCEPT !.pc = "failed"]
  /\ UNCHANGED <<rates, catalog, state, due, timer, wakes, loop, panel, upstream, requested,
                 edited, changes, moves, ticks, restarts>>

\* 304: the card stays as it is.
NotModified ==
  /\ run.pc = "asked" /\ AsksConditionally /\ status.etag = upstream
  /\ \/ /\ Finish([status EXCEPT !.fingerprint = run.candidates])
        /\ UNCHANGED failures
     \/ /\ failures < MaxFailures
        /\ failures' = failures + 1
        /\ run' = Free
        /\ Resume(run.by)
        /\ UNCHANGED <<state, due, timer>>
  /\ UNCHANGED <<rates, catalog, wakes, upstream, requested, edited, changes, moves,
                 ticks, restarts>>

\* 200: a complete response, unless it is an empty catalog.
Answered ==
  /\ run.pc = "asked" /\ ~(AsksConditionally /\ status.etag = upstream)
  /\ run' = [run EXCEPT !.pc = "answered", !.body = upstream]
  /\ UNCHANGED <<rates, catalog, state, due, timer, wakes, loop, panel, upstream, requested,
                 edited, bounds>>

\* ReconcileSynchronizedModelRates: rates and status in one transaction, the
\* status with the ETag of the response, if it has one ...
Reconcile ==
  /\ run.pc = "answered"
  /\ \/ \E retired \in {Retired(cardRows, run)}, tag \in {run.body, None} :
          /\ cardRows' = Merged(cardRows, run, retired)
          /\ statusRows' = [status EXCEPT !.etag = tag, !.fingerprint = run.candidates]
          /\ run' = [run EXCEPT !.pc = "committed", !.retired = retired]
          /\ edited' = FALSE
          /\ UNCHANGED failures
     \/ /\ failures < MaxFailures
        /\ failures' = failures + 1
        /\ run' = [run EXCEPT !.pc = "failed"]
        /\ UNCHANGED <<cardRows, statusRows, edited>>
  /\ UNCHANGED <<card, catalog, status, due, timer, wakes, loop, panel, upstream, requested,
                 changes, moves, ticks, restarts>>

\* ... then memory.
Install ==
  /\ run.pc = "committed"
  /\ card' = Installed(card, run)
  /\ status' = statusRows
  /\ due' = FALSE /\ timer' = "late"
  /\ run' = Free
  /\ Resume(run.by)
  /\ UNCHANGED <<cardRows, catalog, statusRows, wakes, upstream, requested, edited, bounds>>

-----------------------------------------------------------------------------
(* modelRateSyncLoop.                                                       *)

LoopUnchanged == UNCHANGED <<rates, catalog, state, due, stop, panel, run, upstream,
                             requested, edited, bounds>>

\* The status decides how long the timer of this round will be.
LoopRead ==
  /\ loop.pc = "status"
  /\ loop' = [pc |-> "swap", enabled |-> status.enabled, due |-> due]
  /\ timer' = IF status.enabled THEN "next" ELSE "late"
  /\ UNCHANGED <<forced, wake>> /\ LoopUnchanged

\* rateSyncForced.Swap(false), and the decision.
LoopSwap ==
  /\ loop.pc = "swap"
  /\ loop' = [loop EXCEPT !.pc = IF loop.enabled /\ (forced \/ loop.due) THEN "begin" ELSE "wait"]
  /\ forced' = FALSE
  /\ UNCHANGED <<wake, timer>> /\ LoopUnchanged

\* The timer or a token ends the wait.
LoopWake ==
  /\ loop.pc = "wait"
  /\ \/ timer = "fired" /\ UNCHANGED wake
     \/ wake /\ wake' = FALSE
  /\ loop' = [loop EXCEPT !.pc = "status"]
  /\ UNCHANGED <<forced, timer>> /\ LoopUnchanged

LoopStop ==
  /\ loop.pc = "wait" /\ stop
  /\ loop' = [loop EXCEPT !.pc = "done"]
  /\ UNCHANGED <<forced, wake, timer>> /\ LoopUnchanged

-----------------------------------------------------------------------------
(* The operator's calls, one at a time.                                     *)

PanelFree == panel = "idle" /\ ~stop /\ changes < MaxChanges

\* A rate as PUT rates stores it: RateCardOnly marks what neither the card nor
\* the catalog had when it was priced by hand.
Put(m, source, price) ==
  [source |-> source, price |-> price,
   only |-> IF card[m] # NoRate THEN card[m].only ELSE source = "manual" /\ m \notin catalog]

\* What the operator may send of a model: nothing, the rate as it is, a price
\* by hand, or a synchronized rate, old or new.
Sent(m) == {NoRate, card[m], Put(m, "manual", HandPrice)}
           \cup {Put(m, "models.dev", p) : p \in Prices}

\* PUT rates.
ReplaceModelRates(new) ==
  /\ PanelFree /\ ~Held
  /\ changes' = changes + 1
  /\ \A m \in Models : new[m] \in Sent(m)
  /\ new # card
  /\ card' = new /\ cardRows' = new
  /\ edited' = TRUE
  /\ panel' = IF \E m \in Models : card[m] = NoRate /\ new[m] # NoRate THEN "added" ELSE "idle"
  /\ UNCHANGED <<catalog, state, due, timer, wakes, loop, run, upstream, requested, moves,
                 failures, ticks, restarts>>

\* PUT models, which does not take rateSyncRunMu.
ReplaceModels(new) ==
  /\ PanelFree
  /\ changes' = changes + 1
  /\ new \in (SUBSET Models) \ {catalog}
  /\ catalog' = new
  /\ panel' = "added"
  /\ UNCHANGED <<rates, state, due, timer, wakes, loop, run, upstream, requested, edited,
                 moves, failures, ticks, restarts>>

\* RequestModelRateSync, when synchronization is on.
RequestModelRateSync ==
  /\ panel = "added"
  /\ panel' = "idle"
  /\ IF status.enabled THEN forced' = TRUE /\ wake' = TRUE /\ requested' = TRUE
                       ELSE UNCHANGED <<forced, wake, requested>>
  /\ UNCHANGED <<rates, catalog, state, due, timer, stop, loop, run, upstream, edited, bounds>>

\* Mutant: switching on again trusts the old ETag.
SwitchedKeepingTag(enabled) == [status EXCEPT !.enabled = enabled]
Switched(enabled) ==
  IF enabled /\ ~status.enabled
  THEN [status EXCEPT !.enabled = TRUE, !.etag = None, !.fingerprint = {}]
  ELSE [status EXCEPT !.enabled = enabled]

\* Mutant: the error path leaves rateSyncRunMu locked.
RefusedLocked == [Free EXCEPT !.by = "panel", !.pc = "locked"]
Refused == Free

\* SetModelRateSyncEnabled.  When SQLite refuses, nothing changes.
SetModelRateSyncEnabled(enabled) ==
  /\ PanelFree /\ ~Held
  /\ changes' = changes + 1
  /\ \/ /\ status' = Switched(enabled) /\ statusRows' = Switched(enabled)
        /\ timer' = "late"
        /\ edited' = IF enabled /\ ~status.enabled THEN FALSE ELSE edited
        /\ panel' = IF enabled THEN "sync" ELSE "wake"
        /\ UNCHANGED <<run, failures>>
     \/ /\ failures < MaxFailures
        /\ failures' = failures + 1
        /\ run' = Refused
        /\ UNCHANGED <<state, timer, edited, panel>>
  /\ UNCHANGED <<rates, catalog, due, wakes, loop, upstream, requested, moves, ticks, restarts>>

WakeModelRateSync ==
  /\ panel = "wake"
  /\ panel' = "idle"
  /\ wake' = TRUE
  /\ UNCHANGED <<rates, catalog, state, due, timer, forced, stop, loop, run, upstream,
                 requested, edited, bounds>>

-----------------------------------------------------------------------------
(* The environment.                                                         *)

\* models.dev changes what it offers.
Move(new) ==
  /\ moves < MaxUpstream
  /\ moves' = moves + 1
  /\ new \in Upstream \ {upstream}
  /\ upstream' = new
  /\ UNCHANGED <<rates, catalog, state, due, timer, wakes, loop, panel, run, requested, edited,
                 changes, failures, ticks, restarts>>

\* NextSyncAt passes.
TimePasses ==
  /\ ticks < MaxTicks
  /\ ticks' = ticks + 1
  /\ due' = TRUE
  /\ timer' = IF timer = "next" THEN "fired" ELSE timer
  /\ UNCHANGED <<rates, catalog, state, wakes, loop, panel, run, upstream, requested,
                 edited, changes, moves, failures, restarts>>

\* close
Close ==
  /\ ~stop
  /\ stop' = TRUE
  /\ UNCHANGED <<rates, catalog, state, due, forced, wake, timer, loop, panel, run,
                 upstream, requested, edited, bounds>>

\* The process ends at any moment, and Open reads SQLite.
Restart ==
  /\ restarts < MaxRestarts
  /\ restarts' = restarts + 1
  /\ card' = cardRows /\ status' = statusRows
  /\ due' = (due /\ run.pc # "committed")
  /\ forced' = FALSE /\ wake' = FALSE /\ timer' = "late" /\ stop' = FALSE
  /\ loop' = [pc |-> "status", enabled |-> FALSE, due |-> FALSE]
  /\ panel' = "idle" /\ run' = Free /\ requested' = FALSE
  /\ UNCHANGED <<cardRows, catalog, statusRows, upstream, edited, changes, moves,
                 failures, ticks>>

SyncStep == \/ \E by \in {"loop", "panel"} : BeginSync(by)
            \/ Unreachable \/ NotModified \/ Answered \/ Reconcile \/ Install
            \/ FinishFailed \/ FinishFails

LoopStep == LoopRead \/ LoopSwap \/ LoopWake \/ LoopStop

PanelStep ==
  \/ \E new \in [Models -> UNION {Sent(m) : m \in Models}] : ReplaceModelRates(new)
  \/ \E new \in SUBSET Models : ReplaceModels(new)
  \/ \E enabled \in BOOLEAN : SetModelRateSyncEnabled(enabled)
  \/ RequestModelRateSync \/ WakeModelRateSync

Environment == (\E new \in Upstream : Move(new)) \/ TimePasses \/ Close \/ Restart

Next == SyncStep \/ LoopStep \/ PanelStep \/ Environment

Spec == Init /\ [][Next]_vars

\* A running goroutine goes on, an HTTP request ends by its timeout, and the
\* loop gets rateSyncRunMu although operators ask for it too.
Fairness ==
  /\ WF_vars(LoopRead \/ LoopSwap) /\ SF_vars(LoopWake \/ LoopStop)
  /\ SF_vars(BeginSync("loop")) /\ WF_vars(BeginSync("panel"))
  /\ WF_vars(Unreachable \/ NotModified \/ Answered \/ Reconcile \/ Install
             \/ FinishFailed \/ FinishFails)
  /\ WF_vars(RequestModelRateSync \/ WakeModelRateSync)

FairSpec == Spec /\ Fairness

-----------------------------------------------------------------------------
Run == [by : {"none", "loop", "panel"}, pc : {"free", "asked", "answered", "committed", "failed"},
        candidates : SUBSET Models, added : SUBSET Models, body : Upstream \cup {None},
        retired : SUBSET Models]

TypeOK ==
  /\ card \in [Models -> Rate \cup {NoRate}] /\ cardRows \in [Models -> Rate \cup {NoRate}]
  /\ catalog \in SUBSET Models
  /\ status \in Status /\ statusRows \in Status
  /\ {due, forced, wake, stop, requested, edited} \subseteq BOOLEAN
  /\ timer \in {"next", "late", "fired"}
  /\ loop \in [pc : {"status", "swap", "begin", "wait", "done"}, enabled : BOOLEAN, due : BOOLEAN]
  /\ panel \in {"idle", "added", "sync", "wake"}
  /\ run \in Run
  /\ upstream \in Upstream

\* What admissions price with is what SQLite has (models_dev.go:167-250,
\* billing.go:586-639): outside the moment between a commit and its
\* installation, card and status are the same in memory and in SQLite, whatever
\* failed, and memory changes the card model by model.
CardInStep == run.pc # "committed" => card = cardRows /\ status = statusRows

\* A 304 may stand for a complete response (models_dev.go:146-150, 191, 202): it
\* is accepted only when the card is already what the response would make of
\* it, whatever the catalog, the card and the switch went through, unless the
\* card was edited while synchronization was on.
NotModifiedIsCurrent ==
  [][NotModified /\ ~edited =>
       LET response == [run EXCEPT !.body = upstream]
       IN  Merged(card, response, Retired(card, response)) = card]_vars

\* A synchronization, whatever its outcome, leaves no model without a price that
\* an operator or the seed gave it (models_dev.go:237-243, store_models.go:
\* 167-192): such a model would be refused with 503.
HandPricedStayPriced ==
  [][Held => \A m \in Models :
               card[m] # NoRate /\ card[m].source # "models.dev"
                 => card'[m] # NoRate /\ cardRows'[m] # NoRate]_vars

\* While synchronization is on, a refresh that is due happens or is recorded as
\* a failed attempt (models_dev.go:515-549), through switches, forced refreshes
\* and lost wake-ups.
DueIsServed == (due /\ status.enabled) ~> (~due \/ ~status.enabled \/ stop)

\* close waits for the loop, and the loop ends (models_dev.go:539-547,
\* engine.go:1299-1300), as long as SQLite does not fail for ever.
LoopEnds == stop ~> (loop.pc = "done" \/ ~stop)

\* What README.en.md:67 says: adding a model queues a refresh.  A loop that has
\* gone to wait without a token has no request left unserved.
RequestNotForgotten ==
  loop.pc = "wait" /\ ~wake /\ status.enabled => ~requested
=============================================================================
