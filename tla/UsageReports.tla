---------------------------- MODULE UsageReports ----------------------------
(***************************************************************************)
(* The reports of the management panel: the token analysis of one Key by   *)
(* local calendar time and the ranking of models over all Keys             *)
(* (internal/quota/panel_analysis.go, store_usage.go, cmd/codex-carpool/   *)
(* main.go).                                                               *)
(*                                                                         *)
(* A report is put together from several queries on a connection of its    *)
(* own, while settled usage is queued, flushed, reset and pruned.  The     *)
(* analysis turns rows kept in UTC into the days, months or hours of any   *)
(* IANA time zone by walking a calendar that has days of 23 and 25 hours.  *)
(*                                                                         *)
(* Abstractions: time is counted in the buckets of five minutes to which   *)
(* usage is truncated before it is stored (store.go:21, store_usage.go:84),*)
(* and so are the offsets of a zone, which has one transition; months and  *)
(* years have a fixed number of days; the token kinds and costs of a row,  *)
(* which are summed like its units, are left out; a query that times out,  *)
(* on the reader or, while that is degraded, on the writer's connection,   *)
(* is a failure.                                                           *)
(***************************************************************************)
EXTENDS Integers, FiniteSets, FiniteSetsExt, Functions

CONSTANTS
  Keys, Models,
  Times,       \* the buckets in which usage may have been requested
  PerHour,     \* the buckets of an hour: 12
  Zones,       \* [before, after: offset from UTC; at: when it changes]
  Days,        \* the civil days that a report may name
  MonthDays, YearDays,
  MaxDays,     \* the longest range of a report: 366
  MaxHourly,   \* the longest with a point for each hour: 31
  \* Bounds of the model, used in guards only:
  MaxUsage, MaxFailures, MaxRemovals

Slots == Keys \X Models \X Times
Usage == [Slots -> 0..MaxUsage]
Zero  == [s \in Slots |-> 0]
Add(f, g) == [s \in Slots |-> f[s] + g[s]]
Total(f, slots) == SumFunctionOnSet(f, slots)

-----------------------------------------------------------------------------
(* The calendar.  A wall-clock time is a number of buckets as well: those    *)
(* of the civil days before it and those of its own day.                     *)

Day == 24 * PerHour
Offset(zone, t)   == IF t < zone.at THEN zone.before ELSE zone.after
Wall(zone, t)     == t + Offset(zone, t)
CivilDay(zone, t) == Wall(zone, t) \div Day

\* time.Date: the instant that shows this wall-clock time.
Date(zone, wall) ==
  LET utc == wall - Offset(zone, wall)
  IN  IF Offset(zone, utc) = Offset(zone, wall) THEN utc
      ELSE wall - Offset(zone, utc)

\* Time.AddDate with a number of days.
AddDays(zone, t, days) == Date(zone, Wall(zone, t) + Day * days)

Granularities == {"hour", "day", "month", "year"}
DaysIn(granularity) ==
  CASE granularity = "month" -> MonthDays
    [] granularity = "year"  -> YearDays
    [] OTHER -> 1

\* Mutant of PeriodStart: an hour begins at a whole hour of UTC.
PeriodStartUTC(zone, granularity, t) ==
  LET days == DaysIn(granularity)
  IN  IF granularity = "hour" THEN t - (t % PerHour)
      ELSE Date(zone, Day * days * (CivilDay(zone, t) \div days))

\* analysisPeriodStart: an hour begins so much earlier as its clock shows minutes.
PeriodStart(zone, granularity, t) ==
  LET days == DaysIn(granularity)
  IN  IF granularity = "hour" THEN t - (Wall(zone, t) % PerHour)
      ELSE Date(zone, Day * days * (CivilDay(zone, t) \div days))

\* Mutant of NextPeriod: the next day is 24 hours later.
NextPeriodByHours(zone, granularity, t) ==
  IF granularity = "hour" THEN t + PerHour ELSE t + Day * DaysIn(granularity)

\* nextAnalysisPeriod
NextPeriod(zone, granularity, t) ==
  IF granularity = "hour" THEN t + PerHour ELSE AddDays(zone, t, DaysIn(granularity))

\* parseUsageAnalysisRange: the dates are inclusive, the interval half-open.
From(ask)  == Date(ask.zone, Day * ask.from)
Until(ask) == AddDays(ask.zone, Date(ask.zone, Day * ask.to), 1)

\* The zones modelled: every day begins with a 0:00 hour, and time.Date finds it.
Regular(zone, day) ==
  LET start == Date(zone, Day * day)
  IN  /\ Wall(zone, start) = Day * day
      /\ CivilDay(zone, start - 1) < day
ASSUME ZonesRegular ==
  \A zone \in Zones, day \in Days, n \in -YearDays..YearDays : Regular(zone, day + n)

\* The zones whose clock changes on the hour and by whole hours: all but those
\* like Australia/Lord_Howe, which changes by half an hour.
ByWholeHours(zone) ==
  \/ zone.before = zone.after
  \/ /\ (zone.after - zone.before) % PerHour = 0
     /\ (zone.at + zone.before) % PerHour = 0

\* A transition may repeat an hour, but not set the clock back into the day before.
ASSUME CalendarAssumption ==
  /\ Days \subseteq Int /\ Times \subseteq Int
  /\ \A from, to \in Days : from..to \subseteq Days
  /\ IsFiniteSet(Slots)
  /\ PerHour \in Nat \ {0}
  /\ MonthDays \in Nat \ {0} /\ YearDays \in Nat \ {0} /\ MonthDays <= YearDays
  /\ \A zone \in Zones :
       /\ zone \in [before : Int, after : Int, at : Int]
       /\ CivilDay(zone, zone.at - 1) <= CivilDay(zone, zone.at)

-----------------------------------------------------------------------------
VARIABLES
  pending,   \* engine.pendingShards, the part of scope key_actual
  flush,     \* what flushPending has taken, and who holds flushMu
  rows,      \* usage_analysis_buckets
  report,    \* the report under way
  used,      \* how much of each bound is used
  since      \* history: what happened to rows since the report began
vars == <<pending, flush, rows, report, used, since>>

Asks == [kind : {"analysis"}, key : Keys, zone : Zones, from : Days, to : Days,
         granularity : Granularities]
   \cup [kind : {"ranking"}, zone : Zones, from : Days, to : Days]

Nobody  == [by |-> "nobody", events |-> Zero]
NoAsk   == [kind |-> "none"]
Idle    == [pc |-> "idle", ask |-> NoAsk, buckets |-> Zero, first |-> 0, models |-> Zero]
Nothing == [settled |-> Zero, before |-> Zero, removed |-> FALSE, added |-> FALSE]

Init ==
  /\ pending = Zero /\ flush = Nobody /\ rows = Zero
  /\ report = Idle /\ since = Nothing
  /\ used = [usage |-> 0, failures |-> 0, removals |-> 0]

Use(what, bound) == used[what] < bound /\ used' = [used EXCEPT ![what] = @ + 1]
Wrote(what) == since' = IF report = Idle THEN since ELSE [since EXCEPT ![what] = TRUE]

-----------------------------------------------------------------------------
(* What is settled, and what becomes of it.                                 *)

RecordUsage(slot) ==
  /\ Use("usage", MaxUsage)
  /\ pending' = [pending EXCEPT ![slot] = @ + 1]
  /\ UNCHANGED <<flush, rows, report, since>>

\* flushPending: it waits for flushMu and takes all there is.
Take(by) ==
  /\ flush = Nobody
  /\ flush' = [by |-> by, events |-> pending]
  /\ pending' = Zero

FlushLoop ==
  /\ pending # Zero
  /\ Take("loop")
  /\ UNCHANGED <<rows, report, used, since>>

\* Where a flush returns: the ranking goes on to its query.
Flushed == IF flush.by = "ranking" THEN [report EXCEPT !.pc = "query"] ELSE report

Commit ==
  /\ flush # Nobody
  /\ rows' = Add(rows, flush.events)
  /\ flush' = Nobody
  /\ report' = Flushed
  /\ Wrote("added")
  /\ UNCHANGED <<pending, used>>

\* The events go back to their shards; a ranking is answered with the error.
CommitFails ==
  /\ flush.events # Zero
  /\ Use("failures", MaxFailures)
  /\ pending' = Add(pending, flush.events)
  /\ flush' = Nobody
  /\ IF flush.by = "ranking"
     THEN report' = Idle /\ since' = Nothing
     ELSE UNCHANGED <<report, since>>
  /\ UNCHANGED rows

\* ResetPolicyUsage, DeletePolicy: flush, then delete the rows of the Key.  The
\* flush is FlushLoop's.
ResetPolicyUsage(key) ==
  /\ flush = Nobody
  /\ Use("removals", MaxRemovals)
  /\ rows' = [s \in Slots |-> IF s[1] = key THEN 0 ELSE rows[s]]
  /\ Wrote("removed")
  /\ UNCHANGED <<pending, flush, report>>

\* PruneRetention
PruneRetention(before) ==
  /\ Use("removals", MaxRemovals)
  /\ rows' = [s \in Slots |-> IF s[3] < before THEN 0 ELSE rows[s]]
  /\ Wrote("removed")
  /\ UNCHANGED <<pending, flush, report>>

-----------------------------------------------------------------------------
(* UsageAnalysis: three queries, each of which sees the rows of its moment.  *)

Within(ask, s) == From(ask) <= s[3] /\ s[3] < Until(ask)
Selected(ask)  == {s \in Slots : s[1] = ask.key /\ Within(ask, s)}
Restricted(slots) == [s \in Slots |-> IF s \in slots THEN rows[s] ELSE 0]

\* The last day, or hour, that the range reaches.
Last(ask, granularity) == PeriodStart(ask.zone, granularity, Until(ask) - 1)

Accepted(ask) ==
  LET first == PeriodStart(ask.zone, "day", From(ask))
      Longer(days) == Last(ask, "day") > AddDays(ask.zone, first, days - 1)
  IN  /\ ask.from <= ask.to /\ ~Longer(MaxDays)
      /\ ask.kind = "analysis" /\ ask.granularity = "hour" => ~Longer(MaxHourly)
      /\ ask.kind = "ranking" => first = Last(ask, "day")

Ask(ask) ==
  /\ report = Idle
  /\ Accepted(ask)
  /\ report' = [Idle EXCEPT !.ask = ask,
                            !.pc = IF ask.kind = "ranking" THEN "flush" ELSE "buckets"]
  /\ since' = IF ask.kind = "ranking"
              THEN [Nothing EXCEPT !.settled = Add(Add(pending, flush.events), rows)] ELSE Nothing
  /\ UNCHANGED <<pending, flush, rows, used>>

\* LoadUsageAnalysisSnapshot, its first query
LoadBuckets ==
  /\ report.pc = "buckets"
  /\ report' = [report EXCEPT !.pc = "first", !.buckets = Restricted(Selected(report.ask))]
  /\ since' = [since EXCEPT !.before = rows, !.added = FALSE, !.removed = FALSE]
  /\ UNCHANGED <<pending, flush, rows, used>>

\* Its second query, MIN(bucket_at)
LoadAvailableFrom ==
  LET times == {s[3] : s \in {s \in Slots : s[1] = report.ask.key /\ rows[s] > 0}}
  IN  /\ report.pc = "first"
      /\ report' = [report EXCEPT !.pc = "models",
                                  !.first = IF times = {} THEN Until(report.ask) ELSE Min(times)]
      /\ UNCHANGED <<pending, flush, rows, used, since>>

\* LoadUsageAnalysisBreakdown
LoadBreakdown ==
  /\ report.pc = "models"
  /\ report' = [report EXCEPT !.pc = "answer", !.models = Restricted(Selected(report.ask))]
  /\ UNCHANGED <<pending, flush, rows, used, since>>

\* The periods that the loop visits, and what each point sums.
Starts(ask) ==
  LET zone == ask.zone
      g    == ask.granularity
      last == Last(ask, g)
      visited[t \in Int] ==
        IF t > last THEN {} ELSE {t} \cup visited[NextPeriod(zone, g, t)]
  IN  visited[PeriodStart(zone, g, From(ask))]

Points ==
  LET ask == report.ask
      At(start) == {s \in Slots : PeriodStart(ask.zone, ask.granularity, s[3]) = start}
  IN  [start \in Starts(ask) |-> Total(report.buckets, At(start))]

-----------------------------------------------------------------------------
(* ModelUsageRanking                                                         *)

\* Mutant of RankingFlush: with nothing queued it does not wait for flushMu.
RankingFlushQueued ==
  /\ report.pc = "flush"
  /\ IF pending = Zero THEN report' = [report EXCEPT !.pc = "query"] /\ UNCHANGED <<pending, flush>>
     ELSE Take("ranking") /\ report' = [report EXCEPT !.pc = "flushing"]
  /\ UNCHANGED <<rows, used, since>>

RankingFlush ==
  /\ report.pc = "flush"
  /\ Take("ranking")
  /\ report' = [report EXCEPT !.pc = "flushing"]
  /\ UNCHANGED <<rows, used, since>>

\* LoadGlobalUsageAnalysisBreakdown
LoadRanking ==
  /\ report.pc = "query"
  /\ report' = [report EXCEPT !.pc = "answer",
                              !.models = Restricted({s \in Slots : Within(report.ask, s)})]
  /\ UNCHANGED <<pending, flush, rows, used, since>>

\* The report is sent.
Answer ==
  /\ report.pc = "answer"
  /\ report' = Idle /\ since' = Nothing
  /\ UNCHANGED <<pending, flush, rows, used>>

\* A query does not end in time: an error is all that is sent.
QueryFails ==
  /\ report.pc \in {"buckets", "first", "models", "query"}
  /\ Use("failures", MaxFailures)
  /\ report' = Idle /\ since' = Nothing
  /\ UNCHANGED <<pending, flush, rows>>

ReportStep ==
  \/ \E ask \in Asks : Ask(ask)
  \/ LoadBuckets \/ LoadAvailableFrom \/ LoadBreakdown
  \/ RankingFlush \/ LoadRanking \/ Answer \/ QueryFails

Next ==
  \/ \E slot \in Slots : RecordUsage(slot)
  \/ FlushLoop \/ Commit \/ CommitFails
  \/ \E key \in Keys : ResetPolicyUsage(key)
  \/ \E before \in Times : PruneRetention(before)
  \/ ReportStep

Spec == Init /\ [][Next]_vars

-----------------------------------------------------------------------------
\* A reference for the calendar: the civil period that an instant belongs to, an
\* hour with its offset as the clock may show it twice; and the slots of the days
\* that were asked for.
CivilPeriod(ask, t) ==
  IF ask.granularity = "hour" THEN <<Wall(ask.zone, t) \div PerHour, Offset(ask.zone, t)>>
  ELSE CivilDay(ask.zone, t) \div DaysIn(ask.granularity)
Asked(ask) == {s \in Slots : CivilDay(ask.zone, s[3]) \in ask.from..ask.to}

Answered(kind) == report.pc = "answer" /\ report.ask.kind = kind
Mine  == {s \in Asked(report.ask) : s[1] = report.ask.key}
Shown == LET points == Points IN SumFunctionOnSet(points, DOMAIN points)

\* What the analysis of a Key shows (panel_analysis.go:47-115): the points are
\* the civil periods of the days asked for, each once and with exactly what was
\* stored for its buckets at one moment, on days of 23 and 25 hours too, so that
\* their sum is the total; the models sum to the same, and the first bucket on
\* record is no later than what is shown, unless a flush, a reset or the
\* retention came between the queries, and a flush only adds.  An hourly
\* analysis keeps this only where clocks change by whole hours: after a change by
\* half an hour each wall hour begins half past of the walk (160, 174), and what
\* was stored for it is in no point.
ReportTrue ==
  Answered("analysis") /\ (report.ask.granularity = "hour" => ByWholeHours(report.ask.zone)) =>
    LET ask    == report.ask
        points == Points
        total  == Shown
        Of(start) == {s \in Mine : CivilPeriod(ask, s[3]) = CivilPeriod(ask, start)}
    IN  /\ {CivilPeriod(ask, start) : start \in DOMAIN points}
             = {CivilPeriod(ask, t) : t \in From(ask)..(Until(ask) - 1)}
        /\ \A one, other \in DOMAIN points :
             CivilPeriod(ask, one) = CivilPeriod(ask, other) => one = other
        /\ \A start \in DOMAIN points : points[start] = Total(since.before, Of(start))
        /\ total = Total(since.before, Mine)
        /\ ~since.removed =>
             /\ total <= Total(report.models, Mine)
             /\ \A s \in Mine : report.buckets[s] > 0 => report.first <= s[3]
        /\ ~since.removed /\ ~since.added => total = Total(report.models, Slots)

\* A ranking shows everything that had been settled for the day when it was
\* asked for (panel_analysis.go:130-138), queued, in the hands of another flush
\* or stored, whatever other flushes failed, as long as nothing was removed.
RankingComplete ==
  Answered("ranking") /\ ~since.removed =>
    \A s \in Asked(report.ask) : report.models[s] >= since.settled[s]
=============================================================================
