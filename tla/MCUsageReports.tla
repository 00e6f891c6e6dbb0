--------------------------- MODULE MCUsageReports ---------------------------
(* An instance of UsageReports for TLC: buckets of five minutes around the   *)
(* transitions of day 1, which is the last of a month, and the first hour of *)
(* day 2.                                                                    *)
EXTENDS UsageReports, TLC

At(hour, minute) == 12 * hour + minute \div 5

\* Kolkata; New York in spring, at 2:00; Havana in autumn, whose day has two
\* midnights; Lord Howe in spring, by half an hour at 2:00.
MCZones ==
  {[before |-> At(5, 30), after |-> At(5, 30), at |-> 0],
   [before |-> -At(5, 0), after |-> -At(4, 0), at |-> At(31, 0)],
   [before |-> -At(4, 0), after |-> -At(5, 0), at |-> At(29, 0)],
   [before |-> At(10, 30), after |-> At(11, 0), at |-> At(15, 30)]}
\* Two buckets of one hour, or of two where the offset is half an hour.
MCTimes == {At(29, 0), At(29, 35), At(52, 0)}
MCSymmetry == Permutations(Keys)
=============================================================================
