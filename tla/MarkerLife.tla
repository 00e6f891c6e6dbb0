----------------------------- MODULE MarkerLife -----------------------------
(***************************************************************************)
(* What the callback markers of codex-carpool promise, without lists,      *)
(* rows, checkpoints, clocks or accounts: a request that is admitted       *)
(* leaves a marker, the marker waits, over any number of restarts, and is  *)
(* then used by one callback or given up; neither lets it wait again.  A   *)
(* marker may also come into doubt, and then nothing is promised of it.    *)
(***************************************************************************)


CONSTANT Markers

VARIABLES
  waiting,      \* what a callback will find, now or after a restart
  used,
  dropped,      \* given up
  doubtful

vars == <<waiting, used, dropped, doubtful>>

Init == waiting = {} /\ used = {} /\ dropped = {} /\ doubtful = {}

\* A new marker; those it finds too old are given up.
Leave(m, old) ==
  /\ m \notin waiting \cup used \cup dropped \cup doubtful
  /\ old \subseteq waiting
  /\ waiting' = (waiting \ old) \cup {m}
  /\ dropped' = dropped \cup old
  /\ UNCHANGED <<used, doubtful>>

Use(m) ==
  /\ m \in waiting
  /\ waiting' = waiting \ {m}
  /\ used' = used \cup {m}
  /\ UNCHANGED <<dropped, doubtful>>

Drop(gone) ==
  /\ gone \subseteq waiting
  /\ waiting' = waiting \ gone
  /\ dropped' = dropped \cup gone
  /\ UNCHANGED <<used, doubtful>>

Doubt(gone) ==
  /\ gone \subseteq waiting
  /\ waiting' = waiting \ gone
  /\ doubtful' = doubtful \cup gone
  /\ UNCHANGED <<used, dropped>>

Next ==
  \/ \E m \in Markers : Use(m) \/ \E old \in SUBSET waiting : Leave(m, old)
  \/ \E gone \in SUBSET waiting : Drop(gone) \/ Doubt(gone)

Spec == Init /\ [][Next]_vars
=============================================================================
