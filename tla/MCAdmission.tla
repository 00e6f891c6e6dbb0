---------------------------- MODULE MCAdmission ----------------------------
(* An instance of Admission for TLC. *)
EXTENDS Admission, TLC

Said(role, text) ==
  [role |-> role, type |-> "", content |-> text, text |-> {}, parts |-> <<>>]
SaidInParts(role, text) ==
  [role |-> role, type |-> "", content |-> {}, text |-> {},
   parts |-> <<[type |-> "image_url", text |-> {"c"}], [type |-> "text", text |-> text]>>]
Json(messages, items) ==
  [kind |-> "json", messages |-> messages, input |-> {}, items |-> items, prompt |-> {"c"}]

\* r1 is a chat whose last user turn, in parts, has a term of the filter in it;
\* r2 is a list of input items whose last one does not.
MCRequestOf ==
  "r1" :> [hash |-> "h1", requested |-> "m1", rewritten |-> "m2", ip |-> "a1", says |-> {"b"},
           body |-> Json(<<Said("user", {"x"}), SaidInParts("user", {"b"}),
                           Said("assistant", {"c"})>>, <<>>)] @@
  "r2" :> [hash |-> "h2", requested |-> "m2", rewritten |-> "m2", ip |-> "none", says |-> {"x"},
           body |-> Json(<<>>, <<Said("", {"c"}), Said("user", {"x"}), Said("developer", {"b"})>>)]

\* Enforced, with an overnight rule at the end of the week; track-only, with a
\* daytime rule and for one model; disabled.
Night ==
  [enabled |-> TRUE, disabled |-> FALSE, models |-> {},
   rules |-> {[days |-> {2}, start |-> 2, end |-> 1]}]
MCEdits ==
  {Night,
   [enabled |-> FALSE, disabled |-> FALSE, models |-> {"m1"},
    rules |-> {[days |-> {2}, start |-> 2, end |-> 1], [days |-> {0}, start |-> 1, end |-> 2]}],
   [enabled |-> TRUE, disabled |-> TRUE, models |-> {"m3"}, rules |-> {}]}

MCWhitelists == {[ips |-> {"a1"}, ipOn |-> TRUE]}

Seed == [hash |-> "h1", ips |-> {}, ipOn |-> FALSE] @@ Night
MCSeeds == {"k1" :> Seed @@ "k2" :> None}

\* Omits the built-in term b; disables it.
MCSubmissions ==
  {[on |-> TRUE, listed |-> {"c"}, active |-> {"c"}],
   [on |-> TRUE, listed |-> {"b"}, active |-> {}]}

\* One trouble at a time; of the accounts offered, one twice.
Offer == <<[id |-> 2, priority |-> 1], [id |-> 1, priority |-> 1], [id |-> 2, priority |-> 0]>>
MCEnvironments ==
  [trouble : {"none", "unrated", "spent", "degraded", "cycle"}, offer : {Offer}]
    \cup {[trouble |-> "none", offer |-> <<>>]}

MCSymmetry == Permutations(Savers)

MCStart == {8}
MCClock == 8 .. 10
=============================================================================
