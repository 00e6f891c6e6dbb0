----------------------------- MODULE Admission -----------------------------
(***************************************************************************)
(* What stands between a request and its routing (internal/quota           *)
(* engine.go admit, request_content.go, content_filter.go, panel.go,       *)
(* access_schedule.go, ip_whitelist.go, routing.go).                       *)
(*                                                                         *)
(* CPA calls the plugin twice for a request.  Before authentication the    *)
(* content is scanned and the finding is kept in a bounded map under a     *)
(* capture ID; later the scheduler hands the ID back, and the gate claims  *)
(* the finding and takes the decision.  Policies and the content filter    *)
(* change between the two, and the finding can be lost.                    *)
(*                                                                         *)
(* Abstractions: a text is the set of filter terms that occur in it; a     *)
(* whitelist entry is the set of its addresses; a day has SlotsPerDay      *)
(* slots and a week Days days, in the policy's own time zone.  What the    *)
(* dollar budget (BudgetCycles), the rate card (RateSync), the store and   *)
(* the marker cycle answer is chosen by the environment.                   *)
(***************************************************************************)
EXTENDS FiniteSets, FiniteSetsExt, Functions, Integers, Sequences

CONSTANTS
  Requests, RequestOf,  \* a request: [hash, requested, rewritten, body, ip]
  Keys, Hashes,         \* policy IDs, and API Key fingerprints
  Edits,                \* quota settings an operator saves
  Whitelists,           \* [ips, ipOn] an operator saves
  Catalog,              \* the models of the synchronized CPA catalog
  Builtin,              \* the built-in terms of the content filter
  Submissions,          \* filter settings an operator saves
  Savers,               \* threads that save the content filter
  Environments,         \* what the rest of the system answers: [trouble, offer],
                        \* where the offer is CPA's list of candidates
  Days, SlotsPerDay,
  CaptureTTL,           \* capturedRequestContentTTL, in slots
  MaxCaptured,          \* maxCapturedRequestContent
  MaxPending,           \* maxPendingDecisionLogs, the bound on markers
  Seeds,                \* the policies that Open may find in the store
  None,
  Start, Clock,         \* bounds of the model: the slots the clock goes through
  MaxChanges            \* bound of the model: changes by operators

ASSUME AdmissionAssumption ==
  /\ None \notin Keys \cup Hashes
  /\ Start \subseteq Clock /\ Clock \subseteq Nat
  /\ \A r \in Requests : RequestOf[r].hash \in Hashes
  /\ \A w \in Whitelists : w.ipOn => w.ips # {}
  /\ \A s \in Submissions : s.active \subseteq s.listed
  /\ {Days, SlotsPerDay, MaxCaptured, MaxPending} \subseteq Nat \ {0}
  /\ MaxChanges \in Nat

NoWhitelist == [ips |-> {}, ipOn |-> FALSE]

\* A row of key_policies, and what the content filter keeps.
Policies ==
  [hash : Hashes, enabled : {e.enabled : e \in Edits}, disabled : {e.disabled : e \in Edits},
   rules : {e.rules : e \in Edits}, models : {e.models : e \in Edits},
   ips : {w.ips : w \in Whitelists \cup {NoWhitelist}},
   ipOn : {w.ipOn : w \in Whitelists \cup {NoWhitelist}}]
Filters ==
  [on : {s.on : s \in Submissions}, active : SUBSET (Builtin \cup UNION {s.active : s \in Submissions})]

\* What capturedRequestContent holds for a request.
Models  == UNION {{RequestOf[r].requested, RequestOf[r].rewritten} : r \in Requests}
Entries == [key : Keys, model : Models, read : Clock, match : BOOLEAN]

\* A rule opens and closes within a day, at different times (normalizeAccessRules).
ASSUME RuleAssumption ==
  \A e \in Edits : \A rule \in e.rules :
    /\ rule.days \subseteq 0 .. (Days - 1)
    /\ rule.start \in 0 .. (SlotsPerDay - 1) /\ rule.end \in 0 .. (SlotsPerDay - 1)
    /\ rule.start # rule.end

ASSUME RequestAssumption ==
  /\ None \notin Entries /\ CaptureTTL \in Nat
  /\ IsFiniteSet(Requests) /\ IsFiniteSet(Keys)
  /\ \A env \in Environments : env.offer \in Seq([id : Int, priority : Int])

\* No two policies have one fingerprint (key_sha256 is UNIQUE).
ASSUME SeedAssumption ==
  /\ None \notin Policies \cup Filters
  /\ Seeds \subseteq [Keys -> Policies \cup {None}]
  /\ \A seed \in Seeds, k, l \in Keys :
       k # l /\ seed[k] # None /\ seed[l] # None => seed[k].hash # seed[l].hash

VARIABLES
  now,
  byID,         \* engine.policiesByID: [Keys -> a policy or None]
  byHash,       \* engine.policiesByHash: [Hashes -> Keys \cup {None}]
  rows,         \* the table key_policies
  filter,       \* contentFilterSettings and its matcher
  stored,       \* the tables content_filter_settings and _terms
  save,         \* [Savers -> the settings a save has stored, or None]
  overlapped,   \* history: the saves in flight began before others had ended
  captured,     \* capturedRequestContent: [Requests -> an entry or None]
  lost,         \* history: requests whose finding was not kept until the gate
  pending,      \* engine.pendingRequests: markers by Key
  req,          \* [Requests -> where the request stands]
  answer,       \* the answer the last step gave, None if it gave none
  changes

policies == <<byID, byHash, rows>>
filters == <<filter, stored, save, overlapped>>
content == <<captured, lost>>
vars == <<now, policies, filters, content, pending, req, answer, changes>>

-----------------------------------------------------------------------------
(* What a body says: request_content.go.                                    *)

TextTypes == {"", "text", "input_text"}

FirstOf(text, other) == IF text # {} THEN text ELSE other

PartsText(m) ==
  UNION {m.parts[i].text : i \in {j \in DOMAIN m.parts : m.parts[j].type \in TextTypes}}

MessageText(m) ==
  FirstOf(m.content, IF m.text # {} /\ m.type \in TextTypes THEN m.text ELSE PartsText(m))

\* The text of the last message in which a speaker of these roles wrote any.
LastText(messages, roles) ==
  LET spoken == {i \in DOMAIN messages :
                   messages[i].role \in roles /\ MessageText(messages[i]) # {}}
  IN IF spoken = {} THEN {} ELSE MessageText(messages[Max(spoken)])

InputText(b) == FirstOf(b.input, LastText(b.items, {"", "user"}))

\* Of a form, and of a body over maxJSONRequestContentBytes, only the prompt.
RequestText(b) ==
  IF b.kind # "json" THEN b.prompt
  ELSE FirstOf(LastText(b.messages, {"user"}), FirstOf(InputText(b), b.prompt))

-----------------------------------------------------------------------------
(* The gates: content_filter.go, ip_whitelist.go, access_schedule.go.       *)

\* Built-in terms that a save leaves out come back enabled.
NormalizedFilter(s) == [on |-> s.on, active |-> s.active \cup (Builtin \ s.listed)]

InForce == IF filter.on THEN filter.active ELSE {}

\* A request without an address, or with a malformed one, is not in any list.
AllowsIP(p, ip) == p.ipOn => ip \in p.ips

SlotOf(t) == t % SlotsPerDay
WeekdayOf(t) == (t \div SlotsPerDay) % Days

\* Mutant: the tail of an overnight rule belongs to the day it falls on.
AllowsAtSameDay(p, t) ==
  p.rules = {} \/ \E rule \in p.rules :
    IF rule.start < rule.end
    THEN WeekdayOf(t) \in rule.days /\ SlotOf(t) \in rule.start .. rule.end - 1
    ELSE WeekdayOf(t) \in rule.days /\ SlotOf(t) \notin rule.end .. rule.start - 1

\* A rule whose end comes before its start spans midnight into the next day.
AllowsAt(p, t) ==
  LET previous == (WeekdayOf(t) + Days - 1) % Days
  IN p.rules = {} \/ \E rule \in p.rules :
       IF rule.start < rule.end
       THEN WeekdayOf(t) \in rule.days /\ SlotOf(t) \in rule.start .. rule.end - 1
       ELSE \/ WeekdayOf(t) \in rule.days /\ SlotOf(t) >= rule.start
            \/ previous \in rule.days /\ SlotOf(t) < rule.end

ModelAllowed(p, model) == p.models = {} \/ model \in p.models

\* The account the scheduler prefers: repeated accounts are dropped, the others
\* sorted by priority and then by account.
SelectCPACandidate(offer) ==
  LET choices == {offer[i] : i \in {j \in DOMAIN offer :
                    \A h \in 1 .. (j - 1) : offer[h].id # offer[j].id}}
  IN IF choices = {} THEN None
     ELSE (CHOOSE c \in choices : \A d \in choices :
             \/ c.priority < d.priority
             \/ c.priority = d.priority /\ c.id <= d.id).id

-----------------------------------------------------------------------------
Blank == [pc |-> "new", key |-> None, read |-> 0, at |-> 0, inforce |-> {}]

\* buildPolicyMaps
PolicyMap(policy) ==
  [h \in Hashes |->
     IF \E k \in Keys : policy[k] # None /\ policy[k].hash = h
     THEN CHOOSE k \in Keys : policy[k] # None /\ policy[k].hash = h ELSE None]

Init ==
  /\ now \in Start
  /\ rows \in Seeds
  /\ byID = rows
  /\ byHash = PolicyMap(byID)
  /\ filter = [on |-> TRUE, active |-> Builtin]
  /\ stored = filter
  /\ save = [s \in Savers |-> None]
  /\ overlapped = FALSE
  /\ captured = [r \in Requests |-> None]
  /\ lost = {}
  /\ pending = [k \in Keys |-> 0]
  /\ req = [r \in Requests |-> Blank]
  /\ answer = None
  /\ changes = 0

-----------------------------------------------------------------------------
(* CaptureRequestContent.                                                   *)

Step(r, pc) == [req EXCEPT ![r].pc = pc]

\* The interceptor reads the clock, and the Key under which the request will be
\* found; a body that says nothing, and an unmanaged Key, are not captured.
Lookup(r) ==
  /\ req[r].pc = "new"
  /\ LET k == byHash[RequestOf[r].hash]
     IN IF k = None \/ RequestText(RequestOf[r].body) = {}
        THEN req' = Step(r, "ready")
        ELSE req' = [req EXCEPT ![r].pc = "scan", ![r].key = k, ![r].read = now]
  /\ answer' = None
  /\ UNCHANGED <<now, policies, filters, content, pending, changes>>

\* The scan, under contentFilterMu: the terms that were in force decide.
Scan(r) ==
  /\ req[r].pc = "scan"
  /\ req' = [req EXCEPT ![r].pc = "insert", ![r].inforce = InForce]
  /\ answer' = None
  /\ UNCHANGED <<now, policies, filters, content, pending, changes>>

\* The entries older than CaptureTTL at t.
Expired(t) == {r \in Requests : captured[r] # None /\ captured[r].read + CaptureTTL < t}

Without(map, out) == [r \in Requests |-> IF r \in out THEN None ELSE map[r]]

Size(map) == Cardinality({r \in Requests : map[r] # None})

Full(map) == Size(map) >= MaxCaptured

\* The finding is kept, unless the map is full: then there is no capture ID.
Insert(r) ==
  /\ req[r].pc = "insert"
  /\ LET kept == Without(captured, Expired(req[r].read))
         entry == [key |-> req[r].key, model |-> RequestOf[r].requested, read |-> req[r].read,
                   match |-> RequestText(RequestOf[r].body) \cap req[r].inforce # {}]
     IN /\ captured' = IF Full(kept) THEN kept ELSE [kept EXCEPT ![r] = entry]
        /\ lost' = lost \cup Expired(req[r].read) \cup (IF Full(kept) THEN {r} ELSE {})
  /\ req' = Step(r, "ready")
  /\ answer' = None
  /\ UNCHANGED <<now, policies, filters, pending, changes>>

-----------------------------------------------------------------------------
(* pickAuth and admit.                                                      *)

\* pickAuth reads the clock before the gate waits for adminMu.
Pick(r) ==
  /\ req[r].pc = "ready"
  /\ req' = [req EXCEPT ![r].pc = "gate", ![r].at = now]
  /\ answer' = None
  /\ UNCHANGED <<now, policies, filters, content, pending, changes>>

Markers == SumFunctionOnSet(pending, Keys)

\* The gates in their order and the refusal of each: whether a request under
\* policy p fails it, given the finding it claimed and the model it is judged by.
Gates(p, found, model, r, env) ==
  << [code |-> "key_disabled", fails |-> p.disabled],
     [code |-> "ip_not_allowed", fails |-> ~AllowsIP(p, RequestOf[r].ip)],
     [code |-> "content_forbidden", fails |-> found # None /\ found.match],
     [code |-> "access_schedule_closed", fails |-> ~AllowsAt(p, req[r].at)],
     [code |-> "model_not_allowed", fails |-> ~ModelAllowed(p, model)],
     [code |-> "model_rate_not_configured", fails |-> env.trouble = "unrated"],
     [code |-> "key_dollar_budget_exhausted", fails |-> p.enabled /\ env.trouble = "spent"],
     [code |-> "quota_persistence_unavailable", fails |-> env.trouble = "degraded"],
     [code |-> "quota_scheduler_candidates_required",
      fails |-> p.enabled /\ SelectCPACandidate(env.offer) = None],
     [code |-> "quota_persistence_unavailable", fails |-> Markers >= MaxPending],
     [code |-> "quota_persistence_unavailable", fails |-> env.trouble = "cycle"] >>

Refusals(gates) == {i \in DOMAIN gates : gates[i].fails}

\* A refusal, or the answer that the Key is not managed.
End(r, code) ==
  /\ answer' = [req |-> r, code |-> code, auth |-> None]
  /\ req' = [req EXCEPT ![r] = [Blank EXCEPT !.pc = "done"]]
  /\ UNCHANGED pending

\* A track-only Key is routed by CPA itself.
Route(r, k, env) ==
  /\ answer' = IF byID[k].enabled
               THEN [req |-> r, code |-> "allowed", auth |-> SelectCPACandidate(env.offer)]
               ELSE [req |-> r, code |-> "tracked", auth |-> None]
  /\ req' = [req EXCEPT ![r] = [Blank EXCEPT !.pc = "routed"]]
  /\ pending' = [pending EXCEPT ![k] = @ + 1]

\* admit, under adminMu.RLock.  The finding is claimed once, and only by the Key
\* it was captured for; with it comes the model the client asked for.
Gate(r) ==
  /\ req[r].pc = "gate"
  /\ LET k == byHash[RequestOf[r].hash]
         kept == Without(captured, Expired(req[r].at))
         found == IF kept[r] # None /\ kept[r].key = k THEN kept[r] ELSE None
         model == IF found # None THEN found.model ELSE RequestOf[r].rewritten
     IN IF k = None THEN End(r, "bypass") /\ UNCHANGED content
        ELSE /\ captured' = [kept EXCEPT ![r] = None]
             /\ lost' = lost \cup (Expired(req[r].at) \ {r})
             /\ \E env \in Environments :
                  LET gates == Gates(byID[k], found, model, r, env)
                      refusals == Refusals(gates)
                  IN IF refusals = {} THEN Route(r, k, env)
                     ELSE End(r, gates[Min(refusals)].code)
  /\ UNCHANGED <<now, policies, filters, changes>>

\* CPA asks for another account with the same headers when one has failed.
Retry(r) ==
  /\ req[r].pc = "routed"
  /\ req' = Step(r, "ready")
  /\ answer' = None
  /\ UNCHANGED <<now, policies, filters, content, pending, changes>>

\* A callback takes a marker, or one expires.
Settle(k) ==
  /\ pending[k] > 0
  /\ pending' = [pending EXCEPT ![k] = @ - 1]
  /\ answer' = None
  /\ UNCHANGED <<now, policies, filters, content, req, changes>>

Tick ==
  /\ now + 1 \in Clock
  /\ now' = now + 1
  /\ answer' = None
  /\ UNCHANGED <<policies, filters, content, pending, req, changes>>

-----------------------------------------------------------------------------
(* Policies: panel.go, under adminMu.  A change that is refused, or whose   *)
(* write fails, leaves everything as it was.                                *)

Change == changes < MaxChanges /\ changes' = changes + 1 /\ answer' = None

\* What a save makes of policy k.  Without a Key it keeps the fingerprint, and
\* without a whitelist the whitelist, which is edited elsewhere.
Edited(k, raw, edit, list) ==
  LET old == byID[k]
      hash == IF raw = None /\ old # None THEN old.hash ELSE raw
      white == IF list # None THEN list ELSE IF old # None THEN old ELSE NoWhitelist
  IN [hash |-> hash, enabled |-> edit.enabled, disabled |-> edit.disabled,
      rules |-> edit.rules, models |-> edit.models, ips |-> white.ips, ipOn |-> white.ipOn]

\* Mutant: the fingerprint that k had before stays bound.
BoundOver(k, hash) == [byHash EXCEPT ![hash] = k]

Bound(k, hash) ==
  [h \in Hashes |-> IF h = hash THEN k ELSE IF byHash[h] = k THEN None ELSE byHash[h]]

\* Refused: no fingerprint, a model that CPA does not offer (unless the Key is
\* disabled), another fingerprint while markers wait, a fingerprint of another.
UpsertPolicy(k, raw, edit, list) ==
  /\ Change
  /\ LET p == Edited(k, raw, edit, list)
     IN /\ p.hash # None
        /\ p.disabled \/ p.models \subseteq Catalog
        /\ byID[k] # None /\ byID[k].hash # p.hash => pending[k] = 0
        /\ byHash[p.hash] \in {None, k}
        /\ rows' = [rows EXCEPT ![k] = p]
        /\ byID' = [byID EXCEPT ![k] = p]
        /\ byHash' = Bound(k, p.hash)
  /\ UNCHANGED <<now, filters, content, pending, req>>

UpdatePolicyIPWhitelist(k, list) ==
  /\ byID[k] # None
  /\ Change
  /\ LET p == [byID[k] EXCEPT !.ips = list.ips, !.ipOn = list.ipOn]
     IN /\ rows' = [rows EXCEPT ![k] = p]
        /\ byID' = [byID EXCEPT ![k] = p]
  /\ UNCHANGED <<now, byHash, filters, content, pending, req>>

\* The markers of a Key and the findings captured for it are dropped.
DiscardKeyAccounting(k) ==
  LET mine == {r \in Requests : captured[r] # None /\ captured[r].key = k}
  IN /\ pending' = [pending EXCEPT ![k] = 0]
     /\ captured' = Without(captured, mine)
     /\ lost' = lost \cup mine

ResetPolicyUsage(k) ==
  /\ byID[k] # None
  /\ Change
  /\ DiscardKeyAccounting(k)
  /\ UNCHANGED <<now, policies, filters, req>>

DeletePolicy(k) ==
  /\ byID[k] # None
  /\ Change
  /\ rows' = [rows EXCEPT ![k] = None]
  /\ byID' = [byID EXCEPT ![k] = None]
  /\ byHash' = [byHash EXCEPT ![byID[k].hash] = None]
  /\ DiscardKeyAccounting(k)
  /\ UNCHANGED <<now, filters, req>>

-----------------------------------------------------------------------------
(* ConfigureContentFilter: the store first, then memory, and no lock over   *)
(* the two.                                                                 *)

InFlight == {s \in Savers : save[s] # None}

\* Mutant: the transaction is not committed.
StoreFilterLost(s, settings) ==
  /\ save[s] = None
  /\ Change
  /\ save' = [save EXCEPT ![s] = NormalizedFilter(settings)]
  /\ overlapped' = (InFlight # {})
  /\ UNCHANGED <<now, policies, filter, stored, content, pending, req>>

StoreFilter(s, settings) ==
  /\ save[s] = None
  /\ Change
  /\ save' = [save EXCEPT ![s] = NormalizedFilter(settings)]
  /\ stored' = NormalizedFilter(settings)
  /\ overlapped' = (InFlight # {})
  /\ UNCHANGED <<now, policies, filter, content, pending, req>>

ApplyFilter(s) ==
  /\ save[s] # None
  /\ filter' = save[s]
  /\ save' = [save EXCEPT ![s] = None]
  /\ answer' = None
  /\ UNCHANGED <<now, policies, stored, overlapped, content, pending, req, changes>>

Next ==
  \/ \E r \in Requests : Lookup(r) \/ Scan(r) \/ Insert(r) \/ Pick(r) \/ Gate(r) \/ Retry(r)
  \/ \E k \in Keys :
       \/ Settle(k) \/ ResetPolicyUsage(k) \/ DeletePolicy(k)
       \/ \E list \in Whitelists : UpdatePolicyIPWhitelist(k, list)
       \/ \E raw \in Hashes \cup {None}, edit \in Edits, list \in Whitelists \cup {None} :
            UpsertPolicy(k, raw, edit, list)
  \/ \E s \in Savers : ApplyFilter(s) \/ \E settings \in Submissions : StoreFilter(s, settings)
  \/ Tick

Spec == Init /\ [][Next]_vars

-----------------------------------------------------------------------------
\* Every variable has its type; the map of findings and the markers are bounded.
TypeOK ==
  /\ now \in Nat /\ changes \in 0 .. MaxChanges
  /\ byID \in [Keys -> Policies \cup {None}]
  /\ byHash \in [Hashes -> Keys \cup {None}]
  /\ lost \subseteq Requests
  /\ \A r \in Requests :
       /\ req[r].pc \in {"new", "scan", "insert", "ready", "gate", "routed", "done"}
       /\ captured[r] # None => captured[r].key \in Keys /\ captured[r].model \in Models
  /\ Size(captured) <= MaxCaptured
  /\ Markers <= MaxPending

\* A request finds the policy that its Key is bound to in the store, and no
\* other: policiesByHash is the inverse of policiesByID, and both are what
\* key_policies holds, whatever was edited, rebound and deleted.
MapsAgree ==
  /\ byID = rows
  /\ \A h \in Hashes, k \in Keys : byHash[h] = k <=> byID[k] # None /\ byID[k].hash = h

\* The filter in force is the one that a restart would load, once the saves have
\* ended (ConfigureContentFilter has no lock over its two steps: saves that
\* overlap may leave the older one in memory).
FilterStored == InFlight = {} /\ ~overlapped => filter = stored

\* The schedule, read as intervals: a rule opens at its start on each of its
\* days and stays open until its end comes.
InSchedule(p, t) ==
  LET week == Days * SlotsPerDay
      opens(rule) == {day * SlotsPerDay + rule.start : day \in rule.days}
      length(rule) == (rule.end + SlotsPerDay - rule.start) % SlotsPerDay
  IN p.rules = {} \/ \E rule \in p.rules : \E o \in opens(rule) :
       (t + week - o) % week < length(rule)

\* The finding of r was kept for the gate: captured for the Key that the gate
\* finds, not crowded out, discarded or outlived.
Kept(r) ==
  /\ r \notin lost
  /\ req[r].key # None /\ req[r].key = byHash[RequestOf[r].hash]
  /\ req[r].at <= req[r].read + CaptureTTL

\* What the user said last is known of the request beforehand.
Forbidden(r) == Kept(r) /\ RequestOf[r].says \cap req[r].inforce # {}
Judged(r) == IF Kept(r) THEN RequestOf[r].requested ELSE RequestOf[r].rewritten

\* No account of the offer comes before this one, at the place where each is
\* named first.
Preferred(offer, auth) ==
  LET first == {i \in DOMAIN offer : \A h \in 1 .. (i - 1) : offer[h].id # offer[i].id}
  IN \E i \in first :
       /\ offer[i].id = auth
       /\ \A j \in first : \/ offer[i].priority < offer[j].priority
                           \/ offer[i].priority = offer[j].priority /\ auth <= offer[j].id

Fair(r, p, a) ==
  LET open == ~p.disabled /\ (p.ipOn => RequestOf[r].ip \in p.ips)
  IN CASE a.code = "bypass" -> FALSE
       [] a.code = "key_disabled" -> p.disabled
       [] a.code = "ip_not_allowed" -> ~open
       [] a.code = "content_forbidden" -> open /\ Forbidden(r)
       [] a.code = "access_schedule_closed" -> open /\ ~Forbidden(r) /\ ~InSchedule(p, req[r].at)
       [] OTHER -> /\ open /\ ~Forbidden(r) /\ InSchedule(p, req[r].at)
                   /\ a.code # "model_not_allowed" <=> p.models = {} \/ Judged(r) \in p.models
                   /\ a.code \in {"key_dollar_budget_exhausted", "allowed"} => p.enabled
                   /\ a.code = "allowed" => \E env \in Environments : Preferred(env.offer, a.auth)

\* Every answer of the gate is the one its policy asks for: a request is routed
\* only inside its schedule, from its whitelist, for the model the client asked
\* for, and with a text that the filter in force at the scan did not match; and
\* a refusal names the first of these that fails.  What the scan found is missed
\* only if the finding was not kept (Kept).
AnswersAreJust ==
  [][\A r \in Requests : answer' # None /\ answer'.req = r /\ req[r].pc = "gate" =>
       LET k == byHash[RequestOf[r].hash]
       IN IF k = None THEN answer'.code = "bypass" ELSE Fair(r, rows[k], answer')]_vars

=============================================================================
