------------------------------ MODULE Pricing ------------------------------
(***************************************************************************)
(* What a request costs (internal/quota/billing.go, models_dev.go,         *)
(* engine.go, store_models.go, store_pending.go).                          *)
(*                                                                         *)
(* A rate has base prices, tiers for long contexts and modes for service   *)
(* tiers.  A request is admitted with the rate of its model and keeps it;  *)
(* when its callback comes, the token counts of the callback are brought   *)
(* into disjoint buckets by the convention of the provider and priced.     *)
(*                                                                         *)
(* Abstractions: one model and one request; a price is in units of which   *)
(* Unit make a token cost one micro-dollar, an amount saturates at MaxInt; *)
(* the words in which a provider, an executor or a model name is           *)
(* recognized are model values.  The floating-point products of the code   *)
(* are exact here, as they are below 2^53.                                 *)
(***************************************************************************)
EXTENDS FiniteSets, FiniteSetsExt, Integers, Sequences

CONSTANTS
  Rates,        \* rates that an operator sets
  Catalog,      \* what models.dev offers for the model
  Origins,      \* [provider, executor, model, convention] of a callback
  Services,     \* service tiers of a callback
  Uses,         \* tokens really used: [fresh, read, write, reasoning, visible]
  Hidings,      \* the sets of numbers that a callback may leave out
  Odd,          \* callbacks that contradict themselves or saturate
  Unit, MaxInt, \* 1,000,000 and math.MaxInt64
  LegacySize,   \* the size of the legacy tier, 200,000
  Absent,       \* no rate, or no price
  MaxReloads    \* bound of the model

ASSUME PricingAssumption ==
  /\ Unit \in Nat \ {0} /\ MaxInt \in Nat \ {0} /\ LegacySize \in Nat \ {0}
  /\ MaxReloads \in Nat

\* Prices are not negative: normalizeModelRate refuses a rate that has such a one.
Parts      == {"input", "read", "write", "reasoning", "output"}
RatePrices == [input : Nat, read : Nat, write : Nat, reasoning : Nat, output : Nat,
               byOutput : BOOLEAN]
Offers     == [Parts -> Nat \cup {Absent}]
Tier       == [over : Nat, prices : RatePrices]

\* The tiers come as a set, of which normalizeModelRate makes a list.
ASSUME RateAssumption ==
  /\ \A rate \in Rates :
       /\ rate \in [prices : RatePrices, tiers : SUBSET Tier,
                   modes : Seq([service : STRING, prices : RatePrices])]
       /\ IsFiniteSet(rate.tiers)
  /\ \A entry \in Catalog :
       /\ entry \in [prices : Offers, tiers : SUBSET [over : Int, prices : Offers],
                    legacy : Offers \cup {Absent},
                    modes : Seq([service : STRING, prices : Offers \cup {Absent}])]
       /\ IsFiniteSet(entry.tiers)

\* An integer of a callback may have any sign, and 63 bits.
ASSUME CallbackAssumption ==
  /\ Odd \subseteq [origin : Origins, service : STRING, generate : BOOLEAN, input : Int,
                   output : Int, reasoning : Int, cached : Int, read : Int, write : Int,
                   total : Int]
  /\ \A use \in Uses :
       /\ use \in [fresh : Nat, read : Nat, write : Nat, reasoning : Nat, visible : Nat]
       /\ use.fresh + use.read + use.write + use.reasoning + use.visible <= MaxInt

\* A callback that does not tell its total is complete otherwise: the code knows
\* nothing of a token that neither a bucket nor the total has.
ASSUME HidingAssumption ==
  \A hid \in Hidings :
    /\ hid \subseteq {"total", "input", "output", "reasoning"}
    /\ "total" \in hid => hid = {"total"}

VARIABLES
  modelRate,    \* engine.modelRates: the rate of the model, or Absent
  profile,      \* the row of model_rates
  marker,       \* the rate in the marker of the request, or Absent
  settled,      \* what the callback was charged, or Absent
  asSet,        \* history: the rate as it was set before any restart
  agreed,       \* history: asSet when the request was admitted
  waived,       \* history: the budget was reached at the admission
  reloads

priceVars == <<modelRate, profile, marker, settled, asSet, agreed, waived, reloads>>

-----------------------------------------------------------------------------
(* Numbers.                                                                 *)

Positive(n) == IF n > 0 THEN n ELSE 0

\* nonNegativeTokenSum
Sum(m, n) ==
  IF Positive(m) > MaxInt - Positive(n) THEN MaxInt ELSE Positive(m) + Positive(n)

\* math.Round(tokens * price / Unit)
Rounded(tokens, price) == (2 * tokens * price + Unit) \div (2 * Unit)

-----------------------------------------------------------------------------
(* Rates.                                                                   *)

\* normalizeModelRate sorts the tiers; sort.Slice leaves equals in any order.
Normalized(rate) ==
  {[rate EXCEPT !.tiers = tiers] :
     tiers \in {list \in [1 .. Cardinality(rate.tiers) -> rate.tiers] :
                 /\ \A tier \in rate.tiers : \E i \in DOMAIN list : list[i] = tier
                 /\ \A i, j \in DOMAIN list : i < j => list[i].over <= list[j].over}}

\* A price that models.dev leaves out is the base one, and reasoning without
\* one of its own is output.
Inherited(part, base) ==
  LET price(p) == IF part[p] # Absent THEN part[p] ELSE IF base[p] # Absent THEN base[p] ELSE 0
  IN [input |-> price("input"), read |-> price("read"), write |-> price("write"),
      reasoning |-> price("reasoning"), output |-> price("output"),
      byOutput |-> part["reasoning"] = Absent /\ base["reasoning"] = Absent]

Priced(part) == part # Absent /\ part["input"] # Absent /\ part["output"] # Absent

\* modelRateFromModelsDev: tiers without a size, and modes without prices or a
\* service tier, are left out; the modes come in the order of their names.
FromModelsDev(entry) ==
  LET sized == {tier \in entry.tiers : tier.over > 0}
      legacy == IF Priced(entry.legacy) THEN {[over |-> LegacySize, prices |-> entry.legacy]}
                ELSE {}
      named == {i \in DOMAIN entry.modes :
                  entry.modes[i].service # "" /\ Priced(entry.modes[i].prices)}
  IN [prices |-> Inherited(entry.prices, entry.prices),
      tiers |-> {[over |-> tier.over, prices |-> Inherited(tier.prices, entry.prices)] :
                   tier \in sized \cup legacy},
      modes |-> [i \in named |-> [service |-> entry.modes[i].service,
                                 prices |-> Inherited(entry.modes[i].prices, entry.prices)]]]

\* A rate read back from its JSON: false is left out there (omitempty), and what
\* it is read into (rateFromStored) has true.
Reloaded(rate) == [rate EXCEPT !.prices = [@ EXCEPT !.byOutput = TRUE]]

Paid(prices) ==
  \E part \in Parts : prices[part] > 0

\* modelRateHasCost
HasCost(rate) ==
  \/ Paid(rate.prices)
  \/ \E i \in DOMAIN rate.tiers : Paid(rate.tiers[i].prices)
  \/ \E i \in DOMAIN rate.modes : Paid(rate.modes[i].prices)

-----------------------------------------------------------------------------
(* The buckets of a callback.                                               *)

\* usageBucketSemanticsFor: "subset" counts reasoning within output and cached
\* within input, "separate" only cached within input, "independent" neither.
Semantics(o) ==
  LET names == IF o.provider = "" /\ o.executor = "" THEN {o.model} ELSE {o.provider, o.executor}
  IN CASE "compat" \in {o.provider, o.executor} -> "subset"
       [] "claude" \in names -> "independent"
       [] "gemini" \in names -> "separate"
       [] "openai" \in names -> "subset"
       [] OTHER -> "unknown"

\* normalizedBillableUsage
Billable(c) ==
  LET how == Semantics(c.origin)
      split == Positive(c.read) # 0 \/ Positive(c.write) # 0
      read == IF split THEN Positive(c.read) ELSE Positive(c.cached)
      cached == Sum(read, c.write)
      output == Positive(c.output)
      reasoning == CASE how \in {"separate", "independent"} -> Positive(c.reasoning)
                     [] how = "subset" -> Min({Positive(c.reasoning), output})
                     [] OTHER -> 0
  IN [input |-> IF how = "independent" THEN Positive(c.input)
                ELSE Positive(Positive(c.input) - cached),
      read |-> read, write |-> Positive(c.write), cached |-> cached, reasoning |-> reasoning,
      output |-> IF how = "subset" THEN output - reasoning ELSE output]

NoTokens == [input |-> 0, read |-> 0, write |-> 0, cached |-> 0, reasoning |-> 0, output |-> 0]

Context(t) == Sum(t.input, t.cached)

\* usageBreakdownTotal
Accounted(t) == Sum(Sum(Context(t), t.reasoning), t.output)

\* completedUsageUnits
Units(c) ==
  CASE ~c.generate -> 0
    [] c.generate /\ c.total > 0 -> c.total
    [] OTHER -> Accounted(Billable(c))

\* usageBucketsContradict
Contradicts(c, t) ==
  \/ Semantics(c.origin) \in {"subset", "separate"} /\ t.cached > Positive(c.input)
  \/ Semantics(c.origin) = "subset" /\ c.reasoning > c.output

\* What is assumed of providers: one whose words the code takes for those of a
\* convention counts in that convention.
ASSUME ConventionAssumption ==
  \A o \in Origins : o.convention = Semantics(o)

-----------------------------------------------------------------------------
(* Their prices.                                                            *)

\* rateForCompletedUsage: the last tier reached, then the first mode that has
\* the service tier; an automatic one has none.
RateFor(rate, service, context) ==
  LET reached == {i \in DOMAIN rate.tiers : context >= rate.tiers[i].over}
      modes == {i \in DOMAIN rate.modes : service # "auto" /\ rate.modes[i].service = service}
  IN CASE modes # {} -> rate.modes[Min(modes)].prices
       [] modes = {} /\ reached # {} -> rate.tiers[Max(reached)].prices
       [] OTHER -> rate.prices

NoCost == [input |-> 0, read |-> 0, write |-> 0, cached |-> 0, reasoning |-> 0, output |-> 0,
           total |-> 0]

\* One part added to a cost.  Once the total is MaxInt nothing more is added.
Add(cost, part, tokens, price) ==
  CASE cost.total = MaxInt \/ tokens <= 0 \/ price <= 0 -> cost
    [] cost.total < MaxInt /\ tokens * price >= (MaxInt - cost.total) * Unit ->
         [cost EXCEPT ![part] = MaxInt, !.total = MaxInt]
    [] OTHER -> [cost EXCEPT ![part] = Rounded(tokens, price), !.total = @ + Rounded(tokens, price)]

\* costBreakdownFromBillableMicros
Cost(prices, t) ==
  LET input == Add(NoCost, "input", t.input, prices.input)
      read == Add(input, "read", t.read, prices.read)
      write == Add(read, "write", t.write, prices.write)
      reasoning == Add(write, "reasoning", t.reasoning,
                       IF prices.byOutput THEN prices.output ELSE prices.reasoning)
      cost == Add(reasoning, "output", t.output, prices.output)
  IN [cost EXCEPT !.cached = Sum(cost.read, cost.write)]

\* Mutant: only the last tier that may be reached is looked at.
AmbiguousAtTheEnd(rate, c, t, missing, known) ==
  missing > 0 /\ Cost(RateFor(rate, c.service, Sum(Context(t), missing)), t) # known

\* partialUsageRateAmbiguous: if some of the missing tokens were input, a tier
\* would be reached that prices the known ones differently.
Ambiguous(rate, c, t, missing, known) ==
  /\ missing > 0
  /\ \E i \in DOMAIN rate.tiers :
       LET over == rate.tiers[i].over
       IN /\ over > Context(t) /\ over <= Sum(Context(t), missing)
          /\ Cost(RateFor(rate, c.service, over), t) # known

\* Mutant: buckets that hold more than the total are priced.
PricedWhateverTotal(rate, c, units) ==
  LET t == Billable(c)
  IN IF Contradicts(c, t) THEN [cost |-> NoCost, tokens |-> NoTokens, reason |-> "unpriced"]
     ELSE [cost |-> Cost(RateFor(rate, c.service, Context(t)), t), tokens |-> t, reason |-> ""]

\* pricedUsageForTotal
PricedUsage(rate, c, units) ==
  LET t == Billable(c)
      cost == Cost(RateFor(rate, c.service, Context(t)), t)
      missing == units - Accounted(t)
  IN CASE Contradicts(c, t) \/ missing < 0 ->
            [cost |-> NoCost, tokens |-> NoTokens, reason |-> "unpriced"]
       [] ~Contradicts(c, t) /\ missing = 0 -> [cost |-> cost, tokens |-> t, reason |-> ""]
       [] ~Contradicts(c, t) /\ missing > 0 /\ Ambiguous(rate, c, t, missing, cost) ->
            [cost |-> NoCost, tokens |-> t, reason |-> "tier"]
       [] OTHER -> [cost |-> cost, tokens |-> t, reason |-> "unpriced"]

\* What RecordUsage charges, logs and stores; reasoning is shown as output.
Settlement(rate, c) ==
  LET units == Units(c)
      priced == IF units > 0 THEN PricedUsage(rate, c, units)
                ELSE [cost |-> NoCost, tokens |-> Billable(c), reason |-> ""]
      tokens == priced.tokens
      cost == priced.cost
  IN [units |-> units, reason |-> priced.reason,
      tokens |-> [tokens EXCEPT !.output = Sum(@, tokens.reasoning)],
      cost |-> [cost EXCEPT !.output = Sum(@, cost.reasoning)]]

-----------------------------------------------------------------------------
PriceInit ==
  /\ modelRate = Absent /\ profile = Absent /\ marker = Absent /\ settled = Absent
  /\ asSet = Absent /\ agreed = Absent /\ waived = FALSE /\ reloads = 0

SetRate(rate) ==
  /\ settled = Absent
  /\ modelRate' = rate /\ profile' = rate /\ asSet' = rate
  /\ UNCHANGED <<marker, settled, agreed, waived, reloads>>

ReplaceRate == \E set \in Rates : \E rate \in Normalized(set) : SetRate(rate)

SyncModelRates ==
  \E entry \in Catalog :
    /\ Priced(entry.prices)
    /\ \E rate \in Normalized(FromModelsDev(entry)) : SetRate(rate)

\* A model without a rate is refused, and so is one with a price when the budget
\* has been reached.
Admit ==
  /\ marker = Absent /\ settled = Absent /\ modelRate # Absent
  /\ \E reached \in BOOLEAN :
       /\ ~(reached /\ HasCost(modelRate))
       /\ waived' = reached
  /\ marker' = modelRate /\ agreed' = asSet
  /\ UNCHANGED <<modelRate, profile, settled, asSet, reloads>>

\* The card and a checkpointed marker are read back.
Reload ==
  /\ settled = Absent /\ reloads < MaxReloads
  /\ reloads' = reloads + 1
  /\ modelRate' = IF profile = Absent THEN Absent ELSE Reloaded(profile)
  /\ marker' = IF marker = Absent THEN Absent ELSE Reloaded(marker)
  /\ UNCHANGED <<profile, settled, asSet, agreed, waived>>

\* How a provider counts what was used; caches may come in one number, and the
\* numbers in hid are left out.
Report(use, o, service, lump, hid) ==
  LET context == use.fresh + use.read + use.write
      output == IF o.convention = "subset" THEN use.visible + use.reasoning ELSE use.visible
      full == [origin |-> o, service |-> service, generate |-> TRUE,
               input |-> IF o.convention = "independent" THEN use.fresh ELSE context,
               read |-> IF lump THEN 0 ELSE use.read, write |-> IF lump THEN 0 ELSE use.write,
               cached |-> use.read + use.write, reasoning |-> use.reasoning, output |-> output,
               total |-> context + use.visible + use.reasoning]
  IN [callback |-> [f \in DOMAIN full |-> IF f \in hid THEN 0 ELSE full[f]],
      use |-> use, hid |-> hid]

\* The callbacks of true uses.  A provider that counts reasoning within output
\* has no field of its own to leave out.
Reports ==
  {Report(x[1], x[2], x[3], x[4], x[5]) :
     x \in {y \in Uses \X Origins \X Services \X BOOLEAN \X Hidings :
              /\ y[2].convention = "unknown" => y[1].reasoning = 0
              /\ y[4] => y[1].write = 0
              /\ "reasoning" \in y[5] => y[2].convention # "subset"}}

OddReports == {[callback |-> c, use |-> Absent, hid |-> {}] : c \in Odd}

RecordUsage(report) ==
  /\ marker # Absent
  /\ settled' = [s |-> Settlement(marker, report.callback), report |-> report]
  /\ marker' = Absent
  /\ UNCHANGED <<modelRate, profile, asSet, agreed, waived, reloads>>

PriceNext ==
  \/ ReplaceRate \/ SyncModelRates \/ Admit \/ Reload
  \/ \E report \in Reports \cup OddReports : RecordUsage(report)

PriceSpec == PriceInit /\ [][PriceNext]_priceVars

-----------------------------------------------------------------------------
\* The tokens of a use that its callback names.
Known(use, o, hid) ==
  [use EXCEPT !.fresh = IF "input" \in hid THEN 0 ELSE @,
              !.visible = IF "output" \in hid THEN 0 ELSE @,
              !.reasoning = IF \/ "reasoning" \in hid
                               \/ "output" \in hid /\ o.convention = "subset" THEN 0 ELSE @]

Size(use) == use.fresh + use.read + use.write + use.reasoning + use.visible
ContextOf(use) == use.fresh + use.read + use.write

\* The prices of a request with this context: those of the first mode with its
\* service tier, else those of the largest tier it has reached, and of several
\* such tiers the last.
PricesAt(rate, service, context) ==
  LET named == {i \in DOMAIN rate.modes : rate.modes[i].service = service}
      long == {i \in DOMAIN rate.tiers : rate.tiers[i].over <= context}
      largest(i) == \A j \in long : \/ rate.tiers[j].over < rate.tiers[i].over
                                    \/ rate.tiers[j].over = rate.tiers[i].over /\ j <= i
  IN CASE service # "auto" /\ named # {} ->
            rate.modes[CHOOSE i \in named : \A j \in named : i <= j].prices
       [] (service = "auto" \/ named = {}) /\ long # {} ->
            rate.tiers[CHOOSE i \in long : largest(i)].prices
       [] OTHER -> rate.prices

Worth(prices, use) ==
  LET reasoning == IF prices.byOutput THEN prices.output ELSE prices.reasoning
  IN Min({MaxInt, Rounded(use.fresh, prices.input) + Rounded(use.read, prices.read)
                    + Rounded(use.write, prices.write) + Rounded(use.reasoning, reasoning)
                    + Rounded(use.visible, prices.output)})

\* A number is left out of which the callback still names a part.
Torn(use, o, hid) ==
  \/ "input" \in hid /\ o.convention \in {"subset", "separate"} /\ use.read + use.write > 0
  \/ "output" \in hid /\ o.convention = "subset" /\ use.reasoning > 0

\* The thresholds the context may lie on either side of, once tokens are hidden.
Between(rate, known, use) ==
  {i \in DOMAIN rate.tiers :
     /\ rate.tiers[i].over > ContextOf(known)
     /\ rate.tiers[i].over <= ContextOf(known) + Size(use) - Size(known)}

ChargedRight(rate) ==
  LET report == settled.report
      use == report.use
      origin == report.callback.origin
      known == Known(use, origin, report.hid)
      worth == Worth(PricesAt(rate, report.callback.service, ContextOf(use)), known)
      cost == settled.s.cost.total
  IN CASE Torn(use, origin, report.hid) -> cost = 0
       [] OTHER -> /\ cost = worth \/ (cost = 0 /\ known # use)
                   /\ Between(rate, known, use) = {} => cost = worth

\* A use costs the same whichever provider reports it, in whichever convention
\* (billing.go:279-392): each token once, at the prices the rate had when the
\* request was admitted (engine.go:592-616) for the context it really had, whatever
\* happened to the card since; what the callback leaves out is never charged, and
\* what it names is charged unless the missing tokens could change its price.
\* Not so after a restart for a rate that prices reasoning apart (SetPriceCharged).
TruePrice ==
  settled # Absent /\ settled.report.use # Absent /\ (reloads > 0 => agreed.prices.byOutput)
    => ChargedRight(agreed)

\* What README.md:235 says: rates are kept when CPA is restarted.
SetPriceCharged == settled # Absent /\ settled.report.use # Absent => ChargedRight(agreed)

PricesOf(rate) ==
  {rate.prices} \cup {rate.tiers[i].prices : i \in DOMAIN rate.tiers}
    \cup {rate.modes[i].prices : i \in DOMAIN rate.modes}

\* Whatever a callback says (billing.go:347-392, engine.go:984-997), no more tokens
\* are charged than it has units, and none above the dearest price of the rate
\* but for the rounding of its five parts, unless the units are as many as an
\* integer can hold (billing.go:273); the parts make up the total unless it
\* has saturated; and a request let past a spent budget because its rate is free
\* (engine.go:596) costs nothing.
NeverMoreThanUsed ==
  settled # Absent =>
    LET s == settled.s
    IN /\ s.units > 0 => Sum(Sum(s.tokens.input, s.tokens.cached), s.tokens.output) <= s.units
       /\ s.cost.total <= MaxInt
       /\ s.units < MaxInt =>
            \E prices \in PricesOf(agreed), part \in Parts :
              2 * Unit * s.cost.total <= 2 * s.units * prices[part] + 5 * Unit
       /\ s.cost.total = s.cost.input + s.cost.cached + s.cost.output \/ s.cost.total = MaxInt
       /\ waived \/ s.units = 0 => s.cost.total = 0
=============================================================================
