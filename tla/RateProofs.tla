----------------------------- MODULE RateProofs -----------------------------
(***************************************************************************)
(* Theorems about rates: what a request costs (Pricing) and how the card   *)
(* is kept and synchronized (RateSync).  The two specifications share no   *)
(* name, so that one module extends both.                                  *)
(*                                                                         *)
(* Pricing, for every rate card, catalog, callback and size of an integer: *)
(* a use costs the same whichever provider reports it, and no callback     *)
(* makes it cost more than its units at the dearest price.  The proofs go  *)
(* from the numbers (a saturating sum, the rounding of a product) to a     *)
(* cost, from the sorted tiers to the prices of a context, from the        *)
(* conventions to the buckets, and join them in the settlement.            *)
(*                                                                         *)
(* RateSync, for every set of models and prices: the types, that the card  *)
(* in memory is the card in SQLite, that a 304 is accepted only for a card *)
(* that the response would leave as it is, and that a synchronization      *)
(* leaves no model without a price set by hand.                            *)
(***************************************************************************)
EXTENDS Pricing, RateSync, SequenceTheorems, Sums, TLAPS

-----------------------------------------------------------------------------
(* Numbers.                                                                 *)

\* An amount that saturates at MaxInt.
Cap(n) == IF n < MaxInt THEN n ELSE MaxInt

\* The saturating sum of counts.
LEMMA SumIsCap ==
  ASSUME NEW m \in Nat, NEW n \in Nat
  PROVE  Sum(m, n) = Cap(m + n) /\ Sum(m, n) \in Nat /\ Sum(m, n) <= MaxInt
BY PricingAssumption DEF Sum, Cap, Positive

\* A sum of counts is zero only if each of them is.
LEMMA ZeroSum ==
  ASSUME NEW a \in Nat, NEW b \in Nat, NEW c \in Nat, NEW d \in Nat, NEW e \in Nat,
         a + b + c + d + e = 0
  PROVE  a = 0 /\ b = 0 /\ c = 0 /\ d = 0 /\ e = 0
OBVIOUS

\* Saturating twice is saturating once.
LEMMA CapNested ==
  ASSUME NEW m \in Nat, NEW n \in Nat
  PROVE  Cap(Cap(m) + n) = Cap(m + n) /\ Cap(m + Cap(n)) = Cap(m + n)
BY PricingAssumption DEF Cap

\* The least of two numbers.
LEMMA MinOfTwo ==
  ASSUME NEW m \in Int, NEW n \in Int
  PROVE  Min({m, n}) = IF m <= n THEN m ELSE n
<1>. DEFINE least == IF m <= n THEN m ELSE n
<1>1. least \in {m, n} /\ \A y \in {m, n} : least <= y
  OBVIOUS
<1>2. \A x \in {m, n} : (\A y \in {m, n} : x <= y) => x = least
  OBVIOUS
<1>. HIDE DEF least
<1>3. Min({m, n}) \in {m, n} /\ \A y \in {m, n} : Min({m, n}) <= y
  BY <1>1 DEF Min
<1>. QED BY <1>2, <1>3 DEF least

\* The nearest number of micro-dollars: at most half a unit away.
LEMMA RoundedNear ==
  ASSUME NEW tokens \in Nat, NEW price \in Nat
  PROVE  LET r == Rounded(tokens, price)
         IN  /\ r \in Nat
             /\ 2 * (Unit * r) <= 2 * (tokens * price) + Unit
             /\ 2 * (tokens * price) + Unit < 2 * (Unit * r) + 2 * Unit
<1>. DEFINE n == 2 * (tokens * price) + Unit
            d == 2 * Unit
            r == Rounded(tokens, price)
<1>1. tokens * price \in Nat /\ Unit \in Nat \ {0}
  BY PricingAssumption
<1>2. n \in Nat /\ d \in Nat \ {0}
  BY <1>1
<1>3. r = n \div d
  <2>1. 2 * tokens * price = 2 * (tokens * price)
    OBVIOUS
  <2>. QED BY <2>1 DEF Rounded
<1>4. \A a \in Nat, b \in Nat \ {0} :
        a \div b \in Nat /\ b * (a \div b) <= a /\ a < b * (a \div b) + b
  OBVIOUS
<1>. HIDE DEF n, d, r
<1>5. r \in Nat /\ d * r <= n /\ n < d * r + d
  BY <1>2, <1>3, <1>4
<1>6. d * r = 2 * (Unit * r)
  BY <1>1, <1>5 DEF d
<1>. QED BY <1>5, <1>6 DEF n, d, r

\* What has no price or no tokens costs nothing.
LEMMA RoundedFree ==
  ASSUME NEW tokens \in Nat, NEW price \in Nat, tokens = 0 \/ price = 0
  PROVE  Rounded(tokens, price) = 0
<1>. DEFINE r == Rounded(tokens, price)
<1>1. tokens * price = 0
  OBVIOUS
<1>2. r \in Nat /\ 2 * (Unit * r) <= Unit
  <2>1. r \in Nat /\ 2 * (Unit * r) <= 2 * (tokens * price) + Unit
    BY RoundedNear
  <2>. QED BY <1>1, <2>1, PricingAssumption
<1>. HIDE DEF r
<1>3. Unit \in Nat \ {0} /\ (r >= 1 => Unit * r >= Unit)
  BY <1>2, PricingAssumption
<1>. QED BY <1>2, <1>3 DEF r

\* The test for saturation compares the exact product, the sum adds the rounded one.
LEMMA RoundedSaturates ==
  ASSUME NEW tokens \in Nat, NEW price \in Nat, NEW room \in Nat
  PROVE  /\ tokens * price >= room * Unit => Rounded(tokens, price) >= room
         /\ tokens * price < room * Unit => Rounded(tokens, price) <= room
<1>. DEFINE r == Rounded(tokens, price)
            x == tokens * price
<1>1. x \in Nat /\ Unit \in Nat \ {0}
  BY PricingAssumption
<1>2. r \in Nat /\ 2 * (Unit * r) <= 2 * x + Unit /\ 2 * x + Unit < 2 * (Unit * r) + 2 * Unit
  BY RoundedNear
<1>. HIDE DEF r, x
<1>3. r < room => Unit * r + Unit <= room * Unit
  <2>1. SUFFICES ASSUME r < room PROVE Unit * r + Unit <= room * Unit
    OBVIOUS
  <2>2. Unit * (r + 1) <= Unit * room
    BY <1>1, <1>2, <2>1
  <2>. QED BY <1>1, <1>2, <2>2
<1>4. r > room => Unit * r >= room * Unit + Unit
  <2>1. SUFFICES ASSUME r > room PROVE Unit * r >= room * Unit + Unit
    OBVIOUS
  <2>2. Unit * (room + 1) <= Unit * r
    BY <1>1, <1>2, <2>1
  <2>. QED BY <1>1, <1>2, <2>2
<1>5. room * Unit \in Nat /\ Unit * r \in Nat
  BY <1>1, <1>2
<1>. QED BY <1>1, <1>2, <1>3, <1>4, <1>5 DEF r, x

-----------------------------------------------------------------------------
(* What a cost adds up to.                                                  *)

Amounts == Parts \cup {"cached", "total"}
Costs == {cost \in [Amounts -> Nat] : cost["total"] <= MaxInt}
Tokens == [input : Nat, read : Nat, write : Nat, cached : Nat, reasoning : Nat, output : Nat]

\* One more part: the total grows by the rounded product or saturates, and the
\* other parts stay.
LEMMA AddPart ==
  ASSUME NEW cost \in Costs, NEW part \in Parts, cost[part] = 0,
         NEW tokens \in Nat, NEW price \in Nat
  PROVE  LET new == Add(cost, part, tokens, price)
             r == Rounded(tokens, price)
         IN  /\ new \in Costs
             /\ new.total = Cap(cost.total + r)
             /\ \A p \in Parts \ {part} : new[p] = cost[p]
             /\ new.cached = cost.cached
             /\ new.total < MaxInt => new[part] = r
<1>. DEFINE new == Add(cost, part, tokens, price)
            r == Rounded(tokens, price)
<1>4. /\ part \in Amounts /\ part # "total" /\ part # "cached" /\ "total" \in Amounts
      /\ "cached" \in Amounts /\ Parts \subseteq Amounts /\ "total" \notin Parts
      /\ "cached" \notin Parts
  BY DEF Parts, Amounts
<1>1. r \in Nat /\ cost.total \in Nat /\ cost.total <= MaxInt /\ MaxInt \in Nat /\ Unit \in Nat
  BY <1>4, RoundedNear, PricingAssumption DEF Costs
<1>2. CASE cost.total = MaxInt \/ tokens <= 0 \/ price <= 0
  <2>1. new = cost
    <3>1. ~(cost.total < MaxInt /\ tokens * price >= (MaxInt - cost.total) * Unit)
      <4>. SUFFICES ASSUME cost.total < MaxInt
                    PROVE  ~(tokens * price >= (MaxInt - cost.total) * Unit)
        OBVIOUS
      <4>1. tokens * price = 0
        BY <1>1, <1>2
      <4>2. MaxInt - cost.total \in Nat \ {0} /\ Unit \in Nat \ {0}
        BY <1>1, PricingAssumption
      <4>3. (MaxInt - cost.total) * Unit > 0
        BY <4>2
      <4>. QED BY <4>1, <4>2, <4>3
    <3>. QED BY <1>2, <3>1 DEF Add
  <2>2. cost.total = MaxInt \/ r = 0
    BY <1>2, RoundedFree
  <2>. HIDE DEF new, r
  <2>. QED BY <1>1, <2>1, <2>2 DEF Cap, new, r
<1>3. CASE ~(cost.total = MaxInt \/ tokens <= 0 \/ price <= 0)
  <2>. DEFINE room == MaxInt - cost.total
  <2>1. room \in Nat /\ cost.total < MaxInt
    BY <1>1, <1>3
  <2>2. /\ tokens * price >= room * Unit => r >= room
        /\ tokens * price < room * Unit => r <= room
    BY <2>1, RoundedSaturates
  <2>3. CASE tokens * price >= room * Unit
    <3>1. new = [cost EXCEPT ![part] = MaxInt, !.total = MaxInt]
      BY <1>3, <2>1, <2>3 DEF Add
    <3>2. r >= room
      BY <2>2, <2>3
    <3>3. cost.total + r >= MaxInt
      BY <1>1, <3>2
    <3>4. new \in Costs /\ new.total = MaxInt /\ new.cached = cost.cached
          /\ \A p \in Parts \ {part} : new[p] = cost[p]
      <4>1. \A p \in Amounts : new[p] = IF p \in {part, "total"} THEN MaxInt ELSE cost[p]
        BY <3>1, <1>4 DEF Costs
      <4>2. new \in [Amounts -> Nat]
        BY <1>1, <3>1 DEF Costs
      <4>. QED BY <1>1, <1>4, <4>1, <4>2 DEF Costs
    <3>. HIDE DEF new, r
    <3>. QED BY <1>1, <3>3, <3>4 DEF Cap, new, r
  <2>4. CASE ~(tokens * price >= room * Unit)
    <3>1. new = [cost EXCEPT ![part] = r, !.total = @ + r]
      BY <1>3, <2>1, <2>4 DEF Add
    <3>2. r <= room
      <4>1. tokens * price \in Nat /\ room * Unit \in Nat
        BY <1>1, <2>1
      <4>2. tokens * price < room * Unit
        BY <2>4, <4>1
      <4>. QED BY <2>2, <4>2
    <3>3. cost.total + r <= MaxInt
      BY <1>1, <3>2
    <3>. HIDE DEF r, room
    <3>4. new \in Costs /\ new.total = cost.total + r /\ new[part] = r /\ new.cached = cost.cached
          /\ \A p \in Parts \ {part} : new[p] = cost[p]
      <4>1. \A p \in Amounts : new[p] = IF p = part THEN r ELSE IF p = "total" THEN cost.total + r
                                      ELSE cost[p]
        BY <3>1, <1>4 DEF Costs
      <4>2. new \in [Amounts -> Nat]
        <5>1. cost.total + r \in Nat /\ r \in Nat /\ cost \in [Amounts -> Nat]
          BY <1>1 DEF Costs
        <5>2. DOMAIN new = Amounts /\ new = [p \in Amounts |-> new[p]]
          BY <3>1, <5>1
        <5>. QED BY <4>1, <5>1, <5>2
      <4>3. new["total"] = cost["total"] + r /\ new[part] = r /\ new["cached"] = cost["cached"]
            /\ \A p \in Parts \ {part} : new[p] = cost[p]
        BY <1>4, <4>1
      <4>. QED BY <1>1, <3>3, <4>2, <4>3 DEF Costs
    <3>. HIDE DEF new
    <3>. QED BY <1>1, <3>3, <3>4 DEF Cap, new, r
  <2>. QED BY <2>3, <2>4
<1>. QED BY <1>2, <1>3

ReasoningPrice(prices) == IF prices.byOutput THEN prices.output ELSE prices.reasoning

\* A cost is the saturated sum of five rounded parts, and shows them unless it has saturated.
LEMMA CostAddsUp ==
  ASSUME NEW prices \in RatePrices, NEW t \in Tokens
  PROVE  LET cost == Cost(prices, t)
             input == Rounded(t.input, prices.input)
             read == Rounded(t.read, prices.read)
             write == Rounded(t.write, prices.write)
             reasoning == Rounded(t.reasoning, ReasoningPrice(prices))
             output == Rounded(t.output, prices.output)
         IN  /\ cost \in [Amounts -> Nat] /\ cost.total \in 0 .. MaxInt
             /\ cost.total = Cap(input + read + write + reasoning + output)
             /\ cost.total < MaxInt =>
                  /\ cost.input = input /\ cost.cached = read + write
                  /\ cost.reasoning = reasoning /\ cost.output = output
<1>. DEFINE a == Rounded(t.input, prices.input)
            b == Rounded(t.read, prices.read)
            c == Rounded(t.write, prices.write)
            d == Rounded(t.reasoning, ReasoningPrice(prices))
            e == Rounded(t.output, prices.output)
            c1 == Add(NoCost, "input", t.input, prices.input)
            c2 == Add(c1, "read", t.read, prices.read)
            c3 == Add(c2, "write", t.write, prices.write)
            c4 == Add(c3, "reasoning", t.reasoning, ReasoningPrice(prices))
            c5 == Add(c4, "output", t.output, prices.output)
<1>1. /\ t.input \in Nat /\ t.read \in Nat /\ t.write \in Nat /\ t.reasoning \in Nat
      /\ t.output \in Nat
      /\ prices.input \in Nat /\ prices.read \in Nat /\ prices.write \in Nat
      /\ prices.output \in Nat /\ ReasoningPrice(prices) \in Nat /\ MaxInt \in Nat
  BY PricingAssumption DEF Tokens, RatePrices, ReasoningPrice
<1>2. Cost(prices, t) = [c5 EXCEPT !.cached = Sum(c5.read, c5.write)]
  BY DEF Cost, ReasoningPrice
<1>3. a \in Nat /\ b \in Nat /\ c \in Nat /\ d \in Nat /\ e \in Nat
  BY <1>1, RoundedNear
<1>4. NoCost \in Costs /\ NoCost.total = 0 /\ \A p \in Parts : NoCost[p] = 0
  BY <1>1 DEF NoCost, Costs, Parts, Amounts
<1>. HIDE DEF a, b, c, d, e
<1>5. /\ c1 \in Costs /\ c1.total = Cap(a)
      /\ c1.read = 0 /\ c1.write = 0 /\ c1.reasoning = 0 /\ c1.output = 0
      /\ c1.total < MaxInt => c1.input = a
  <2>1. NoCost \in Costs /\ "input" \in Parts /\ NoCost["input"] = 0
    BY <1>4 DEF Parts
  <2>2. /\ c1 \in Costs /\ c1.total = Cap(NoCost.total + a)
        /\ \A p \in Parts \ {"input"} : c1[p] = NoCost[p]
        /\ c1.total < MaxInt => c1["input"] = a
    BY <1>1, <2>1, AddPart DEF a
  <2>. HIDE DEF c1
  <2>3. c1.total = Cap(a)
    BY <1>3, <1>4, <2>2, CapNested
  <2>. QED BY <1>4, <2>2, <2>3 DEF Parts
<1>. HIDE DEF c1
<1>6. /\ c2 \in Costs /\ c2.total = Cap(a + b)
      /\ c2.write = 0 /\ c2.reasoning = 0 /\ c2.output = 0
      /\ c2.input = c1.input
      /\ c2.total < MaxInt => c2.read = b
  <2>1. c1 \in Costs /\ "read" \in Parts /\ c1["read"] = 0
    BY <1>5 DEF Parts
  <2>2. /\ c2 \in Costs /\ c2.total = Cap(c1.total + b)
        /\ \A p \in Parts \ {"read"} : c2[p] = c1[p]
        /\ c2.total < MaxInt => c2["read"] = b
    BY <1>1, <2>1, AddPart DEF b
  <2>. HIDE DEF c2
  <2>3. c2.total = Cap(a + b)
    BY <1>3, <1>5, <2>2, CapNested
  <2>. QED BY <1>5, <2>2, <2>3 DEF Parts
<1>. HIDE DEF c2
<1>7. /\ c3 \in Costs /\ c3.total = Cap(a + b + c)
      /\ c3.reasoning = 0 /\ c3.output = 0
      /\ c3.input = c2.input /\ c3.read = c2.read
      /\ c3.total < MaxInt => c3.write = c
  <2>1. c2 \in Costs /\ "write" \in Parts /\ c2["write"] = 0
    BY <1>6 DEF Parts
  <2>2. /\ c3 \in Costs /\ c3.total = Cap(c2.total + c)
        /\ \A p \in Parts \ {"write"} : c3[p] = c2[p]
        /\ c3.total < MaxInt => c3["write"] = c
    BY <1>1, <2>1, AddPart DEF c
  <2>. HIDE DEF c3
  <2>3. c3.total = Cap(a + b + c)
    BY <1>3, <1>6, <2>2, CapNested
  <2>. QED BY <1>6, <2>2, <2>3 DEF Parts
<1>. HIDE DEF c3
<1>8. /\ c4 \in Costs /\ c4.total = Cap(a + b + c + d)
      /\ c4.output = 0
      /\ c4.input = c3.input /\ c4.read = c3.read /\ c4.write = c3.write
      /\ c4.total < MaxInt => c4.reasoning = d
  <2>1. c3 \in Costs /\ "reasoning" \in Parts /\ c3["reasoning"] = 0
    BY <1>7 DEF Parts
  <2>2. /\ c4 \in Costs /\ c4.total = Cap(c3.total + d)
        /\ \A p \in Parts \ {"reasoning"} : c4[p] = c3[p]
        /\ c4.total < MaxInt => c4["reasoning"] = d
    BY <1>1, <2>1, AddPart DEF d
  <2>. HIDE DEF c4
  <2>3. c4.total = Cap(a + b + c + d)
    BY <1>3, <1>7, <2>2, CapNested
  <2>. QED BY <1>7, <2>2, <2>3 DEF Parts
<1>. HIDE DEF c4
<1>9. /\ c5 \in Costs /\ c5.total = Cap(a + b + c + d + e)
      /\ c5.input = c4.input /\ c5.read = c4.read /\ c5.write = c4.write
      /\ c5.reasoning = c4.reasoning
      /\ c5.total < MaxInt => c5.output = e
  <2>1. c4 \in Costs /\ "output" \in Parts /\ c4["output"] = 0
    BY <1>8 DEF Parts
  <2>2. /\ c5 \in Costs /\ c5.total = Cap(c4.total + e)
        /\ \A p \in Parts \ {"output"} : c5[p] = c4[p]
        /\ c5.total < MaxInt => c5["output"] = e
    BY <1>1, <2>1, AddPart DEF e
  <2>. HIDE DEF c5
  <2>3. c5.total = Cap(a + b + c + d + e)
    BY <1>3, <1>8, <2>2, CapNested
  <2>. QED BY <1>8, <2>2, <2>3 DEF Parts
<1>. HIDE DEF c5
<1>10. c5.total < MaxInt =>
         /\ c1.total < MaxInt /\ c2.total < MaxInt /\ c3.total < MaxInt /\ c4.total < MaxInt
         /\ b + c < MaxInt
  BY <1>1, <1>3, <1>5, <1>6, <1>7, <1>8, <1>9 DEF Cap
<1>11. c5.total < MaxInt => Sum(c5.read, c5.write) = b + c
  <2>. SUFFICES ASSUME c5.total < MaxInt PROVE Sum(c5.read, c5.write) = b + c
    OBVIOUS
  <2>1. c5.read = b /\ c5.write = c
    BY <1>6, <1>7, <1>8, <1>9, <1>10
  <2>. QED BY <1>1, <1>3, <1>10, <2>1, SumIsCap DEF Cap
<1>12. /\ Cost(prices, t).total = c5.total /\ Cost(prices, t).input = c5.input
       /\ Cost(prices, t).reasoning = c5.reasoning /\ Cost(prices, t).output = c5.output
       /\ Cost(prices, t).cached = Sum(c5.read, c5.write)
  BY <1>2, <1>9 DEF Costs
<1>13. c5.total \in 0 .. MaxInt
  BY <1>1, <1>9 DEF Costs, Amounts
<1>14. Cost(prices, t) \in [Amounts -> Nat]
  <2>1. c5.read \in Nat /\ c5.write \in Nat
    BY <1>9 DEF Costs, Amounts, Parts
  <2>2. Sum(c5.read, c5.write) \in Nat
    BY <2>1, SumIsCap
  <2>. QED BY <1>2, <1>9, <2>2 DEF Costs
<1>. QED
  BY <1>5, <1>6, <1>7, <1>8, <1>9, <1>10, <1>11, <1>12, <1>13, <1>14 DEF a, b, c, d, e

-----------------------------------------------------------------------------
(* Rates.                                                                   *)

Positions(D) == \E n \in Nat : D \subseteq 1 .. n

\* A rate as the card has it: its tiers sorted, its modes at some positions.
IsRate(rate) ==
  /\ rate.prices \in RatePrices
  /\ \E n \in Nat : rate.tiers \in [1 .. n -> Tier]
  /\ \A i, j \in DOMAIN rate.tiers : i < j => rate.tiers[i].over <= rate.tiers[j].over
  /\ Positions(DOMAIN rate.modes)
  /\ \A i \in DOMAIN rate.modes : rate.modes[i].prices \in RatePrices
  /\ rate = [prices |-> rate.prices, tiers |-> rate.tiers, modes |-> rate.modes]

\* Sorting makes a rate of it.
LEMMA NormalizedIsRate ==
  ASSUME NEW base \in RatePrices, NEW tiers \in SUBSET Tier, IsFiniteSet(tiers), NEW modes,
         Positions(DOMAIN modes), \A i \in DOMAIN modes : modes[i].prices \in RatePrices,
         NEW rate \in Normalized([prices |-> base, tiers |-> tiers, modes |-> modes])
  PROVE  IsRate(rate)
<1>. DEFINE set == [prices |-> base, tiers |-> tiers, modes |-> modes]
            n == Cardinality(tiers)
<1>1. n \in Nat
  BY FS_CardinalityType
<1>2. PICK list \in [1 .. n -> tiers] :
        /\ \A i, j \in DOMAIN list : i < j => list[i].over <= list[j].over
        /\ rate = [set EXCEPT !.tiers = list]
  BY DEF Normalized
<1>3. rate = [prices |-> base, tiers |-> list, modes |-> modes]
  BY <1>2
<1>4. rate.prices = base /\ rate.tiers = list /\ rate.modes = modes
  BY <1>3
<1>5. list \in [1 .. n -> Tier]
  BY <1>2
<1>. HIDE DEF n
<1>. QED BY <1>1, <1>2, <1>3, <1>4, <1>5 DEF IsRate

\* Inherited prices are prices.
LEMMA InheritedPrices ==
  ASSUME NEW part \in Offers, NEW base \in Offers
  PROVE  Inherited(part, base) \in RatePrices
<1>1. \A p \in Parts : (IF part[p] # Absent THEN part[p] ELSE IF base[p] # Absent THEN base[p] ELSE 0) \in Nat
  BY DEF Offers
<1>. QED BY <1>1 DEF Inherited, RatePrices, Parts

\* What an operator sets is a rate.
LEMMA ReplacedIsRate ==
  ASSUME NEW set \in Rates, NEW rate \in Normalized(set)
  PROVE  IsRate(rate)
<1>1. /\ set \in [prices : RatePrices, tiers : SUBSET Tier,
                  modes : Seq([service : STRING, prices : RatePrices])]
      /\ IsFiniteSet(set.tiers)
  BY RateAssumption
<1>2. /\ set.prices \in RatePrices /\ set.tiers \in SUBSET Tier
      /\ set.modes \in Seq([service : STRING, prices : RatePrices])
      /\ set = [prices |-> set.prices, tiers |-> set.tiers, modes |-> set.modes]
  BY <1>1
<1>3. Positions(DOMAIN set.modes) /\ \A i \in DOMAIN set.modes : set.modes[i].prices \in RatePrices
  <2>1. set.modes \in [1 .. Len(set.modes) -> [service : STRING, prices : RatePrices]]
        /\ Len(set.modes) \in Nat
    BY <1>2, LenProperties
  <2>. QED BY <2>1 DEF Positions
<1>. QED BY <1>1, <1>2, <1>3, NormalizedIsRate

\* What models.dev offers becomes a rate.
LEMMA SynchronizedIsRate ==
  ASSUME NEW entry \in Catalog, NEW rate \in Normalized(FromModelsDev(entry))
  PROVE  IsRate(rate)
<1>. DEFINE base == Inherited(entry.prices, entry.prices)
            sized == {tier \in entry.tiers : tier.over > 0}
            legacy == IF Priced(entry.legacy) THEN {[over |-> LegacySize, prices |-> entry.legacy]}
                      ELSE {}
            named == {i \in DOMAIN entry.modes :
                        entry.modes[i].service # "" /\ Priced(entry.modes[i].prices)}
            tiers == {[over |-> tier.over, prices |-> Inherited(tier.prices, entry.prices)] :
                        tier \in sized \cup legacy}
            modes == [i \in named |-> [service |-> entry.modes[i].service,
                                      prices |-> Inherited(entry.modes[i].prices, entry.prices)]]
<1>1. /\ entry.prices \in Offers /\ entry.tiers \in SUBSET [over : Int, prices : Offers]
      /\ entry.legacy \in Offers \cup {Absent}
      /\ entry.modes \in Seq([service : STRING, prices : Offers \cup {Absent}])
      /\ IsFiniteSet(entry.tiers) /\ LegacySize \in Nat
  BY RateAssumption, PricingAssumption
<1>2. FromModelsDev(entry) = [prices |-> base, tiers |-> tiers, modes |-> modes]
  BY DEF FromModelsDev
<1>3. base \in RatePrices
  BY <1>1, InheritedPrices
<1>4. \A tier \in sized \cup legacy : tier.over \in Nat /\ tier.prices \in Offers
  BY <1>1 DEF Priced
<1>5. tiers \in SUBSET Tier
  BY <1>1, <1>4, InheritedPrices DEF Tier
<1>6. IsFiniteSet(tiers)
  <2>1. IsFiniteSet(sized)
    BY <1>1, FS_Subset
  <2>2. IsFiniteSet(legacy)
    BY FS_EmptySet, FS_Singleton
  <2>3. IsFiniteSet(sized \cup legacy)
    BY <2>1, <2>2, FS_Union
  <2>. DEFINE f == [tier \in sized \cup legacy |->
                      [over |-> tier.over, prices |-> Inherited(tier.prices, entry.prices)]]
  <2>. HIDE DEF sized, legacy
  <2>4. f \in Surjection(sized \cup legacy, tiers)
    BY DEF Surjection
  <2>. QED BY <2>3, <2>4, FS_Surjection
<1>7. Positions(DOMAIN modes) /\ \A i \in DOMAIN modes : modes[i].prices \in RatePrices
  <2>1. entry.modes \in [1 .. Len(entry.modes) -> [service : STRING, prices : Offers \cup {Absent}]]
        /\ Len(entry.modes) \in Nat
    BY <1>1, LenProperties
  <2>2. \A i \in named : entry.modes[i].prices \in Offers
    <3>. SUFFICES ASSUME NEW i \in named PROVE entry.modes[i].prices \in Offers
      OBVIOUS
    <3>1. i \in 1 .. Len(entry.modes) /\ entry.modes[i].prices # Absent
      BY <2>1 DEF Priced
    <3>2. entry.modes[i].prices \in Offers \cup {Absent}
      BY <2>1, <3>1
    <3>. QED BY <3>1, <3>2, Zenon
  <2>3. named \subseteq 1 .. Len(entry.modes) /\ Len(entry.modes) \in Nat
    BY <2>1
  <2>. HIDE DEF named
  <2>4. Positions(named)
    BY <2>3, Zenon DEF Positions
  <2>. QED BY <1>1, <2>2, <2>4, InheritedPrices
<1>. HIDE DEF base, tiers, modes
<1>. QED BY <1>2, <1>3, <1>5, <1>6, <1>7, NormalizedIsRate

\* A reload, field by field.
LEMMA ReloadedRecord ==
  ASSUME NEW prices, NEW tiers, NEW modes
  PROVE  Reloaded([prices |-> prices, tiers |-> tiers, modes |-> modes])
           = [prices |-> [prices EXCEPT !.byOutput = TRUE], tiers |-> tiers, modes |-> modes]
<1>. DEFINE rate == [prices |-> prices, tiers |-> tiers, modes |-> modes]
            new == [prices EXCEPT !.byOutput = TRUE]
<1>1. Reloaded(rate) = [rate EXCEPT !.prices = new]
  BY DEF Reloaded
<1>. HIDE DEF new
<1>. QED BY <1>1 DEF new

\* Marking reasoning as priced by output once is enough.
LEMMA PricedByOutput ==
  ASSUME NEW base \in RatePrices
  PROVE  LET new == [base EXCEPT !.byOutput = TRUE]
         IN  /\ new \in RatePrices /\ [new EXCEPT !.byOutput = TRUE] = new
             /\ base.byOutput => new = base
             /\ \A part \in Parts : new[part] = base[part]
<1>. DEFINE new == [base EXCEPT !.byOutput = TRUE]
<1>1. new \in RatePrices /\ [new EXCEPT !.byOutput = TRUE] = new
  BY DEF RatePrices
<1>2. \A part \in Parts : new[part] = base[part]
  BY DEF RatePrices, Parts
<1>3. ASSUME base.byOutput PROVE new = base
  <2>1. base.byOutput = TRUE
    BY <1>3 DEF RatePrices
  <2>. QED BY <2>1 DEF RatePrices
<1>. QED BY <1>1, <1>2, <1>3

\* A restart keeps the prices, the tiers and the modes of a rate, and has its
\* effect once.
LEMMA ReloadedRate ==
  ASSUME NEW rate, IsRate(rate)
  PROVE  LET again == Reloaded(rate)
         IN  /\ IsRate(again)
             /\ again.tiers = rate.tiers /\ again.modes = rate.modes
             /\ again.prices = [rate.prices EXCEPT !.byOutput = TRUE]
             /\ \A part \in Parts : again.prices[part] = rate.prices[part]
             /\ HasCost(again) <=> HasCost(rate)
             /\ Reloaded(again) = again
             /\ rate.prices.byOutput => again = rate
<1>. DEFINE again == Reloaded(rate)
            base == rate.prices
            tiers == rate.tiers
            modes == rate.modes
            new == [base EXCEPT !.byOutput = TRUE]
<1>1. /\ base \in RatePrices /\ rate = [prices |-> base, tiers |-> tiers, modes |-> modes]
      /\ \E n \in Nat : tiers \in [1 .. n -> Tier]
      /\ \A i, j \in DOMAIN tiers : i < j => tiers[i].over <= tiers[j].over
      /\ Positions(DOMAIN modes)
      /\ \A i \in DOMAIN modes : modes[i].prices \in RatePrices
  BY DEF IsRate
<1>. HIDE DEF base, tiers, modes
<1>2. again = [prices |-> new, tiers |-> tiers, modes |-> modes]
  BY <1>1, ReloadedRecord
<1>3. again.prices = new /\ again.tiers = tiers /\ again.modes = modes
  BY <1>2
<1>. HIDE DEF again
<1>4. /\ new \in RatePrices /\ [new EXCEPT !.byOutput = TRUE] = new
      /\ base.byOutput => new = base
  BY <1>1, PricedByOutput
<1>5. \A part \in Parts : new[part] = base[part]
  BY <1>1, PricedByOutput
<1>8. Reloaded(again) = again
  <2>1. Reloaded([prices |-> new, tiers |-> tiers, modes |-> modes])
          = [prices |-> [new EXCEPT !.byOutput = TRUE], tiers |-> tiers, modes |-> modes]
    BY ReloadedRecord
  <2>. HIDE DEF new
  <2>2. Reloaded([prices |-> new, tiers |-> tiers, modes |-> modes])
          = [prices |-> new, tiers |-> tiers, modes |-> modes]
    BY <1>4, <2>1 DEF new
  <2>. QED BY <1>2, <2>2
<1>. HIDE DEF new
<1>6. IsRate(again)
  <2>1. again = [prices |-> again.prices, tiers |-> again.tiers, modes |-> again.modes]
    BY <1>2, <1>3
  <2>2. /\ again.prices \in RatePrices
        /\ \E n \in Nat : again.tiers \in [1 .. n -> Tier]
        /\ \A i, j \in DOMAIN again.tiers : i < j => again.tiers[i].over <= again.tiers[j].over
        /\ Positions(DOMAIN again.modes)
        /\ \A i \in DOMAIN again.modes : again.modes[i].prices \in RatePrices
    <3>1. again.prices \in RatePrices
      BY <1>3, <1>4, Zenon
    <3>. QED BY <1>1, <1>3, <3>1, Zenon
  <2>. QED BY <2>1, <2>2, Zenon DEF IsRate
<1>7. HasCost(again) <=> HasCost(rate)
  BY <1>3, <1>5 DEF HasCost, Paid, base, tiers, modes
<1>9. base.byOutput => again = rate
  <2>. SUFFICES ASSUME base.byOutput PROVE again = rate
    OBVIOUS
  <2>1. new = base
    BY <1>4, Zenon
  <2>. QED BY <1>1, <1>2, <2>1, Zenon
<1>. QED BY <1>3, <1>5, <1>6, <1>7, <1>8, <1>9 DEF again, new, base, tiers, modes

-----------------------------------------------------------------------------
(* The prices of a context.                                                 *)

\* A set of positions has a first and a last one.
LEMMA GreatestExists ==
  ASSUME NEW n \in Nat, NEW S \in SUBSET (1 .. n), S # {}
  PROVE  /\ Max(S) \in S /\ \A x \in S : x <= Max(S)
         /\ Min(S) \in S /\ \A x \in S : Min(S) <= x
<1>1. IsFiniteSet(S) /\ S \subseteq Int
  <2>1. IsFiniteSet(1 .. n)
    BY FS_Interval
  <2>2. IsFiniteSet(S)
    BY <2>1, FS_Subset
  <2>. QED BY <2>2
<1>. DEFINE T == {n - x : x \in S}
            f == [x \in S |-> n - x]
<1>2. T \subseteq Int /\ T # {} /\ IsFiniteSet(T)
  <2>1. f \in Surjection(S, T)
    BY DEF Surjection
  <2>2. IsFiniteSet(T)
    BY <1>1, <2>1, FS_Surjection
  <2>3. \A x \in S : x \in Int /\ n - x \in Int
    BY <1>1
  <2>. QED BY <2>2, <2>3
<1>3. PICK y \in T : \A x \in T : y <= x
  BY <1>2, LeastExists
<1>4. \E m \in S : \A x \in S : x <= m
  <2>1. PICK m \in S : y = n - m
    BY <1>3
  <2>2. \A x \in S : n - m <= n - x
    BY <1>3, <2>1
  <2>3. \A x \in S : x \in Int /\ m \in Int
    BY <1>1
  <2>4. \A x \in S : x <= m
    BY <2>2, <2>3
  <2>. QED BY <2>4
<1>5. \E m \in S : \A x \in S : m <= x
  BY <1>1, LeastExists
<1>. QED BY <1>4, <1>5 DEF Max, Min

\* Of tiers in order the last one reached is the largest of them.
LEMMA RateForIsPricesAt ==
  ASSUME NEW rate, IsRate(rate), NEW service, NEW context \in Nat
  PROVE  /\ RateFor(rate, service, context) = PricesAt(rate, service, context)
         /\ RateFor(rate, service, context) \in PricesOf(rate)
         /\ PricesOf(rate) \subseteq RatePrices
<1>. DEFINE tiers == rate.tiers
            named == {i \in DOMAIN rate.modes : rate.modes[i].service = service}
            modes == {i \in DOMAIN rate.modes : service # "auto" /\ rate.modes[i].service = service}
            reached == {i \in DOMAIN tiers : context >= tiers[i].over}
            long == {i \in DOMAIN tiers : tiers[i].over <= context}
            largest(i) == \A j \in long : \/ tiers[j].over < tiers[i].over
                                          \/ tiers[j].over = tiers[i].over /\ j <= i
<1>1. PICK n \in Nat : tiers \in [1 .. n -> Tier]
  BY DEF IsRate
<1>2. PICK k \in Nat : DOMAIN rate.modes \subseteq 1 .. k
  BY DEF IsRate, Positions
<1>3. \A i \in DOMAIN tiers : tiers[i].over \in Nat /\ tiers[i].prices \in RatePrices
  BY <1>1 DEF Tier
<1>4. \A i, j \in DOMAIN tiers : i < j => tiers[i].over <= tiers[j].over
  BY DEF IsRate
<1>5. reached = long
  BY <1>3
<1>6. ASSUME reached # {}
      PROVE  Max(reached) \in reached /\ Max(reached) = CHOOSE i \in long : largest(i)
  <2>. DEFINE m == Max(reached)
  <2>1. reached \in SUBSET (1 .. n)
    BY <1>1
  <2>. HIDE DEF reached
  <2>2. m \in reached /\ \A x \in reached : x <= m
    BY <1>6, <2>1, GreatestExists
  <2>. HIDE DEF m
  <2>3. m \in long /\ \A j \in long : j \in DOMAIN tiers /\ j <= m /\ j \in Nat
    BY <1>5, <2>1, <2>2
  <2>4. largest(m)
    BY <1>3, <1>4, <2>1, <2>3
  <2>5. \A i \in long : largest(i) => i = m
    <3>. SUFFICES ASSUME NEW i \in long, largest(i) PROVE i = m
      OBVIOUS
    <3>1. tiers[m].over < tiers[i].over \/ (tiers[m].over = tiers[i].over /\ m <= i)
      BY <2>3
    <3>2. tiers[i].over < tiers[m].over \/ (tiers[m].over = tiers[i].over /\ i <= m)
      BY <2>3, <2>4
    <3>3. tiers[i].over \in Nat /\ tiers[m].over \in Nat /\ i \in Nat /\ m \in Nat
      BY <1>3, <2>3
    <3>. QED BY <3>1, <3>2, <3>3
  <2>. HIDE DEF long, largest
  <2>6. m = CHOOSE i \in long : largest(i)
    BY <2>3, <2>4, <2>5
  <2>. QED BY <2>2, <2>6 DEF m
<1>7. ASSUME modes # {}
      PROVE  Min(modes) \in modes
  <2>1. modes \in SUBSET (1 .. k)
    BY <1>2
  <2>. HIDE DEF modes
  <2>. QED BY <1>7, <2>1, GreatestExists
<1>8. CASE modes # {}
  <2>1. service # "auto" /\ named # {} /\ named = modes
    BY <1>8
  <2>2. RateFor(rate, service, context) = rate.modes[Min(modes)].prices
    BY <1>8 DEF RateFor
  <2>3. PricesAt(rate, service, context)
          = rate.modes[CHOOSE i \in named : \A j \in named : i <= j].prices
    BY <2>1 DEF PricesAt
  <2>4. Min(modes) = CHOOSE i \in modes : \A j \in modes : i <= j
    BY DEF Min
  <2>5. Min(modes) \in DOMAIN rate.modes
    BY <1>7, <1>8
  <2>. HIDE DEF modes, named
  <2>6. RateFor(rate, service, context) = PricesAt(rate, service, context)
    BY <2>1, <2>2, <2>3, <2>4, Zenon
  <2>7. RateFor(rate, service, context) \in PricesOf(rate)
    BY <2>2, <2>5 DEF PricesOf
  <2>. QED BY <1>3, <2>6, <2>7 DEF PricesOf, IsRate
<1>9. CASE modes = {} /\ reached # {}
  <2>1. RateFor(rate, service, context) = tiers[Max(reached)].prices
    BY <1>9 DEF RateFor
  <2>2. service = "auto" \/ named = {}
    BY <1>9
  <2>3. long # {}
    BY <1>5, <1>9
  <2>4. PricesAt(rate, service, context) = tiers[CHOOSE i \in long : largest(i)].prices
    BY <2>2, <2>3 DEF PricesAt
  <2>5. Max(reached) \in DOMAIN tiers /\ Max(reached) = CHOOSE i \in long : largest(i)
    BY <1>6, <1>9
  <2>. HIDE DEF modes, named, long, largest, reached
  <2>6. RateFor(rate, service, context) = PricesAt(rate, service, context)
    BY <2>1, <2>4, <2>5, Zenon
  <2>7. RateFor(rate, service, context) \in PricesOf(rate)
    BY <2>1, <2>5 DEF PricesOf
  <2>. QED BY <1>3, <2>6, <2>7 DEF PricesOf, IsRate
<1>10. CASE modes = {} /\ reached = {}
  <2>1. RateFor(rate, service, context) = rate.prices
    BY <1>10 DEF RateFor
  <2>2. (service = "auto" \/ named = {}) /\ long = {}
    BY <1>5, <1>10
  <2>3. PricesAt(rate, service, context) = rate.prices
    BY <2>2 DEF PricesAt
  <2>. QED BY <1>3, <2>1, <2>3 DEF PricesOf, IsRate
<1>. QED BY <1>8, <1>9, <1>10

\* If a longer context has other prices, some tier begins between the two, and
\* the prices of the longer one are those of the context where it begins.
LEMMA PricesChangeAtTier ==
  ASSUME NEW rate, IsRate(rate), NEW service, NEW k \in Nat, NEW c \in Nat, k <= c
  PROVE  \/ RateFor(rate, service, c) = RateFor(rate, service, k)
         \/ \E i \in DOMAIN rate.tiers :
              LET over == rate.tiers[i].over
              IN over > k /\ over <= c /\ RateFor(rate, service, over) = RateFor(rate, service, c)
<1>. DEFINE tiers == rate.tiers
            reached(x) == {i \in DOMAIN tiers : x >= tiers[i].over}
<1>1. PICK n \in Nat : tiers \in [1 .. n -> Tier]
  BY DEF IsRate
<1>2. \A i \in DOMAIN tiers : tiers[i].over \in Nat /\ i \in 1 .. n
  BY <1>1 DEF Tier
<1>3. \A i, j \in DOMAIN tiers : i < j => tiers[i].over <= tiers[j].over
  BY DEF IsRate
<1>4. \A x, y : reached(x) = reached(y) => RateFor(rate, service, x) = RateFor(rate, service, y)
  BY DEF RateFor
<1>5. CASE reached(c) = {}
  <2>1. reached(k) = {}
    BY <1>2, <1>5
  <2>. QED BY <1>4, <1>5, <2>1
<1>6. CASE reached(c) # {}
  <2>. DEFINE S == reached(c)
              m == Max(S)
  <2>1. S \in SUBSET (1 .. n) /\ S # {}
    BY <1>2, <1>6
  <2>. HIDE DEF S
  <2>2. m \in S /\ \A x \in S : x <= m
    BY <2>1, GreatestExists
  <2>. HIDE DEF m
  <2>3. /\ m \in DOMAIN tiers /\ tiers[m].over <= c /\ tiers[m].over \in Nat
        /\ \A i \in DOMAIN tiers : tiers[i].over <= c => tiers[i].over <= tiers[m].over
    BY <1>2, <1>3, <2>1, <2>2 DEF S
  <2>4. CASE tiers[m].over <= k
    <3>1. reached(k) = reached(c)
      BY <1>2, <2>3, <2>4
    <3>. QED BY <1>4, <3>1
  <2>5. CASE ~(tiers[m].over <= k)
    <3>1. reached(tiers[m].over) = reached(c)
      BY <1>2, <2>3
    <3>2. RateFor(rate, service, tiers[m].over) = RateFor(rate, service, c)
      BY <1>4, <3>1
    <3>. QED BY <2>3, <2>5, <3>2
  <2>. QED BY <2>4, <2>5
<1>. QED BY <1>5, <1>6

-----------------------------------------------------------------------------
(* The buckets of a callback.                                               *)

Fields == {"input", "output", "reasoning", "cached", "read", "write", "total"}
IsCallback(c) == c.generate \in BOOLEAN /\ \A f \in Fields : c[f] \in Int

\* There are three conventions, and the unknown one.
LEMMA SemanticsCases ==
  ASSUME NEW o
  PROVE  Semantics(o) \in {"subset", "independent", "separate", "unknown"}
<1>. DEFINE names == IF o.provider = "" /\ o.executor = "" THEN {o.model} ELSE {o.provider, o.executor}
            a == "compat" \in {o.provider, o.executor}
            b == "claude" \in names
            c == "gemini" \in names
            d == "openai" \in names
<1>1. Semantics(o) = CASE a -> "subset" [] b -> "independent" [] c -> "separate" [] d -> "subset"
                        [] OTHER -> "unknown"
  BY DEF Semantics
<1>. HIDE DEF a, b, c, d
<1>. QED BY <1>1

\* A negative number counts as zero.
LEMMA PositiveNat ==
  ASSUME NEW n \in Int
  PROVE  Positive(n) \in Nat /\ (n >= 0 => Positive(n) = n)
BY DEF Positive

\* The buckets by convention, for numbers of any sign.
LEMMA BillableBuckets ==
  ASSUME NEW c, IsCallback(c)
  PROVE  LET t == Billable(c)
             how == Semantics(c.origin)
             split == Positive(c.read) # 0 \/ Positive(c.write) # 0
             read == IF split THEN Positive(c.read) ELSE Positive(c.cached)
             output == Positive(c.output)
             least == IF Positive(c.reasoning) <= output THEN Positive(c.reasoning) ELSE output
         IN  /\ t \in Tokens
             /\ t.read = read /\ t.write = Positive(c.write)
             /\ t.cached = Cap(t.read + t.write) /\ t.cached \in Nat
             /\ how = "independent" => t.input = Positive(c.input)
             /\ how # "independent" => t.input = Positive(Positive(c.input) - t.cached)
             /\ how \in {"separate", "independent"} => t.reasoning = Positive(c.reasoning)
             /\ how = "subset" => t.reasoning = least
             /\ how = "unknown" => t.reasoning = 0
             /\ how = "subset" => t.output = output - least
             /\ how # "subset" => t.output = output
<1>. DEFINE how == Semantics(c.origin)
            split == Positive(c.read) # 0 \/ Positive(c.write) # 0
            read == IF split THEN Positive(c.read) ELSE Positive(c.cached)
            cached == Sum(read, c.write)
            output == Positive(c.output)
            least == IF Positive(c.reasoning) <= output THEN Positive(c.reasoning) ELSE output
            reasoning == CASE how \in {"separate", "independent"} -> Positive(c.reasoning)
                           [] how = "subset" -> Min({Positive(c.reasoning), output})
                           [] OTHER -> 0
            input == IF how = "independent" THEN Positive(c.input)
                     ELSE Positive(Positive(c.input) - cached)
            rest == IF how = "subset" THEN output - reasoning ELSE output
<1>1. /\ Positive(c.read) \in Nat /\ Positive(c.write) \in Nat /\ Positive(c.cached) \in Nat
      /\ Positive(c.reasoning) \in Nat /\ output \in Nat /\ Positive(c.input) \in Nat
  BY PositiveNat DEF IsCallback, Fields
<1>2. Billable(c) = [input |-> input, read |-> read, write |-> Positive(c.write),
                     cached |-> cached, reasoning |-> reasoning, output |-> rest]
  BY DEF Billable
<1>3. read \in Nat
  BY <1>1
<1>. HIDE DEF read
<1>4. cached = Cap(read + Positive(c.write)) /\ cached \in Nat
  <2>1. Positive(Positive(c.write)) = Positive(c.write)
    BY <1>1, PositiveNat
  <2>2. cached = Sum(read, Positive(c.write))
    BY <2>1 DEF Sum
  <2>. QED BY <1>1, <1>3, <2>2, SumIsCap
<1>5. Min({Positive(c.reasoning), output}) = least /\ least \in Nat /\ least <= output
  BY <1>1, MinOfTwo
<1>6. how \in {"subset", "independent", "separate", "unknown"}
  BY SemanticsCases
<1>. HIDE DEF cached, least, how, output
<1>7. /\ how \in {"separate", "independent"} => reasoning = Positive(c.reasoning)
      /\ how = "subset" => reasoning = least
      /\ how = "unknown" => reasoning = 0
      /\ reasoning \in Nat
  BY <1>1, <1>5, <1>6
<1>. HIDE DEF reasoning
<1>8. rest \in Nat /\ (how = "subset" => rest = output - least) /\ (how # "subset" => rest = output)
  BY <1>1, <1>5, <1>7
<1>9. input \in Nat
  BY <1>1, <1>4, PositiveNat
<1>10. /\ Billable(c).input = input /\ Billable(c).read = read
       /\ Billable(c).write = Positive(c.write) /\ Billable(c).cached = cached
       /\ Billable(c).reasoning = reasoning /\ Billable(c).output = rest
  BY <1>2
<1>11. Billable(c) \in Tokens
  <2>. HIDE DEF input, rest
  <2>. QED BY <1>1, <1>2, <1>3, <1>4, <1>7, <1>8, <1>9 DEF Tokens
<1>12. /\ how = "independent" => input = Positive(c.input)
       /\ how # "independent" => input = Positive(Positive(c.input) - cached)
  OBVIOUS
<1>. HIDE DEF input, rest
<1>. QED BY <1>4, <1>7, <1>8, <1>10, <1>11, <1>12 DEF how, read, output, least

\* What a provider sends for a use.
IsReport(r, use, o, service, lump, hid) ==
  /\ use \in Uses /\ o \in Origins /\ lump \in BOOLEAN /\ hid \in Hidings
  /\ o.convention = "unknown" => use.reasoning = 0
  /\ lump => use.write = 0
  /\ "reasoning" \in hid => o.convention # "subset"
  /\ r = Report(use, o, service, lump, hid)

\* A report is what some provider sends for some use.
LEMMA ReportExists ==
  ASSUME NEW r \in Reports
  PROVE  \E use, o, service, lump, hid : IsReport(r, use, o, service, lump, hid)
<1>1. PICK x \in Uses \X Origins \X Services \X BOOLEAN \X Hidings :
        /\ x[2].convention = "unknown" => x[1].reasoning = 0
        /\ x[4] => x[1].write = 0
        /\ "reasoning" \in x[5] => x[2].convention # "subset"
        /\ r = Report(x[1], x[2], x[3], x[4], x[5])
  BY DEF Reports
<1>2. x[1] \in Uses /\ x[2] \in Origins /\ x[4] \in BOOLEAN /\ x[5] \in Hidings
  OBVIOUS
<1>3. IsReport(r, x[1], x[2], x[3], x[4], x[5])
  BY <1>1, <1>2 DEF IsReport
<1>. QED BY <1>3

ReportSays(r, use, o, service, lump, hid) ==
  LET c == r.callback
      context == use.fresh + use.read + use.write
  IN  /\ r.use = use /\ r.hid = hid
      /\ c.origin = o /\ c.service = service /\ c.generate = TRUE
      /\ c.input = (IF "input" \in hid THEN 0
                    ELSE IF o.convention = "independent" THEN use.fresh ELSE context)
      /\ c.read = (IF lump THEN 0 ELSE use.read)
      /\ c.write = (IF lump THEN 0 ELSE use.write)
      /\ c.cached = use.read + use.write
      /\ c.reasoning = (IF "reasoning" \in hid THEN 0 ELSE use.reasoning)
      /\ c.output = (IF "output" \in hid THEN 0
                     ELSE IF o.convention = "subset" THEN use.visible + use.reasoning
                     ELSE use.visible)
      /\ c.total = (IF "total" \in hid THEN 0 ELSE Size(use))
      /\ IsCallback(c)

\* The numbers of a callback, one by one.
LEMMA ReportFields ==
  ASSUME NEW r, NEW use, NEW o, NEW service, NEW lump, NEW hid,
         IsReport(r, use, o, service, lump, hid)
  PROVE  ReportSays(r, use, o, service, lump, hid)
<1>. DEFINE context == use.fresh + use.read + use.write
            output == IF o.convention = "subset" THEN use.visible + use.reasoning ELSE use.visible
            input == IF o.convention = "independent" THEN use.fresh ELSE context
            total == context + use.visible + use.reasoning
            full == [origin |-> o, service |-> service, generate |-> TRUE,
                     input |-> input,
                     read |-> IF lump THEN 0 ELSE use.read, write |-> IF lump THEN 0 ELSE use.write,
                     cached |-> use.read + use.write, reasoning |-> use.reasoning, output |-> output,
                     total |-> total]
            c == [f \in DOMAIN full |-> IF f \in hid THEN 0 ELSE full[f]]
<1>1. r = [callback |-> c, use |-> use, hid |-> hid]
  BY DEF IsReport, Report
<1>2. r.callback = c /\ r.use = use /\ r.hid = hid
  BY <1>1
<1>3. /\ use.fresh \in Nat /\ use.read \in Nat /\ use.write \in Nat
      /\ use.reasoning \in Nat /\ use.visible \in Nat
  BY CallbackAssumption DEF IsReport
<1>4. /\ "origin" \notin hid /\ "service" \notin hid /\ "generate" \notin hid
      /\ "read" \notin hid /\ "write" \notin hid /\ "cached" \notin hid
  <2>1. hid \in Hidings
    BY DEF IsReport
  <2>2. hid \subseteq {"total", "input", "output", "reasoning"}
    BY <2>1, HidingAssumption, Zenon
  <2>. HIDE DEF c, full
  <2>. QED BY <2>2
<1>5. total = Size(use)
  BY <1>3 DEF Size
<1>6. context \in Nat /\ input \in Nat /\ output \in Nat /\ total \in Nat
  BY <1>3
<1>. HIDE DEF context, input, output, total
<1>7. /\ c.origin = o /\ c.service = service /\ c.generate = TRUE
      /\ c.read = (IF lump THEN 0 ELSE use.read)
      /\ c.write = (IF lump THEN 0 ELSE use.write)
      /\ c.cached = use.read + use.write
  BY <1>4
<1>8. /\ c.input = IF "input" \in hid THEN 0 ELSE input
      /\ c.reasoning = IF "reasoning" \in hid THEN 0 ELSE use.reasoning
      /\ c.output = IF "output" \in hid THEN 0 ELSE output
      /\ c.total = IF "total" \in hid THEN 0 ELSE total
  OBVIOUS
<1>. HIDE DEF c
<1>9. IsCallback(c)
  <2>1. /\ c.input \in Int /\ c.output \in Int /\ c.reasoning \in Int /\ c.cached \in Int
        /\ c.read \in Int /\ c.write \in Int /\ c.total \in Int
    BY <1>3, <1>6, <1>7, <1>8
  <2>2. c.generate \in BOOLEAN
    BY <1>7
  <2>. QED BY <2>1, <2>2 DEF IsCallback, Fields
<1>. QED BY <1>2, <1>5, <1>7, <1>8, <1>9 DEF context, input, output, ReportSays

\* The numbers of a use and of what its callback names.
KnownSays(use, o, hid) ==
  LET known == Known(use, o, hid)
  IN  /\ use.fresh \in Nat /\ use.read \in Nat /\ use.write \in Nat
      /\ use.reasoning \in Nat /\ use.visible \in Nat /\ Size(use) <= MaxInt
      /\ known.fresh = (IF "input" \in hid THEN 0 ELSE use.fresh)
      /\ known.read = use.read /\ known.write = use.write
      /\ known.visible = (IF "output" \in hid THEN 0 ELSE use.visible)
      /\ known.reasoning =
           (IF "reasoning" \in hid \/ ("output" \in hid /\ o.convention = "subset") THEN 0
            ELSE use.reasoning)
      /\ Size(known) = Size(use) => known = use
      /\ Size(known) \in Nat /\ Size(use) \in Nat
      /\ ContextOf(known) \in Nat /\ ContextOf(use) \in Nat
      /\ ContextOf(known) <= Size(known)
      /\ ContextOf(known) <= ContextOf(use)
      /\ ContextOf(use) - ContextOf(known) <= Size(use) - Size(known)

\* Known has these fields; nothing it leaves out makes it larger.
LEMMA KnownFields ==
  ASSUME NEW use \in Uses, NEW o, NEW hid
  PROVE  KnownSays(use, o, hid)
<1>. DEFINE known == Known(use, o, hid)
            fresh == IF "input" \in hid THEN 0 ELSE use.fresh
            visible == IF "output" \in hid THEN 0 ELSE use.visible
            reasoning == IF "reasoning" \in hid \/ ("output" \in hid /\ o.convention = "subset")
                         THEN 0 ELSE use.reasoning
<1>1. /\ use \in [fresh : Nat, read : Nat, write : Nat, reasoning : Nat, visible : Nat]
      /\ use.fresh + use.read + use.write + use.reasoning + use.visible <= MaxInt
  BY CallbackAssumption
<1>2. known = [use EXCEPT !.fresh = fresh, !.visible = visible, !.reasoning = reasoning]
  BY DEF Known
<1>3. /\ fresh \in Nat /\ visible \in Nat /\ reasoning \in Nat
      /\ fresh <= use.fresh /\ visible <= use.visible /\ reasoning <= use.reasoning
  BY <1>1
<1>4. /\ known.fresh = fresh /\ known.read = use.read /\ known.write = use.write
      /\ known.visible = visible /\ known.reasoning = reasoning
  BY <1>1, <1>2
<1>. HIDE DEF known, fresh, visible, reasoning
<1>5. /\ Size(known) = fresh + use.read + use.write + reasoning + visible
      /\ ContextOf(known) = fresh + use.read + use.write
  BY <1>4 DEF Size, ContextOf
<1>6. ASSUME Size(known) = Size(use) PROVE known = use
  <2>0. /\ use.fresh \in Nat /\ use.read \in Nat /\ use.write \in Nat
        /\ use.reasoning \in Nat /\ use.visible \in Nat
    BY <1>1
  <2>3. Size(use) = use.fresh + use.read + use.write + use.reasoning + use.visible
    BY DEF Size
  <2>1. fresh = use.fresh /\ visible = use.visible /\ reasoning = use.reasoning
    BY <2>0, <1>3, <1>5, <1>6, <2>3
  <2>2. [use EXCEPT !.fresh = use.fresh, !.visible = use.visible, !.reasoning = use.reasoning] = use
    BY <1>1
  <2>. QED BY <1>2, <2>1, <2>2
<1>7. /\ Size(use) = use.fresh + use.read + use.write + use.reasoning + use.visible
      /\ ContextOf(use) = use.fresh + use.read + use.write
  BY DEF Size, ContextOf
<1>8. /\ Size(known) \in Nat /\ Size(use) \in Nat /\ Size(use) <= MaxInt
      /\ ContextOf(known) \in Nat /\ ContextOf(use) \in Nat
      /\ ContextOf(known) <= Size(known)
      /\ ContextOf(known) <= ContextOf(use)
      /\ ContextOf(use) - ContextOf(known) <= Size(use) - Size(known)
  BY <1>1, <1>3, <1>5, <1>7
<1>9. /\ use.fresh \in Nat /\ use.read \in Nat /\ use.write \in Nat
      /\ use.reasoning \in Nat /\ use.visible \in Nat
  BY <1>1
<1>. QED BY <1>4, <1>6, <1>8, <1>9, Zenon DEF known, fresh, visible, reasoning, KnownSays

\* The code finds the tokens that a callback names, whatever the convention, and
\* sees that one contradicts itself just when a number is torn.
LEMMA KnownTokens ==
  ASSUME NEW r, NEW use, NEW o, NEW service, NEW lump, NEW hid,
         IsReport(r, use, o, service, lump, hid)
  PROVE  LET c == r.callback
             t == Billable(c)
             known == Known(use, o, hid)
         IN  /\ Torn(use, o, hid) => Contradicts(c, t)
             /\ ~Torn(use, o, hid) =>
                  /\ ~Contradicts(c, t)
                  /\ t.input = known.fresh /\ t.read = known.read /\ t.write = known.write
                  /\ t.cached = known.read + known.write
                  /\ t.reasoning = known.reasoning /\ t.output = known.visible
<1>. DEFINE c == r.callback
            t == Billable(c)
            known == Known(use, o, hid)
            how == Semantics(o)
<1>1. /\ use \in Uses /\ o \in Origins /\ lump \in BOOLEAN /\ hid \in Hidings
      /\ o.convention = "unknown" => use.reasoning = 0
      /\ lump => use.write = 0
      /\ "reasoning" \in hid => o.convention # "subset"
  BY DEF IsReport
<1>2. o.convention = how /\ how \in {"subset", "independent", "separate", "unknown"}
  BY <1>1, ConventionAssumption, SemanticsCases
<1>3. /\ use.fresh \in Nat /\ use.read \in Nat /\ use.write \in Nat
      /\ use.reasoning \in Nat /\ use.visible \in Nat /\ Size(use) <= MaxInt
      /\ known.fresh = (IF "input" \in hid THEN 0 ELSE use.fresh)
      /\ known.read = use.read /\ known.write = use.write
      /\ known.visible = (IF "output" \in hid THEN 0 ELSE use.visible)
      /\ known.reasoning = (IF "reasoning" \in hid \/ ("output" \in hid /\ how = "subset")
                            THEN 0 ELSE use.reasoning)
  <2>1. KnownSays(use, o, hid)
    BY <1>1, KnownFields, Zenon
  <2>. HIDE DEF how
  <2>. QED BY <1>2, <2>1 DEF KnownSays
<1>4. /\ c.origin = o /\ IsCallback(c)
      /\ c.input = (IF "input" \in hid THEN 0 ELSE IF how = "independent" THEN use.fresh
                    ELSE use.fresh + use.read + use.write)
      /\ c.read = (IF lump THEN 0 ELSE use.read)
      /\ c.write = (IF lump THEN 0 ELSE use.write)
      /\ c.cached = use.read + use.write
      /\ c.reasoning = (IF "reasoning" \in hid THEN 0 ELSE use.reasoning)
      /\ c.output = (IF "output" \in hid THEN 0
                     ELSE IF how = "subset" THEN use.visible + use.reasoning ELSE use.visible)
  <2>1. ReportSays(r, use, o, service, lump, hid)
    BY ReportFields, Zenon
  <2>. HIDE DEF how
  <2>. QED BY <1>2, <2>1 DEF ReportSays
<1>. DEFINE reasoning == Positive(c.reasoning)
            output == Positive(c.output)
            least == IF reasoning <= output THEN reasoning ELSE output
<1>5. /\ t.read = IF Positive(c.read) # 0 \/ Positive(c.write) # 0 THEN Positive(c.read)
                   ELSE Positive(c.cached)
      /\ t.write = Positive(c.write)
      /\ t.cached = Cap(t.read + t.write)
      /\ how = "independent" => t.input = Positive(c.input)
      /\ how # "independent" => t.input = Positive(Positive(c.input) - t.cached)
      /\ how \in {"separate", "independent"} => t.reasoning = reasoning
      /\ how = "subset" => t.reasoning = least
      /\ how = "unknown" => t.reasoning = 0
      /\ how = "subset" => t.output = output - least
      /\ how # "subset" => t.output = output
  BY <1>4, BillableBuckets
<1>6. /\ c.input \in Nat /\ c.read \in Nat /\ c.write \in Nat /\ c.cached \in Nat
      /\ c.reasoning \in Nat /\ c.output \in Nat
  BY <1>3, <1>4
<1>7. /\ Positive(c.input) = c.input /\ Positive(c.read) = c.read /\ Positive(c.write) = c.write
      /\ Positive(c.cached) = c.cached /\ reasoning = c.reasoning /\ output = c.output
  BY <1>6 DEF Positive
<1>. HIDE DEF c, t, known, how, reasoning, output
<1>8. t.read = use.read /\ t.write = use.write
  <2>1. CASE lump
    BY <1>1, <1>3, <1>4, <1>5, <1>7, <2>1
  <2>2. CASE ~lump
    BY <1>3, <1>4, <1>5, <1>7, <2>2
  <2>. QED BY <2>1, <2>2
<1>9. t.cached = use.read + use.write
  <2>1. use.read + use.write <= MaxInt
    BY <1>3, PricingAssumption DEF Size
  <2>. QED BY <1>3, <1>5, <1>8, <2>1, PricingAssumption DEF Cap
<1>10. Contradicts(c, t) <=>
         \/ how \in {"subset", "separate"} /\ use.read + use.write > c.input
         \/ how = "subset" /\ c.reasoning > c.output
  BY <1>4, <1>7, <1>9 DEF Contradicts, how
<1>11. Torn(use, o, hid) <=>
         \/ "input" \in hid /\ how \in {"subset", "separate"} /\ use.read + use.write > 0
         \/ "output" \in hid /\ how = "subset" /\ use.reasoning > 0
  BY <1>2 DEF Torn
<1>12. Contradicts(c, t) <=> Torn(use, o, hid)
  <2>1. how \in {"subset", "separate"} =>
          (use.read + use.write > c.input <=> "input" \in hid /\ use.read + use.write > 0)
    <3>1. CASE "input" \in hid
      BY <1>4, <3>1
    <3>2. CASE "input" \notin hid
      BY <1>3, <1>4, <3>2
    <3>. QED BY <3>1, <3>2
  <2>2. how = "subset" => (c.reasoning > c.output <=> "output" \in hid /\ use.reasoning > 0)
    <3>. SUFFICES ASSUME how = "subset"
                  PROVE  c.reasoning > c.output <=> "output" \in hid /\ use.reasoning > 0
      OBVIOUS
    <3>1. c.reasoning = use.reasoning
      BY <1>1, <1>2, <1>4
    <3>2. CASE "output" \in hid
      BY <1>4, <3>1, <3>2
    <3>3. CASE "output" \notin hid
      BY <1>3, <1>4, <3>1, <3>3
    <3>. QED BY <3>2, <3>3
  <2>. QED BY <1>10, <1>11, <2>1, <2>2
<1>13. ASSUME ~Torn(use, o, hid)
       PROVE  t.input = known.fresh
  <2>1. CASE how = "independent"
    BY <1>3, <1>4, <1>5, <1>7, <2>1
  <2>2. CASE how # "independent" /\ "input" \in hid
    <3>1. t.input = Positive(0 - t.cached) /\ t.cached \in Nat
      BY <1>3, <1>4, <1>5, <1>7, <1>9, <2>2
    <3>. QED BY <1>3, <2>2, <3>1 DEF Positive
  <2>3. CASE how # "independent" /\ "input" \notin hid
    <3>1. t.input = Positive((use.fresh + use.read + use.write) - (use.read + use.write))
      BY <1>4, <1>5, <1>7, <1>9, <2>3
    <3>2. (use.fresh + use.read + use.write) - (use.read + use.write) = use.fresh
      BY <1>3
    <3>. QED BY <1>3, <2>3, <3>1, <3>2 DEF Positive
  <2>. QED BY <2>1, <2>2, <2>3
<1>14. t.reasoning = known.reasoning /\ t.output = known.visible
  <2>1. CASE how = "subset"
    <3>1. c.reasoning = use.reasoning
      BY <1>1, <1>2, <1>4, <2>1
    <3>2. CASE "output" \in hid
      BY <1>3, <1>4, <1>5, <1>7, <2>1, <3>1, <3>2
    <3>3. CASE "output" \notin hid
      BY <1>1, <1>2, <1>3, <1>4, <1>5, <1>7, <2>1, <3>1, <3>3
    <3>. QED BY <3>2, <3>3
  <2>2. CASE how \in {"separate", "independent"}
    BY <1>3, <1>4, <1>5, <1>7, <2>2
  <2>3. CASE how = "unknown"
    BY <1>1, <1>2, <1>3, <1>4, <1>5, <1>7, <2>3
  <2>. QED BY <1>2, <2>1, <2>2, <2>3
<1>. QED BY <1>3, <1>8, <1>9, <1>12, <1>13, <1>14 DEF c, t, known

-----------------------------------------------------------------------------
(* What a callback is charged.                                              *)

\* The context and the tokens accounted for are saturated sums.
LEMMA AccountedIsCap ==
  ASSUME NEW t \in Tokens
  PROVE  /\ Context(t) = Cap(t.input + t.cached) /\ Context(t) \in Nat
         /\ Accounted(t) = Cap(t.input + t.cached + t.reasoning + t.output)
         /\ Accounted(t) \in Nat /\ Accounted(t) <= MaxInt
<1>1. /\ t.input \in Nat /\ t.cached \in Nat /\ t.reasoning \in Nat /\ t.output \in Nat
  BY DEF Tokens
<1>2. Context(t) = Cap(t.input + t.cached) /\ Context(t) \in Nat
  BY <1>1, SumIsCap DEF Context
<1>. DEFINE a == Sum(Context(t), t.reasoning)
<1>3. a = Cap(t.input + t.cached + t.reasoning) /\ a \in Nat
  <2>1. a = Cap(Context(t) + t.reasoning) /\ a \in Nat
    BY <1>1, <1>2, SumIsCap
  <2>2. Cap(Cap(t.input + t.cached) + t.reasoning) = Cap(t.input + t.cached + t.reasoning)
    <3>1. t.input + t.cached \in Nat
      BY <1>1
    <3>. QED BY <1>1, <3>1, CapNested
  <2>. QED BY <1>2, <2>1, <2>2
<1>4. Accounted(t) = Sum(a, t.output)
  BY DEF Accounted
<1>. HIDE DEF a
<1>5. Accounted(t) = Cap(a + t.output) /\ Accounted(t) \in Nat /\ Accounted(t) <= MaxInt
  BY <1>1, <1>3, <1>4, SumIsCap
<1>6. Cap(Cap(t.input + t.cached + t.reasoning) + t.output)
        = Cap(t.input + t.cached + t.reasoning + t.output)
  <2>1. t.input + t.cached + t.reasoning \in Nat
    BY <1>1
  <2>. QED BY <1>1, <2>1, CapNested
<1>. QED BY <1>2, <1>3, <1>5, <1>6

\* A callback has no fewer than zero units.
LEMMA UnitsNat ==
  ASSUME NEW c, IsCallback(c)
  PROVE  Units(c) \in Nat
<1>1. Billable(c) \in Tokens
  BY BillableBuckets
<1>2. Accounted(Billable(c)) \in Nat
  BY <1>1, AccountedIsCap
<1>3. c.total \in Int /\ c.generate \in BOOLEAN
  BY DEF IsCallback, Fields
<1>. QED BY <1>2, <1>3 DEF Units

\* A callback is charged nothing, or the buckets it names, which are then within
\* its units.
LEMMA PricedCases ==
  ASSUME NEW rate, NEW c, IsCallback(c), NEW units \in Nat
  PROVE  LET p == PricedUsage(rate, c, units)
             t == Billable(c)
             cost == Cost(RateFor(rate, c.service, Context(t)), t)
             missing == units - Accounted(t)
         IN  /\ \/ p.cost = NoCost /\ p.tokens = NoTokens
                \/ p.tokens = t /\ Accounted(t) <= units /\ p.cost \in {NoCost, cost}
             /\ Contradicts(c, t) => p.cost = NoCost
             /\ ~Contradicts(c, t) /\ missing >= 0 =>
                  IF missing > 0 /\ Ambiguous(rate, c, t, missing, cost)
                  THEN p.cost = NoCost ELSE p.cost = cost
<1>. DEFINE p == PricedUsage(rate, c, units)
            t == Billable(c)
            cost == Cost(RateFor(rate, c.service, Context(t)), t)
            missing == units - Accounted(t)
            a == Contradicts(c, t)
            b == Ambiguous(rate, c, t, missing, cost)
            nothing == [cost |-> NoCost, tokens |-> NoTokens, reason |-> "unpriced"]
            exact == [cost |-> cost, tokens |-> t, reason |-> ""]
            tier == [cost |-> NoCost, tokens |-> t, reason |-> "tier"]
            partial == [cost |-> cost, tokens |-> t, reason |-> "unpriced"]
<1>1. p = CASE a \/ missing < 0 -> nothing
            [] ~a /\ missing = 0 -> exact
            [] ~a /\ missing > 0 /\ b -> tier
            [] OTHER -> partial
  BY DEF PricedUsage
<1>2. t \in Tokens
  BY BillableBuckets
<1>3. Accounted(t) \in Nat
  BY <1>2, AccountedIsCap
<1>4. missing \in Int /\ (missing >= 0 <=> Accounted(t) <= units)
  BY <1>3
<1>5. /\ nothing.cost = NoCost /\ nothing.tokens = NoTokens
      /\ exact.cost = cost /\ exact.tokens = t
      /\ tier.cost = NoCost /\ tier.tokens = t
      /\ partial.cost = cost /\ partial.tokens = t
  OBVIOUS
<1>. HIDE DEF p, t, cost, missing, a, b, nothing, exact, tier, partial
<1>6. CASE a \/ missing < 0
  <2>1. p = nothing
    BY <1>1, <1>4, <1>6
  <2>. QED BY <1>4, <1>5, <1>6, <2>1 DEF p, t, cost, missing, a, b
<1>7. CASE ~a /\ missing = 0
  <2>1. p = exact
    BY <1>1, <1>4, <1>7
  <2>. QED BY <1>4, <1>5, <1>7, <2>1 DEF p, t, cost, missing, a, b
<1>8. CASE ~a /\ missing > 0 /\ b
  <2>1. p = tier
    BY <1>1, <1>4, <1>8
  <2>. QED BY <1>4, <1>5, <1>8, <2>1 DEF p, t, cost, missing, a, b
<1>9. CASE ~a /\ missing > 0 /\ ~b
  <2>1. p = partial
    BY <1>1, <1>4, <1>9
  <2>. QED BY <1>4, <1>5, <1>9, <2>1 DEF p, t, cost, missing, a, b
<1>. QED BY <1>4, <1>6, <1>7, <1>8, <1>9

\* The settlement keeps the total and shows reasoning as output.
LEMMA SettlementParts ==
  ASSUME NEW rate, NEW c, IsCallback(c)
  PROVE  LET s == Settlement(rate, c)
             p == PricedUsage(rate, c, Units(c))
             t == Billable(c)
             cost == IF Units(c) > 0 THEN p.cost ELSE NoCost
             tokens == IF Units(c) > 0 THEN p.tokens ELSE t
         IN  /\ s.units = Units(c)
             /\ s.cost = [cost EXCEPT !.output = Sum(@, cost.reasoning)]
             /\ s.tokens = [tokens EXCEPT !.output = Sum(@, tokens.reasoning)]
<1>. DEFINE units == Units(c)
            p == PricedUsage(rate, c, units)
            none == [cost |-> NoCost, tokens |-> Billable(c), reason |-> ""]
            priced == IF units > 0 THEN p ELSE none
            tokens == priced.tokens
            cost == priced.cost
            t2 == [tokens EXCEPT !.output = Sum(@, tokens.reasoning)]
            c2 == [cost EXCEPT !.output = Sum(@, cost.reasoning)]
<1>1. Settlement(rate, c) = [units |-> units, reason |-> priced.reason, tokens |-> t2, cost |-> c2]
  BY DEF Settlement
<1>2. none.cost = NoCost /\ none.tokens = Billable(c)
  OBVIOUS
<1>. HIDE DEF p, none
<1>3. cost = (IF units > 0 THEN p.cost ELSE NoCost)
  BY <1>2
<1>4. tokens = (IF units > 0 THEN p.tokens ELSE Billable(c))
  BY <1>2
<1>. HIDE DEF priced
<1>5. /\ Settlement(rate, c).units = units
      /\ Settlement(rate, c).tokens = t2 /\ Settlement(rate, c).cost = c2
  BY <1>1
<1>. HIDE DEF tokens, cost
<1>. QED BY <1>3, <1>4, <1>5 DEF p

\* Each token costs at most the dearest of the prices, and each part is rounded
\* by at most half a micro-dollar.
LEMMA CostBound ==
  ASSUME NEW prices \in RatePrices, NEW t \in Tokens, NEW units \in Nat, units < MaxInt,
         t.cached = Cap(t.read + t.write), Accounted(t) <= units
  PROVE  \E part \in Parts : 2 * Unit * Cost(prices, t).total <= 2 * units * prices[part] + 5 * Unit
<1>. DEFINE ti == t.input
            tr == t.read
            tw == t.write
            tz == t.reasoning
            to == t.output
            pz == ReasoningPrice(prices)
            a == Rounded(ti, prices.input)
            b == Rounded(tr, prices.read)
            c == Rounded(tw, prices.write)
            d == Rounded(tz, pz)
            e == Rounded(to, prices.output)
            total == Cost(prices, t).total
<1>1. /\ ti \in Nat /\ tr \in Nat /\ tw \in Nat /\ tz \in Nat /\ to \in Nat /\ t.cached \in Nat
      /\ prices.input \in Nat /\ prices.read \in Nat /\ prices.write \in Nat
      /\ prices.output \in Nat /\ prices.reasoning \in Nat
      /\ pz \in {prices.output, prices.reasoning} /\ pz \in Nat
      /\ MaxInt \in Nat /\ Unit \in Nat
  BY PricingAssumption DEF Tokens, RatePrices, ReasoningPrice
<1>2. PICK q \in Parts : /\ prices[q] \in Nat
                         /\ prices.input <= prices[q] /\ prices.read <= prices[q]
                         /\ prices.write <= prices[q] /\ pz <= prices[q]
                         /\ prices.output <= prices[q]
  <2>. DEFINE S == {prices[part] : part \in Parts}
  <2>1. \A part \in Parts : prices[part] \in Nat
    BY DEF RatePrices, Parts
  <2>2. \E q \in Parts : \A part \in Parts : prices[part] <= prices[q]
    <3>. DEFINE x1 == prices["input"]
                x2 == prices["read"]
                x3 == prices["write"]
                x4 == prices["reasoning"]
                x5 == prices["output"]
    <3>1. x1 \in Nat /\ x2 \in Nat /\ x3 \in Nat /\ x4 \in Nat /\ x5 \in Nat
      BY <2>1 DEF Parts
    <3>. HIDE DEF x1, x2, x3, x4, x5
    <3>2. \E x \in {x1, x2, x3, x4, x5} : x1 <= x /\ x2 <= x /\ x3 <= x /\ x4 <= x /\ x5 <= x
      BY <3>1
    <3>3. PICK x \in {x1, x2, x3, x4, x5} : x1 <= x /\ x2 <= x /\ x3 <= x /\ x4 <= x /\ x5 <= x
      BY <3>2
    <3>4. PICK q \in Parts : x = prices[q]
      BY <3>3 DEF Parts, x1, x2, x3, x4, x5
    <3>. QED BY <3>3, <3>4 DEF Parts, x1, x2, x3, x4, x5
  <2>. QED BY <1>1, <2>1, <2>2 DEF Parts
<1>. DEFINE top == prices[q]
<1>3. /\ a \in Nat /\ 2 * (Unit * a) <= 2 * (ti * prices.input) + Unit
      /\ b \in Nat /\ 2 * (Unit * b) <= 2 * (tr * prices.read) + Unit
      /\ c \in Nat /\ 2 * (Unit * c) <= 2 * (tw * prices.write) + Unit
      /\ d \in Nat /\ 2 * (Unit * d) <= 2 * (tz * pz) + Unit
      /\ e \in Nat /\ 2 * (Unit * e) <= 2 * (to * prices.output) + Unit
  <2>1. \A m, n \in Nat : Rounded(m, n) \in Nat /\ 2 * (Unit * Rounded(m, n)) <= 2 * (m * n) + Unit
    BY RoundedNear
  <2>. HIDE DEF ti, tr, tw, tz, to, pz
  <2>. QED BY <1>1, <2>1
<1>4. total \in Nat /\ total = Cap(a + b + c + d + e)
  <2>1. total \in 0 .. MaxInt /\ total = Cap(a + b + c + d + e)
    BY CostAddsUp
  <2>. HIDE DEF total
  <2>. QED BY <1>1, <2>1
<1>5. ti + tr + tw + tz + to <= units
  <2>1. Accounted(t) = Cap(ti + t.cached + tz + to)
    BY AccountedIsCap
  <2>. HIDE DEF ti, tr, tw, tz, to
  <2>2. ti + t.cached + tz + to <= units
    BY <1>1, <2>1 DEF Cap
  <2>3. t.cached = tr + tw
    BY <1>1, <2>2 DEF Cap, tr, tw
  <2>. QED BY <1>1, <2>2, <2>3
<1>6. \A n \in Nat, m \in Nat : m <= top => n * m <= n * top /\ n * m \in Nat /\ n * top \in Nat
  <2>. SUFFICES ASSUME NEW n \in Nat, NEW m \in Nat, m <= top
                PROVE  n * m <= n * top /\ n * m \in Nat /\ n * top \in Nat
    OBVIOUS
  <2>1. top \in Nat
    BY <1>2
  <2>. HIDE DEF top
  <2>. QED BY <2>1
<1>7. top \in Nat /\ prices.input <= top /\ prices.read <= top /\ prices.write <= top
      /\ pz <= top /\ prices.output <= top
  BY <1>2
<1>. HIDE DEF ti, tr, tw, tz, to, pz, a, b, c, d, e, total, top
<1>8. /\ ti * prices.input <= ti * top /\ tr * prices.read <= tr * top
      /\ tw * prices.write <= tw * top /\ tz * pz <= tz * top /\ to * prices.output <= to * top
      /\ ti * prices.input \in Nat /\ tr * prices.read \in Nat /\ tw * prices.write \in Nat
      /\ tz * pz \in Nat /\ to * prices.output \in Nat
      /\ ti * top \in Nat /\ tr * top \in Nat /\ tw * top \in Nat /\ tz * top \in Nat
      /\ to * top \in Nat
  BY <1>1, <1>6, <1>7
<1>9. ti * top + tr * top + tw * top + tz * top + to * top <= units * top
  <2>. DEFINE sum == ti + tr + tw + tz + to
  <2>1. ti * top + tr * top + tw * top + tz * top + to * top = sum * top
    BY <1>1, <1>7
  <2>2. sum \in Nat /\ sum <= units
    BY <1>1, <1>5
  <2>. HIDE DEF sum
  <2>3. sum * top <= units * top
    BY <1>7, <2>2
  <2>. QED BY <2>1, <2>3
<1>10. /\ Unit * a \in Nat /\ Unit * b \in Nat /\ Unit * c \in Nat /\ Unit * d \in Nat
       /\ Unit * e \in Nat /\ Unit * total \in Nat /\ units * top \in Nat
       /\ Unit * (a + b + c + d + e) = Unit * a + Unit * b + Unit * c + Unit * d + Unit * e
  BY <1>1, <1>3, <1>4, <1>7
<1>11. Unit * total <= Unit * (a + b + c + d + e)
  <2>1. a + b + c + d + e \in Nat
    BY <1>3
  <2>2. total <= a + b + c + d + e
    BY <1>1, <1>4, <2>1 DEF Cap
  <2>. QED BY <1>1, <1>4, <2>1, <2>2
<1>12. 2 * (Unit * total) <= 2 * (units * top) + 5 * Unit
  BY <1>1, <1>3, <1>8, <1>9, <1>10, <1>11
<1>13. 2 * Unit * total = 2 * (Unit * total) /\ 2 * units * top = 2 * (units * top)
  BY <1>1, <1>4, <1>7
<1>. QED BY <1>12, <1>13 DEF total, top

\* A restart leaves every price but the mark that reasoning is priced as output.
LEMMA ReloadedPrices ==
  ASSUME NEW rate, IsRate(rate), NEW m \in {rate, Reloaded(rate)}, NEW prices \in PricesOf(m)
  PROVE  \E same \in PricesOf(rate) : \A part \in Parts : prices[part] = same[part]
<1>1. CASE m = rate
  BY <1>1
<1>2. CASE m = Reloaded(rate)
  <2>1. /\ m.tiers = rate.tiers /\ m.modes = rate.modes
        /\ \A part \in Parts : m.prices[part] = rate.prices[part]
    BY <1>2, ReloadedRate
  <2>2. \/ prices = m.prices
        \/ prices \in {m.tiers[i].prices : i \in DOMAIN m.tiers}
        \/ prices \in {m.modes[i].prices : i \in DOMAIN m.modes}
    BY DEF PricesOf
  <2>3. CASE prices = m.prices
    BY <2>1, <2>3 DEF PricesOf
  <2>4. CASE prices \in {m.tiers[i].prices : i \in DOMAIN m.tiers}
    BY <2>1, <2>4 DEF PricesOf
  <2>5. CASE prices \in {m.modes[i].prices : i \in DOMAIN m.modes}
    BY <2>1, <2>5 DEF PricesOf
  <2>. QED BY <2>2, <2>3, <2>4, <2>5
<1>. QED BY <1>1, <1>2

\* Without a price nothing costs.
LEMMA FreeCost ==
  ASSUME NEW prices \in RatePrices, NEW t \in Tokens, ~Paid(prices)
  PROVE  Cost(prices, t).total = 0
<1>1. /\ prices.input = 0 /\ prices.read = 0 /\ prices.write = 0
      /\ ReasoningPrice(prices) = 0 /\ prices.output = 0
  BY DEF Paid, Parts, RatePrices, ReasoningPrice
<1>2. \A n \in Nat : Rounded(n, 0) = 0
  BY RoundedFree
<1>3. /\ t.input \in Nat /\ t.read \in Nat /\ t.write \in Nat
      /\ t.reasoning \in Nat /\ t.output \in Nat
  BY DEF Tokens
<1>4. Cost(prices, t).total
        = Cap(Rounded(t.input, prices.input) + Rounded(t.read, prices.read)
              + Rounded(t.write, prices.write) + Rounded(t.reasoning, ReasoningPrice(prices))
              + Rounded(t.output, prices.output))
  BY CostAddsUp
<1>5. Cost(prices, t).total = Cap(0 + 0 + 0 + 0 + 0)
  BY <1>1, <1>2, <1>3, <1>4
<1>. QED BY <1>5, PricingAssumption DEF Cap

\* What NeverMoreThanUsed says of a settlement.
Modest(s, rate, free) ==
  /\ s.units > 0 => Sum(Sum(s.tokens.input, s.tokens.cached), s.tokens.output) <= s.units
  /\ s.cost.total <= MaxInt
  /\ s.units < MaxInt =>
       \E prices \in PricesOf(rate), part \in Parts :
         2 * Unit * s.cost.total <= 2 * s.units * prices[part] + 5 * Unit
  /\ s.cost.total = s.cost.input + s.cost.cached + s.cost.output \/ s.cost.total = MaxInt
  /\ free \/ s.units = 0 => s.cost.total = 0

\* A settlement says so, with the rate as it was set or as a restart reads it.
LEMMA SettlementModest ==
  ASSUME NEW rate, IsRate(rate), NEW m \in {rate, Reloaded(rate)},
         NEW c, IsCallback(c), NEW free \in BOOLEAN, free => ~HasCost(m)
  PROVE  Modest(Settlement(m, c), rate, free)
<1>. DEFINE s == Settlement(m, c)
            units == Units(c)
            t == Billable(c)
            prices == RateFor(m, c.service, Context(t))
            full == Cost(prices, t)
            p == PricedUsage(m, c, units)
            cost == IF units > 0 THEN p.cost ELSE NoCost
            tokens == IF units > 0 THEN p.tokens ELSE t
<1>1. t \in Tokens /\ t.cached = Cap(t.read + t.write) /\ Context(t) \in Nat
  BY BillableBuckets, AccountedIsCap
<1>2. units \in Nat
  BY UnitsNat
<1>3. IsRate(m)
  BY ReloadedRate
<1>4. prices \in PricesOf(m) /\ prices \in RatePrices
  BY <1>1, <1>3, RateForIsPricesAt
<1>5. /\ s.units = units
      /\ s.cost = [cost EXCEPT !.output = Sum(@, cost.reasoning)]
      /\ s.tokens = [tokens EXCEPT !.output = Sum(@, tokens.reasoning)]
  BY SettlementParts
<1>6. /\ cost \in {NoCost, full} /\ (units = 0 => cost = NoCost)
      /\ units > 0 => \/ cost = NoCost /\ tokens = NoTokens
                      \/ tokens = t /\ Accounted(t) <= units
  <2>1. \/ p.cost = NoCost /\ p.tokens = NoTokens
        \/ p.tokens = t /\ Accounted(t) <= units /\ p.cost \in {NoCost, full}
    BY <1>2, PricedCases
  <2>. HIDE DEF p, full, t, units
  <2>. QED BY <1>2, <2>1
<1>7. /\ full \in [Amounts -> Nat] /\ full.total \in 0 .. MaxInt
      /\ full.total < MaxInt =>
           /\ full.total = full.input + full.cached + full.reasoning + full.output
           /\ full.output + full.reasoning < MaxInt
  <2>. DEFINE a == Rounded(t.input, prices.input)
              b == Rounded(t.read, prices.read)
              d == Rounded(t.write, prices.write)
              e == Rounded(t.reasoning, ReasoningPrice(prices))
              f == Rounded(t.output, prices.output)
  <2>1. /\ full \in [Amounts -> Nat] /\ full.total \in 0 .. MaxInt
        /\ full.total = Cap(a + b + d + e + f)
        /\ full.total < MaxInt =>
             /\ full.input = a /\ full.cached = b + d
             /\ full.reasoning = e /\ full.output = f
    BY <1>1, <1>4, CostAddsUp
  <2>2. a \in Nat /\ b \in Nat /\ d \in Nat /\ e \in Nat /\ f \in Nat
    BY <1>1, <1>4, RoundedNear DEF Tokens, RatePrices, ReasoningPrice
  <2>. HIDE DEF full, a, b, d, e, f
  <2>. QED BY <2>1, <2>2, PricingAssumption DEF Cap
<1>8. /\ NoCost \in [Amounts -> Nat] /\ NoCost.total = 0 /\ NoCost.input = 0
      /\ NoCost.cached = 0 /\ NoCost.output = 0 /\ NoCost.reasoning = 0
  BY DEF NoCost, Amounts, Parts
<1>9. NoTokens \in Tokens /\ NoTokens.input = 0 /\ NoTokens.cached = 0 /\ NoTokens.output = 0
      /\ NoTokens.reasoning = 0
  BY DEF NoTokens, Tokens
<1>10. tokens \in Tokens
  <2>. HIDE DEF p, t, units
  <2>. QED BY <1>1, <1>2, <1>6, <1>9
<1>. HIDE DEF cost, tokens, full
<1>11. /\ s.cost.total = cost.total /\ s.cost.input = cost.input /\ s.cost.cached = cost.cached
       /\ s.cost.output = Sum(cost.output, cost.reasoning)
       /\ cost \in [Amounts -> Nat] /\ cost.total \in 0 .. MaxInt
       /\ cost.total \in Nat /\ cost.output \in Nat /\ cost.reasoning \in Nat
  <2>1. cost \in [Amounts -> Nat] /\ cost.total \in 0 .. MaxInt
    BY <1>6, <1>7, <1>8, PricingAssumption
  <2>. HIDE DEF s
  <2>. QED BY <1>5, <2>1 DEF Amounts, Parts
<1>12. /\ s.tokens.input = tokens.input /\ s.tokens.cached = tokens.cached
       /\ s.tokens.output = Sum(tokens.output, tokens.reasoning)
  <2>. HIDE DEF s
  <2>. QED BY <1>5, <1>10 DEF Tokens
<1>. HIDE DEF s, units, t, prices, p
<1>13. s.units > 0 => Sum(Sum(s.tokens.input, s.tokens.cached), s.tokens.output) <= s.units
  <2>. SUFFICES ASSUME s.units > 0
                PROVE  Sum(Sum(s.tokens.input, s.tokens.cached), s.tokens.output) <= s.units
    OBVIOUS
  <2>. DEFINE w == Sum(Sum(s.tokens.input, s.tokens.cached), s.tokens.output)
              i == tokens.input
              h == tokens.cached
              o == tokens.output
              z == tokens.reasoning
  <2>1. i \in Nat /\ h \in Nat /\ o \in Nat /\ z \in Nat
    BY <1>10 DEF Tokens
  <2>2. w = Sum(Sum(i, h), Sum(o, z))
    BY <1>12
  <2>3. Accounted(tokens) = Cap(i + h + z + o)
    BY <1>10, AccountedIsCap
  <2>. HIDE DEF i, h, o, z, w
  <2>4. Sum(i, h) = Cap(i + h) /\ Sum(o, z) = Cap(o + z) /\ Cap(i + h) \in Nat /\ Cap(o + z) \in Nat
    BY <2>1, SumIsCap
  <2>5. w = Cap(Cap(i + h) + Cap(o + z))
    BY <2>2, <2>4, SumIsCap
  <2>6. w = Cap(i + h + z + o)
    BY <2>1, <2>5, PricingAssumption DEF Cap
  <2>7. Accounted(tokens) <= units
    <3>1. CASE tokens = NoTokens
      <4>1. i = 0 /\ h = 0 /\ z = 0 /\ o = 0
        BY <1>9, <3>1 DEF i, h, z, o
      <4>. QED BY <1>2, <2>3, <4>1, PricingAssumption DEF Cap
    <3>2. CASE tokens = t /\ Accounted(t) <= units
      BY <3>2
    <3>. QED BY <1>5, <1>6, <3>1, <3>2
  <2>. QED BY <1>5, <2>3, <2>6, <2>7 DEF w
<1>14. s.cost.total <= MaxInt
  BY <1>11, PricingAssumption
<1>15. s.units < MaxInt =>
         \E q \in PricesOf(rate), part \in Parts :
           2 * Unit * s.cost.total <= 2 * s.units * q[part] + 5 * Unit
  <2>. SUFFICES ASSUME units < MaxInt
                PROVE  \E q \in PricesOf(rate), part \in Parts :
                         2 * Unit * cost.total <= 2 * units * q[part] + 5 * Unit
    BY <1>5, <1>11
  <2>1. CASE cost.total = 0
    <3>1. rate.prices \in PricesOf(rate) /\ "input" \in Parts /\ rate.prices["input"] \in Nat
      BY DEF PricesOf, Parts, IsRate, RatePrices
    <3>2. 2 * Unit * 0 <= 2 * units * rate.prices["input"] + 5 * Unit
      <4>1. units * rate.prices["input"] \in Nat /\ Unit \in Nat
        BY <1>2, <3>1, PricingAssumption
      <4>2. 2 * units * rate.prices["input"] = 2 * (units * rate.prices["input"])
        BY <1>2, <3>1
      <4>. QED BY <4>1, <4>2
    <3>. QED BY <2>1, <3>1, <3>2
  <2>2. CASE cost.total # 0
    <3>1. cost = full /\ units > 0 /\ Accounted(t) <= units
      BY <1>2, <1>6, <1>8, <2>2
    <3>2. PICK part \in Parts :
            2 * Unit * Cost(prices, t).total <= 2 * units * prices[part] + 5 * Unit
      BY <1>1, <1>2, <1>4, <3>1, CostBound
    <3>3. PICK same \in PricesOf(rate) : \A r \in Parts : prices[r] = same[r]
      BY <1>4, ReloadedPrices
    <3>4. cost.total = Cost(prices, t).total
      BY <3>1 DEF full
    <3>. QED BY <3>2, <3>3, <3>4
  <2>. QED BY <2>1, <2>2
<1>16. s.cost.total = s.cost.input + s.cost.cached + s.cost.output \/ s.cost.total = MaxInt
  <2>. SUFFICES ASSUME cost.total # MaxInt
                PROVE  cost.total = cost.input + cost.cached + Sum(cost.output, cost.reasoning)
    BY <1>11
  <2>1. cost.total < MaxInt
    BY <1>11, PricingAssumption
  <2>2. /\ cost.total = cost.input + cost.cached + cost.reasoning + cost.output
        /\ cost.output + cost.reasoning < MaxInt
    BY <1>6, <1>7, <1>8, <2>1, PricingAssumption
  <2>3. Sum(cost.output, cost.reasoning) = cost.output + cost.reasoning
    BY <1>11, <2>2, SumIsCap DEF Cap
  <2>4. cost.input \in Nat /\ cost.cached \in Nat
    BY <1>11 DEF Amounts, Parts
  <2>. QED BY <1>11, <2>2, <2>3, <2>4
<1>17. free \/ s.units = 0 => s.cost.total = 0
  <2>1. CASE s.units = 0
    BY <1>5, <1>6, <1>8, <1>11, <2>1
  <2>2. CASE free
    <3>1. ~Paid(prices)
      BY <1>4, <2>2 DEF HasCost, PricesOf
    <3>2. full.total = 0
      BY <1>1, <1>4, <3>1, FreeCost DEF full
    <3>. QED BY <1>6, <1>8, <1>11, <3>2
  <2>. QED BY <2>1, <2>2
<1>. QED BY <1>13, <1>14, <1>15, <1>16, <1>17 DEF Modest, s

\* The worth of known tokens is what the code charges for their buckets.
LEMMA WorthIsCost ==
  ASSUME NEW prices \in RatePrices, NEW t \in Tokens, NEW use,
         t.input = use.fresh, t.read = use.read, t.write = use.write,
         t.reasoning = use.reasoning, t.output = use.visible
  PROVE  Worth(prices, use) = Cost(prices, t).total
<1>. DEFINE a == Rounded(use.fresh, prices.input)
            b == Rounded(use.read, prices.read)
            c == Rounded(use.write, prices.write)
            d == Rounded(use.reasoning, ReasoningPrice(prices))
            e == Rounded(use.visible, prices.output)
            sum == a + b + c + d + e
<1>1. a \in Nat /\ b \in Nat /\ c \in Nat /\ d \in Nat /\ e \in Nat
  <2>1. \A m, n \in Nat : Rounded(m, n) \in Nat
    BY RoundedNear
  <2>2. /\ use.fresh \in Nat /\ use.read \in Nat /\ use.write \in Nat
        /\ use.reasoning \in Nat /\ use.visible \in Nat
    BY DEF Tokens
  <2>3. /\ prices.input \in Nat /\ prices.read \in Nat /\ prices.write \in Nat
        /\ ReasoningPrice(prices) \in Nat /\ prices.output \in Nat
    BY DEF RatePrices, ReasoningPrice
  <2>. QED BY <2>1, <2>2, <2>3
<1>2. Worth(prices, use) = Min({MaxInt, sum})
  BY DEF Worth, ReasoningPrice
<1>3. Cost(prices, t).total = Cap(sum)
  BY CostAddsUp
<1>. HIDE DEF a, b, c, d, e
<1>4. sum \in Nat /\ MaxInt \in Nat
  BY <1>1, PricingAssumption
<1>. HIDE DEF sum
<1>5. Min({MaxInt, sum}) = IF MaxInt <= sum THEN MaxInt ELSE sum
  BY <1>4, MinOfTwo
<1>. QED BY <1>2, <1>3, <1>4, <1>5 DEF Cap

\* A use costs what it is worth at its true context, whatever the convention.
LEMMA SettlementTrue ==
  ASSUME NEW rate, IsRate(rate), NEW r, NEW use, NEW o, NEW service, NEW lump, NEW hid,
         IsReport(r, use, o, service, lump, hid)
  PROVE  LET cost == Settlement(rate, r.callback).cost.total
             known == Known(use, o, hid)
             worth == Worth(PricesAt(rate, service, ContextOf(use)), known)
         IN  /\ Torn(use, o, hid) => cost = 0
             /\ ~Torn(use, o, hid) => /\ cost = worth \/ (cost = 0 /\ known # use)
                                      /\ Between(rate, known, use) = {} => cost = worth
<1>. DEFINE c == r.callback
            cost == Settlement(rate, c).cost.total
            known == Known(use, o, hid)
            k == ContextOf(known)
            x == ContextOf(use)
            worth == Worth(PricesAt(rate, service, x), known)
            t == Billable(c)
            units == Units(c)
            p == PricedUsage(rate, c, units)
            here == Cost(RateFor(rate, service, k), t)
            there == Cost(RateFor(rate, service, x), t)
<1>1. ReportSays(r, use, o, service, lump, hid)
  BY ReportFields
<1>2. use \in Uses /\ hid \in Hidings
  BY DEF IsReport
<1>3. KnownSays(use, o, hid)
  BY <1>2, KnownFields
<1>4. /\ use.fresh \in Nat /\ use.read \in Nat /\ use.write \in Nat
      /\ use.reasoning \in Nat /\ use.visible \in Nat /\ Size(use) <= MaxInt
      /\ Size(known) = Size(use) => known = use
      /\ Size(known) \in Nat /\ Size(use) \in Nat
      /\ k \in Nat /\ x \in Nat /\ k <= Size(known) /\ k <= x
      /\ x - k <= Size(use) - Size(known)
      /\ "input" \notin hid => known.fresh = use.fresh
      /\ "output" \notin hid => known.visible = use.visible
      /\ {"reasoning", "output"} \cap hid = {} => known.reasoning = use.reasoning
      /\ known.read = use.read /\ known.write = use.write
  BY <1>3 DEF KnownSays
<1>5. /\ c.origin = o /\ c.service = service /\ c.generate = TRUE /\ IsCallback(c)
      /\ c.total = IF "total" \in hid THEN 0 ELSE Size(use)
  BY <1>1 DEF ReportSays
<1>6. t \in Tokens /\ units \in Nat
  BY <1>5, BillableBuckets, UnitsNat
<1>7. cost = IF units > 0 THEN p.cost.total ELSE 0
  <2>. DEFINE paid == IF units > 0 THEN p.cost ELSE NoCost
  <2>1. Settlement(rate, c).cost = [paid EXCEPT !.output = Sum(@, paid.reasoning)]
    BY <1>5, SettlementParts
  <2>2. NoCost.total = 0 /\ NoCost \in [Amounts -> Nat]
    BY DEF NoCost, Amounts, Parts
  <2>3. units > 0 => p.cost \in [Amounts -> Nat]
    <3>. SUFFICES ASSUME units > 0 PROVE p.cost \in [Amounts -> Nat]
      OBVIOUS
    <3>. DEFINE full == Cost(RateFor(rate, c.service, Context(t)), t)
    <3>1. p.cost \in {NoCost, full}
      <4>. HIDE DEF p, full, units
      <4>1. \/ p.cost = NoCost /\ p.tokens = NoTokens
            \/ p.tokens = t /\ Accounted(t) <= units /\ p.cost \in {NoCost, full}
        BY <1>5, <1>6, PricedCases DEF p, full
      <4>. QED BY <4>1
    <3>2. RateFor(rate, c.service, Context(t)) \in RatePrices
      BY <1>6, AccountedIsCap, RateForIsPricesAt
    <3>3. full \in [Amounts -> Nat]
      BY <1>6, <3>2, CostAddsUp
    <3>. QED BY <2>2, <3>1, <3>3
  <2>4. paid \in [Amounts -> Nat]
    <3>. HIDE DEF p, units
    <3>. QED BY <2>2, <2>3
  <2>. HIDE DEF paid
  <2>5. cost = paid.total
    BY <2>1, <2>4 DEF Amounts
  <2>. HIDE DEF p, units, cost
  <2>. QED BY <2>2, <2>5 DEF paid
<1>8. ASSUME Torn(use, o, hid) PROVE cost = 0
  <2>1. Contradicts(c, t)
    BY <1>8, KnownTokens
  <2>2. units > 0 => p.cost = NoCost
    BY <1>5, <1>6, <2>1, PricedCases
  <2>3. NoCost.total = 0
    BY DEF NoCost
  <2>. HIDE DEF p, units, cost
  <2>. QED BY <1>7, <2>2, <2>3
<1>9. ASSUME ~Torn(use, o, hid)
      PROVE  /\ cost = worth \/ (cost = 0 /\ known # use)
             /\ Between(rate, known, use) = {} => cost = worth
  <2>1. /\ ~Contradicts(c, t)
        /\ t.input = known.fresh /\ t.read = known.read /\ t.write = known.write
        /\ t.cached = known.read + known.write
        /\ t.reasoning = known.reasoning /\ t.output = known.visible
    BY <1>9, KnownTokens
  <2>2. /\ t.input \in Nat /\ t.read \in Nat /\ t.write \in Nat /\ t.reasoning \in Nat
        /\ t.output \in Nat
    BY <1>6 DEF Tokens
  <2>3. Size(known) <= Size(use) /\ k + (Size(use) - Size(known)) <= MaxInt
    BY <1>4, PricingAssumption
  <2>4. Accounted(t) = Size(known) /\ Context(t) = k
    <3>1. /\ Accounted(t) = Cap(t.input + t.cached + t.reasoning + t.output)
          /\ Context(t) = Cap(t.input + t.cached)
      BY <1>6, AccountedIsCap
    <3>2. Size(known) = t.input + t.read + t.write + t.reasoning + t.output
      BY <2>1 DEF Size
    <3>3. k = t.input + t.read + t.write /\ t.cached = t.read + t.write
      BY <2>1 DEF ContextOf
    <3>4. Size(known) <= MaxInt /\ Size(known) \in Nat /\ MaxInt \in Nat
      BY <1>4, <2>3, PricingAssumption
    <3>. DEFINE n == Size(known)
                ti == t.input
                tr == t.read
                tw == t.write
                tz == t.reasoning
                to == t.output
    <3>5. /\ n = ti + tr + tw + tz + to /\ n <= MaxInt /\ MaxInt \in Nat
          /\ ti \in Nat /\ tr \in Nat /\ tw \in Nat /\ tz \in Nat /\ to \in Nat
      BY <2>2, <3>2, <3>4
    <3>6. Accounted(t) = Cap(ti + (tr + tw) + tz + to) /\ Context(t) = Cap(ti + (tr + tw))
          /\ k = ti + tr + tw
      BY <3>1, <3>3
    <3>. HIDE DEF n, ti, tr, tw, tz, to, k
    <3>7. ti + (tr + tw) + tz + to = n /\ ti + (tr + tw) = k /\ k \in Nat /\ k <= n /\ n \in Nat
      BY <3>5, <3>6
    <3>8. Cap(n) = n /\ Cap(k) = k
      BY <3>5, <3>7 DEF Cap
    <3>9. Accounted(t) = n /\ Context(t) = k
      BY <3>6, <3>7, <3>8
    <3>. QED BY <3>9 DEF n
  <2>5. units = Size(use)
    <3>1. units = IF c.total > 0 THEN c.total ELSE Accounted(t)
      BY <1>5 DEF Units
    <3>2. CASE "total" \in hid
      <4>1. hid = {"total"}
        BY <1>2, <3>2, HidingAssumption, Zenon
      <4>2. known.fresh = use.fresh /\ known.visible = use.visible /\ known.reasoning = use.reasoning
        BY <1>4, <4>1
      <4>3. Size(known) = Size(use)
        BY <1>4, <4>2 DEF Size
      <4>. HIDE DEF units, known, t, c
      <4>. QED BY <1>5, <2>4, <3>1, <3>2, <4>3
    <3>3. CASE "total" \notin hid /\ Size(use) > 0
      <4>. HIDE DEF units, known, t, c
      <4>. QED BY <1>5, <3>1, <3>3
    <3>4. CASE "total" \notin hid /\ Size(use) = 0
      <4>. HIDE DEF units, known, t, c
      <4>. QED BY <1>4, <1>5, <2>3, <2>4, <3>1, <3>4
    <3>. QED BY <1>4, <3>2, <3>3, <3>4
  <2>6. /\ RateFor(rate, service, k) \in RatePrices /\ RateFor(rate, service, x) \in RatePrices
        /\ RateFor(rate, service, x) = PricesAt(rate, service, x)
    BY <1>4, RateForIsPricesAt
  <2>7. worth = there.total
    <3>. HIDE DEF t, known, x
    <3>. QED BY <1>6, <2>1, <2>6, WorthIsCost
  <2>. DEFINE missing == Size(use) - Size(known)
  <2>8. Sum(k, missing) = k + missing /\ missing \in Nat
    <3>1. missing \in Nat
      BY <1>4, <2>3
    <3>2. Sum(k, missing) = Cap(k + missing)
      BY <1>4, <3>1, SumIsCap
    <3>. HIDE DEF k, known
    <3>. QED BY <1>4, <2>3, <3>1, <3>2, PricingAssumption DEF Cap
  <2>9. CASE units = 0
    <3>1. Size(known) = Size(use)
      BY <1>4, <2>3, <2>5, <2>9
    <3>2. use.fresh = 0 /\ use.read = 0 /\ use.write = 0 /\ use.reasoning = 0 /\ use.visible = 0
      <4>1. use.fresh + use.read + use.write + use.reasoning + use.visible = 0
        BY <2>5, <2>9 DEF Size
      <4>2. /\ use.fresh \in Nat /\ use.read \in Nat /\ use.write \in Nat
            /\ use.reasoning \in Nat /\ use.visible \in Nat
        BY <1>4
      <4>. QED BY <4>1, <4>2, ZeroSum
    <3>3. known = use
      BY <1>4, <3>1
    <3>4. t.input = 0 /\ t.read = 0 /\ t.write = 0 /\ t.reasoning = 0 /\ t.output = 0
      BY <2>1, <3>2, <3>3
    <3>5. there.total = 0
      <4>. DEFINE prices == RateFor(rate, service, x)
      <4>1. /\ prices.input \in Nat /\ prices.read \in Nat /\ prices.write \in Nat
            /\ ReasoningPrice(prices) \in Nat /\ prices.output \in Nat
        BY <2>6 DEF RatePrices, ReasoningPrice
      <4>2. \A n \in Nat : Rounded(0, n) = 0
        BY RoundedFree
      <4>3. there.total
              = Cap(Rounded(t.input, prices.input) + Rounded(t.read, prices.read)
                    + Rounded(t.write, prices.write)
                    + Rounded(t.reasoning, ReasoningPrice(prices)) + Rounded(t.output, prices.output))
        BY <1>6, <2>6, CostAddsUp
      <4>. HIDE DEF there, prices, t
      <4>4. there.total = Cap(0 + 0 + 0 + 0 + 0)
        BY <3>4, <4>1, <4>2, <4>3
      <4>. QED BY <4>4, PricingAssumption DEF Cap
    <3>. HIDE DEF units, cost, worth, there
    <3>. QED BY <1>7, <2>7, <2>9, <3>5
  <2>10. CASE units > 0
    <3>. DEFINE amb == Ambiguous(rate, c, t, missing, here)
    <3>1. p.cost = IF missing > 0 /\ amb THEN NoCost ELSE here
      <4>1. ~Contradicts(c, t) /\ units - Accounted(t) >= 0 =>
              p.cost = IF /\ units - Accounted(t) > 0
                          /\ Ambiguous(rate, c, t, units - Accounted(t),
                                       Cost(RateFor(rate, c.service, Context(t)), t))
                       THEN NoCost ELSE Cost(RateFor(rate, c.service, Context(t)), t)
        <5>1. IsCallback(c) /\ units \in Nat
          BY <1>5, <1>6
        <5>. HIDE DEF c, units
        <5>. QED BY <5>1, PricedCases, Zenon
      <4>2. units - Accounted(t) = missing /\ missing >= 0
        BY <2>4, <2>5, <2>8
      <4>. HIDE DEF p, t, k, units, missing
      <4>. QED BY <1>5, <2>1, <2>4, <4>1, <4>2
    <3>2. amb <=> /\ missing > 0
                  /\ \E i \in DOMAIN rate.tiers :
                       /\ rate.tiers[i].over > k /\ rate.tiers[i].over <= k + missing
                       /\ Cost(RateFor(rate, service, rate.tiers[i].over), t) # here
      <4>. HIDE DEF t, k, missing, here
      <4>. QED BY <1>5, <2>4, <2>8 DEF Ambiguous
    <3>3. Between(rate, known, use)
            = {i \in DOMAIN rate.tiers : /\ rate.tiers[i].over > k
                                        /\ rate.tiers[i].over <= k + missing}
      <4>1. k + Size(use) - Size(known) = k + missing
        BY <1>4
      <4>. HIDE DEF k, missing, known
      <4>. QED BY <4>1 DEF Between, k
    <3>4. CASE missing > 0 /\ amb
      <4>1. cost = 0
        <5>1. p.cost = NoCost /\ NoCost.total = 0
          BY <3>1, <3>4 DEF NoCost
        <5>. HIDE DEF p, cost, units
        <5>. QED BY <1>7, <2>10, <5>1
      <4>2. known # use
        <5>1. Size(known) # Size(use)
          BY <1>4, <3>4
        <5>. QED BY <5>1
      <4>3. Between(rate, known, use) # {}
        <5>. HIDE DEF k, missing, known, here, t, amb
        <5>. QED BY <3>2, <3>3, <3>4
      <4>. HIDE DEF cost, worth, known
      <4>. QED BY <4>1, <4>2, <4>3
    <3>5. CASE ~(missing > 0 /\ amb)
      <4>1. cost = here.total
        <5>1. p.cost = here
          <6>. HIDE DEF p, missing, amb, here
          <6>. QED BY <3>1, <3>5
        <5>. HIDE DEF p, cost, units, here
        <5>. QED BY <1>7, <2>10, <5>1
      <4>2. here = there
        <5>1. \/ RateFor(rate, service, x) = RateFor(rate, service, k)
              \/ \E i \in DOMAIN rate.tiers :
                   /\ rate.tiers[i].over > k /\ rate.tiers[i].over <= x
                   /\ RateFor(rate, service, rate.tiers[i].over) = RateFor(rate, service, x)
          <6>. HIDE DEF k, x
          <6>. QED BY <1>4, PricesChangeAtTier
        <5>2. CASE RateFor(rate, service, x) = RateFor(rate, service, k)
          BY <5>2
        <5>3. ASSUME NEW i \in DOMAIN rate.tiers,
                     rate.tiers[i].over > k, rate.tiers[i].over <= x,
                     RateFor(rate, service, rate.tiers[i].over) = RateFor(rate, service, x)
              PROVE  here = there
          <6>1. rate.tiers[i].over \in Nat
            BY DEF IsRate, Tier
          <6>2. missing > 0 /\ rate.tiers[i].over <= k + missing
            <7>1. x <= k + missing
              BY <1>4
            <7>. HIDE DEF k, x, missing
            <7>. QED BY <1>4, <2>8, <5>3, <6>1, <7>1
          <6>3. ~amb
            BY <3>5, <6>2
          <6>4. Cost(RateFor(rate, service, rate.tiers[i].over), t) = here
            <7>. HIDE DEF k, missing, here, amb, t
            <7>. QED BY <3>2, <5>3, <6>2, <6>3
          <6>. QED BY <5>3, <6>4
        <5>. QED BY <5>1, <5>2, <5>3
      <4>. HIDE DEF cost, worth, here, there
      <4>. QED BY <2>7, <4>1, <4>2
    <3>. QED BY <3>4, <3>5
  <2>. QED BY <1>6, <2>9, <2>10
<1>. QED BY <1>8, <1>9

-----------------------------------------------------------------------------
(* The invariant.                                                           *)

\* A rate that a request has agreed on: the one set, or the one a restart makes of it.
RateHeld(m) ==
  /\ m \in {agreed, Reloaded(agreed)}
  /\ reloads = 0 => m = agreed
  /\ waived => ~HasCost(m)

CardHeld ==
  \/ modelRate = Absent /\ profile = Absent
  \/ /\ IsRate(asSet) /\ profile = asSet
     /\ modelRate \in {asSet, Reloaded(asSet)}
     /\ reloads = 0 => modelRate = asSet

MarkerHeld == marker # Absent => IsRate(agreed) /\ RateHeld(marker)

SettledHeld ==
  settled # Absent =>
    /\ IsRate(agreed) /\ settled.report \in Reports \cup OddReports
    /\ \E m \in {agreed, Reloaded(agreed)} :
         RateHeld(m) /\ settled.s = Settlement(m, settled.report.callback)

PriceInv ==
  /\ reloads \in Nat /\ waived \in BOOLEAN
  /\ CardHeld /\ MarkerHeld /\ SettledHeld

\* The invariant holds initially.
LEMMA PriceInvInit ==
  ASSUME PriceInit PROVE PriceInv
BY DEF PriceInit, PriceInv, CardHeld, MarkerHeld, SettledHeld

\* Setting a rate keeps the invariant.
LEMMA SetRateKeeps ==
  ASSUME PriceInv, NEW rate, IsRate(rate), SetRate(rate)
  PROVE  PriceInv'
<1>1. modelRate' = rate /\ profile' = rate /\ asSet' = rate /\ settled = Absent
      /\ UNCHANGED <<marker, settled, agreed, waived, reloads>>
  BY DEF SetRate
<1>2. CardHeld'
  BY <1>1 DEF CardHeld
<1>3. MarkerHeld' /\ SettledHeld'
  BY <1>1 DEF PriceInv, MarkerHeld, SettledHeld, RateHeld
<1>. QED BY <1>1, <1>2, <1>3 DEF PriceInv

\* Every step keeps the invariant.
LEMMA PriceInvStep ==
  ASSUME PriceInv, [PriceNext]_priceVars
  PROVE  PriceInv'
<1>1. CASE ReplaceRate
  <2>1. PICK set \in Rates : \E rate \in Normalized(set) : SetRate(rate)
    BY <1>1 DEF ReplaceRate
  <2>2. PICK rate \in Normalized(set) : SetRate(rate)
    BY <2>1
  <2>. QED BY <2>2, ReplacedIsRate, SetRateKeeps
<1>2. CASE SyncModelRates
  <2>1. PICK entry \in Catalog : \E rate \in Normalized(FromModelsDev(entry)) : SetRate(rate)
    BY <1>2 DEF SyncModelRates
  <2>2. PICK rate \in Normalized(FromModelsDev(entry)) : SetRate(rate)
    BY <2>1
  <2>. QED BY <2>2, SynchronizedIsRate, SetRateKeeps
<1>3. CASE Admit
  <2>1. /\ settled = Absent /\ modelRate # Absent /\ marker' = modelRate /\ agreed' = asSet
        /\ UNCHANGED <<modelRate, profile, settled, asSet, reloads>>
        /\ waived' \in BOOLEAN /\ (waived' => ~HasCost(modelRate))
    BY <1>3 DEF Admit
  <2>2. /\ IsRate(asSet) /\ modelRate \in {asSet, Reloaded(asSet)}
        /\ reloads = 0 => modelRate = asSet
    BY <2>1 DEF PriceInv, CardHeld
  <2>3. MarkerHeld'
    BY <2>1, <2>2 DEF MarkerHeld, RateHeld
  <2>4. CardHeld' /\ SettledHeld'
    BY <2>1 DEF PriceInv, CardHeld, SettledHeld
  <2>. QED BY <2>1, <2>3, <2>4 DEF PriceInv
<1>4. CASE Reload
  <2>1. /\ settled = Absent /\ reloads' = reloads + 1
        /\ modelRate' = (IF profile = Absent THEN Absent ELSE Reloaded(profile))
        /\ marker' = (IF marker = Absent THEN Absent ELSE Reloaded(marker))
        /\ UNCHANGED <<profile, settled, asSet, agreed, waived>>
    BY <1>4 DEF Reload
  <2>2. reloads' \in Nat /\ reloads' # 0
    BY <2>1 DEF PriceInv
  <2>3. CardHeld'
    BY <2>1, <2>2 DEF PriceInv, CardHeld
  <2>4. MarkerHeld'
    <3>. SUFFICES ASSUME marker' # Absent PROVE MarkerHeld'
      BY DEF MarkerHeld
    <3>1. IsRate(agreed) /\ RateHeld(marker) /\ marker' = Reloaded(marker)
      BY <2>1 DEF PriceInv, MarkerHeld
    <3>2. Reloaded(Reloaded(agreed)) = Reloaded(agreed) /\ IsRate(marker)
      BY <3>1, ReloadedRate DEF RateHeld
    <3>3. HasCost(marker') <=> HasCost(marker)
      BY <3>1, <3>2, ReloadedRate
    <3>4. marker' = Reloaded(agreed)
      BY <3>1, <3>2 DEF RateHeld
    <3>. QED BY <2>1, <2>2, <3>1, <3>3, <3>4 DEF MarkerHeld, RateHeld
  <2>5. SettledHeld'
    BY <2>1 DEF SettledHeld
  <2>. QED BY <2>1, <2>2, <2>3, <2>4, <2>5 DEF PriceInv
<1>5. ASSUME NEW report \in Reports \cup OddReports, RecordUsage(report)
      PROVE  PriceInv'
  <2>1. /\ marker # Absent /\ marker' = Absent
        /\ settled' = [s |-> Settlement(marker, report.callback), report |-> report]
        /\ UNCHANGED <<modelRate, profile, asSet, agreed, waived, reloads>>
    BY <1>5 DEF RecordUsage
  <2>2. IsRate(agreed) /\ RateHeld(marker)
    BY <2>1 DEF PriceInv, MarkerHeld
  <2>3. settled'.report = report /\ settled'.s = Settlement(marker, report.callback)
    BY <2>1
  <2>4. SettledHeld'
    <3>1. \E m \in {agreed', Reloaded(agreed')} :
            /\ m \in {agreed', Reloaded(agreed')}
            /\ reloads' = 0 => m = agreed'
            /\ waived' => ~HasCost(m)
            /\ settled'.s = Settlement(m, settled'.report.callback)
      BY <2>1, <2>2, <2>3 DEF RateHeld
    <3>. QED BY <1>5, <2>1, <2>2, <2>3, <3>1 DEF SettledHeld, RateHeld
  <2>5. CardHeld' /\ MarkerHeld'
    BY <2>1 DEF PriceInv, CardHeld, MarkerHeld
  <2>. QED BY <2>1, <2>4, <2>5 DEF PriceInv
<1>6. CASE UNCHANGED priceVars
  BY <1>6 DEF priceVars, PriceInv, CardHeld, MarkerHeld, SettledHeld, RateHeld
<1>. QED BY <1>1, <1>2, <1>3, <1>4, <1>5, <1>6 DEF PriceNext

\* The marker has the rate that was set when the request was admitted, as it was
\* or as a restart reads it, and a settlement was made with such a rate.
THEOREM PriceInvariant == PriceSpec => []PriceInv
<1>. QED BY PriceInvInit, PriceInvStep, PTL DEF PriceSpec

\* Every callback has whole numbers.
LEMMA ReportsAreCallbacks ==
  ASSUME NEW report \in Reports \cup OddReports
  PROVE  IsCallback(report.callback)
<1>1. CASE report \in Reports
  <2>1. PICK use, o, service, lump, hid : IsReport(report, use, o, service, lump, hid)
    BY <1>1, ReportExists
  <2>. QED BY <2>1, ReportFields DEF ReportSays
<1>2. CASE report \in OddReports
  <2>1. PICK c \in Odd : report.callback = c
    BY <1>2 DEF OddReports
  <2>2. c \in [origin : Origins, service : STRING, generate : BOOLEAN, input : Int,
               output : Int, reasoning : Int, cached : Int, read : Int, write : Int, total : Int]
    BY CallbackAssumption
  <2>. QED BY <2>1, <2>2 DEF IsCallback, Fields
<1>. QED BY <1>1, <1>2

\* Whatever a callback says (billing.go:347-392, engine.go:984-997), no more tokens
\* are charged than it has units, none above the dearest price of the rate the
\* request was admitted with but for the rounding, the parts make up the total,
\* and what was let past a spent budget is free.
THEOREM NoMoreThanUsed == PriceSpec => []NeverMoreThanUsed
<1>1. ASSUME PriceInv PROVE NeverMoreThanUsed
  <2>. SUFFICES ASSUME settled # Absent
                PROVE  Modest(settled.s, agreed, waived)
    BY DEF NeverMoreThanUsed, Modest
  <2>1. IsRate(agreed) /\ settled.report \in Reports \cup OddReports /\ waived \in BOOLEAN
    BY <1>1 DEF PriceInv, SettledHeld
  <2>2. PICK m \in {agreed, Reloaded(agreed)} :
          RateHeld(m) /\ settled.s = Settlement(m, settled.report.callback)
    BY <1>1 DEF PriceInv, SettledHeld
  <2>3. IsCallback(settled.report.callback)
    BY <2>1, ReportsAreCallbacks
  <2>4. waived => ~HasCost(m)
    BY <2>2 DEF RateHeld
  <2>5. Modest(Settlement(m, settled.report.callback), agreed, waived)
    BY <2>1, <2>3, <2>4, SettlementModest
  <2>. QED BY <2>2, <2>5
<1>. QED BY <1>1, PriceInvariant, PTL

\* A use costs the same in every convention (billing.go:279-392): each token its
\* callback names once, at the prices the admitted rate has for the true context,
\* or nothing where the missing tokens could change these.
THEOREM PriceIsTrue == PriceSpec => []TruePrice
<1>1. ASSUME PriceInv PROVE TruePrice
  <2>. SUFFICES ASSUME settled # Absent, settled.report.use # Absent,
                       reloads > 0 => agreed.prices.byOutput
                PROVE  ChargedRight(agreed)
    BY DEF TruePrice
  <2>1. IsRate(agreed) /\ settled.report \in Reports \cup OddReports /\ reloads \in Nat
    BY <1>1 DEF PriceInv, SettledHeld
  <2>2. PICK m \in {agreed, Reloaded(agreed)} :
          RateHeld(m) /\ settled.s = Settlement(m, settled.report.callback)
    BY <1>1 DEF PriceInv, SettledHeld
  <2>3. m = agreed
    <3>1. CASE reloads = 0
      BY <2>2, <3>1 DEF RateHeld
    <3>2. CASE reloads > 0
      BY <2>1, <2>2, <3>2, ReloadedRate
    <3>. QED BY <2>1, <3>1, <3>2
  <2>4. settled.report \in Reports
    BY <2>1 DEF OddReports
  <2>. DEFINE report == settled.report
  <2>5. PICK use, o, service, lump, hid : IsReport(report, use, o, service, lump, hid)
    BY <2>4, ReportExists
  <2>6. /\ report.use = use /\ report.hid = hid /\ report.callback.origin = o
        /\ report.callback.service = service
    <3>1. ReportSays(report, use, o, service, lump, hid)
      BY <2>5, ReportFields, Zenon
    <3>. HIDE DEF report
    <3>. QED BY <3>1 DEF ReportSays
  <2>. DEFINE cost == settled.s.cost.total
              known == Known(use, o, hid)
              worth == Worth(PricesAt(agreed, service, ContextOf(use)), known)
  <2>7. /\ Torn(use, o, hid) => cost = 0
        /\ ~Torn(use, o, hid) => /\ cost = worth \/ (cost = 0 /\ known # use)
                                 /\ Between(agreed, known, use) = {} => cost = worth
    BY <2>1, <2>2, <2>3, <2>5, SettlementTrue
  <2>8. ChargedRight(agreed)
          = CASE Torn(use, o, hid) -> cost = 0
              [] OTHER -> /\ cost = worth \/ (cost = 0 /\ known # use)
                          /\ Between(agreed, known, use) = {} => cost = worth
    BY <2>6 DEF ChargedRight
  <2>. HIDE DEF cost, known, worth
  <2>. QED BY <2>7, <2>8
<1>. QED BY <1>1, PriceInvariant, PTL

-----------------------------------------------------------------------------
(* The inductive invariant.                                                 *)

\* A complete response has a body, and the candidates' marks are the card's.
RunSound ==
  /\ run.pc \in {"answered", "committed"} => run.body \in Upstream
  /\ run.pc = "asked" =>
       \A m \in run.candidates : Has(card, m, "models.dev") => (m \in run.added <=> card[m].only)

\* Between commit and installation SQLite is ahead of memory by one merge.
CommitAhead ==
  run.pc = "committed" =>
    /\ run.retired = Retired(card, run)
    /\ cardRows = Merged(card, run, run.retired)

\* An ETag stands for the content that the card in SQLite was made of: every
\* priced candidate has the price of models.dev, and nothing else is from there.
TagDescribesCard ==
  ~edited /\ statusRows.etag # None =>
    \A m \in Models :
      /\ m \in Matched(statusRows.fingerprint, statusRows.etag) =>
           /\ Has(cardRows, m, "models.dev")
           /\ cardRows[m].price = statusRows.etag[m]
      /\ Has(cardRows, m, "models.dev") => m \in Matched(statusRows.fingerprint, statusRows.etag)

SyncInv == TypeOK /\ CardInStep /\ RunSound /\ CommitAhead /\ TagDescribesCard

-----------------------------------------------------------------------------
(* Lemmas about the operators.                                              *)

\* A merge gives a card.
LEMMA MergedType ==
  ASSUME NEW c \in [Models -> Rate \cup {NoRate}], NEW r \in Run, r.body \in Upstream, NEW gone
  PROVE  Merged(c, r, gone) \in [Models -> Rate \cup {NoRate}]
<1>. SUFFICES ASSUME NEW m \in Models
              PROVE  Merged(c, r, gone)[m] \in Rate \cup {NoRate}
  BY DEF Merged
<1>1. CASE m \in Matched(r.candidates, r.body)
  <2>1. r.body[m] \in Prices
    BY <1>1 DEF Matched, Upstream
  <2>. QED BY <1>1, <2>1 DEF Merged, Rate
<1>2. CASE m \notin Matched(r.candidates, r.body)
  BY <1>2 DEF Merged
<1>. QED BY <1>1, <1>2

\* The candidates and their marks are models.
LEMMA CandidateTypes ==
  ASSUME TypeOK
  PROVE  Candidates(card) \in SUBSET Models /\ Added(card) \in SUBSET Models
BY DEF TypeOK, Candidates, Added

\* What an operator sends is stored as a rate.
LEMMA SentType ==
  ASSUME TypeOK, NEW m \in Models
  PROVE  Sent(m) \subseteq Rate \cup {NoRate}
<1>1. ASSUME NEW source \in {"manual", "models.dev"}, NEW price \in Prices \cup {HandPrice}
      PROVE  Put(m, source, price) \in Rate
  <2>1. CASE card[m] # NoRate
    <3>1. card[m].only \in BOOLEAN
      BY <2>1 DEF TypeOK, Rate
    <3>. QED BY <2>1, <3>1 DEF Put, Rate
  <2>2. CASE card[m] = NoRate
    BY <2>2 DEF Put, Rate
  <2>. QED BY <2>1, <2>2
<1>2. card[m] \in Rate \cup {NoRate}
  BY DEF TypeOK
<1>. QED BY <1>1, <1>2 DEF Sent

\* A switch gives a status, and keeps the ETag or drops it.
LEMMA SwitchedType ==
  ASSUME TypeOK, NEW enabled \in BOOLEAN
  PROVE  /\ Switched(enabled) \in Status
         /\ Switched(enabled).etag = None \/ /\ Switched(enabled).etag = status.etag
                                             /\ Switched(enabled).fingerprint = status.fingerprint
         /\ enabled /\ ~status.enabled => Switched(enabled).etag = None
BY DEF TypeOK, Status, Switched

\* A merge keeps what was priced by hand priced.
LEMMA MergedKeepsHandPriced ==
  ASSUME NEW c \in [Models -> Rate \cup {NoRate}], NEW r \in Run, r.body \in Upstream,
         NEW m \in Models, c[m] # NoRate, c[m].source # "models.dev"
  PROVE  Merged(c, r, Retired(c, r))[m] # NoRate
<1>1. m \notin Retired(c, r)
  BY DEF Retired, Has
<1>2. CASE m \in Matched(r.candidates, r.body)
  <2>1. r.body[m] \in Prices
    BY <1>2 DEF Matched, Upstream
  <2>2. [source |-> "models.dev", only |-> m \in r.added, price |-> r.body[m]] \in Rate
    BY <2>1 DEF Rate
  <2>. QED BY <1>2, <2>2 DEF Merged, NoRate
<1>3. CASE m \notin Matched(r.candidates, r.body)
  BY <1>1, <1>3 DEF Merged
<1>. QED BY <1>2, <1>3

-----------------------------------------------------------------------------
(* Type correctness.                                                        *)

\* The initial state has the right types.
LEMMA TypeInit == Init => TypeOK
<1>. SUFFICES ASSUME Init PROVE TypeOK
  OBVIOUS
<1>1. Seed \in Rate
  BY DEF Seed, Rate
<1>2. Free \in Run
  BY DEF Free, Run
<1>. QED BY <1>1, <1>2 DEF Init, TypeOK, Status

\* Every action keeps the types.
LEMMA TypeStep ==
  ASSUME SyncInv, [Next]_vars
  PROVE  TypeOK'
<1>. USE DEF SyncInv, bounds, rates, state, wakes
<1>0. Free \in Run
  BY DEF Free, Run
<1>r. \A by \in {"none", "loop", "panel"} :
        Resume(by) => /\ loop' \in [pc : {"status", "swap", "begin", "wait", "done"},
                                    enabled : BOOLEAN, due : BOOLEAN]
                      /\ panel' \in {"idle", "added", "sync", "wake"}
  BY DEF Resume, TypeOK
<1>b. run \in Run /\ run.by \in {"none", "loop", "panel"}
  BY DEF TypeOK, Run
<1>1. ASSUME NEW by \in {"loop", "panel"}, BeginSync(by) PROVE TypeOK'
  <2>1. run' \in Run
    BY <1>1, CandidateTypes DEF BeginSync, Run
  <2>. QED BY <1>1, <2>1 DEF BeginSync, TypeOK
<1>2. ASSUME Unreachable PROVE TypeOK'
  <2>1. run' \in Run
    BY <1>2, <1>b DEF Unreachable, Run
  <2>. QED BY <1>2, <2>1 DEF Unreachable, TypeOK
<1>3. ASSUME NotModified PROVE TypeOK'
  <2>1. [status EXCEPT !.fingerprint = run.candidates] \in Status
    BY <1>b DEF TypeOK, Status, Run
  <2>. QED BY <1>3, <1>0, <1>b, <1>r, <2>1 DEF NotModified, Finish, TypeOK
<1>4. ASSUME Answered PROVE TypeOK'
  <2>1. run' \in Run
    BY <1>4, <1>b DEF Answered, Run, TypeOK
  <2>. QED BY <1>4, <2>1 DEF Answered, TypeOK
<1>5. ASSUME Reconcile PROVE TypeOK'
  <2>1. run.body \in Upstream
    BY <1>5 DEF Reconcile, RunSound
  <2>2. Retired(cardRows, run) \in SUBSET Models
    BY DEF Retired
  <2>3. run' \in Run
    BY <1>5, <1>b, <2>2, ZenonT(30) DEF Reconcile, Run
  <2>4. cardRows' \in [Models -> Rate \cup {NoRate}]
    BY <1>5, <1>b, <2>1, MergedType DEF Reconcile, TypeOK
  <2>5. statusRows' \in Status
    BY <1>5, <1>b, <2>1 DEF Reconcile, TypeOK, Status, Run
  <2>. QED BY <1>5, <2>3, <2>4, <2>5 DEF Reconcile, TypeOK
<1>6. ASSUME Install PROVE TypeOK'
  <2>1. card' \in [Models -> Rate \cup {NoRate}]
    BY <1>6, <1>b, MergedType DEF Install, Installed, RunSound, TypeOK
  <2>. QED BY <1>6, <1>0, <1>b, <1>r, <2>1 DEF Install, TypeOK
<1>7. ASSUME FinishFailed PROVE TypeOK'
  BY <1>7, <1>0, <1>b, <1>r DEF FinishFailed, Finish, TypeOK
<1>8. ASSUME FinishFails PROVE TypeOK'
  BY <1>8, <1>0, <1>b, <1>r DEF FinishFails, TypeOK
<1>9. ASSUME LoopStep PROVE TypeOK'
  <2>1. CASE LoopRead
    BY <2>1 DEF LoopRead, LoopUnchanged, TypeOK, Status
  <2>2. CASE LoopSwap
    BY <2>2 DEF LoopSwap, LoopUnchanged, TypeOK
  <2>3. CASE LoopWake
    BY <2>3 DEF LoopWake, LoopUnchanged, TypeOK
  <2>4. CASE LoopStop
    BY <2>4 DEF LoopStop, LoopUnchanged, TypeOK
  <2>. QED BY <1>9, <2>1, <2>2, <2>3, <2>4 DEF LoopStep
<1>10. ASSUME NEW new \in [Models -> UNION {Sent(m) : m \in Models}], ReplaceModelRates(new)
       PROVE  TypeOK'
  <2>1. new \in [Models -> Rate \cup {NoRate}]
    BY <1>10, SentType DEF ReplaceModelRates
  <2>. QED BY <1>10, <2>1 DEF ReplaceModelRates, TypeOK
<1>11. ASSUME NEW new, ReplaceModels(new) PROVE TypeOK'
  BY <1>11 DEF ReplaceModels, TypeOK
<1>12. ASSUME NEW enabled \in BOOLEAN, SetModelRateSyncEnabled(enabled) PROVE TypeOK'
  BY <1>12, <1>0, SwitchedType DEF SetModelRateSyncEnabled, Refused, TypeOK
<1>13. ASSUME RequestModelRateSync \/ WakeModelRateSync PROVE TypeOK'
  BY <1>13 DEF RequestModelRateSync, WakeModelRateSync, TypeOK
<1>14. ASSUME Environment PROVE TypeOK'
  <2>1. ASSUME NEW new \in Upstream, Move(new) PROVE TypeOK'
    BY <2>1 DEF Move, TypeOK
  <2>2. CASE TimePasses
    BY <2>2 DEF TimePasses, TypeOK
  <2>3. CASE Close
    BY <2>3 DEF Close, TypeOK
  <2>4. CASE Restart
    BY <2>4, <1>0 DEF Restart, TypeOK
  <2>. QED BY <1>14, <2>1, <2>2, <2>3, <2>4 DEF Environment
<1>15. ASSUME UNCHANGED vars PROVE TypeOK'
  BY <1>15 DEF vars, TypeOK
<1>. QED
  BY <1>1, <1>2, <1>3, <1>4, <1>5, <1>6, <1>7, <1>8, <1>9, <1>10, <1>11, <1>12, <1>13,
     <1>14, <1>15 DEF Next, SyncStep, PanelStep

-----------------------------------------------------------------------------
(* The other parts of the invariant.                                        *)

\* The invariant holds initially.
LEMMA SyncInvInit == Init => SyncInv
<1>. SUFFICES ASSUME Init PROVE SyncInv
  OBVIOUS
<1>. QED BY TypeInit DEF Init, SyncInv, CardInStep, RunSound, CommitAhead, TagDescribesCard, Free

\* The actions that change neither copy of the card, nor a status, nor the run.
Aside == LoopStep \/ RequestModelRateSync \/ WakeModelRateSync \/ TimePasses \/ Close
         \/ (\E new \in Upstream : Move(new)) \/ (\E new \in SUBSET Models : ReplaceModels(new))
         \/ UNCHANGED vars

\* They do not.
LEMMA AsideChangesNothing ==
  ASSUME Aside
  PROVE  UNCHANGED <<card, cardRows, status, statusRows, run, edited>>
BY DEF Aside, LoopStep, LoopRead, LoopSwap, LoopWake, LoopStop, LoopUnchanged,
       RequestModelRateSync, WakeModelRateSync, TimePasses, Close, Move, ReplaceModels,
       vars, rates, state, bounds

\* A step is an aside or one of the others.
LEMMA Steps ==
  ASSUME [Next]_vars
  PROVE  \/ Aside
         \/ \E by \in {"loop", "panel"} : BeginSync(by)
         \/ Unreachable \/ NotModified \/ Answered \/ Reconcile \/ Install
         \/ FinishFailed \/ FinishFails \/ Restart
         \/ \E new : ReplaceModelRates(new)
         \/ \E enabled \in BOOLEAN : SetModelRateSyncEnabled(enabled)
BY DEF Next, SyncStep, PanelStep, Environment, Aside

\* The switch leaves the run free and the cards alone, and both statuses go together.
LEMMA SwitchStep ==
  ASSUME NEW enabled \in BOOLEAN, SetModelRateSyncEnabled(enabled)
  PROVE  /\ run.pc = "free" /\ run'.pc = "free"
         /\ UNCHANGED <<card, cardRows>>
         /\ \/ status' = Switched(enabled) /\ statusRows' = Switched(enabled)
            \/ UNCHANGED <<status, statusRows>>
<1>1. CASE UNCHANGED run
  BY <1>1 DEF SetModelRateSyncEnabled, Held, rates, state
<1>2. CASE run' = Refused
  BY <1>2 DEF SetModelRateSyncEnabled, Refused, Held, Free, rates, state
<1>. QED BY <1>1, <1>2 DEF SetModelRateSyncEnabled

\* What is merged twice from the same card is the same.
LEMMA InStepStep ==
  ASSUME SyncInv, [Next]_vars
  PROVE  CardInStep'
<1>. USE DEF SyncInv, rates, state, CardInStep
<1>1. CASE Aside
  BY <1>1, AsideChangesNothing
<1>2. CASE \E by \in {"loop", "panel"} : BeginSync(by)
  BY <1>2 DEF BeginSync, Held
<1>3. CASE Unreachable \/ Answered \/ FinishFails
  BY <1>3 DEF Unreachable, Answered, FinishFails
<1>4. CASE NotModified \/ FinishFailed
  BY <1>4 DEF NotModified, FinishFailed, Finish
<1>5. CASE Reconcile
  <2>1. run \in Run
    BY DEF TypeOK
  <2>2. run'.pc # "committed" => UNCHANGED <<card, cardRows, status, statusRows>>
    BY <1>5, <2>1 DEF Reconcile, Run
  <2>. QED BY <1>5, <2>2 DEF Reconcile
<1>6. CASE Install
  BY <1>6 DEF Install, Installed, CommitAhead
<1>7. CASE Restart
  BY <1>7 DEF Restart
<1>8. CASE \E new : ReplaceModelRates(new)
  BY <1>8 DEF ReplaceModelRates, Held
<1>9. CASE \E enabled \in BOOLEAN : SetModelRateSyncEnabled(enabled)
  BY <1>9, SwitchStep
<1>. QED BY <1>1, <1>2, <1>3, <1>4, <1>5, <1>6, <1>7, <1>8, <1>9, Steps

\* The run's marks are taken from the card it will merge into.
LEMMA RunSoundStep ==
  ASSUME SyncInv, [Next]_vars
  PROVE  RunSound'
<1>. USE DEF SyncInv, rates, state, RunSound
<1>a. run \in Run
  BY DEF TypeOK
<1>1. CASE Aside
  BY <1>1, AsideChangesNothing DEF Has
<1>2. ASSUME NEW by \in {"loop", "panel"}, BeginSync(by) PROVE RunSound'
  <2>1. run'.pc = "asked" /\ run'.candidates = Candidates(card) /\ run'.added = Added(card)
        /\ card' = card
    BY <1>2 DEF BeginSync
  <2>2. ASSUME NEW m \in Candidates(card), Has(card, m, "models.dev")
        PROVE  m \in Added(card) <=> card[m].only
    <3>1. CASE m \in catalog
      BY <2>2, <3>1 DEF Added, Has, TypeOK
    <3>2. CASE m \notin catalog
      BY <2>2, <3>2 DEF Added, Candidates, Has
    <3>. QED BY <3>1, <3>2
  <2>. QED BY <2>1, <2>2 DEF Has
<1>3. CASE Unreachable \/ FinishFails \/ NotModified \/ FinishFailed \/ Install
  BY <1>3, <1>a DEF Unreachable, FinishFails, NotModified, FinishFailed, Finish, Install, Free, Run
<1>4. CASE Answered
  BY <1>4, <1>a DEF Answered, Run, TypeOK
<1>5. CASE Reconcile
  BY <1>5, <1>a DEF Reconcile, Run
<1>6. CASE Restart
  BY <1>6 DEF Restart, Free
<1>7. CASE \E new : ReplaceModelRates(new)
  BY <1>7 DEF ReplaceModelRates, Held
<1>8. CASE \E enabled \in BOOLEAN : SetModelRateSyncEnabled(enabled)
  BY <1>8, SwitchStep
<1>. QED BY <1>1, <1>2, <1>3, <1>4, <1>5, <1>6, <1>7, <1>8, Steps

\* SQLite is never ahead by anything but the merge of the run.
LEMMA CommitAheadStep ==
  ASSUME SyncInv, [Next]_vars
  PROVE  CommitAhead'
<1>. USE DEF SyncInv, rates, state, CommitAhead
<1>a. run \in Run
  BY DEF TypeOK
<1>1. CASE Aside
  BY <1>1, AsideChangesNothing DEF Retired, Merged, Has, Matched
<1>2. CASE Reconcile
  <2>1. CASE run'.pc = "committed"
    <3>1. /\ run' = [run EXCEPT !.pc = "committed", !.retired = Retired(cardRows, run)]
          /\ cardRows' = Merged(cardRows, run, Retired(cardRows, run))
          /\ card' = card /\ card = cardRows
      BY <1>2, <1>a, <2>1 DEF Reconcile, CardInStep, Run
    <3>2. run'.candidates = run.candidates /\ run'.added = run.added /\ run'.body = run.body
          /\ run'.retired = Retired(cardRows, run)
      BY <3>1, <1>a DEF Run
    <3>. QED BY <3>1, <3>2 DEF Retired, Merged, Has, Matched
  <2>. QED BY <2>1
<1>3. CASE run'.pc # "committed"
  BY <1>3
<1>4. (\E by \in {"loop", "panel"} : BeginSync(by)) => run'.pc # "committed"
  BY DEF BeginSync
<1>5. Unreachable \/ Answered => run'.pc # "committed"
  BY <1>a DEF Unreachable, Answered, Run
<1>6. NotModified \/ Install \/ FinishFailed \/ FinishFails \/ Restart => run'.pc # "committed"
  BY DEF NotModified, Install, FinishFailed, FinishFails, Finish, Restart, Free
<1>7. (\E enabled \in BOOLEAN : SetModelRateSyncEnabled(enabled)) => run'.pc # "committed"
  BY SwitchStep
<1>8. (\E new : ReplaceModelRates(new)) => run'.pc # "committed"
  BY DEF ReplaceModelRates, Held
<1>. QED BY <1>1, <1>2, <1>3, <1>4, <1>5, <1>6, <1>7, <1>8, Steps

\* An ETag is saved together with the card that was made of its content.
LEMMA TagStep ==
  ASSUME SyncInv, [Next]_vars
  PROVE  TagDescribesCard'
<1>. USE DEF SyncInv, rates, state
<1>a. run \in Run /\ statusRows \in Status /\ status \in Status
  BY DEF TypeOK
<1>b. ASSUME UNCHANGED <<cardRows, edited>>,
             statusRows'.etag # None => /\ statusRows'.etag = statusRows.etag
                                        /\ statusRows'.fingerprint = statusRows.fingerprint
      PROVE  TagDescribesCard'
  BY <1>b DEF TagDescribesCard, Matched, Has
<1>1. CASE Aside
  BY <1>1, <1>b, AsideChangesNothing
<1>2. CASE (\E by \in {"loop", "panel"} : BeginSync(by)) \/ Unreachable \/ Answered \/ FinishFails
  BY <1>2, <1>b DEF BeginSync, Unreachable, Answered, FinishFails
<1>3. CASE Install \/ Restart
  BY <1>3, <1>b DEF Install, Restart
<1>4. CASE FinishFailed
  BY <1>4, <1>b DEF FinishFailed, Finish, CardInStep
<1>5. CASE NotModified
  BY <1>5, <1>a, <1>b DEF NotModified, AsksConditionally, Finish, CardInStep, Status
<1>6. CASE Reconcile
  <2>1. CASE run'.pc = "failed"
    BY <1>6, <1>a, <1>b, <2>1 DEF Reconcile, Run
  <2>2. ASSUME NEW tag \in {run.body, None},
               cardRows' = Merged(cardRows, run, Retired(cardRows, run)),
               statusRows' = [status EXCEPT !.etag = tag, !.fingerprint = run.candidates]
        PROVE  TagDescribesCard'
    <3>1. statusRows'.etag = tag /\ statusRows'.fingerprint = run.candidates
      BY <2>2, <1>a DEF Status
    <3>2. SUFFICES ASSUME tag # None, NEW m \in Models
                   PROVE  /\ m \in Matched(run.candidates, run.body) =>
                               Has(cardRows', m, "models.dev") /\ cardRows'[m].price = run.body[m]
                          /\ Has(cardRows', m, "models.dev") => m \in Matched(run.candidates, run.body)
      BY <3>1, <2>2 DEF TagDescribesCard
    <3>3. CASE m \in Matched(run.candidates, run.body)
      <4>1. run.body[m] \in Prices
        BY <1>6, <3>3 DEF Reconcile, RunSound, Matched, Upstream
      <4>2. cardRows'[m] = [source |-> "models.dev", only |-> m \in run.added, price |-> run.body[m]]
        BY <2>2, <3>3 DEF Merged
      <4>3. cardRows'[m] \in Rate
        BY <4>1, <4>2 DEF Rate
      <4>. QED BY <3>3, <4>2, <4>3 DEF Has, NoRate
    <3>4. CASE m \notin Matched(run.candidates, run.body)
      BY <2>2, <3>4 DEF Merged, Retired, Has, NoRate
    <3>. QED BY <3>3, <3>4
  <2>. QED BY <1>6, <1>a, <2>1, <2>2 DEF Reconcile, Run
<1>7. CASE \E new : ReplaceModelRates(new)
  BY <1>7 DEF ReplaceModelRates, TagDescribesCard
<1>8. ASSUME NEW enabled \in BOOLEAN, SetModelRateSyncEnabled(enabled) PROVE TagDescribesCard'
  <2>1. status = statusRows
    BY <1>8 DEF SetModelRateSyncEnabled, CardInStep, Held
  <2>2. CASE UNCHANGED <<statusRows, edited>>
    BY <1>8, <1>b, <2>2 DEF SetModelRateSyncEnabled
  <2>3. CASE statusRows' = Switched(enabled) /\ enabled /\ ~status.enabled
    BY <2>3, SwitchedType DEF TagDescribesCard
  <2>4. CASE statusRows' = Switched(enabled) /\ ~(enabled /\ ~status.enabled) /\ edited' = edited
    BY <1>8, <1>b, <2>1, <2>4, SwitchedType DEF SetModelRateSyncEnabled
  <2>. QED BY <1>8, <2>2, <2>3, <2>4 DEF SetModelRateSyncEnabled
<1>. QED BY <1>1, <1>2, <1>3, <1>4, <1>5, <1>6, <1>7, <1>8, Steps

-----------------------------------------------------------------------------
(* The theorems.                                                            *)

\* The inductive invariant holds in every reachable state.
THEOREM SyncInvariant == Spec => []SyncInv
<1>1. SyncInv /\ [Next]_vars => SyncInv'
  BY TypeStep, InStepStep, RunSoundStep, CommitAheadStep, TagStep DEF SyncInv
<1>. QED BY SyncInvInit, <1>1, PTL DEF Spec

\* Every variable of the rate card and its synchronization keeps its type
\* (models_dev.go, store_models.go); in particular every rate has a price.
THEOREM TypeCorrect == Spec => []TypeOK
<1>1. SyncInv => TypeOK
  BY DEF SyncInv
<1>. QED BY SyncInvariant, <1>1, PTL

\* The card admissions price with is the card in SQLite, but for the moment
\* between a commit and its installation (models_dev.go:233-247).
THEOREM MemoryInStep == Spec => []CardInStep
<1>1. SyncInv => CardInStep
  BY DEF SyncInv
<1>. QED BY SyncInvariant, <1>1, PTL

\* A 304 is accepted only for a card the response would leave as it is
\* (models_dev.go:191-206).
THEOREM NotModifiedSound == Spec => NotModifiedIsCurrent
<1>. DEFINE response == [run EXCEPT !.body = upstream]
            Current  == NotModified /\ ~edited => Merged(card, response, Retired(card, response)) = card
<1>1. SyncInv => Current
  <2>. SUFFICES ASSUME SyncInv, NotModified, ~edited
                PROVE  Merged(card, response, Retired(card, response)) = card
    OBVIOUS
  <2>1. /\ run \in Run /\ card \in [Models -> Rate \cup {NoRate}] /\ upstream \in Upstream
        /\ run.pc = "asked" /\ card = cardRows /\ status = statusRows
        /\ status.etag = upstream /\ status.etag # None /\ status.fingerprint = run.candidates
    BY DEF SyncInv, TypeOK, NotModified, AsksConditionally, CardInStep
  <2>2. response.candidates = run.candidates /\ response.added = run.added /\ response.body = upstream
    BY <2>1 DEF Run
  <2>. HIDE DEF response
  <2>3. ASSUME NEW m \in Models
        PROVE  Merged(card, response, Retired(card, response))[m] = card[m]
    <3>1. CASE m \in Matched(run.candidates, upstream)
      <4>1. Has(card, m, "models.dev") /\ card[m].price = upstream[m] /\ card[m] \in Rate
        BY <2>1, <3>1 DEF SyncInv, TagDescribesCard, Has, NoRate
      <4>2. card[m].only <=> m \in run.added
        BY <2>1, <3>1, <4>1 DEF SyncInv, RunSound, Matched
      <4>3. card[m].only = (m \in run.added)
        BY <4>1, <4>2 DEF Rate
      <4>4. card[m] = [source |-> "models.dev", only |-> m \in run.added, price |-> upstream[m]]
        BY <4>1, <4>3 DEF Rate, Has
      <4>. QED BY <2>2, <3>1, <4>4 DEF Merged
    <3>2. CASE m \notin Matched(run.candidates, upstream)
      <4>1. m \notin Retired(card, response)
        BY <2>1, <2>2, <3>2 DEF SyncInv, TagDescribesCard, Retired
      <4>. QED BY <2>2, <3>2, <4>1 DEF Merged
    <3>. QED BY <3>1, <3>2
  <2>. QED BY <2>1, <2>3 DEF Merged
<1>2. NotModifiedIsCurrent <=> [][Current]_vars
  BY DEF NotModifiedIsCurrent
<1>. QED BY SyncInvariant, <1>1, <1>2, PTL

\* A synchronization leaves no model without a price that an operator or the
\* seed gave it, in memory or in SQLite (models_dev.go:237-243,
\* store_models.go:167-192).
THEOREM HandPricesSurvive == Spec => HandPricedStayPriced
<1>. DEFINE Kept == Held => \A m \in Models : card[m] # NoRate /\ card[m].source # "models.dev"
                              => card'[m] # NoRate /\ cardRows'[m] # NoRate
<1>1. SyncInv /\ [Next]_vars => Kept
  <2>. SUFFICES ASSUME SyncInv, [Next]_vars, Held, NEW m \in Models, card[m] # NoRate,
                       card[m].source # "models.dev"
                PROVE  card'[m] # NoRate /\ cardRows'[m] # NoRate
    OBVIOUS
  <2>a. run \in Run /\ card \in [Models -> Rate \cup {NoRate}]
    BY DEF SyncInv, TypeOK
  <2>b. run.body \in Upstream => Merged(card, run, Retired(card, run))[m] # NoRate
    BY <2>a, MergedKeepsHandPriced
  <2>c. cardRows[m] # NoRate
    <3>1. CASE run.pc = "committed"
      BY <2>b, <3>1 DEF SyncInv, CommitAhead, RunSound
    <3>2. CASE run.pc # "committed"
      BY <3>2 DEF SyncInv, CardInStep
    <3>. QED BY <3>1, <3>2
  <2>1. CASE Reconcile
    BY <2>1, <2>b, <2>c DEF Reconcile, SyncInv, RunSound, CardInStep
  <2>2. CASE Install
    BY <2>2, <2>b, <2>c DEF Install, Installed, SyncInv, RunSound, CommitAhead
  <2>3. CASE Restart
    BY <2>3, <2>c DEF Restart
  <2>4. CASE UNCHANGED <<card, cardRows>>
    BY <2>4, <2>c
  <2>5. Reconcile \/ Install \/ Restart \/ UNCHANGED <<card, cardRows>>
    BY Steps, AsideChangesNothing DEF BeginSync, Unreachable, NotModified, Answered, FinishFailed,
       FinishFails, Finish, ReplaceModelRates, SetModelRateSyncEnabled, Held, rates
  <2>. QED BY <2>1, <2>2, <2>3, <2>4, <2>5
<1>2. HandPricedStayPriced <=> [][Kept]_vars
  BY DEF HandPricedStayPriced
<1>. QED BY SyncInvariant, <1>1, <1>2, PTL DEF Spec
=============================================================================
