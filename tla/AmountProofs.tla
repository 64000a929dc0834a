----------------------------- MODULE AmountProofs ----------------------------
(***************************************************************************)
(* Lemmas about Trade, Payments, Neobank's statements and what they extend, *)
(* for any vendors, any calendar and any call: the aggregate of prices, the *)
(* best of the quotes, the end of the last session, the sums that balance   *)
(* changes, transfers and fees add up to.  OperationsProofs draws its       *)
(* theorems from them.                                                      *)
(***************************************************************************)
EXTENDS Trade, Payments, Neobank, SequencesExt, SequenceTheorems, FiniteSetTheorems, TLAPS

-----------------------------------------------------------------------------
(***************************************************************************)
(* Greatest and least: of a bounded set of integers, and of the values at   *)
(* some positions of a list.                                                *)
(***************************************************************************)

(* A set of natural numbers has a least one. *)
LEMMA LeastNatural ==
  ASSUME NEW S \in SUBSET Nat, S # {}
  PROVE  \E x \in S : \A y \in S : x <= y
<1> DEFINE Less == {p \in Nat \X Nat : p[1] < p[2]}
<1>1. IsWellFoundedOn(Less, Nat)
  BY NatLessThanWellFounded, Zenon DEF OpToRel
<1>2. PICK x \in S : \A y \in S : <<y, x>> \notin Less
  BY <1>1, WFMin
<1>3. ASSUME NEW y \in S PROVE x <= y
  <2>1. x \in Nat /\ y \in Nat
    OBVIOUS
  <2>2. y < x => <<y, x>> \in Less
    BY <2>1
  <2>3. QED
    BY <1>2, <2>1, <2>2
<1>4. QED
  BY <1>3

(* What Max and Min are, of integers that are bounded. *)
LEMMA MinIs ==
  ASSUME NEW S \in SUBSET Int, S # {}, NEW lo \in Int, \A x \in S : lo <= x
  PROVE  Min(S) \in S /\ \A x \in S : Min(S) <= x
<1> DEFINE D == {x - lo : x \in S}
<1>1. D \in SUBSET Nat /\ D # {}
  <2>1. \A x \in S : x - lo \in Nat /\ x - lo \in D
    OBVIOUS
  <2>2. QED
    BY <2>1
<1> HIDE DEF D
<1>2. PICK d \in D : \A e \in D : d <= e
  BY <1>1, LeastNatural
<1>3. PICK x \in S : d = x - lo
  BY DEF D
<1>4. \A y \in S : x <= y
  <2> SUFFICES ASSUME NEW y \in S PROVE x <= y
    OBVIOUS
  <2>1. y - lo \in D
    BY DEF D
  <2>2. d <= y - lo
    BY <1>2, <2>1
  <2>3. QED
    BY <1>3, <2>2
<1>5. QED
  BY <1>4 DEF Min

LEMMA MaxIs ==
  ASSUME NEW S \in SUBSET Int, S # {}, NEW hi \in Int, \A x \in S : x <= hi
  PROVE  Max(S) \in S /\ \A x \in S : x <= Max(S)
<1> DEFINE D == {hi - x : x \in S}
<1>1. D \in SUBSET Nat /\ D # {}
  <2>1. \A x \in S : hi - x \in Nat /\ hi - x \in D
    OBVIOUS
  <2>2. QED
    BY <2>1
<1> HIDE DEF D
<1>2. PICK d \in D : \A e \in D : d <= e
  BY <1>1, LeastNatural
<1>3. PICK x \in S : d = hi - x
  BY DEF D
<1>4. \A y \in S : y <= x
  <2> SUFFICES ASSUME NEW y \in S PROVE y <= x
    OBVIOUS
  <2>1. hi - y \in D
    BY DEF D
  <2>2. d <= hi - y
    BY <1>2, <2>1
  <2>3. QED
    BY <1>3, <2>2
<1>5. \E z \in S : \A y \in S : z >= y
  BY <1>4
<1>6. QED
  BY <1>5 DEF Max

(* Some position has the greatest value. *)
LEMMA GreatestAt ==
  ASSUME NEW n \in Nat, NEW S \in SUBSET (1..n), S # {}, NEW f, \A i \in S : f[i] \in Nat
  PROVE  \E i \in S : \A j \in S : f[j] <= f[i]
<1> DEFINE K == {k \in 0..n : \E i \in S : \A j \in S : j <= k => f[j] <= f[i]}
           k == Max(K)
<1>1. 0 \in K
  <2>1. PICK i \in S : TRUE
    OBVIOUS
  <2>2. \A j \in S : j <= 0 => f[j] <= f[i]
    OBVIOUS
  <2>3. QED
    BY <2>1, <2>2
<1>2. k \in K /\ \A l \in K : l <= k
  <2>1. K \in SUBSET Int /\ \A l \in K : l <= n
    OBVIOUS
  <2> HIDE DEF K
  <2>2. QED
    BY <1>1, <2>1, MaxIs
<1> HIDE DEF k
<1>3. PICK i \in S : \A j \in S : j <= k => f[j] <= f[i]
  BY <1>2
<1>4. k \in 0..n
  BY <1>2
<1>5. CASE k = n
  BY <1>3, <1>5
<1>6. CASE k # n
  <2>1. k + 1 \in 0..n /\ k + 1 \notin K
    BY <1>2, <1>4, <1>6
  <2>2. CASE k + 1 \in S /\ f[i] <= f[k + 1]
    <3>1. \A j \in S : j <= k + 1 => f[j] <= f[k + 1]
      BY <1>3, <1>4, <2>2
    <3>2. QED
      BY <2>1, <2>2, <3>1
  <2>3. CASE ~(k + 1 \in S /\ f[i] <= f[k + 1])
    <3>1. \A j \in S : j <= k + 1 => f[j] <= f[i]
      BY <1>3, <1>4, <2>3
    <3>2. QED
      BY <2>1, <3>1
  <2>4. QED
    BY <2>2, <2>3
<1>7. QED
  BY <1>5, <1>6

-----------------------------------------------------------------------------
(***************************************************************************)
(* Prices.                                                                  *)
(***************************************************************************)

(* There is a k-th smallest value, and some position has it. *)
LEMMA KthIs ==
  ASSUME NEW n \in Nat, NEW S \in SUBSET (1..n), NEW prices, \A i \in S : prices[i].value \in Nat,
         NEW k \in 1..Cardinality(S)
  PROVE  \E i \in S : Kth(prices, S, k) = prices[i].value
<1> DEFINE f == [i \in S |-> prices[i].value]
           V == {prices[i].value : i \in S}
           Upto(v) == {i \in S : prices[i].value <= v}
           Below(v) == {i \in S : prices[i].value < v}
           W == {v \in V : Cardinality(Upto(v)) >= k}
<1>1. IsFiniteSet(S)
  <2>1. IsFiniteSet(1..n)
    BY FS_Interval
  <2>2. QED
    BY <2>1, FS_Subset
<1>2. \A v : Upto(v) \in SUBSET S /\ Below(v) \in SUBSET S
  OBVIOUS
<1>3. /\ \A v, i : i \in Upto(v) <=> i \in S /\ f[i] <= v
      /\ \A v, i : i \in Below(v) <=> i \in S /\ f[i] < v
      /\ \A v : v \in W <=> v \in V /\ Cardinality(Upto(v)) >= k
  OBVIOUS
<1>4. /\ \A i \in S : f[i] = prices[i].value /\ f[i] \in Nat /\ f[i] \in V
      /\ \A v \in V : \E i \in S : v = prices[i].value
      /\ V \subseteq Nat
  OBVIOUS
<1>5. Kth(prices, S, k) = CHOOSE v \in V : Cardinality(Below(v)) < k /\ Cardinality(Upto(v)) >= k
  BY DEF Kth
<1> HIDE DEF f, V, Upto, Below, W
<1>6. \A v : /\ Cardinality(Upto(v)) \in Nat
            /\ Cardinality(Below(v)) \in Nat
  BY <1>1, <1>2, FS_Subset, FS_CardinalityType
<1>7. S # {} /\ Cardinality(S) \in Nat /\ k \in Nat /\ 0 < k /\ k <= Cardinality(S)
  <2>1. Cardinality(S) \in Nat /\ (Cardinality(S) = 0 <=> S = {})
    BY <1>1, FS_EmptySet, FS_CardinalityType
  <2>2. QED
    BY <2>1
<1>8. W # {}
  <2>1. PICK g \in S : \A j \in S : f[j] <= f[g]
    BY <1>4, <1>7, GreatestAt
  <2>2. Upto(f[g]) = S
    BY <1>3, <2>1
  <2>3. Cardinality(Upto(f[g])) >= k
    BY <1>7, <2>2
  <2>4. QED
    BY <1>3, <1>4, <2>3
<1>9. PICK w \in W : \A v \in W : w <= v
  <2>1. W \in SUBSET Nat
    BY <1>3, <1>4
  <2>2. QED
    BY <1>8, <2>1, LeastNatural
<1>10. w \in V /\ w \in Nat /\ Cardinality(Upto(w)) >= k
  BY <1>3, <1>4, <1>9
<1>11. Cardinality(Below(w)) < k
  <2>1. CASE Below(w) = {}
    <3>1. Cardinality(Below(w)) = 0
      BY <2>1, FS_EmptySet
    <3>2. QED
      BY <1>7, <3>1
  <2>2. CASE Below(w) # {}
    <3>1. PICK i \in Below(w) : \A j \in Below(w) : f[j] <= f[i]
      <4>1. Below(w) \in SUBSET (1..n) /\ \A i \in Below(w) : f[i] \in Nat
        BY <1>2, <1>3, <1>4
      <4>2. QED
        BY <2>2, <4>1, GreatestAt
    <3>2. i \in S /\ f[i] < w /\ f[i] \in Nat /\ f[i] \in V
      BY <1>3, <1>4, <3>1
    <3>3. \A j \in S : f[j] <= f[i] <=> f[j] < w
      <4>1. \A j \in S : f[j] < w => f[j] <= f[i]
        BY <1>3, <3>1
      <4>2. \A j \in S : f[j] <= f[i] => f[j] < w
        BY <1>4, <1>10, <3>2
      <4>3. QED
        BY <4>1, <4>2
    <3>4. Upto(f[i]) = Below(w)
      <4>1. \A j : j \in Upto(f[i]) <=> j \in Below(w)
        BY <1>3, <3>3
      <4>2. QED
        BY <4>1
    <3>5. f[i] \notin W
      BY <1>9, <1>10, <3>2
    <3>6. ~(Cardinality(Upto(f[i])) >= k)
      BY <1>3, <3>2, <3>5
    <3>7. QED
      BY <1>6, <1>7, <3>4, <3>6
  <2>3. QED
    BY <2>1, <2>2
<1>12. \E v \in V : Cardinality(Below(v)) < k /\ Cardinality(Upto(v)) >= k
  BY <1>10, <1>11
<1>13. Kth(prices, S, k) \in V
  BY <1>5, <1>12
<1>14. QED
  BY <1>4, <1>13

(* The median lies between two of the values (median_lo_hi). *)
LEMMA MedianBetween ==
  ASSUME NEW n \in Nat, NEW S \in SUBSET (1..n), NEW prices, \A i \in S : prices[i].value \in Nat,
         S # {}
  PROVE  \E i, j \in S : /\ 2 * prices[i].value <= Doubled(prices, S)
                        /\ Doubled(prices, S) <= 2 * prices[j].value
                        /\ Doubled(prices, S) \in Nat
<1> DEFINE m == Cardinality(S)
<1>1. m \in Nat /\ m # 0
  <2>1. IsFiniteSet(1..n)
    BY FS_Interval
  <2>2. IsFiniteSet(S)
    BY <2>1, FS_Subset
  <2>3. QED
    BY <2>2, FS_EmptySet, FS_CardinalityType
<1>2. Doubled(prices, S) = Kth(prices, S, (m + 1) \div 2) + Kth(prices, S, m \div 2 + 1)
  BY DEF Doubled
<1> HIDE DEF m
<1>3. (m + 1) \div 2 \in 1..m /\ m \div 2 + 1 \in 1..m
  BY <1>1
<1>4. PICK i \in S : Kth(prices, S, (m + 1) \div 2) = prices[i].value
  BY <1>3, KthIs DEF m
<1>5. PICK j \in S : Kth(prices, S, m \div 2 + 1) = prices[j].value
  BY <1>3, KthIs DEF m
<1>6. Doubled(prices, S) = prices[i].value + prices[j].value
  BY <1>2, <1>4, <1>5
<1>7. CASE prices[i].value <= prices[j].value
  BY <1>6, <1>7
<1>8. CASE prices[j].value <= prices[i].value
  BY <1>6, <1>8
<1>9. QED
  BY <1>7, <1>8

Sources == Price \cup Failure
PriceWorld ==
  request.op \in Priced =>
    /\ request.maxAge \in Nat /\ world.vendors \in Seq(Sources)
    /\ request.op = "stablecoin_peg" => world.oracle \in Seq(Sources)

(* Those asked are vendors, in a list (Router::ask_all). *)
LEMMA AskedIs ==
  ASSUME NEW T, NEW vendors \in Seq(T), NEW n
  PROVE  /\ AskedOf(vendors, n) \in Seq(T)
         /\ ToSet(AskedOf(vendors, n)) \subseteq ToSet(vendors)
<1> DEFINE enough == {p \in 0..Len(vendors) : Cardinality(Oks(vendors) \cap 1..p) >= n}
           l == IF enough = {} THEN Len(vendors) ELSE Min(enough)
<1>1. Len(vendors) \in Nat /\ DOMAIN vendors = 1..Len(vendors)
  BY LenProperties
<1>2. enough \in SUBSET Int /\ \A p \in enough : p \in 0..Len(vendors) /\ 0 <= p
  BY <1>1
<1>3. AskedOf(vendors, n) = SubSeq(vendors, 1, l)
  BY DEF AskedOf
<1> HIDE DEF enough
<1>4. l \in 0..Len(vendors)
  <2>1. CASE enough = {}
    BY <1>1, <2>1
  <2>2. CASE enough # {}
    <3>1. Min(enough) \in enough
      BY <1>2, <2>2, MinIs
    <3>2. QED
      BY <1>1, <1>2, <2>2, <3>1
  <2>3. QED
    BY <2>1, <2>2
<1> HIDE DEF l
<1>5. \A i \in 1..l : vendors[i] \in T /\ i \in DOMAIN vendors
  BY <1>1, <1>4, ElementOfSeq
<1>6. /\ SubSeq(vendors, 1, l) \in Seq(T) /\ Len(SubSeq(vendors, 1, l)) = l
      /\ \A i \in 1..l : SubSeq(vendors, 1, l)[i] = vendors[i]
  <2>1. l \in Int /\ \A i \in 1..l : vendors[i] \in T
    BY <1>4, <1>5
  <2>2. /\ SubSeq(vendors, 1, l) \in Seq(T)
        /\ Len(SubSeq(vendors, 1, l)) = IF 1 <= l THEN l - 1 + 1 ELSE 0
        /\ \A i \in 1..l - 1 + 1 : SubSeq(vendors, 1, l)[i] = vendors[1 + i - 1]
    BY <2>1, SubSeqProperties
  <2>3. l - 1 + 1 = l /\ \A i \in 1..l : 1 + i - 1 = i
    BY <1>4
  <2>4. QED
    BY <1>4, <2>2, <2>3
<1>7. DOMAIN SubSeq(vendors, 1, l) = 1..l
  BY <1>6, LenProperties
<1>8. QED
  BY <1>3, <1>5, <1>6, <1>7 DEF ToSet

(* A vendor that answers has a price. *)
LEMMA OksAre ==
  ASSUME NEW prices \in Seq(Sources)
  PROVE  /\ Len(prices) \in Nat /\ Oks(prices) \in SUBSET (1..Len(prices))
         /\ \A i \in Oks(prices) :
              prices[i] \in Price /\ IsOk(prices[i]) /\ prices[i].value \in Nat /\ prices[i].age \in Nat
<1>1. Len(prices) \in Nat /\ DOMAIN prices = 1..Len(prices)
  BY LenProperties
<1>2. ASSUME NEW i \in Oks(prices)
      PROVE  prices[i] \in Price /\ IsOk(prices[i])
  <2>1. i \in 1..Len(prices) /\ IsOk(prices[i])
    BY <1>1, <1>2 DEF Oks
  <2>2. prices[i] \in Sources
    BY <2>1, ElementOfSeq
  <2>3. QED
    BY <2>1, <2>2 DEF Sources, Failure, IsOk
<1>3. \A p \in Price : p.value \in Nat /\ p.age \in Nat
  BY DEF Price
<1>4. Oks(prices) \subseteq 1..Len(prices)
  BY <1>1 DEF Oks
<1>5. QED
  BY <1>1, <1>2, <1>3, <1>4

\* One of the sources is fresh.
Timely(out) == \E v \in out.sources : v.age <= request.maxAge

(* What market_get_price has to say to be honest. *)
LEMMA HonestIf ==
  ASSUME NEW out, request.op = "market_get_price",
         out.status = "unknown" <=> out.median = {},
         out.sources \subseteq Given,
         \A v \in out.sources : v.value > 0 /\ v.quote = request.quote,
         out.status \in {"ok", "divergent"} <=> Timely(out),
         \A m \in out.median : \E lo, hi \in out.sources :
           /\ 2 * lo.value <= m /\ m <= 2 * hi.value
           /\ Timely(out) => lo.age <= request.maxAge /\ hi.age <= request.maxAge,
         0 \notin out.median,
         out.status = "unknown" =>
           \A v \in ToSet(AskedOf(world.vendors, PriceSources)) :
             IsOk(v) => v.value = 0 \/ v.quote # request.quote
  PROVE  HonestAnswer(out)
<1> DEFINE fits == {v \in out.sources : v.value > 0}
           fresh == {v \in fits : v.age <= request.maxAge}
           counted == IF request.op = "market_get_price" /\ fresh # {} THEN fresh ELSE out.sources
<1>1. \A v : v \in fresh <=> v \in out.sources /\ v.age <= request.maxAge
  OBVIOUS
<1>2. fresh # {} <=> Timely(out)
  BY <1>1 DEF Timely
<1>3. \A v \in out.sources : (Timely(out) => v.age <= request.maxAge) => v \in counted
  BY <1>1, <1>2
<1>4. \A m \in out.median : \E lo, hi \in counted : 2 * lo.value <= m /\ m <= 2 * hi.value
  <2> SUFFICES ASSUME NEW m \in out.median
               PROVE  \E lo, hi \in counted : 2 * lo.value <= m /\ m <= 2 * hi.value
    OBVIOUS
  <2>1. PICK lo \in out.sources, hi \in out.sources :
          /\ 2 * lo.value <= m /\ m <= 2 * hi.value
          /\ Timely(out) => lo.age <= request.maxAge /\ hi.age <= request.maxAge
    OBVIOUS
  <2>2. lo \in counted /\ hi \in counted
    BY <1>3, <2>1
  <2> HIDE DEF counted
  <2>3. QED
    BY <2>1, <2>2
<1>5. out.median # {0}
  OBVIOUS
<1>6. HonestAnswer(out) <=>
        /\ out.status = "unknown" <=> out.median = {}
        /\ out.sources \subseteq Given \cup (IF request.op = "stablecoin_peg" THEN ToSet(world.oracle) ELSE {})
        /\ \A m \in out.median : \E lo, hi \in counted : 2 * lo.value <= m /\ m <= 2 * hi.value
        /\ request.op = "market_get_price" =>
             /\ \A v \in out.sources : v.value > 0 /\ v.quote = request.quote
             /\ out.median # {0}
             /\ out.status \in {"ok", "divergent"} <=> fresh # {}
             /\ out.status = "unknown" =>
                  \A v \in ToSet(AskedOf(world.vendors, PriceSources)) :
                    IsOk(v) => v.value = 0 \/ v.quote # request.quote
  BY Zenon DEF HonestAnswer
<1> HIDE DEF counted, fresh
<1>7. QED
  BY <1>2, <1>4, <1>5, <1>6

(* What the aggregate of honest sources says is honest (aggregate_prices). *)
LEMMA AggregateHonest ==
  ASSUME NEW prices \in Seq(Sources), request.op = "market_get_price", request.maxAge \in Nat,
         prices = AskedOf(world.vendors, PriceSources),
         ToSet(prices) \subseteq ToSet(world.vendors),
         NEW maxSpread
  PROVE  HonestAnswer(AggregatePrices(prices, maxSpread, request.maxAge))
<1> DEFINE usable == {i \in Oks(prices) : Usable(prices[i], request.quote)}
           fresh == {i \in usable : prices[i].age <= request.maxAge}
           counted == IF fresh = {} THEN usable ELSE fresh
           sources == {prices[i] : i \in usable}
           status == IF fresh = {} THEN "stale"
                     ELSE IF Cardinality(fresh) >= 2 /\ Spread(prices, fresh) > maxSpread
                          THEN "divergent" ELSE "ok"
           out == AggregatePrices(prices, maxSpread, request.maxAge)
<1>1. /\ usable = {} => out = NoMedian("unknown")
      /\ usable # {} => out = [status |-> status, median |-> {Doubled(prices, counted)}, sources |-> sources]
  BY DEF AggregatePrices
<1>2. /\ Len(prices) \in Nat
      /\ \A i \in Oks(prices) : /\ i \in 1..Len(prices) /\ i \in DOMAIN prices /\ prices[i] \in Price
                                /\ IsOk(prices[i]) /\ prices[i].value \in Nat /\ prices[i].age \in Nat
  BY OksAre DEF Oks
<1>3. /\ \A i : i \in usable <=> /\ i \in Oks(prices) /\ prices[i].value > 0
                                /\ prices[i].quote = request.quote
      /\ \A i : i \in fresh <=> i \in usable /\ prices[i].age <= request.maxAge
      /\ \A v : v \in sources <=> \E i \in usable : v = prices[i]
  BY DEF Usable
<1>4. status \in {"ok", "divergent", "stale"} /\ (status = "stale" <=> fresh = {})
  OBVIOUS
<1>5. \A i \in counted : i \in usable /\ (fresh # {} => i \in fresh)
  OBVIOUS
<1>6. usable # {} => counted # {}
  OBVIOUS
<1> HIDE DEF usable, fresh, counted, sources, status, out
<1>7. CASE usable = {}
  <2>1. out.status = "unknown" /\ out.median = {} /\ out.sources = {}
    BY <1>1, <1>7 DEF NoMedian
  <2>2. ASSUME NEW v \in ToSet(prices), IsOk(v) PROVE v.value = 0 \/ v.quote # request.quote
    <3>1. PICK i \in Oks(prices) : v = prices[i]
      BY <2>2 DEF Oks, ToSet
    <3>2. v.value \in Nat
      BY <1>2, <3>1
    <3>3. QED
      BY <1>3, <1>7, <3>1, <3>2
  <2>3. out.status \in {"ok", "divergent"} <=> Timely(out)
    BY <2>1 DEF Timely
  <2>4. \A v \in ToSet(AskedOf(world.vendors, PriceSources)) : IsOk(v) => v.value = 0 \/ v.quote # request.quote
    BY <2>2
  <2>5. HonestAnswer(out)
    BY <2>1, <2>3, <2>4, HonestIf
  <2>6. QED
    BY <2>5 DEF out
<1>8. CASE usable # {}
  <2>1. out.status = status /\ out.median = {Doubled(prices, counted)} /\ out.sources = sources
    BY <1>1, <1>8
  <2>2. PICK i \in counted, j \in counted :
          /\ 2 * prices[i].value <= Doubled(prices, counted)
          /\ Doubled(prices, counted) <= 2 * prices[j].value
          /\ Doubled(prices, counted) \in Nat
    <3>1. counted \in SUBSET (1..Len(prices)) /\ \A i \in counted : prices[i].value \in Nat
      BY <1>2, <1>3, <1>5
    <3>2. QED
      BY <1>2, <1>6, <1>8, <3>1, MedianBetween
  <2>3. /\ prices[i] \in sources /\ prices[j] \in sources
        /\ fresh # {} => prices[i].age <= request.maxAge /\ prices[j].age <= request.maxAge
        /\ prices[i].value > 0 /\ prices[j].value > 0 /\ prices[i].value \in Nat
    BY <1>2, <1>3, <1>5
  <2>4. Doubled(prices, counted) # 0
    BY <2>2, <2>3
  <2>5. ASSUME NEW v \in sources
        PROVE  v \in Given /\ v.value > 0 /\ v.quote = request.quote
    <3>1. PICK k \in usable : v = prices[k]
      BY <1>3
    <3>2. v.value > 0 /\ v.quote = request.quote
      BY <1>3, <3>1
    <3>3. v \in Given
      BY <1>2, <1>3, <3>1 DEF Given, ToSet
    <3>4. QED
      BY <3>2, <3>3
  <2>6. fresh # {} <=> Timely(out)
    BY <1>3, <2>1, <2>3 DEF Timely
  <2>7. out.sources \subseteq Given /\ \A v \in out.sources : v.value > 0 /\ v.quote = request.quote
    BY <2>1, <2>5
  <2>8. out.status \in {"ok", "divergent"} <=> Timely(out)
    BY <1>4, <2>1, <2>6
  <2>9. \A m \in out.median : \E lo, hi \in out.sources :
           /\ 2 * lo.value <= m /\ m <= 2 * hi.value
           /\ Timely(out) => lo.age <= request.maxAge /\ hi.age <= request.maxAge
    BY <2>1, <2>2, <2>3, <2>6
  <2>10. /\ out.status = "unknown" <=> out.median = {}
         /\ out.status # "unknown" /\ 0 \notin out.median
    BY <1>4, <2>1, <2>4
  <2>11. HonestAnswer(out)
    BY <2>7, <2>8, <2>9, <2>10, HonestIf
  <2>12. QED
    BY <2>11 DEF out
<1>9. QED
  BY <1>7, <1>8

(* An honest answer stays one while request and world stand still. *)
LEMMA PriceReply ==
  ASSUME NEW out, answer' = Reply(out), UNCHANGED <<request, world>>, HonestAnswer(out)
  PROVE  AggregatesHonest'
<1>1. answer'.out = out
  BY DEF Reply
<1>2. request' = request /\ world' = world
  OBVIOUS
<1>3. Given' = Given
  BY <1>2 DEF Given
<1>4. QED
  BY <1>1, <1>2, <1>3 DEF AggregatesHonest, HonestAnswer

LEMMA PriceRefusal ==
  ASSUME NEW code, answer' = Refuse(code)
  PROVE  AggregatesHonest'
<1>1. answer'.at # "replied"
  BY DEF Refuse
<1>2. QED
  BY <1>1, Zenon DEF AggregatesHonest

(* An answer that names no price is honest if it says so. *)
LEMMA UnknownHonest ==
  ASSUME NEW out, out.status = "unknown", out.median = {}, out.sources = {},
         request.op = "market_get_price" =>
           \A v \in ToSet(AskedOf(world.vendors, PriceSources)) : ~IsOk(v)
  PROVE  HonestAnswer(out)
BY DEF HonestAnswer

(* market_get_price: of the sources that answer, or of none. *)
LEMMA GetPriceStep ==
  ASSUME PriceWorld, MarketGetPrice
  PROVE  AggregatesHonest'
<1> DEFINE asked == AskedOf(world.vendors, PriceSources)
           aggregate == AggregatePrices(asked, request.maxSpread, request.maxAge)
<1>1. /\ request.op = "market_get_price" /\ UNCHANGED <<request, world>>
      /\ answer' = IF Oks(asked) # {} THEN Reply(aggregate)
                   ELSE IF OnlyUnknown(asked) THEN Reply(NoMedian("unknown")) ELSE Refuse(RouteError(asked))
  BY DEF MarketGetPrice, Conclude
<1>2. request.maxAge \in Nat /\ world.vendors \in Seq(Sources)
  BY <1>1 DEF PriceWorld, Priced
<1>3. asked \in Seq(Sources) /\ ToSet(asked) \subseteq ToSet(world.vendors)
  BY <1>2, AskedIs
<1>4. CASE Oks(asked) # {}
  <2>1. HonestAnswer(aggregate)
    BY <1>1, <1>2, <1>3, AggregateHonest
  <2> HIDE DEF aggregate, asked
  <2>2. QED
    BY <1>1, <1>4, <2>1, PriceReply
<1>5. CASE Oks(asked) = {} /\ OnlyUnknown(asked)
  <2>1. \A v \in ToSet(asked) : ~IsOk(v)
    BY <1>5 DEF Oks, ToSet
  <2>2. HonestAnswer(NoMedian("unknown"))
    BY <2>1, UnknownHonest DEF NoMedian
  <2> HIDE DEF aggregate, asked
  <2>3. QED
    BY <1>1, <1>5, <2>2, PriceReply
<1>6. CASE Oks(asked) = {} /\ ~OnlyUnknown(asked)
  <2> HIDE DEF aggregate, asked
  <2>1. QED
    BY <1>1, <1>6, PriceRefusal
<1>7. QED
  BY <1>4, <1>5, <1>6

(* market_get_price_at: one source, whose price is the median. *)
LEMMA GetPriceAtStep ==
  ASSUME PriceWorld, MarketGetPriceAt
  PROVE  AggregatesHonest'
<1> DEFINE asked == AskedOf(world.vendors, 1)
           price == FirstOk(asked)
           out == [status |-> IF price.age > request.maxAge THEN "stale" ELSE "ok",
                   median |-> {2 * price.value}, sources |-> {price}]
<1>1. /\ request.op = "market_get_price_at" /\ UNCHANGED <<request, world>>
      /\ answer' = IF request.future THEN Refuse("InvalidInput")
                   ELSE IF Oks(asked) # {} THEN Reply(out)
                   ELSE IF OnlyUnknown(asked) THEN Reply(NoMedian("unknown")) ELSE Refuse(RouteError(asked))
  BY DEF MarketGetPriceAt, Conclude
<1>2. world.vendors \in Seq(Sources)
  BY <1>1 DEF PriceWorld, Priced
<1>3. asked \in Seq(Sources) /\ ToSet(asked) \subseteq ToSet(world.vendors)
  BY <1>2, AskedIs
<1> HIDE DEF asked
<1>4. Oks(asked) # {} => HonestAnswer(out)
  <2> SUFFICES ASSUME Oks(asked) # {} PROVE HonestAnswer(out)
    OBVIOUS
  <2>1. Min(Oks(asked)) \in Oks(asked)
    <3>1. Oks(asked) \in SUBSET Int /\ \A i \in Oks(asked) : 1 <= i
      BY <1>3, OksAre
    <3>2. QED
      BY <3>1, MinIs
  <2>2. price \in Price /\ IsOk(price) /\ price.value \in Nat /\ price \in ToSet(asked)
    BY <1>3, <2>1, OksAre DEF FirstOk, Oks, ToSet
  <2> HIDE DEF price
  <2>3. price \in Given
    BY <1>3, <2>2 DEF Given
  <2>4. out.sources = {price} /\ out.median = {2 * price.value} /\ out.status # "unknown"
    OBVIOUS
  <2> HIDE DEF out
  <2>5. QED
    BY <1>1, <2>2, <2>3, <2>4 DEF HonestAnswer
<1>5. HonestAnswer(NoMedian("unknown"))
  BY <1>1, UnknownHonest DEF NoMedian
<1> HIDE DEF out
<1>6. QED
  BY <1>1, <1>4, <1>5, PriceReply, PriceRefusal

(* stablecoin_peg: the vendors and the oracle, whatever their age. *)
LEMMA PegStep ==
  ASSUME PriceWorld, StablecoinPeg
  PROVE  AggregatesHonest'
<1> DEFINE asked == AskedOf(world.vendors, 3)
           prices == asked \o world.oracle
           given == Oks(prices)
           m == Doubled(prices, given)
           sources == {prices[i] : i \in given}
           out == PegVerdict(prices)
<1>1. /\ request.op = "stablecoin_peg" /\ UNCHANGED <<request, world>>
      /\ answer' = IF request.token = "unknown" THEN Refuse("InvalidInput") ELSE Reply(out)
  BY DEF StablecoinPeg, Conclude
<1>2. world.vendors \in Seq(Sources) /\ world.oracle \in Seq(Sources)
  BY <1>1 DEF PriceWorld, Priced
<1>3. asked \in Seq(Sources) /\ ToSet(asked) \subseteq ToSet(world.vendors)
  BY <1>2, AskedIs
<1> HIDE DEF asked
<1>4. prices \in Seq(Sources) /\ ToSet(prices) \subseteq ToSet(asked) \cup ToSet(world.oracle)
  <2>1. /\ prices \in Seq(Sources) /\ Len(prices) = Len(asked) + Len(world.oracle)
        /\ \A i \in 1..Len(asked) + Len(world.oracle) :
             prices[i] = IF i <= Len(asked) THEN asked[i] ELSE world.oracle[i - Len(asked)]
    BY <1>2, <1>3, ConcatProperties
  <2>2. /\ DOMAIN prices = 1..Len(prices) /\ DOMAIN asked = 1..Len(asked)
        /\ DOMAIN world.oracle = 1..Len(world.oracle)
        /\ Len(asked) \in Nat /\ Len(world.oracle) \in Nat
    BY <1>2, <1>3, <2>1, LenProperties
  <2> HIDE DEF prices
  <2>3. ASSUME NEW i \in DOMAIN prices
        PROVE  prices[i] \in ToSet(asked) \cup ToSet(world.oracle)
    <3>1. i \in 1..Len(asked) + Len(world.oracle)
      BY <2>1, <2>2
    <3>2. CASE i <= Len(asked)
      BY <2>1, <2>2, <3>1, <3>2 DEF ToSet
    <3>3. CASE ~(i <= Len(asked))
      <4>1. i - Len(asked) \in DOMAIN world.oracle
        BY <2>2, <3>1, <3>3
      <4>2. QED
        BY <2>1, <3>1, <3>3, <4>1 DEF ToSet
    <3>4. QED
      BY <3>2, <3>3
  <2>4. QED
    BY <2>1, <2>3 DEF ToSet
<1> HIDE DEF prices
<1>5. /\ given = {} => out.status = "unknown" /\ out.median = {} /\ out.sources = {}
      /\ given # {} => out.status # "unknown" /\ out.median = {m} /\ out.sources = sources
  BY DEF PegVerdict
<1>6. /\ Len(prices) \in Nat /\ given \in SUBSET (1..Len(prices))
      /\ \A i \in given : prices[i] \in ToSet(prices) /\ IsOk(prices[i]) /\ prices[i].value \in Nat
  BY <1>4, OksAre DEF Oks, ToSet
<1> HIDE DEF given, out
<1>7. HonestAnswer(out)
  <2>1. CASE given = {}
    BY <1>1, <1>5, <2>1, UnknownHonest
  <2>2. CASE given # {}
    <3>1. PICK i \in given, j \in given : 2 * prices[i].value <= m /\ m <= 2 * prices[j].value
      BY <1>6, <2>2, MedianBetween
    <3>2. \A v \in sources : v \in Given \cup ToSet(world.oracle)
      BY <1>3, <1>4, <1>6 DEF Given
    <3>3. prices[i] \in sources /\ prices[j] \in sources
      OBVIOUS
    <3> HIDE DEF sources, m
    <3>4. QED
      BY <1>1, <1>5, <2>2, <3>1, <3>2, <3>3 DEF HonestAnswer
  <2>3. QED
    BY <2>1, <2>2
<1>8. QED
  BY <1>1, <1>7, PriceReply, PriceRefusal

-----------------------------------------------------------------------------
(***************************************************************************)
(* Swaps.                                                                   *)
(***************************************************************************)
Quotes == Quote \cup Failure
SwapWorld ==
  request.op = "trade_build_swap_tx" =>
    /\ request.slippage \in Nat /\ request.floor \in Nat
    /\ world.vendors \in Seq(Quotes) /\ world.readable \in BOOLEAN
    /\ \A s \in DOMAIN world.allowance : world.allowance[s] \in Nat

(* A vendor that quotes has a quote. *)
LEMMA QuotesAre ==
  ASSUME NEW quotes \in Seq(Quotes)
  PROVE  /\ Len(quotes) \in Nat /\ Oks(quotes) \in SUBSET (1..Len(quotes))
         /\ \A i \in DOMAIN quotes : IsOk(quotes[i]) => i \in Oks(quotes)
         /\ \A i \in Oks(quotes) : quotes[i] \in Quote
<1>1. Len(quotes) \in Nat /\ DOMAIN quotes = 1..Len(quotes)
  BY LenProperties
<1>2. ASSUME NEW i \in Oks(quotes)
      PROVE  quotes[i] \in Quote
  <2>1. i \in 1..Len(quotes) /\ IsOk(quotes[i])
    BY <1>1, <1>2 DEF Oks
  <2>2. quotes[i] \in Quotes
    BY <2>1, ElementOfSeq
  <2>3. QED
    BY <2>1, <2>2 DEF Quotes, Failure, IsOk
<1>3. Oks(quotes) \subseteq 1..Len(quotes) /\ \A i \in DOMAIN quotes : IsOk(quotes[i]) => i \in Oks(quotes)
  BY <1>1 DEF Oks
<1>4. QED
  BY <1>1, <1>2, <1>3

(* Of some quotes there is one that no other outranks. *)
LEMMA BestExists ==
  ASSUME NEW quotes \in Seq(Quotes), NEW valid \in SUBSET Oks(quotes), valid # {}
  PROVE  \E i \in valid : \A j \in valid : ~Outranks(quotes, j, i)
<1> DEFINE buy == [i \in valid |-> quotes[i].buy]
           min == [i \in valid |-> quotes[i].min]
<1>1. /\ Len(quotes) \in Nat /\ valid \in SUBSET (1..Len(quotes))
      /\ \A i \in valid : quotes[i] \in Quote
  BY QuotesAre
<1>2. \A i \in valid : /\ buy[i] \in Nat /\ min[i] \in Nat
                       /\ buy[i] = quotes[i].buy /\ min[i] = quotes[i].min
  BY <1>1 DEF Quote
<1> HIDE DEF buy, min
<1>3. PICK b \in valid : \A j \in valid : buy[j] <= buy[b]
  BY <1>1, <1>2, GreatestAt
<1> DEFINE dearest == {i \in valid : buy[i] = buy[b]}
<1>4. PICK m \in dearest : \A j \in dearest : min[j] <= min[m]
  <2>1. dearest \in SUBSET (1..Len(quotes)) /\ dearest # {} /\ \A i \in dearest : min[i] \in Nat
    BY <1>1, <1>2
  <2> HIDE DEF dearest
  <2>2. QED
    BY <1>1, <2>1, GreatestAt
<1> DEFINE surest == {i \in dearest : min[i] = min[m]}
<1>5. PICK i \in surest : \A j \in surest : i <= j
  <2>1. surest \in SUBSET Nat /\ surest # {}
    <3>1. valid \subseteq Nat
      BY <1>1
    <3>2. m \in surest /\ surest \subseteq valid
      OBVIOUS
    <3>3. QED
      BY <3>1, <3>2
  <2> HIDE DEF surest
  <2>2. QED
    BY <2>1, LeastNatural
<1>6. i \in valid /\ buy[i] = buy[b] /\ min[i] = min[m]
  OBVIOUS
<1>7. ASSUME NEW j \in valid, Outranks(quotes, j, i) PROVE FALSE
  <2>1. \/ buy[j] > buy[i]
        \/ buy[j] = buy[i] /\ min[j] > min[i]
        \/ buy[j] = buy[i] /\ min[j] = min[i] /\ j < i
    BY <1>2, <1>6, <1>7, Zenon DEF Outranks
  <2>2. ~(buy[j] > buy[i])
    BY <1>2, <1>3, <1>6
  <2>3. buy[j] = buy[i] => j \in dearest /\ ~(min[j] > min[i])
    BY <1>2, <1>4, <1>6
  <2>4. buy[j] = buy[i] /\ min[j] = min[i] => ~(j < i)
    <3>1. buy[j] = buy[i] /\ min[j] = min[i] => j \in surest
      BY <1>6, <2>3
    <3>2. i \in Nat /\ j \in Nat
      BY <1>1, <1>6
    <3>3. QED
      BY <1>5, <3>1, <3>2
  <2>5. QED
    BY <2>1, <2>2, <2>3, <2>4
<1>8. QED
  BY <1>6, <1>7

(* The first quote is valid, and none that is valid buys more (vet_quotes). *)
LEMMA FirstIsBest ==
  ASSUME NEW quotes \in Seq(Quotes), NEW needTx, Ranked(quotes, needTx) # <<>>
  PROVE  \E i \in Oks(quotes) :
           /\ Ranked(quotes, needTx)[1] = quotes[i] /\ Valid(quotes[i], needTx)
           /\ \A j \in Oks(quotes) : Valid(quotes[j], needTx) => quotes[j].buy <= quotes[i].buy
<1> DEFINE valid == {i \in Oks(quotes) : Valid(quotes[i], needTx)}
           Above(i) == {j \in valid : Outranks(quotes, j, i)}
           Place(i) == Cardinality(Above(i)) + 1
           best == CHOOSE i \in valid : Place(i) = 1
<1>1. Ranked(quotes, needTx) = [k \in 1..Cardinality(valid) |-> quotes[CHOOSE i \in valid : Place(i) = k]]
  BY DEF Ranked
<1>2. /\ Len(quotes) \in Nat /\ valid \in SUBSET (1..Len(quotes)) /\ valid \in SUBSET Oks(quotes)
      /\ \A i \in valid : quotes[i] \in Quote /\ Valid(quotes[i], needTx)
      /\ \A i \in Oks(quotes) : Valid(quotes[i], needTx) => i \in valid
  BY QuotesAre
<1>3. \A i : Above(i) \in SUBSET valid
  OBVIOUS
<1>4. IsFiniteSet(valid)
  <2>1. IsFiniteSet(1..Len(quotes))
    BY <1>2, FS_Interval
  <2> HIDE DEF valid
  <2>2. QED
    BY <1>2, <2>1, FS_Subset
<1>5. \A i, j : j \in Above(i) <=> j \in valid /\ Outranks(quotes, j, i)
  OBVIOUS
<1>6. valid # {} /\ 1 \in 1..Cardinality(valid)
  <2>1. Cardinality(valid) \in Nat /\ (Cardinality(valid) = 0 <=> valid = {})
    <3> HIDE DEF valid
    <3>1. QED
      BY <1>4, FS_EmptySet, FS_CardinalityType
  <2>2. Cardinality(valid) # 0
    <3> SUFFICES ASSUME Cardinality(valid) = 0 PROVE FALSE
      OBVIOUS
    <3> DEFINE F == Ranked(quotes, needTx)
    <3>1. 1..Cardinality(valid) = {}
      <4> HIDE DEF valid
      <4>1. 1..0 = {}
        OBVIOUS
      <4>2. QED
        BY <4>1
    <3>2. F = [k \in {} |-> quotes[CHOOSE i \in valid : Place(i) = k]]
      BY <1>1, <3>1
    <3>3. F = <<>>
      BY <3>2
    <3>4. QED
      BY <3>3
  <2> HIDE DEF valid
  <2>3. QED
    BY <2>1, <2>2
<1> HIDE DEF valid, Above
<1>7. \A i : Place(i) = 1 <=> Above(i) = {}
  <2>1. \A i : Cardinality(Above(i)) \in Nat /\ (Cardinality(Above(i)) = 0 <=> Above(i) = {})
    BY <1>3, <1>4, FS_Subset, FS_EmptySet, FS_CardinalityType
  <2>2. QED
    BY <2>1
<1>8. \E i \in valid : Place(i) = 1
  <2>1. PICK i \in valid : \A j \in valid : ~Outranks(quotes, j, i)
    BY <1>2, <1>6, BestExists
  <2>2. Above(i) = {}
    BY <1>5, <2>1
  <2>3. QED
    BY <1>7, <2>2
<1>9. best \in valid /\ Place(best) = 1
  BY <1>8
<1>10. Ranked(quotes, needTx)[1] = quotes[best]
  BY <1>1, <1>6
<1> HIDE DEF best
<1>11. ASSUME NEW j \in valid PROVE quotes[j].buy <= quotes[best].buy
  <2>1. ~Outranks(quotes, j, best)
    BY <1>5, <1>7, <1>9
  <2>2. quotes[j].buy \in Nat /\ quotes[best].buy \in Nat
    BY <1>2, <1>9 DEF Quote
  <2>3. ~(quotes[j].buy > quotes[best].buy)
    BY <2>1, Zenon DEF Outranks
  <2>4. QED
    BY <2>2, <2>3
<1>12. best \in Oks(quotes) /\ Valid(quotes[best], needTx)
  BY <1>2, <1>9
<1>13. \A j \in Oks(quotes) : Valid(quotes[j], needTx) => quotes[j].buy <= quotes[best].buy
  BY <1>2, <1>11
<1>14. QED
  BY <1>10, <1>12, <1>13

(* Division rounds down by less than one. *)
LEMMA DivIs ==
  ASSUME NEW x \in Nat, NEW w \in Nat \ {0}
  PROVE  x \div w \in Nat /\ w * (x \div w) <= x /\ x < w * (x \div w + 1)
OBVIOUS

LEMMA TimesMonotone ==
  ASSUME NEW a \in Int, NEW b \in Int, NEW c \in Nat, a <= b
  PROVE  c * a <= c * b
OBVIOUS

\* The slippage that is let pass.
Tolerated == Min({request.slippage + 1, Whole})

LEMMA ToleratedIs ==
  ASSUME request.slippage \in Nat
  PROVE  /\ Tolerated \in 0..Whole
         /\ Tolerated = IF request.slippage + 1 <= Whole THEN request.slippage + 1 ELSE Whole
<1> DEFINE S == {request.slippage + 1, Whole}
<1>1. Whole \in Nat \ {0}
  BY MarketAssumption
<1>2. S \in SUBSET Int /\ S # {} /\ \A x \in S : 0 <= x
  BY <1>1
<1>3. /\ \A x \in S : x = request.slippage + 1 \/ x = Whole
      /\ request.slippage + 1 \in S /\ Whole \in S
  OBVIOUS
<1> HIDE DEF S
<1>4. Min(S) \in S /\ \A x \in S : Min(S) <= x
  BY <1>2, MinIs
<1>5. Tolerated = Min(S)
  BY DEF Tolerated, S
<1>6. /\ Tolerated = request.slippage + 1 \/ Tolerated = Whole
      /\ Tolerated <= request.slippage + 1 /\ Tolerated <= Whole
  BY <1>3, <1>4, <1>5
<1>7. QED
  BY <1>1, <1>6

(* Who signs a valid quote loses no more than the slippage and one point. *)
LEMMA GuaranteeHolds ==
  ASSUME NEW q \in Quote, Valid(q, TRUE), request.slippage \in Nat
  PROVE  /\ q.live /\ q.tx
         /\ (q.min + 1) * Whole > q.buy * (Whole - request.slippage - 1)
<1> DEFINE c == Whole - Tolerated
           x == q.buy * c
<1>1. q.min >= (q.buy * (Whole - Tolerated)) \div Whole /\ q.buy > 0 /\ q.live /\ q.tx
  BY DEF Valid, MinOut, Tolerated
<1>2. Whole \in Nat \ {0} /\ q.buy \in Nat /\ q.min \in Nat
  BY MarketAssumption DEF Quote
<1>3. c \in Nat
  BY <1>2, ToleratedIs
<1> HIDE DEF c
<1>4. x \in Nat
  BY <1>2, <1>3
<1>5. q.min >= x \div Whole
  BY <1>1 DEF c
<1> HIDE DEF x
<1>6. x \div Whole \in Nat /\ x < Whole * (x \div Whole + 1)
  BY <1>2, <1>4, DivIs
<1>7. Whole * (x \div Whole + 1) <= Whole * (q.min + 1)
  <2> DEFINE d == x \div Whole
  <2>1. d \in Nat /\ d + 1 <= q.min + 1
    BY <1>2, <1>5, <1>6
  <2> HIDE DEF d
  <2>2. Whole * (d + 1) <= Whole * (q.min + 1)
    BY <1>2, <2>1, TimesMonotone
  <2>3. QED
    BY <2>2 DEF d
<1>8. x < Whole * (q.min + 1)
  <2> DEFINE d == Whole * (x \div Whole + 1)
             e == Whole * (q.min + 1)
  <2>1. x < d /\ d <= e /\ d \in Nat /\ e \in Nat
    BY <1>2, <1>6, <1>7
  <2> HIDE DEF d, e
  <2>2. x < e
    BY <1>4, <2>1
  <2>3. QED
    BY <2>2 DEF e
<1>9. q.buy * (Whole - request.slippage - 1) <= x
  <2>1. Whole - request.slippage - 1 <= c
    BY <1>2, ToleratedIs DEF c
  <2>2. QED
    BY <1>2, <1>3, <2>1, TimesMonotone DEF x
<1>10. Whole * (q.min + 1) = (q.min + 1) * Whole
  BY <1>2
<1>11. QED
  <2> DEFINE e == (q.min + 1) * Whole
             f == q.buy * (Whole - request.slippage - 1)
  <2>1. x < e /\ f <= x /\ e \in Int /\ f \in Int
    BY <1>2, <1>8, <1>9, <1>10
  <2> HIDE DEF e, f
  <2>2. e > f
    BY <1>4, <2>1
  <2>3. QED
    BY <1>1, <2>2 DEF e, f

(* A live quote that guarantees all it promises is valid. *)
LEMMA ExactIsValid ==
  ASSUME NEW q \in Quote, q.live, q.tx, q.min = q.buy, q.buy > 0, request.slippage \in Nat
  PROVE  Valid(q, TRUE)
<1> DEFINE c == Whole - Tolerated
           x == q.buy * c
           d == x \div Whole
<1>1. Whole \in Nat \ {0} /\ q.buy \in Nat
  BY MarketAssumption DEF Quote
<1>2. c \in Nat /\ c <= Whole
  BY <1>1, ToleratedIs
<1> HIDE DEF c
<1>3. x \in Nat /\ x <= q.buy * Whole
  BY <1>1, <1>2, TimesMonotone
<1> HIDE DEF x
<1>4. d \in Nat /\ Whole * d <= x
  BY <1>1, <1>3, DivIs
<1> HIDE DEF d
<1>5. d <= q.buy
  <2> SUFFICES ASSUME d >= q.buy + 1 PROVE FALSE
    BY <1>1, <1>4
  <2>1. Whole * (q.buy + 1) <= Whole * d
    BY <1>1, <1>4, TimesMonotone
  <2>2. Whole * (q.buy + 1) = q.buy * Whole + Whole
    BY <1>1
  <2> DEFINE a == q.buy * Whole
             b == Whole * d
  <2>3. a \in Nat /\ b \in Nat /\ a + Whole <= b /\ b <= x /\ x <= a
    BY <1>1, <1>3, <1>4, <2>1, <2>2
  <2> HIDE DEF a, b
  <2>4. QED
    BY <1>1, <1>3, <2>3
<1>6. d = MinOut(q.buy, Min({request.slippage + 1, Whole}))
  BY DEF d, x, c, Tolerated, MinOut
<1>7. QED
  BY <1>1, <1>4, <1>5, <1>6 DEF Valid

(* Whatever approvals were left out, each spender may take as much in the end. *)
LEMMA NothingMissed ==
  ASSUME NEW all \in Seq(Approval), world.readable \in BOOLEAN,
         NEW s, world.allowance[s] \in Nat
  PROVE  AllowedAfter(all, {i \in DOMAIN all : ~Covered(all[i])}, s) >= AllowedAfter(all, DOMAIN all, s)
<1> DEFINE own == {i \in DOMAIN all : all[i].spender = s}
           sent == {i \in DOMAIN all : ~Covered(all[i])}
           kept == {i \in sent : all[i].spender = s}
<1>1. /\ AllowedAfter(all, sent, s) = IF kept = {} THEN world.allowance[s] ELSE all[Max(kept)].amount
      /\ AllowedAfter(all, DOMAIN all, s) = IF own = {} THEN world.allowance[s] ELSE all[Max(own)].amount
  BY DEF AllowedAfter
<1>2. Len(all) \in Nat /\ DOMAIN all = 1..Len(all) /\ \A i \in DOMAIN all : all[i].amount \in Nat
  <2>1. Len(all) \in Nat /\ DOMAIN all = 1..Len(all) /\ \A i \in 1..Len(all) : all[i] \in Approval
    BY LenProperties, ElementOfSeq
  <2>2. QED
    BY <2>1 DEF Approval
<1>3. /\ \A i : i \in own <=> i \in DOMAIN all /\ all[i].spender = s
      /\ \A i : i \in kept <=> i \in own /\ ~Covered(all[i])
  OBVIOUS
<1>4. \A i \in own : Covered(all[i]) <=> world.readable /\ world.allowance[s] >= all[i].amount
  BY DEF Covered
<1>5. own # {} => Max(own) \in own /\ \A i \in own : i <= Max(own)
  <2>1. own \in SUBSET Int /\ \A i \in own : i <= Len(all)
    BY <1>2
  <2> HIDE DEF own
  <2>2. ASSUME own # {} PROVE Max(own) \in own /\ \A i \in own : i <= Max(own)
    <3>1. PICK n \in Int : n = Len(all)
      <4>1. Len(all) \in Int
        BY LenProperties
      <4>2. QED
        BY <4>1
    <3>2. own \in SUBSET Int /\ \A i \in own : i <= n
      BY <2>1, <3>1
    <3>3. QED
      BY <2>2, <3>2, MaxIs
  <2>3. QED
    BY <2>2
<1>6. kept # {} => Max(kept) \in kept /\ \A i \in kept : i <= Max(kept)
  <2>1. kept \in SUBSET Int /\ \A i \in kept : i <= Len(all)
    BY <1>2
  <2> HIDE DEF kept
  <2>2. ASSUME kept # {} PROVE Max(kept) \in kept /\ \A i \in kept : i <= Max(kept)
    <3>1. PICK n \in Int : n = Len(all)
      <4>1. Len(all) \in Int
        BY LenProperties
      <4>2. QED
        BY <4>1
    <3>2. kept \in SUBSET Int /\ \A i \in kept : i <= n
      BY <2>1, <3>1
    <3>3. QED
      BY <2>2, <3>2, MaxIs
  <2>3. QED
    BY <2>2
<1> HIDE DEF own, sent, kept
<1>7. AllowedAfter(all, sent, s) >= AllowedAfter(all, DOMAIN all, s)
  <2>1. CASE own = {}
    <3>1. kept = {}
      BY <1>3, <2>1
    <3>2. QED
      BY <1>1, <2>1, <3>1
  <2>2. CASE own # {} /\ Max(own) \in kept
    <3>1. kept # {}
      BY <2>2
    <3>2. Max(kept) \in own /\ Max(own) <= Max(kept)
      BY <1>3, <1>6, <2>2, <3>1
    <3>3. Max(kept) <= Max(own) /\ Max(own) \in own
      BY <1>5, <2>2, <3>2
    <3>4. Max(own) = Max(kept)
      <4>1. Max(own) \in Int /\ Max(kept) \in Int
        BY <1>2, <1>3, <3>2, <3>3
      <4>2. QED
        BY <3>2, <3>3, <4>1
    <3>5. all[Max(own)].amount \in Nat
      BY <1>2, <1>3, <3>3
    <3>6. QED
      BY <1>1, <2>2, <3>1, <3>4, <3>5
  <2>3. CASE own # {} /\ Max(own) \notin kept
    <3>1. world.readable /\ world.allowance[s] >= all[Max(own)].amount /\ all[Max(own)].amount \in Nat
      BY <1>2, <1>3, <1>4, <1>5, <2>3
    <3>2. CASE kept = {}
      BY <1>1, <2>3, <3>1, <3>2
    <3>3. CASE kept # {}
      <4>1. Max(kept) \in own /\ ~Covered(all[Max(kept)]) /\ all[Max(kept)].amount \in Nat
        BY <1>2, <1>3, <1>6, <3>3
      <4>2. ~(world.allowance[s] >= all[Max(kept)].amount)
        BY <1>4, <3>1, <4>1
      <4>3. all[Max(kept)].amount >= all[Max(own)].amount
        BY <3>1, <4>1, <4>2
      <4>4. QED
        BY <1>1, <2>3, <3>3, <4>3
    <3>4. QED
      BY <3>2, <3>3
  <2>4. QED
    BY <2>1, <2>2, <2>3
<1>8. QED
  BY <1>7 DEF sent

LEMMA SwapReply ==
  ASSUME NEW out, answer' = Reply(out), UNCHANGED <<request, world>>, FloorKept(out)
  PROVE  SwapKeepsItsFloor'
<1>1. answer'.out = out
  BY DEF Reply
<1>2. request' = request /\ world' = world
  OBVIOUS
<1>3. \A all, sent, s : AllowedAfter(all, sent, s)' = AllowedAfter(all, sent, s)
  BY <1>2 DEF AllowedAfter
<1>4. QED
  BY <1>1, <1>2, <1>3 DEF SwapKeepsItsFloor, FloorKept

LEMMA SwapRefused ==
  ASSUME NEW code, answer' = Refuse(code)
  PROVE  SwapKeepsItsFloor'
<1>1. answer'.at # "replied"
  BY DEF Refuse
<1>2. QED
  BY <1>1, Zenon DEF SwapKeepsItsFloor, Replied

(* When nobody answers there is an error to report (route_error). *)
LEMMA RouteErrorIs ==
  ASSUME NEW asked \in Seq(Quotes), Oks(asked) = {}
  PROVE  RouteError(asked) # "none"
<1>1. Len(asked) \in Nat /\ DOMAIN asked = 1..Len(asked)
  BY LenProperties
<1>2. CASE asked = <<>>
  BY <1>2 DEF RouteError
<1>3. CASE asked # <<>>
  <2>1. Len(asked) \in 1..Len(asked)
    BY <1>1, <1>3, EmptySeq
  <2>2. asked[Len(asked)] \in Quotes /\ ~IsOk(asked[Len(asked)])
    BY <1>1, <2>1, ElementOfSeq DEF Oks
  <2>3. asked[Len(asked)].error \in ProviderError
    BY <2>2 DEF Quotes, Quote, Failure, IsOk
  <2>4. CodeOf(asked[Len(asked)].error) # "none"
    BY <2>3 DEF CodeOf, ProviderError
  <2>5. QED
    BY <1>3, <2>4 DEF RouteError
<1>4. QED
  BY <1>2, <1>3

(* trade_build_swap_tx: the best of the valid quotes, without the approvals that are there. *)
LEMMA SwapStep ==
  ASSUME SwapWorld, BuildSwapTx
  PROVE  SwapKeepsItsFloor'
<1> DEFINE asked == AskedOf(world.vendors, BuildSources)
           quotes == Ranked(asked, TRUE)
           best == quotes[1]
           sent == {i \in DOMAIN best.approvals : ~Covered(best.approvals[i])}
           out == [quote |-> best, approvals |-> sent, warned |-> SpreadOf(quotes) > WideSpread]
<1>1. /\ request.op = "trade_build_swap_tx" /\ UNCHANGED <<request, world>>
      /\ answer' = IF NoQuote(BuildSources, TRUE) # "none" THEN Refuse(NoQuote(BuildSources, TRUE))
                   ELSE TxOfBest(quotes)
  BY DEF BuildSwapTx, Conclude, QuotesOf
<1>2. /\ request.slippage \in Nat /\ request.floor \in Nat
      /\ world.vendors \in Seq(Quotes) /\ world.readable \in BOOLEAN
      /\ \A s \in DOMAIN world.allowance : world.allowance[s] \in Nat
  BY <1>1 DEF SwapWorld
<1>3. asked \in Seq(Quotes)
  BY <1>2, AskedIs
<1>4. CASE NoQuote(BuildSources, TRUE) # "none"
  BY <1>1, <1>4, SwapRefused
<1>5. CASE NoQuote(BuildSources, TRUE) = "none"
  <2>1. quotes # <<>>
    <3>1. quotes = QuotesOf(BuildSources, TRUE)
      BY DEF QuotesOf
    <3> HIDE DEF quotes
    <3>2. quotes = <<>> => \/ NoQuote(BuildSources, TRUE) = SwapRefusal(TRUE) /\ SwapRefusal(TRUE) # "none"
                           \/ /\ Oks(asked) = {}
                              /\ NoQuote(BuildSources, TRUE) = RouteError(asked)
                           \/ NoQuote(BuildSources, TRUE) = "AllProvidersFailed"
      BY <3>1 DEF NoQuote
    <3>3. Oks(asked) = {} => RouteError(asked) # "none"
      BY <1>3, RouteErrorIs
    <3>4. QED
      BY <1>5, <3>2, <3>3
  <2>2. PICK i \in Oks(asked) :
          /\ best = asked[i] /\ Valid(asked[i], TRUE)
          /\ \A j \in Oks(asked) : Valid(asked[j], TRUE) => asked[j].buy <= asked[i].buy
    BY <1>3, <2>1, FirstIsBest
  <2>3. answer' = IF best.min < request.floor THEN Refuse("StaleData") ELSE Reply(out)
    BY <1>1, <1>5 DEF TxOfBest
  <2> HIDE DEF quotes, asked
  <2>4. best \in Quote
    BY <1>3, <2>2, QuotesAre
  <2>5. /\ best.live /\ best.tx
        /\ (best.min + 1) * Whole > best.buy * (Whole - request.slippage - 1)
    BY <1>2, <2>2, <2>4, GuaranteeHolds
  <2>6. \A o \in ToSet(asked) : IsOk(o) /\ o.live /\ o.tx /\ o.min = o.buy => o.buy <= best.buy
    <3> SUFFICES ASSUME NEW o \in ToSet(asked), IsOk(o), o.live, o.tx, o.min = o.buy
                 PROVE  o.buy <= best.buy
      OBVIOUS
    <3>1. PICK j \in Oks(asked) : o = asked[j]
      BY <1>3, QuotesAre DEF ToSet
    <3>2. o \in Quote
      BY <1>3, <3>1, QuotesAre
    <3>3. o.buy \in Nat /\ best.buy \in Nat
      BY <2>4, <3>2 DEF Quote
    <3>4. CASE o.buy = 0
      BY <3>3, <3>4
    <3>5. CASE o.buy > 0
      BY <1>2, <2>2, <3>1, <3>2, <3>5, ExactIsValid
    <3>6. QED
      BY <3>3, <3>4, <3>5
  <2>7. \A s \in DOMAIN world.allowance :
          AllowedAfter(best.approvals, sent, s) >= AllowedAfter(best.approvals, DOMAIN best.approvals, s)
    <3>1. best.approvals \in Seq(Approval)
      BY <2>4 DEF Quote
    <3>2. QED
      BY <1>2, <3>1, NothingMissed
  <2>8. best.min \in Nat /\ request.floor \in Nat
    BY <1>2, <2>4 DEF Quote
  <2>9. out.quote = best /\ out.approvals = sent
    OBVIOUS
  <2> HIDE DEF out, sent, best
  <2>10. CASE best.min < request.floor
    BY <2>3, <2>10, SwapRefused
  <2>11. CASE ~(best.min < request.floor)
    <3>1. best.min >= request.floor
      BY <2>8, <2>11
    <3>2. FloorKept(out)
      BY <2>5, <2>6, <2>7, <2>9, <3>1 DEF FloorKept, asked
    <3>3. QED
      BY <1>1, <2>3, <2>11, <3>2, SwapReply
  <2>12. QED
    BY <2>10, <2>11
<1>6. QED
  BY <1>4, <1>5

-----------------------------------------------------------------------------
(***************************************************************************)
(* The trading calendar.  New York's clocks change on Sundays, at times in  *)
(* which the market is closed, so that a session's end is one moment and    *)
(* everything before it on the clock is before it.                          *)
(***************************************************************************)
LEMMA WeekdayIs ==
  ASSUME NEW d \in Int
  PROVE  /\ Weekday(d) \in 0..6
         /\ \A n \in 0..6 : Weekday(d + n) = IF Weekday(d) + n <= 6 THEN Weekday(d) + n
                                             ELSE Weekday(d) + n - 7
BY CalendarAssumption DEF Weekday

(* The n-th Sunday of a month is one. *)
LEMMA SundayIs ==
  ASSUME NEW f \in Int, NEW n \in 1..2
  PROVE  NthSunday(f, n) \in Int /\ Weekday(NthSunday(f, n)) = 0
BY CalendarAssumption DEF NthSunday, Weekday

Sundays == {d \in Int : Weekday(d) = 0}

(* The clocks change on Sundays. *)
LEMMA ClocksChange ==
  ASSUME NEW a \in Int, NEW b \in Int, a <= b
  PROVE  /\ ~IsDst(a) /\ IsDst(b) => \E s \in Sundays : a < s * 48 + 14 /\ s * 48 + 14 <= b
         /\ IsDst(a) /\ ~IsDst(b) => \E s \in Sundays : a < s * 48 + 12 /\ s * 48 + 12 <= b
<1>1. \A y \in Years : NthSunday(y.march, 2) \in Sundays /\ NthSunday(y.november, 1) \in Sundays
  <2>1. 1 \in 1..2 /\ 2 \in 1..2
    OBVIOUS
  <2>2. QED
    BY <2>1, CalendarAssumption, SundayIs DEF Sundays
<1>2. \A t : IsDst(t) <=> \E y \in Years : /\ t >= NthSunday(y.march, 2) * 48 + 14
                                          /\ t < NthSunday(y.november, 1) * 48 + 12
  BY DEF IsDst, PerDay
<1>3. \A s \in Sundays : s \in Int
  BY DEF Sundays
<1>4. ASSUME ~IsDst(a), IsDst(b)
      PROVE  \E s \in Sundays : a < s * 48 + 14 /\ s * 48 + 14 <= b
  <2>1. PICK y \in Years : b >= NthSunday(y.march, 2) * 48 + 14 /\ b < NthSunday(y.november, 1) * 48 + 12
    BY <1>2, <1>4
  <2>2. ~(a >= NthSunday(y.march, 2) * 48 + 14 /\ a < NthSunday(y.november, 1) * 48 + 12)
    BY <1>2, <1>4
  <2>3. PICK s \in Sundays, e \in Sundays : s = NthSunday(y.march, 2) /\ e = NthSunday(y.november, 1)
    BY <1>1
  <2>4. a < s * 48 + 14 /\ s * 48 + 14 <= b
    BY <1>3, <2>1, <2>2, <2>3
  <2>5. QED
    BY <2>4
<1>5. ASSUME IsDst(a), ~IsDst(b)
      PROVE  \E s \in Sundays : a < s * 48 + 12 /\ s * 48 + 12 <= b
  <2>1. PICK y \in Years : a >= NthSunday(y.march, 2) * 48 + 14 /\ a < NthSunday(y.november, 1) * 48 + 12
    BY <1>2, <1>5
  <2>2. ~(b >= NthSunday(y.march, 2) * 48 + 14 /\ b < NthSunday(y.november, 1) * 48 + 12)
    BY <1>2, <1>5
  <2>3. PICK s \in Sundays, e \in Sundays : s = NthSunday(y.march, 2) /\ e = NthSunday(y.november, 1)
    BY <1>1
  <2>4. a < e * 48 + 12 /\ e * 48 + 12 <= b
    BY <1>3, <2>1, <2>2, <2>3
  <2>5. QED
    BY <2>4
<1>6. QED
  BY <1>4, <1>5

LEMMA EasternIs ==
  ASSUME NEW t \in Int
  PROVE  /\ ToEastern(t) \in Int
         /\ IsDst(t) => ToEastern(t) = t - 8
         /\ ~IsDst(t) => ToEastern(t) = t - 10
BY DEF ToEastern

\* The local time at which a day's session ends, and the moment.
CloseOf(d) == d * 48 + PostEnd(d)
EndOf(d) == FromEastern(CloseOf(d))

LEMMA TradingDayIs ==
  ASSUME NEW d \in Int, IsTradingDay(d)
  PROVE  /\ d \notin Sundays
         /\ CloseOf(d) \in Int /\ CloseOf(d) \in {d * 48 + 34, d * 48 + 40}
         /\ \A s \in Sundays, k \in 0..11 : CloseOf(d) # s * 48 + k
<1>1. d \notin Sundays
  BY DEF IsTradingDay, Sundays
<1>2. CloseOf(d) \in Int /\ CloseOf(d) \in {d * 48 + 34, d * 48 + 40}
  BY DEF CloseOf, PostEnd
<1>3. ASSUME NEW s \in Sundays, NEW k \in 0..11 PROVE CloseOf(d) # s * 48 + k
  <2>1. s \in Int
    BY DEF Sundays
  <2>2. QED
    BY <1>2, <2>1
<1>4. QED
  BY <1>1, <1>2, <1>3

(* The market is open in the session of some trading day, from the evening before (session_at). *)
LEMMA OpenIs ==
  ASSUME NEW t \in Int
  PROVE  IsOpen(t) <=> \E d \in Int : /\ IsTradingDay(d)
                                    /\ d * 48 - 8 <= ToEastern(t) /\ ToEastern(t) < CloseOf(d)
<1> DEFINE l == ToEastern(t)
           day == l \div 48
           time == l % 48
<1>1. l \in Int
  BY EasternIs
<1> HIDE DEF l
<1>2. day \in Int /\ time \in 0..47 /\ l = day * 48 + time
  BY <1>1
<1>3. SessionAt(t) = IF time >= 40 THEN IF IsTradingDay(day + 1) THEN "overnight" ELSE "closed"
                     ELSE IF ~IsTradingDay(day) THEN "closed"
                     ELSE CASE time < 8 -> "overnight"
                            [] time >= 8 /\ time < 19 -> "pre_market"
                            [] time >= 19 /\ time < RegularClose(day) -> "regular"
                            [] time >= RegularClose(day) /\ time < PostEnd(day) -> "post_market"
                            [] time >= PostEnd(day) -> "closed"
  BY DEF SessionAt, PerDay, l
<1> HIDE DEF day, time
<1>4. RegularClose(day) \in {26, 32} /\ PostEnd(day) \in {34, 40} /\ RegularClose(day) <= PostEnd(day)
  BY DEF RegularClose, PostEnd
<1>5. IsOpen(t) <=> \/ time >= 40 /\ IsTradingDay(day + 1)
                    \/ time < PostEnd(day) /\ IsTradingDay(day)
  <2>1. CASE time >= 40
    BY <1>2, <1>3, <1>4, <2>1 DEF IsOpen
  <2>2. CASE ~(time >= 40) /\ ~IsTradingDay(day)
    BY <1>2, <1>3, <1>4, <2>2 DEF IsOpen
  <2>3. CASE ~(time >= 40) /\ IsTradingDay(day)
    <3>1. CASE time < 8
      BY <1>2, <1>3, <1>4, <2>3, <3>1 DEF IsOpen
    <3>2. CASE time >= 8 /\ time < 19
      BY <1>2, <1>3, <1>4, <2>3, <3>2 DEF IsOpen
    <3>3. CASE time >= 19 /\ time < RegularClose(day)
      BY <1>2, <1>3, <1>4, <2>3, <3>3 DEF IsOpen
    <3>4. CASE time >= RegularClose(day) /\ time < PostEnd(day)
      BY <1>2, <1>3, <1>4, <2>3, <3>4 DEF IsOpen
    <3>5. CASE time >= PostEnd(day)
      BY <1>2, <1>3, <1>4, <2>3, <3>5 DEF IsOpen
    <3>6. QED
      BY <1>2, <1>4, <3>1, <3>2, <3>3, <3>4, <3>5
  <2>4. QED
    BY <2>1, <2>2, <2>3
<1>6. CASE IsOpen(t)
  <2>1. CASE time >= 40 /\ IsTradingDay(day + 1)
    <3>1. (day + 1) * 48 - 8 <= l /\ l < CloseOf(day + 1)
      BY <1>2, <2>1, TradingDayIs
    <3>2. QED
      BY <1>2, <1>6, <2>1, <3>1 DEF l
  <2>2. CASE time < PostEnd(day) /\ IsTradingDay(day)
    <3>1. day * 48 - 8 <= l /\ l < CloseOf(day)
      BY <1>2, <1>4, <2>2 DEF CloseOf
    <3>2. QED
      BY <1>2, <1>6, <2>2, <3>1 DEF l
  <2>3. QED
    BY <1>5, <1>6, <2>1, <2>2
<1>7. ASSUME NEW d \in Int, IsTradingDay(d), d * 48 - 8 <= l, l < CloseOf(d) PROVE IsOpen(t)
  <2>1. CloseOf(d) <= d * 48 + 40
    BY <1>7, TradingDayIs
  <2>2. d = day \/ d = day + 1
    BY <1>1, <1>2, <1>7, <2>1, TradingDayIs
  <2>3. CASE d = day
    BY <1>2, <1>4, <1>5, <1>7, <2>3 DEF CloseOf
  <2>4. CASE d = day + 1
    BY <1>2, <1>5, <1>7, <2>4
  <2>5. QED
    BY <2>2, <2>3, <2>4
<1>8. QED
  BY <1>6, <1>7 DEF l

(* A session ends at one moment: the clocks do not change around it (from_eastern). *)
LEMMA EndIs ==
  ASSUME NEW d \in Int, IsTradingDay(d)
  PROVE  /\ EndOf(d) \in Int /\ ToEastern(EndOf(d)) = CloseOf(d)
         /\ EndOf(d) >= CloseOf(d) + 8
<1>1. CloseOf(d) \in Int /\ \A s \in Sundays, k \in 0..11 : CloseOf(d) # s * 48 + k
  BY TradingDayIs
<1>2. EndOf(d) = IF IsDst(CloseOf(d) + 8) THEN CloseOf(d) + 8 ELSE CloseOf(d) + 10
  BY DEF EndOf, FromEastern
<1>3. PICK c \in Int : c = CloseOf(d)
  BY <1>1
<1>4. CASE IsDst(c + 8)
  <2>1. c + 8 \in Int /\ EndOf(d) = c + 8
    BY <1>2, <1>3, <1>4
  <2>2. ToEastern(c + 8) = c
    BY <1>4, <2>1, EasternIs
  <2>3. QED
    BY <1>3, <2>1, <2>2
<1>5. CASE ~IsDst(c + 8)
  <2>1. c + 8 \in Int /\ c + 10 \in Int /\ EndOf(d) = c + 10
    BY <1>2, <1>3, <1>5
  <2>2. ~IsDst(c + 10)
    <3>1. SUFFICES ASSUME IsDst(c + 10) PROVE FALSE
      OBVIOUS
    <3>2. PICK s \in Sundays : c + 8 < s * 48 + 14 /\ s * 48 + 14 <= c + 10
      BY <1>5, <2>1, <3>1, ClocksChange
    <3>3. s \in Int
      BY DEF Sundays
    <3>4. c = s * 48 + 4 \/ c = s * 48 + 5
      BY <3>2, <3>3
    <3>5. QED
      BY <1>1, <1>3, <3>4
  <2>3. ToEastern(c + 10) = c
    BY <2>1, <2>2, EasternIs
  <2>4. QED
    BY <1>3, <2>1, <2>3
<1>6. QED
  BY <1>4, <1>5

(* What is before the end of a session on the clock is before it, and nothing else is. *)
LEMMA BeforeEnd ==
  ASSUME NEW d \in Int, IsTradingDay(d), NEW t \in Int
  PROVE  t < EndOf(d) <=> ToEastern(t) < CloseOf(d)
<1>1. CloseOf(d) \in Int /\ \A s \in Sundays, k \in 0..11 : CloseOf(d) # s * 48 + k
  BY TradingDayIs
<1>2. PICK e \in Int, c \in Int : e = EndOf(d) /\ c = CloseOf(d) /\ c = ToEastern(e)
  BY <1>1, EndIs
<1>3. PICK l \in Int : l = ToEastern(t)
  BY EasternIs
<1>4. /\ IsDst(e) => c = e - 8
      /\ ~IsDst(e) => c = e - 10
      /\ IsDst(t) => l = t - 8
      /\ ~IsDst(t) => l = t - 10
  BY <1>2, <1>3, EasternIs
<1>5. CASE IsDst(e) <=> IsDst(t)
  BY <1>2, <1>3, <1>4, <1>5
<1>6. CASE IsDst(t) /\ ~IsDst(e)
  <2>1. CASE e <= t
    BY <1>2, <1>3, <1>4, <1>6, <2>1
  <2>2. CASE t < e
    <3>1. PICK s \in Sundays : t < s * 48 + 12 /\ s * 48 + 12 <= e
      BY <1>6, <2>2, ClocksChange
    <3>2. s \in Int
      BY DEF Sundays
    <3>3. c # s * 48 + 2 /\ c # s * 48 + 3
      BY <1>1, <1>2
    <3>4. t < e - 2
      BY <1>4, <1>6, <3>1, <3>2, <3>3
    <3>5. QED
      BY <1>2, <1>3, <1>4, <1>6, <2>2, <3>4
  <2>3. QED
    BY <2>1, <2>2
<1>7. CASE ~IsDst(t) /\ IsDst(e)
  <2>1. CASE t < e
    BY <1>2, <1>3, <1>4, <1>7, <2>1
  <2>2. CASE e <= t
    <3>1. PICK s \in Sundays : e < s * 48 + 12 /\ s * 48 + 12 <= t
      BY <1>7, <2>2, ClocksChange
    <3>2. s \in Int
      BY DEF Sundays
    <3>3. c # s * 48 + 3
      BY <1>1, <1>2
    <3>4. t >= e + 2
      BY <1>4, <1>7, <3>1, <3>2, <3>3
    <3>5. QED
      BY <1>2, <1>3, <1>4, <1>7, <2>2, <3>4
  <2>3. QED
    BY <2>1, <2>2
<1>8. QED
  BY <1>5, <1>6, <1>7

(* The clocks are not put back over the start of a session. *)
LEMMA StartLasts ==
  ASSUME NEW d \in Int, NEW u \in Int, NEW t \in Int, u <= t, d * 48 - 8 <= ToEastern(u)
  PROVE  d * 48 - 8 <= ToEastern(t)
<1>1. PICK k \in Int, l \in Int : k = ToEastern(u) /\ l = ToEastern(t)
  BY EasternIs
<1>2. /\ IsDst(u) => k = u - 8
      /\ ~IsDst(u) => k = u - 10
      /\ IsDst(t) => l = t - 8
      /\ ~IsDst(t) => l = t - 10
  BY <1>1, EasternIs
<1>3. CASE IsDst(u) /\ ~IsDst(t)
  <2>1. PICK s \in Sundays : u < s * 48 + 12 /\ s * 48 + 12 <= t
    BY <1>3, ClocksChange
  <2>2. s \in Int
    BY DEF Sundays
  <2>3. CASE u + 2 <= t
    BY <1>1, <1>2, <1>3, <2>3
  <2>4. CASE ~(u + 2 <= t)
    <3>1. k = s * 48 + 3 /\ l = s * 48 + 2
      BY <1>2, <1>3, <2>1, <2>2, <2>4
    <3>2. d * 48 - 8 # s * 48 + 3
      BY <2>2
    <3>3. QED
      BY <1>1, <3>1, <3>2, <2>2
  <2>5. QED
    BY <2>3, <2>4
<1>4. CASE ~(IsDst(u) /\ ~IsDst(t))
  BY <1>1, <1>2, <1>4
<1>5. QED
  BY <1>3, <1>4

(* There is a trading day in every week. *)
LEMMA SomeTradingDay ==
  ASSUME NEW d \in Int
  PROVE  \E e \in d .. d + 6 : IsTradingDay(e)
<1>1. PICK w \in d .. d + 2 : Weekday(w) \notin {0, 6}
  <2>1. Weekday(d) \in 0..6 /\ \A n \in 0..6 : Weekday(d + n) = IF Weekday(d) + n <= 6 THEN Weekday(d) + n
                                             ELSE Weekday(d) + n - 7
    BY WeekdayIs
  <2>2. CASE Weekday(d) \notin {0, 6}
    BY <2>2
  <2>3. CASE Weekday(d) = 0
    <3>1. Weekday(d + 1) = 1
      BY <2>1, <2>3
    <3>2. d + 1 \in d .. d + 2
      OBVIOUS
    <3>3. QED
      BY <3>1, <3>2
  <2>4. CASE Weekday(d) = 6
    <3>1. Weekday(d + 2) = 1
      BY <2>1, <2>4
    <3>2. d + 2 \in d .. d + 2
      OBVIOUS
    <3>3. QED
      BY <3>1, <3>2
  <2>5. QED
    BY <2>2, <2>3, <2>4
<1>2. CASE w \notin Holidays
  BY <1>1, <1>2 DEF IsTradingDay
<1>3. CASE w \in Holidays
  <2>1. PICK e \in w + 1 .. w + 4 : IsTradingDay(e)
    BY <1>3, CalendarAssumption
  <2>2. e \in d .. d + 6
    BY <2>1
  <2>3. QED
    BY <2>1, <2>2
<1>4. QED
  BY <1>2, <1>3

(* With the market closed, the last half hour it was open is that before the last end of a
   session in two weeks (last_open). *)
LEMMA LastOpenIs ==
  ASSUME NEW t \in Int
  PROVE  LastOpen(t) = {OpenUntil(t)}
<1> DEFINE today == ToEastern(t) \div 48
           past == {e \in {EndOf(d) : d \in {e \in today - 13 .. today : IsTradingDay(e)}} : e <= t}
           ends == {u + 1 : u \in {v \in t - 672 .. t - 1 : IsOpen(v)}}
<1>1. PICK l \in Int : l = ToEastern(t)
  BY EasternIs
<1>2. today \in Int /\ today * 48 <= l /\ l < today * 48 + 48 /\ l <= t - 8 /\ t <= l + 10
  <2>1. today \in Int /\ today * 48 <= l /\ l < today * 48 + 48
    BY <1>1
  <2>2. l <= t - 8 /\ t <= l + 10
    BY <1>1, EasternIs
  <2>3. QED
    BY <2>1, <2>2
<1>3. CASE IsOpen(t)
  BY <1>3 DEF LastOpen, OpenUntil
<1>4. CASE ~IsOpen(t)
  <2>1. /\ LastOpen(t) = IF past = {} THEN {} ELSE {Max(past)}
        /\ OpenUntil(t) = Max(ends)
    <3>1. OpenUntil(t) = Max(ends)
      BY <1>4 DEF OpenUntil, PerDay
    <3>2. LastOpen(t) = IF past = {} THEN {} ELSE {Max(past)}
      BY <1>4 DEF LastOpen, PerDay, EndOf, CloseOf
    <3>3. QED
      BY <3>1, <3>2
  <2>2. /\ \A e : e \in past <=> /\ e <= t
                                 /\ \E d \in today - 13 .. today : IsTradingDay(d) /\ e = EndOf(d)
        /\ \A e : e \in ends <=> \E u \in t - 672 .. t - 1 : IsOpen(u) /\ e = u + 1
    OBVIOUS
  <2> HIDE DEF past, ends, today
  <2>3. past \in SUBSET Int /\ \A e \in past : e <= t
    BY <1>2, <2>2, EndIs
  <2>4. ends \in SUBSET Int /\ \A e \in ends : e <= t
    BY <2>2
  <2>5. ASSUME NEW e \in past PROVE e \in ends
    <3>1. PICK d \in today - 13 .. today : IsTradingDay(d) /\ e = EndOf(d)
      BY <2>2, <2>5
    <3>2. d \in Int /\ e \in Int /\ e <= t
      BY <1>2, <2>3, <2>5
    <3>3. PICK c \in Int : c = CloseOf(d)
      BY <3>1, <3>2, TradingDayIs
    <3>4. c >= d * 48 + 34 /\ e >= c + 8 /\ ToEastern(e) = c
      <4>1. c >= d * 48 + 34
        BY <3>1, <3>2, <3>3, TradingDayIs
      <4>2. e >= c + 8 /\ ToEastern(e) = c
        BY <3>1, <3>2, <3>3, EndIs
      <4>3. QED
        BY <4>1, <4>2
    <3>5. e - 1 \in t - 672 .. t - 1
      BY <1>2, <3>1, <3>2, <3>4
    <3>6. ToEastern(e - 1) < c
      <4>1. e - 1 \in Int /\ e - 1 < e
        BY <3>2
      <4>2. QED
        BY <3>1, <3>2, <3>3, <4>1, BeforeEnd
    <3>7. d * 48 - 8 <= ToEastern(e - 1)
      <4>1. PICK k \in Int : k = ToEastern(e - 1)
        BY <3>2, EasternIs
      <4>2. c <= e - 8 /\ k >= e - 1 - 10
        BY <3>2, <3>4, <4>1, EasternIs
      <4>3. c >= e - 10 /\ c <= e - 8
        BY <3>2, <3>4, EasternIs
      <4>4. QED
        BY <3>2, <3>4, <4>1, <4>2, <4>3
    <3>8. IsOpen(e - 1)
      BY <3>1, <3>2, <3>3, <3>6, <3>7, OpenIs
    <3>9. e = (e - 1) + 1
      BY <3>2
    <3>10. QED
      BY <2>2, <3>5, <3>8, <3>9
  <2>6. PICK d0 \in today - 13 .. today - 7 : IsTradingDay(d0)
    <3>1. today - 13 \in Int /\ today - 13 + 6 = today - 7
      BY <1>2
    <3>2. \E e \in today - 13 .. today - 13 + 6 : IsTradingDay(e)
      BY <3>1, SomeTradingDay
    <3>3. QED
      BY <3>1, <3>2
  <2>7. d0 \in Int /\ d0 \in today - 13 .. today
    BY <1>2
  <2>8. PICK c0 \in Int : c0 = CloseOf(d0) /\ c0 >= d0 * 48 + 34 /\ c0 <= d0 * 48 + 40
    BY <2>6, <2>7, TradingDayIs
  <2>9. EndOf(d0) \in past
    <3>1. ~(l < c0)
      BY <1>2, <2>6, <2>7, <2>8
    <3>2. ~(t < EndOf(d0))
      BY <1>1, <2>6, <2>7, <2>8, <3>1, BeforeEnd
    <3>3. EndOf(d0) \in Int
      BY <2>6, <2>7, EndIs
    <3>4. QED
      BY <2>2, <2>6, <2>7, <3>2, <3>3
  <2>10. ASSUME NEW q \in ends PROVE \E e \in past : q <= e
    <3>1. PICK u \in t - 672 .. t - 1 : IsOpen(u) /\ q = u + 1
      BY <2>2, <2>10
    <3>2. u \in Int /\ u <= t
      BY <3>1
    <3>3. PICK d \in Int : IsTradingDay(d) /\ d * 48 - 8 <= ToEastern(u) /\ ToEastern(u) < CloseOf(d)
      BY <3>1, <3>2, OpenIs
    <3>4. PICK c \in Int : c = CloseOf(d) /\ c >= d * 48 + 34 /\ c <= d * 48 + 40
      BY <3>3, TradingDayIs
    <3>5. EndOf(d) \in Int /\ ToEastern(EndOf(d)) = c
      BY <3>3, <3>4, EndIs
    <3>6. q <= EndOf(d)
      <4>1. u < EndOf(d)
        BY <3>2, <3>3, BeforeEnd
      <4>2. QED
        BY <3>1, <3>2, <3>5, <4>1
    <3>7. ~(l < c)
      <4>1. d * 48 - 8 <= ToEastern(t)
        BY <3>2, <3>3, StartLasts
      <4>2. QED
        BY <1>1, <1>4, <3>3, <3>4, <4>1, OpenIs
    <3>8. EndOf(d) <= t
      <4>1. ~(t < EndOf(d))
        BY <1>1, <3>3, <3>4, <3>7, BeforeEnd
      <4>2. QED
        BY <3>5, <4>1
    <3>9. d <= today
      BY <1>2, <3>4, <3>7
    <3>10. CASE d >= today - 13
      <4>1. d \in today - 13 .. today
        BY <1>2, <3>9, <3>10
      <4>2. EndOf(d) \in past
        BY <2>2, <3>3, <3>8, <4>1
      <4>3. QED
        BY <3>6, <4>2
    <3>11. CASE ~(d >= today - 13)
      <4>1. c < c0
        BY <1>2, <2>6, <2>7, <2>8, <3>4, <3>11
      <4>2. EndOf(d) < EndOf(d0)
        BY <2>6, <2>7, <2>8, <3>5, <4>1, BeforeEnd
      <4>3. q \in Int /\ EndOf(d0) \in Int
        BY <2>3, <2>4, <2>9, <2>10
      <4>4. q <= EndOf(d0)
        BY <3>5, <3>6, <4>2, <4>3
      <4>5. QED
        BY <2>9, <4>4
    <3>12. QED
      BY <3>10, <3>11
  <2>11. Max(past) \in past /\ \A e \in past : e <= Max(past)
    BY <2>3, <2>9, MaxIs
  <2>12. Max(ends) \in ends /\ \A e \in ends : e <= Max(ends)
    BY <2>4, <2>5, <2>9, MaxIs
  <2>13. Max(past) <= Max(ends)
    BY <2>5, <2>11, <2>12
  <2>14. Max(ends) <= Max(past)
    <3>1. PICK m \in ends : m = Max(ends)
      BY <2>12
    <3>2. PICK e \in past : m <= e
      BY <2>10, Zenon
    <3>3. PICK p \in past : p = Max(past) /\ e <= p
      BY <2>11
    <3>4. m \in Int /\ e \in Int /\ p \in Int
      BY <2>3, <2>4
    <3>5. m <= p
      BY <3>2, <3>3, <3>4
    <3>6. QED
      BY <3>1, <3>3, <3>5
  <2>15. Max(past) = Max(ends)
    <3>1. Max(past) \in Int /\ Max(ends) \in Int
      BY <2>3, <2>4, <2>11, <2>12
    <3>2. QED
      BY <2>13, <2>14, <3>1
  <2>16. QED
    BY <2>1, <2>9, <2>15
<1>5. QED
  BY <1>3, <1>4

-----------------------------------------------------------------------------
(***************************************************************************)
(* The price of a tokenized stock.                                          *)
(***************************************************************************)
StockWorld ==
  request.op = "rwa_price" =>
    /\ request.maxAge \in Int /\ world.now \in Int
    /\ world.round \in Seq([answer : Int, updated : Int])

(* Staleness is counted from the last half hour in which the market was open (is_stale). *)
LEMMA StaleIs ==
  ASSUME NEW updated, NEW now \in Int, NEW maxAge
  PROVE  IsStale(updated, now, maxAge) <=> OpenUntil(now) - updated > maxAge
<1>1. LastOpen(now) = {OpenUntil(now)} /\ LastOpen(now) # {}
  BY LastOpenIs
<1>2. IsStale(updated, now, maxAge) <=> \E reference \in LastOpen(now) : reference - updated > maxAge
  BY <1>1 DEF IsStale
<1>3. QED
  BY <1>1, <1>2

(* rwa_price: only the round has to be read. *)
LEMMA StockStep ==
  ASSUME StockWorld, RwaPrice
  PROVE  StockPriceBySession'
<1>1. /\ request.op = "rwa_price" /\ UNCHANGED <<request, world>>
      /\ answer' = IF Lookup(request.asset) # "found" THEN Refuse(Lookup(request.asset))
                   ELSE IF world.round = <<>> THEN Refuse("AllProvidersFailed")
                   ELSE Reply(AssessPrice(world.round[1]))
  BY DEF RwaPrice, Conclude
<1>2. \/ \E code : answer' = Refuse(code)
      \/ answer' = Reply(AssessPrice(world.round[1]))
  BY <1>1
<1>3. ASSUME NEW code, answer' = Refuse(code) PROVE StockPriceBySession'
  <2>1. answer'.at # "replied"
    BY <1>3 DEF Refuse
  <2>2. QED
    BY <2>1, Zenon DEF StockPriceBySession, Replied
<1>4. ASSUME answer' = Reply(AssessPrice(world.round[1])) PROVE StockPriceBySession'
  <2> DEFINE round == world.round[1]
             out == AssessPrice(round)
             stale == OpenUntil(world.now) - round.updated > request.maxAge
  <2>1. answer'.out = out
    BY <1>4 DEF Reply
  <2>2. (OpenUntil(world.now) - world.round[1].updated > request.maxAge)' <=> stale
    BY <1>1 DEF OpenUntil
  <2>3. IsStale(round.updated, world.now, request.maxAge) <=> stale
    <3>1. world.now \in Int
      BY <1>1 DEF StockWorld
    <3> HIDE DEF round
    <3>2. QED
      BY <3>1, StaleIs DEF stale
  <2>4. \/ out = [status |-> "unknown", price |-> {}]
        \/ /\ world.paused # "paused" /\ world.sequencer # "down"
           /\ out = [status |-> IF stale THEN "stale" ELSE "ok", price |-> {round.answer}]
    BY <2>3 DEF AssessPrice, Unpriced
  <2> HIDE DEF out, stale
  <2>5. /\ out.status = "unknown" <=> out.price = {}
        /\ out.price # {} => /\ world.paused # "paused" /\ world.sequencer # "down"
                             /\ out.status = "stale" <=> stale
    <3>1. CASE out = [status |-> "unknown", price |-> {}]
      BY <3>1
    <3>2. CASE /\ world.paused # "paused" /\ world.sequencer # "down"
               /\ out = [status |-> IF stale THEN "stale" ELSE "ok", price |-> {round.answer}]
      BY <3>2
    <3>3. QED
      BY <2>4, <3>1, <3>2
  <2>6. /\ (answer.out.status = "unknown")' <=> out.status = "unknown"
        /\ (answer.out.price = {})' <=> out.price = {}
        /\ (answer.out.status = "stale")' <=> out.status = "stale"
        /\ (world.paused # "paused" /\ world.sequencer # "down")' <=> world.paused # "paused" /\ world.sequencer # "down"
    BY <1>1, <2>1
  <2>7. QED
    BY <2>2, <2>5, <2>6 DEF StockPriceBySession
<1>5. QED
  BY <1>2, <1>3, <1>4

-----------------------------------------------------------------------------
(***************************************************************************)
(* Any call about a price.                                                  *)
(***************************************************************************)
PriceOp == StockOp \cup MarketOp \cup TradeOp
PriceInv == PriceWorld /\ StockWorld /\ SwapWorld /\ PricesHonest /\ SwapKeepsItsFloor

(* No other call is about prices. *)
LEMMA PriceElsewhere ==
  ASSUME request.op \notin {"rwa_price", "trade_build_swap_tx"} \cup Priced
  PROVE  PriceInv
BY DEF Priced, PriceInv, PriceWorld, StockWorld, SwapWorld, PricesHonest, AggregatesHonest,
       StockPriceBySession, SwapKeepsItsFloor, Replied

(* What a call is given is of its type, and nothing has been said. *)
LEMMA PriceStart ==
  ASSUME StartIn(StockCases) \/ StartIn(MarketCases) \/ StartIn(TradeCases)
  PROVE  PriceInv /\ request.op \in PriceOp
<1>1. answer.at = "asked"
  BY DEF StartIn, Asked
<1>2. PricesHonest /\ SwapKeepsItsFloor
  BY <1>1 DEF PricesHonest, AggregatesHonest, StockPriceBySession, SwapKeepsItsFloor, Replied
<1>3. CASE StartIn(StockCases)
  <2>1. PICK c \in StockCases : request = c.request /\ world = c.world
    BY <1>3 DEF StartIn
  <2>2. /\ request.op \in StockOp /\ StockWorld
    BY <2>1, StockAssumption DEF StockWorld
  <2>3. request.op \notin Priced /\ request.op # "trade_build_swap_tx"
    BY <2>2 DEF StockOp, Priced
  <2>4. PriceWorld /\ SwapWorld
    BY <2>3 DEF PriceWorld, SwapWorld
  <2>5. QED
    BY <1>2, <2>2, <2>4 DEF PriceInv, PriceOp
<1>4. CASE StartIn(MarketCases)
  <2>1. PICK c \in MarketCases : request = c.request /\ world = c.world
    BY <1>4 DEF StartIn
  <2>2. /\ request.op \in MarketOp /\ PriceWorld
    BY <2>1, MarketAssumption DEF PriceWorld, Sources, Priced
  <2>3. request.op # "rwa_price" /\ request.op # "trade_build_swap_tx"
    BY <2>2 DEF MarketOp, Priced
  <2>4. StockWorld /\ SwapWorld
    BY <2>3 DEF StockWorld, SwapWorld
  <2>5. QED
    BY <1>2, <2>2, <2>4 DEF PriceInv, PriceOp
<1>5. CASE StartIn(TradeCases)
  <2>1. PICK c \in TradeCases : request = c.request /\ world = c.world
    BY <1>5 DEF StartIn
  <2>2. /\ request.op \in TradeOp /\ SwapWorld
    BY <2>1, TradeAssumption DEF SwapWorld, Quotes
  <2>3. request.op # "rwa_price" /\ request.op \notin Priced
    BY <2>2 DEF TradeOp, Priced
  <2>4. StockWorld /\ PriceWorld
    BY <2>3 DEF StockWorld, PriceWorld
  <2>5. QED
    BY <1>2, <2>2, <2>4 DEF PriceInv, PriceOp
<1>6. QED
  BY <1>3, <1>4, <1>5

(* Whichever operation steps, what it says of a price is honest. *)
LEMMA PriceStep ==
  ASSUME PriceInv, [StockNext \/ MarketNext \/ TradeNext]_vars
  PROVE  PriceInv'
<1> USE DEF PriceInv
<1>1. UNCHANGED <<request, world>>
  BY DEF StockNext, RwaPrice, RwaTokenInfo, MarketNext, MarketGetPrice, MarketGetPriceAt, StablecoinPeg,
         TokenGetMetadata, TokenCheckRisk, TradeNext, GetSwapQuote, BuildSwapTx, Conclude, vars
<1>2. PriceWorld' /\ StockWorld' /\ SwapWorld'
  BY <1>1 DEF PriceWorld, StockWorld, SwapWorld
<1>3. ASSUME UNCHANGED request, request.op \notin {"rwa_price", "trade_build_swap_tx"} \cup Priced
      PROVE  PriceInv'
  BY <1>3 DEF Priced, PriceWorld, StockWorld, SwapWorld, PricesHonest, AggregatesHonest,
              StockPriceBySession, SwapKeepsItsFloor, Replied
<1>4. request.op # "rwa_price" => StockPriceBySession'
  BY <1>1 DEF StockPriceBySession, Replied
<1>5. request.op \notin Priced => AggregatesHonest'
  BY <1>1 DEF AggregatesHonest, Priced
<1>6. request.op # "trade_build_swap_tx" => SwapKeepsItsFloor'
  BY <1>1 DEF SwapKeepsItsFloor, Replied
<1>7. CASE UNCHANGED vars
  <2>1. UNCHANGED <<request, world, answer>>
    BY <1>7 DEF vars
  <2>2. AggregatesHonest'
    BY <2>1 DEF PricesHonest, AggregatesHonest, HonestAnswer, Given, Priced
  <2>3. StockPriceBySession'
    BY <2>1 DEF PricesHonest, StockPriceBySession, Replied
  <2>4. SwapKeepsItsFloor'
    BY <2>1 DEF SwapKeepsItsFloor, FloorKept, AllowedAfter, Replied
  <2>5. QED
    BY <1>2, <2>2, <2>3, <2>4 DEF PricesHonest
<1>8. CASE StockNext
  <2>1. CASE RwaPrice
    <3>1. request.op = "rwa_price" /\ StockPriceBySession'
      BY <2>1, StockStep DEF RwaPrice, Conclude
    <3>2. QED
      BY <1>2, <1>5, <1>6, <3>1 DEF PricesHonest, Priced
  <2>2. CASE RwaTokenInfo
    BY <1>1, <1>3, <2>2 DEF RwaTokenInfo, Conclude, Priced
  <2>3. QED
    BY <1>8, <2>1, <2>2 DEF StockNext
<1>9. CASE MarketNext
  <2>1. CASE MarketGetPrice \/ MarketGetPriceAt \/ StablecoinPeg
    <3>1. request.op \in Priced /\ AggregatesHonest'
      BY <2>1, GetPriceStep, GetPriceAtStep, PegStep
      DEF MarketGetPrice, MarketGetPriceAt, StablecoinPeg, Conclude, Priced
    <3>2. QED
      BY <1>2, <1>4, <1>6, <3>1 DEF PricesHonest, Priced
  <2>2. CASE TokenGetMetadata \/ TokenCheckRisk
    BY <1>1, <1>3, <2>2 DEF TokenGetMetadata, TokenCheckRisk, Conclude, Priced
  <2>3. QED
    BY <1>9, <2>1, <2>2 DEF MarketNext
<1>10. CASE TradeNext
  <2>1. CASE BuildSwapTx
    <3>1. request.op = "trade_build_swap_tx" /\ SwapKeepsItsFloor'
      BY <2>1, SwapStep DEF BuildSwapTx, Conclude
    <3>2. QED
      BY <1>2, <1>4, <1>5, <3>1 DEF PricesHonest, Priced
  <2>2. CASE GetSwapQuote
    BY <1>1, <1>3, <2>2 DEF GetSwapQuote, Conclude, Priced
  <2>3. QED
    BY <1>10, <2>1, <2>2 DEF TradeNext
<1>11. QED
  BY <1>7, <1>8, <1>9, <1>10

-----------------------------------------------------------------------------
(***************************************************************************)
(* Sums over finite sets.  The step of an induction is stated about a set   *)
(* Q of sets, so that it is a first-order fact.                             *)
(***************************************************************************)

(* What holds of the empty set, and of a set once it does without any one of its elements,
   holds of every finite set. *)
LEMMA FiniteInduction ==
  ASSUME NEW S, IsFiniteSet(S), NEW Q, {} \in Q,
         \A T \in SUBSET S : T # {} /\ (\A x \in T : T \ {x} \in Q) => T \in Q
  PROVE  S \in Q
<1> DEFINE Sizes == {n \in Nat : \E T \in SUBSET S : Cardinality(T) = n /\ T \notin Q}
<1>1. \A T \in SUBSET S : IsFiniteSet(T) /\ Cardinality(T) \in Nat
  BY FS_Subset, FS_CardinalityType
<1>2. SUFFICES ASSUME Sizes # {} PROVE FALSE
  <2>1. S \in SUBSET S
    OBVIOUS
  <2>2. QED
    BY <1>1, <2>1
<1>3. PICK n \in Sizes : \A m \in Sizes : n <= m
  BY <1>2, LeastNatural
<1>4. PICK T \in SUBSET S : Cardinality(T) = n /\ T \notin Q
  OBVIOUS
<1>5. ASSUME NEW x \in T PROVE T \ {x} \in Q
  <2>1. IsFiniteSet(T) /\ Cardinality(T \ {x}) = Cardinality(T) - 1
    BY <1>1, FS_RemoveElement
  <2>2. T \ {x} \in SUBSET S /\ Cardinality(T \ {x}) \in Nat
    BY <1>1
  <2>3. Cardinality(T \ {x}) \notin Sizes
    <3>1. n \in Nat /\ Cardinality(T \ {x}) < n
      BY <1>4, <2>1, <2>2
    <3>2. ASSUME Cardinality(T \ {x}) \in Sizes PROVE FALSE
      <4>1. n <= Cardinality(T \ {x})
        BY <1>3, <3>2
      <4>2. QED
        BY <2>2, <3>1, <4>1
    <3>3. QED
      BY <3>2
  <2>4. QED
    BY <2>2, <2>3
<1>6. QED
  BY <1>4, <1>5

\* The element that SumFunctionOnSet takes first.
Chosen(s) == CHOOSE x \in s : TRUE

\* The sums of some sets, as SumFunctionOnSet defines them.
SumsOf(f, D, h) == h = [s \in D |-> IF s = {} THEN 0 ELSE f[Chosen(s)] + h[s \ {Chosen(s)}]]

LEMMA SumUnfolds ==
  ASSUME NEW f, NEW S
  PROVE  SumFunctionOnSet(f, S) = (CHOOSE h : SumsOf(f, SUBSET S, h))[S]
<1>1. SumFunctionOnSet(f, S)
        = MapThenFoldSet(LAMBDA x, y : x + y, 0, LAMBDA i : f[i], LAMBDA s : CHOOSE x \in s : TRUE, S)
  BY Zenon DEF SumFunctionOnSet, FoldFunctionOnSet
<1>2. MapThenFoldSet(LAMBDA x, y : x + y, 0, LAMBDA i : f[i], LAMBDA s : CHOOSE x \in s : TRUE, S)
        = (CHOOSE h : h = [s \in SUBSET S |-> IF s = {} THEN 0
                                              ELSE f[CHOOSE x \in s : TRUE] + h[s \ {CHOOSE x \in s : TRUE}]])[S]
  BY Zenon DEF MapThenFoldSet
<1>3. QED
  BY <1>1, <1>2, Zenon DEF SumsOf, Chosen

(* They exist. *)
LEMMA SumsExist ==
  ASSUME NEW f, NEW S, IsFiniteSet(S)
  PROVE  \E h : SumsOf(f, SUBSET S, h)
<1> DEFINE Upto(n) == {s \in SUBSET S : Cardinality(s) <= n}
           Known == {n \in Nat : \E h : SumsOf(f, Upto(n), h)}
<1>1. \A s \in SUBSET S : IsFiniteSet(s) /\ Cardinality(s) \in Nat /\ Cardinality(s) <= Cardinality(S)
  BY FS_Subset, FS_CardinalityType
<1>2. Cardinality({}) = 0 /\ \A s \in SUBSET S : Cardinality(s) = 0 <=> s = {}
  BY <1>1, FS_EmptySet
<1>3. \A s \in SUBSET S : s # {} => /\ Chosen(s) \in s /\ s \ {Chosen(s)} \in SUBSET S
                                    /\ Cardinality(s \ {Chosen(s)}) = Cardinality(s) - 1
  <2> SUFFICES ASSUME NEW s \in SUBSET S, s # {}
               PROVE  /\ Chosen(s) \in s /\ s \ {Chosen(s)} \in SUBSET S
                      /\ Cardinality(s \ {Chosen(s)}) = Cardinality(s) - 1
    OBVIOUS
  <2>1. Chosen(s) \in s
    BY DEF Chosen
  <2>2. QED
    BY <1>1, <2>1, FS_RemoveElement
<1>4. 0 \in Known
  <2> DEFINE h == [s \in Upto(0) |-> 0]
  <2>1. \A s \in Upto(0) : s = {}
    BY <1>1, <1>2
  <2>2. h = [s \in Upto(0) |-> IF s = {} THEN 0 ELSE f[Chosen(s)] + h[s \ {Chosen(s)}]]
    BY <2>1
  <2>3. QED
    BY <2>2 DEF SumsOf
<1>5. ASSUME NEW n \in Known PROVE n + 1 \in Known
  <2>1. n \in Nat /\ n + 1 \in Nat
    OBVIOUS
  <2>2. PICK g : SumsOf(f, Upto(n), g)
    OBVIOUS
  <2> DEFINE h == [s \in Upto(n + 1) |-> IF s = {} THEN 0 ELSE f[Chosen(s)] + g[s \ {Chosen(s)}]]
  <2>3. \A s \in Upto(n) : g[s] = IF s = {} THEN 0 ELSE f[Chosen(s)] + g[s \ {Chosen(s)}]
    BY <2>2 DEF SumsOf
  <2>4. \A s \in Upto(n) : s \in Upto(n + 1)
    BY <1>1, <2>1
  <2>5. \A s \in Upto(n) : h[s] = g[s]
    BY <2>3, <2>4
  <2>6. \A s \in Upto(n + 1) : s # {} => s \ {Chosen(s)} \in Upto(n)
    BY <1>1, <1>3, <2>1
  <2>7. h = [s \in Upto(n + 1) |-> IF s = {} THEN 0 ELSE f[Chosen(s)] + h[s \ {Chosen(s)}]]
    BY <2>5, <2>6
  <2>8. SumsOf(f, Upto(n + 1), h)
    BY <2>7 DEF SumsOf
  <2>9. QED
    BY <2>1, <2>8
<1> HIDE DEF Known
<1>6. \A n \in Nat : n \in Known
  <2> DEFINE Unknown == {n \in Nat : n \notin Known}
  <2>1. SUFFICES ASSUME Unknown # {} PROVE FALSE
    OBVIOUS
  <2>2. PICK n \in Unknown : \A m \in Unknown : n <= m
    BY <2>1, LeastNatural
  <2>3. n # 0 /\ n - 1 \in Nat /\ n - 1 \in Known
    BY <1>4, <2>2
  <2>4. n - 1 + 1 = n
    BY <2>3
  <2>5. QED
    BY <1>5, <2>3, <2>4
<1>7. Cardinality(S) \in Nat
  BY FS_CardinalityType
<1>8. PICK h : SumsOf(f, Upto(Cardinality(S)), h)
  BY <1>6, <1>7 DEF Known
<1>9. Upto(Cardinality(S)) = SUBSET S
  BY <1>1
<1>10. QED
  BY <1>8, <1>9

(* The sum of no numbers is zero, and the first is added to the sum of the others. *)
LEMMA SumTakes ==
  ASSUME NEW f, NEW S, IsFiniteSet(S)
  PROVE  /\ SumFunctionOnSet(f, {}) = 0
         /\ S # {} => SumFunctionOnSet(f, S) = f[Chosen(S)] + SumFunctionOnSet(f, S \ {Chosen(S)})
<1>1. PICK g : SumsOf(f, SUBSET S, g)
  BY SumsExist
<1>2. \A s \in SUBSET S : g[s] = IF s = {} THEN 0 ELSE f[Chosen(s)] + g[s \ {Chosen(s)}]
  BY <1>1 DEF SumsOf
<1>3. \A s \in SUBSET S : s # {} => Chosen(s) \in s
  BY DEF Chosen
<1>4. ASSUME NEW T \in SUBSET S PROVE SumFunctionOnSet(f, T) = g[T]
  <2>1. IsFiniteSet(T)
    BY FS_Subset
  <2> DEFINE h == CHOOSE h : SumsOf(f, SUBSET T, h)
             Q == {s \in SUBSET T : h[s] = g[s]}
  <2>2. SumsOf(f, SUBSET T, h)
    BY <2>1, SumsExist
  <2>3. SumFunctionOnSet(f, T) = h[T]
    BY SumUnfolds
  <2> HIDE DEF h
  <2>4. \A s \in SUBSET T : h[s] = IF s = {} THEN 0 ELSE f[Chosen(s)] + h[s \ {Chosen(s)}]
    BY <2>2 DEF SumsOf
  <2>5. {} \in Q
    BY <1>2, <2>4
  <2>6. ASSUME NEW s \in SUBSET T, s # {}, \A x \in s : s \ {x} \in Q PROVE s \in Q
    <3>1. s \in SUBSET S /\ Chosen(s) \in s
      BY <1>3, <2>6
    <3>2. h[s \ {Chosen(s)}] = g[s \ {Chosen(s)}]
      BY <2>6, <3>1
    <3>3. QED
      BY <1>2, <2>4, <2>6, <3>1, <3>2
  <2> HIDE DEF Q
  <2>7. T \in Q
    BY <2>1, <2>5, <2>6, FiniteInduction
  <2>8. QED
    BY <2>3, <2>7 DEF Q
<1>5. SumFunctionOnSet(f, {}) = 0
  BY <1>2, <1>4
<1>6. ASSUME S # {}
      PROVE  SumFunctionOnSet(f, S) = f[Chosen(S)] + SumFunctionOnSet(f, S \ {Chosen(S)})
  <2>1. S \in SUBSET S /\ S \ {Chosen(S)} \in SUBSET S
    OBVIOUS
  <2>2. SumFunctionOnSet(f, S) = g[S] /\ SumFunctionOnSet(f, S \ {Chosen(S)}) = g[S \ {Chosen(S)}]
    BY <1>4, <2>1
  <2>3. g[S] = f[Chosen(S)] + g[S \ {Chosen(S)}]
    BY <1>2, <1>6, <2>1
  <2>4. QED
    BY <2>2, <2>3
<1>7. QED
  BY <1>5, <1>6

LEMMA SumOfNone ==
  ASSUME NEW f
  PROVE  SumFunctionOnSet(f, {}) = 0
BY FS_EmptySet, SumTakes

(* A sum of integers is one, and any of them may be taken first. *)
LEMMA SumOfInts ==
  ASSUME NEW f, NEW S, IsFiniteSet(S), \A x \in S : f[x] \in Int
  PROVE  SumFunctionOnSet(f, S) \in Int
<1> DEFINE Q == {T \in SUBSET S : SumFunctionOnSet(f, T) \in Int}
<1>1. {} \in Q
  BY SumOfNone
<1>2. ASSUME NEW T \in SUBSET S, T # {}, \A x \in T : T \ {x} \in Q PROVE T \in Q
  <2>1. IsFiniteSet(T) /\ Chosen(T) \in T
    BY <1>2, FS_Subset DEF Chosen
  <2>2. SumFunctionOnSet(f, T) = f[Chosen(T)] + SumFunctionOnSet(f, T \ {Chosen(T)})
    BY <1>2, <2>1, SumTakes
  <2>3. QED
    BY <1>2, <2>1, <2>2
<1> HIDE DEF Q
<1>3. S \in Q
  BY <1>1, <1>2, FiniteInduction
<1>4. QED
  BY <1>3 DEF Q

LEMMA SumOfNats ==
  ASSUME NEW f, NEW S, IsFiniteSet(S), \A x \in S : f[x] \in Nat
  PROVE  SumFunctionOnSet(f, S) \in Nat
<1> DEFINE Q == {T \in SUBSET S : SumFunctionOnSet(f, T) \in Nat}
<1>1. {} \in Q
  BY SumOfNone
<1>2. ASSUME NEW T \in SUBSET S, T # {}, \A x \in T : T \ {x} \in Q PROVE T \in Q
  <2>1. IsFiniteSet(T) /\ Chosen(T) \in T
    BY <1>2, FS_Subset DEF Chosen
  <2>2. SumFunctionOnSet(f, T) = f[Chosen(T)] + SumFunctionOnSet(f, T \ {Chosen(T)})
    BY <1>2, <2>1, SumTakes
  <2>3. QED
    BY <1>2, <2>1, <2>2
<1> HIDE DEF Q
<1>3. S \in Q
  BY <1>1, <1>2, FiniteInduction
<1>4. QED
  BY <1>3 DEF Q

LEMMA SumAny ==
  ASSUME NEW f, NEW S, IsFiniteSet(S), \A x \in S : f[x] \in Int, NEW x \in S
  PROVE  SumFunctionOnSet(f, S) = f[x] + SumFunctionOnSet(f, S \ {x})
<1> DEFINE Q == {T \in SUBSET S :
                   \A y \in T : SumFunctionOnSet(f, T) = f[y] + SumFunctionOnSet(f, T \ {y})}
<1>1. {} \in Q
  OBVIOUS
<1>2. ASSUME NEW T \in SUBSET S, T # {}, \A y \in T : T \ {y} \in Q PROVE T \in Q
  <2>1. IsFiniteSet(T) /\ Chosen(T) \in T
    BY <1>2, FS_Subset DEF Chosen
  <2>2. PICK c \in T : c = Chosen(T)
    BY <2>1
  <2>3. SumFunctionOnSet(f, T) = f[c] + SumFunctionOnSet(f, T \ {c})
    BY <1>2, <2>1, <2>2, SumTakes
  <2>4. ASSUME NEW y \in T, y # c PROVE SumFunctionOnSet(f, T) = f[y] + SumFunctionOnSet(f, T \ {y})
    <3>1. T \ {c} \in Q /\ T \ {y} \in Q /\ y \in T \ {c} /\ c \in T \ {y}
      BY <1>2, <2>4
    <3>2. (T \ {c}) \ {y} = (T \ {y}) \ {c}
      OBVIOUS
    <3>3. SumFunctionOnSet(f, T \ {c}) = f[y] + SumFunctionOnSet(f, (T \ {c}) \ {y})
      BY <3>1
    <3>4. SumFunctionOnSet(f, T \ {y}) = f[c] + SumFunctionOnSet(f, (T \ {c}) \ {y})
      BY <3>1, <3>2
    <3>5. SumFunctionOnSet(f, (T \ {c}) \ {y}) \in Int
      <4>1. IsFiniteSet((T \ {c}) \ {y})
        BY <2>1, FS_Subset
      <4>2. QED
        BY <4>1, SumOfInts
    <3>6. f[c] \in Int /\ f[y] \in Int
      OBVIOUS
    <3>7. QED
      BY <2>3, <3>3, <3>4, <3>5, <3>6
  <2>5. QED
    BY <2>3, <2>4
<1> HIDE DEF Q
<1>3. S \in Q
  BY <1>1, <1>2, FiniteInduction
<1>4. QED
  BY <1>3 DEF Q

(* Sums add up term by term. *)
LEMMA SumAdds ==
  ASSUME NEW f, NEW g, NEW h, NEW S, IsFiniteSet(S),
         \A x \in S : f[x] \in Int /\ g[x] \in Int /\ h[x] = f[x] + g[x]
  PROVE  SumFunctionOnSet(h, S) = SumFunctionOnSet(f, S) + SumFunctionOnSet(g, S)
<1> DEFINE Q == {T \in SUBSET S :
                   SumFunctionOnSet(h, T) = SumFunctionOnSet(f, T) + SumFunctionOnSet(g, T)}
<1>1. {} \in Q
  BY SumOfNone
<1>2. ASSUME NEW T \in SUBSET S, T # {}, \A x \in T : T \ {x} \in Q PROVE T \in Q
  <2>1. PICK c \in T : TRUE
    BY <1>2
  <2>2. IsFiniteSet(T) /\ IsFiniteSet(T \ {c})
    BY FS_Subset
  <2>3. /\ \A x \in T : f[x] \in Int /\ g[x] \in Int /\ h[x] \in Int
        /\ h[c] = f[c] + g[c]
    OBVIOUS
  <2>4. SumFunctionOnSet(f, T) = f[c] + SumFunctionOnSet(f, T \ {c})
    BY <2>2, <2>3, SumAny
  <2>5. SumFunctionOnSet(g, T) = g[c] + SumFunctionOnSet(g, T \ {c})
    BY <2>2, <2>3, SumAny
  <2>6. SumFunctionOnSet(h, T) = h[c] + SumFunctionOnSet(h, T \ {c})
    BY <2>2, <2>3, SumAny
  <2>7. SumFunctionOnSet(f, T \ {c}) \in Int /\ SumFunctionOnSet(g, T \ {c}) \in Int
    BY <2>2, <2>3, SumOfInts
  <2>8. SumFunctionOnSet(h, T \ {c}) = SumFunctionOnSet(f, T \ {c}) + SumFunctionOnSet(g, T \ {c})
    BY <1>2
  <2>9. QED
    BY <2>3, <2>4, <2>5, <2>6, <2>7, <2>8
<1> HIDE DEF Q
<1>3. S \in Q
  BY <1>1, <1>2, FiniteInduction
<1>4. QED
  BY <1>3 DEF Q

(* Renaming the terms does not change their sum. *)
LEMMA SumRenamed ==
  ASSUME NEW f, NEW g, NEW S, IsFiniteSet(S), NEW n, \A x, y \in S : n[x] = n[y] => x = y,
         \A x \in S : f[x] \in Int /\ g[n[x]] = f[x]
  PROVE  SumFunctionOnSet(f, S) = SumFunctionOnSet(g, {n[x] : x \in S})
<1> DEFINE Image(T) == {n[x] : x \in T}
           Q == {T \in SUBSET S : SumFunctionOnSet(f, T) = SumFunctionOnSet(g, Image(T))}
<1>1. {} \in Q
  <2>1. Image({}) = {}
    OBVIOUS
  <2>2. QED
    BY <2>1, SumOfNone
<1>2. ASSUME NEW T \in SUBSET S, T # {}, \A x \in T : T \ {x} \in Q PROVE T \in Q
  <2>1. PICK c \in T : TRUE
    BY <1>2
  <2>2. IsFiniteSet(T) /\ IsFiniteSet(Image(T))
    <3>1. IsFiniteSet(T)
      BY FS_Subset
    <3>2. IsFiniteSet({n[x] : x \in T})
      <4>1. [x \in T |-> n[x]] \in Surjection(T, {n[x] : x \in T})
        BY DEF Surjection
      <4>2. QED
        BY <3>1, <4>1, FS_Surjection
    <3>3. QED
      BY <3>1, <3>2
  <2>3. SumFunctionOnSet(f, T) = f[c] + SumFunctionOnSet(f, T \ {c})
    BY <2>2, SumAny
  <2>4. /\ \A y \in Image(T) : g[y] \in Int
        /\ n[c] \in Image(T) /\ g[n[c]] = f[c]
    OBVIOUS
  <2>5. SumFunctionOnSet(g, Image(T)) = g[n[c]] + SumFunctionOnSet(g, Image(T) \ {n[c]})
    BY <2>2, <2>4, SumAny
  <2>6. Image(T) \ {n[c]} = Image(T \ {c})
    <3>1. \A y : y \in Image(T) \ {n[c]} <=> y \in Image(T \ {c})
      OBVIOUS
    <3>2. QED
      BY <3>1
  <2>7. SumFunctionOnSet(f, T \ {c}) = SumFunctionOnSet(g, Image(T \ {c}))
    BY <1>2
  <2>8. QED
    BY <2>3, <2>4, <2>5, <2>6, <2>7
<1>3. S \in Q
  <2> HIDE DEF Q
  <2>1. QED
    BY <1>1, <1>2, FiniteInduction
<1>4. QED
  BY <1>3

(* Terms that are alike have the same sum. *)
LEMMA SumAlike ==
  ASSUME NEW f, NEW g, NEW S, IsFiniteSet(S), \A x \in S : f[x] \in Int /\ g[x] = f[x]
  PROVE  SumFunctionOnSet(g, S) = SumFunctionOnSet(f, S)
<1> DEFINE n == [x \in S |-> x]
<1>1. /\ {n[x] : x \in S} = S
      /\ \A x, y \in S : n[x] = n[y] => x = y
      /\ \A x \in S : f[x] \in Int /\ g[n[x]] = f[x]
  OBVIOUS
<1> HIDE DEF n
<1>2. SumFunctionOnSet(f, S) = SumFunctionOnSet(g, {n[x] : x \in S})
  BY <1>1, SumRenamed
<1>3. QED
  BY <1>1, <1>2

(* Zeros do not count. *)
LEMMA SumOfZeros ==
  ASSUME NEW f, NEW S, IsFiniteSet(S), NEW R \in SUBSET S, \A x \in R : f[x] \in Int, \A x \in S \ R : f[x] = 0
  PROVE  SumFunctionOnSet(f, S) = SumFunctionOnSet(f, R)
<1> DEFINE Q == {T \in SUBSET S : SumFunctionOnSet(f, T) = SumFunctionOnSet(f, T \cap R)}
<1>1. {} \in Q
  <2>1. {} \cap R = {}
    OBVIOUS
  <2>2. QED
    BY <2>1
<1>2. ASSUME NEW T \in SUBSET S, T # {}, \A x \in T : T \ {x} \in Q PROVE T \in Q
  <2>1. PICK c \in T : TRUE
    BY <1>2
  <2>2. IsFiniteSet(T) /\ IsFiniteSet(T \cap R) /\ IsFiniteSet(T \ {c})
    BY FS_Subset
  <2>3. \A x \in T : f[x] \in Int
    OBVIOUS
  <2>4. SumFunctionOnSet(f, T) = f[c] + SumFunctionOnSet(f, T \ {c})
    BY <2>2, <2>3, SumAny
  <2>5. SumFunctionOnSet(f, T \ {c}) = SumFunctionOnSet(f, (T \ {c}) \cap R)
    BY <1>2
  <2>6. CASE c \in R
    <3>1. (T \cap R) \ {c} = (T \ {c}) \cap R
      OBVIOUS
    <3>2. SumFunctionOnSet(f, T \cap R) = f[c] + SumFunctionOnSet(f, (T \cap R) \ {c})
      BY <2>2, <2>3, <2>6, SumAny
    <3>3. QED
      BY <2>4, <2>5, <3>1, <3>2
  <2>7. CASE c \notin R
    <3>1. T \cap R = (T \ {c}) \cap R
      BY <2>7
    <3>2. f[c] = 0 /\ SumFunctionOnSet(f, T \ {c}) \in Int
      BY <2>2, <2>3, <2>7, SumOfInts
    <3>3. SumFunctionOnSet(f, T) = SumFunctionOnSet(f, T \ {c})
      BY <2>4, <3>2
    <3>4. QED
      BY <2>5, <3>1, <3>3
  <2>8. QED
    BY <2>6, <2>7
<1> HIDE DEF Q
<1>3. S \in Q
  BY <1>1, <1>2, FiniteInduction
<1>4. S \cap R = R
  OBVIOUS
<1>5. QED
  BY <1>3, <1>4 DEF Q

(* What SumFunction adds up is what SumFunctionOnSet does, over the domain. *)
LEMMA TotalIs ==
  ASSUME NEW S, IsFiniteSet(S), NEW f, DOMAIN f = S, \A x \in S : f[x] \in Int
  PROVE  SumFunction(f) = SumFunctionOnSet(f, S) /\ SumFunction(f) \in Int
BY SumOfInts DEF SumFunction

(* A list has finitely many places, and so has a part of it. *)
LEMMA PlacesFinite ==
  ASSUME NEW T, NEW s \in Seq(T), NEW R \in SUBSET DOMAIN s
  PROVE  IsFiniteSet(R) /\ IsFiniteSet(DOMAIN s) /\ \A i \in DOMAIN s : s[i] \in T
<1>1. DOMAIN s = 1..Len(s) /\ Len(s) \in Nat
  BY LenProperties
<1>2. IsFiniteSet(1..Len(s))
  BY <1>1, FS_Interval
<1>3. QED
  BY <1>1, <1>2, FS_Subset, ElementOfSeq

(* A sum of one. *)
LEMMA SumOfOne ==
  ASSUME NEW f, NEW x, DOMAIN f = {x}, f[x] \in Int
  PROVE  SumFunction(f) = f[x]
<1>1. IsFiniteSet({x}) /\ {x} \ {x} = {}
  BY FS_Singleton
<1>2. SumFunctionOnSet(f, {x}) = f[x] + SumFunctionOnSet(f, {x} \ {x})
  BY <1>1, SumAny
<1>3. SumFunctionOnSet(f, {x} \ {x}) = 0
  BY <1>1, SumOfNone
<1>4. QED
  BY <1>2, <1>3 DEF SumFunction

(* A sum is that of the terms that are not zero, under whatever names. *)
LEMMA SumRegrouped ==
  ASSUME NEW f, IsFiniteSet(DOMAIN f), NEW R \in SUBSET DOMAIN f,
         \A x \in R : f[x] \in Int, \A x \in DOMAIN f \ R : f[x] = 0,
         NEW g, NEW n, \A x, y \in R : n[x] = n[y] => x = y,
         DOMAIN g = {n[x] : x \in R}, \A x \in R : g[n[x]] = f[x]
  PROVE  SumFunction(f) = SumFunction(g)
<1>1. IsFiniteSet(R)
  BY FS_Subset
<1>2. SumFunctionOnSet(f, DOMAIN f) = SumFunctionOnSet(f, R)
  BY SumOfZeros
<1>3. SumFunctionOnSet(f, R) = SumFunctionOnSet(g, {n[x] : x \in R})
  BY <1>1, SumRenamed
<1>4. QED
  BY <1>2, <1>3 DEF SumFunction

-----------------------------------------------------------------------------
(***************************************************************************)
(* Payments: what the readers make of a transaction is what it moved, and   *)
(* the verdict follows the numbers.                                         *)
(***************************************************************************)
PaymentWorld ==
  request.op = "payments_verify_transfer" =>
    /\ request.amount \in Nat /\ request.floor \in {"confirmed", "safe", "finalized"}
    /\ world.seen = "mined" => Mined(world)

\* The inductive invariant: the transaction is one, and what is said of it is true.
PaymentInv == PaymentWorld /\ PaidMeansReceived

\* The places of the logs that send the recipient the expected token, and what they send.
Sent(w) == {j \in DOMAIN w.logs : w.logs[j].kind = "erc20" /\ w.logs[j].to = Shop /\ w.logs[j].asset = Stable}
Gross(w) == SumFunction([i \in Sent(w) |-> w.logs[i].amount])

(* What was sent to the recipient is what the normalized transaction of an EVM chain says,
   if the contract answers as registered (balance changes of evm/tx.rs). *)
LEMMA EvmDelta ==
  ASSUME NEW w, w.seen = "mined", w.family = "evm", Mined(w), Provable(w)
  PROVE  LET tx == EvmTx(w) IN
         /\ Gross(w) \in Int
         /\ Delta(tx, Shop, Stable).scaled
         /\ Delta(tx, Shop, Stable).after - Delta(tx, Shop, Stable).before = Gross(w)
         /\ <<Shop, Stable>> \notin DOMAIN tx.delta => ~Matched(tx)
<1> DEFINE tx == EvmTx(w)
           P == Sent(w)
           t == Decoded(w)
           D == {j \in DOMAIN w.logs : w.logs[j].kind = "erc20" /\ w.scale[w.logs[j].asset] # "unanswered"}
           key == <<Shop, Stable>>
<1>1. w.logs \in Seq(Log) /\ w.scale[Stable] = "registry"
  BY DEF Mined, Provable
<1>2. DOMAIN t = D /\ \A i \in D : t[i] = w.logs[i]
  BY DEF Decoded
<1>3. tx.transfers = t /\ tx.delta = RecipientDeltas(w, t)
  BY DEF EvmTx
<1>4. {j \in DOMAIN t : t[j].to = Shop /\ t[j].asset = Stable} = P
  BY <1>1, <1>2 DEF Sent
<1>5. [i \in {j \in DOMAIN t : t[j].to = Shop /\ t[j].asset = Stable} |-> t[i].amount]
        = [i \in P |-> w.logs[i].amount]
  <2>1. \A i \in P : t[i].amount = w.logs[i].amount
    BY <1>2, <1>4
  <2> HIDE DEF P, t
  <2>2. QED
    BY <1>4, <2>1
<1>6. Inflow(t, Shop, Stable) = Gross(w)
  BY <1>5 DEF Inflow, Gross
<1>7. Gross(w) \in Int
  <2> DEFINE f == [i \in P |-> w.logs[i].amount]
  <2>1. IsFiniteSet(P) /\ \A i \in P : w.logs[i] \in Log
    BY <1>1, PlacesFinite DEF Sent
  <2>2. \A i \in P : w.logs[i].amount \in Int
    BY <2>1 DEF Log
  <2>3. DOMAIN f = P /\ \A i \in P : f[i] \in Int
    BY <2>2
  <2>4. Gross(w) = SumFunction(f)
    BY DEF Gross
  <2> HIDE DEF f, P
  <2>5. QED
    BY <2>1, <2>3, <2>4, TotalIs
<1> HIDE DEF t, D
<1>8. CASE P # {}
  <2>1. \E i \in DOMAIN t : t[i].to = Shop /\ t[i].asset = Stable
    BY <1>4, <1>8
  <2>2. key \in DOMAIN tx.delta
    BY <1>3, <2>1 DEF RecipientDeltas
  <2>3. tx.delta[key] = [before |-> 0, after |-> Inflow(t, key[1], key[2]), withheld |-> 0,
                         scaled |-> w.scale[key[2]] = "registry"]
    BY <1>3, <2>2 DEF RecipientDeltas
  <2>4. Delta(tx, Shop, Stable) = tx.delta[key]
    BY <2>2 DEF Delta
  <2> HIDE DEF tx
  <2>5. Delta(tx, Shop, Stable) = [before |-> 0, after |-> Gross(w), withheld |-> 0, scaled |-> TRUE]
    BY <1>1, <1>6, <2>3, <2>4
  <2>6. QED
    BY <1>7, <2>2, <2>5 DEF tx
<1>9. CASE P = {}
  <2>1. ~\E i \in DOMAIN t : t[i].to = Shop /\ t[i].asset = Stable
    BY <1>4, <1>9
  <2>2. ~Matched(tx)
    BY <1>3, <2>1 DEF Matched
  <2>3. key \notin DOMAIN tx.delta
    BY <1>3, <2>1 DEF RecipientDeltas
  <2>4. Delta(tx, Shop, Stable) = NoDelta
    BY <2>3 DEF Delta
  <2>5. Gross(w) = 0
    <3> DEFINE f == [i \in P |-> w.logs[i].amount]
    <3>1. Gross(w) = SumFunctionOnSet(f, DOMAIN f)
      BY DEF Gross, SumFunction
    <3>2. DOMAIN f = {}
      BY <1>9
    <3> HIDE DEF f
    <3>3. QED
      BY <3>1, <3>2, SumOfNone
  <2>6. QED
    BY <2>2, <2>4, <2>5 DEF NoDelta
<1>10. QED
  BY <1>7, <1>8, <1>9

(* Where KeepsInflow, it is also what the chain did to the recipient's balance. *)
LEMMA GrossIsChange ==
  ASSUME NEW w, w.family = "evm", Mined(w), KeepsInflow(w)
  PROVE  BalanceChange(w) = Gross(w)
<1> DEFINE P == Sent(w)
           L == DOMAIN w.logs
           f == [i \in L |-> Moved(w, w.logs[i])]
           g == [i \in P |-> w.logs[i].amount]
<1>1. w.logs \in Seq(Log) /\ P \in SUBSET L
  BY DEF Mined, Sent
<1>2. IsFiniteSet(L) /\ IsFiniteSet(P) /\ \A i \in L : w.logs[i] \in Log
  BY <1>1, PlacesFinite
<1>3. \A i \in L : w.logs[i].amount \in Nat
  BY <1>2 DEF Log
<1>4. /\ w.fee[Stable] = 0
      /\ \A i \in L : w.logs[i].kind = "erc20" /\ w.logs[i].asset = Stable => w.logs[i].from # Shop
  BY DEF KeepsInflow
<1>5. ASSUME NEW i \in P PROVE f[i] = w.logs[i].amount /\ f[i] \in Int
  <2>1. i \in L /\ w.logs[i].kind = "erc20" /\ w.logs[i].to = Shop /\ w.logs[i].asset = Stable
    BY DEF Sent
  <2>2. w.logs[i].from # Shop /\ w.logs[i].amount \in Nat
    BY <1>3, <1>4, <2>1
  <2>3. Moved(w, w.logs[i]) = Positive(w.logs[i].amount - 0) - 0
    BY <1>4, <2>1, <2>2 DEF Moved
  <2>4. QED
    BY <2>1, <2>2, <2>3 DEF Positive
<1>6. ASSUME NEW i \in L \ P PROVE f[i] = 0
  <2>1. w.logs[i].kind # "erc20" \/ w.logs[i].asset # Stable \/ w.logs[i].to # Shop
    BY DEF Sent
  <2>2. w.logs[i].kind = "erc20" /\ w.logs[i].asset = Stable => w.logs[i].from # Shop
    BY <1>4
  <2>3. QED
    BY <2>1, <2>2 DEF Moved
<1>7. \A i \in L : f[i] \in Int
  BY <1>5, <1>6
<1>8. DOMAIN f = L /\ DOMAIN g = P /\ \A i \in P : g[i] = f[i]
  BY <1>5
<1>9. BalanceChange(w) = SumFunction(f) /\ Gross(w) = SumFunction(g)
  BY DEF BalanceChange, Gross
<1> HIDE DEF f, g, P, L
<1>10. SumFunction(f) = SumFunctionOnSet(f, L) /\ SumFunction(g) = SumFunctionOnSet(g, P)
  BY <1>2, <1>5, <1>7, <1>8, TotalIs
<1>11. SumFunctionOnSet(f, L) = SumFunctionOnSet(f, P)
  BY <1>1, <1>2, <1>5, <1>6, SumOfZeros
<1>12. SumFunctionOnSet(g, P) = SumFunctionOnSet(f, P)
  BY <1>2, <1>5, <1>8, SumAlike
<1>13. QED
  BY <1>9, <1>10, <1>11, <1>12

(* A balance is a number. *)
LEMMA PostIs ==
  ASSUME NEW w, w.family = "solana", Mined(w), NEW a \in TokenAccount
  PROVE  w.before[a] \in Int /\ Post(w, a) \in Int
<1> DEFINE f == [i \in DOMAIN w.ixs |->
                   (IF w.ixs[i].destination = a THEN w.ixs[i].amount - w.fee[MintOf[a]] ELSE 0)
                   - (IF w.ixs[i].source = a THEN w.ixs[i].amount ELSE 0)]
<1>1. /\ w.ixs \in Seq(Ix) /\ w.before \in [TokenAccount -> Nat] /\ w.fee \in [Token -> Nat]
      /\ MintOf[a] \in Token
  BY PaymentsAssumption DEF Mined
<1>2. IsFiniteSet(DOMAIN w.ixs) /\ \A i \in DOMAIN w.ixs : w.ixs[i] \in Ix
  BY <1>1, PlacesFinite
<1>3. \A i \in DOMAIN w.ixs : w.ixs[i].amount \in Int
  BY <1>2 DEF Ix
<1>4. w.fee[MintOf[a]] \in Int /\ w.before[a] \in Int
  BY <1>1
<1>5. DOMAIN f = DOMAIN w.ixs /\ \A i \in DOMAIN w.ixs : f[i] \in Int
  BY <1>3, <1>4
<1>6. Balance(w, a) = w.before[a] + SumFunction(f)
  BY DEF Balance
<1> HIDE DEF f
<1>7. SumFunction(f) \in Int
  BY <1>2, <1>5, TotalIs
<1>8. QED
  BY <1>4, <1>6, <1>7 DEF Post

(* The same for Solana, where a recipient may have several accounts (balance changes of
   solana/tx.rs). *)
LEMMA SolanaDelta ==
  ASSUME NEW w, w.seen = "mined", w.family = "solana", Mined(w)
  PROVE  LET tx == SolanaTx(w) IN
         /\ BalanceChange(w) \in Int
         /\ Delta(tx, Shop, Stable).scaled
         /\ Delta(tx, Shop, Stable).after - Delta(tx, Shop, Stable).before = BalanceChange(w)
         /\ <<Shop, Stable>> \notin DOMAIN tx.delta => BalanceChange(w) = 0
<1> DEFINE tx == SolanaTx(w)
           A == AccountsOf(Shop, Stable)
           b == [a \in A |-> w.before[a]]
           p == [a \in A |-> Post(w, a)]
           d == [a \in A |-> Post(w, a) - w.before[a]]
           key == <<Shop, Stable>>
           touched == {k \in Wallet \X Token : \/ TokenDelta(w, k[1], k[2]).before # TokenDelta(w, k[1], k[2]).after
                                               \/ TokenDelta(w, k[1], k[2]).withheld # 0}
<1>1. IsFiniteSet(A) /\ A \subseteq TokenAccount
  BY PaymentsAssumption, FS_Subset DEF AccountsOf
<1>2. \A a \in A : b[a] \in Int /\ p[a] \in Int /\ d[a] \in Int /\ p[a] = b[a] + d[a]
  <2>1. \A a \in A : w.before[a] \in Int /\ Post(w, a) \in Int
    BY <1>1, PostIs
  <2>2. QED
    BY <2>1
<1>3. DOMAIN b = A /\ DOMAIN p = A /\ DOMAIN d = A
  OBVIOUS
<1>4. /\ BalanceChange(w) = SumFunction(d)
      /\ TokenDelta(w, Shop, Stable).before = SumFunction(b)
      /\ TokenDelta(w, Shop, Stable).after = SumFunction(p)
      /\ TokenDelta(w, Shop, Stable).scaled
  <2>1. BalanceChange(w) = SumFunction(d)
    BY DEF BalanceChange
  <2>2. QED
    BY <2>1 DEF TokenDelta
<1>5. key \in Wallet \X Token /\ key[2] # "native" /\ key # <<Shop, "native">>
  BY PaymentsAssumption
<1> HIDE DEF b, p, d, A
<1>6. SumFunction(b) \in Int /\ SumFunction(d) \in Int /\ SumFunction(p) = SumFunction(b) + SumFunction(d)
  <2>1. /\ SumFunction(b) = SumFunctionOnSet(b, A) /\ SumFunction(b) \in Int
        /\ SumFunction(p) = SumFunctionOnSet(p, A)
        /\ SumFunction(d) = SumFunctionOnSet(d, A) /\ SumFunction(d) \in Int
    BY <1>1, <1>2, <1>3, TotalIs
  <2>2. SumFunctionOnSet(p, A) = SumFunctionOnSet(b, A) + SumFunctionOnSet(d, A)
    BY <1>1, <1>2, SumAdds
  <2>3. QED
    BY <2>1, <2>2
<1>7. tx.delta = BalanceDeltas(w)
  BY DEF SolanaTx
<1>8. /\ key \in DOMAIN tx.delta <=> key \in touched
      /\ key \in DOMAIN tx.delta => tx.delta[key] = TokenDelta(w, Shop, Stable)
  BY <1>5, <1>7 DEF BalanceDeltas
<1>9. CASE key \in touched
  <2>1. Delta(tx, Shop, Stable) = TokenDelta(w, Shop, Stable)
    BY <1>8, <1>9 DEF Delta
  <2>2. QED
    BY <1>4, <1>6, <1>8, <1>9, <2>1
<1>10. CASE key \notin touched
  <2>1. Delta(tx, Shop, Stable) = NoDelta
    BY <1>8, <1>10 DEF Delta
  <2>2. SumFunction(b) = SumFunction(p)
    BY <1>4, <1>5, <1>10
  <2>3. BalanceChange(w) = 0
    BY <1>4, <1>6, <2>2
  <2>4. QED
    BY <2>1, <2>3 DEF NoDelta
<1>11. QED
  BY <1>9, <1>10

(* The verdict follows the numbers (check_payment). *)
LEMMA PaidIf ==
  ASSUME NEW e, e.amount \in Nat \ {0}, NEW tx, tx.status \in {"success", "failed"},
         e.floor \in {"confirmed", "safe", "finalized"}, tx.finality \in Finality,
         Delta(tx, Shop, Stable).scaled,
         NEW n \in Int, n = Delta(tx, Shop, Stable).after - Delta(tx, Shop, Stable).before,
         <<Shop, Stable>> \notin DOMAIN tx.delta /\ Matched(tx) => n = 0
  PROVE  /\ Status(e, tx) \in {"confirmed", "finalized"}
              <=> tx.status = "success" /\ AtLeast(tx.finality, e.floor) /\ n = e.amount
         /\ Status(e, tx) \in {"confirmed", "finalized"} =>
              (Status(e, tx) = "finalized") = (tx.finality = "finalized")
         /\ Net(tx) = Positive(n)
<1>1. Net(tx) = Positive(n)
  BY DEF Net, Received
<1>2. Net(tx) \in Int /\ (Net(tx) = e.amount <=> n = e.amount) /\ (Net(tx) = 0 => n # e.amount)
  BY <1>1 DEF Positive
<1>3. Compared(Net(tx), e.amount, tx.finality) \in {"confirmed", "finalized"} <=> n = e.amount
  BY <1>2 DEF Compared
<1>4. tx.finality = "unverifiable" => ~AtLeast(tx.finality, e.floor)
  BY DEF AtLeast, Rank
<1>5. n = e.amount => Compared(Net(tx), e.amount, tx.finality) = IF tx.finality = "finalized" THEN "finalized" ELSE "confirmed"
  BY <1>2 DEF Compared
<1> DEFINE paid == Status(e, tx) \in {"confirmed", "finalized"}
<1>6. CASE tx.status = "failed" \/ tx.finality = "unverifiable" \/ ~AtLeast(tx.finality, e.floor)
  <2>1. Status(e, tx) \in {"failed", "unverifiable", "pending"}
    BY <1>6 DEF Status
  <2>2. QED
    BY <1>1, <1>4, <1>6, <2>1
<1>7. CASE ~(tx.status = "failed" \/ tx.finality = "unverifiable" \/ ~AtLeast(tx.finality, e.floor))
  <2>1. Status(e, tx) = IF <<Shop, Stable>> \notin DOMAIN tx.delta /\ Matched(tx) THEN "unverifiable"
                        ELSE IF Net(tx) = 0 /\ Others(tx) # {} THEN "wrong_token"
                        ELSE Compared(Net(tx), e.amount, tx.finality)
    BY <1>7 DEF Status
  <2>2. CASE <<Shop, Stable>> \notin DOMAIN tx.delta /\ Matched(tx)
    BY <1>1, <2>1, <2>2
  <2>3. CASE ~(<<Shop, Stable>> \notin DOMAIN tx.delta /\ Matched(tx)) /\ Net(tx) = 0 /\ Others(tx) # {}
    BY <1>1, <1>2, <2>1, <2>3
  <2>4. CASE ~(<<Shop, Stable>> \notin DOMAIN tx.delta /\ Matched(tx)) /\ ~(Net(tx) = 0 /\ Others(tx) # {})
    <3>1. Status(e, tx) = Compared(Net(tx), e.amount, tx.finality)
      BY <2>1, <2>4
    <3>2. QED
      BY <1>1, <1>3, <1>5, <1>7, <3>1
  <2>5. QED
    BY <2>2, <2>3, <2>4
<1>8. QED
  BY <1>6, <1>7

(* No verdict of paid where the contract does not answer as registered: what it moved is
   either without a scale, or was not decoded at all. *)
LEMMA UnprovableEvm ==
  ASSUME NEW e, e.amount \in Nat \ {0}, NEW w, w.seen = "mined", w.family = "evm", ~Provable(w)
  PROVE  Status(e, EvmTx(w)) \notin {"confirmed", "finalized"}
<1> DEFINE tx == EvmTx(w)
           key == <<Shop, Stable>>
<1>1. tx.delta = RecipientDeltas(w, Decoded(w)) /\ w.scale[Stable] # "registry"
  BY DEF EvmTx, Provable
<1> HIDE DEF tx
<1>2. CASE key \in DOMAIN tx.delta
  <2>1. tx.delta[key] = [before |-> 0, after |-> Inflow(Decoded(w), key[1], key[2]), withheld |-> 0,
                         scaled |-> w.scale[key[2]] = "registry"]
    BY <1>1, <1>2 DEF RecipientDeltas
  <2>2. ~Delta(tx, Shop, Stable).scaled
    <3>1. Delta(tx, Shop, Stable) = tx.delta[key]
      BY <1>2 DEF Delta
    <3>2. w.scale[key[2]] # "registry"
      BY <1>1
    <3>3. tx.delta[key].scaled = (w.scale[key[2]] = "registry")
      BY <2>1
    <3>4. QED
      BY <3>1, <3>2, <3>3
  <2>3. Status(e, tx) \in {"failed", "unverifiable", "pending"}
    BY <2>2 DEF Status
  <2>4. QED
    BY <2>3 DEF tx
<1>3. CASE key \notin DOMAIN tx.delta
  <2>1. Net(tx) = 0
    BY <1>3 DEF Net, Delta, NoDelta, Received, Positive
  <2>2. Compared(Net(tx), e.amount, tx.finality) = "underpaid"
    BY <2>1 DEF Compared
  <2>3. Status(e, tx) \in {"failed", "unverifiable", "pending", "wrong_token", "underpaid"}
    BY <2>2 DEF Status
  <2>4. QED
    BY <2>3 DEF tx
<1>4. QED
  BY <1>2, <1>3

(* The verdict on a call's world (verify_transfer). *)
LEMMA VerdictIs ==
  ASSUME NEW e, e.amount \in Nat \ {0}, e.floor \in {"confirmed", "safe", "finalized"},
         NEW w, w.seen = "mined" => Mined(w)
  PROVE  LET paid == Status(e, Normalized(w)) \in {"confirmed", "finalized"}
             shown == w.seen = "mined" /\ w.ok /\ Provable(w)
         IN
         /\ paid => shown /\ AtLeast(w.finality, e.floor)
         /\ shown /\ KeepsInflow(w) =>
              /\ Net(Normalized(w)) = Positive(BalanceChange(w))
              /\ paid <=> AtLeast(w.finality, e.floor) /\ BalanceChange(w) = e.amount
         /\ paid => (Status(e, Normalized(w)) = "finalized") = (w.finality = "finalized")
<1> DEFINE tx == Normalized(w)
           paid == Status(e, tx) \in {"confirmed", "finalized"}
<1>1. CASE w.seen # "mined"
  <2>1. tx = Unsettled("pending")
    BY <1>1 DEF Normalized, EvmTx, SolanaTx
  <2>2. tx.status = "pending" /\ tx.finality = "pending"
    BY <2>1 DEF Unsettled
  <2> HIDE DEF tx
  <2>3. Status(e, tx) = "pending"
    BY <2>2 DEF Status
  <2>4. QED
    BY <1>1, <2>3 DEF tx
<1>2. CASE w.seen = "mined" /\ w.family = "evm" /\ ~Provable(w)
  BY <1>2, UnprovableEvm DEF Normalized
<1>3. CASE w.seen = "mined" /\ w.family # "evm" /\ ~Provable(w)
  <2>1. w.hidden /\ w.family = "solana"
    BY <1>3 DEF Provable, Mined
  <2>2. tx.finality = "unverifiable"
    BY <1>3, <2>1 DEF Normalized, SolanaTx
  <2> HIDE DEF tx
  <2>3. Status(e, tx) \in {"failed", "unverifiable"}
    BY <2>2 DEF Status
  <2>4. QED
    BY <1>3, <2>3 DEF tx
<1>4. CASE w.seen = "mined" /\ Provable(w)
  <2>1. /\ tx.status = (IF w.ok THEN "success" ELSE "failed") /\ tx.finality = w.finality
        /\ w.ok \in BOOLEAN /\ w.finality \in Finality
    <3>1. CASE w.family = "evm"
      BY <1>4, <3>1 DEF Normalized, EvmTx, Mined
    <3>2. CASE w.family # "evm"
      BY <1>4, <3>2 DEF Normalized, SolanaTx, Provable, Mined
    <3>3. QED
      BY <3>1, <3>2
  <2> DEFINE n == IF w.family = "evm" THEN Gross(w) ELSE BalanceChange(w)
  <2>2. /\ n \in Int /\ Delta(tx, Shop, Stable).scaled
        /\ n = Delta(tx, Shop, Stable).after - Delta(tx, Shop, Stable).before
        /\ <<Shop, Stable>> \notin DOMAIN tx.delta /\ Matched(tx) => n = 0
        /\ KeepsInflow(w) => n = BalanceChange(w)
    <3>1. CASE w.family = "evm"
      <4>1. tx = EvmTx(w) /\ n = Gross(w)
        BY <3>1 DEF Normalized
      <4>2. KeepsInflow(w) => n = BalanceChange(w)
        BY <1>4, <3>1, <4>1, GrossIsChange
      <4> HIDE DEF tx, n
      <4>3. QED
        BY <1>4, <3>1, <4>1, <4>2, EvmDelta
    <3>2. CASE w.family # "evm"
      <4>1. tx = SolanaTx(w) /\ w.family = "solana" /\ n = BalanceChange(w)
        BY <1>4, <3>2 DEF Normalized, Mined
      <4> HIDE DEF tx, n
      <4>2. QED
        BY <1>4, <4>1, SolanaDelta
    <3>3. QED
      BY <3>1, <3>2
  <2>3. tx.status \in {"success", "failed"} /\ (tx.status = "success" <=> w.ok)
    BY <2>1
  <2> HIDE DEF tx, n
  <2>4. /\ paid <=> tx.status = "success" /\ AtLeast(tx.finality, e.floor) /\ n = e.amount
        /\ paid => (Status(e, tx) = "finalized") = (tx.finality = "finalized")
        /\ Net(tx) = Positive(n)
    BY <2>1, <2>2, <2>3, PaidIf
  <2>5. /\ paid <=> w.ok /\ AtLeast(w.finality, e.floor) /\ n = e.amount
        /\ paid => (Status(e, tx) = "finalized") = (w.finality = "finalized")
    BY <2>1, <2>3, <2>4
  <2>6. KeepsInflow(w) => /\ Net(tx) = Positive(BalanceChange(w))
                          /\ paid <=> w.ok /\ AtLeast(w.finality, e.floor) /\ BalanceChange(w) = e.amount
    BY <2>2, <2>4, <2>5
  <2>7. paid => w.ok /\ AtLeast(w.finality, e.floor)
    BY <2>5
  <2>8. paid => w.seen = "mined" /\ w.ok /\ Provable(w) /\ AtLeast(w.finality, e.floor)
    BY <1>4, <2>7
  <2>9. ASSUME w.ok, KeepsInflow(w)
        PROVE  /\ Net(tx) = Positive(BalanceChange(w))
               /\ paid <=> AtLeast(w.finality, e.floor) /\ BalanceChange(w) = e.amount
    BY <2>6, <2>9
  <2>10. paid => (Status(e, tx) = "finalized") = (w.finality = "finalized")
    BY <2>5
  <2>11. QED
    BY <2>8, <2>9, <2>10, Zenon DEF tx
<1>5. QED
  BY <1>1, <1>2, <1>3, <1>4

(* payments_verify_transfer reports what was paid. *)
LEMMA PaymentStep ==
  PaymentInv /\ [VerifyTransfer]_vars => PaymentInv'
<1> SUFFICES ASSUME PaymentInv, [VerifyTransfer]_vars PROVE PaymentInv'
  OBVIOUS
<1> USE DEF PaymentInv
<1>0. CASE UNCHANGED vars
  BY <1>0 DEF vars, PaymentWorld, PaidMeansReceived, Replied
<1> SUFFICES ASSUME VerifyTransfer PROVE PaymentInv'
  BY <1>0
<1>1. /\ request.op = "payments_verify_transfer" /\ request' = request /\ world' = world
      /\ answer' = IF request.amount = 0 THEN Refuse("InvalidInput")
                   ELSE IF world.seen = "nowhere" THEN Refuse("NotFound")
                   ELSE Reply(CheckPayment(request, Normalized(world)))
  BY DEF VerifyTransfer, Conclude
<1>2. PaymentWorld'
  BY <1>1 DEF PaymentWorld
<1>3. CASE request.amount = 0 \/ world.seen = "nowhere"
  <2>1. answer'.at = "refused"
    BY <1>1, <1>3 DEF Refuse
  <2>2. QED
    BY <1>2, <2>1 DEF PaidMeansReceived, Replied
<1>4. CASE ~(request.amount = 0 \/ world.seen = "nowhere")
  <2>1. /\ answer'.out.status = Status(request, Normalized(world))
        /\ answer'.out.received = Net(Normalized(world))
    BY <1>1, <1>4 DEF Reply, CheckPayment
  <2>2. /\ request.amount \in Nat \ {0} /\ request.floor \in {"confirmed", "safe", "finalized"}
        /\ world.seen = "mined" => Mined(world)
    BY <1>1, <1>4 DEF PaymentWorld
  <2>3. QED
    BY <1>1, <1>2, <2>1, <2>2, VerdictIs DEF PaidMeansReceived
<1>5. QED
  BY <1>3, <1>4

(* Before it has answered, nothing is said. *)
LEMMA PaymentStart ==
  ASSUME StartIn(PaymentCases)
  PROVE  PaymentInv
BY PaymentsAssumption DEF StartIn, PaymentInv, PaymentWorld, PaidMeansReceived, Replied, Asked

(* Other operations say nothing of payments. *)
LEMMA PaymentElsewhere ==
  ASSUME request.op # "payments_verify_transfer"
  PROVE  PaymentInv
BY DEF PaymentInv, PaymentWorld, PaidMeansReceived, Replied

-----------------------------------------------------------------------------
(***************************************************************************)
(* Statements: a fee stands on the first row of its transaction.            *)
(***************************************************************************)
LedgerInv ==
  request.op = "neobank_get_ledger" =>
    request.fees \in BOOLEAN /\ Statement(world) /\ StatementAddsUp

(* The first row of a transaction that has one. *)
LEMMA FirstRow ==
  ASSUME Statement(world), NEW i \in DOMAIN world.transfers
  PROVE  \E j \in DOMAIN world.transfers :
           FirstOfTx(j) /\ world.transfers[j].tx = world.transfers[i].tx
<1> DEFINE S == {j \in DOMAIN world.transfers : world.transfers[j].tx = world.transfers[i].tx}
<1>1. DOMAIN world.transfers = 1..Len(world.transfers) /\ Len(world.transfers) \in Nat
  BY LenProperties DEF Statement
<1>2. S \in SUBSET Nat /\ S # {}
  BY <1>1
<1>3. PICK j \in S : \A k \in S : j <= k
  BY <1>2, LeastNatural
<1>4. \A k \in 1..(j - 1) : k \notin S /\ k \in DOMAIN world.transfers
  BY <1>1, <1>3
<1>5. FirstOfTx(j)
  BY <1>4 DEF FirstOfTx
<1>6. QED
  BY <1>5

(* A transaction has one first row. *)
LEMMA OneFirstRow ==
  ASSUME Statement(world), NEW i \in DOMAIN world.transfers, NEW j \in DOMAIN world.transfers,
         FirstOfTx(i), FirstOfTx(j), world.transfers[i].tx = world.transfers[j].tx
  PROVE  i = j
<1>1. DOMAIN world.transfers = 1..Len(world.transfers) /\ Len(world.transfers) \in Nat
  BY LenProperties DEF Statement
<1>2. ~(i < j) /\ ~(j < i)
  BY <1>1 DEF FirstOfTx
<1>3. QED
  BY <1>1, <1>2

(* The rows of a statement add up (build_ledger). *)
LEMMA LedgerAddsUp ==
  ASSUME Statement(world), request.fees \in BOOLEAN,
         answer = Reply([rows |-> [i \in DOMAIN world.transfers |-> LedgerRow(i)]])
  PROVE  StatementAddsUp
<1> DEFINE D == DOMAIN world.transfers
           rows == answer.out.rows
           amount(i) == IF rows[i].direction = "credit" THEN rows[i].amount
                        ELSE IF rows[i].direction = "debit" THEN -rows[i].amount ELSE 0
           moved(i) == (IF world.transfers[i].to = "me" THEN world.transfers[i].amount ELSE 0)
                       - (IF world.transfers[i].from = "me" THEN world.transfers[i].amount ELSE 0)
           fee(i) == SumFunction([n \in rows[i].fee |-> n])
           own == {tx \in DOMAIN world.txs :
                     /\ \E i \in DOMAIN rows : rows[i].tx = tx
                     /\ world.txs[tx].found /\ world.txs[tx].from = "me"
                     /\ ~OnlyReceives(tx)}
           f == [i \in D |-> fee(i)]
           g == [tx \in own |-> world.txs[tx].fee]
           n == [i \in D |-> world.transfers[i].tx]
           R == {i \in D : FirstOfTx(i) /\ n[i] \in own}
<1>1. rows = [i \in D |-> LedgerRow(i)]
  BY DEF Reply
<1>2. \A i \in D : /\ world.transfers[i] \in ToSet(world.transfers)
                   /\ world.transfers[i].tx \in DOMAIN world.txs
                   /\ world.transfers[i].from \in {"me", "other"}
                   /\ world.transfers[i].to \in {"me", "other"}
                   /\ "me" \in {world.transfers[i].from, world.transfers[i].to}
                   /\ world.transfers[i].amount \in Nat
  <2>1. \A i \in D : world.transfers[i] \in ToSet(world.transfers)
    BY DEF ToSet
  <2> DEFINE T == [tx : DOMAIN world.txs, from : {"me", "other"}, to : {"me", "other"},
                   amount : Nat, asset : {"stable", "coin"}, timed : BOOLEAN]
  <2>2. world.transfers \in Seq(T) /\ \A t \in ToSet(world.transfers) : "me" \in {t.from, t.to}
    BY DEF Statement
  <2>3. \A i \in D : world.transfers[i] \in T
    <3> HIDE DEF T
    <3>1. QED
      BY <2>2, ElementOfSeq
  <2>4. QED
    BY <2>1, <2>2, <2>3
<1>3. IsFiniteSet(D)
  BY PlacesFinite DEF Statement
<1>4. DOMAIN rows = D /\ \A i \in D :
        /\ rows[i].tx = n[i] /\ rows[i].direction = DirectionOf(world.transfers[i])
        /\ rows[i].amount = world.transfers[i].amount
        /\ rows[i].fee = IF FirstOfTx(i) THEN FeeOf(n[i]) ELSE {}
  <2>1. DOMAIN rows = D /\ \A i \in D : rows[i] = LedgerRow(i) /\ n[i] = world.transfers[i].tx
    BY <1>1
  <2> HIDE DEF rows, n
  <2>2. ASSUME NEW i \in D
        PROVE  /\ rows[i].tx = n[i] /\ rows[i].direction = DirectionOf(world.transfers[i])
               /\ rows[i].amount = world.transfers[i].amount
               /\ rows[i].fee = IF FirstOfTx(i) THEN FeeOf(n[i]) ELSE {}
    <3>1. LedgerRow(i).fee = IF FirstOfTx(i) THEN FeeOf(world.transfers[i].tx) ELSE {}
      BY Zenon DEF LedgerRow
    <3>2. /\ LedgerRow(i).tx = world.transfers[i].tx
          /\ LedgerRow(i).direction = DirectionOf(world.transfers[i])
          /\ LedgerRow(i).amount = world.transfers[i].amount
      BY DEF LedgerRow
    <3>3. QED
      BY <2>1, <3>1, <3>2
  <2>3. QED
    BY <2>1, <2>2
<1> HIDE DEF rows
<1>5. \A i \in D : amount(i) = moved(i)
  <2> SUFFICES ASSUME NEW i \in D PROVE amount(i) = moved(i)
    OBVIOUS
  <2>1. rows[i].direction = DirectionOf(world.transfers[i]) /\ rows[i].amount = world.transfers[i].amount
    BY <1>4
  <2>2. QED
    BY <1>2, <2>1 DEF DirectionOf
<1>6. [i \in DOMAIN rows |-> amount(i)] = [i \in D |-> moved(i)]
  BY <1>4, <1>5
<1>7. ASSUME NEW tx \in DOMAIN world.txs
      PROVE  tx \in own <=> tx \in LookedUp /\ world.txs[tx].found /\ world.txs[tx].from = "me"
  <2>1. tx \in LookedUp <=> \E i \in D : world.transfers[i].tx = tx /\ DirectionOf(world.transfers[i]) # "credit"
    BY DEF LookedUp, ToSet
  <2>2. \A i \in D : DirectionOf(world.transfers[i]) # "credit"
                      <=> ~(world.transfers[i].to = "me" /\ world.transfers[i].from # "me")
    BY <1>2 DEF DirectionOf
  <2>3. OnlyReceives(tx) <=> \A i \in D : world.transfers[i].tx = tx =>
                               world.transfers[i].to = "me" /\ world.transfers[i].from # "me"
    BY DEF OnlyReceives, ToSet
  <2>4. DOMAIN rows = D /\ \A i \in D : rows[i].tx = world.transfers[i].tx
    BY <1>4
  <2> HIDE DEF rows, n, f, g, R
  <2>5. tx \in LookedUp <=> (\E i \in DOMAIN rows : rows[i].tx = tx) /\ ~OnlyReceives(tx)
    <3> HIDE DEF own
    <3>1. QED
      BY <2>1, <2>2, <2>3, <2>4
  <2>6. QED
    BY <2>5
<1>8. ASSUME NEW i \in D, request.fees, i \in R
      PROVE  fee(i) = world.txs[n[i]].fee /\ fee(i) \in Int
  <2>1. n[i] \in DOMAIN world.txs /\ world.txs[n[i]].fee \in Int
    BY <1>2 DEF Statement
  <2>2. rows[i].fee = {world.txs[n[i]].fee}
    BY <1>4, <1>7, <1>8, <2>1 DEF FeeOf
  <2> DEFINE h == [m \in rows[i].fee |-> m]
  <2>3. DOMAIN h = {world.txs[n[i]].fee} /\ h[world.txs[n[i]].fee] = world.txs[n[i]].fee
    BY <2>2
  <2> HIDE DEF h
  <2>4. SumFunction(h) = world.txs[n[i]].fee
    BY <2>1, <2>3, SumOfOne
  <2>5. QED
    BY <2>1, <2>4 DEF h
<1>9. ASSUME NEW i \in D, ~request.fees \/ i \notin R PROVE fee(i) = 0
  <2>1. n[i] \in DOMAIN world.txs
    BY <1>2
  <2>2. rows[i].fee = {}
    BY <1>4, <1>7, <1>9, <2>1 DEF FeeOf
  <2> DEFINE h == [m \in rows[i].fee |-> m]
  <2>3. DOMAIN h = {}
    BY <2>2
  <2> HIDE DEF h
  <2>4. SumFunction(h) = 0
    BY <2>3, SumOfNone DEF SumFunction
  <2>5. QED
    BY <2>4 DEF h
<1>10. f = [i \in DOMAIN rows |-> fee(i)] /\ DOMAIN f = D
  BY <1>4
<1>11. CASE request.fees
  <2>1. \A x, y \in R : n[x] = n[y] => x = y
    BY OneFirstRow
  <2>2. own = {n[x] : x \in R}
    <3>1. ASSUME NEW tx \in own PROVE \E x \in R : n[x] = tx
      <4>1. PICK i \in D : n[i] = tx
        BY <1>4, <3>1
      <4>2. PICK j \in D : FirstOfTx(j) /\ n[j] = tx
        BY <4>1, FirstRow
      <4>3. QED
        BY <3>1, <4>2
    <3>2. \A x \in R : n[x] \in own
      OBVIOUS
    <3> HIDE DEF own, R, n
    <3>3. \A tx : tx \in own <=> tx \in {n[x] : x \in R}
      BY <3>1, <3>2
    <3>4. QED
      BY <3>3
  <2>3. \A x \in R : f[x] \in Int /\ g[n[x]] = f[x]
    BY <1>8, <1>11
  <2>4. \A x \in D \ R : f[x] = 0
    BY <1>9
  <2>5. DOMAIN g = own /\ R \in SUBSET DOMAIN f
    BY <1>10
  <2> HIDE DEF f, g, n, R, own
  <2>6. /\ IsFiniteSet(DOMAIN f) /\ \A x \in R : f[x] \in Int
        /\ \A x \in DOMAIN f \ R : f[x] = 0
        /\ DOMAIN g = {n[x] : x \in R} /\ \A x \in R : g[n[x]] = f[x]
    BY <1>3, <1>10, <2>2, <2>3, <2>4, <2>5
  <2>7. SumFunction(f) = SumFunction(g)
    BY <2>1, <2>5, <2>6, SumRegrouped
  <2>8. QED
    BY <1>6, <1>10, <1>11, <2>7 DEF g, own, rows, StatementAddsUp
<1>12. CASE ~request.fees
  <2>1. \A x \in D : f[x] = 0
    BY <1>9, <1>12
  <2> HIDE DEF f
  <2>2. SumFunctionOnSet(f, D) = SumFunctionOnSet(f, {})
    BY <1>3, <2>1, SumOfZeros
  <2>3. SumFunction(f) = 0
    BY <1>10, <2>2, SumOfNone DEF SumFunction
  <2>4. QED
    BY <1>6, <1>10, <1>12, <2>3 DEF f, rows, StatementAddsUp
<1>13. QED
  BY <1>11, <1>12

(* neobank_get_ledger keeps the invariant, and the module's other calls have none to keep. *)
LEMMA LedgerStep == LedgerInv /\ [NeobankNext]_vars => LedgerInv'
<1> SUFFICES ASSUME LedgerInv, [NeobankNext]_vars, request'.op = "neobank_get_ledger" PROVE LedgerInv'
  BY DEF LedgerInv
<1>1. CASE UNCHANGED vars
  BY <1>1 DEF vars, LedgerInv, StatementAddsUp, OnlyReceives, Replied, Statement
<1>2. CASE NeobankNext
  <2>1. GetLedger
    BY <1>2 DEF NeobankNext, CardFunding, PinCard, CardRead, CardMint, CardAccount, CardFails, CardActs,
                CardReading, ReadOn, FxRate, Conclude, Funding, Advance
  <2>2. UNCHANGED <<request, world>> /\ request.fees \in BOOLEAN /\ Statement(world)
    BY <2>1 DEF GetLedger, Conclude, LedgerInv
  <2>3. Statement(world)' /\ (request.fees \in BOOLEAN)'
    BY <2>2
  <2>4. CASE answer' = Reply([rows |-> [i \in DOMAIN world.transfers |-> LedgerRow(i)]])
    <3>1. (answer = Reply([rows |-> [i \in DOMAIN world.transfers |-> LedgerRow(i)]]))'
      BY <2>2, <2>4 DEF LedgerRow, ParOf, MarketOf, FirstOfTx, FeeOf, LookedUp
    <3>2. StatementAddsUp'
      BY <2>3, <3>1, LedgerAddsUp, PTL
    <3>3. QED
      BY <2>3, <3>2 DEF LedgerInv
  <2>5. ASSUME NEW e, answer' = Refuse(e) PROVE LedgerInv'
    <3>1. answer'.at = "refused"
      BY <2>5 DEF Refuse
    <3>2. StatementAddsUp'
      BY <3>1 DEF StatementAddsUp, Replied
    <3>3. QED
      BY <2>3, <3>2 DEF LedgerInv
  <2>6. QED
    BY <2>1, <2>4, <2>5 DEF GetLedger, Conclude
<1>3. QED
  BY <1>1, <1>2

LEMMA LedgerStart == StartIn(NeobankCases) => LedgerInv
BY NeobankAssumption DEF StartIn, LedgerInv, StatementAddsUp, Replied, Asked
=============================================================================
