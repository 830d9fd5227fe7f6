---------------------------- MODULE JourneyProofs ----------------------------
(***************************************************************************)
(* Theorems of the two journeys, for every catalogue, every set of          *)
(* customers and handlers and any number of faults.                         *)
(***************************************************************************)
EXTENDS JourneyProperties, SubscriptionProofs

-----------------------------------------------------------------------------
(* Sequences put together from others.                                        *)

\* The library flattens with a recursive function that it chooses.
Flat(seqs, n, fl) == fl = [i \in 1 .. n |-> IF i = 1 THEN seqs[i] ELSE fl[i - 1] \o seqs[i]]

Flattens(seqs, fl) == Flat(seqs, Len(seqs), fl)

\* What the library flattens is a choice among the functions that flatten.
LEMMA FlattenUnfolds ==
    ASSUME NEW X, NEW seqs \in Seq(Seq(X)), seqs # <<>>
    PROVE  FlattenSeq(seqs) = (CHOOSE fl : Flattens(seqs, fl))[Len(seqs)]
<1>1. Len(seqs) # 0
  OBVIOUS
<1> QED
  BY <1>1, Zenon DEF FlattenSeq, Flattens, Flat

\* There is a function that flattens.
LEMMA FlattenExists ==
    ASSUME NEW X, NEW seqs \in Seq(Seq(X))
    PROVE  \E fl : Flattens(seqs, fl)
<1> DEFINE T == {n \in Nat : ~ \E fl : Flat(seqs, n, fl)}
<1>1. T = {}
  <2> SUFFICES ASSUME T # {} PROVE FALSE
    OBVIOUS
  <2>1. PICK n \in T : \A m \in T : n <= m
    BY Least
  <2>2. CASE n = 0
    <3>1. 1 .. 0 = {} /\ \E fl : fl = [i \in {} |-> 0]
      OBVIOUS
    <3>2. \E fl : Flat(seqs, 0, fl)
      BY <3>1 DEF Flat
    <3> QED
      BY <2>1, <2>2, <3>2
  <2>3. CASE n # 0
    <3>1. n - 1 \in Nat /\ n - 1 \notin T
      BY <2>1, <2>3
    <3>2. PICK fl : Flat(seqs, n - 1, fl)
      BY <3>1
    <3>3. PICK g : g = [i \in 1 .. n |-> IF i = 1 THEN seqs[i] ELSE fl[i - 1] \o seqs[i]]
      OBVIOUS
    <3>4. \A i \in 1 .. n : i # n => g[i] = fl[i]
      <4> SUFFICES ASSUME NEW i \in 1 .. n, i # n PROVE g[i] = fl[i]
        OBVIOUS
      <4>1. i \in 1 .. n - 1
        BY <2>1
      <4> QED
        BY <3>2, <3>3, <4>1 DEF Flat
    <3>5. \A i \in 1 .. n : i # 1 => g[i - 1] = fl[i - 1]
      <4> SUFFICES ASSUME NEW i \in 1 .. n, i # 1 PROVE g[i - 1] = fl[i - 1]
        OBVIOUS
      <4>1. i - 1 \in 1 .. n /\ i - 1 # n
        BY <2>1
      <4> QED
        BY <3>4, <4>1
    <3>6. Flat(seqs, n, g)
      BY <3>3, <3>5 DEF Flat
    <3> QED
      BY <2>1, <3>6
  <2> QED
    BY <2>2, <2>3
<1>2. Len(seqs) \in Nat
  OBVIOUS
<1>3. PICK fl : Flat(seqs, Len(seqs), fl)
  BY <1>1, <1>2
<1> QED
  BY <1>3 DEF Flattens

\* What is in a concatenation is in one of its sequences.
LEMMA ConcatElements ==
    ASSUME NEW X, NEW a \in Seq(X), NEW b \in Seq(X)
    PROVE  a \o b \in Seq(X) /\ ToSet(a \o b) = ToSet(a) \cup ToSet(b)
<1>1. PICK c : c = a \o b
  OBVIOUS
<1>2. PICK m \in Nat, n \in Nat : m = Len(a) /\ n = Len(b)
  OBVIOUS
<1>3. c \in Seq(X) /\ DOMAIN c = 1 .. m + n /\ DOMAIN a = 1 .. m /\ DOMAIN b = 1 .. n
  BY <1>1, <1>2
<1>4. /\ \A i \in 1 .. m : c[i] = a[i]
      /\ \A i \in m + 1 .. m + n : c[i] = b[i - m]
  BY <1>1, <1>2
<1>5. \A x : x \in ToSet(c) => x \in ToSet(a) \/ x \in ToSet(b)
  <2> SUFFICES ASSUME NEW i \in 1 .. m + n PROVE c[i] \in ToSet(a) \/ c[i] \in ToSet(b)
    BY <1>3 DEF ToSet
  <2>1. CASE i <= m
    <3>1. i \in 1 .. m
      BY <2>1
    <3> QED
      BY <1>3, <1>4, <3>1 DEF ToSet
  <2>2. CASE ~(i <= m)
    <3>1. i \in m + 1 .. m + n /\ i - m \in 1 .. n
      BY <2>2
    <3> QED
      BY <1>3, <1>4, <3>1 DEF ToSet
  <2> QED
    BY <2>1, <2>2
<1>6. \A x : x \in ToSet(a) => x \in ToSet(c)
  BY <1>3, <1>4 DEF ToSet
<1>7. \A x : x \in ToSet(b) => x \in ToSet(c)
  <2> SUFFICES ASSUME NEW i \in 1 .. n PROVE b[i] \in ToSet(c)
    BY <1>3 DEF ToSet
  <2>1. i + m \in m + 1 .. m + n /\ i + m \in 1 .. m + n /\ (i + m) - m = i
    OBVIOUS
  <2>2. c[i + m] = b[i]
    BY <1>4, <2>1
  <2> QED
    BY <1>3, <2>1, <2>2 DEF ToSet
<1> QED
  BY <1>1, <1>3, <1>5, <1>6, <1>7

\* A flattened sequence has the elements of its parts.
LEMMA FlattenedSeq ==
    ASSUME NEW X, NEW seqs \in Seq(Seq(X))
    PROVE  /\ FlattenSeq(seqs) \in Seq(X)
           /\ \A x : x \in ToSet(FlattenSeq(seqs)) <=> \E i \in DOMAIN seqs : x \in ToSet(seqs[i])
<1>1. CASE seqs = <<>>
  <2>1. FlattenSeq(seqs) = <<>>
    BY <1>1, Zenon, Len(<<>>) = 0 DEF FlattenSeq
  <2>2. DOMAIN <<>> = {} /\ <<>> \in Seq(X)
    OBVIOUS
  <2> QED
    BY <1>1, <2>1, <2>2 DEF ToSet
<1>2. CASE seqs # <<>>
  <2>1. PICK fl : fl = CHOOSE g : Flattens(seqs, g)
    OBVIOUS
  <2>2. Flattens(seqs, fl)
    BY <2>1, FlattenExists
  <2> DEFINE Fits(n) ==
                 /\ fl[n] \in Seq(X)
                 /\ \A x : x \in ToSet(fl[n]) <=> \E i \in 1 .. n : x \in ToSet(seqs[i])
             T == {n \in 1 .. Len(seqs) : ~Fits(n)}
  <2>3. T = {}
    <3> SUFFICES ASSUME T # {} PROVE FALSE
      OBVIOUS
    <3>1. PICK n \in T : \A m \in T : n <= m
      <4>1. T \subseteq Nat
        OBVIOUS
      <4> HIDE DEF T
      <4> QED
        BY <4>1, Least
    <3>2. n \in 1 .. Len(seqs) /\ ~Fits(n)
      BY <3>1
    <3>3. seqs[n] \in Seq(X)
      BY <3>2
    <3>4. CASE n = 1
      <4>1. fl[n] = seqs[1]
        BY <2>2, <3>2, <3>4 DEF Flattens, Flat
      <4>2. 1 .. n = {1}
        BY <3>4
      <4> QED
        BY <3>2, <3>3, <3>4, <4>1, <4>2
    <3>5. CASE n # 1
      <4>1. fl[n] = fl[n - 1] \o seqs[n]
        BY <2>2, <3>2, <3>5 DEF Flattens, Flat
      <4>2. n - 1 \in 1 .. Len(seqs) /\ Fits(n - 1)
        <5>1. n - 1 \in 1 .. Len(seqs)
          BY <3>2, <3>5
        <5>2. n - 1 \notin T
          <6>1. n \in Int /\ ~(n <= n - 1)
            BY <3>2
          <6> HIDE DEF T
          <6> QED
            BY <3>1, <6>1
        <5> QED
          BY <5>1, <5>2
      <4>3. PICK a \in Seq(X) : a = fl[n - 1]
        BY <4>2
      <4>4. PICK b \in Seq(X) : b = seqs[n]
        BY <3>3
      <4>5. fl[n] \in Seq(X) /\ \A x : x \in ToSet(fl[n]) <=> x \in ToSet(a) \/ x \in ToSet(b)
        <5>1. fl[n] = a \o b
          BY <4>1, <4>3, <4>4
        <5> QED
          BY <5>1, ConcatElements
      <4>6. \A x : (\E i \in 1 .. n : x \in ToSet(seqs[i]))
                      <=> x \in ToSet(b) \/ \E i \in 1 .. n - 1 : x \in ToSet(seqs[i])
        <5>1. \A i : i \in 1 .. n <=> i = n \/ i \in 1 .. n - 1
          BY <3>2
        <5> QED
          BY <4>4, <5>1
      <4> QED
        BY <3>2, <4>2, <4>3, <4>5, <4>6
    <3> QED
      BY <3>4, <3>5
  <2>4. Len(seqs) \in 1 .. Len(seqs) /\ DOMAIN seqs = 1 .. Len(seqs)
    BY <1>2
  <2>5. Fits(Len(seqs))
    BY <2>3, <2>4
  <2>6. FlattenSeq(seqs) = fl[Len(seqs)]
    BY <1>2, <2>1, FlattenUnfolds
  <2> QED
    BY <2>4, <2>5, <2>6
<1> QED
  BY <1>1, <1>2

\* What is selected is in the sequence and in the set.
LEMMA SelectedElements ==
    ASSUME NEW X, NEW seq \in Seq(X), NEW set
    PROVE  /\ Selected(seq, set) \in Seq(X)
           /\ ToSet(Selected(seq, set)) = ToSet(seq) \cap set
<1>1. PICK parts :
          parts = [i \in DOMAIN seq |-> IF seq[i] \in set /\ \A j \in 1 .. i - 1 : seq[j] # seq[i]
                                        THEN <<seq[i]>> ELSE <<>>]
  OBVIOUS
<1>2. Selected(seq, set) = FlattenSeq(parts)
  BY <1>1, Zenon DEF Selected
<1>3. DOMAIN seq = 1 .. Len(seq) /\ DOMAIN parts = DOMAIN seq
  BY <1>1
<1>4. parts \in Seq(Seq(X))
  <2>1. \A i \in DOMAIN seq : parts[i] \in Seq(X)
    BY <1>1
  <2>2. parts \in [1 .. Len(seq) -> Seq(X)]
    BY <1>1, <1>3, <2>1
  <2> QED
    BY <2>2
<1>5. \A i \in DOMAIN parts : ToSet(parts[i]) \subseteq {seq[i]} \cap set
  BY <1>1 DEF ToSet
<1>6. ASSUME NEW i \in DOMAIN seq, seq[i] \in set PROVE \E k \in DOMAIN parts : seq[i] \in ToSet(parts[k])
  <2> DEFINE T == {k \in DOMAIN seq : seq[k] = seq[i]}
  <2>1. T \subseteq Nat /\ T # {}
    BY <1>3
  <2>2. PICK k \in T : \A m \in T : k <= m
    <3> HIDE DEF T
    <3> QED
      BY <2>1, Least
  <2>3. \A j \in 1 .. k - 1 : seq[j] # seq[k]
    <3> SUFFICES ASSUME NEW j \in 1 .. k - 1, seq[j] = seq[k] PROVE FALSE
      OBVIOUS
    <3>1. j \in T
      BY <1>3, <2>2
    <3> QED
      BY <2>2, <3>1
  <2>4. parts[k] = <<seq[i]>>
    BY <1>1, <1>6, <2>2, <2>3
  <2> QED
    BY <1>3, <2>2, <2>4 DEF ToSet
<1>7. \A x : x \in ToSet(FlattenSeq(parts)) <=> x \in ToSet(seq) /\ x \in set
  <2>1. \A x : x \in ToSet(FlattenSeq(parts)) <=> \E i \in DOMAIN parts : x \in ToSet(parts[i])
    BY <1>4, FlattenedSeq
  <2>2. ASSUME NEW i \in DOMAIN parts, NEW x \in ToSet(parts[i]) PROVE x \in ToSet(seq) /\ x \in set
    <3>1. x = seq[i] /\ x \in set
      BY <1>5
    <3> QED
      BY <1>3, <3>1 DEF ToSet
  <2>3. ASSUME NEW x \in ToSet(seq), x \in set PROVE \E i \in DOMAIN parts : x \in ToSet(parts[i])
    <3>1. PICK i \in DOMAIN seq : x = seq[i]
      BY DEF ToSet
    <3> QED
      BY <1>6, <2>3, <3>1
  <2> QED
    BY <2>1, <2>2, <2>3
<1>8. FlattenSeq(parts) \in Seq(X)
  BY <1>4, FlattenedSeq
<1> QED
  BY <1>2, <1>7, <1>8

-----------------------------------------------------------------------------
(* The offers.                                                                *)

SkusOf(lines) == {lines[i].sku : i \in DOMAIN lines}

\* The candidates are products that are not held and go with those that are.
LEMMA CandidatesFit ==
    ASSUME NEW lines \in Seq(Line)
    PROVE  LET products == CompatibleCandidates(Graph, HeldSkus(lines))
           IN  /\ products \in Seq(Skus)
               /\ \A n \in DOMAIN products :
                     /\ products[n] \in Graph.nodes \ SkusOf(lines)
                     /\ IsCombinationValid(Graph, SkusOf(lines) \cup {products[n]})
<1>1. PICK held : held = HeldSkus(lines)
  OBVIOUS
<1>2. held \in Seq(Skus) /\ ToSet(held) = SkusOf(lines)
  <2>1. /\ Selected(Catalogue, SkusOf(lines)) \in Seq(Skus)
        /\ ToSet(Selected(Catalogue, SkusOf(lines))) = ToSet(Catalogue) \cap SkusOf(lines)
    BY OfferParameters, SelectedElements
  <2>2. held = Selected(Catalogue, SkusOf(lines))
    BY <1>1 DEF HeldSkus, SkusOf
  <2>3. SkusOf(lines) \subseteq Skus
    <3> SUFFICES ASSUME NEW i \in DOMAIN lines PROVE lines[i].sku \in Skus
      BY DEF SkusOf
    <3>1. lines[i] \in Line
      OBVIOUS
    <3> QED
      BY <3>1 DEF Line
  <2> QED
    BY <2>1, <2>2, <2>3, OfferParameters
<1>3. PICK ways : ways = [n \in DOMAIN held |-> Graph.across[held[n]]]
  OBVIOUS
<1>4. ways \in Seq(Seq(Skus))
  <2>1. DOMAIN held = 1 .. Len(held)
    BY <1>2
  <2>2. \A n \in DOMAIN held : ways[n] \in Seq(Skus)
    BY <1>2, <1>3, OfferParameters
  <2>3. ways \in [1 .. Len(held) -> Seq(Skus)]
    BY <1>3, <2>1, <2>2
  <2> QED
    BY <1>2, <2>3
<1>5. PICK come : come = ComeAcross(Graph, held)
  OBVIOUS
<1>6. come \in Seq(Skus)
  BY <1>3, <1>4, <1>5, FlattenedSeq DEF ComeAcross
<1>7. PICK valid : valid = {sku \in Graph.nodes \ SkusOf(lines) :
                              IsCombinationValid(Graph, SkusOf(lines) \cup {sku})}
  OBVIOUS
<1>8. PICK products : products = CompatibleCandidates(Graph, held)
  OBVIOUS
<1>9. products = Selected(come, valid)
  BY <1>2, <1>5, <1>7, <1>8 DEF CompatibleCandidates
<1>10. products \in Seq(Skus) /\ ToSet(products) \subseteq valid
  BY <1>6, <1>9, SelectedElements
<1> QED
  BY <1>1, <1>7, <1>8, <1>10 DEF ToSet

\* The discounts of a portfolio are whole percentages, whatever its lines are.
LEMMA PctNatural ==
    ASSUME NEW lines, IsFiniteSet(DOMAIN lines), NEW sku
    PROVE  DiscountPct(Policies, lines, sku) \in Nat
<1> DEFINE f    == [p \in DOMAIN Policies |->
                       Policies[p].discount_pct * Entries(Policies[p], lines, sku)]
           rule == LongContract.rule
           Q    == {i \in Satisfying(lines, rule.match_field, rule.operator, rule.threshold) :
                       lines[i].sku = sku}
<1>1. f[1] = 10 * Entries(LongContract, lines, sku) /\ f[2] = 10 * Entries(HighValue, lines, sku)
  BY TwoPolicies DEF LongContract, HighValue
<1>2. DOMAIN f = {1, 2}
  BY TwoPolicies
<1>3. Entries(LongContract, lines, sku) = Cardinality(Q)
  BY DEF Entries, LongContract
<1>4. Q \subseteq DOMAIN lines
  BY DEF Satisfying, Active
<1>5. Entries(HighValue, lines, sku) \in {0, 1}
  BY DEF Entries, HighValue
<1>6. DiscountPct(Policies, lines, sku) = SumFunction(f)
  BY DEF DiscountPct
<1> HIDE DEF f, Q
<1>7. Entries(LongContract, lines, sku) \in Nat
  BY <1>3, <1>4, FS_Subset, FS_CardinalityType
<1>8. f[1] \in Nat /\ f[2] \in Nat
  BY <1>1, <1>5, <1>7
<1> QED
  BY <1>2, <1>6, <1>8, SumOfTwo

\* Of what is dearer the nearest penny is dearer too, whatever its sign.
LEMMA PenniesOrderly ==
    ASSUME NEW m \in Int, NEW n \in Int
    PROVE  ToThePenny(n) \in Int /\ (m <= n => ToThePenny(m) <= ToThePenny(n))
  BY DEF ToThePenny

\* The prices of the lines of a portfolio, for the sum of them.
PricesOf(lines) == [i \in Active(lines) |-> DiscountedPrice(Policies, lines, i)]

\* A sum over the active lines is a sum of numbers.
LEMMA PriceSum ==
    ASSUME NEW lines, IsFiniteSet(DOMAIN lines), \A i \in DOMAIN lines : ListPrice(lines[i]) \in Nat
    PROVE  /\ EvaluateDiscounts(Policies, lines).discounted = SumFunction(PricesOf(lines))
           /\ IsFiniteSet(Active(lines)) /\ \A i \in Active(lines) : PricesOf(lines)[i] \in Int
           /\ SumFunction(PricesOf(lines)) \in Int
<1>1. EvaluateDiscounts(Policies, lines).discounted = SumFunction(PricesOf(lines))
  BY DEF EvaluateDiscounts, PricesOf
<1>2. Active(lines) \subseteq DOMAIN lines
  BY DEF Active
<1>3. IsFiniteSet(Active(lines))
  BY <1>2, FS_Subset
<1>4. \A i \in Active(lines) : DiscountedPrice(Policies, lines, i) \in Int
  <2> SUFFICES ASSUME NEW i \in Active(lines) PROVE DiscountedPrice(Policies, lines, i) \in Int
    OBVIOUS
  <2>1. PICK pct \in Nat : pct = DiscountPct(Policies, lines, lines[i].sku)
    BY PctNatural
  <2>2. PICK list \in Nat : list = ListPrice(lines[i])
    BY <1>2
  <2>3. PICK hundredths \in Int : hundredths = list * (100 - pct)
    OBVIOUS
  <2>4. ToThePenny(hundredths) \in Int
    BY PenniesOrderly
  <2> QED
    BY <2>1, <2>2, <2>3, <2>4 DEF DiscountedPrice
<1>5. PICK f : f = PricesOf(lines)
  OBVIOUS
<1>6. DOMAIN f = Active(lines) /\ \A i \in Active(lines) : f[i] \in Int
  BY <1>4, <1>5 DEF PricesOf
<1>7. SumFunction(f) \in Int
  BY <1>3, <1>6, SumTyped
<1> QED
  BY <1>1, <1>3, <1>5, <1>6, <1>7

\* What is offered on a record: what the offer says of it is still true of it.
Offered(lines, offer) ==
    LET with == Append(lines, ProposedLine(offer.sku, offer.list, offer.term))
    IN  /\ offer.sku \in Skus \cap Graph.nodes
        /\ ~Holds(lines, offer.sku)
        /\ IsCombinationValid(Graph, SkusOf(lines) \cup {offer.sku})
        /\ offer.term \in TermsOf[offer.sku]
        /\ offer.delta = EvaluateDiscounts(Policies, with).discounted
                             - EvaluateDiscounts(Policies, lines).discounted

Offer == [sku : Skus \cup {NoSku}, list : Nat, term : Nat, delta : Int,
          gained : SUBSET DOMAIN Policies]

\* A record has finitely many lines, and each counts with its list price.
LEMMA LinePrices ==
    ASSUME NEW lines \in Seq(Line)
    PROVE  IsFiniteSet(DOMAIN lines) /\ \A i \in DOMAIN lines : ListPrice(lines[i]) = lines[i].list
<1>1. DOMAIN lines = 1 .. Len(lines) /\ Len(lines) \in Nat
  OBVIOUS
<1>2. IsFiniteSet(DOMAIN lines)
  BY <1>1, FS_Interval
<1>3. \A i \in DOMAIN lines : lines[i] \in Line
  OBVIOUS
<1> QED
  BY <1>2, <1>3, LineFields

\* A line that is only proposed has no list price: it is priced from its charge.
LEMMA ProposedPrice ==
    ASSUME NEW sku, NEW list \in Nat, NEW term
    PROVE  ListPrice(ProposedLine(sku, list, term)) = list
<1>1. PICK line : line = ProposedLine(sku, list, term)
  OBVIOUS
<1>2. "list" \notin DOMAIN line /\ line.charge = list
  BY <1>1 DEF ProposedLine
<1> QED
  BY <1>1, <1>2 DEF ListPrice

Extends(lines, line, more) ==
    /\ DOMAIN more = DOMAIN lines \cup {Len(lines) + 1} /\ Len(lines) + 1 \notin DOMAIN lines
    /\ \A i \in DOMAIN lines : more[i] = lines[i]
    /\ more[Len(lines) + 1] = line
    /\ IsFiniteSet(DOMAIN more)

\* A proposed line is added at the end.
LEMMA Longer ==
    ASSUME NEW X, NEW lines \in Seq(X), NEW line
    PROVE  Extends(lines, line, Append(lines, line))
<1>0. PICK more : more = Append(lines, line)
  OBVIOUS
<1>1. PICK m \in Nat : m = Len(lines)
  OBVIOUS
<1>2. DOMAIN lines = 1 .. m /\ DOMAIN more = 1 .. m + 1
  BY <1>0, <1>1
<1>3. (\A i \in 1 .. m : more[i] = lines[i]) /\ more[m + 1] = line
  BY <1>0, <1>1
<1>4. IsFiniteSet(1 .. m + 1)
  BY FS_Interval
<1>5. 1 .. m + 1 = (1 .. m) \cup {m + 1} /\ m + 1 \notin 1 .. m
  OBVIOUS
<1>6. Extends(lines, line, more)
  BY <1>1, <1>2, <1>3, <1>4, <1>5 DEF Extends
<1> QED
  BY <1>0, <1>6

ProposedPrices(lines, sku, list, term) ==
    EvaluateDiscounts(Policies, Append(lines, ProposedLine(sku, list, term))).discounted

\* An evaluation, and a proposal, has a price.
LEMMA ProposalPriced ==
    ASSUME NEW lines \in Seq(Line), NEW sku, NEW list \in Nat, NEW term
    PROVE  /\ EvaluateDiscounts(Policies, lines).discounted \in Int
           /\ ProposedPrices(lines, sku, list, term) \in Int
<1>1. PICK line : line = ProposedLine(sku, list, term)
  OBVIOUS
<1>2. PICK longer : longer = Append(lines, line)
  OBVIOUS
<1>3. \A i \in DOMAIN lines : lines[i].list \in Nat
  <2>1. \A i \in DOMAIN lines : lines[i] \in Line
    OBVIOUS
  <2> QED
    BY <2>1, LineFields
<1>4. IsFiniteSet(DOMAIN lines) /\ \A i \in DOMAIN lines : ListPrice(lines[i]) \in Nat
  BY <1>3, LinePrices
<1>5. Extends(lines, line, longer)
  BY <1>2, Longer
<1>6. ListPrice(line) \in Nat
  BY <1>1, ProposedPrice
<1>7. \A i \in DOMAIN longer : ListPrice(longer[i]) \in Nat
  BY <1>4, <1>5, <1>6, Zenon DEF Extends
<1>8. ProposedPrices(lines, sku, list, term) = EvaluateDiscounts(Policies, longer).discounted
  BY <1>1, <1>2 DEF ProposedPrices
<1> QED
  BY <1>4, <1>5, <1>7, <1>8, PriceSum DEF Extends

\* The first of the compatible offers is for a product the customer does not have.
LEMMA OffersMade ==
    ASSUME NEW lines \in Seq(Line), NEW prices \in [Skus -> Nat],
           CompatibleOffers(Graph, prices, lines) # <<>>
    PROVE  LET offer == Choice(CompatibleOffers(Graph, prices, lines)[1])
           IN  offer \in Offer /\ Offered(lines, offer)
<1>1. PICK products : products = CompatibleCandidates(Graph, HeldSkus(lines))
  OBVIOUS
<1>2. /\ products \in Seq(Skus)
      /\ \A n \in DOMAIN products :
            /\ products[n] \in Graph.nodes \ SkusOf(lines)
            /\ IsCombinationValid(Graph, SkusOf(lines) \cup {products[n]})
  BY <1>1, CandidatesFit
<1>3. 1 \in DOMAIN products
  <2> SUFFICES ASSUME 1 \notin DOMAIN products PROVE FALSE
    OBVIOUS
  <2>1. products = <<>>
    BY <1>2
  <2>2. CompatibleOffers(Graph, prices, lines) = <<>>
    BY <1>1, <2>1 DEF CompatibleOffers
  <2> QED
    BY <2>2
<1>4. PICK p \in Skus : p = products[1]
  BY <1>2, <1>3
<1> DEFINE with(t) == EvaluateDiscounts(Policies, Append(lines, ProposedLine(p, prices[p], t)))
           current == EvaluateDiscounts(Policies, lines)
           first   == CompatibleOffers(Graph, prices, lines)[1]
<1>5. first = [sku |-> p, list |-> prices[p],
               proposals |-> [t \in TermsOf[p] |-> Delta(current, with(t))]]
  BY <1>1, <1>3, <1>4 DEF CompatibleOffers
<1>6. PICK term \in TermsOf[p] : term = Min(TermsOf[p])
  <2>1. \E n \in TermsOf[p] : \A m \in TermsOf[p] : n <= m
    BY OfferParameters, Least
  <2> QED
    BY <2>1 DEF Min
<1>7. PICK delta : delta = Delta(current, with(term))
  OBVIOUS
<1>8. Choice(first) = [sku |-> p, list |-> prices[p], term |-> term,
                       delta |-> delta.charge, gained |-> delta.gained]
  <2>1. DOMAIN first.proposals = TermsOf[p] /\ first.proposals[term] = delta
    BY <1>5, <1>7
  <2> QED
    BY <1>5, <1>6, <2>1 DEF Choice
<1>9. delta.charge = with(term).discounted - current.discounted
      /\ delta.gained = with(term).applied \ current.applied
  BY <1>7 DEF Delta
<1>10. with(term).applied \subseteq DOMAIN Policies
  BY DEF EvaluateDiscounts
<1>11. with(term).discounted \in Int /\ current.discounted \in Int
  <2>1. PICK list \in Nat : list = prices[p]
    OBVIOUS
  <2>2. with(term).discounted = ProposedPrices(lines, p, list, term)
    BY <2>1 DEF ProposedPrices
  <2> QED
    BY <2>1, <2>2, ProposalPriced
<1>12. PICK offer : offer = Choice(first)
  OBVIOUS
<1>13. offer \in Offer
  <2>1. delta.charge \in Int /\ delta.gained \subseteq DOMAIN Policies
    BY <1>9, <1>10, <1>11
  <2>2. term \in Nat /\ prices[p] \in Nat
    BY <1>6, OfferParameters
  <2> QED
    BY <1>8, <1>12, <2>1, <2>2 DEF Offer
<1>14. Offered(lines, offer)
  <2>1. p \in Graph.nodes /\ p \notin SkusOf(lines) /\ IsCombinationValid(Graph, SkusOf(lines) \cup {p})
    BY <1>2, <1>3, <1>4
  <2>2. ~Holds(lines, p)
    BY <2>1 DEF Holds, SkusOf
  <2>3. offer.sku = p /\ offer.list = prices[p] /\ offer.term = term /\ offer.delta = delta.charge
    BY <1>8, <1>12
  <2> QED
    BY <1>6, <1>9, <2>1, <2>2, <2>3 DEF Offered
<1> QED
  BY <1>12, <1>13, <1>14

(***************************************************************************)
(* Two portfolios that differ in the list prices of their lines only: the   *)
(* one with the higher list prices has the higher discounts.                *)
(***************************************************************************)
Dearer(lines, others) ==
    /\ DOMAIN others = DOMAIN lines /\ IsFiniteSet(DOMAIN lines)
    /\ \A i \in DOMAIN lines :
          /\ others[i].sku = lines[i].sku /\ others[i].stat = lines[i].stat
          /\ Field(others[i], "term") = Field(lines[i], "term")
          /\ Field(lines[i], "list") \in Nat /\ Field(others[i], "list") \in Nat
          /\ Field(lines[i], "list") <= Field(others[i], "list")

\* A dearer record has the same active lines.
LEMMA DearerActive ==
    ASSUME NEW lines, NEW others, Dearer(lines, others)
    PROVE  /\ Active(others) = Active(lines) /\ ActiveSkus(others) = ActiveSkus(lines)
           /\ Active(lines) \subseteq DOMAIN lines
<1>1. Active(others) = Active(lines) /\ Active(lines) \subseteq DOMAIN lines
  BY DEF Dearer, Active
<1>2. \A i \in Active(lines) : others[i].sku = lines[i].sku
  BY DEF Dearer, Active
<1> QED
  BY <1>1, <1>2 DEF ActiveSkus

\* A dearer record has a total that is as high.
LEMMA DearerTotal ==
    ASSUME NEW lines, NEW others, Dearer(lines, others)
    PROVE  /\ Total(lines, "list") \in Nat /\ Total(others, "list") \in Nat
           /\ Total(lines, "list") <= Total(others, "list")
<1>1. PICK f : f = [i \in Active(lines) |-> Field(lines[i], "list")]
  OBVIOUS
<1>2. PICK g : g = [i \in Active(lines) |-> Field(others[i], "list")]
  OBVIOUS
<1>3. Total(lines, "list") = SumFunction(f) /\ Total(others, "list") = SumFunction(g)
  BY <1>1, <1>2, DearerActive DEF Total
<1>4. DOMAIN f = Active(lines) /\ DOMAIN g = Active(lines) /\ IsFiniteSet(Active(lines))
  BY <1>1, <1>2, DearerActive, FS_Subset DEF Dearer
<1>5. \A i \in Active(lines) : f[i] \in Nat /\ g[i] \in Nat /\ f[i] <= g[i]
  BY <1>1, <1>2, DearerActive DEF Dearer
<1>6. \A i \in Active(lines) : f[i] \in Int /\ g[i] \in Int
  BY <1>5
<1>7. SumFunction(f) <= SumFunction(g)
  BY <1>4, <1>5, <1>6, SumGrows
<1>8. SumFunction(f) \in Nat /\ SumFunction(g) \in Nat
  BY <1>4, <1>5, SumTyped
<1> QED
  BY <1>3, <1>7, <1>8

\* A discount that a record gets, a dearer one gets too.
LEMMA DearerDiscounts ==
    ASSUME NEW lines, NEW others, Dearer(lines, others), NEW sku
    PROVE  DiscountPct(Policies, lines, sku) <= DiscountPct(Policies, others, sku)
<1>1. Satisfying(others, "term", "gte", 24) = Satisfying(lines, "term", "gte", 24)
  <2>1. \A i \in Active(lines) : Field(others[i], "term") = Field(lines[i], "term")
    BY DearerActive DEF Dearer
  <2> QED
    BY <2>1, DearerActive DEF Satisfying
<1>2. Satisfying(lines, "term", "gte", 24) \subseteq DOMAIN lines
  BY DearerActive DEF Satisfying
<1>3. PICK n : n = Entries(LongContract, lines, sku)
  OBVIOUS
<1>4. n \in Nat /\ Entries(LongContract, others, sku) = n
  <2> DEFINE Q(ls) == {i \in Satisfying(ls, "term", "gte", 24) : ls[i].sku = sku}
  <2>1. /\ Entries(LongContract, lines, sku) = Cardinality(Q(lines))
        /\ Entries(LongContract, others, sku) = Cardinality(Q(others))
    BY DEF Entries, LongContract
  <2>2. Q(others) = Q(lines)
    BY <1>1, <1>2 DEF Dearer
  <2>3. Q(lines) \subseteq DOMAIN lines
    BY <1>2
  <2>4. IsFiniteSet(Q(lines))
    BY <2>3, FS_Subset DEF Dearer
  <2> HIDE DEF Q
  <2> QED
    BY <1>3, <2>1, <2>2, <2>4, FS_CardinalityType
<1>5. PICK p, q : p = Entries(HighValue, lines, sku) /\ q = Entries(HighValue, others, sku)
  OBVIOUS
<1>6. p \in {0, 1} /\ q \in {0, 1} /\ p <= q
  <2>1. Fires(HighValue, lines) => Fires(HighValue, others)
    <3>1. PICK t \in Nat, u \in Nat : t = Total(lines, "list") /\ u = Total(others, "list") /\ t <= u
      BY DearerTotal
    <3> DEFINE rule == HighValue.rule
    <3>2. PICK limit \in Nat : limit = rule.threshold
      BY DEF HighValue
    <3>3. rule.scope = "portfolio" /\ rule.aggregate = "sum" /\ rule.match_field = "list"
          /\ rule.operator = "gt"
      BY DEF HighValue
    <3>4. ASSUME NEW ls, NEW m \in Nat, m = Total(ls, "list") PROVE Fires(HighValue, ls) <=> m > limit
      <4>1. Fires(HighValue, ls) <=> Compare(Total(ls, "list"), rule.operator, rule.threshold)
        BY <3>3, Zenon DEF Fires, AggregateReached
      <4> HIDE DEF rule
      <4> QED
        BY <3>2, <3>3, <3>4, <4>1 DEF Compare
    <3> HIDE DEF rule
    <3> QED
      BY <3>1, <3>2, <3>4
  <2>2. /\ p = IF sku \in ActiveSkus(lines) /\ Fires(HighValue, lines) THEN 1 ELSE 0
        /\ q = IF sku \in ActiveSkus(others) /\ Fires(HighValue, others) THEN 1 ELSE 0
    BY <1>5 DEF Entries, HighValue
  <2> QED
    BY <2>1, <2>2, DearerActive
<1> DEFINE f(ls) == [k \in DOMAIN Policies |->
                        Policies[k].discount_pct * Entries(Policies[k], ls, sku)]
<1>7. ASSUME NEW ls, NEW x \in Nat, NEW y \in Nat,
             x = Entries(LongContract, ls, sku), y = Entries(HighValue, ls, sku)
      PROVE  DiscountPct(Policies, ls, sku) = 10 * x + 10 * y
  <2>1. f(ls)[1] = 10 * x /\ f(ls)[2] = 10 * y
    BY <1>7, TwoPolicies DEF LongContract, HighValue
  <2>2. DOMAIN f(ls) = {1, 2}
    BY TwoPolicies
  <2>3. DiscountPct(Policies, ls, sku) = SumFunction(f(ls))
    BY DEF DiscountPct
  <2> HIDE DEF f
  <2>4. 10 * x \in Nat /\ 10 * y \in Nat
    OBVIOUS
  <2> QED
    BY <2>1, <2>2, <2>3, <2>4, SumOfTwo
<1>8. /\ DiscountPct(Policies, lines, sku) = 10 * n + 10 * p
      /\ DiscountPct(Policies, others, sku) = 10 * n + 10 * q
  BY <1>3, <1>4, <1>5, <1>6, <1>7
<1> QED
  BY <1>4, <1>6, <1>8

\* Larger discounts are taken from the same list prices, so the evaluation costs no more.
LEMMA DearerPrices ==
    ASSUME NEW lines, NEW others, Dearer(lines, others),
           \A i \in DOMAIN lines : /\ ListPrice(lines[i]) \in Nat
                                   /\ ListPrice(others[i]) = ListPrice(lines[i])
    PROVE  EvaluateDiscounts(Policies, others).discounted
               <= EvaluateDiscounts(Policies, lines).discounted
<1>1. /\ DOMAIN others = DOMAIN lines /\ IsFiniteSet(DOMAIN lines)
      /\ Active(others) = Active(lines) /\ Active(lines) \subseteq DOMAIN lines
  BY DearerActive DEF Dearer
<1>2. PICK f : f = PricesOf(lines)
  OBVIOUS
<1>3. PICK g : g = PricesOf(others)
  OBVIOUS
<1>4. DOMAIN f = Active(lines) /\ DOMAIN g = Active(lines) /\ IsFiniteSet(Active(lines))
  BY <1>1, <1>2, <1>3, FS_Subset DEF PricesOf
<1>5. \A i \in Active(lines) : f[i] \in Int /\ g[i] \in Int /\ g[i] <= f[i]
  <2> SUFFICES ASSUME NEW i \in Active(lines) PROVE f[i] \in Int /\ g[i] \in Int /\ g[i] <= f[i]
    OBVIOUS
  <2>1. PICK list \in Nat : list = ListPrice(lines[i]) /\ list = ListPrice(others[i])
    BY <1>1
  <2>2. lines[i].sku = others[i].sku
    BY <1>1 DEF Dearer
  <2>3. PICK p \in Nat : p = DiscountPct(Policies, lines, lines[i].sku)
    BY <1>1, PctNatural
  <2>4. PICK q \in Nat : q = DiscountPct(Policies, others, others[i].sku)
    BY <1>1, PctNatural
  <2>5. p <= q
    BY <2>2, <2>3, <2>4, DearerDiscounts
  <2>6. PICK h \in Int, k \in Int : h = list * (100 - p) /\ k = list * (100 - q)
    OBVIOUS
  <2>7. f[i] = ToThePenny(h) /\ g[i] = ToThePenny(k)
    BY <1>1, <1>2, <1>3, <2>1, <2>3, <2>4, <2>6 DEF PricesOf, DiscountedPrice
  <2>8. k <= h
    BY <2>5, <2>6
  <2> QED
    BY <2>7, <2>8, PenniesOrderly
<1>6. SumFunction(g) <= SumFunction(f)
  BY <1>4, <1>5, SumGrows
<1>7. \A i \in DOMAIN others : ListPrice(others[i]) \in Nat
  BY <1>1
<1> QED
  BY <1>1, <1>2, <1>3, <1>6, <1>7, PriceSum

(***************************************************************************)
(* The bill of a record to which a product was added is not higher than the *)
(* offer for it said.                                                       *)
(***************************************************************************)
LEMMA OfferHolds ==
    ASSUME NEW lines \in Seq(Line), OnePerSku(lines), NEW sku \in Skus, ~Holds(lines, sku),
           NEW list \in Nat, NEW term \in Nat
    PROVE  /\ Bill(Reevaluated(Append(lines, NewLine(sku, list, term)))) \in Int
           /\ Bill(Reevaluated(Append(lines, NewLine(sku, list, term))))
                  <= ProposedPrices(lines, sku, list, term)
<1>1. PICK longer : longer = Append(lines, NewLine(sku, list, term))
  OBVIOUS
<1>2. PICK new : new = NewLine(sku, list, term)
  OBVIOUS
<1>3. longer \in Seq(Line) /\ OnePerSku(longer)
  BY <1>1, AppendedLine
<1>4. Extends(lines, new, longer)
  BY <1>1, <1>2, Longer
<1>5. PICK line : line = ProposedLine(sku, list, term)
  OBVIOUS
<1>6. PICK with : with = Append(lines, line)
  OBVIOUS
<1>7. Extends(lines, line, with)
  BY <1>6, Longer
<1>8. \A i \in DOMAIN lines : /\ lines[i] \in Line
                              /\ ListPrice(lines[i]) = lines[i].list
                              /\ Field(lines[i], "list") = lines[i].list
                              /\ lines[i].list \in Nat
  <2>1. \A i \in DOMAIN lines : lines[i] \in Line
    OBVIOUS
  <2> QED
    BY <2>1, LineFields
<1>9. new \in Line /\ new.sku = sku /\ new.stat = "A" /\ new.term = term /\ new.list = list
  BY <1>2 DEF NewLine, Line
<1>10. Field(new, "term") = term /\ Field(new, "list") = list /\ ListPrice(new) = list
  BY <1>9, LineFields
<1>11. /\ line.sku = sku /\ line.stat = "A" /\ Field(line, "term") = term /\ Field(line, "list") = 0
  BY <1>5 DEF ProposedLine, Field
<1>12. ListPrice(line) = list
  BY <1>5, ProposedPrice
<1>13. Dearer(with, longer)
  <2>1. /\ DOMAIN longer = DOMAIN with /\ IsFiniteSet(DOMAIN with)
        /\ DOMAIN with = DOMAIN lines \cup {Len(lines) + 1}
    BY <1>4, <1>7 DEF Extends
  <2> DEFINE Fits(i) == /\ longer[i].sku = with[i].sku /\ longer[i].stat = with[i].stat
                        /\ Field(longer[i], "term") = Field(with[i], "term")
                        /\ Field(with[i], "list") \in Nat /\ Field(longer[i], "list") \in Nat
                        /\ Field(with[i], "list") <= Field(longer[i], "list")
  <2>2. ASSUME NEW i \in DOMAIN lines PROVE Fits(i)
    <3>1. longer[i] = lines[i] /\ with[i] = lines[i]
      BY <1>4, <1>7 DEF Extends
    <3>2. Field(lines[i], "list") \in Nat
      BY <1>8
    <3> QED
      BY <3>1, <3>2
  <2>3. Fits(Len(lines) + 1)
    <3>1. longer[Len(lines) + 1] = new /\ with[Len(lines) + 1] = line
      BY <1>4, <1>7 DEF Extends
    <3> QED
      BY <1>9, <1>10, <1>11, <3>1
  <2>4. \A i \in DOMAIN with : Fits(i)
    BY <2>1, <2>2, <2>3
  <2> QED
    BY <2>1, <2>4 DEF Dearer
<1>14. \A i \in DOMAIN with : ListPrice(with[i]) \in Nat /\ ListPrice(longer[i]) = ListPrice(with[i])
  <2>1. ASSUME NEW i \in DOMAIN lines
        PROVE ListPrice(with[i]) \in Nat /\ ListPrice(longer[i]) = ListPrice(with[i])
    <3>1. longer[i] = lines[i] /\ with[i] = lines[i]
      BY <1>4, <1>7 DEF Extends
    <3> QED
      BY <1>8, <3>1
  <2>2. longer[Len(lines) + 1] = new /\ with[Len(lines) + 1] = line
    BY <1>4, <1>7 DEF Extends
  <2>3. DOMAIN with = DOMAIN lines \cup {Len(lines) + 1}
    BY <1>7 DEF Extends
  <2> QED
    BY <1>10, <1>12, <2>1, <2>2, <2>3
<1>15. EvaluateDiscounts(Policies, longer).discounted <= EvaluateDiscounts(Policies, with).discounted
  BY <1>13, <1>14, DearerPrices
<1>16. PICK after : after = Reevaluated(longer)
  OBVIOUS
<1>17. Active(after) = Active(longer)
  <2>1. Alike(longer, after)
    BY <1>3, <1>16, ReevaluatedLines
  <2> QED
    BY <2>1, AlikeActive
<1>18. \A i \in Active(longer) : after[i].charge = DiscountedPrice(Policies, longer, i)
  <2> SUFFICES ASSUME NEW i \in Active(longer)
               PROVE  after[i].charge = DiscountedPrice(Policies, longer, i)
    OBVIOUS
  <2>1. i \in DOMAIN longer /\ longer[i].stat = "A"
    BY DEF Active
  <2> QED
    BY <1>3, <1>16, <2>1, ReevaluatedLine
<1>19. Bill(after) = SumFunction(PricesOf(longer))
  <2>1. [i \in Active(after) |-> after[i].charge] = PricesOf(longer)
    BY <1>17, <1>18 DEF PricesOf
  <2> QED
    BY <2>1 DEF Bill
<1>20. IsFiniteSet(DOMAIN longer) /\ \A i \in DOMAIN longer : ListPrice(longer[i]) \in Nat
  BY <1>4, <1>7, <1>14 DEF Extends
<1>21. /\ EvaluateDiscounts(Policies, longer).discounted = SumFunction(PricesOf(longer))
       /\ SumFunction(PricesOf(longer)) \in Int
  BY <1>20, PriceSum
<1>22. ProposedPrices(lines, sku, list, term) = EvaluateDiscounts(Policies, with).discounted
  BY <1>5, <1>6 DEF ProposedPrices
<1>23. Reevaluated(Append(lines, NewLine(sku, list, term))) = after
  BY <1>1, <1>16
<1> QED
  BY <1>15, <1>19, <1>21, <1>22, <1>23

-----------------------------------------------------------------------------
(* The invariant of the journeys.                                             *)

PurchaseLabels == {"start", "browse", "offers", "purchase", "purchasing", "cancelling", "teardown",
                   "done"}
PricingLabels == {"start", "snapshot", "charges", "update", "updating", "recalculating", "teardown",
                  "restoring", "done"}

Script == [pc : PurchaseLabels \cup PricingLabels, client : Clients \cup {Nobody},
           task : Tasks \cup {NoTask}, reply : Replies, record : Seq(Line), offer : Offer,
           price : Nat, charges : [Customers -> Nat \cup {KeptCharge}], todo : SUBSET Customers,
           clean : BOOLEAN, before : [Customers -> Seq(Line)]]

ScriptsTyped == DOMAIN script \in Scenarios /\ script \in [DOMAIN script -> Script]

CacheTyped == sent \subseteq Seq(Line) /\ listed \in [Skus -> SUBSET Nat]

\* How far a script has come determines what it knows.
PhaseFits(s) ==
    LET journey == script[s]
    IN  /\ journey.pc \in IF s = "purchase" THEN PurchaseLabels ELSE PricingLabels
        /\ journey.pc # "start" => journey.client \in ScriptClients
        /\ journey.pc \in {"purchase", "purchasing", "cancelling"} =>
              Offered(journey.record, journey.offer)
        /\ journey.reply \in {"error", "timeout"} => ~journey.clean

(***************************************************************************)
(* A chain that waits has forwarded its own intent; a handler that sends an *)
(* event is one of the kind that sends it, for the customer it wrote.       *)
(***************************************************************************)
RequestOf(intent) == [NoRequest EXCEPT
                        !.id = intent.id, !.op = Operation(intent), !.cust = intent.cust,
                        !.sku = intent.sku, !.term = intent.term, !.list = intent.list,
                        !.stat = IF intent.intent = "cancel_subscription" THEN "C" ELSE Kept]

Linked(b) == chain[b].pc = "wait" => work[b].req = RequestOf(chain[b].intent)

Staged(w) ==
    /\ work[w].pc \in {"emit", "next"} => work[w].req.op = "recalculate"
    /\ work[w].pc = "announce" => work[w].req.op = "price"
    /\ work[w].pc = "capture" => work[w].req.op \in {"add", "update"}
                                 /\ work[w].cust = work[w].req.cust
    /\ work[w].pc = "emit" => work[w].cust \in Customers

(***************************************************************************)
(* Which script a handler works for can be seen from its intent or request: *)
(* only the purchase adds and cancels.                                      *)
(***************************************************************************)
Buying == {"add_subscription", "cancel_subscription"}

Buys(req) == req.op = "add" \/ (req.op = "update" /\ req.stat = "C")

OfPurchase(b) == IF chain[b].pc # "idle" THEN chain[b].intent.intent \in Buying
                 ELSE Buys(work[b].req)

Owner(b) == IF OfPurchase(b) THEN "purchase" ELSE "pricing"

BuyersOnly(b) == ~Free(b) /\ OfPurchase(b) =>
                     /\ chain[b].pc # "idle" => chain[b].intent.cust = Buyer
                     /\ work[b].pc # "idle" => work[b].req.cust = Buyer

(***************************************************************************)
(* A handler at work is one a script waits for, or one that it has given    *)
(* up; and it can have given one up only when something failed.             *)
(***************************************************************************)
Accounted(b) ==
    ~Free(b) => /\ Owner(b) \in DOMAIN script
                /\ script[Owner(b)].clean \/ faults = 0 => script[Owner(b)].task = b

Carries(intent, caller, kind, c, sku, term, list) ==
    /\ intent.caller = caller /\ intent.intent = kind /\ intent.cust = c
    /\ intent.sku = sku /\ intent.term = term /\ intent.list = list

\* What the script has asked for.
Asked(journey, intent) ==
    \/ /\ journey.pc = "purchasing"
       /\ Carries(intent, journey.client, "add_subscription", Buyer, journey.offer.sku,
                  journey.offer.term, 0)
    \/ /\ journey.pc = "cancelling"
       /\ Carries(intent, "system-admin", "cancel_subscription", Buyer, journey.offer.sku, 0, 0)
    \/ /\ journey.pc = "updating"
       /\ Carries(intent, journey.client, "update_product_price", Nobody, PricedSku, 0, PricedAt)
    \/ /\ journey.pc = "recalculating"
       /\ Carries(intent, journey.client, "recalculate_billing", Nobody, PricedSku, 0, 0)
    \/ /\ journey.pc = "restoring"
       /\ Carries(intent, "system-admin", "update_product_price", Nobody, PricedSku, 0,
                  journey.price)

Asks(journey, b) ==
    IF chain[b].pc # "idle" THEN Asked(journey, chain[b].intent)
    ELSE journey.pc = "restoring" /\ DirectUpdate(work[b].req) /\ work[b].req.sku = PricedSku

Awaited(s) ==
    LET journey == script[s]
    IN  journey.task # NoTask =>
            /\ journey.task \in Tasks /\ ~Free(journey.task) /\ Owner(journey.task) = s
            /\ journey.pc \in Waiting /\ journey.reply = "none"
            /\ Asks(journey, journey.task)

TaskFits(b) == Linked(b) /\ Staged(b) /\ BuyersOnly(b) /\ Accounted(b)
ScriptFits(s) == PhaseFits(s) /\ Awaited(s)

JInv == /\ IInv /\ ScriptsTyped /\ CacheTyped
        /\ \A b \in Tasks : TaskFits(b)
        /\ \A s \in DOMAIN script : ScriptFits(s)

-----------------------------------------------------------------------------
(* A step of the services, as the scripts see it.                             *)

Others(b) == \A d \in Tasks \ {b} : chain'[d] = chain[d] /\ work'[d] = work[d]

\* The handler goes on ...
Going(b) ==
    /\ ~Free(b) /\ ~Free(b)' /\ ~Answered(b)
    /\ chain[b].pc = "idle" <=> chain'[b].pc = "idle"
    /\ chain[b].pc # "idle" => chain'[b].intent = chain[b].intent
    /\ chain[b].pc = "idle" => work'[b].req = work[b].req

\* ... or gives its answer; only when the broker gave it up is it not free then.
Ending(b) ==
    /\ ~Free(b) /\ Answered(b) /\ chain'[b].pc = "idle"
    /\ Outcome(b) \in {"permitted", "denied", "error"}
    /\ \/ Free(b)'
       \/ /\ chain[b].pc = "wait" /\ work'[b] = work[b]
          /\ faults' # 0 /\ Outcome(b) = "error"

Turn(b) == /\ Others(b) /\ (Going(b) \/ Ending(b))
           /\ Linked(b)' /\ Staged(b)' /\ faults' \in {faults, faults + 1}

\* A handler stays in the stages of its operation.
LEMMA HandlerStages ==
    ASSUME NEW w \in Tasks, HandlerKnown(w), HandlerTurn(w), Staged(w)
    PROVE  Staged(w)'
<1>1. PICK h \in Work : h = work[w]
  BY KnownRecord
<1>2. work \in [Tasks -> Work]
  BY KnownRecord
<1>3. h.req.op \in {"add", "update"} => h.req.cust \in Customers
  BY <1>1 DEF HandlerKnown, RequestFits
<1>4. ASSUME NEW new, work' = [work EXCEPT ![w] = new], new.req = h.req,
             new.pc \in {"emit", "next"} => h.req.op = "recalculate",
             new.pc = "announce" => h.req.op = "price",
             new.pc = "capture" => h.req.op \in {"add", "update"} /\ new.cust = h.req.cust,
             new.pc = "emit" => new.cust \in Customers
      PROVE  Staged(w)'
  <2>1. work'[w] = new
    BY <1>2, <1>4
  <2> QED
    BY <1>4, <2>1 DEF Staged
<1>5. ASSUME NEW ok, Finish(w, ok) PROVE Staged(w)'
  <2>1. PICK new : new = [NoWork EXCEPT !.pc = "done", !.req = h.req, !.ok = ok]
    OBVIOUS
  <2>2. new.pc = "done" /\ new.req = h.req /\ work' = [work EXCEPT ![w] = new]
    BY <1>1, <1>5, <2>1 DEF Finish, NoWork
  <2> QED
    BY <1>4, <2>2
<1>6. ASSUME NEW c, NEW lines, NEW label, NEW due, Commit(w, c, lines, label, due),
             \/ label = "capture" /\ h.req.op \in {"add", "update"} /\ c = h.req.cust
             \/ label = "emit" /\ h.req.op = "recalculate" /\ c \in Customers
      PROVE  Staged(w)'
  <2>1. PICK new : new = [h EXCEPT !.pc = label, !.cust = c, !.raw = lines, !.todo = due]
    OBVIOUS
  <2>2. new.pc = label /\ new.cust = c /\ new.req = h.req
    BY <2>1 DEF Work
  <2>3. work' = [work EXCEPT ![w] = new]
    BY <1>1, <1>2, <1>6, <2>1 DEF Commit
  <2> QED
    BY <1>4, <1>6, <2>2, <2>3
<1>7. CASE UpdateLine(w)
  BY <1>1, <1>6, <1>7 DEF UpdateLine
<1>8. CASE AddCommit(w)
  BY <1>1, <1>6, <1>8 DEF AddCommit
<1>9. ASSUME NEW c \in Customers, RecalcFirst(w, c) \/ RecalcNext(w, c) PROVE Staged(w)'
  <2>1. PICK due \in SUBSET Customers : RecalcCustomer(w, c, due)
    BY <1>9, RecalculationSteps
  <2>2. h.req.op = "recalculate"
    BY <1>1, <1>9 DEF RecalcFirst, RecalcNext, Staged
  <2> QED
    BY <1>6, <2>1, <2>2 DEF RecalcCustomer
<1>10. ASSUME NEW label \in {"fetch", "fetched", "next"}, h.pc = "emit" \/ label # "next",
              NEW new, new.pc = label, new.req = h.req, work' = [work EXCEPT ![w] = new]
       PROVE  Staged(w)'
  BY <1>1, <1>4, <1>10 DEF Staged
<1>11. CASE AddStart(w)
  <2>1. PICK new : new = [h EXCEPT !.pc = "fetch", !.raw = book[h.req.cust]]
    OBVIOUS
  <2>2. new.pc = "fetch" /\ new.req = h.req
    BY <2>1 DEF Work
  <2>3. work' = [work EXCEPT ![w] = new]
    BY <1>1, <1>2, <1>11, <2>1 DEF AddStart
  <2> QED
    BY <1>10, <2>2, <2>3
<1>12. CASE FetchPrice(w)
  <2>1. PICK new : new = [h EXCEPT !.pc = "fetched", !.list = price[h.req.sku]]
    OBVIOUS
  <2>2. new.pc = "fetched" /\ new.req = h.req
    BY <2>1 DEF Work
  <2>3. work' = [work EXCEPT ![w] = new]
    BY <1>1, <1>2, <1>12, <2>1 DEF FetchPrice
  <2> QED
    BY <1>10, <2>2, <2>3
<1>13. CASE RecalcStart(w)
  <2>1. PICK new : new = [h EXCEPT !.pc = "fetch"]
    OBVIOUS
  <2>2. new.pc = "fetch" /\ new.req = h.req
    BY <2>1 DEF Work
  <2>3. work' = [work EXCEPT ![w] = new]
    BY <1>1, <1>2, <1>13, <2>1 DEF RecalcStart
  <2> QED
    BY <1>10, <2>2, <2>3
<1>14. CASE Emit(w)
  <2>1. PICK new : new = [h EXCEPT !.pc = "next", !.cust = Nobody, !.raw = <<>>]
    OBVIOUS
  <2>2. new.pc = "next" /\ new.req = h.req /\ h.pc = "emit"
    BY <1>1, <1>14, <2>1 DEF Work, Emit
  <2>3. work' = [work EXCEPT ![w] = new]
    BY <1>1, <1>2, <1>14, <2>1 DEF Emit
  <2> QED
    BY <1>10, <2>2, <2>3
<1>15. CASE UpdateProduct(w)
  <2>1. PICK new : new = [h EXCEPT !.pc = "announce"]
    OBVIOUS
  <2>2. new.pc = "announce" /\ new.req = h.req /\ h.req.op = "price"
    BY <1>1, <1>15, <2>1 DEF Work, UpdateProduct
  <2>3. work' = [work EXCEPT ![w] = new]
    BY <1>1, <1>2, <1>15, <2>1 DEF UpdateProduct
  <2> QED
    BY <1>4, <2>2, <2>3
<1>16. CASE \/ UpdateUnknown(w) \/ AddKnown(w) \/ FetchFails(w) \/ Capture(w, TRUE)
            \/ Capture(w, FALSE) \/ RecalcNobody(w) \/ RecalcDone(w) \/ AnnounceProduct(w)
  BY <1>5, <1>16 DEF UpdateUnknown, AddKnown, FetchFails, Capture, RecalcNobody, RecalcDone,
                     AnnounceProduct, Refuse
<1> QED
  BY <1>7, <1>8, <1>9, <1>11, <1>12, <1>13, <1>14, <1>15, <1>16 DEF HandlerTurn, Write, Serve

\* Which state a handler and its chain are in, before a step of theirs.
LEMMA Known ==
    ASSUME JInv, NEW b \in Tasks
    PROVE  /\ work \in [Tasks -> Work] /\ work[b] \in Work
           /\ chain \in [Tasks -> Chain] /\ chain[b] \in Chain /\ faults \in Nat
           /\ chain[b].pc \notin {"idle", "wait"} => work[b].pc = "idle"
           /\ chain[b].pc = "wait" => work[b].pc # "idle"
           /\ chain[b].pc # "idle" => chain[b].intent.id \in Ids \ {0}
           /\ Linked(b) /\ Staged(b)
  BY DEF JInv, IInv, TypeOK, ChainFits, HandlerFits, IntentFits, TaskFits

\* A step of a handler in Billing is a turn that goes on.
LEMMA HandlerTurnGoes ==
    ASSUME JInv, NEW w \in Tasks, HandlerTurn(w)
    PROVE  Turn(w) /\ Going(w) /\ IInv'
<1>1. HandlerKnown(w) /\ HandlerMoves(w)
  BY HandlerStarts, HandlersMove DEF JInv, HandlerTurn
<1>2. /\ work[w].pc # "idle" /\ work' = [work EXCEPT ![w] = work'[w]]
      /\ work'[w].pc # "idle" /\ work'[w].req = work[w].req
      /\ UNCHANGED <<chain, audit, issued>> /\ faults' \in {faults, faults + 1}
  BY <1>1 DEF HandlerMoves, HandlerTurn
<1>3. Going(w)
  BY <1>2 DEF Going, Free, Answered
<1>4. Staged(w)'
  BY <1>1, HandlerStages DEF JInv, TaskFits
<1>5. Linked(w)'
  BY <1>2, Known DEF Linked
<1>6. \A d \in Tasks \ {w} : work'[d] = work[d]
  <2>1. work \in [Tasks -> Work]
    BY Known
  <2> QED
    BY <1>2, <2>1
<1>7. faults' \in Nat
  BY <1>2, Known
<1>8. IInv'
  BY <1>1, <1>2, <1>7, HandlersKeep DEF JInv
<1> QED
  BY <1>2, <1>3, <1>4, <1>5, <1>6, <1>8 DEF Turn, Others

\* The answer of the broker is the last entry of its trail.
LEMMA RecordedLast ==
    ASSUME JInv, NEW b \in Tasks, chain[b].pc # "idle",
           NEW outcome \in {"permitted", "denied", "error"}, Answer(b, outcome)
    PROVE  /\ chain' = [chain EXCEPT ![b] = NoChain] /\ chain'[b] = NoChain
           /\ \A d \in Tasks \ {b} : chain'[d] = chain[d]
           /\ Answered(b) /\ Outcome(b) = outcome
<1>1. Record(b, outcome) /\ chain' = [chain EXCEPT ![b] = NoChain]
  BY DEF Answer
<1>2. chain'[b] = NoChain /\ \A d \in Tasks \ {b} : chain'[d] = chain[d]
  BY <1>1, Known
<1>3. audit'[Len(audit')] = [id |-> chain[b].intent.id, outcome |-> outcome]
  BY <1>1, Known, RecordAdds DEF JInv, IInv
<1> QED
  BY <1>1, <1>2, <1>3 DEF Answered, Outcome, NoChain

ChainGoes(b) == \/ Deny(b) \/ PolicyEngineDown(b) \/ Allow(b) \/ ReadPortfolio(b)
                \/ CombinationRejected(b) \/ CombinationAccepted(b) \/ CombinationUnknown(b)

\* A check of the broker that passes is a turn that goes on.
LEMMA ChainTurnGoes ==
    ASSUME JInv, NEW b \in Tasks, ChainGoes(b)
    PROVE  Turn(b) /\ IInv'
<1>1. ChainMoves(b)
  BY ChainsMove DEF JInv, ChainGoes
<1>2. /\ UNCHANGED work /\ chain[b].pc \notin {"idle", "wait"} /\ work[b].pc = "idle"
      /\ chain' = [chain EXCEPT ![b] = chain'[b]] /\ chain'[b].pc # "wait"
      /\ chain'[b].pc # "idle" => chain'[b].intent = chain[b].intent
  BY <1>1, Known DEF ChainMoves, billingVars
<1>3. Others(b)
  BY <1>2, Known DEF Others
<1>4. faults' \in {faults, faults + 1}
  BY DEF ChainGoes, Deny, PolicyEngineDown, Allow, ReadPortfolio, CombinationRejected,
         CombinationAccepted, CombinationUnknown, Fault
<1>5. Linked(b)' /\ Staged(b)'
  BY <1>2, Known DEF Linked, Staged
<1>6. ASSUME NEW outcome \in {"denied", "error"}, Answer(b, outcome) PROVE Ending(b)
  <2>1. chain'[b] = NoChain /\ Answered(b) /\ Outcome(b) = outcome
    BY <1>2, <1>6, RecordedLast
  <2> QED
    BY <1>2, <1>6, <2>1 DEF Ending, Free, NoChain
<1>7. ASSUME Deny(b) \/ PolicyEngineDown(b) \/ CombinationRejected(b) PROVE Ending(b)
  BY <1>6, <1>7 DEF Deny, PolicyEngineDown, CombinationRejected
<1>8. ASSUME Allow(b) \/ ReadPortfolio(b) \/ CombinationAccepted(b) \/ CombinationUnknown(b)
      PROVE  Going(b)
  <2>1. chain'[b].pc # "idle"
    BY <1>8, Known DEF Allow, ReadPortfolio, CombinationAccepted, CombinationUnknown, Goto, Chain
  <2> QED
    BY <1>2, <2>1 DEF Going, Free, Answered
<1>9. IInv'
  BY <1>1, ChainsKeep DEF JInv
<1> QED
  BY <1>3, <1>4, <1>5, <1>7, <1>8, <1>9 DEF ChainGoes, Turn

\* A check that fails, or the answer of Billing, is a turn that ends.
LEMMA EndTurnEnds ==
    ASSUME JInv, NEW b \in Tasks, EndTurn(b)
    PROVE  Turn(b) /\ Ending(b) /\ IInv'
<1>1. NoWork.pc = "idle" /\ NoChain.pc = "idle"
  BY DEF NoWork, NoChain
<1>2. ASSUME SorAnswers(b) PROVE Turn(b) /\ Ending(b)
  <2>1. PICK outcome \in {"permitted", "error"} :
            chain[b].pc = "wait" /\ Answer(b, outcome) /\ work' = [work EXCEPT ![b] = NoWork]
            /\ UNCHANGED faults
    BY <1>2 DEF SorAnswers
  <2>2. /\ chain'[b] = NoChain /\ Answered(b) /\ Outcome(b) = outcome
        /\ \A d \in Tasks \ {b} : chain'[d] = chain[d]
    BY <2>1, RecordedLast
  <2>3. work'[b] = NoWork /\ \A d \in Tasks \ {b} : work'[d] = work[d]
    BY <2>1, Known
  <2> QED
    BY <1>1, <2>1, <2>2, <2>3 DEF Turn, Others, Ending, Free, Linked, Staged
<1>3. ASSUME BrokerTimeout(b) PROVE Turn(b) /\ Ending(b)
  <2>1. chain[b].pc = "wait" /\ Answer(b, "error") /\ UNCHANGED work /\ faults' = faults + 1
    BY <1>3 DEF BrokerTimeout, Fault, billingVars
  <2>2. /\ chain'[b] = NoChain /\ Answered(b) /\ Outcome(b) = "error"
        /\ \A d \in Tasks \ {b} : chain'[d] = chain[d]
    BY <2>1, RecordedLast
  <2>3. faults' # 0
    BY <2>1, Known
  <2> QED
    BY <1>1, <2>1, <2>2, <2>3, Known DEF Turn, Others, Ending, Free, Linked, Staged
<1>4. ASSUME AnswerUnread(b) PROVE Turn(b) /\ Ending(b)
  <2>1. /\ chain[b].pc = "idle" /\ work[b].pc = "done" /\ work' = [work EXCEPT ![b] = NoWork]
        /\ UNCHANGED <<chain, faults>>
    BY <1>4 DEF AnswerUnread, brokerVars
  <2>2. work'[b] = NoWork /\ \A d \in Tasks \ {b} : work'[d] = work[d]
    BY <2>1, Known
  <2> QED
    BY <1>1, <2>1, <2>2 DEF Turn, Others, Ending, Free, Linked, Staged, Answered, Outcome
<1>5. IInv'
  BY EndTurnsKeep DEF JInv
<1> QED
  BY <1>2, <1>3, <1>4, <1>5 DEF EndTurn

\* Forwarding hands the request of the intent to Billing.
LEMMA ForwardGoes ==
    ASSUME JInv, NEW b \in Tasks, Forward(b)
    PROVE  /\ Turn(b) /\ Going(b) /\ IInv'
           /\ work'[b] = [NoWork EXCEPT !.pc = "arrived", !.req = RequestOf(chain[b].intent)]
           /\ chain'[b] = [chain[b] EXCEPT !.pc = "wait"]
<1>1. PICK req : req = RequestOf(chain[b].intent)
  OBVIOUS
<1>2. Arrive(b, req) /\ Goto(b, "wait") /\ chain[b].pc = "forward" /\ UNCHANGED faults
  BY <1>1 DEF Forward, RequestOf
<1>3. PICK new : new = [NoWork EXCEPT !.pc = "arrived", !.req = req]
  OBVIOUS
<1>4. new.pc = "arrived" /\ new.req = req
  BY <1>3 DEF NoWork
<1>5. work'[b] = new /\ \A d \in Tasks \ {b} : work'[d] = work[d]
  BY <1>2, <1>3, Known DEF Arrive
<1>6. PICK old \in Chain : old = chain[b]
  BY Known
<1>7. chain'[b] = [old EXCEPT !.pc = "wait"] /\ \A d \in Tasks \ {b} : chain'[d] = chain[d]
  BY <1>2, <1>6, Known DEF Goto
<1>8. chain'[b].pc = "wait" /\ chain'[b].intent = chain[b].intent
  BY <1>6, <1>7 DEF Chain
<1>9. IInv'
  BY ForwardKeeps DEF JInv
<1>10. Going(b)
  BY <1>2, <1>4, <1>5, <1>8 DEF Going, Free, Answered
<1>11. Linked(b)' /\ Staged(b)'
  <2>1. RequestOf(chain[b].intent)' = RequestOf(chain'[b].intent)
    BY DEF RequestOf, Operation
  <2> QED
    BY <1>1, <1>4, <1>5, <1>8, <2>1 DEF Linked, Staged
<1> QED
  BY <1>1, <1>2, <1>3, <1>5, <1>6, <1>7, <1>9, <1>10, <1>11 DEF Turn, Others

\* A record as the cache may answer it has the same lines, but for their list prices.
LEMMA ListingLines ==
    ASSUME CacheTyped, NEW lines \in Seq(Line), NEW record \in Listings(lines)
    PROVE  record \in Seq(Line) /\ Similar(lines, record)
<1>1. PICK list :
          /\ \A i \in DOMAIN lines : list[i] \in {lines[i].list} \cup listed[lines[i].sku]
          /\ record = [i \in DOMAIN lines |-> [lines[i] EXCEPT !.list = list[i]]]
  BY Zenon DEF Listings
<1>2. PICK n \in Nat : DOMAIN lines = 1 .. n
  OBVIOUS
<1>3. DOMAIN record = 1 .. n
  BY <1>1, <1>2
<1>4. ASSUME NEW i \in 1 .. n
      PROVE  record[i] \in Line /\ record[i].sku = lines[i].sku /\ record[i].stat = lines[i].stat
  <2>1. PICK line \in Line : line = lines[i]
    BY <1>2
  <2>2. line.sku \in Skus /\ line.list \in Nat
    BY DEF Line
  <2>3. list[i] \in {line.list} \cup listed[line.sku]
    BY <1>1, <1>2, <2>1
  <2>4. PICK new \in Nat : new = list[i]
    BY <2>2, <2>3 DEF CacheTyped
  <2>5. record[i] = [line EXCEPT !.list = new]
    BY <1>1, <1>2, <2>1, <2>4
  <2>6. [line EXCEPT !.list = new] \in Line
    BY DEF Line
  <2> QED
    BY <2>1, <2>5, <2>6 DEF Line
<1>5. record \in [1 .. n -> Line]
  <2>1. record = [i \in 1 .. n |-> record[i]]
    BY <1>1, <1>2
  <2> QED
    BY <1>4, <2>1
<1>6. record \in Seq(Line)
  BY <1>5
<1> QED
  BY <1>2, <1>3, <1>4, <1>6 DEF Similar

\* What is sent has lines, and what is listed is a price.
LEMMA DeliverTyped ==
    ASSUME JInv, NEW b \in Tasks, Deliver(b), IInv'
    PROVE  CacheTyped'
<1>1. price' \in [Skus -> Nat] /\ work[b] \in Work /\ CacheTyped
  BY Known DEF JInv, IInv, TypeOK
<1>2. work[b].raw \in Seq(Line)
  BY <1>1 DEF Work
<1>3. sent' \subseteq Seq(Line)
  BY <1>1, <1>2 DEF Deliver, CacheTyped
<1>4. listed' \in [Skus -> SUBSET Nat]
  <2> SUFFICES ASSUME NEW sku \in Skus PROVE listed[sku] \cup {price'[sku]} \in SUBSET Nat
    BY DEF Deliver
  <2> QED
    BY <1>1 DEF CacheTyped
<1> QED
  BY <1>3, <1>4 DEF CacheTyped

(***************************************************************************)
(* Every step of a service is a handler's, whose answer its script learns.  *)
(***************************************************************************)
ServiceStep(b) == Service(b) \/ ServiceFault(b) \/ EventLost(b)

\* The steps of the services, by what the broker makes of them.
LEMMA ServiceKinds ==
    ASSUME NEW b \in Tasks, ServiceStep(b)
    PROVE  HandlerTurn(b) \/ ChainGoes(b) \/ Forward(b) \/ EndTurn(b)
<1>1. CASE Service(b)
  <2>1. Handle(b)
    BY <1>1 DEF Service
  <2>2. CASE Write(b) /\ UNCHANGED brokerVars
    BY <2>2 DEF HandlerTurn, brokerVars
  <2> QED
    BY <2>1, <2>2 DEF Handle, Govern, ChainGoes, EndTurn
<1>2. CASE ServiceFault(b)
  <2>1. CASE BillingFault(b)
    BY <2>1 DEF BillingFault, HandlerTurn, Fault
  <2> QED
    BY <1>2, <2>1 DEF ServiceFault, BrokerFault, ChainGoes, EndTurn
<1>3. CASE EventLost(b)
  BY <1>3 DEF EventLost, HandlerTurn, Write, Serve, Fault
<1> QED
  BY <1>1, <1>2, <1>3 DEF ServiceStep

\* Every step of the services is a turn of one handler, and keeps their invariant.
LEMMA ServiceSteps ==
    ASSUME JInv, NEW b \in Tasks, ServiceStep(b)
    PROVE  Turn(b) /\ Learn(b) /\ IInv' /\ CacheTyped'
<1>1. Turn(b) /\ IInv'
  BY ServiceKinds, HandlerTurnGoes, ChainTurnGoes, ForwardGoes, EndTurnEnds
<1>2. CASE Service(b)
  BY <1>1, <1>2, DeliverTyped DEF Service
<1>3. CASE ServiceFault(b)
  BY <1>1, <1>3, DeliverTyped DEF ServiceFault, JInv, CacheTyped, cacheVars
<1>4. CASE EventLost(b)
  <2>1. ~Answered(b)
    BY <1>4 DEF EventLost, Answered, Emit, AnnounceProduct
  <2>2. script' = [s \in DOMAIN script |-> script[s]]
    BY <1>4 DEF EventLost, JInv, ScriptsTyped
  <2>3. Learn(b)
    BY <2>1, <2>2 DEF Learn
  <2>4. UNCHANGED <<sent, listed>>
    BY <1>4 DEF EventLost, cacheVars
  <2> QED
    BY <1>1, <2>3, <2>4 DEF JInv, CacheTyped
<1> QED
  BY <1>2, <1>3, <1>4 DEF ServiceStep

\* What an answer leaves alone.
Remembers(old, new) ==
    /\ new.pc = old.pc /\ new.client = old.client /\ new.record = old.record
    /\ new.offer = old.offer /\ new.price = old.price /\ new.charges = old.charges
    /\ new.todo = old.todo /\ new.before = old.before

\* A script that waits for the handler has its answer, the others go on as they are.
Told(s, b) ==
    \/ script'[s] = script[s] /\ (script[s].task # b \/ ~Answered(b))
    \/ /\ script[s].task = b /\ Answered(b)
       /\ script'[s].task = NoTask /\ script'[s].reply = Outcome(b)
       /\ script'[s].clean <=> script[s].clean /\ Outcome(b) # "error"
       /\ Remembers(script[s], script'[s])

\* What the scripts learn from a turn.
LEMMA Learned ==
    ASSUME JInv, NEW b \in Tasks, Learn(b), Turn(b)
    PROVE  /\ DOMAIN script' = DOMAIN script /\ script' \in [DOMAIN script -> Script]
           /\ \A s \in DOMAIN script : Told(s, b)
<1>1. DOMAIN script' = DOMAIN script
  BY DEF Learn
<1>2. script \in [DOMAIN script -> Script]
  BY DEF JInv, ScriptsTyped
<1>3. Answered(b) => Outcome(b) \in {"permitted", "denied", "error"}
  BY DEF Turn, Going, Ending
<1>4. ASSUME NEW s \in DOMAIN script PROVE script'[s] \in Script /\ Told(s, b)
  <2>1. PICK old \in Script : old = script[s]
    BY <1>2
  <2>2. CASE old.task = b /\ Answered(b)
    <3>1. PICK reply \in {"permitted", "denied", "error"} : reply = Outcome(b)
      BY <1>3, <2>2
    <3>2. PICK clean \in BOOLEAN : clean <=> old.clean /\ reply # "error"
      <4>1. (old.clean /\ reply # "error") \in BOOLEAN
        OBVIOUS
      <4> QED
        BY <4>1, Zenon
    <3>3. script'[s] = [old EXCEPT !.task = NoTask, !.reply = Outcome(b),
                                   !.clean = @ /\ Outcome(b) # "error"]
      BY <2>1, <2>2 DEF Learn
    <3>4. (old.clean /\ Outcome(b) # "error") = clean
      <4>1. old.clean \in BOOLEAN
        BY DEF Script
      <4> QED
        BY <3>1, <3>2, <4>1
    <3>5. PICK new : new = [old EXCEPT !.task = NoTask, !.reply = reply, !.clean = clean]
      OBVIOUS
    <3>6. script'[s] = new
      BY <3>1, <3>3, <3>4, <3>5
    <3>7. new \in Script
      BY <3>1, <3>2, <3>5 DEF Script, Replies
    <3>8. Remembers(old, new) /\ new.task = NoTask /\ new.reply = reply /\ new.clean = clean
      BY <3>5 DEF Script, Remembers
    <3> QED
      BY <2>1, <2>2, <3>1, <3>2, <3>6, <3>7, <3>8 DEF Told
  <2>3. CASE ~(old.task = b /\ Answered(b))
    <3>1. script'[s] = script[s]
      BY <2>1, <2>3 DEF Learn
    <3> QED
      BY <2>1, <2>3, <3>1 DEF Told
  <2> QED
    BY <2>2, <2>3
<1>5. script' = [s \in DOMAIN script |-> script'[s]]
  BY DEF Learn
<1> QED
  BY <1>1, <1>4, <1>5

\* A handler keeps its owner as long as it goes on.
LEMMA OwnerStays ==
    ASSUME NEW b, \/ chain'[b] = chain[b] /\ work'[b] = work[b]
                  \/ Going(b)
    PROVE  /\ Owner(b)' = Owner(b) /\ (OfPurchase(b)' <=> OfPurchase(b))
           /\ \A journey : Asks(journey, b) => Asks(journey, b)'
<1>1. OfPurchase(b)' <=> OfPurchase(b)
  BY DEF OfPurchase, Going
<1>2. \A journey, intent : Asked(journey, intent) => Asked(journey, intent)'
  BY DEF Asked
<1>3. \A req : DirectUpdate(req)' <=> DirectUpdate(req)
  BY DEF DirectUpdate, Request
<1>4. ASSUME NEW journey, Asks(journey, b) PROVE Asks(journey, b)'
  BY <1>2, <1>3, <1>4 DEF Asks, Going
<1> QED
  BY <1>1, <1>4 DEF Owner

\* A turn of a handler keeps the invariant of the journeys.
LEMMA TurnsKeep ==
    ASSUME JInv, NEW b \in Tasks, Turn(b), Learn(b), IInv', CacheTyped'
    PROVE  JInv'
<1>1. /\ DOMAIN script' = DOMAIN script /\ script' \in [DOMAIN script -> Script]
      /\ \A s \in DOMAIN script : Told(s, b)
  BY Learned
<1>2. /\ \A d \in Tasks : TaskFits(d)
      /\ \A s \in DOMAIN script : ScriptFits(s)
      /\ DOMAIN script \in Scenarios
  BY DEF JInv, ScriptsTyped
<1>3. ScriptsTyped'
  <2>1. Script' = Script
    BY DEF Script, Offer
  <2> QED
    BY <1>1, <1>2, <2>1 DEF ScriptsTyped
<1>4. faults \in Nat /\ faults' \in Nat /\ (faults' = 0 => faults = 0)
  BY Known DEF Turn, IInv, TypeOK
<1>5. \A d \in Tasks \ {b} : chain'[d] = chain[d] /\ work'[d] = work[d]
  BY DEF Turn, Others
<1>6. \A s \in DOMAIN script : script'[s].clean => script[s].clean
  BY <1>1 DEF Told
<1>7. ASSUME NEW d \in Tasks \ {b} PROVE TaskFits(d)'
  <2>1. chain'[d] = chain[d] /\ work'[d] = work[d]
    BY <1>5
  <2>2. Owner(d)' = Owner(d) /\ (OfPurchase(d)' <=> OfPurchase(d)) /\ (Free(d)' <=> Free(d))
    BY <2>1, OwnerStays DEF Free
  <2>3. Linked(d)' /\ Staged(d)' /\ BuyersOnly(d)'
    <3>1. Linked(d) /\ Staged(d) /\ BuyersOnly(d)
      BY <1>2 DEF TaskFits
    <3>2. Linked(d)'
      BY <2>1, <3>1 DEF Linked, RequestOf, Operation
    <3>3. Staged(d)'
      BY <2>1, <3>1 DEF Staged
    <3>4. BuyersOnly(d)'
      BY <2>1, <2>2, <3>1 DEF BuyersOnly
    <3> QED
      BY <3>2, <3>3, <3>4
  <2>4. Accounted(d)'
    <3> SUFFICES ASSUME ~Free(d)
                 PROVE  /\ Owner(d) \in DOMAIN script
                        /\ script'[Owner(d)].clean \/ faults' = 0 => script'[Owner(d)].task = d
      BY <1>1, <2>2 DEF Accounted
    <3>1. /\ Owner(d) \in DOMAIN script
          /\ script[Owner(d)].clean \/ faults = 0 => script[Owner(d)].task = d
      BY <1>2 DEF TaskFits, Accounted
    <3>2. script[Owner(d)].task = d => script'[Owner(d)] = script[Owner(d)]
      BY <1>1, <3>1 DEF Told
    <3> QED
      BY <1>4, <1>6, <3>1, <3>2
  <2> QED
    BY <2>3, <2>4 DEF TaskFits
<1>8. TaskFits(b)'
  <2>1. Linked(b)' /\ Staged(b)'
    BY DEF Turn
  <2>2. CASE Going(b)
    <3>1. Owner(b)' = Owner(b) /\ (OfPurchase(b)' <=> OfPurchase(b)) /\ ~Free(b)
      BY <2>2, OwnerStays DEF Going
    <3>2. BuyersOnly(b)'
      <4>1. BuyersOnly(b)
        BY <1>2 DEF TaskFits
      <4>2. CASE chain[b].pc = "idle"
        <5>1. chain'[b].pc = "idle" /\ work[b].pc # "idle" /\ work'[b].req = work[b].req
          BY <2>2, <4>2 DEF Going, Free
        <5> QED
          BY <3>1, <4>1, <5>1 DEF BuyersOnly
      <4>3. CASE chain[b].pc # "idle"
        <5>1. chain'[b].pc # "idle" /\ chain'[b].intent = chain[b].intent
          BY <2>2, <4>3 DEF Going
        <5>2. work'[b].pc # "idle" => chain'[b].pc = "wait"
          BY <5>1 DEF IInv, ChainFits, HandlerFits
        <5>3. work'[b].pc # "idle" => work'[b].req.cust = chain'[b].intent.cust
          BY <2>1, <5>2 DEF Linked, RequestOf, NoRequest
        <5> QED
          BY <3>1, <4>1, <4>3, <5>1, <5>3 DEF BuyersOnly
      <4> QED
        BY <4>2, <4>3
    <3>3. /\ Owner(b) \in DOMAIN script
          /\ script[Owner(b)].clean \/ faults = 0 => script[Owner(b)].task = b
      BY <1>2, <3>1 DEF TaskFits, Accounted
    <3>4. script[Owner(b)].task = b => script'[Owner(b)] = script[Owner(b)]
      BY <1>1, <2>2, <3>3 DEF Told, Going
    <3>5. Accounted(b)'
      BY <1>1, <1>4, <1>6, <3>1, <3>3, <3>4 DEF Accounted
    <3> QED
      BY <2>1, <3>2, <3>5 DEF TaskFits
  <2>3. CASE Ending(b) /\ Free(b)'
    BY <2>1, <2>3 DEF TaskFits, BuyersOnly, Accounted
  <2>4. CASE Ending(b) /\ ~Free(b)'
    <3>1. /\ chain[b].pc = "wait" /\ chain'[b].pc = "idle" /\ work'[b] = work[b]
          /\ faults' # 0 /\ Outcome(b) = "error" /\ Answered(b) /\ ~Free(b)
      BY <2>4 DEF Ending
    <3>2. work[b].req = RequestOf(chain[b].intent) /\ work[b].pc # "idle"
      BY <3>1, Known DEF Linked
    <3>3. Buys(RequestOf(chain[b].intent)) <=> chain[b].intent.intent \in Buying
      BY DEF Buys, RequestOf, NoRequest, Operation, Buying, Kept
    <3>4. Owner(b)' = Owner(b) /\ (OfPurchase(b)' <=> OfPurchase(b))
      BY <3>1, <3>2, <3>3 DEF Owner, OfPurchase, Buys
    <3>5. BuyersOnly(b)'
      BY <1>2, <3>1, <3>2, <3>4 DEF TaskFits, BuyersOnly
    <3>6. /\ Owner(b) \in DOMAIN script
          /\ script[Owner(b)].clean => script[Owner(b)].task = b
      BY <1>2, <3>1 DEF TaskFits, Accounted
    <3>7. ~script'[Owner(b)].clean
      BY <1>1, <3>1, <3>6 DEF Told
    <3> QED
      BY <1>1, <2>1, <3>1, <3>4, <3>5, <3>6, <3>7 DEF TaskFits, Accounted
  <2> QED
    BY <2>2, <2>3, <2>4 DEF Turn
<1>9. ASSUME NEW s \in DOMAIN script PROVE ScriptFits(s)'
  <2>1. PhaseFits(s) /\ Awaited(s) /\ Told(s, b)
    BY <1>1, <1>2 DEF ScriptFits
  <2>2. PhaseFits(s)'
    <3>1. CASE script'[s] = script[s]
      BY <2>1, <3>1 DEF PhaseFits, Offered
    <3>2. CASE script'[s] # script[s]
      <4>1. /\ Remembers(script[s], script'[s]) /\ script'[s].reply = Outcome(b)
            /\ script'[s].clean <=> script[s].clean /\ Outcome(b) # "error"
            /\ Outcome(b) \in {"permitted", "denied", "error"}
        BY <2>1, <3>2 DEF Told, Turn, Going, Ending
      <4> QED
        BY <2>1, <4>1 DEF PhaseFits, Remembers, Offered
    <3> QED
      BY <3>1, <3>2
  <2>3. Awaited(s)'
    <3> SUFFICES ASSUME script'[s].task # NoTask PROVE Awaited(s)'
      BY DEF Awaited
    <3>1. script'[s] = script[s] /\ (script[s].task # b \/ ~Answered(b))
      BY <2>1 DEF Told
    <3>2. PICK journey, d : journey = script[s] /\ d = script[s].task
      OBVIOUS
    <3>3. /\ d \in Tasks /\ ~Free(d) /\ Owner(d) = s
          /\ journey.pc \in Waiting /\ journey.reply = "none" /\ Asks(journey, d)
      BY <2>1, <3>1, <3>2 DEF Awaited
    <3>4. \/ chain'[d] = chain[d] /\ work'[d] = work[d]
          \/ Going(d)
      BY <1>5, <3>1, <3>2, <3>3 DEF Turn, Ending
    <3>5. Owner(d)' = s /\ ~Free(d)' /\ Asks(journey, d)'
      BY <3>3, <3>4, OwnerStays DEF Going, Free
    <3> QED
      BY <3>1, <3>2, <3>3, <3>5 DEF Awaited
  <2> QED
    BY <2>2, <2>3 DEF ScriptFits
<1>10. \A d \in Tasks : TaskFits(d)'
  BY <1>7, <1>8
<1> QED
  BY <1>1, <1>3, <1>9, <1>10 DEF JInv

-----------------------------------------------------------------------------
(* A step of a script.                                                        *)

\* Another fault changes nothing the services know.
LEMMA FaultsKeep ==
    ASSUME IInv, UNCHANGED <<billingVars, chain, audit, issued>>, faults' \in Nat
    PROVE  IInv'
<1>1. TypeOK' /\ OneLinePerSku'
  BY DEF IInv, TypeOK, OneLinePerSku, Ids, billingVars
<1>2. WorkFits'
  BY DEF IInv, WorkFits, RequestFits, ProgressFits, Ids, Allowed, billingVars
<1>3. ChainFits' /\ OneChainPerId'
  BY DEF IInv, ChainFits, IntentFits, HandlerFits, OneChainPerId, Ids, Permitted, billingVars
<1>4. Unforwarded' /\ AuditFits' /\ OnlyPermittedWrites'
  BY DEF IInv, Unforwarded, AuditFits, EntryFits, OnlyPermittedWrites, Allowed, billingVars
<1> QED
  BY <1>1, <1>2, <1>3, <1>4 DEF IInv

OnlyScript(s) == /\ script' = [script EXCEPT ![s] = script'[s]]
                 /\ script'[s] \in Script /\ PhaseFits(s)'

\* A script that waits for nothing, or that lets go of what it waits for.
LocalMove(s) ==
    /\ OnlyScript(s) /\ UNCHANGED <<billingVars, chain, audit, issued, cacheVars>>
    /\ faults' \in {faults, faults + 1}
    /\ script'[s].task = NoTask
    /\ script'[s].clean => script[s].clean
    /\ script'[s].clean \/ faults' = 0 => script[s].task = NoTask

\* A move of one script leaves the other one alone.
LEMMA OtherScripts ==
    ASSUME JInv, NEW s \in DOMAIN script, OnlyScript(s)
    PROVE  /\ DOMAIN script' = DOMAIN script /\ ScriptsTyped'
           /\ \A r \in DOMAIN script : r # s => script'[r] = script[r]
           /\ \A r \in DOMAIN script : PhaseFits(r)'
<1>1. script \in [DOMAIN script -> Script] /\ DOMAIN script \in Scenarios
  BY DEF JInv, ScriptsTyped
<1>2. PICK new \in Script : new = script'[s]
  BY DEF OnlyScript
<1>3. script' = [script EXCEPT ![s] = new]
  BY <1>2 DEF OnlyScript
<1>4. Script' = Script
  BY DEF Script, Offer
<1>5. /\ DOMAIN script' = DOMAIN script /\ ScriptsTyped'
      /\ \A r \in DOMAIN script : r # s => script'[r] = script[r]
  BY <1>1, <1>3, <1>4 DEF ScriptsTyped
<1>6. ASSUME NEW r \in DOMAIN script, r # s PROVE PhaseFits(r)'
  <2>1. PhaseFits(r) /\ script'[r] = script[r]
    BY <1>5, <1>6 DEF JInv, ScriptFits
  <2> QED
    BY <2>1 DEF PhaseFits, Offered
<1> QED
  BY <1>5, <1>6 DEF OnlyScript

\* A move of a script that calls nobody keeps the invariant.
LEMMA LocalKeeps ==
    ASSUME JInv, NEW s \in DOMAIN script, LocalMove(s)
    PROVE  JInv'
<1>1. /\ DOMAIN script' = DOMAIN script /\ ScriptsTyped'
      /\ \A r \in DOMAIN script : r # s => script'[r] = script[r]
      /\ \A r \in DOMAIN script : PhaseFits(r)'
  BY OtherScripts DEF LocalMove
<1>2. UNCHANGED <<chain, work, sent, listed>>
  BY DEF LocalMove, billingVars, cacheVars
<1>3. faults \in Nat /\ faults' \in Nat /\ (faults' = 0 => faults = 0)
  BY Known DEF LocalMove, JInv, IInv, TypeOK
<1>4. IInv' /\ CacheTyped'
  BY <1>2, <1>3, FaultsKeep DEF JInv, LocalMove, CacheTyped
<1>5. ASSUME NEW d \in Tasks PROVE TaskFits(d)'
  <2>1. TaskFits(d) /\ (\A r \in DOMAIN script : ScriptFits(r))
    BY DEF JInv
  <2>2. Linked(d)' /\ Staged(d)' /\ BuyersOnly(d)'
    BY <1>2, <2>1 DEF TaskFits, Linked, Staged, BuyersOnly, RequestOf, Operation, Free, OfPurchase
  <2>3. Owner(d)' = Owner(d) /\ (Free(d)' <=> Free(d))
    BY <1>2, OwnerStays DEF Free
  <2>4. ASSUME ~Free(d) PROVE /\ Owner(d) \in DOMAIN script
                              /\ script'[Owner(d)].clean \/ faults' = 0 => script'[Owner(d)].task = d
    <3>1. /\ Owner(d) \in DOMAIN script
          /\ script[Owner(d)].clean \/ faults = 0 => script[Owner(d)].task = d
      BY <2>1, <2>4 DEF TaskFits, Accounted
    <3>2. d # NoTask
      BY JourneyParameters
    <3>3. CASE Owner(d) = s
      BY <1>3, <3>1, <3>2, <3>3 DEF LocalMove
    <3> QED
      BY <1>1, <1>3, <3>1, <3>3
  <2>5. Accounted(d)'
    BY <1>1, <2>3, <2>4 DEF Accounted
  <2> QED
    BY <2>2, <2>5 DEF TaskFits
<1>6. ASSUME NEW r \in DOMAIN script PROVE Awaited(r)'
  <2>1. CASE r = s
    BY <2>1 DEF LocalMove, Awaited
  <2>2. CASE r # s
    <3>1. script'[r] = script[r] /\ Awaited(r)
      BY <1>1, <2>2 DEF JInv, ScriptFits
    <3> SUFFICES ASSUME script[r].task # NoTask PROVE Awaited(r)'
      BY <3>1 DEF Awaited
    <3>2. PICK journey, d : journey = script[r] /\ d = script[r].task
      OBVIOUS
    <3>3. /\ d \in Tasks /\ ~Free(d) /\ Owner(d) = r
          /\ journey.pc \in Waiting /\ journey.reply = "none" /\ Asks(journey, d)
      BY <3>1, <3>2 DEF Awaited
    <3>4. Owner(d)' = r /\ ~Free(d)' /\ Asks(journey, d)'
      BY <1>2, <3>3, OwnerStays DEF Free
    <3> QED
      BY <3>1, <3>2, <3>3, <3>4 DEF Awaited
  <2> QED
    BY <2>1, <2>2
<1> QED
  BY <1>1, <1>4, <1>5, <1>6 DEF JInv, ScriptFits

\* A script that waits for a new handler.
CallMove(s, b) ==
    /\ OnlyScript(s) /\ UNCHANGED <<cacheVars, faults>> /\ IInv'
    /\ Free(b) /\ script[s].task = NoTask
    /\ Others(b) /\ ~Free(b)' /\ Linked(b)' /\ Staged(b)' /\ BuyersOnly(b)' /\ Owner(b)' = s
    /\ script'[s].task = b /\ script'[s].reply = "none" /\ script'[s].pc \in Waiting
    /\ script'[s].clean = script[s].clean
    /\ Asks(script[s], b)'

\* A call of a script keeps the invariant.
LEMMA CallKeeps ==
    ASSUME JInv, NEW s \in DOMAIN script, NEW b \in Tasks, CallMove(s, b)
    PROVE  JInv'
<1>1. /\ DOMAIN script' = DOMAIN script /\ ScriptsTyped'
      /\ \A r \in DOMAIN script : r # s => script'[r] = script[r]
      /\ \A r \in DOMAIN script : PhaseFits(r)'
  BY OtherScripts DEF CallMove
<1>2. IInv' /\ CacheTyped'
  BY DEF CallMove, JInv, CacheTyped, cacheVars
<1>3. \A d \in Tasks \ {b} : chain'[d] = chain[d] /\ work'[d] = work[d]
  BY DEF CallMove, Others
<1>4. ASSUME NEW d \in Tasks PROVE TaskFits(d)'
  <2>1. CASE d = b
    <3>1. Accounted(b)'
      BY <1>1 DEF CallMove, Accounted
    <3> QED
      BY <2>1, <3>1 DEF CallMove, TaskFits
  <2>2. CASE d # b
    <3>1. TaskFits(d) /\ chain'[d] = chain[d] /\ work'[d] = work[d]
      BY <1>3, <2>2 DEF JInv
    <3>2. Owner(d)' = Owner(d) /\ (OfPurchase(d)' <=> OfPurchase(d)) /\ (Free(d)' <=> Free(d))
      BY <3>1, OwnerStays DEF Free
    <3>3. Linked(d)'
      BY <3>1 DEF TaskFits, Linked, RequestOf, Operation
    <3>4. Staged(d)' /\ BuyersOnly(d)'
      BY <3>1, <3>2 DEF TaskFits, Staged, BuyersOnly
    <3>5. ASSUME ~Free(d) PROVE /\ Owner(d) \in DOMAIN script
                                /\ script'[Owner(d)].clean \/ faults' = 0 => script'[Owner(d)].task = d
      <4>1. /\ Owner(d) \in DOMAIN script
            /\ script[Owner(d)].clean \/ faults = 0 => script[Owner(d)].task = d
        BY <3>1, <3>5 DEF TaskFits, Accounted
      <4>2. d # NoTask /\ UNCHANGED faults
        BY JourneyParameters DEF CallMove
      <4>3. CASE Owner(d) = s
        BY <4>1, <4>2, <4>3 DEF CallMove
      <4> QED
        BY <1>1, <4>1, <4>2, <4>3
    <3>6. Accounted(d)'
      BY <1>1, <3>2, <3>5 DEF Accounted
    <3> QED
      BY <3>3, <3>4, <3>6 DEF TaskFits
  <2> QED
    BY <2>1, <2>2
<1>5. ASSUME NEW r \in DOMAIN script PROVE Awaited(r)'
  <2>1. CASE r = s
    BY <2>1 DEF CallMove, Awaited
  <2>2. CASE r # s
    <3>1. script'[r] = script[r] /\ Awaited(r)
      BY <1>1, <2>2 DEF JInv, ScriptFits
    <3> SUFFICES ASSUME script[r].task # NoTask PROVE Awaited(r)'
      BY <3>1 DEF Awaited
    <3>2. PICK journey, d : journey = script[r] /\ d = script[r].task
      OBVIOUS
    <3>3. /\ d \in Tasks /\ ~Free(d) /\ Owner(d) = r
          /\ journey.pc \in Waiting /\ journey.reply = "none" /\ Asks(journey, d)
      BY <3>1, <3>2 DEF Awaited
    <3>4. chain'[d] = chain[d] /\ work'[d] = work[d]
      BY <1>3, <3>3 DEF CallMove
    <3>5. Owner(d)' = r /\ ~Free(d)' /\ Asks(journey, d)'
      BY <3>3, <3>4, OwnerStays DEF Free
    <3> QED
      BY <3>1, <3>2, <3>3, <3>5 DEF Awaited
  <2> QED
    BY <2>1, <2>2
<1> QED
  BY <1>1, <1>2, <1>4, <1>5 DEF JInv, ScriptFits

\* A new call gets a handler that is free.
LEMMA FreeTask ==
    ASSUME \E b \in Tasks : Free(b)
    PROVE  NewTask \in Tasks /\ Free(NewTask)
  BY DEF NewTask

\* A script calls the broker.
LEMMA Calls ==
    ASSUME JInv, NEW s \in DOMAIN script, script[s].task = NoTask, PhaseFits(s)',
           NEW label \in Waiting, NEW client \in Clients, NEW kind \in Intents,
           NEW c \in Customers \cup {Nobody}, NEW sku \in Skus, NEW term \in Nat, NEW list \in Nat,
           Call(s, label, client, kind, c, sku, term, list),
           IF s = "purchase" THEN kind \in Buying /\ c = Buyer ELSE kind \notin Buying,
           s \in {"purchase", "pricing"},
           \A intent : Carries(intent, client, kind, c, sku, term, list) => Asked(script'[s], intent)
    PROVE  /\ JInv' /\ NewTask \in Tasks /\ Free(NewTask) /\ Others(NewTask)
           /\ chain'[NewTask].pc = "permission" /\ UNCHANGED <<billingVars, cacheVars, faults>>
           /\ script' = [script EXCEPT ![s] = script'[s]]
           /\ script'[s].pc = label /\ script'[s].task = NewTask /\ script'[s].reply = "none"
           /\ script'[s].clean = script[s].clean
<1>1. PICK b \in Tasks : b = NewTask /\ Free(b)
  BY FreeTask DEF Call
<1>2. /\ SubmitIntent(b, client, kind, c, sku, term, list) /\ Wait(s, label, b)
      /\ UNCHANGED cacheVars
  BY <1>1 DEF Call
<1>3. PICK intent : intent = [id |-> Len(issued) + 1, caller |-> client, intent |-> kind, cust |-> c,
                              sku |-> sku, term |-> term, list |-> list]
  OBVIOUS
<1>4. Carries(intent, client, kind, c, sku, term, list)
  BY <1>3 DEF Carries
<1>5. PICK new : new = [NoChain EXCEPT !.pc = "permission", !.intent = intent]
  OBVIOUS
<1>6. new.pc = "permission" /\ new.intent = intent
  BY <1>5 DEF NoChain
<1>7. /\ chain' = [chain EXCEPT ![b] = new] /\ UNCHANGED <<billingVars, audit, faults>>
  BY <1>2, <1>3, <1>5 DEF SubmitIntent
<1>8. chain'[b] = new /\ Others(b) /\ UNCHANGED <<work, faults>> /\ work[b].pc = "idle"
  BY <1>1, <1>7, Known DEF Others, billingVars, Free
<1>9. PICK old \in Script : old = script[s]
  BY DEF JInv, ScriptsTyped
<1>10. PICK journey : journey = [old EXCEPT !.pc = label, !.task = b, !.reply = "none"]
  OBVIOUS
<1>11. label \in PurchaseLabels \cup PricingLabels
  BY DEF Waiting, PurchaseLabels, PricingLabels
<1>12. /\ journey \in Script /\ journey.pc = label /\ journey.task = b /\ journey.reply = "none"
       /\ journey.clean = old.clean
  BY <1>10, <1>11 DEF Script, Replies
<1>13. script' = [script EXCEPT ![s] = journey] /\ script'[s] = journey
  BY <1>2, <1>9, <1>10 DEF Wait, JInv, ScriptsTyped
<1>14. IInv'
  <2>1. kind \in {"add_subscription", "cancel_subscription"} => c \in Customers
    BY JourneyParameters DEF Buying
  <2> QED
    BY <1>2, <2>1, SubmitIntentKeeps DEF JInv
<1>15. Owner(b)' = s /\ BuyersOnly(b)' /\ Asks(script[s], b)' /\ ~Free(b)'
  <2>1. chain'[b].pc # "idle" /\ chain'[b].intent = intent /\ work'[b].pc = "idle"
    BY <1>6, <1>8
  <2>2. OfPurchase(b)' <=> s = "purchase"
    BY <1>4, <2>1 DEF OfPurchase, Carries
  <2>3. Asked(script'[s], intent)
    BY <1>4
  <2> QED
    BY <1>4, <2>1, <2>2, <2>3 DEF Owner, BuyersOnly, Asks, Free, Carries
<1>16. Linked(b)' /\ Staged(b)'
  BY <1>6, <1>8 DEF Linked, Staged
<1>17. CallMove(s, b)
  BY <1>1, <1>2, <1>8, <1>9, <1>12, <1>13, <1>14, <1>15, <1>16 DEF CallMove, OnlyScript
<1>18. JInv'
  BY <1>17, CallKeeps
<1> QED
  BY <1>1, <1>2, <1>6, <1>7, <1>8, <1>9, <1>12, <1>13, <1>18

\* A script goes on by itself.
LEMMA Locals ==
    ASSUME JInv, NEW s \in DOMAIN script, script[s].task = NoTask,
           NEW new \in Script, script' = [script EXCEPT ![s] = new],
           UNCHANGED <<billingVars, chain, audit, issued, cacheVars>>, faults' \in {faults, faults + 1},
           new.task = NoTask, new.clean = script[s].clean, new.reply = script[s].reply,
           new.pc \in IF s = "purchase" THEN PurchaseLabels ELSE PricingLabels,
           new.pc # "start" => new.client \in ScriptClients,
           new.pc \in {"purchase", "purchasing", "cancelling"} => Offered(new.record, new.offer)
    PROVE  JInv' /\ script'[s] = new
<1>1. script'[s] = new
  BY DEF JInv, ScriptsTyped
<1>2. PhaseFits(s)
  BY DEF JInv, ScriptFits
<1>3. new.reply \in {"error", "timeout"} => ~new.clean
  BY <1>2 DEF PhaseFits
<1>4. PhaseFits(s)'
  BY <1>1, <1>3 DEF PhaseFits, Offered
<1>5. LocalMove(s)
  BY <1>1, <1>4 DEF LocalMove, OnlyScript
<1> QED
  BY <1>1, <1>5, LocalKeeps

\* What is known of a script between two of its steps.
LEMMA KnownScript ==
    ASSUME JInv, NEW s \in DOMAIN script
    PROVE  /\ s \in {"purchase", "pricing"} /\ script[s] \in Script /\ PhaseFits(s)
           /\ book \in [Customers -> Seq(Line)] /\ price \in [Skus -> Nat] /\ CacheTyped
<1>1. s \in {"purchase", "pricing"} /\ script[s] \in Script /\ PhaseFits(s)
  BY JourneyParameters DEF JInv, ScriptsTyped, ScriptFits
<1> QED
  BY <1>1 DEF JInv, IInv, TypeOK

-----------------------------------------------------------------------------
(* The steps of the scripts, one after the other.                             *)

\* The last index of some lines.
LEMMA LastOf ==
    ASSUME NEW n \in Nat, NEW T, T \subseteq 1 .. n, T # {}
    PROVE  Max(T) \in T /\ \A m \in T : m <= Max(T)
<1> DEFINE U == {n - i : i \in T}
<1>1. U \subseteq Nat /\ U # {}
  <2>1. \A i \in T : i \in Nat /\ n - i \in Nat
    <3> SUFFICES ASSUME NEW i \in T PROVE i \in Nat /\ n - i \in Nat
      OBVIOUS
    <3>1. i \in 1 .. n
      OBVIOUS
    <3> QED
      BY <3>1
  <2> QED
    BY <2>1
<1>2. PICK u \in U : \A v \in U : u <= v
  BY <1>1, Least
<1>3. PICK i \in T : u = n - i
  BY <1>2
<1>4. \A m \in T : i >= m
  <2> SUFFICES ASSUME NEW m \in T PROVE i >= m
    OBVIOUS
  <2>1. n - m \in U
    OBVIOUS
  <2>2. n - i <= n - m
    BY <1>2, <1>3, <2>1
  <2> QED
    BY <2>2
<1>5. Max(T) \in T /\ \A m \in T : Max(T) >= m
  BY <1>3, <1>4 DEF Max
<1> QED
  BY <1>5

\* Faults are counted.
LEMMA JInvFaults == JInv => faults \in Nat
  BY DEF JInv, IInv, TypeOK

\* A script that reads or gives up changes nothing of the services.
LEMMA ByItself ==
    ASSUME Local
    PROVE  /\ UNCHANGED <<billingVars, chain, audit, issued, cacheVars>>
           /\ faults' \in {faults, faults + 1} /\ UNCHANGED faults
  BY DEF Local, vars, brokerVars

\* The purchase journey starts.
LEMMA StartKeeps ==
    ASSUME JInv, NEW s, NEW label, Start(s, label),
           <<s, label>> \in {<<"purchase", "browse">>, <<"pricing", "snapshot">>}
    PROVE  JInv'
<1>2. PICK client \in ScriptClients :
          script' = [script EXCEPT ![s].pc = label, ![s].client = client, ![s].before = book]
  BY DEF Start
<1>3. PICK old \in Script : s \in DOMAIN script /\ old = script[s] /\ old.pc = "start"
                            /\ old.task = NoTask
  BY KnownScript DEF Start, At
<1>4. PICK new : new = [old EXCEPT !.pc = label, !.client = client, !.before = book]
  OBVIOUS
<1>5. /\ new \in Script /\ new.pc = label /\ new.client = client /\ new.task = NoTask
      /\ new.clean = old.clean /\ new.reply = old.reply
  <2>1. client \in Clients /\ book \in [Customers -> Seq(Line)]
    BY <1>3, JourneyParameters, KnownScript
  <2> QED
    BY <1>3, <1>4, <2>1 DEF Script, PurchaseLabels, PricingLabels
<1>6. script' = [script EXCEPT ![s] = new]
  BY <1>2, <1>3, <1>4 DEF JInv, ScriptsTyped
<1>7. Local
  BY DEF Start
<1> QED
  BY <1>3, <1>5, <1>6, <1>7, ByItself, Locals DEF PurchaseLabels, PricingLabels

\* The purchase journey reads the record.
LEMMA ReadRecordKeeps ==
    ASSUME JInv, ReadRecord
    PROVE  JInv'
<1>1. PICK s : s = "purchase"
  OBVIOUS
<1>2. PICK old \in Script : s \in DOMAIN script /\ old = script[s] /\ old.pc = "browse"
                            /\ old.task = NoTask
  BY <1>1, KnownScript DEF ReadRecord, At
<1>3. PICK record \in Seq(Line) :
          script' = [script EXCEPT !["purchase"].pc = "offers", !["purchase"].record = record]
  <2>1. PICK lines \in sent : \E record \in Listings(lines) :
            script' = [script EXCEPT !["purchase"].pc = "offers", !["purchase"].record = record]
    BY DEF ReadRecord
  <2>2. lines \in Seq(Line) /\ CacheTyped
    BY <1>2, KnownScript DEF CacheTyped
  <2> QED
    BY <2>1, <2>2, ListingLines
<1>4. PICK new : new = [old EXCEPT !.pc = "offers", !.record = record]
  OBVIOUS
<1>5. /\ new \in Script /\ new.pc = "offers" /\ new.client = old.client /\ new.task = NoTask
      /\ new.clean = old.clean /\ new.reply = old.reply
  BY <1>2, <1>3, <1>4 DEF Script, PurchaseLabels
<1>6. script' = [script EXCEPT ![s] = new]
  BY <1>1, <1>2, <1>3, <1>4 DEF JInv, ScriptsTyped
<1>7. old.client \in ScriptClients
  BY <1>2, KnownScript DEF PhaseFits
<1>8. Local
  BY DEF ReadRecord
<1> QED
  BY <1>1, <1>2, <1>5, <1>6, <1>7, <1>8, ByItself, Locals DEF PurchaseLabels

\* The purchase journey reads the offers, and chooses one.
LEMMA BrowseKeeps ==
    ASSUME JInv, Browse
    PROVE  JInv'
<1>1. PICK s : s = "purchase"
  OBVIOUS
<1>2. PICK old \in Script : s \in DOMAIN script /\ old = script[s] /\ old.pc = "offers"
                            /\ old.task = NoTask
  BY <1>1, KnownScript DEF Browse, At
<1>3. PICK offers : offers = CompatibleOffers(Graph, price, old.record)
  OBVIOUS
<1>4. old.client \in ScriptClients /\ old.record \in Seq(Line)
  BY <1>2, KnownScript DEF PhaseFits, Script
<1>5. PICK offer : offer = IF offers = <<>> THEN old.offer ELSE Choice(offers[1])
  OBVIOUS
<1>6. offer \in Offer /\ (offers # <<>> => Offered(old.record, offer))
  <2>1. price \in [Skus -> Nat]
    BY <1>2, KnownScript
  <2> QED
    BY <1>2, <1>3, <1>4, <1>5, <2>1, OffersMade DEF Script
<1>7. PICK label : label = IF offers = <<>> THEN "teardown" ELSE "purchase"
  OBVIOUS
<1>8. PICK new : new = [old EXCEPT !.pc = label, !.offer = offer]
  OBVIOUS
<1>9. /\ new \in Script /\ new.pc = label /\ new.client = old.client /\ new.task = NoTask
      /\ new.clean = old.clean /\ new.reply = old.reply /\ new.record = old.record
      /\ new.offer = offer
  BY <1>2, <1>6, <1>7, <1>8 DEF Script, PurchaseLabels
<1>10. script' = [script EXCEPT ![s] = new]
  BY <1>1, <1>2, <1>3, <1>5, <1>7, <1>8 DEF JInv, ScriptsTyped, Browse
<1>11. Local
  BY DEF Browse
<1> QED
  BY <1>1, <1>2, <1>4, <1>6, <1>7, <1>9, <1>10, <1>11, ByItself, Locals DEF PurchaseLabels

\* A step that only names the script's next one.
LEMMA AdvanceKeeps ==
    ASSUME JInv, NEW s \in DOMAIN script, script[s].task = NoTask, script[s].pc # "start",
           NEW label \in {"teardown", "update", "done"},
           s = "purchase" => label # "update",
           Advance(s, label), UNCHANGED <<billingVars, chain, audit, issued, cacheVars>>,
           faults' \in {faults, faults + 1}
    PROVE  JInv'
<1>1. PICK old \in Script : old = script[s] /\ old.client \in ScriptClients
  BY KnownScript DEF PhaseFits
<1>2. PICK new : new = [old EXCEPT !.pc = label]
  OBVIOUS
<1>3. /\ new \in Script /\ new.pc = label /\ new.client = old.client /\ new.task = NoTask
      /\ new.clean = old.clean /\ new.reply = old.reply
  BY <1>1, <1>2 DEF Script, PurchaseLabels, PricingLabels
<1>4. script' = [script EXCEPT ![s] = new]
  BY <1>1, <1>2 DEF JInv, ScriptsTyped, Advance
<1>5. label \in IF s = "purchase" THEN PurchaseLabels ELSE PricingLabels
  BY DEF PurchaseLabels, PricingLabels
<1> QED
  BY <1>1, <1>3, <1>4, <1>5, Locals

\* A journey ends.
LEMMA EndKeeps ==
    ASSUME JInv, PurchaseDone \/ Snapshotted \/ PricingDone
    PROVE  JInv'
<1>1. CASE PurchaseDone
  BY <1>1, ByItself, AdvanceKeeps DEF PurchaseDone, Replied, At
<1>2. CASE Snapshotted
  BY <1>2, ByItself, AdvanceKeeps DEF Snapshotted, At
<1>3. CASE PricingDone
  BY <1>3, ByItself, AdvanceKeeps DEF PricingDone, At
<1> QED
  BY <1>1, <1>2, <1>3

\* A read fails.
LEMMA ReadFailsKeeps ==
    ASSUME JInv, NEW s \in DOMAIN script, ReadFails(s)
    PROVE  JInv'
<1>1. script[s].task = NoTask /\ script[s].pc # "start"
  BY DEF ReadFails, Replied, At
<1>2. faults' \in {faults, faults + 1}
  BY DEF ReadFails, Fault
<1> QED
  BY <1>1, <1>2, AdvanceKeeps DEF ReadFails

\* The pricing journey notes the list price.
LEMMA SnapshotPriceKeeps ==
    ASSUME JInv, SnapshotPrice
    PROVE  JInv'
<1>1. PICK s : s = "pricing"
  OBVIOUS
<1>2. PICK old \in Script : s \in DOMAIN script /\ old = script[s] /\ old.pc = "snapshot"
                            /\ old.task = NoTask
  BY <1>1, KnownScript DEF SnapshotPrice, At
<1>3. PICK list \in Nat : list = price[PricedSku]
  BY <1>2, KnownScript, JourneyParameters
<1>4. PICK new : new = [old EXCEPT !.pc = "charges", !.price = list, !.todo = Customers]
  OBVIOUS
<1>5. /\ new \in Script /\ new.pc = "charges" /\ new.client = old.client /\ new.task = NoTask
      /\ new.clean = old.clean /\ new.reply = old.reply
  BY <1>2, <1>3, <1>4 DEF Script, PricingLabels
<1>6. script' = [script EXCEPT ![s] = new]
  BY <1>1, <1>2, <1>3, <1>4 DEF JInv, ScriptsTyped, SnapshotPrice
<1>7. old.client \in ScriptClients
  BY <1>2, KnownScript DEF PhaseFits
<1>8. Local
  BY DEF SnapshotPrice
<1> QED
  BY <1>1, <1>2, <1>5, <1>6, <1>7, <1>8, ByItself, Locals DEF PricingLabels

\* The pricing journey notes the charges.
LEMMA SnapshotChargeKeeps ==
    ASSUME JInv, SnapshotCharge
    PROVE  JInv'
<1>1. PICK s : s = "pricing"
  OBVIOUS
<1>2. PICK old \in Script : s \in DOMAIN script /\ old = script[s] /\ old.pc = "charges"
                            /\ old.task = NoTask
  BY <1>1, KnownScript DEF SnapshotCharge, At
<1>3. PICK c : c = CHOOSE d \in old.todo : TRUE
  OBVIOUS
<1>4. old.todo # {} /\ old.todo \subseteq Customers /\ old.charges \in [Customers -> Nat \cup {KeptCharge}]
  BY <1>1, <1>2 DEF SnapshotCharge, Script
<1>5. c \in old.todo /\ c \in Customers
  BY <1>3, <1>4
<1>6. PICK lines \in Seq(Line) : lines = book[c]
  BY <1>2, <1>5, KnownScript
<1>7. PICK charge : charge = IF Priced(lines) = {} THEN old.charges[c]
                             ELSE lines[Max(Priced(lines))].charge
  OBVIOUS
<1>8. charge \in Nat \cup {KeptCharge}
  <2>1. CASE Priced(lines) = {}
    BY <1>4, <1>5, <1>7, <2>1
  <2>2. CASE Priced(lines) # {}
    <3>1. DOMAIN lines = 1 .. Len(lines) /\ Len(lines) \in Nat
      OBVIOUS
    <3>2. Max(Priced(lines)) \in Priced(lines)
      BY <2>2, <3>1, LastOf DEF Priced
    <3>3. Max(Priced(lines)) \in DOMAIN lines
      BY <3>2 DEF Priced
    <3>4. lines[Max(Priced(lines))] \in Line
      BY <3>3
    <3>5. lines[Max(Priced(lines))].charge \in Nat
      BY <3>4 DEF Line
    <3> QED
      BY <1>7, <2>2, <3>5
  <2> QED
    BY <2>1, <2>2
<1>9. PICK charges : charges = [old.charges EXCEPT ![c] = charge]
  OBVIOUS
<1>10. charges \in [Customers -> Nat \cup {KeptCharge}]
  BY <1>4, <1>8, <1>9
<1>11. PICK new : new = [old EXCEPT !.charges = charges, !.todo = old.todo \ {c}]
  OBVIOUS
<1>12. /\ new \in Script /\ new.pc = old.pc /\ new.client = old.client /\ new.task = NoTask
       /\ new.clean = old.clean /\ new.reply = old.reply
  BY <1>2, <1>4, <1>10, <1>11 DEF Script
<1>13. script' = [script EXCEPT ![s] = new]
  <2>1. script' = [script EXCEPT ![s].charges[c] = charge, ![s].todo = old.todo \ {c}]
    BY <1>1, <1>2, <1>3, <1>6, <1>7, <1>4 DEF SnapshotCharge
  <2> QED
    BY <1>2, <1>9, <1>11, <2>1 DEF JInv, ScriptsTyped, Script
<1>14. old.client \in ScriptClients
  BY <1>2, KnownScript DEF PhaseFits
<1>15. Local
  BY DEF SnapshotCharge
<1> QED
  BY <1>1, <1>2, <1>12, <1>13, <1>14, <1>15, ByItself, Locals DEF PricingLabels

\* What a script keeps in mind when it makes a call.
LEMMA CallPhase ==
    ASSUME JInv, NEW s \in DOMAIN script, script[s].pc # "start", NEW b \in Tasks, NEW label \in Waiting,
           label \in IF s = "purchase" THEN PurchaseLabels ELSE PricingLabels,
           label \in {"purchasing", "cancelling"} => script[s].pc \in {"purchase", "purchasing"},
           Wait(s, label, b)
    PROVE  /\ PhaseFits(s)' /\ script'[s].pc = label
           /\ script'[s].client = script[s].client /\ script'[s].offer = script[s].offer
           /\ script'[s].record = script[s].record /\ script'[s].price = script[s].price
<1>1. PICK old \in Script : old = script[s]
  BY KnownScript
<1>2. PICK new : new = [old EXCEPT !.pc = label, !.task = b, !.reply = "none"]
  OBVIOUS
<1>3. script'[s] = new
  BY <1>1, <1>2 DEF Wait, JInv, ScriptsTyped
<1>4. /\ new.pc = label /\ new.client = old.client /\ new.offer = old.offer /\ new.reply = "none"
      /\ new.record = old.record /\ new.price = old.price
  BY <1>1, <1>2 DEF Script
<1>5. PhaseFits(s)
  BY KnownScript
<1>6. PhaseFits(s)'
  <2>1. old.client \in ScriptClients
    BY <1>1, <1>5 DEF PhaseFits
  <2>2. label \in {"purchasing", "cancelling"} => Offered(new.record, new.offer)
    <3>1. label \in {"purchasing", "cancelling"} => Offered(old.record, old.offer)
      BY <1>1, <1>5 DEF PhaseFits
    <3> QED
      BY <1>4, <3>1
  <2>3. label # "purchase"
    BY <1>1, <1>2 DEF Waiting
  <2> QED
    BY <1>3, <1>4, <2>1, <2>2, <2>3 DEF PhaseFits, Offered
<1> QED
  BY <1>1, <1>3, <1>4, <1>6

\* The scripts call under names that the policy knows.
LEMMA CallersKnown == Intents # {} /\ "system-admin" \in Clients /\ ScriptClients \subseteq Clients
  BY JourneyParameters DEF Intents

\* The purchase journey buys.
LEMMA PurchaseKeeps ==
    ASSUME JInv, Purchase
    PROVE  /\ JInv' /\ NewTask \in Tasks /\ Free(NewTask) /\ Others(NewTask)
           /\ chain'[NewTask].pc = "permission" /\ UNCHANGED <<billingVars, cacheVars, faults>>
<1>1. PICK s : s = "purchase"
  OBVIOUS
<1>2. PICK old \in Script : s \in DOMAIN script /\ old = script[s] /\ old.pc = "purchase"
                            /\ old.task = NoTask
  BY <1>1, KnownScript DEF Purchase, At
<1>3. PICK offer \in Offer : offer = old.offer
  BY <1>2 DEF Script
<1>4. old.client \in Clients /\ offer.sku \in Skus /\ offer.term \in Nat
  BY <1>2, <1>3, KnownScript, CallersKnown DEF PhaseFits, Offered, Offer
<1>5. Call(s, "purchasing", old.client, "add_subscription", Buyer, offer.sku, offer.term, 0)
  BY <1>1, <1>2, <1>3 DEF Purchase
<1>6. Wait(s, "purchasing", NewTask) /\ NewTask \in Tasks
  BY <1>5, FreeTask DEF Call
<1>7. PhaseFits(s)' /\ script'[s].pc = "purchasing" /\ script'[s].client = old.client
      /\ script'[s].offer = offer
  BY <1>1, <1>2, <1>3, <1>6, CallPhase DEF PurchaseLabels, Waiting
<1>8. \A intent : Carries(intent, old.client, "add_subscription", Buyer, offer.sku, offer.term, 0)
                      => Asked(script'[s], intent)
  BY <1>7 DEF Asked
<1>9. /\ "purchasing" \in Waiting /\ "add_subscription" \in Intents \cap Buying
      /\ Buyer \in Customers /\ 0 \in Nat
  BY JourneyParameters DEF Waiting, Intents, Buying
<1> QED
  BY <1>1, <1>2, <1>4, <1>5, <1>7, <1>8, <1>9, Calls

\* The purchase journey cancels.
LEMMA CancelKeeps ==
    ASSUME JInv, Cancel
    PROVE  JInv'
<1>1. PICK s : s = "purchase"
  OBVIOUS
<1>2. PICK old \in Script : s \in DOMAIN script /\ old = script[s] /\ old.pc = "purchasing"
                            /\ old.task = NoTask
  BY <1>1, KnownScript DEF Cancel, Replied, At
<1>3. PICK offer \in Offer : offer = old.offer
  BY <1>2 DEF Script
<1>4. offer.sku \in Skus
  BY <1>2, <1>3, KnownScript DEF PhaseFits, Offered
<1>5. Call(s, "cancelling", "system-admin", "cancel_subscription", Buyer, offer.sku, 0, 0)
  BY <1>1, <1>2, <1>3 DEF Cancel
<1>6. Wait(s, "cancelling", NewTask) /\ NewTask \in Tasks
  BY <1>5, FreeTask DEF Call
<1>7. PhaseFits(s)' /\ script'[s].pc = "cancelling" /\ script'[s].offer = offer
  BY <1>1, <1>2, <1>3, <1>6, CallPhase DEF PurchaseLabels, Waiting
<1>8. \A intent : Carries(intent, "system-admin", "cancel_subscription", Buyer, offer.sku, 0, 0)
                      => Asked(script'[s], intent)
  BY <1>7 DEF Asked
<1>9. /\ "cancelling" \in Waiting /\ "cancel_subscription" \in Intents \cap Buying
      /\ Buyer \in Customers /\ 0 \in Nat
  BY JourneyParameters DEF Waiting, Intents, Buying
<1> QED
  BY <1>1, <1>2, <1>4, <1>5, <1>7, <1>8, <1>9, CallersKnown, Calls

\* The pricing journey changes the price.
LEMMA UpdatePriceKeeps ==
    ASSUME JInv, UpdatePrice
    PROVE  JInv'
<1>1. PICK s : s = "pricing"
  OBVIOUS
<1>2. PICK old \in Script : s \in DOMAIN script /\ old = script[s] /\ old.pc = "update"
                            /\ old.task = NoTask
  BY <1>1, KnownScript DEF UpdatePrice, At
<1>3. old.client \in Clients
  BY <1>2, KnownScript, CallersKnown DEF PhaseFits
<1>4. Call(s, "updating", old.client, "update_product_price", Nobody, PricedSku, 0, PricedAt)
  BY <1>1, <1>2 DEF UpdatePrice
<1>5. Wait(s, "updating", NewTask) /\ NewTask \in Tasks
  BY <1>4, FreeTask DEF Call
<1>6. PhaseFits(s)' /\ script'[s].pc = "updating" /\ script'[s].client = old.client
  BY <1>1, <1>2, <1>5, CallPhase DEF PricingLabels, Waiting
<1>7. \A intent : Carries(intent, old.client, "update_product_price", Nobody, PricedSku, 0, PricedAt)
                      => Asked(script'[s], intent)
  BY <1>6 DEF Asked
<1>8. /\ "updating" \in Waiting /\ "update_product_price" \in Intents \ Buying
      /\ PricedSku \in Skus /\ PricedAt \in Nat /\ 0 \in Nat
  BY JourneyParameters DEF Waiting, Intents, Buying
<1> QED
  BY <1>1, <1>2, <1>3, <1>4, <1>6, <1>7, <1>8, Calls

\* The pricing journey asks for the recalculation.
LEMMA RecalculateKeeps ==
    ASSUME JInv, Recalculate
    PROVE  JInv'
<1>1. PICK s : s = "pricing"
  OBVIOUS
<1>2. PICK old \in Script : s \in DOMAIN script /\ old = script[s] /\ old.pc = "updating"
                            /\ old.task = NoTask
  BY <1>1, KnownScript DEF Recalculate, Replied, At
<1>3. old.client \in Clients
  BY <1>2, KnownScript, CallersKnown DEF PhaseFits
<1>4. Call(s, "recalculating", old.client, "recalculate_billing", Nobody, PricedSku, 0, 0)
  BY <1>1, <1>2 DEF Recalculate
<1>5. Wait(s, "recalculating", NewTask) /\ NewTask \in Tasks
  BY <1>4, FreeTask DEF Call
<1>6. PhaseFits(s)' /\ script'[s].pc = "recalculating" /\ script'[s].client = old.client
  BY <1>1, <1>2, <1>5, CallPhase DEF PricingLabels, Waiting
<1>7. \A intent : Carries(intent, old.client, "recalculate_billing", Nobody, PricedSku, 0, 0)
                      => Asked(script'[s], intent)
  BY <1>6 DEF Asked
<1>8. /\ "recalculating" \in Waiting /\ "recalculate_billing" \in Intents \ Buying
      /\ PricedSku \in Skus /\ 0 \in Nat
  BY JourneyParameters DEF Waiting, Intents, Buying
<1> QED
  BY <1>1, <1>2, <1>3, <1>4, <1>6, <1>7, <1>8, Calls

\* The pricing journey writes the price back.
LEMMA RestorePriceKeeps ==
    ASSUME JInv, RestorePrice
    PROVE  JInv'
<1>1. PICK s : s = "pricing"
  OBVIOUS
<1>2. PICK old \in Script : s \in DOMAIN script /\ old = script[s] /\ old.pc # "start"
                            /\ old.task = NoTask
  BY <1>1, KnownScript DEF RestorePrice, PricingOver, Replied, At
<1>3. PICK list \in Nat : list = old.price
  BY <1>2 DEF Script
<1>4. Call(s, "restoring", "system-admin", "update_product_price", Nobody, PricedSku, 0, list)
  BY <1>1, <1>2, <1>3 DEF RestorePrice
<1>5. Wait(s, "restoring", NewTask) /\ NewTask \in Tasks
  BY <1>4, FreeTask DEF Call
<1>6. PhaseFits(s)' /\ script'[s].pc = "restoring" /\ script'[s].price = list
  BY <1>1, <1>2, <1>3, <1>5, CallPhase DEF PricingLabels, Waiting
<1>7. \A intent : Carries(intent, "system-admin", "update_product_price", Nobody, PricedSku, 0, list)
                      => Asked(script'[s], intent)
  BY <1>6 DEF Asked
<1>8. /\ "restoring" \in Waiting /\ "update_product_price" \in Intents \ Buying
      /\ PricedSku \in Skus /\ 0 \in Nat
  BY JourneyParameters DEF Waiting, Intents, Buying
<1> QED
  BY <1>1, <1>2, <1>4, <1>6, <1>7, <1>8, CallersKnown, Calls

\* The charge of a customer is restored at Billing itself.
LEMMA RestoreChargeKeeps ==
    ASSUME JInv, RestoreCharge
    PROVE  JInv'
<1>1. PICK s : s = "pricing"
  OBVIOUS
<1>2. PICK old \in Script : s \in DOMAIN script /\ old = script[s] /\ old.pc = "restoring"
                            /\ old.task = NoTask
  BY <1>1, KnownScript DEF RestoreCharge, At
<1>3. PICK b \in Tasks : b = NewTask /\ Free(b)
  BY FreeTask DEF RestoreCharge
<1>4. PICK c : c = CHOOSE d \in Due : TRUE
  OBVIOUS
<1>5. c \in Customers /\ old.charges[c] # KeptCharge
        /\ old.charges \in [Customers -> Nat \cup {KeptCharge}]
  BY <1>1, <1>2, <1>4 DEF RestoreCharge, Due, Script
<1>6. PICK charge \in Nat : charge = old.charges[c]
  BY <1>5
<1>7. PICK req : req = [NoRequest EXCEPT !.op = "update", !.cust = c, !.sku = PricedSku,
                                         !.charge = charge]
  OBVIOUS
<1>8. req = ChargeRequest(c)
  BY <1>1, <1>2, <1>6, <1>7 DEF ChargeRequest
<1>9. /\ DirectUpdate(req) /\ req.sku = PricedSku /\ ~Buys(req)
  <2>1. req = [id |-> 0, op |-> "update", cust |-> c, sku |-> PricedSku, term |-> 0, list |-> 0,
               stat |-> Kept, charge |-> charge]
    BY <1>7 DEF NoRequest
  <2>2. PricedSku \in Skus
    BY JourneyParameters
  <2> QED
    BY <1>5, <2>1, <2>2 DEF DirectUpdate, Request, Buys, Kept
<1>10. Arrive(b, req) /\ UNCHANGED <<brokerVars, cacheVars>>
  BY <1>3, <1>4, <1>8 DEF RestoreCharge
<1>11. IInv'
  BY <1>3, <1>9, <1>10, ArriveKeeps DEF JInv, Free
<1>12. PICK h : h = [NoWork EXCEPT !.pc = "arrived", !.req = req]
  OBVIOUS
<1>13. h.pc = "arrived" /\ h.req = req
  BY <1>12 DEF NoWork
<1>14. /\ work'[b] = h /\ \A d \in Tasks \ {b} : work'[d] = work[d]
       /\ UNCHANGED <<chain, audit, issued, faults>>
  BY <1>10, <1>12, Known DEF Arrive, brokerVars
<1>15. PICK charges : charges = [old.charges EXCEPT ![c] = KeptCharge]
  OBVIOUS
<1>16. charges \in [Customers -> Nat \cup {KeptCharge}]
  BY <1>5, <1>15
<1>17. PICK new : new = [old EXCEPT !.task = b, !.reply = "none", !.charges = charges]
  OBVIOUS
<1>18. /\ new \in Script /\ new.pc = old.pc /\ new.client = old.client /\ new.task = b
       /\ new.clean = old.clean /\ new.reply = "none"
  BY <1>2, <1>16, <1>17 DEF Script, Replies
<1>19. script' = [script EXCEPT ![s] = new] /\ script'[s] = new
  <2>1. script' = [script EXCEPT ![s].task = b, ![s].reply = "none", ![s].charges[c] = KeptCharge]
    BY <1>1, <1>2, <1>3, <1>4 DEF RestoreCharge
  <2> QED
    BY <1>2, <1>15, <1>17, <2>1 DEF JInv, ScriptsTyped, Script
<1>20. PhaseFits(s)'
  <2>1. PhaseFits(s)
    BY <1>2, KnownScript
  <2> QED
    BY <1>1, <1>2, <1>18, <1>19, <2>1 DEF PhaseFits
<1>21. Owner(b)' = s /\ BuyersOnly(b)' /\ Asks(script[s], b)' /\ ~Free(b)'
  <2>1. chain'[b].pc = "idle" /\ work'[b].pc # "idle" /\ work'[b].req = req
    BY <1>3, <1>13, <1>14 DEF Free
  <2>2. ~OfPurchase(b)'
    BY <1>9, <2>1 DEF OfPurchase, Buys
  <2>3. DirectUpdate(req)'
    BY <1>9 DEF DirectUpdate, Request
  <2> QED
    BY <1>1, <1>2, <1>9, <1>18, <1>19, <2>1, <2>2, <2>3 DEF Owner, BuyersOnly, Asks, Free
<1>22. Linked(b)' /\ Staged(b)'
  BY <1>3, <1>13, <1>14 DEF Linked, Staged, Free
<1>23. CallMove(s, b)
  BY <1>2, <1>3, <1>10, <1>11, <1>14, <1>18, <1>19, <1>20, <1>21, <1>22
     DEF CallMove, OnlyScript, Others, Waiting
<1> QED
  BY <1>2, <1>23, CallKeeps

\* A script loses patience; its handler goes on without it.
LEMMA ClientTimeoutKeeps ==
    ASSUME JInv, NEW s \in DOMAIN script, ClientTimeout(s)
    PROVE  JInv'
<1>1. PICK old \in Script : old = script[s]
  BY KnownScript
<1>2. PICK new : new = [old EXCEPT !.task = NoTask, !.reply = "timeout", !.clean = FALSE]
  OBVIOUS
<1>3. new \in Script /\ new.task = NoTask /\ new.reply = "timeout" /\ new.clean = FALSE
      /\ new.pc = old.pc /\ new.client = old.client /\ new.offer = old.offer
      /\ new.record = old.record
  BY <1>1, <1>2 DEF Script, Replies
<1>4. script' = [script EXCEPT ![s] = new] /\ script'[s] = new
  BY <1>1, <1>2 DEF JInv, ScriptsTyped, ClientTimeout
<1>5. faults' = faults + 1 /\ faults' # 0
  BY JInvFaults DEF ClientTimeout, Fault
<1>6. PhaseFits(s)'
  <2>1. PhaseFits(s)
    BY KnownScript
  <2> QED
    BY <1>1, <1>3, <1>4, <2>1 DEF PhaseFits, Offered
<1>7. LocalMove(s)
  BY <1>3, <1>4, <1>5, <1>6 DEF LocalMove, OnlyScript, ClientTimeout
<1> QED
  BY <1>7, LocalKeeps

\* Neither a handler nor a script moves.
LEMMA SameServices ==
    ASSUME JInv, UNCHANGED <<vars, script>>, CacheTyped'
    PROVE  JInv'
<1>1. UNCHANGED <<billingVars, chain, work, audit, issued, faults, script>> /\ faults' \in Nat
  BY Known, JInvFaults DEF vars, brokerVars, billingVars
<1>2. IInv'
  BY <1>1, FaultsKeep DEF JInv
<1>3. ScriptsTyped'
  BY <1>1 DEF JInv, ScriptsTyped, Script, Offer
<1>4. ASSUME NEW b \in Tasks PROVE TaskFits(b)'
  <2>1. TaskFits(b)
    BY DEF JInv
  <2>2. Owner(b)' = Owner(b) /\ (Free(b)' <=> Free(b)) /\ (OfPurchase(b)' <=> OfPurchase(b))
    BY <1>1, OwnerStays DEF Free
  <2>3. Linked(b)'
    BY <1>1, <2>1 DEF TaskFits, Linked, RequestOf, Operation
  <2>4. Staged(b)' /\ BuyersOnly(b)'
    BY <1>1, <2>1, <2>2 DEF TaskFits, Staged, BuyersOnly
  <2>5. Accounted(b)'
    BY <1>1, <2>1, <2>2 DEF TaskFits, Accounted
  <2> QED
    BY <2>3, <2>4, <2>5 DEF TaskFits
<1>5. ASSUME NEW s \in DOMAIN script PROVE ScriptFits(s)'
  <2>1. PhaseFits(s) /\ Awaited(s)
    BY DEF JInv, ScriptFits
  <2>2. PhaseFits(s)'
    BY <1>1, <2>1 DEF PhaseFits, Offered
  <2>3. Awaited(s)'
    <3> SUFFICES ASSUME script[s].task # NoTask PROVE Awaited(s)'
      BY <1>1 DEF Awaited
    <3>1. PICK journey, d : journey = script[s] /\ d = script[s].task
      OBVIOUS
    <3>2. /\ d \in Tasks /\ ~Free(d) /\ Owner(d) = s
          /\ journey.pc \in Waiting /\ journey.reply = "none" /\ Asks(journey, d)
      BY <2>1, <3>1 DEF Awaited
    <3>3. Owner(d)' = s /\ ~Free(d)' /\ Asks(journey, d)'
      BY <1>1, <3>2, OwnerStays DEF Free
    <3> QED
      BY <1>1, <3>1, <3>2, <3>3 DEF Awaited
  <2> QED
    BY <2>2, <2>3 DEF ScriptFits
<1> QED
  BY <1>1, <1>2, <1>3, <1>4, <1>5 DEF JInv

\* A stuttering step.
LEMMA SameStays ==
    ASSUME JInv, UNCHANGED jvars
    PROVE  JInv'
<1>1. CacheTyped' /\ UNCHANGED <<vars, script>>
  BY DEF jvars, cacheVars, JInv, CacheTyped
<1> QED
  BY <1>1, SameServices

\* The invariant holds at the start ...
LEMMA JourneysInit == JInit => JInv
<1> SUFFICES ASSUME JInit PROVE JInv
  OBVIOUS
<1>1. IInv
  BY InitInvariant DEF JInit
<1>2. /\ book \in [Customers -> Seq(Line)] /\ price \in [Skus -> Nat]
  BY <1>1 DEF IInv, TypeOK
<1>3. CacheTyped
  <2>1. book[Buyer] \in Seq(Line) /\ \A sku \in Skus : price[sku] \in Nat
    BY <1>2, JourneyParameters
  <2>2. listed = [sku \in Skus |-> {price[sku]}] /\ sent = {book[Buyer]}
    BY DEF JInit
  <2> QED
    BY <2>1, <2>2 DEF CacheTyped
<1>4. PICK scripts \in Scenarios : script = [s \in scripts |-> NewScript]
  BY DEF JInit
<1>5. PICK new : new = NewScript
  OBVIOUS
<1>6. /\ new \in Script /\ new.pc = "start" /\ new.task = NoTask /\ new.reply = "none"
  <2>1. [c \in Customers |-> KeptCharge] \in [Customers -> Nat \cup {KeptCharge}]
    OBVIOUS
  <2>2. <<>> \in Seq(Line) /\ [c \in Customers |-> <<>>] \in [Customers -> Seq(Line)]
    OBVIOUS
  <2>3. NoOffer \in Offer
    BY DEF NoOffer, Offer
  <2> QED
    BY <1>5, <2>1, <2>2, <2>3 DEF NewScript, Script, PurchaseLabels, Replies
<1>7. DOMAIN script = scripts /\ \A s \in scripts : script[s] = new
  BY <1>4, <1>5
<1>8. ScriptsTyped
  BY <1>4, <1>5, <1>6, <1>7 DEF ScriptsTyped
<1>9. ASSUME NEW s \in DOMAIN script PROVE ScriptFits(s)
  <2>1. script[s] = new
    BY <1>7
  <2> QED
    BY <1>6, <2>1 DEF ScriptFits, PhaseFits, Awaited, PurchaseLabels, PricingLabels
<1>10. ASSUME NEW b \in Tasks PROVE TaskFits(b)
  <2>1. chain[b] = NoChain /\ work[b] = NoWork
    BY DEF JInit, Init, BillingInit
  <2>2. chain[b].pc = "idle" /\ work[b].pc = "idle"
    BY <2>1 DEF NoChain, NoWork
  <2> QED
    BY <2>2 DEF TaskFits, Linked, Staged, BuyersOnly, Accounted, Free
<1> QED
  BY <1>1, <1>3, <1>8, <1>9, <1>10 DEF JInv

\* ... every step keeps it ...
LEMMA JourneyStep == JInv /\ [JNext]_jvars => JInv'
<1> SUFFICES ASSUME JInv, [JNext]_jvars PROVE JInv'
  OBVIOUS
<1>1. ASSUME NEW b \in Tasks, ServiceStep(b) PROVE JInv'
  BY <1>1, ServiceSteps, TurnsKeep
<1>2. ASSUME NEW s \in DOMAIN script, ReadFails(s) \/ ClientTimeout(s) PROVE JInv'
  BY <1>2, ReadFailsKeeps, ClientTimeoutKeeps
<1>3. CASE UNCHANGED jvars
  BY <1>3, SameStays
<1>4. CASE PurchaseJourney
  <2>1. ASSUME Start("purchase", "browse") PROVE JInv'
    BY <2>1, StartKeeps
  <2> QED
    BY <1>4, <2>1, ReadRecordKeeps, BrowseKeeps, PurchaseKeeps, CancelKeeps, EndKeeps
       DEF PurchaseJourney
<1>5. CASE PricingJourney
  <2>1. ASSUME Start("pricing", "snapshot") PROVE JInv'
    BY <2>1, StartKeeps
  <2> QED
    BY <1>5, <2>1, SnapshotPriceKeeps, SnapshotChargeKeeps, UpdatePriceKeeps, RecalculateKeeps,
       RestorePriceKeeps, RestoreChargeKeeps, EndKeeps DEF PricingJourney
<1> QED
  BY <1>1, <1>2, <1>3, <1>4, <1>5 DEF JNext, ServiceStep

\* ... so it holds always.
LEMMA JourneyInvariant == JSpec => []JInv
<1>1. JInit => JInv
  BY JourneysInit
<1>2. JInv /\ [JNext]_jvars => JInv'
  BY JourneyStep
<1> QED
  BY <1>1, <1>2, PTL DEF JSpec

(***************************************************************************)
(* A script has a handler working for it exactly while it waits.            *)
(***************************************************************************)
THEOREM ScriptsWellTyped == JSpec => []JTypeOK
<1>1. JInv => JTypeOK
  <2> SUFFICES ASSUME JInv PROVE JTypeOK
    OBVIOUS
  <2>1. ASSUME NEW s \in DOMAIN script
        PROVE  /\ script[s].reply \in Replies
               /\ script[s].offer.sku \in Skus \cup {NoSku}
               /\ \A c \in Customers : script[s].charges[c] \in Nat \cup {KeptCharge}
               /\ script[s].todo \subseteq Customers
               /\ script[s].task \in Tasks \cup {NoTask}
               /\ script[s].task # NoTask =>
                     /\ script[s].pc \in Waiting /\ script[s].reply = "none"
                     /\ ~Free(script[s].task)
    <3>1. PICK journey \in Script : journey = script[s]
      BY KnownScript
    <3>2. Awaited(s)
      BY DEF JInv, ScriptFits
    <3>3. /\ journey.reply \in Replies /\ journey.offer \in Offer
          /\ journey.charges \in [Customers -> Nat \cup {KeptCharge}]
          /\ journey.todo \subseteq Customers /\ journey.task \in Tasks \cup {NoTask}
      BY DEF Script
    <3>4. journey.offer.sku \in Skus \cup {NoSku}
      BY <3>3 DEF Offer
    <3> QED
      BY <3>1, <3>2, <3>3, <3>4 DEF Awaited
  <2> QED
    BY <2>1 DEF JTypeOK, JInv, CacheTyped
<1> QED
  BY <1>1, JourneyInvariant, PTL

(***************************************************************************)
(* When only the two scripts write, and some of them are given up and fail, *)
(* the records, the writes and the trail keep what the write path promises. *)
(***************************************************************************)
THEOREM JourneysKeepRecords ==
    JSpec => [](TypeOK /\ OneLinePerSku /\ OnlyPermittedWrites)
<1>1. JInv => TypeOK /\ OneLinePerSku /\ OnlyPermittedWrites
  BY DEF JInv, IInv
<1> QED
  BY <1>1, JourneyInvariant, PTL

\* The addition that a script waits for is the purchase of its offer.
LEMMA Bought ==
    ASSUME JInv, NEW b \in Tasks, work[b].pc # "idle", work[b].req.op = "add"
    PROVE  /\ "purchase" \in DOMAIN script
           /\ script["purchase"].task = b =>
                 LET journey == script["purchase"]
                 IN  /\ journey.pc = "purchasing" /\ Offered(journey.record, journey.offer)
                     /\ work[b].req.cust = Buyer /\ work[b].req.sku = journey.offer.sku
                     /\ work[b].req.term = journey.offer.term
                     /\ chain[b].pc = "wait"
<1>1. chain[b].pc \in {"idle", "wait"}
  BY Known
<1>2. chain[b].pc = "wait" => /\ chain[b].intent.intent = "add_subscription"
                              /\ work[b].req.cust = chain[b].intent.cust
                              /\ work[b].req.sku = chain[b].intent.sku
                              /\ work[b].req.term = chain[b].intent.term
  <2> SUFFICES ASSUME chain[b].pc = "wait"
               PROVE  /\ chain[b].intent.intent = "add_subscription"
                      /\ work[b].req.cust = chain[b].intent.cust
                      /\ work[b].req.sku = chain[b].intent.sku
                      /\ work[b].req.term = chain[b].intent.term
    OBVIOUS
  <2>1. work[b].req = RequestOf(chain[b].intent)
    BY Known DEF Linked
  <2>2. Operation(chain[b].intent) = "add" => chain[b].intent.intent = "add_subscription"
    BY DEF Operation
  <2> QED
    BY <2>1, <2>2 DEF RequestOf, NoRequest
<1>3. OfPurchase(b)
  BY <1>1, <1>2 DEF OfPurchase, Buys, Buying
<1>4. "purchase" \in DOMAIN script
  BY <1>3 DEF JInv, TaskFits, Accounted, Owner, Free
<1>5. ASSUME script["purchase"].task = b
      PROVE  /\ script["purchase"].pc = "purchasing"
             /\ Offered(script["purchase"].record, script["purchase"].offer)
             /\ work[b].req.cust = Buyer /\ work[b].req.sku = script["purchase"].offer.sku
             /\ work[b].req.term = script["purchase"].offer.term
             /\ chain[b].pc = "wait"
  <2>1. PICK journey : journey = script["purchase"]
    OBVIOUS
  <2>2. b # NoTask
    BY JourneyParameters
  <2>3. Asks(journey, b)
    BY <1>4, <1>5, <2>1, <2>2 DEF JInv, ScriptFits, Awaited
  <2>4. chain[b].pc = "wait" /\ Asked(journey, chain[b].intent)
    BY <1>1, <2>3 DEF Asks, DirectUpdate
  <2>5. journey.pc = "purchasing" /\ Carries(chain[b].intent, journey.client, "add_subscription",
                                             Buyer, journey.offer.sku, journey.offer.term, 0)
    BY <1>2, <2>4 DEF Asked, Carries
  <2>6. Offered(journey.record, journey.offer)
    BY <1>4, <2>1, <2>5, KnownScript DEF PhaseFits
  <2> QED
    BY <1>2, <2>1, <2>4, <2>5, <2>6 DEF Carries
<1> QED
  BY <1>4, <1>5

(***************************************************************************)
(* An offer never promises too much, whatever the catalogue's relations,    *)
(* prices and terms, and whatever else happens while it is bought: Billing  *)
(* evaluates the discounts over a line with a list price, the Offer Engine  *)
(* over one without, so a discount of the offer is one of the bill.         *)
(***************************************************************************)
THEOREM OffersKept == JSpec => NeverAboveOffer
<1>1. ASSUME JInv, NEW b \in Tasks, AsOffered(b)
      PROVE  Bill(book'[Buyer]) <= EvaluateDiscounts(Policies, book[Buyer]).discounted
                                       + script["purchase"].offer.delta
  <2>1. /\ work[b].pc = "fetched" /\ work[b].req.op = "add"
        /\ Commit(b, work[b].req.cust,
                  Reevaluated(Append(work[b].raw, NewLine(work[b].req.sku, work[b].list,
                                                          work[b].req.term))), "capture", {})
    BY <1>1 DEF AsOffered, AddCommit
  <2>2. PICK journey : journey = script["purchase"]
    OBVIOUS
  <2>3. /\ "purchase" \in DOMAIN script /\ Offered(journey.record, journey.offer)
        /\ work[b].req.cust = Buyer /\ work[b].req.sku = journey.offer.sku
        /\ work[b].req.term = journey.offer.term
    BY <1>1, <2>1, <2>2, Bought DEF AsOffered
  <2>4. journey \in Script
    BY <1>1, <2>2, <2>3, KnownScript
  <2>5. PICK offer \in Offer : offer = journey.offer
    BY <2>4 DEF Script
  <2>6. PICK lines \in Seq(Line) : lines = journey.record
    BY <2>4 DEF Script
  <2>7. lines = book[Buyer] /\ work[b].raw = lines /\ work[b].list = offer.list
    BY <1>1, <2>2, <2>5, <2>6 DEF AsOffered
  <2>8. OnePerSku(lines)
    BY <1>1, <2>7, JourneyParameters DEF JInv, IInv, OneLinePerSku
  <2>9. PICK sku \in Skus, list \in Nat, term \in Nat :
            sku = offer.sku /\ list = offer.list /\ term = offer.term
    BY <2>3, <2>5 DEF Offered, Offer
  <2>10. ~Holds(lines, sku)
         /\ offer.delta = ProposedPrices(lines, sku, list, term)
                              - EvaluateDiscounts(Policies, lines).discounted
    BY <2>3, <2>5, <2>6, <2>9 DEF Offered, ProposedPrices
  <2>11. PICK more : more = Reevaluated(Append(lines, NewLine(sku, list, term)))
    OBVIOUS
  <2>12. Bill(more) \in Int /\ Bill(more) <= ProposedPrices(lines, sku, list, term)
    BY <2>8, <2>10, <2>11, OfferHolds
  <2>13. /\ EvaluateDiscounts(Policies, lines).discounted \in Int
         /\ ProposedPrices(lines, sku, list, term) \in Int
    BY ProposalPriced
  <2>14. book'[Buyer] = more
    <3>1. book' = [book EXCEPT ![Buyer] = more]
      BY <2>1, <2>3, <2>5, <2>7, <2>9, <2>11 DEF Commit
    <3>2. book \in [Customers -> Seq(Line)] /\ Buyer \in Customers
      BY <1>1, JourneyParameters DEF JInv, IInv, TypeOK
    <3> QED
      BY <3>1, <3>2
  <2>15. Bill(more) <= EvaluateDiscounts(Policies, lines).discounted + offer.delta
    BY <2>10, <2>12, <2>13
  <2> QED
    BY <2>2, <2>5, <2>7, <2>14, <2>15
<1>2. JInv /\ [JNext]_jvars => [\A b \in Tasks :
          AsOffered(b) =>
              Bill(book'[Buyer]) <= EvaluateDiscounts(Policies, book[Buyer]).discounted
                                        + script["purchase"].offer.delta]_jvars
  BY <1>1
<1> QED
  BY <1>2, JourneyInvariant, PTL DEF JSpec, NeverAboveOffer
=============================================================================
