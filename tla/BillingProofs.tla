---------------------------- MODULE BillingProofs ----------------------------
(***************************************************************************)
(* Lemmas about the operators of the commercial rules and of Billing: what  *)
(* the policies of discounts.yaml can add up to, and what each write of     *)
(* Billing does to the lines of a record.                                   *)
(***************************************************************************)
EXTENDS BillingSor, TLAPS, FiniteSetTheorems, WellFoundedInduction

-----------------------------------------------------------------------------
(* Sums.  The library's sum folds a function over its domain, with a          *)
(* recursive function that it chooses among those that satisfy the recursion: *)
(* for a finite domain one does.  What holds of a sum is shown for the least  *)
(* number of elements for which it could fail.                                *)

\* The body of the recursive function the library's fold is defined with.
Unfold(f, h) == [s \in SUBSET DOMAIN f |->
                    IF s = {} THEN 0
                    ELSE f[CHOOSE x \in s : TRUE] + h[s \ {CHOOSE x \in s : TRUE}]]

LEMMA SumUnfolds == ASSUME NEW f PROVE SumFunction(f) = (CHOOSE h : h = Unfold(f, h))[DOMAIN f]
  BY DEF SumFunction, SumFunctionOnSet, FoldFunctionOnSet, MapThenFoldSet, Unfold

\* A set of natural numbers has a least element.
LEMMA Least ==
    ASSUME NEW T, T \subseteq Nat, T # {}
    PROVE  \E n \in T : \A m \in T : n <= m
<1> DEFINE R == {p \in Nat \X Nat : p[1] < p[2]}
<1>1. IsWellFoundedOn(R, Nat)
  BY NatLessThanWellFounded DEF OpToRel
<1> HIDE DEF R
<1>2. PICK n \in T : \A y \in T : <<y, n>> \notin R
  BY <1>1, WFMin
<1>3. \A m \in T : n <= m
  <2> SUFFICES ASSUME NEW m \in T PROVE n <= m
    OBVIOUS
  <2>1. <<m, n>> \notin R
    BY <1>2
  <2> QED
    BY <2>1 DEF R
<1> QED
  BY <1>3

\* The subsets of a finite set with n elements at most.
UpTo(D, n) == {s \in SUBSET D : Cardinality(s) <= n}

\* The element the fold takes out of a set.
Taken(s) == CHOOSE x \in s : TRUE

Folded(f, h, s) == IF s = {} THEN 0 ELSE f[Taken(s)] + h[s \ {Taken(s)}]

LEMMA TakenSmaller ==
    ASSUME NEW D, IsFiniteSet(D), NEW s \in SUBSET D, s # {}
    PROVE  /\ Taken(s) \in s /\ s \ {Taken(s)} \in SUBSET D
           /\ Cardinality(s) \in Nat \ {0}
           /\ Cardinality(s \ {Taken(s)}) = Cardinality(s) - 1
<1>1. PICK x : x = Taken(s)
  OBVIOUS
<1>2. x \in s
  BY <1>1 DEF Taken
<1>3. IsFiniteSet(s)
  BY FS_Subset
<1>4. Cardinality(s) \in Nat /\ Cardinality(s) # 0
  BY <1>3, FS_CardinalityType, FS_EmptySet
<1>5. Cardinality(s \ {x}) = Cardinality(s) - 1
  BY <1>2, <1>3, FS_RemoveElement
<1> QED
  BY <1>1, <1>2, <1>4, <1>5

\* A function that satisfies the recursion exists.
LEMMA FoldExists ==
    ASSUME NEW f, IsFiniteSet(DOMAIN f)
    PROVE  \E h : h = Unfold(f, h)
<1> DEFINE D == DOMAIN f
           Fold(n, h) == h = [s \in UpTo(D, n) |-> Folded(f, h, s)]
           T == {n \in Nat : ~ \E h : Fold(n, h)}
<1>1. T = {}
  <2> SUFFICES ASSUME T # {} PROVE FALSE
    OBVIOUS
  <2>1. PICK n \in T : \A m \in T : n <= m
    BY Least
  <2>2. CASE n = 0
    <3> DEFINE h == [s \in UpTo(D, 0) |-> 0]
    <3>1. \A s \in UpTo(D, 0) : s = {}
      <4> SUFFICES ASSUME NEW s \in UpTo(D, 0), s # {} PROVE FALSE
        OBVIOUS
      <4>1. s \in SUBSET D /\ Cardinality(s) <= 0
        BY DEF UpTo
      <4>2. Cardinality(s) \in Nat \ {0}
        BY <4>1, TakenSmaller
      <4> QED
        BY <4>1, <4>2
    <3>2. \A s \in UpTo(D, 0) : Folded(f, h, s) = 0
      BY <3>1 DEF Folded
    <3>3. Fold(0, h)
      BY <3>2
    <3> QED
      BY <2>1, <2>2, <3>3
  <2>3. CASE n # 0
    <3>1. n - 1 \in Nat /\ n - 1 \notin T
      BY <2>1, <2>3
    <3>2. PICK h : Fold(n - 1, h)
      BY <3>1
    <3> DEFINE g == [s \in UpTo(D, n) |-> Folded(f, h, s)]
    <3>3. \A s \in UpTo(D, n - 1) : s \in UpTo(D, n) /\ g[s] = h[s]
      <4> SUFFICES ASSUME NEW s \in UpTo(D, n - 1) PROVE s \in UpTo(D, n) /\ g[s] = h[s]
        OBVIOUS
      <4>1. s \in UpTo(D, n)
        <5>1. Cardinality(s) \in Nat
          BY FS_Subset, FS_CardinalityType DEF UpTo
        <5> QED
          BY <2>1, <5>1 DEF UpTo
      <4>2. h[s] = Folded(f, h, s)
        BY <3>2
      <4> QED
        BY <4>1, <4>2
    <3>4. \A s \in UpTo(D, n) : Folded(f, h, s) = Folded(f, g, s)
      <4> SUFFICES ASSUME NEW s \in UpTo(D, n), s # {} PROVE Folded(f, h, s) = Folded(f, g, s)
        BY DEF Folded
      <4>1. s \ {Taken(s)} \in UpTo(D, n - 1)
        BY <2>1, TakenSmaller DEF UpTo
      <4>2. g[s \ {Taken(s)}] = h[s \ {Taken(s)}]
        BY <3>3, <4>1
      <4> HIDE DEF g
      <4> QED
        BY <4>2 DEF Folded
    <3>5. Fold(n, g)
      <4>1. g = [s \in UpTo(D, n) |-> Folded(f, h, s)]
        OBVIOUS
      <4> HIDE DEF g
      <4> QED
        BY <3>4, <4>1
    <3> QED
      BY <2>1, <3>5
  <2> QED
    BY <2>2, <2>3
<1>2. Cardinality(D) \in Nat
  BY FS_CardinalityType
<1>3. PICK h : Fold(Cardinality(D), h)
  BY <1>1, <1>2
<1>4. UpTo(D, Cardinality(D)) = SUBSET D
  BY FS_Subset DEF UpTo
<1>5. h = [s \in SUBSET D |-> Folded(f, h, s)]
  BY <1>3, <1>4
<1>6. h = Unfold(f, h)
  BY <1>5, Zenon DEF Unfold, Folded, Taken
<1> QED
  BY <1>6

\* The fold of a finite function, which its sum is read from.
FoldOf(f) == CHOOSE h : h = Unfold(f, h)

LEMMA FoldStep ==
    ASSUME NEW f, IsFiniteSet(DOMAIN f)
    PROVE  /\ SumFunction(f) = FoldOf(f)[DOMAIN f]
           /\ \A s \in SUBSET DOMAIN f : FoldOf(f)[s] = Folded(f, FoldOf(f), s)
<1>1. SumFunction(f) = FoldOf(f)[DOMAIN f]
  BY SumUnfolds DEF FoldOf
<1>2. PICK h : h = FoldOf(f)
  OBVIOUS
<1>3. h = Unfold(f, h)
  BY <1>2, FoldExists DEF FoldOf
<1>4. \A s \in SUBSET DOMAIN f : h[s] = Folded(f, h, s)
  BY <1>3 DEF Unfold, Folded, Taken
<1> QED
  BY <1>1, <1>2, <1>4

\* Sums of integers are integers, of natural numbers natural numbers.
LEMMA SumTyped ==
    ASSUME NEW f, IsFiniteSet(DOMAIN f), NEW N \in {Int, Nat}, \A x \in DOMAIN f : f[x] \in N
    PROVE  SumFunction(f) \in N
<1>1. PICK h : h = FoldOf(f)
  OBVIOUS
<1>2. \A s \in SUBSET DOMAIN f : h[s] = Folded(f, h, s)
  BY <1>1, FoldStep
<1>6. 0 \in N /\ \A a, b \in N : a + b \in N
  <2>1. CASE N = Int
    BY <2>1
  <2>2. CASE N = Nat
    BY <2>2
  <2> QED
    BY <2>1, <2>2
<1> DEFINE T == {n \in Nat : \E s \in SUBSET DOMAIN f : Cardinality(s) = n /\ h[s] \notin N}
<1>3. T = {}
  <2> SUFFICES ASSUME T # {} PROVE FALSE
    OBVIOUS
  <2>1. PICK n \in T : \A m \in T : n <= m
    BY Least
  <2>2. PICK s \in SUBSET DOMAIN f : Cardinality(s) = n /\ h[s] \notin N
    BY <2>1
  <2>3. s # {}
    BY <1>2, <1>6, <2>2 DEF Folded
  <2>4. PICK x \in s : x = Taken(s)
    BY <2>3, TakenSmaller
  <2>5. n - 1 \in Nat /\ n - 1 \notin T
    <3>1. n \in Nat \ {0}
      BY <2>2, <2>3, TakenSmaller
    <3> QED
      BY <2>1, <3>1
  <2>6. h[s \ {x}] \in N
    BY <2>2, <2>3, <2>4, <2>5, TakenSmaller
  <2>7. h[s] = f[x] + h[s \ {x}]
    BY <1>2, <2>3, <2>4 DEF Folded
  <2> QED
    BY <1>6, <2>2, <2>6, <2>7
<1>4. Cardinality(DOMAIN f) \in Nat
  BY FS_CardinalityType
<1>5. h[DOMAIN f] \in N
  BY <1>3, <1>4
<1> QED
  BY <1>1, <1>5, FoldStep

\* A sum of larger summands is larger.
LEMMA SumGrows ==
    ASSUME NEW f, NEW g, IsFiniteSet(DOMAIN f), DOMAIN g = DOMAIN f,
           \A x \in DOMAIN f : f[x] \in Int /\ g[x] \in Int /\ f[x] <= g[x]
    PROVE  SumFunction(f) <= SumFunction(g)
<1>1. PICK D : D = DOMAIN f
  OBVIOUS
<1>2. PICK h : h = FoldOf(f)
  OBVIOUS
<1>3. PICK k : k = FoldOf(g)
  OBVIOUS
<1>4. \A s \in SUBSET D : h[s] = Folded(f, h, s) /\ k[s] = Folded(g, k, s)
  BY <1>1, <1>2, <1>3, FoldStep
<1> DEFINE Fits(s) == h[s] \in Int /\ k[s] \in Int /\ h[s] <= k[s]
           T == {n \in Nat : \E s \in SUBSET D : Cardinality(s) = n /\ ~Fits(s)}
<1>5. T = {}
  <2> SUFFICES ASSUME T # {} PROVE FALSE
    OBVIOUS
  <2>1. PICK n \in T : \A m \in T : n <= m
    BY Least
  <2>2. PICK s \in SUBSET D : Cardinality(s) = n /\ ~Fits(s)
    BY <2>1
  <2>3. s # {}
    BY <1>4, <2>2 DEF Folded
  <2>4. PICK x \in s : x = Taken(s)
    BY <1>1, <2>3, TakenSmaller
  <2>5. n - 1 \in Nat /\ n - 1 \notin T
    <3>1. n \in Nat \ {0}
      BY <1>1, <2>2, <2>3, TakenSmaller
    <3> QED
      BY <2>1, <3>1
  <2>6. Fits(s \ {x})
    BY <1>1, <2>2, <2>3, <2>4, <2>5, TakenSmaller
  <2>7. h[s] = f[x] + h[s \ {x}] /\ k[s] = g[x] + k[s \ {x}]
    BY <1>4, <2>3, <2>4 DEF Folded
  <2>8. f[x] \in Int /\ g[x] \in Int /\ f[x] <= g[x]
    BY <1>1
  <2> QED
    BY <2>2, <2>6, <2>7, <2>8
<1>6. Cardinality(D) \in Nat
  BY <1>1, FS_CardinalityType
<1>7. Fits(D)
  BY <1>5, <1>6
<1> QED
  BY <1>1, <1>2, <1>3, <1>7, FoldStep

\* The sum of two summands.
LEMMA TwoFoldValue ==
    ASSUME NEW f, DOMAIN f = {1, 2}, f[1] \in Nat, f[2] \in Nat, NEW h, h = Unfold(f, h)
    PROVE  h[{1, 2}] = f[1] + f[2]
<1>1. h[{}] = 0
  BY DEF Unfold
<1>2. h[{1}] = f[1]
  <2>1. (CHOOSE x \in {1} : TRUE) = 1 /\ {1} \ {1} = {}
    OBVIOUS
  <2> QED
    BY <1>1, <2>1 DEF Unfold
<1>3. h[{2}] = f[2]
  <2>1. (CHOOSE x \in {2} : TRUE) = 2 /\ {2} \ {2} = {}
    OBVIOUS
  <2> QED
    BY <1>1, <2>1 DEF Unfold
<1>4. PICK x : x = (CHOOSE y \in {1, 2} : TRUE)
  OBVIOUS
<1>5. h[{1, 2}] = f[x] + h[{1, 2} \ {x}]
  BY <1>4 DEF Unfold
<1>6. x \in {1, 2} /\ {1, 2} \ {1} = {2} /\ {1, 2} \ {2} = {1}
  BY <1>4
<1>7. CASE x = 1
  BY <1>3, <1>5, <1>6, <1>7
<1>8. CASE x = 2
  <2>1. h[{1, 2} \ {x}] = f[1]
    BY <1>2, <1>6, <1>8
  <2>2. h[{1, 2}] = f[2] + f[1]
    BY <1>5, <1>8, <2>1
  <2> QED
    BY <2>2
<1> QED
  BY <1>6, <1>7, <1>8

LEMMA SumOfTwo ==
    ASSUME NEW f, DOMAIN f = {1, 2}, f[1] \in Nat, f[2] \in Nat
    PROVE  SumFunction(f) = f[1] + f[2]
<1>1. PICK h : h = (CHOOSE g : g = Unfold(f, g))
  OBVIOUS
<1>2. h = Unfold(f, h)
  <2>1. IsFiniteSet(DOMAIN f)
    <3>1. IsFiniteSet({1})
      BY FS_Singleton
    <3>2. IsFiniteSet({1} \cup {2})
      BY <3>1, FS_AddElement
    <3>3. {1} \cup {2} = {1, 2}
      OBVIOUS
    <3> QED
      BY <3>2, <3>3
  <2> QED
    BY <1>1, <2>1, FoldExists
<1> QED
  BY <1>1, <1>2, TwoFoldValue, SumUnfolds

-----------------------------------------------------------------------------
(* The policies.                                                              *)

LEMMA TwoPolicies == /\ DOMAIN Policies = {1, 2}
                     /\ Policies[1] = LongContract /\ Policies[2] = HighValue
  BY DEF Policies

\* What a line is: the fields a rule may read are among its fields.
LEMMA LineFields ==
    ASSUME NEW line \in Line
    PROVE  /\ Field(line, "term") = line.term /\ Field(line, "list") = line.list
           /\ ListPrice(line) = line.list
           /\ line.term \in Nat /\ line.list \in Nat
  BY DEF Line, Field, ListPrice

\* The policies are entered for a product once at most, where no product has two lines.
LEMMA EnteredOnce ==
    ASSUME NEW lines \in Seq(Line), OnePerSku(lines), NEW sku
    PROVE  /\ Entries(LongContract, lines, sku) \in {0, 1}
           /\ Entries(HighValue, lines, sku) \in {0, 1}
<1> DEFINE rule == LongContract.rule
           Q    == {i \in Satisfying(lines, rule.match_field, rule.operator, rule.threshold) :
                        lines[i].sku = sku}
<1>1. Entries(LongContract, lines, sku) = Cardinality(Q)
  BY DEF Entries, LongContract
<1>2. \A i, j \in Q : i = j
  BY DEF Satisfying, Active, OnePerSku
<1> HIDE DEF Q
<1>3. Cardinality(Q) \in {0, 1}
  <2>1. CASE Q = {}
    BY <2>1, FS_EmptySet
  <2>2. CASE Q # {}
    <3>1. PICK i \in Q : Q = {i}
      BY <1>2, <2>2
    <3> QED
      BY <3>1, FS_Singleton
  <2> QED
    BY <2>1, <2>2
<1>4. Entries(HighValue, lines, sku) \in {0, 1}
  BY DEF Entries, HighValue
<1> QED
  BY <1>1, <1>3, <1>4

(***************************************************************************)
(* Of a portfolio with one line per product no discount is taken twice: a   *)
(* product's discounts add up to nothing, to 10 or to 20 per cent.          *)
(***************************************************************************)
THEOREM DiscountBounded ==
    ASSUME NEW lines \in Seq(Line), OnePerSku(lines), NEW sku
    PROVE  DiscountPct(Policies, lines, sku) \in {0, 10, 20}
<1> DEFINE f == [p \in DOMAIN Policies |->
                    Policies[p].discount_pct * Entries(Policies[p], lines, sku)]
<1>1. f[1] = 10 * Entries(LongContract, lines, sku) /\ f[2] = 10 * Entries(HighValue, lines, sku)
  BY TwoPolicies DEF LongContract, HighValue
<1>2. DOMAIN f = {1, 2}
  BY TwoPolicies
<1>3. f[1] \in {0, 10} /\ f[2] \in {0, 10}
  BY <1>1, EnteredOnce
<1>4. DiscountPct(Policies, lines, sku) = SumFunction(f)
  BY DEF DiscountPct
<1> HIDE DEF f
<1> QED
  BY <1>2, <1>3, <1>4, SumOfTwo

-----------------------------------------------------------------------------
(* Portfolios that agree on all but their charges have the same discounts.    *)

Alike(lines, others) ==
    /\ DOMAIN others = DOMAIN lines
    /\ \A i \in DOMAIN lines :
          /\ others[i].sku = lines[i].sku /\ others[i].stat = lines[i].stat
          /\ others[i].list = lines[i].list /\ others[i].term = lines[i].term

LEMMA AlikeActive ==
    ASSUME NEW lines, NEW others, Alike(lines, others)
    PROVE  Active(others) = Active(lines) /\ ActiveSkus(others) = ActiveSkus(lines)
  BY DEF Alike, Active, ActiveSkus

LEMMA AlikeDiscounts ==
    ASSUME NEW lines \in Seq(Line), NEW others \in Seq(Line), Alike(lines, others), NEW sku
    PROVE  DiscountPct(Policies, others, sku) = DiscountPct(Policies, lines, sku)
<1>1. \A i \in DOMAIN lines : /\ Field(others[i], "term") = Field(lines[i], "term")
                              /\ Field(others[i], "list") = Field(lines[i], "list")
  <2> SUFFICES ASSUME NEW i \in DOMAIN lines
               PROVE  /\ Field(others[i], "term") = Field(lines[i], "term")
                      /\ Field(others[i], "list") = Field(lines[i], "list")
    OBVIOUS
  <2>1. lines[i] \in Line /\ others[i] \in Line
    BY DEF Alike
  <2> QED
    BY <2>1, LineFields DEF Alike
<1>2. Entries(LongContract, others, sku) = Entries(LongContract, lines, sku)
  <2> DEFINE rule == LongContract.rule
             Q(l) == {i \in Satisfying(l, rule.match_field, rule.operator, rule.threshold) :
                         l[i].sku = sku}
  <2>1. \A l : Entries(LongContract, l, sku) = Cardinality(Q(l))
    BY DEF Entries, LongContract
  <2>2. Q(others) = Q(lines)
    <3>1. \A i : i \in Q(others) <=> i \in Q(lines)
      BY <1>1, AlikeActive DEF Satisfying, LongContract, Active, Alike
    <3> HIDE DEF Q
    <3> QED
      BY <3>1
  <2> QED
    BY <2>1, <2>2
<1>3. Entries(HighValue, others, sku) = Entries(HighValue, lines, sku)
  <2>1. Total(others, "list") = Total(lines, "list")
    <3>1. [i \in Active(others) |-> Field(others[i], "list")]
              = [i \in Active(lines) |-> Field(lines[i], "list")]
      BY <1>1, AlikeActive DEF Active
    <3> QED
      BY <3>1 DEF Total
  <2> DEFINE rule == HighValue.rule
  <2>2. rule.scope = "portfolio" /\ rule.aggregate = "sum" /\ rule.match_field = "list"
    BY DEF HighValue
  <2>4. \A l : Fires(HighValue, l) <=> Compare(Total(l, "list"), rule.operator, rule.threshold)
    BY <2>2, Zenon DEF Fires, AggregateReached
  <2>3. \A l : Entries(HighValue, l, sku)
                  = IF sku \in ActiveSkus(l) /\ Fires(HighValue, l) THEN 1 ELSE 0
    BY DEF Entries, HighValue
  <2> QED
    BY <2>1, <2>3, <2>4, AlikeActive
<1>4. \A p \in DOMAIN Policies : Entries(Policies[p], others, sku) = Entries(Policies[p], lines, sku)
  BY <1>2, <1>3, TwoPolicies
<1>5. [p \in DOMAIN Policies |-> Policies[p].discount_pct * Entries(Policies[p], others, sku)]
          = [p \in DOMAIN Policies |-> Policies[p].discount_pct * Entries(Policies[p], lines, sku)]
  BY <1>4
<1> QED
  BY <1>5 DEF DiscountPct

-----------------------------------------------------------------------------
(* What the writes of Billing do to the lines of a record.                    *)

LEMMA LineExcept ==
    ASSUME NEW line \in Line, NEW pct \in Nat, NEW charge \in Nat
    PROVE  [line EXCEPT !.pct = pct, !.charge = charge] \in Line
  BY DEF Line

\* Rounding keeps an order among prices.
LEMMA PenniesOrdered ==
    ASSUME NEW m \in Nat, NEW n \in Nat
    PROVE  ToThePenny(n) \in Nat /\ (m <= n => ToThePenny(m) <= ToThePenny(n))
  BY DEF ToThePenny

\* An active line is given its discounts, and the price that follows from them.
LEMMA PricedLine ==
    ASSUME NEW lines \in Seq(Line), OnePerSku(lines), NEW i \in DOMAIN lines
    PROVE  /\ DiscountPct(Policies, lines, lines[i].sku) \in Nat
           /\ DiscountedPrice(Policies, lines, i) \in Nat
<1>1. lines[i] \in Line
  OBVIOUS
<1>2. PICK pct \in {0, 10, 20} : pct = DiscountPct(Policies, lines, lines[i].sku)
  BY DiscountBounded
<1>3. PICK list \in Nat : list = ListPrice(lines[i])
  BY <1>1, LineFields
<1>4. DiscountedPrice(Policies, lines, i) = ToThePenny(list * (100 - pct))
  BY <1>2, <1>3 DEF DiscountedPrice
<1>5. list * (100 - pct) \in {list * 100, list * 90, list * 80}
  BY <1>2
<1>6. list * 100 \in Nat /\ list * 90 \in Nat /\ list * 80 \in Nat
  OBVIOUS
<1>7. DiscountedPrice(Policies, lines, i) \in Nat
  BY <1>4, <1>5, <1>6, PenniesOrdered
<1> QED
  BY <1>2, <1>7

LEMMA ReevaluatedLine ==
    ASSUME NEW lines \in Seq(Line), OnePerSku(lines), NEW i \in DOMAIN lines
    PROVE  LET line == Reevaluated(lines)[i]
           IN  /\ line \in Line
               /\ line.sku = lines[i].sku /\ line.stat = lines[i].stat
               /\ line.list = lines[i].list /\ line.term = lines[i].term
               /\ line.stat = "A" => line.charge = DiscountedPrice(Policies, lines, i)
<1>1. lines[i] \in Line
  OBVIOUS
<1>2. CASE lines[i].stat = "A"
  <2>1. PICK pct \in Nat : pct = DiscountPct(Policies, lines, lines[i].sku)
    BY PricedLine
  <2>2. PICK charge \in Nat : charge = DiscountedPrice(Policies, lines, i)
    BY PricedLine
  <2>3. Reevaluated(lines)[i] = [lines[i] EXCEPT !.pct = pct, !.charge = charge]
    BY <1>2, <2>1, <2>2 DEF Reevaluated
  <2>4. PICK line : line = [lines[i] EXCEPT !.pct = pct, !.charge = charge]
    OBVIOUS
  <2>5. line \in Line
    BY <1>1, <2>4, LineExcept
  <2>6. /\ line.sku = lines[i].sku /\ line.stat = lines[i].stat
        /\ line.list = lines[i].list /\ line.term = lines[i].term
        /\ line.charge = charge
    BY <1>1, <2>4 DEF Line
  <2> QED
    BY <2>2, <2>3, <2>4, <2>5, <2>6
<1>3. CASE lines[i].stat # "A"
  <2>1. Reevaluated(lines)[i] = lines[i]
    BY <1>3 DEF Reevaluated
  <2> QED
    BY <1>1, <1>3, <2>1
<1> QED
  BY <1>2, <1>3

\* A reevaluated portfolio is charged what the policies say of it.
Charged(lines) ==
    \A i \in Active(lines) : lines[i].charge = DiscountedPrice(Policies, lines, i)

LEMMA ReevaluatedLines ==
    ASSUME NEW lines \in Seq(Line), OnePerSku(lines)
    PROVE  /\ Reevaluated(lines) \in Seq(Line)
           /\ Alike(lines, Reevaluated(lines))
           /\ OnePerSku(Reevaluated(lines))
           /\ Charged(Reevaluated(lines))
<1>1. PICK later : later = Reevaluated(lines)
  OBVIOUS
<1>2. DOMAIN later = DOMAIN lines /\ DOMAIN later = 1 .. Len(lines)
  <2>1. DOMAIN later = DOMAIN lines
    BY <1>1, Zenon DEF Reevaluated
  <2> QED
    BY <2>1
<1>3. \A i \in DOMAIN lines :
          /\ later[i] \in Line
          /\ later[i].sku = lines[i].sku /\ later[i].stat = lines[i].stat
          /\ later[i].list = lines[i].list /\ later[i].term = lines[i].term
          /\ later[i].stat = "A" => later[i].charge = DiscountedPrice(Policies, lines, i)
  BY <1>1, ReevaluatedLine
<1>4. later \in Seq(Line)
  <2>1. later = [i \in 1 .. Len(lines) |-> later[i]]
    <3>1. later = [i \in DOMAIN lines |-> later[i]]
      BY <1>1, Zenon DEF Reevaluated
    <3> QED
      BY <1>2, <3>1
  <2> QED
    BY <1>2, <1>3, <2>1
<1>5. Alike(lines, later)
  BY <1>2, <1>3 DEF Alike
<1>6. OnePerSku(later)
  BY <1>2, <1>3 DEF OnePerSku
<1>7. Charged(later)
  <2> SUFFICES ASSUME NEW i \in Active(later)
               PROVE  later[i].charge = DiscountedPrice(Policies, later, i)
    BY DEF Charged
  <2>1. i \in DOMAIN lines /\ later[i].stat = "A"
    BY <1>2 DEF Active
  <2>2. later[i].charge = DiscountedPrice(Policies, lines, i)
    BY <1>3, <2>1
  <2>3. ListPrice(later[i]) = ListPrice(lines[i])
    <3>1. lines[i] \in Line /\ later[i] \in Line
      BY <1>3, <2>1
    <3> QED
      BY <1>3, <2>1, <3>1, LineFields
  <2>4. DiscountPct(Policies, later, later[i].sku) = DiscountPct(Policies, lines, lines[i].sku)
    BY <1>3, <1>4, <1>5, <2>1, AlikeDiscounts
  <2> QED
    BY <2>2, <2>3, <2>4 DEF DiscountedPrice
<1> QED
  BY <1>1, <1>4, <1>5, <1>6, <1>7

\* An addition appends a line of a product the record has none of.
LEMMA AppendedLine ==
    ASSUME NEW lines \in Seq(Line), OnePerSku(lines), NEW sku \in Skus, ~Holds(lines, sku),
           NEW list \in Nat, NEW term \in Nat
    PROVE  LET longer == Append(lines, NewLine(sku, list, term))
           IN  /\ longer \in Seq(Line) /\ OnePerSku(longer)
               /\ ActiveSkus(longer) = ActiveSkus(lines) \cup {sku}
               /\ DOMAIN lines \subseteq DOMAIN longer
               /\ \A i \in DOMAIN lines : longer[i] = lines[i]
<1>1. PICK line : line = NewLine(sku, list, term)
  OBVIOUS
<1>2. line \in Line /\ line.sku = sku /\ line.stat = "A"
  BY <1>1 DEF NewLine, Line
<1>3. PICK longer : longer = Append(lines, line)
  OBVIOUS
<1>4. /\ longer \in Seq(Line) /\ DOMAIN longer = DOMAIN lines \cup {Len(lines) + 1}
      /\ \A i \in DOMAIN lines : longer[i] = lines[i]
      /\ longer[Len(lines) + 1] = line
      /\ Len(lines) + 1 \notin DOMAIN lines
  BY <1>2, <1>3
<1>5. OnePerSku(longer)
  BY <1>2, <1>4 DEF OnePerSku, Holds
<1>6. Active(longer) = Active(lines) \cup {Len(lines) + 1}
  BY <1>2, <1>4 DEF Active
<1>7. ActiveSkus(longer) = ActiveSkus(lines) \cup {sku}
  <2>1. \A i \in Active(lines) : longer[i] = lines[i]
    BY <1>4 DEF Active
  <2> QED
    BY <1>2, <1>4, <1>6, <2>1 DEF ActiveSkus
<1> QED
  BY <1>1, <1>3, <1>4, <1>5, <1>7

\* The line of a product the record has is found.
LEMMA FoundLine ==
    ASSUME NEW lines \in Seq(Line), OnePerSku(lines), NEW sku, Holds(lines, sku)
    PROVE  LineOf(lines, sku) \in DOMAIN lines /\ lines[LineOf(lines, sku)].sku = sku
<1>1. PICK i \in DOMAIN lines : lines[i].sku = sku
  BY DEF Holds
<1>2. \A j \in 1 .. i - 1 : j \in DOMAIN lines /\ j # i
  OBVIOUS
<1>3. \A j \in 1 .. i - 1 : lines[j].sku # sku
  BY <1>1, <1>2 DEF OnePerSku
<1> QED
  BY <1>1, <1>3, Zenon DEF LineOf

\* Records of the same products with the same status, line by line.
Similar(lines, others) ==
    /\ DOMAIN others = DOMAIN lines
    /\ \A i \in DOMAIN lines : others[i].sku = lines[i].sku /\ others[i].stat = lines[i].stat

LEMMA SimilarSkus ==
    ASSUME NEW lines, NEW others, Similar(lines, others)
    PROVE  /\ ActiveSkus(others) = ActiveSkus(lines)
           /\ \A sku : Holds(others, sku) <=> Holds(lines, sku)
  BY DEF Similar, Active, ActiveSkus, Holds

\* A recalculation changes list prices and charges, and leaves products and statuses alone.
LEMMA RepricedLines ==
    ASSUME NEW lines \in Seq(Line), OnePerSku(lines), NEW sku, NEW list \in Nat
    PROVE  LET later == Repriced(lines, sku, list)
           IN  /\ later \in Seq(Line) /\ OnePerSku(later)
               /\ Similar(lines, later) /\ Charged(later)
               /\ \A i \in DOMAIN lines :
                     later[i].list = IF lines[i].sku = sku /\ lines[i].stat # "C" THEN list
                                     ELSE lines[i].list
<1>1. PICK listed :
          listed = [i \in DOMAIN lines |-> IF lines[i].sku = sku /\ lines[i].stat # "C"
                                           THEN [lines[i] EXCEPT !.list = list] ELSE lines[i]]
  OBVIOUS
<1>2. DOMAIN listed = DOMAIN lines
  BY <1>1
<1>3. \A i \in DOMAIN lines : /\ listed[i] \in Line
                              /\ listed[i].sku = lines[i].sku /\ listed[i].stat = lines[i].stat
  <2> SUFFICES ASSUME NEW i \in DOMAIN lines
               PROVE  /\ listed[i] \in Line
                      /\ listed[i].sku = lines[i].sku /\ listed[i].stat = lines[i].stat
    OBVIOUS
  <2>1. lines[i] \in Line
    OBVIOUS
  <2>2. listed[i] \in {lines[i], [lines[i] EXCEPT !.list = list]}
    BY <1>1
  <2> QED
    BY <2>1, <2>2 DEF Line
<1>4. listed \in Seq(Line)
  <2>1. DOMAIN lines = 1 .. Len(lines)
    OBVIOUS
  <2>2. listed = [i \in 1 .. Len(lines) |-> listed[i]]
    <3>1. listed = [i \in DOMAIN lines |-> listed[i]]
      BY <1>1, Zenon
    <3> QED
      BY <2>1, <3>1
  <2> QED
    BY <1>3, <2>1, <2>2
<1>5. OnePerSku(listed)
  BY <1>2, <1>3 DEF OnePerSku
<1>6. Repriced(lines, sku, list) = Reevaluated(listed)
  BY <1>1, Zenon DEF Repriced
<1>7. PICK later : later = Reevaluated(listed)
  OBVIOUS
<1>8. later \in Seq(Line) /\ Alike(listed, later) /\ OnePerSku(later) /\ Charged(later)
  BY <1>4, <1>5, <1>7, ReevaluatedLines
<1>9. Similar(lines, later)
  BY <1>2, <1>3, <1>8 DEF Similar, Alike
<1>10. ASSUME NEW i \in DOMAIN lines
       PROVE  later[i].list = IF lines[i].sku = sku /\ lines[i].stat # "C" THEN list ELSE lines[i].list
  <2>1. PICK line \in Line : line = lines[i]
    BY <1>10
  <2>2. listed[i] = IF line.sku = sku /\ line.stat # "C" THEN [line EXCEPT !.list = list] ELSE line
    BY <1>1, <1>10, <2>1
  <2>3. [line EXCEPT !.list = list].list = list
    BY DEF Line
  <2>4. later[i].list = listed[i].list
    BY <1>2, <1>8, <1>10 DEF Alike
  <2> QED
    BY <2>1, <2>2, <2>3, <2>4
<1> QED
  BY <1>6, <1>7, <1>8, <1>9, <1>10

\* An update sets the status or the charge of one line.
LEMMA UpdatedLines ==
    ASSUME NEW lines \in Seq(Line), OnePerSku(lines), NEW req, Holds(lines, req.sku),
           req.stat \in {"A", "S", "C", Kept}, req.charge \in Nat \cup {KeptCharge}
    PROVE  LET n     == LineOf(lines, req.sku)
               later == [lines EXCEPT ![n] = Updated(@, req)]
           IN  /\ later \in Seq(Line) /\ OnePerSku(later)
               /\ DOMAIN later = DOMAIN lines
               /\ \A i \in DOMAIN lines : /\ later[i].sku = lines[i].sku
                                           /\ later[i].list = lines[i].list
                                           /\ (later[i] = lines[i] \/ i = n)
                                           /\ later[i].stat \in {lines[i].stat, req.stat}
<1>1. PICK n : n = LineOf(lines, req.sku)
  OBVIOUS
<1>2. n \in DOMAIN lines
  BY <1>1, FoundLine
<1>3. PICK line : line = Updated(lines[n], req)
  OBVIOUS
<1>4. lines[n] \in Line
  BY <1>2
<1>5. /\ line \in Line /\ line.sku = lines[n].sku /\ line.list = lines[n].list
      /\ line.stat \in {lines[n].stat, req.stat}
  BY <1>3, <1>4 DEF Updated, Line, Kept, KeptCharge
<1>6. PICK later : later = [lines EXCEPT ![n] = line]
  OBVIOUS
<1>7. /\ later \in Seq(Line) /\ DOMAIN later = DOMAIN lines
      /\ \A i \in DOMAIN lines : later[i] = IF i = n THEN line ELSE lines[i]
  BY <1>2, <1>5, <1>6
<1>8. OnePerSku(later)
  BY <1>2, <1>5, <1>7 DEF OnePerSku
<1>9. later = [lines EXCEPT ![LineOf(lines, req.sku)] = Updated(@, req)]
  BY <1>1, <1>3, <1>6
<1> QED
  BY <1>1, <1>2, <1>5, <1>7, <1>8, <1>9
=============================================================================
