---------------------------- MODULE UpgradesProofs ----------------------------
(***************************************************************************)
(* Version.Compare orders the versions totally, whatever their length and  *)
(* whatever the width of an integer, and no sequence of upgrades leads     *)
(* back.  Where the code defines a number by recursion the proof is by     *)
(* induction, through the smallest counterexample.                         *)
(***************************************************************************)
EXTENDS Upgrades, WellFoundedInduction, SequenceTheorems, TLAPS

-----------------------------------------------------------------------------
(* Induction                                                               *)

\* Every set of natural numbers has a smallest one.
LEMMA Smallest ==
    ASSUME NEW some \in SUBSET Nat, some # {}
    PROVE  \E x \in some : \A y \in some : x <= y
<1> DEFINE less == {pair \in Nat \X Nat : pair[1] < pair[2]}
<1>1. IsWellFoundedOn(less, Nat)
  BY NatLessThanWellFounded DEF OpToRel
<1>0. \A x, y \in Nat : <<y, x>> \in less <=> y < x
  OBVIOUS
<1> HIDE DEF less
<1>2. \E x \in some : \A y \in some : ~(<<y, x>> \in less)
  BY <1>1, WFMin
<1>3. PICK x \in some : \A y \in some : ~(<<y, x>> \in less)
  BY <1>2
<1>4. \A y \in some : x \in Nat /\ y \in Nat /\ ~(y < x)
  BY <1>3, <1>0
<1> QED
  BY <1>4

\* Induction: a set of numbers with 0, and with the successor of each of its elements.
LEMMA Induction ==
    ASSUME NEW S, 0 \in S, \A n \in Nat : n \in S => n + 1 \in S
    PROVE  Nat \subseteq S
<1> SUFFICES ASSUME Nat \ S # {} PROVE FALSE
  OBVIOUS
<1>1. PICK x \in Nat \ S : \A y \in Nat \ S : x <= y
  BY Smallest
<1>2. x - 1 \in Nat /\ ~(x <= x - 1)
  BY <1>1
<1>3. x - 1 \in S
  BY <1>1, <1>2
<1>4. (x - 1) + 1 \in S
  BY <1>2, <1>3
<1> QED
  BY <1>1, <1>4

-----------------------------------------------------------------------------
(* The value of an identifier                                              *)

\* The numbers that the first digits stand for.
Values(id, f, top) ==
    f = [n \in 0 .. top |-> IF n = 0 THEN 0 ELSE f[n - 1] * Base + id[n]]

\* There are such numbers, and they are integers.
LEMMA ValuesExist ==
    ASSUME NEW id \in Seq(Int)
    PROVE  \A top \in 0 .. Len(id) : \E f \in [0 .. top -> Int] : Values(id, f, top)
<1> DEFINE S == {top \in Nat : top <= Len(id) =>
                    \E f \in [0 .. top -> Int] : Values(id, f, top)}
<1>0. Base \in Int /\ Len(id) \in Nat /\ \A i \in 1 .. Len(id) : id[i] \in Int
  BY WidthAssumption
<1>1. 0 \in S
  <2> DEFINE f == [n \in 0 .. 0 |-> 0]
  <2>1. f \in [0 .. 0 -> Int] /\ Values(id, f, 0)
    BY DEF Values
  <2> QED
    BY <2>1
<1>2. ASSUME NEW top \in Nat, top \in S PROVE top + 1 \in S
  <2> SUFFICES ASSUME top + 1 <= Len(id)
               PROVE  \E g \in [0 .. top + 1 -> Int] : Values(id, g, top + 1)
    OBVIOUS
  <2>1. PICK f \in [0 .. top -> Int] : Values(id, f, top)
    BY <1>0, <1>2
  <2> DEFINE g == [n \in 0 .. top + 1 |-> IF n = top + 1 THEN f[top] * Base + id[top + 1]
                                                         ELSE f[n]]
  <2>2. id[top + 1] \in Int /\ f[top] \in Int
    BY <1>0
  <2>3. f[top] * Base + id[top + 1] \in Int
    BY <1>0, <2>2
  <2>4. g \in [0 .. top + 1 -> Int]
    BY <2>3
  <2>5. \A n \in 0 .. top + 1 :
           g[n] = IF n = 0 THEN 0 ELSE g[n - 1] * Base + id[n]
    <3> TAKE n \in 0 .. top + 1
    <3>1. CASE n = top + 1
      BY <3>1
    <3>2. CASE n # top + 1
      <4>1. n \in 0 .. top /\ (n # 0 => n - 1 \in 0 .. top)
        BY <3>2
      <4>2. f[n] = IF n = 0 THEN 0 ELSE f[n - 1] * Base + id[n]
        BY <4>1, <2>1 DEF Values
      <4> QED
        BY <4>1, <4>2
    <3> QED
      BY <3>1, <3>2
  <2>6. Values(id, g, top + 1)
    BY <2>4, <2>5 DEF Values
  <2> QED
    BY <2>4, <2>6
<1> HIDE DEF S
<1>3. Nat \subseteq S
  BY <1>1, <1>2, Induction
<1> QED
  BY <1>0, <1>3 DEF S

\* What the code computes, digit by digit.
LEMMA ValueByDigits ==
    ASSUME NEW id \in Seq(Int)
    PROVE  \E f \in [0 .. Len(id) -> Int] :
              /\ f[0] = 0
              /\ \A n \in 1 .. Len(id) : f[n] = f[n - 1] * Base + id[n]
              /\ Value(id) = f[Len(id)]
<1> DEFINE g == CHOOSE f : Values(id, f, Len(id))
<1>1. Values(id, g, Len(id))
  BY ValuesExist, Len(id) \in 0 .. Len(id)
<1>2. Value(id) = g[Len(id)]
  BY DEF Value, Values
<1> HIDE DEF g
<1>3. /\ g[0] = 0
      /\ \A n \in 1 .. Len(id) : g[n] = g[n - 1] * Base + id[n]
      /\ g = [n \in 0 .. Len(id) |-> g[n]]
  <2>1. Len(id) \in Nat
    OBVIOUS
  <2>2. g = [n \in 0 .. Len(id) |-> IF n = 0 THEN 0 ELSE g[n - 1] * Base + id[n]]
    BY <1>1 DEF Values
  <2>3. \A n \in 0 .. Len(id) : g[n] = IF n = 0 THEN 0 ELSE g[n - 1] * Base + id[n]
    BY <2>2
  <2>4. g[0] = 0 /\ \A n \in 1 .. Len(id) : g[n] = g[n - 1] * Base + id[n]
    BY <2>1, <2>3
  <2>5. g = [n \in 0 .. Len(id) |-> g[n]]
    BY <2>2
  <2> QED
    BY <2>4, <2>5
<1>4. Base \in Int /\ Len(id) \in Nat /\ \A i \in 1 .. Len(id) : id[i] \in Int
  BY WidthAssumption
<1> DEFINE S == {n \in Nat : n <= Len(id) => g[n] \in Int}
<1>5. ASSUME NEW n \in Nat, n \in S PROVE n + 1 \in S
  <2> SUFFICES ASSUME n + 1 <= Len(id) PROVE g[n + 1] \in Int
    OBVIOUS
  <2>1. g[n] \in Int /\ id[n + 1] \in Int /\ g[n + 1] = g[(n + 1) - 1] * Base + id[n + 1]
    <3>1. n \in 0 .. Len(id) /\ n + 1 \in 1 .. Len(id)
      BY <1>4
    <3>2. g[n] \in Int
      BY <1>4, <1>5
    <3> QED
      BY <1>3, <1>4, <3>1, <3>2
  <2>2. (n + 1) - 1 = n
    OBVIOUS
  <2> QED
    BY <1>4, <2>1, <2>2
<1>6. 0 \in S
  BY <1>3
<1> HIDE DEF S
<1>7. Nat \subseteq S
  BY <1>5, <1>6, Induction
<1>8. g \in [0 .. Len(id) -> Int]
  <2>1. \A n \in 0 .. Len(id) : g[n] \in Int
    BY <1>4, <1>7 DEF S
  <2> QED
    BY <1>3, <2>1
<1> QED
  BY <1>2, <1>3, <1>8

\* The value of an identifier is an integer.
LEMMA ValueType == \A id \in Seq(Int) : Value(id) \in Int
<1> TAKE id \in Seq(Int)
<1>1. PICK f \in [0 .. Len(id) -> Int] : Value(id) = f[Len(id)]
  BY ValueByDigits
<1> QED
  BY <1>1

-----------------------------------------------------------------------------
(* Comparisons and their signs                                             *)

Signs == {-1, 0, 1}

\* How the signs of a with b and of b with c determine the sign of a with c.
Chain(x, y, z) == (x = 0 => z = y) /\ (y = 0 => z = x) /\ (x = y => z = x)

\* x is the first sign of e that is no tie, 0 if there is none.
Decides(e, x) ==
    \/ x = 0 /\ \A k \in Nat \ {0} : e[k] = 0
    \/ x # 0 /\ \E k \in Nat \ {0} : e[k] = x /\ \A j \in 1 .. k - 1 : e[j] = 0

\* Signs of differences are antisymmetric and chain.
LEMMA SignFacts ==
    /\ \A n \in Int : Sign(n) \in Signs /\ (Sign(n) = 0 <=> n = 0) /\ (Sign(n) = 1 <=> n > 0)
    /\ \A m, n \in Int : Sign(m - n) = -Sign(n - m)
    /\ \A l, m, n \in Int : Chain(Sign(l - m), Sign(m - n), Sign(l - n))
BY DEF Sign, Signs, Chain

\* Signs that are chained one by one are chained by the first one that is no tie.
LEMMA LexicographicChain ==
    ASSUME NEW ab \in [Nat \ {0} -> Signs], NEW bc \in [Nat \ {0} -> Signs],
           NEW ac \in [Nat \ {0} -> Signs],
           \A k \in Nat \ {0} : Chain(ab[k], bc[k], ac[k]),
           NEW x \in Signs, NEW y \in Signs, NEW z \in Signs,
           Decides(ab, x), Decides(bc, y), Decides(ac, z)
    PROVE  Chain(x, y, z)
<1> DEFINE Pos == Nat \ {0}
           First(e, s, k) == k \in Pos /\ e[k] = s /\ \A j \in 1 .. k - 1 : e[j] = 0
<1>1. ASSUME x = 0, y = 0 PROVE z = 0
  BY <1>1 DEF Decides, Chain
<1>2. ASSUME x = 0, y # 0 PROVE z = y
  <2>1. PICK k \in Pos : First(bc, y, k)
    BY <1>2 DEF Decides
  <2>2. First(ac, y, k)
    BY <1>2, <2>1 DEF Decides, Chain
  <2> QED
    BY <1>2, <2>1, <2>2 DEF Decides
<1>3. ASSUME x # 0, y = 0 PROVE z = x
  <2>1. PICK k \in Pos : First(ab, x, k)
    BY <1>3 DEF Decides
  <2>2. First(ac, x, k)
    BY <1>3, <2>1 DEF Decides, Chain
  <2> QED
    BY <1>3, <2>1, <2>2 DEF Decides
<1>4. ASSUME x # 0, y = x PROVE z = x
  <2>1. PICK k \in Pos : First(ab, x, k)
    BY <1>4 DEF Decides
  <2>2. PICK l \in Pos : First(bc, x, l)
    BY <1>4 DEF Decides
  <2>3. PICK m \in Pos : First(ac, x, m)
    <3>1. CASE k < l
      <4>1. bc[k] = 0 /\ \A j \in 1 .. k - 1 : j \in Pos /\ ab[j] = 0 /\ bc[j] = 0
        BY <2>1, <2>2, <3>1
      <4>2. First(ac, x, k)
        BY <2>1, <4>1 DEF Chain
      <4> QED
        BY <4>2
    <3>2. CASE l < k
      <4>1. ab[l] = 0 /\ \A j \in 1 .. l - 1 : j \in Pos /\ ab[j] = 0 /\ bc[j] = 0
        BY <2>1, <2>2, <3>2
      <4>2. First(ac, x, l)
        BY <2>2, <4>1 DEF Chain
      <4> QED
        BY <4>2
    <3>3. CASE k = l
      <4>1. \A j \in 1 .. k - 1 : j \in Pos /\ ab[j] = 0 /\ bc[j] = 0
        BY <2>1, <2>2, <3>3
      <4>2. First(ac, x, k)
        BY <2>1, <2>2, <3>3, <4>1 DEF Chain
      <4> QED
        BY <4>2
    <3> QED
      BY <3>1, <3>2, <3>3
  <2> QED
    BY <1>4, <2>3 DEF Decides
<1> QED
  BY <1>1, <1>2, <1>3, <1>4 DEF Chain

\* The signs in order, with the resort behind them.
Continued(n, signs, resort) ==
    [k \in Nat \ {0} |-> IF k <= n THEN signs[k] ELSE IF k = n + 1 THEN resort ELSE 0]

\* FirstOf returns the first sign that is no tie, and the resort behind them.
LEMMA FirstOfDecides ==
    ASSUME NEW n \in Nat, NEW signs \in [1 .. n -> Signs], NEW resort \in Signs
    PROVE  /\ FirstOf(signs, resort) \in Signs
           /\ Decides(Continued(n, signs, resort), FirstOf(signs, resort))
<1> USE DEF Continued
<1> DEFINE e == Continued(n, signs, resort)
           decisive == {i \in DOMAIN signs : signs[i] # 0}
<1>1. DOMAIN signs = 1 .. n
  OBVIOUS
<1>2. CASE decisive = {}
  <2>1. FirstOf(signs, resort) = resort
    BY <1>2 DEF FirstOf
  <2>2. \A j \in 1 .. n : e[j] = 0
    BY <1>1, <1>2
  <2>3. CASE resort = 0
    <3>1. \A k \in Nat \ {0} : e[k] = 0
      <4> TAKE k \in Nat \ {0}
      <4>1. k \in 1 .. n => e[k] = 0
        BY <2>2
      <4> QED
        BY <2>3, <4>1
    <3> QED
      BY <2>1, <2>3, <3>1 DEF Decides, Signs
  <2>4. CASE resort # 0
    <3>1. n + 1 \in Nat \ {0} /\ e[n + 1] = resort /\ \A j \in 1 .. (n + 1) - 1 : e[j] = 0
      BY <2>2
    <3> QED
      BY <2>1, <2>4, <3>1 DEF Decides
  <2> QED
    BY <2>3, <2>4
<1>3. CASE decisive # {}
  <2> DEFINE k == CHOOSE i \in decisive : \A j \in decisive : i <= j
  <2>1. k \in decisive /\ \A j \in decisive : k <= j
    <3>1. decisive \in SUBSET Nat
      BY <1>1
    <3> QED
      BY <1>3, <3>1, Smallest
  <2>2. FirstOf(signs, resort) = signs[k]
    BY <1>3 DEF FirstOf
  <2> HIDE DEF k
  <2>3. k \in 1 .. n /\ signs[k] # 0 /\ \A j \in 1 .. n : signs[j] # 0 => k <= j
    BY <1>1, <2>1
  <2>4. e[k] = signs[k] /\ \A j \in 1 .. k - 1 : e[j] = 0
    BY <2>3
  <2> QED
    BY <2>2, <2>3, <2>4 DEF Decides
<1> QED
  BY <1>2, <1>3

-----------------------------------------------------------------------------
(* Orders                                                                  *)

\* The signs of cmp order X totally: elements that tie are equivalent.
Ordered(cmp, X) ==
    /\ cmp \in [X \X X -> Signs]
    /\ \A a \in X : cmp[<<a, a>>] = 0
    /\ \A a, b, c \in X : Chain(cmp[<<a, b>>], cmp[<<b, c>>], cmp[<<a, c>>])

\* The order of sequences, element by element and then by length, as the code has it
\* for texts and for prereleases.
Lexicographic(cmp, a, b) ==
    FirstOf([i \in 1 .. Shorter(a, b) |-> cmp[<<a[i], b[i]>>]], Sign(Len(a) - Len(b)))

\* The same, one place after the other: what is missing is below everything.
Places(cmp, a, b) ==
    [k \in Nat \ {0} |-> IF k <= Len(a) /\ k <= Len(b) THEN cmp[<<a[k], b[k]>>]
                         ELSE IF k <= Len(b) THEN -1 ELSE IF k <= Len(a) THEN 1 ELSE 0]

\* Whoever compares the other way round gets the opposite sign.
LEMMA Mirrored ==
    ASSUME NEW X, NEW cmp, Ordered(cmp, X), NEW a \in X, NEW b \in X
    PROVE  cmp[<<b, a>>] = -cmp[<<a, b>>]
<1>1. /\ cmp[<<a, b>>] \in Signs /\ cmp[<<b, a>>] \in Signs /\ cmp[<<a, a>>] = 0
      /\ Chain(cmp[<<a, b>>], cmp[<<b, a>>], cmp[<<a, a>>])
  BY DEF Ordered
<1> QED
  BY <1>1 DEF Chain, Signs

\* Lexicographic order is decided by the first position that is no tie.
LEMMA LexicographicDecided ==
    ASSUME NEW X, NEW cmp, Ordered(cmp, X), NEW a \in Seq(X), NEW b \in Seq(X)
    PROVE  /\ Places(cmp, a, b) \in [Nat \ {0} -> Signs]
           /\ Lexicographic(cmp, a, b) \in Signs
           /\ Decides(Places(cmp, a, b), Lexicographic(cmp, a, b))
<1> DEFINE n == Shorter(a, b)
           signs == [i \in 1 .. n |-> cmp[<<a[i], b[i]>>]]
           resort == Sign(Len(a) - Len(b))
           x == Lexicographic(cmp, a, b)
           e == Continued(n, signs, resort)
           f == Places(cmp, a, b)
<1>1. /\ Len(a) \in Nat /\ Len(b) \in Nat
      /\ n \in Nat /\ n <= Len(a) /\ n <= Len(b) /\ (n = Len(a) \/ n = Len(b))
  BY DEF Shorter
<1>2. \A i \in 1 .. Len(a), j \in 1 .. Len(b) : cmp[<<a[i], b[j]>>] \in Signs
  <2> TAKE i \in 1 .. Len(a), j \in 1 .. Len(b)
  <2>1. a[i] \in X /\ b[j] \in X
    OBVIOUS
  <2> QED
    BY <2>1 DEF Ordered
<1>3. f \in [Nat \ {0} -> Signs]
  <2>1. ASSUME NEW k \in Nat \ {0}, k <= Len(a) /\ k <= Len(b)
        PROVE  cmp[<<a[k], b[k]>>] \in Signs
    BY <1>1, <1>2, <2>1
  <2>2. -1 \in Signs /\ 1 \in Signs /\ 0 \in Signs
    BY DEF Signs
  <2> QED
    BY <2>1, <2>2 DEF Places
<1>4. signs \in [1 .. n -> Signs]
  BY <1>1, <1>2
<1>5. resort \in Signs /\ (resort = 0 <=> Len(a) = Len(b)) /\ (resort = 1 <=> Len(a) > Len(b))
  BY <1>1, SignFacts
<1>6. x \in Signs /\ Decides(e, x)
  <2> HIDE DEF signs, n, resort
  <2> QED
    BY <1>1, <1>4, <1>5, FirstOfDecides DEF Lexicographic, signs, n, resort
<1>7. \A k \in 1 .. n + 1 : f[k] = e[k]
  <2> TAKE k \in 1 .. n + 1
  <2>1. CASE k <= n
    <3>1. k \in 1 .. n /\ k \in Nat \ {0} /\ k <= Len(a) /\ k <= Len(b)
      BY <1>1, <2>1
    <3>2. e[k] = cmp[<<a[k], b[k]>>]
      BY <3>1 DEF Continued
    <3>3. f[k] = cmp[<<a[k], b[k]>>]
      BY <3>1 DEF Places
    <3> QED
      BY <3>2, <3>3
  <2>2. CASE k = n + 1
    <3>1. e[k] = resort
      BY <1>1, <2>2 DEF Continued
    <3>2. f[k] = IF Len(a) = Len(b) THEN 0 ELSE IF Len(a) > Len(b) THEN 1 ELSE -1
      BY <1>1, <2>2 DEF Places
    <3>3. resort = 0 \/ resort = 1 \/ resort = -1
      BY <1>5 DEF Signs
    <3> HIDE DEF e, f, n, resort
    <3> QED
      BY <1>1, <1>5, <3>1, <3>2, <3>3, <2>2
  <2> QED
    BY <1>1, <2>1, <2>2
<1>8. \A k \in Nat \ {0} : k > n + 1 => e[k] = 0
  BY <1>1 DEF Continued
<1>9. (\A k \in Nat \ {0} : k > Len(a) /\ k > Len(b) => f[k] = 0)
  BY <1>1 DEF Places
<1> HIDE DEF n, signs, resort, x, e, f
<1>10. CASE x = 0
  <2>1. \A k \in 1 .. n + 1 : f[k] = 0
    BY <1>1, <1>6, <1>7, <1>10 DEF Decides
  <2>2. e[n + 1] = 0 /\ e[n + 1] = resort
    BY <1>1, <1>6, <1>10 DEF Decides, e, Continued
  <2>3. \A k \in Nat \ {0} : f[k] = 0
    BY <1>1, <1>5, <1>9, <2>1, <2>2
  <2> QED
    BY <1>3, <1>6, <1>10, <2>3 DEF Decides, f, x
<1>11. CASE x # 0
  <2>1. PICK k \in Nat \ {0} : e[k] = x /\ \A j \in 1 .. k - 1 : e[j] = 0
    BY <1>6, <1>11 DEF Decides
  <2>2. k \in 1 .. n + 1
    BY <1>1, <1>8, <1>11, <2>1
  <2>3. f[k] = x /\ \A j \in 1 .. k - 1 : f[j] = 0
    BY <1>1, <1>7, <2>1, <2>2
  <2> QED
    BY <1>3, <1>6, <1>11, <2>3 DEF Decides, f, x
<1> QED
  BY <1>10, <1>11

\* An order of elements orders the sequences of them.
LEMMA LexicographicOrdered ==
    ASSUME NEW X, NEW cmp, Ordered(cmp, X)
    PROVE  Ordered([pair \in Seq(X) \X Seq(X) |-> Lexicographic(cmp, pair[1], pair[2])], Seq(X))
<1>1. ASSUME NEW a \in Seq(X), NEW b \in Seq(X) PROVE Lexicographic(cmp, a, b) \in Signs
  BY LexicographicDecided
<1>2. ASSUME NEW a \in Seq(X) PROVE Lexicographic(cmp, a, a) = 0
  <2>1. \A k \in 1 .. Len(a) : a[k] \in X /\ cmp[<<a[k], a[k]>>] = 0
    BY DEF Ordered
  <2>2. Len(a) \in Nat
    OBVIOUS
  <2>3. \A k \in Nat \ {0} : Places(cmp, a, a)[k] = 0
    BY <2>1, <2>2 DEF Places
  <2>4. Decides(Places(cmp, a, a), Lexicographic(cmp, a, a))
    BY LexicographicDecided
  <2> QED
    BY <2>3, <2>4 DEF Decides
<1>3. ASSUME NEW a \in Seq(X), NEW b \in Seq(X), NEW c \in Seq(X)
      PROVE  Chain(Lexicographic(cmp, a, b), Lexicographic(cmp, b, c), Lexicographic(cmp, a, c))
  <2> DEFINE ab == Places(cmp, a, b)
             bc == Places(cmp, b, c)
             ac == Places(cmp, a, c)
  <2>1. ASSUME NEW k \in Nat \ {0} PROVE Chain(ab[k], bc[k], ac[k])
    <3>1. Len(a) \in Nat /\ Len(b) \in Nat /\ Len(c) \in Nat
      OBVIOUS
    <3>2. /\ k <= Len(a) => a[k] \in X
          /\ k <= Len(b) => b[k] \in X
          /\ k <= Len(c) => c[k] \in X
      OBVIOUS
    <3>3. CASE k <= Len(a) /\ k <= Len(b) /\ k <= Len(c)
      <4>1. Chain(cmp[<<a[k], b[k]>>], cmp[<<b[k], c[k]>>], cmp[<<a[k], c[k]>>])
        BY <3>2, <3>3 DEF Ordered
      <4> QED
        BY <3>3, <4>1 DEF Places
    <3>4. CASE ~(k <= Len(a) /\ k <= Len(b) /\ k <= Len(c))
      <4>1. ab[k] \in Signs /\ bc[k] \in Signs /\ ac[k] \in Signs
        <5>1. /\ ab \in [Nat \ {0} -> Signs]
              /\ bc \in [Nat \ {0} -> Signs]
              /\ ac \in [Nat \ {0} -> Signs]
          BY LexicographicDecided
        <5> HIDE DEF ab, bc, ac
        <5> QED
          BY <5>1
      <4>2. /\ k <= Len(a) /\ k > Len(b) => ab[k] = 1
            /\ k > Len(a) /\ k <= Len(b) => ab[k] = -1
            /\ k > Len(a) /\ k > Len(b) => ab[k] = 0
            /\ k <= Len(b) /\ k > Len(c) => bc[k] = 1
            /\ k > Len(b) /\ k <= Len(c) => bc[k] = -1
            /\ k > Len(b) /\ k > Len(c) => bc[k] = 0
            /\ k <= Len(a) /\ k > Len(c) => ac[k] = 1
            /\ k > Len(a) /\ k <= Len(c) => ac[k] = -1
            /\ k > Len(a) /\ k > Len(c) => ac[k] = 0
        BY <3>1 DEF Places
      <4> HIDE DEF ab, bc, ac
      <4> QED
        BY <3>1, <3>4, <4>1, <4>2 DEF Signs, Chain
    <3> QED
      BY <3>3, <3>4
  <2>2. /\ ab \in [Nat \ {0} -> Signs] /\ Decides(ab, Lexicographic(cmp, a, b))
        /\ bc \in [Nat \ {0} -> Signs] /\ Decides(bc, Lexicographic(cmp, b, c))
        /\ ac \in [Nat \ {0} -> Signs] /\ Decides(ac, Lexicographic(cmp, a, c))
    BY LexicographicDecided
  <2> HIDE DEF ab, bc, ac
  <2> QED
    BY <1>1, <2>1, <2>2, LexicographicChain
<1> QED
  BY <1>1, <1>2, <1>3 DEF Ordered

-----------------------------------------------------------------------------
(* The comparisons of the code are orders                                  *)

\* strings.Compare on the characters of an identifier.
CharacterOrder == [pair \in Int \X Int |-> Sign(pair[1] - pair[2])]

TextOrder == [pair \in Seq(Int) \X Seq(Int) |-> CompareText(pair[1], pair[2])]

IdentifierOrder == [pair \in Seq(Int) \X Seq(Int) |-> CompareIdentifiers(pair[1], pair[2])]

PrereleaseOrder ==
    [pair \in Seq(Seq(Int)) \X Seq(Seq(Int)) |-> ComparePrerelease(pair[1], pair[2])]

\* The versions that ParseVersion accepts.
Versions == {v \in Texts : Accepted(v)}

VersionOrder == [pair \in Versions \X Versions |-> Compare(pair[1], pair[2])]

\* Texts are ordered by their characters, one by one.
LEMMA TextsOrdered ==
    /\ Ordered(CharacterOrder, Int)
    /\ \A a, b \in Seq(Int) : CompareText(a, b) = Lexicographic(CharacterOrder, a, b)
    /\ Ordered(TextOrder, Seq(Int))
<1>1. Ordered(CharacterOrder, Int)
  <2>1. \A i, j \in Int : i - j \in Int /\ CharacterOrder[<<i, j>>] = Sign(i - j)
    BY DEF CharacterOrder
  <2>2. CharacterOrder \in [Int \X Int -> Signs]
    BY SignFacts DEF CharacterOrder
  <2>3. \A i \in Int : CharacterOrder[<<i, i>>] = 0
    <3> TAKE i \in Int
    <3>1. i - i = 0 /\ Sign(0) = 0
      BY SignFacts
    <3> QED
      BY <2>1, <3>1
  <2>4. \A i, j, k \in Int :
           Chain(CharacterOrder[<<i, j>>], CharacterOrder[<<j, k>>], CharacterOrder[<<i, k>>])
    <3> TAKE i, j, k \in Int
    <3>1. Chain(Sign(i - j), Sign(j - k), Sign(i - k))
      BY SignFacts
    <3> QED
      BY <2>1, <3>1
  <2> QED
    BY <2>2, <2>3, <2>4 DEF Ordered
<1>2. ASSUME NEW a \in Seq(Int), NEW b \in Seq(Int)
      PROVE  CompareText(a, b) = Lexicographic(CharacterOrder, a, b)
  <2>1. \A i \in 1 .. Shorter(a, b) : CharacterOrder[<<a[i], b[i]>>] = Sign(a[i] - b[i])
    BY DEF CharacterOrder, Shorter
  <2> QED
    BY <2>1 DEF CompareText, Lexicographic
<1>3. TextOrder = [pair \in Seq(Int) \X Seq(Int) |->
                      Lexicographic(CharacterOrder, pair[1], pair[2])]
  BY <1>2 DEF TextOrder
<1> QED
  BY <1>1, <1>2, <1>3, LexicographicOrdered

\* Identifiers, numeric or not, are ordered.
LEMMA IdentifiersOrdered == Ordered(IdentifierOrder, Seq(Int))
<1>1. \A a, b \in Seq(Int) : CompareText(a, b) = TextOrder[<<a, b>>]
  BY DEF TextOrder
<1>2. /\ \A a, b \in Seq(Int) : CompareText(a, b) \in Signs
      /\ \A a \in Seq(Int) : CompareText(a, a) = 0
      /\ \A a, b, c \in Seq(Int) :
            Chain(CompareText(a, b), CompareText(b, c), CompareText(a, c))
  <2> HIDE DEF TextOrder
  <2> QED
    BY <1>1, TextsOrdered DEF Ordered
<1>3. /\ \A a, b \in Seq(Int) : Sign(Value(a) - Value(b)) \in Signs
      /\ \A a \in Seq(Int) : Sign(Value(a) - Value(a)) = 0
      /\ \A a, b, c \in Seq(Int) :
            Chain(Sign(Value(a) - Value(b)), Sign(Value(b) - Value(c)), Sign(Value(a) - Value(c)))
  <2>1. \A a, b \in Seq(Int) : /\ Sign(Value(a) - Value(b)) \in Signs
                               /\ Sign(Value(a) - Value(a)) = 0
    <3> TAKE a, b \in Seq(Int)
    <3>1. Value(a) \in Int /\ Value(b) \in Int
      BY ValueType
    <3>2. Value(a) - Value(b) \in Int /\ Value(a) - Value(a) = 0
      BY <3>1
    <3> QED
      BY <3>2, SignFacts
  <2>2. ASSUME NEW a \in Seq(Int), NEW b \in Seq(Int), NEW c \in Seq(Int)
        PROVE  Chain(Sign(Value(a) - Value(b)), Sign(Value(b) - Value(c)),
                     Sign(Value(a) - Value(c)))
    <3>1. Value(a) \in Int /\ Value(b) \in Int /\ Value(c) \in Int
      BY ValueType
    <3> QED
      BY <3>1, SignFacts
  <2> QED
    BY <2>1, <2>2
<1>4. ASSUME NEW a \in Seq(Int), NEW b \in Seq(Int)
      PROVE  /\ CompareIdentifiers(a, b) \in Signs
             /\ Numeric(a) /\ Numeric(b) =>
                   CompareIdentifiers(a, b) = Sign(Value(a) - Value(b))
             /\ Numeric(a) /\ ~Numeric(b) => CompareIdentifiers(a, b) = -1
             /\ ~Numeric(a) /\ Numeric(b) => CompareIdentifiers(a, b) = 1
             /\ ~Numeric(a) /\ ~Numeric(b) => CompareIdentifiers(a, b) = CompareText(a, b)
  BY <1>2, <1>3 DEF CompareIdentifiers, Signs
<1>5. \A a \in Seq(Int) : CompareIdentifiers(a, a) = 0
  BY <1>2, <1>3, <1>4
<1>6. ASSUME NEW a \in Seq(Int), NEW b \in Seq(Int), NEW c \in Seq(Int)
      PROVE  Chain(CompareIdentifiers(a, b), CompareIdentifiers(b, c), CompareIdentifiers(a, c))
  BY <1>2, <1>3, <1>4 DEF Chain, Signs
<1>7. \A a, b \in Seq(Int) : IdentifierOrder[<<a, b>>] = CompareIdentifiers(a, b)
  BY DEF IdentifierOrder
<1>8. IdentifierOrder \in [Seq(Int) \X Seq(Int) -> Signs]
  BY <1>4 DEF IdentifierOrder
<1> QED
  BY <1>5, <1>6, <1>7, <1>8 DEF Ordered

\* Prereleases are ordered by their identifiers, below having none.
LEMMA PrereleasesOrdered ==
    /\ \A p, q \in Seq(Seq(Int)) : p # <<>> /\ q # <<>> =>
          ComparePrerelease(p, q) = Lexicographic(IdentifierOrder, p, q)
    /\ Ordered(PrereleaseOrder, Seq(Seq(Int)))
<1> DEFINE L(p, q) == Lexicographic(IdentifierOrder, p, q)
           lex == [pair \in Seq(Seq(Int)) \X Seq(Seq(Int)) |-> L(pair[1], pair[2])]
<1>1. ASSUME NEW p \in Seq(Seq(Int)), NEW q \in Seq(Seq(Int)), p # <<>>, q # <<>>
      PROVE  ComparePrerelease(p, q) = L(p, q)
  <2>1. ASSUME NEW i \in 1 .. Shorter(p, q)
        PROVE  IdentifierOrder[<<p[i], q[i]>>] = CompareIdentifiers(p[i], q[i])
    <3>1. p[i] \in Seq(Int) /\ q[i] \in Seq(Int)
      BY DEF Shorter
    <3> QED
      BY <3>1 DEF IdentifierOrder
  <2> QED
    BY <1>1, <2>1 DEF ComparePrerelease, Lexicographic
<1>2. Ordered(lex, Seq(Seq(Int)))
  BY IdentifiersOrdered, LexicographicOrdered
<1>3. \A p, q \in Seq(Seq(Int)) : lex[<<p, q>>] = L(p, q)
  OBVIOUS
<1>4. /\ \A p, q \in Seq(Seq(Int)) : L(p, q) \in Signs
      /\ \A p \in Seq(Seq(Int)) : L(p, p) = 0
      /\ \A p, q, r \in Seq(Seq(Int)) : Chain(L(p, q), L(q, r), L(p, r))
  <2> HIDE DEF lex, L
  <2> QED
    BY <1>2, <1>3 DEF Ordered
<1> HIDE DEF L
<1>5. ASSUME NEW p \in Seq(Seq(Int)), NEW q \in Seq(Seq(Int))
      PROVE  /\ ComparePrerelease(p, q) \in Signs
             /\ p = <<>> /\ q = <<>> => ComparePrerelease(p, q) = 0
             /\ p = <<>> /\ q # <<>> => ComparePrerelease(p, q) = 1
             /\ p # <<>> /\ q = <<>> => ComparePrerelease(p, q) = -1
             /\ p # <<>> /\ q # <<>> => ComparePrerelease(p, q) = L(p, q)
  <2>1. CASE p # <<>> /\ q # <<>>
    BY <1>1, <1>4, <2>1
  <2>2. CASE ~(p # <<>> /\ q # <<>>)
    BY <2>2 DEF ComparePrerelease, Signs
  <2> QED
    BY <2>1, <2>2
<1> DEFINE P(p, q) == ComparePrerelease(p, q)
<1>6. /\ \A p \in Seq(Seq(Int)) : P(p, p) = 0
      /\ \A p, q \in Seq(Seq(Int)) : P(p, q) \in Signs
  BY <1>4, <1>5
<1>7. ASSUME NEW p \in Seq(Seq(Int)), NEW q \in Seq(Seq(Int)), NEW r \in Seq(Seq(Int))
      PROVE  Chain(P(p, q), P(q, r), P(p, r))
  <2> HIDE DEF P
  <2> QED
    BY <1>4, <1>5 DEF Chain, Signs, P
<1>8. \A p, q \in Seq(Seq(Int)) : PrereleaseOrder[<<p, q>>] = P(p, q)
  BY DEF PrereleaseOrder
<1>9. PrereleaseOrder \in [Seq(Seq(Int)) \X Seq(Seq(Int)) -> Signs]
  BY <1>6 DEF PrereleaseOrder
<1> HIDE DEF P
<1>10. Ordered(PrereleaseOrder, Seq(Seq(Int)))
  BY <1>6, <1>7, <1>8, <1>9 DEF Ordered
<1> QED
  BY <1>1, <1>10 DEF L

\* The version order, place by place: MAJOR, MINOR, PATCH and then the prerelease.
Numbers(v, w) == [i \in 1 .. 3 |-> Sign(Value(v.core[i]) - Value(w.core[i]))]

VersionPlaces(v, w) == Continued(3, Numbers(v, w), ComparePrerelease(v.pre, w.pre))

\* What a parsed version consists of.
LEMMA VersionParts ==
    ASSUME NEW v \in Versions
    PROVE  /\ v.pre \in Seq(Seq(Int)) /\ v.core \in Seq(Seq(Int)) /\ Len(v.core) = 3
           /\ \A i \in 1 .. 3 : v.core[i] \in Seq(Int) /\ Value(v.core[i]) \in Int
<1>1. v.pre \in Seq(Seq(Int)) /\ v.core \in Seq(Seq(Int)) /\ Len(v.core) = 3
  BY DEF Versions, Texts, Accepted
<1>2. \A i \in 1 .. 3 : v.core[i] \in Seq(Int)
  BY <1>1
<1> QED
  BY <1>1, <1>2, ValueType

\* Versions are compared by their cores first, then by their prereleases.
LEMMA VersionDecided ==
    ASSUME NEW v \in Versions, NEW w \in Versions
    PROVE  /\ Compare(v, w) \in Signs
           /\ VersionPlaces(v, w) \in [Nat \ {0} -> Signs]
           /\ Decides(VersionPlaces(v, w), Compare(v, w))
<1> DEFINE signs == Numbers(v, w)
           resort == ComparePrerelease(v.pre, w.pre)
<1>1. signs \in [1 .. 3 -> Signs]
  <2>1. ASSUME NEW i \in 1 .. 3 PROVE Sign(Value(v.core[i]) - Value(w.core[i])) \in Signs
    <3>1. Value(v.core[i]) \in Int /\ Value(w.core[i]) \in Int
      BY VersionParts
    <3>2. Value(v.core[i]) - Value(w.core[i]) \in Int
      BY <3>1
    <3> QED
      BY <3>2, SignFacts
  <2> QED
    BY <2>1 DEF Numbers
<1>2. resort \in Signs
  <2>1. v.pre \in Seq(Seq(Int)) /\ w.pre \in Seq(Seq(Int))
    BY VersionParts
  <2>2. PrereleaseOrder[<<v.pre, w.pre>>] = resort
    BY <2>1 DEF PrereleaseOrder
  <2> HIDE DEF resort
  <2> QED
    BY <2>1, <2>2, PrereleasesOrdered DEF Ordered
<1>3. Compare(v, w) = FirstOf(signs, resort)
  BY DEF Compare, Numbers
<1>4. VersionPlaces(v, w) = Continued(3, signs, resort)
  BY DEF VersionPlaces
<1> HIDE DEF signs, resort
<1>5. 0 \in Signs
  BY DEF Signs
<1>6. Continued(3, signs, resort) \in [Nat \ {0} -> Signs]
  BY <1>1, <1>2, <1>5 DEF Continued
<1>7. /\ FirstOf(signs, resort) \in Signs
      /\ Decides(Continued(3, signs, resort), FirstOf(signs, resort))
  <2>1. 3 \in Nat
    OBVIOUS
  <2> QED
    BY <1>1, <1>2, <2>1, FirstOfDecides
<1> QED
  BY <1>3, <1>4, <1>6, <1>7

(***************************************************************************)
(* Version.Compare orders the versions that ParseVersion accepts totally:  *)
(* its signs are chained, and are opposite when the two are swapped        *)
(* (Mirrored).  Versions that tie are of equal precedence.                 *)
(***************************************************************************)
THEOREM VersionsAreOrdered == Ordered(VersionOrder, Versions)
<1>1. VersionOrder \in [Versions \X Versions -> Signs]
  BY VersionDecided DEF VersionOrder
<1>2. \A v, w \in Versions : VersionOrder[<<v, w>>] = Compare(v, w)
  BY DEF VersionOrder
<1> HIDE DEF VersionOrder
<1>3. ASSUME NEW v \in Versions, NEW w \in Versions, NEW k \in Nat \ {0}
      PROVE  VersionPlaces(v, w)[k] =
                IF k <= 3 THEN Sign(Value(v.core[k]) - Value(w.core[k]))
                ELSE IF k = 4 THEN ComparePrerelease(v.pre, w.pre) ELSE 0
  BY DEF VersionPlaces, Continued, Numbers
<1>4. /\ \A p \in Seq(Seq(Int)) : ComparePrerelease(p, p) = 0
      /\ \A p, q, r \in Seq(Seq(Int)) :
            Chain(ComparePrerelease(p, q), ComparePrerelease(q, r), ComparePrerelease(p, r))
  <2>1. \A p, q \in Seq(Seq(Int)) : PrereleaseOrder[<<p, q>>] = ComparePrerelease(p, q)
    BY DEF PrereleaseOrder
  <2> HIDE DEF PrereleaseOrder
  <2> QED
    BY <2>1, PrereleasesOrdered DEF Ordered
<1>5. ASSUME NEW v \in Versions PROVE Compare(v, v) = 0
  <2>1. ASSUME NEW k \in Nat \ {0} PROVE VersionPlaces(v, v)[k] = 0
    <3>1. CASE k <= 3
      <4>1. Value(v.core[k]) \in Int
        BY <3>1, k \in 1 .. 3, VersionParts
      <4>2. Value(v.core[k]) - Value(v.core[k]) = 0 /\ Sign(0) = 0
        BY <4>1, SignFacts
      <4> QED
        BY <1>3, <3>1, <4>2
    <3>2. CASE ~(k <= 3)
      BY <1>3, <1>4, <3>2, VersionParts
    <3> QED
      BY <3>1, <3>2
  <2>2. Decides(VersionPlaces(v, v), Compare(v, v))
    BY VersionDecided
  <2> QED
    BY <2>1, <2>2 DEF Decides
<1>6. ASSUME NEW u \in Versions, NEW v \in Versions, NEW w \in Versions
      PROVE  Chain(Compare(u, v), Compare(v, w), Compare(u, w))
  <2>1. ASSUME NEW k \in Nat \ {0}
        PROVE  Chain(VersionPlaces(u, v)[k], VersionPlaces(v, w)[k], VersionPlaces(u, w)[k])
    <3>1. CASE k <= 3
      <4>1. Value(u.core[k]) \in Int /\ Value(v.core[k]) \in Int /\ Value(w.core[k]) \in Int
        BY <3>1, k \in 1 .. 3, VersionParts
      <4>2. Chain(Sign(Value(u.core[k]) - Value(v.core[k])),
                  Sign(Value(v.core[k]) - Value(w.core[k])),
                  Sign(Value(u.core[k]) - Value(w.core[k])))
        BY <4>1, SignFacts
      <4> QED
        BY <1>3, <3>1, <4>2
    <3>2. CASE k = 4
      <4>1. /\ VersionPlaces(u, v)[k] = ComparePrerelease(u.pre, v.pre)
            /\ VersionPlaces(v, w)[k] = ComparePrerelease(v.pre, w.pre)
            /\ VersionPlaces(u, w)[k] = ComparePrerelease(u.pre, w.pre)
        BY <1>3, <3>2
      <4>2. /\ u.pre \in Seq(Seq(Int)) /\ v.pre \in Seq(Seq(Int)) /\ w.pre \in Seq(Seq(Int))
        BY VersionParts
      <4> QED
        BY <1>4, <4>1, <4>2
    <3>3. CASE ~(k <= 3) /\ k # 4
      BY <1>3, <3>3 DEF Chain
    <3> QED
      BY <3>1, <3>2, <3>3
  <2> QED
    BY <2>1, VersionDecided, LexicographicChain
<1> QED
  BY <1>1, <1>2, <1>5, <1>6 DEF Ordered

-----------------------------------------------------------------------------
(* The decisions                                                           *)

\* What version order says of a version beside two others.
LEMMA CompareFacts ==
    ASSUME NEW u \in Versions, NEW v \in Versions
    PROVE  /\ Compare(u, v) \in {-1, 0, 1}
           /\ Compare(v, u) = -Compare(u, v)
           /\ \A w \in Versions : Chain(Compare(u, v), Compare(v, w), Compare(u, w))
<1>1. \A x, y \in Versions : VersionOrder[<<x, y>>] = Compare(x, y)
  BY DEF VersionOrder
<1> HIDE DEF VersionOrder
<1>2. Compare(u, v) \in {-1, 0, 1}
  BY VersionDecided DEF Signs
<1>3. Compare(v, u) = -Compare(u, v)
  <2>1. VersionOrder[<<v, u>>] = -VersionOrder[<<u, v>>]
    BY VersionsAreOrdered, Mirrored
  <2> QED
    BY <1>1, <2>1
<1>4. \A w \in Versions : Chain(Compare(u, v), Compare(v, w), Compare(u, w))
  BY <1>1, VersionsAreOrdered DEF Ordered
<1> QED
  BY <1>2, <1>3, <1>4

\* DecideInstall, case by case.
LEMMA Decisions ==
    ASSUME NEW v, NEW allowDowngrade \in BOOLEAN
    PROVE  LET decision == DecideInstall(v, allowDowngrade)
               compared == Declared(v) /\ Declared(installed)
           IN  /\ decision \in Answers
               /\ decision = "invalid" <=> ~Valid(v)
               /\ decision = "install" <=> Valid(v) /\ installed = Nothing
               /\ decision = "same" <=> Valid(v) /\ compared /\ Compare(v, installed) = 0
               /\ decision = "downgrade" <=>
                     Valid(v) /\ compared /\ Compare(v, installed) < 0
                     /\ Compare(v, installed) # 0 /\ ~allowDowngrade
               /\ decision \in {"install", "upgrade", "same", "downgrade", "invalid"}
<1>1. CASE ~Valid(v)
  BY <1>1 DEF DecideInstall, Answers
<1>2. CASE Valid(v) /\ installed = Nothing
  BY <1>2 DEF DecideInstall, Answers, Declared
<1>3. CASE Valid(v) /\ installed # Nothing /\ ~(Declared(v) /\ Declared(installed))
  BY <1>3 DEF DecideInstall, Answers
<1>4. CASE Valid(v) /\ installed # Nothing /\ Declared(v) /\ Declared(installed)
  BY <1>4 DEF DecideInstall, Answers
<1> QED
  BY <1>1, <1>2, <1>3, <1>4

\* What is offered and declared is a version, when the code accepts it.
LEMMA OffersAreVersions ==
    \A v \in Offers \cup {Undeclared, Nothing} : Declared(v) => v \in Offers /\ v \in Texts
BY OffersAssumption DEF Declared

\* Every version replaced is one, and below the version installed.
Raised ==
    /\ TypeOK
    /\ replaced \subseteq Versions
    /\ Declared(installed) => \A u \in replaced : Compare(u, installed) = -1

\* A recorded version that is declared was parsed before it was recorded.
LEMMA InstalledIsVersion == TypeOK /\ Declared(installed) => installed \in Versions
BY OffersAreVersions DEF TypeOK, Versions

\* An install keeps Raised.
LEMMA InstallStep ==
    ASSUME Raised, NEW v \in Offers \cup {Undeclared}, NEW allowDowngrade \in BOOLEAN,
           Install(v, allowDowngrade)
    PROVE  Raised'
<1> DEFINE decision == DecideInstall(v, allowDowngrade)
<1>1. TypeOK
  BY DEF Raised
<1>2. decision \in Answers /\ (decision \in {"install", "upgrade"} => Valid(v))
  BY Decisions
<1>3. Nothing # v /\ (Declared(v) => v \in Offers) /\ (Declared(v) /\ Valid(v) => v \in Versions)
  BY OffersAssumption, OffersAreVersions DEF Declared, Valid, Versions
<1>4. CASE decision \in {"install", "upgrade"}
  <2>1. /\ installed' = v /\ answer' = decision /\ offered' = v
        /\ replaced' = IF Declared(v) /\ Declared(installed) /\ ~allowDowngrade
                       THEN replaced \cup {installed} ELSE {}
    BY <1>4 DEF Install
  <2>2. CASE Declared(v) /\ Declared(installed) /\ ~allowDowngrade
    <3>1. installed \in Versions /\ installed \in Offers /\ v \in Versions
      BY <1>1, <1>2, <1>3, <1>4, <2>2, InstalledIsVersion, OffersAreVersions DEF TypeOK
    <3>2. ~(Compare(v, installed) < 0) /\ Compare(v, installed) # 0
      BY <1>2, <1>4, <2>2, Decisions DEF Declared
    <3>3. Compare(installed, v) = -1
      BY <3>1, <3>2, CompareFacts
    <3>4. \A u \in replaced : Compare(u, v) = -1
      <4> TAKE u \in replaced
      <4>1. u \in Versions /\ Compare(u, installed) = -1
        BY <2>2 DEF Raised
      <4>2. Chain(Compare(u, installed), Compare(installed, v), Compare(u, v))
        BY <3>1, <4>1, CompareFacts
      <4> QED
        BY <3>3, <4>1, <4>2 DEF Chain
    <3>5. TypeOK'
      BY <1>1, <1>2, <1>3, <1>4, <2>1, <2>2, <3>1 DEF TypeOK, Declared, Valid
    <3> QED
      BY <2>1, <2>2, <3>1, <3>3, <3>4, <3>5 DEF Raised
  <2>3. CASE ~(Declared(v) /\ Declared(installed) /\ ~allowDowngrade)
    <3>1. TypeOK'
      BY <1>1, <1>2, <1>3, <1>4, <2>1, <2>3 DEF TypeOK, Declared, Valid
    <3> QED
      BY <2>1, <2>3, <3>1 DEF Raised
  <2> QED
    BY <2>2, <2>3
<1>5. CASE decision \notin {"install", "upgrade"}
  <2>1. UNCHANGED <<installed, replaced>> /\ answer' = decision /\ offered' = v
    BY <1>5 DEF Install
  <2>2. TypeOK'
    BY <1>1, <1>2, <2>1 DEF TypeOK, Declared
  <2> QED
    BY <2>1, <2>2 DEF Raised, Declared
<1> QED
  BY <1>4, <1>5

\* A repair keeps Raised: it records an equal version.
LEMMA RepairStep ==
    ASSUME Raised, NEW v \in Offers \cup {Undeclared}, Repair(v)
    PROVE  Raised'
<1> DEFINE decision == CASE ~Valid(v)                                  -> "invalid"
                         [] Valid(v) /\ installed = Nothing            -> "absent"
                         [] Valid(v) /\ installed # Nothing ->
                               IF RepairVersionMatches(v) THEN "repair" ELSE "mismatch"
<1>1. TypeOK
  BY DEF Raised
<1>2. /\ decision \in Answers
      /\ decision = "repair" => Valid(v) /\ installed # Nothing /\ RepairVersionMatches(v)
  BY DEF Answers
<1>3. /\ answer' = decision /\ offered' = v /\ replaced' = replaced
      /\ installed' = IF decision = "repair" THEN v ELSE installed
  BY DEF Repair
<1>4. Nothing # v /\ (Declared(v) => v \in Offers) /\ (Declared(v) /\ Valid(v) => v \in Versions)
  BY OffersAssumption, OffersAreVersions DEF Declared, Valid, Versions
<1> HIDE DEF decision
<1>5. TypeOK'
  BY <1>1, <1>2, <1>3, <1>4 DEF TypeOK, Declared, Valid
<1>6. ASSUME decision = "repair", Declared(v), NEW u \in replaced PROVE Compare(u, v) = -1
  <2>1. Valid(v) /\ installed # Nothing /\ RepairVersionMatches(v)
    BY <1>2, <1>6
  <2>2. CASE ~Declared(installed)
    BY <1>6, <2>1, <2>2 DEF RepairVersionMatches
  <2>3. CASE Declared(installed)
    <3>1. installed \in Versions /\ v \in Versions /\ u \in Versions
      BY <1>1, <1>4, <1>6, <2>1, <2>3, InstalledIsVersion DEF Raised
    <3>2. Compare(v, installed) = 0 /\ Compare(u, installed) = -1
      BY <1>6, <2>1, <2>3 DEF RepairVersionMatches, Raised
    <3>3. Compare(installed, v) = 0
      BY <3>1, <3>2, CompareFacts
    <3>4. Chain(Compare(u, installed), Compare(installed, v), Compare(u, v))
      BY <3>1, CompareFacts
    <3> QED
      BY <3>2, <3>3, <3>4 DEF Chain
  <2> QED
    BY <2>2, <2>3
<1> QED
  BY <1>3, <1>5, <1>6 DEF Raised, Declared

\* Raised is inductive.
LEMMA RaisedInductive == Raised /\ [Next]_vars => Raised'
<1> SUFFICES ASSUME Raised, [Next]_vars PROVE Raised'
  OBVIOUS
<1>1. CASE Remove
  BY <1>1 DEF Remove, Raised, TypeOK, Declared, Answers
<1>2. CASE UNCHANGED vars
  BY <1>2 DEF vars, Raised, TypeOK, Declared
<1> QED
  BY <1>1, <1>2, InstallStep, RepairStep DEF Next

\* It holds at first: nothing is installed.
LEMMA RaisedInit == Init => Raised
BY DEF Init, Raised, TypeOK, Declared, Answers

\* Raised holds in every behaviour.
LEMMA AlwaysRaised == Spec => []Raised
BY RaisedInit, RaisedInductive, PTL DEF Spec

-----------------------------------------------------------------------------

(***************************************************************************)
(* The manifest never records a version that ParseVersion refuses.         *)
(***************************************************************************)
THEOREM TypeCorrect == Spec => []TypeOK
<1>1. Raised => TypeOK
  BY DEF Raised
<1> QED
  BY <1>1, AlwaysRaised, PTL

(***************************************************************************)
(* No sequence of upgrades, however long, leads back to a version that was *)
(* replaced: install refuses it, without leave, as a downgrade.            *)
(***************************************************************************)
THEOREM NoWayBack == Spec => []NeverBack
<1>1. Raised => NeverBack
  <2> SUFFICES ASSUME Raised, Declared(installed), NEW u \in replaced
               PROVE  DecideInstall(u, FALSE) = "downgrade"
    BY DEF NeverBack
  <2>1. Compare(u, installed) = -1 /\ u \in Versions /\ u \in Offers
    BY DEF Raised, TypeOK
  <2>2. Declared(u) /\ Valid(u)
    BY <2>1, OffersAssumption DEF Declared, Valid, Versions
  <2>3. Compare(u, installed) < 0 /\ Compare(u, installed) # 0
    BY <2>1
  <2> QED
    BY <2>2, <2>3, Decisions
<1> QED
  BY <1>1, AlwaysRaised, PTL

(***************************************************************************)
(* install and repair agree on which builds are the version installed.     *)
(***************************************************************************)
THEOREM OneWayIn == Spec => []SameMeansRepair
<1>1. Raised => SameMeansRepair
  <2> SUFFICES ASSUME Raised, installed # Nothing, NEW v \in Offers \cup {Undeclared}, Valid(v)
               PROVE  RepairVersionMatches(v) <=>
                         \/ DecideInstall(v, FALSE) = "same"
                         \/ v = Undeclared /\ installed = Undeclared
    BY DEF SameMeansRepair
  <2>1. v # Nothing
    BY OffersAssumption
  <2>2. DecideInstall(v, FALSE) = "same"
           <=> Declared(v) /\ Declared(installed) /\ Compare(v, installed) = 0
    BY Decisions
  <2>3. CASE Declared(v) /\ Declared(installed)
    BY <2>2, <2>3 DEF RepairVersionMatches, Declared
  <2>4. CASE ~(Declared(v) /\ Declared(installed))
    BY <2>1, <2>2, <2>4 DEF RepairVersionMatches, Declared
  <2> QED
    BY <2>3, <2>4
<1> QED
  BY <1>1, AlwaysRaised, PTL

-----------------------------------------------------------------------------
(* Numbers are texts                                                       *)

\* An identifier of digits without a leading zero.
Plain(id) == AllDigits(id) /\ id # <<>> /\ (Len(id) > 1 => id[1] # 0)

\* Whoever leads by a digit stays ahead, whatever follows.
LEMMA StaysAhead ==
    ASSUME NEW x \in Nat, NEW y \in Nat, x < y, NEW d \in 0 .. Base - 1, NEW e \in Nat
    PROVE  x * Base + d < y * Base + e
<1> DEFINE z == y - x - 1
<1>1. Base \in Nat /\ z \in Nat /\ y = x + 1 + z
  BY WidthAssumption
<1> HIDE DEF z
<1>2. z * Base \in Nat /\ x * Base \in Nat
  BY <1>1
<1>3. y * Base = x * Base + Base + z * Base
  BY <1>1, SMT
<1> QED
  BY <1>1, <1>2, <1>3

\* The numbers of a text of digits, and that they are not 0 after a digit that is not.
LEMMA DigitFacts ==
    ASSUME NEW id \in Seq(Int), AllDigits(id)
    PROVE  \E f \in [0 .. Len(id) -> Nat] :
              /\ f[0] = 0
              /\ \A n \in 0 .. Len(id) - 1 :
                    id[n + 1] \in 0 .. Base - 1 /\ f[n + 1] = f[n] * Base + id[n + 1]
              /\ id # <<>> /\ id[1] # 0 => \A n \in 1 .. Len(id) : f[n] > 0
              /\ Value(id) = f[Len(id)]
<1>1. PICK f \in [0 .. Len(id) -> Int] :
          /\ f[0] = 0
          /\ \A n \in 1 .. Len(id) : f[n] = f[n - 1] * Base + id[n]
          /\ Value(id) = f[Len(id)]
  BY ValueByDigits
<1>2. Len(id) \in Nat /\ Base \in Nat /\ Base > 1
  BY WidthAssumption
<1>3. ASSUME NEW n \in 0 .. Len(id) - 1
      PROVE  id[n + 1] \in 0 .. Base - 1 /\ f[n + 1] = f[n] * Base + id[n + 1]
  <2>1. n + 1 \in 1 .. Len(id) /\ (n + 1) - 1 = n
    BY <1>2
  <2> QED
    BY <1>1, <2>1 DEF AllDigits
<1> DEFINE S == {n \in Nat : n <= Len(id) =>
                    f[n] \in Nat /\ (n > 0 /\ id[1] # 0 => f[n] > 0)}
<1>4. 0 \in S
  BY <1>1
<1>5. ASSUME NEW n \in Nat, n \in S PROVE n + 1 \in S
  <2> SUFFICES ASSUME n + 1 <= Len(id)
               PROVE  f[n + 1] \in Nat /\ (id[1] # 0 => f[n + 1] > 0)
    OBVIOUS
  <2>1. f[n] \in Nat /\ (n > 0 /\ id[1] # 0 => f[n] > 0)
    BY <1>2, <1>5
  <2>2. id[n + 1] \in 0 .. Base - 1 /\ f[n + 1] = f[n] * Base + id[n + 1]
    BY <1>2, <1>3
  <2> DEFINE x == f[n]
             d == id[n + 1]
  <2> HIDE DEF x, d
  <2>3. x \in Nat /\ d \in Nat /\ f[n + 1] = x * Base + d
    BY <1>2, <2>1, <2>2 DEF x, d
  <2>4. x * Base \in Nat /\ (x > 0 => x * Base > 0)
    BY <1>2, <2>3, SMT
  <2>5. n = 0 => f[n + 1] = id[1] /\ id[1] \in Nat
    BY <1>1, <1>2, <2>2
  <2> QED
    BY <2>1, <2>3, <2>4, <2>5 DEF x
<1> HIDE DEF S
<1>6. Nat \subseteq S
  BY <1>4, <1>5, Induction
<1>7. \A n \in 0 .. Len(id) : f[n] \in Nat /\ (n > 0 /\ id[1] # 0 => f[n] > 0)
  BY <1>2, <1>6 DEF S
<1>8. f \in [0 .. Len(id) -> Nat]
  BY <1>7
<1> QED
  BY <1>1, <1>2, <1>3, <1>7, <1>8

\* A longer number without a leading zero is greater.
LEMMA LongerIsGreater ==
    ASSUME NEW a \in Seq(Int), NEW b \in Seq(Int), AllDigits(a), Plain(b),
           0 < Len(a), Len(a) < Len(b)
    PROVE  Value(a) < Value(b)
<1> DEFINE m == Len(a)
           n == Len(b)
<1>1. PICK f \in [0 .. m -> Nat] :
          /\ f[0] = 0
          /\ \A i \in 0 .. m - 1 :
                a[i + 1] \in 0 .. Base - 1 /\ f[i + 1] = f[i] * Base + a[i + 1]
          /\ Value(a) = f[m]
  BY DigitFacts
<1>2. PICK g \in [0 .. n -> Nat] :
          /\ \A i \in 0 .. n - 1 :
                b[i + 1] \in 0 .. Base - 1 /\ g[i + 1] = g[i] * Base + b[i + 1]
          /\ b # <<>> /\ b[1] # 0 => \A i \in 1 .. n : g[i] > 0
          /\ Value(b) = g[n]
  BY DigitFacts DEF Plain
<1>3. m \in Nat /\ n \in Nat /\ 0 < m /\ m < n /\ Base \in Nat
  BY WidthAssumption
<1>4. \A i \in 1 .. n : g[i] > 0
  BY <1>2, <1>3 DEF Plain
<1> HIDE DEF m, n
<1> DEFINE S == {i \in Nat : i <= m => f[i] < g[i + (n - m)]}
<1>5. 0 \in S
  BY <1>1, <1>3, <1>4
<1>6. ASSUME NEW i \in Nat, i \in S PROVE i + 1 \in S
  <2> SUFFICES ASSUME i + 1 <= m PROVE f[i + 1] < g[(i + 1) + (n - m)]
    OBVIOUS
  <2> DEFINE j == i + (n - m)
  <2>1. i \in 0 .. m - 1 /\ j \in 0 .. n - 1 /\ (i + 1) + (n - m) = j + 1
    BY <1>3
  <2>2. f[i] < g[j]
    BY <1>3, <1>6
  <2> HIDE DEF j
  <2>3. /\ f[i] \in Nat /\ g[j] \in Nat
        /\ a[i + 1] \in 0 .. Base - 1 /\ f[i + 1] = f[i] * Base + a[i + 1]
        /\ b[j + 1] \in Nat /\ g[j + 1] = g[j] * Base + b[j + 1]
    <3>1. f[i] \in Nat /\ g[j] \in Nat
      BY <1>3, <2>1
    <3>2. a[i + 1] \in 0 .. Base - 1 /\ f[i + 1] = f[i] * Base + a[i + 1]
      BY <1>1, <2>1
    <3>3. b[j + 1] \in 0 .. Base - 1 /\ g[j + 1] = g[j] * Base + b[j + 1]
      BY <1>2, <2>1
    <3>4. b[j + 1] \in Nat
      BY <1>3, <3>3
    <3> QED
      BY <3>1, <3>2, <3>3, <3>4
  <2>4. f[i] * Base + a[i + 1] < g[j] * Base + b[j + 1]
    BY <2>2, <2>3, StaysAhead
  <2> QED
    BY <2>1, <2>3, <2>4
<1> HIDE DEF S
<1>7. m \in S
  BY <1>3, <1>5, <1>6, Induction
<1>8. f[m] < g[m + (n - m)] /\ m + (n - m) = n
  BY <1>3, <1>7 DEF S
<1> QED
  BY <1>1, <1>2, <1>8

\* Numbers of the same length are equal digit by digit.
LEMMA SameLength ==
    ASSUME NEW a \in Seq(Int), NEW b \in Seq(Int), AllDigits(a), AllDigits(b),
           Len(a) = Len(b), Value(a) = Value(b)
    PROVE  a = b
<1> DEFINE n == Len(a)
<1>1. PICK f \in [0 .. n -> Nat] :
          /\ \A i \in 0 .. n - 1 :
                a[i + 1] \in 0 .. Base - 1 /\ f[i + 1] = f[i] * Base + a[i + 1]
          /\ Value(a) = f[n]
  BY DigitFacts
<1>2. PICK g \in [0 .. n -> Nat] :
          /\ \A i \in 0 .. n - 1 :
                b[i + 1] \in 0 .. Base - 1 /\ g[i + 1] = g[i] * Base + b[i + 1]
          /\ Value(b) = g[n]
  BY DigitFacts
<1>3. n \in Nat /\ Base \in Nat
  BY WidthAssumption
<1> HIDE DEF n
<1>4. ASSUME NEW i \in 0 .. n - 1, f[i + 1] = g[i + 1]
      PROVE  f[i] = g[i] /\ a[i + 1] = b[i + 1]
  <2>1. /\ f[i] \in Nat /\ g[i] \in Nat
        /\ a[i + 1] \in 0 .. Base - 1 /\ f[i + 1] = f[i] * Base + a[i + 1]
        /\ b[i + 1] \in 0 .. Base - 1 /\ g[i + 1] = g[i] * Base + b[i + 1]
        /\ a[i + 1] \in Nat /\ b[i + 1] \in Nat
    <3>1. f[i] \in Nat /\ g[i] \in Nat
      BY <1>3
    <3>2. a[i + 1] \in 0 .. Base - 1 /\ f[i + 1] = f[i] * Base + a[i + 1]
      BY <1>1
    <3>3. b[i + 1] \in 0 .. Base - 1 /\ g[i + 1] = g[i] * Base + b[i + 1]
      BY <1>2
    <3>4. a[i + 1] \in Nat /\ b[i + 1] \in Nat
      BY <1>3, <3>2, <3>3
    <3> QED
      BY <3>1, <3>2, <3>3, <3>4
  <2>2. f[i] * Base + a[i + 1] = g[i] * Base + b[i + 1]
    BY <1>4, <2>1
  <2> DEFINE x == f[i]
             y == g[i]
             d == a[i + 1]
             e == b[i + 1]
  <2>3. /\ x \in Nat /\ y \in Nat /\ d \in 0 .. Base - 1 /\ e \in 0 .. Base - 1
        /\ d \in Nat /\ e \in Nat /\ x * Base + d = y * Base + e
    BY <2>1, <2>2
  <2> HIDE DEF x, y, d, e
  <2>4. x * Base \in Nat /\ y * Base \in Nat
    BY <1>3, <2>3
  <2>5. ~(x < y)
    <3>1. x < y => x * Base + d < y * Base + e
      BY <2>3, StaysAhead
    <3> QED
      BY <2>3, <2>4, <3>1
  <2>6. ~(y < x)
    <3>1. y < x => y * Base + e < x * Base + d
      BY <2>3, StaysAhead
    <3> QED
      BY <2>3, <2>4, <3>1
  <2>7. x = y
    BY <2>3, <2>5, <2>6
  <2>8. d = e
    BY <2>3, <2>4, <2>7
  <2> QED
    BY <2>7, <2>8 DEF x, y, d, e
<1> DEFINE S == {d \in Nat : d <= n => f[n - d] = g[n - d]}
<1>5. 0 \in S
  <2>1. n - 0 = n
    BY <1>3
  <2>2. Value(a) = f[n]
    BY <1>1
  <2>3. Value(b) = g[n]
    BY <1>2
  <2>4. f[n] = g[n]
    BY <2>2, <2>3
  <2> QED
    BY <2>1, <2>4
<1>6. ASSUME NEW d \in Nat, d \in S PROVE d + 1 \in S
  <2> SUFFICES ASSUME d + 1 <= n PROVE f[n - (d + 1)] = g[n - (d + 1)]
    OBVIOUS
  <2> DEFINE i == n - (d + 1)
  <2>1. i \in 0 .. n - 1 /\ i + 1 = n - d
    BY <1>3
  <2>2. f[n - d] = g[n - d]
    BY <1>3, <1>6
  <2> QED
    BY <1>4, <2>1, <2>2
<1> HIDE DEF S
<1>7. Nat \subseteq S
  BY <1>5, <1>6, Induction
<1>8. \A i \in 0 .. n - 1 : a[i + 1] = b[i + 1]
  <2> TAKE i \in 0 .. n - 1
  <2>1. n - (i + 1) \in S /\ n - (n - (i + 1)) = i + 1 /\ n - (i + 1) <= n
    BY <1>3, <1>7
  <2>2. f[i + 1] = g[i + 1]
    BY <2>1 DEF S
  <2> QED
    BY <1>4, <2>2
<1>9. \A j \in 1 .. n : a[j] = b[j]
  <2> TAKE j \in 1 .. n
  <2>1. j - 1 \in 0 .. n - 1 /\ (j - 1) + 1 = j
    BY <1>3
  <2> QED
    BY <1>8, <2>1
<1>10. Len(a) = n /\ Len(b) = n
  BY DEF n
<1> QED
  BY <1>3, <1>9, <1>10, SeqEqual

\* Texts of digits without a leading zero are equal if their values are.
LEMMA ValueUnique ==
    ASSUME NEW a \in Seq(Int), NEW b \in Seq(Int), Plain(a), Plain(b), Value(a) = Value(b)
    PROVE  a = b
<1>1. Len(a) \in Nat /\ Len(b) \in Nat /\ Len(a) > 0 /\ Len(b) > 0
  BY EmptySeq DEF Plain
<1>2. Value(a) \in Int /\ Value(b) \in Int
  BY ValueType
<1>3. ~(Len(a) < Len(b)) /\ ~(Len(b) < Len(a))
  BY <1>1, <1>2, LongerIsGreater DEF Plain
<1> QED
  BY <1>1, <1>3, SameLength DEF Plain

-----------------------------------------------------------------------------
(* Semantic Versioning                                                     *)

\* The identifiers and numbers of a version that is accepted have no leading zeros,
\* as far as their identifiers of digits fit.
LEMMA VersionsArePlain ==
    ASSUME NEW v \in Versions
    PROVE  /\ \A i \in 1 .. 3 : Plain(v.core[i])
           /\ Fits(v) => \A i \in 1 .. Len(v.pre) :
                 /\ v.pre[i] \in Seq(Int)
                 /\ AllDigits(v.pre[i]) <=> Numeric(v.pre[i])
                 /\ AllDigits(v.pre[i]) => Plain(v.pre[i])
<1>1. Accepted(v)
  BY DEF Versions
<1>2. \A i \in 1 .. 3 : Plain(v.core[i])
  BY <1>1 DEF Accepted, CoreNumberAccepted, Numeric, Plain
<1>3. ASSUME Fits(v), NEW i \in 1 .. Len(v.pre)
      PROVE  /\ v.pre[i] \in Seq(Int)
             /\ AllDigits(v.pre[i]) <=> Numeric(v.pre[i])
             /\ AllDigits(v.pre[i]) => Plain(v.pre[i])
  <2>1. v.pre \in Seq(Seq(Int))
    BY VersionParts
  <2>2. v.pre[i] \in Seq(Int) /\ i \in DOMAIN v.pre
    BY <2>1
  <2>3. IdentifierAccepted(v.pre[i])
    BY <1>1, <2>2 DEF Accepted
  <2>4. AllDigits(v.pre[i]) <=> Numeric(v.pre[i])
    BY <1>3, <2>2 DEF Fits, Numeric
  <2> QED
    BY <2>2, <2>3, <2>4 DEF IdentifierAccepted, Plain
<1> QED
  BY <1>2, <1>3

\* Texts that tie are equal.
LEMMA TextUnique ==
    ASSUME NEW a \in Seq(Int), NEW b \in Seq(Int), CompareText(a, b) = 0
    PROVE  a = b
<1>1. Decides(Places(CharacterOrder, a, b), 0)
  BY TextsOrdered, LexicographicDecided
<1>2. \A k \in Nat \ {0} : Places(CharacterOrder, a, b)[k] = 0
  BY <1>1 DEF Decides
<1>3. Len(a) \in Nat /\ Len(b) \in Nat
  OBVIOUS
<1>4. ~(Len(a) < Len(b)) /\ ~(Len(b) < Len(a))
  <2>1. Len(a) < Len(b) => Places(CharacterOrder, a, b)[Len(b)] = -1
    BY <1>3 DEF Places
  <2>2. Len(b) < Len(a) => Places(CharacterOrder, a, b)[Len(a)] = 1
    BY <1>3 DEF Places
  <2>3. Len(a) < Len(b) => Len(b) \in Nat \ {0}
    BY <1>3
  <2>4. Len(b) < Len(a) => Len(a) \in Nat \ {0}
    BY <1>3
  <2> QED
    BY <1>2, <2>1, <2>2, <2>3, <2>4
<1>5. ASSUME NEW k \in 1 .. Len(a) PROVE a[k] = b[k]
  <2>1. a[k] \in Int /\ b[k] \in Int /\ k \in Nat \ {0} /\ k <= Len(a) /\ k <= Len(b)
    BY <1>3, <1>4
  <2>2. Places(CharacterOrder, a, b)[k] = CharacterOrder[<<a[k], b[k]>>]
    BY <2>1 DEF Places
  <2>3. CharacterOrder[<<a[k], b[k]>>] = Sign(a[k] - b[k])
    BY <2>1 DEF CharacterOrder
  <2>4. Sign(a[k] - b[k]) = 0 /\ a[k] - b[k] \in Int
    BY <1>2, <2>1, <2>2, <2>3
  <2>5. a[k] - b[k] = 0
    BY <2>4, SignFacts
  <2> QED
    BY <2>1, <2>5
<1> QED
  BY <1>3, <1>4, <1>5, SeqEqual

\* Identifiers of two versions that tie are equal, and what the code puts below is what
\* Semantic Versioning puts below.
LEMMA IdentifiersFollowSemVer ==
    ASSUME NEW a \in Seq(Int), NEW b \in Seq(Int),
           AllDigits(a) <=> Numeric(a), AllDigits(b) <=> Numeric(b),
           AllDigits(a) => Plain(a), AllDigits(b) => Plain(b)
    PROVE  /\ CompareIdentifiers(a, b) = 0 => a = b
           /\ CompareIdentifiers(a, b) = -1 => SemVerIdentifierBelow(a, b)
<1>1. Value(a) \in Int /\ Value(b) \in Int
  BY ValueType
<1>2. Value(a) - Value(b) \in Int
  BY <1>1
<1>3. CASE Numeric(a) /\ Numeric(b)
  <2>1. CompareIdentifiers(a, b) = Sign(Value(a) - Value(b))
    BY <1>3 DEF CompareIdentifiers
  <2>2. /\ Sign(Value(a) - Value(b)) = 0 => Value(a) = Value(b)
        /\ Sign(Value(a) - Value(b)) = -1 => Value(a) < Value(b)
    BY <1>1 DEF Sign
  <2> QED
    BY <1>3, <2>1, <2>2, ValueUnique DEF SemVerIdentifierBelow
<1>4. CASE Numeric(a) /\ ~Numeric(b)
  BY <1>4 DEF CompareIdentifiers, SemVerIdentifierBelow
<1>5. CASE ~Numeric(a) /\ Numeric(b)
  BY <1>5 DEF CompareIdentifiers
<1>6. CASE ~Numeric(a) /\ ~Numeric(b)
  BY <1>6, TextUnique DEF CompareIdentifiers, SemVerIdentifierBelow
<1> QED
  BY <1>3, <1>4, <1>5, <1>6

\* Prereleases: what the code puts below is what Semantic Versioning puts below.
LEMMA PrereleasesFollowSemVer ==
    ASSUME NEW p \in Seq(Seq(Int)), NEW q \in Seq(Seq(Int)),
           \A i \in 1 .. Len(p) : /\ AllDigits(p[i]) <=> Numeric(p[i])
                                  /\ AllDigits(p[i]) => Plain(p[i]),
           \A i \in 1 .. Len(q) : /\ AllDigits(q[i]) <=> Numeric(q[i])
                                  /\ AllDigits(q[i]) => Plain(q[i]),
           ComparePrerelease(p, q) = -1
    PROVE  SemVerPrereleaseBelow(p, q)
<1>1. CASE q = <<>>
  BY <1>1 DEF ComparePrerelease, SemVerPrereleaseBelow
<1>2. CASE p = <<>> /\ q # <<>>
  BY <1>2 DEF ComparePrerelease
<1>3. CASE p # <<>> /\ q # <<>>
  <2> DEFINE e == Places(IdentifierOrder, p, q)
  <2>1. Lexicographic(IdentifierOrder, p, q) = -1
    BY <1>3, PrereleasesOrdered
  <2>2. PICK k \in Nat \ {0} : e[k] = -1 /\ \A j \in 1 .. k - 1 : e[j] = 0
    BY <2>1, IdentifiersOrdered, LexicographicDecided DEF Decides
  <2>3. Len(p) \in Nat /\ Len(q) \in Nat
    OBVIOUS
  <2>4. ASSUME NEW j \in Nat \ {0}
        PROVE  e[j] = IF j <= Len(p) /\ j <= Len(q) THEN CompareIdentifiers(p[j], q[j])
                      ELSE IF j <= Len(q) THEN -1 ELSE IF j <= Len(p) THEN 1 ELSE 0
    <3>1. CASE j <= Len(p) /\ j <= Len(q)
      <4>1. p[j] \in Seq(Int) /\ q[j] \in Seq(Int)
        BY <2>3, <3>1
      <4>2. e[j] = IdentifierOrder[<<p[j], q[j]>>]
        BY <3>1 DEF Places
      <4> QED
        BY <3>1, <4>1, <4>2 DEF IdentifierOrder
    <3>2. CASE ~(j <= Len(p) /\ j <= Len(q))
      BY <3>2 DEF Places
    <3> QED
      BY <3>1, <3>2
  <2> HIDE DEF e
  <2>5. k <= Len(q)
    BY <2>2, <2>3, <2>4
  <2>6. ASSUME NEW j \in 1 .. k - 1 PROVE j <= Len(p) /\ j <= Len(q) /\ p[j] = q[j]
    <3>1. j \in Nat \ {0} /\ j < k /\ e[j] = 0
      BY <2>2
    <3>2. j <= Len(q)
      BY <2>3, <2>5, <3>1
    <3>3. j <= Len(p) /\ CompareIdentifiers(p[j], q[j]) = 0
      BY <2>3, <2>4, <3>1, <3>2
    <3>4. j \in 1 .. Len(p) /\ j \in 1 .. Len(q)
      BY <2>3, <3>1, <3>2, <3>3
    <3>5. p[j] \in Seq(Int) /\ q[j] \in Seq(Int)
      BY <3>4
    <3>6. p[j] = q[j]
      BY <3>3, <3>4, <3>5, IdentifiersFollowSemVer
    <3> QED
      BY <3>2, <3>3, <3>6
  <2> DEFINE n == k - 1
  <2>7. n \in Nat /\ n <= Len(p) /\ n < Len(q) /\ n + 1 = k
    <3>1. n = 0 \/ n \in 1 .. k - 1
      OBVIOUS
    <3> QED
      BY <2>3, <2>5, <2>6, <3>1
  <2>8. SubSeq(p, 1, n) = SubSeq(q, 1, n)
    <3> HIDE DEF n
    <3>1. \A i \in 1 .. n : p[i] = q[i]
      BY <2>6 DEF n
    <3>2. /\ SubSeq(p, 1, n) \in Seq(Seq(Int)) /\ SubSeq(q, 1, n) \in Seq(Seq(Int))
          /\ Len(SubSeq(p, 1, n)) = n /\ Len(SubSeq(q, 1, n)) = n
          /\ \A i \in 1 .. n : SubSeq(p, 1, n)[i] = p[i] /\ SubSeq(q, 1, n)[i] = q[i]
      BY <2>3, <2>7
    <3> QED
      BY <3>1, <3>2, SeqEqual
  <2>9. n \in 0 .. Shorter(p, q)
    BY <2>3, <2>7 DEF Shorter
  <2>10. CASE k <= Len(p)
    <3>1. k \in 1 .. Len(p) /\ k \in 1 .. Len(q) /\ n < Shorter(p, q)
      BY <2>3, <2>5, <2>7, <2>10 DEF Shorter
    <3>2. p[k] \in Seq(Int) /\ q[k] \in Seq(Int)
      BY <3>1
    <3>3. CompareIdentifiers(p[k], q[k]) = -1
      BY <2>2, <2>4, <2>5, <2>10
    <3>4. SemVerIdentifierBelow(p[n + 1], q[n + 1])
      BY <2>7, <3>1, <3>2, <3>3, IdentifiersFollowSemVer
    <3> HIDE DEF n
    <3> QED
      BY <1>3, <2>8, <2>9, <3>1, <3>4 DEF SemVerPrereleaseBelow
  <2>11. CASE ~(k <= Len(p))
    <3>1. n = Len(p) /\ n < Len(q)
      BY <2>3, <2>7, <2>11
    <3> HIDE DEF n
    <3> QED
      BY <1>3, <2>8, <2>9, <3>1 DEF SemVerPrereleaseBelow
  <2> QED
    BY <2>10, <2>11
<1> QED
  BY <1>1, <1>2, <1>3

(***************************************************************************)
(* A version that Version.Compare puts below another is below it by the    *)
(* rules of Semantic Versioning 2.0.0, if their identifiers of digits fit  *)
(* the integers of the code.                                               *)
(***************************************************************************)
THEOREM CompareFollowsSemVer ==
    ASSUME NEW u \in Versions, NEW v \in Versions, Fits(u), Fits(v), Compare(u, v) = -1
    PROVE  SemVerBelow(u, v)
<1> DEFINE e == VersionPlaces(u, v)
<1>1. PICK k \in Nat \ {0} : e[k] = -1 /\ \A j \in 1 .. k - 1 : e[j] = 0
  BY VersionDecided DEF Decides
<1>2. ASSUME NEW j \in Nat \ {0}
      PROVE  e[j] = IF j <= 3 THEN Sign(Value(u.core[j]) - Value(v.core[j]))
                    ELSE IF j = 4 THEN ComparePrerelease(u.pre, v.pre) ELSE 0
  BY DEF VersionPlaces, Continued, Numbers
<1> HIDE DEF e
<1>3. ASSUME NEW j \in 1 .. 3
      PROVE  /\ u.core[j] \in Seq(Int) /\ v.core[j] \in Seq(Int)
             /\ Value(u.core[j]) \in Int /\ Value(v.core[j]) \in Int
             /\ Sign(Value(u.core[j]) - Value(v.core[j])) = 0 => u.core[j] = v.core[j]
             /\ Sign(Value(u.core[j]) - Value(v.core[j])) = -1
                   => Value(u.core[j]) < Value(v.core[j])
  <2>1. /\ u.core[j] \in Seq(Int) /\ v.core[j] \in Seq(Int)
        /\ Value(u.core[j]) \in Int /\ Value(v.core[j]) \in Int
    BY VersionParts
  <2>2. Plain(u.core[j]) /\ Plain(v.core[j])
    BY VersionsArePlain
  <2>3. /\ Sign(Value(u.core[j]) - Value(v.core[j])) = 0 => Value(u.core[j]) = Value(v.core[j])
        /\ Sign(Value(u.core[j]) - Value(v.core[j])) = -1
              => Value(u.core[j]) < Value(v.core[j])
    BY <2>1 DEF Sign
  <2> QED
    BY <2>1, <2>2, <2>3, ValueUnique
<1>4. k <= 4
  BY <1>1, <1>2
<1>5. ASSUME NEW j \in 1 .. k - 1, j <= 3 PROVE u.core[j] = v.core[j]
  <2>1. j \in 1 .. 3 /\ j \in Nat \ {0} /\ e[j] = 0
    BY <1>1, <1>5
  <2>2. Sign(Value(u.core[j]) - Value(v.core[j])) = 0
    BY <1>2, <1>5, <2>1
  <2> QED
    BY <1>3, <2>1, <2>2
<1>6. CASE k <= 3
  <2>1. k \in 1 .. 3 /\ Sign(Value(u.core[k]) - Value(v.core[k])) = -1
    BY <1>1, <1>2, <1>6
  <2>2. Value(u.core[k]) < Value(v.core[k])
    BY <1>3, <2>1
  <2>3. \A j \in 1 .. k - 1 : u.core[j] = v.core[j]
    BY <1>5, <1>6
  <2> QED
    BY <2>1, <2>2, <2>3 DEF SemVerBelow
<1>7. CASE k = 4
  <2>1. ComparePrerelease(u.pre, v.pre) = -1
    BY <1>1, <1>2, <1>7
  <2>2. SemVerPrereleaseBelow(u.pre, v.pre)
    BY <2>1, VersionParts, VersionsArePlain, PrereleasesFollowSemVer
  <2>3. \A j \in 1 .. 3 : u.core[j] = v.core[j]
    BY <1>5, <1>7
  <2>4. /\ u.core \in Seq(Seq(Int)) /\ v.core \in Seq(Seq(Int))
        /\ Len(u.core) = 3 /\ Len(v.core) = 3
    BY VersionParts
  <2>5. u.core = v.core
    BY <2>3, <2>4, SeqEqual
  <2> QED
    BY <2>2, <2>5 DEF SemVerBelow
<1> QED
  BY <1>4, <1>6, <1>7

(***************************************************************************)
(* What upgrades without leave replaced is below what is installed by the  *)
(* rules of Semantic Versioning 2.0.0.                                     *)
(***************************************************************************)
THEOREM UpgradesRaise == Spec => []UpgradesFollowSemVer
<1>1. Raised => UpgradesFollowSemVer
  <2> SUFFICES ASSUME Raised, Declared(installed), Fits(installed), NEW u \in replaced, Fits(u)
               PROVE  SemVerBelow(u, installed)
    BY DEF UpgradesFollowSemVer
  <2>1. u \in Versions /\ installed \in Versions /\ Compare(u, installed) = -1
    BY InstalledIsVersion DEF Raised
  <2> QED
    BY <2>1, CompareFollowsSemVer
<1> QED
  BY <1>1, AlwaysRaised, PTL

=============================================================================
