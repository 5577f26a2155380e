-------------------------- MODULE DefinitionsProofs --------------------------
(***************************************************************************)
(* What SvcForge renders is read back as declared, for texts of any length *)
(* and any number of arguments, with the four exceptions Definitions names *)
(* and no other.  The proofs follow the text, one character at a time.     *)
(***************************************************************************)
EXTENDS Definitions, WellFoundedInduction, SequenceTheorems, TLAPS

-----------------------------------------------------------------------------
(* Induction                                                               *)

\* Every set of natural numbers has a smallest one.
LEMMA Smallest ==
    ASSUME NEW some \in SUBSET Nat, some # {}
    PROVE  \E x \in some : \A y \in some : x <= y
<1> DEFINE less == {pair \in Nat \X Nat : pair[1] < pair[2]}
<1>1. IsWellFoundedOn(less, Nat)
  BY NatLessThanWellFounded DEF OpToRel
<1>0. \A x, y \in Nat : <<y, x>> \in less <=> y < x
  OBVIOUS
<1> HIDE DEF less
<1>2. \E x \in some : \A y \in some : ~(<<y, x>> \in less)
  BY <1>1, WFMin
<1>3. PICK x \in some : \A y \in some : ~(<<y, x>> \in less)
  BY <1>2
<1>4. \A y \in some : x \in Nat /\ y \in Nat /\ ~(y < x)
  BY <1>3, <1>0
<1> QED
  BY <1>4

\* A set with 0, and with the successor of each of its numbers, has all numbers.
LEMMA Induction ==
    ASSUME NEW S, 0 \in S, \A n \in Nat : n \in S => n + 1 \in S
    PROVE  Nat \subseteq S
<1> SUFFICES ASSUME Nat \ S # {} PROVE FALSE
  OBVIOUS
<1>1. PICK x \in Nat \ S : \A y \in Nat \ S : x <= y
  BY Smallest
<1>2. x - 1 \in Nat /\ ~(x <= x - 1)
  BY <1>1
<1>3. x - 1 \in S
  BY <1>1, <1>2
<1>4. (x - 1) + 1 \in S
  BY <1>2, <1>3
<1> QED
  BY <1>1, <1>4

\* A set with the empty sequence, and with each of its sequences and one element more, has
\* all sequences.
LEMMA Extension ==
    ASSUME NEW S, NEW all, <<>> \in all,
           \A t \in Seq(S), c \in S : t \in all => Append(t, c) \in all
    PROVE  Seq(S) \subseteq all
<1> DEFINE upto == {n \in Nat : \A t \in Seq(S) : Len(t) = n => t \in all}
<1>1. 0 \in upto
  BY EmptySeq
<1>2. ASSUME NEW n \in Nat, n \in upto PROVE n + 1 \in upto
  <2> SUFFICES ASSUME NEW t \in Seq(S), Len(t) = n + 1 PROVE t \in all
    OBVIOUS
  <2>1. t # <<>>
    BY EmptySeq
  <2>2. PICK s \in Seq(S) : \E c \in S : t = Append(s, c)
    BY <2>1, SequenceEmptyOrAppend
  <2>3. PICK c \in S : t = Append(s, c)
    BY <2>2
  <2>4. Len(s) = n
    BY <2>3, AppendProperties, LenProperties
  <2> QED
    BY <1>2, <2>3, <2>4
<1>3. Nat \subseteq upto
  <2> HIDE DEF upto
  <2> QED  BY <1>1, <1>2, Induction
<1> QED
  BY <1>3, LenProperties

-----------------------------------------------------------------------------
(* Scans                                                                   *)

\* The function a fold over the first n elements is defined with.
Folded(f, step, start, text, n) ==
    f = [s \in SUBSET (1 .. n) |->
            IF s = {} THEN start ELSE step[text[Max(s)]][f[s \ {Max(s)}]]]

\* The last of the first numbers.
LEMMA MaxIsLast ==
    ASSUME NEW n \in Nat, NEW s \in SUBSET (1 .. n + 1), n + 1 \in s
    PROVE  Max(s) = n + 1
<1>1. \A y \in s : n + 1 >= y
  OBVIOUS
<1>2. \A x \in s : (\A y \in s : x >= y) => x = n + 1
  BY <1>1
<1> QED
  BY <1>1, <1>2 DEF Max

\* The function exists.
LEMMA FoldedExists ==
    ASSUME NEW step, NEW start, NEW text, NEW n \in Nat
    PROVE  \E f : Folded(f, step, start, text, n)
<1> DEFINE good == {k \in Nat : \E f : Folded(f, step, start, text, k)}
<1>1. 0 \in good
  <2> DEFINE f == [s \in SUBSET (1 .. 0) |-> start]
  <2>1. Folded(f, step, start, text, 0)
    BY DEF Folded
  <2> QED
    BY <2>1
<1>2. ASSUME NEW k \in Nat, k \in good PROVE k + 1 \in good
  <2>1. PICK f : Folded(f, step, start, text, k)
    BY <1>2
  <2> DEFINE g == [s \in SUBSET (1 .. k + 1) |->
                      IF k + 1 \in s THEN step[text[k + 1]][f[s \ {k + 1}]] ELSE f[s]]
  <2>2. ASSUME NEW s \in SUBSET (1 .. k + 1)
        PROVE  g[s] = IF s = {} THEN start ELSE step[text[Max(s)]][g[s \ {Max(s)}]]
    <3>1. CASE k + 1 \in s
      <4>1. Max(s) = k + 1
        BY <3>1, MaxIsLast
      <4>2. s \ {k + 1} \in SUBSET (1 .. k) /\ s \ {k + 1} \in SUBSET (1 .. k + 1)
        OBVIOUS
      <4>3. g[s \ {k + 1}] = f[s \ {k + 1}]
        BY <4>2
      <4> QED
        BY <3>1, <4>1, <4>3
    <3>2. CASE k + 1 \notin s /\ s # {}
      <4>1. s \in SUBSET (1 .. k)
        BY <3>2
      <4>2. s \ {Max(s)} \in SUBSET (1 .. k + 1) /\ k + 1 \notin s \ {Max(s)}
        BY <3>2
      <4>3. g[s \ {Max(s)}] = f[s \ {Max(s)}] /\ g[s] = f[s]
        BY <3>2, <4>2
      <4>4. f[s] = step[text[Max(s)]][f[s \ {Max(s)}]]
        BY <2>1, <3>2, <4>1 DEF Folded
      <4> QED
        BY <3>2, <4>3, <4>4
    <3>3. CASE s = {}
      <4>1. f[{}] = start /\ g[{}] = f[{}]
        BY <2>1 DEF Folded
      <4> QED
        BY <3>3, <4>1
    <3> QED
      BY <3>1, <3>2, <3>3
  <2>3. Folded(g, step, start, text, k + 1)
    BY <2>2 DEF Folded
  <2> QED
    BY <2>3
<1> HIDE DEF good
<1>3. Nat \subseteq good
  BY <1>1, <1>2, Induction
<1> QED
  BY <1>3 DEF good

\* A scan is such a function, over all of the text.
LEMMA ScannedFolded ==
    ASSUME NEW S, NEW step, NEW start, NEW text \in Seq(S)
    PROVE  \E f : /\ Folded(f, step, start, text, Len(text))
                  /\ Scanned(step, start, text) = f[1 .. Len(text)]
<1> DEFINE f == CHOOSE g : Folded(g, step, start, text, Len(text))
<1>1. Len(text) \in Nat /\ DOMAIN text = 1 .. Len(text)
  BY LenProperties
<1>2. Folded(f, step, start, text, Len(text))
  BY <1>1, FoldedExists
<1>3. Scanned(step, start, text) = f[1 .. Len(text)]
  BY <1>1 DEF Scanned, FoldLeft, MapThenFoldSet, Folded
<1> QED
  BY <1>2, <1>3

\* The value of the function for the first m numbers.
LEMMA FoldedStep ==
    ASSUME NEW f, NEW step, NEW start, NEW text, NEW n \in Nat,
           Folded(f, step, start, text, n), NEW m \in 0 .. n
    PROVE  f[1 .. m] = IF m = 0 THEN start ELSE step[text[m]][f[1 .. (m - 1)]]
<1>1. CASE m = 0
  <2>1. 1 .. m = {}
    BY <1>1
  <2> QED
    BY <1>1, <2>1 DEF Folded
<1>2. CASE m # 0
  <2>1. 1 .. m \in SUBSET (1 .. n) /\ m \in 1 .. m
    BY <1>2
  <2>2. Max(1 .. m) = m
    <3>1. m - 1 \in Nat /\ 1 .. m \in SUBSET (1 .. (m - 1) + 1) /\ (m - 1) + 1 \in 1 .. m
      BY <1>2
    <3>2. Max(1 .. m) = (m - 1) + 1
      BY <3>1, MaxIsLast
    <3> QED
      BY <3>2
  <2>3. (1 .. m) \ {m} = 1 .. (m - 1)
    BY <1>2
  <2> QED
    BY <1>2, <2>1, <2>2, <2>3 DEF Folded
<1> QED
  BY <1>1, <1>2

\* Two texts with the same beginning are read the same up to there.
LEMMA SameBeginning ==
    ASSUME NEW f, NEW g, NEW step, NEW start, NEW t, NEW u, NEW n \in Nat, NEW k \in Nat,
           Folded(f, step, start, t, n), Folded(g, step, start, u, k), n <= k,
           \A i \in 1 .. n : t[i] = u[i]
    PROVE  f[1 .. n] = g[1 .. n]
<1> DEFINE good == {m \in Nat : m <= n => f[1 .. m] = g[1 .. m]}
<1>1. 0 \in good
  <2>1. f[1 .. 0] = start
    <3>1. 0 \in 0 .. n
      OBVIOUS
    <3> QED
      BY <3>1, FoldedStep
  <2>2. g[1 .. 0] = start
    <3>1. 0 \in 0 .. k
      OBVIOUS
    <3> QED
      BY <3>1, FoldedStep
  <2> QED
    BY <2>1, <2>2
<1>2. ASSUME NEW m \in Nat, m \in good PROVE m + 1 \in good
  <2> SUFFICES ASSUME m + 1 <= n PROVE f[1 .. (m + 1)] = g[1 .. (m + 1)]
    OBVIOUS
  <2>1. m + 1 \in 0 .. n /\ m + 1 \in 0 .. k /\ m + 1 # 0 /\ (m + 1) - 1 = m
    OBVIOUS
  <2>2. f[1 .. (m + 1)] = step[t[m + 1]][f[1 .. m]]
    <3>1. f[1 .. (m + 1)] = step[t[m + 1]][f[1 .. ((m + 1) - 1)]]
      BY <2>1, FoldedStep
    <3> QED
      BY <2>1, <3>1
  <2>3. g[1 .. (m + 1)] = step[u[m + 1]][g[1 .. m]]
    <3>1. g[1 .. (m + 1)] = step[u[m + 1]][g[1 .. ((m + 1) - 1)]]
      BY <2>1, FoldedStep
    <3> QED
      BY <2>1, <3>1
  <2>4. t[m + 1] = u[m + 1] /\ f[1 .. m] = g[1 .. m]
    BY <1>2
  <2> QED
    BY <2>2, <2>3, <2>4
<1> HIDE DEF good
<1>3. Nat \subseteq good
  BY <1>1, <1>2, Induction
<1> QED
  BY <1>3 DEF good

\* Nothing is read from the empty text.
LEMMA ScannedEmpty ==
    ASSUME NEW step, NEW start
    PROVE  Scanned(step, start, <<>>) = start
<1>1. <<>> \in Seq({}) /\ Len(<<>>) = 0
  BY EmptySeq
<1> DEFINE empty == <<>>
           none == {}
<1>4. empty \in Seq(none) /\ Len(empty) = 0
  BY <1>1
<1> HIDE DEF empty, none
<1>0. empty \in Seq(none)
  BY <1>4
<1>5. PICK f : /\ Folded(f, step, start, empty, Len(empty))
               /\ Scanned(step, start, empty) = f[1 .. Len(empty)]
  BY <1>0, ScannedFolded
<1>2. Folded(f, step, start, empty, 0) /\ Scanned(step, start, empty) = f[1 .. 0]
  BY <1>4, <1>5
<1>3. 0 \in 0 .. 0
  OBVIOUS
<1>6. f[1 .. 0] = start
  BY <1>2, <1>3, FoldedStep
<1> QED
  BY <1>2, <1>6 DEF empty

\* The last character is read after the others.
LEMMA ScannedAppend ==
    ASSUME NEW S, NEW step, NEW start, NEW text \in Seq(S), NEW char \in S
    PROVE  Scanned(step, start, Append(text, char)) = step[char][Scanned(step, start, text)]
<1> DEFINE longer == Append(text, char)
           n == Len(text)
<1>1. /\ longer \in Seq(S) /\ Len(longer) = n + 1 /\ n \in Nat
      /\ longer[n + 1] = char
      /\ \A i \in 1 .. n : longer[i] = text[i]
  BY AppendProperties, LenProperties
<1> HIDE DEF longer
<1>2. PICK f : Folded(f, step, start, text, n) /\ Scanned(step, start, text) = f[1 .. n]
  BY ScannedFolded
<1>3. PICK g : /\ Folded(g, step, start, longer, n + 1)
               /\ Scanned(step, start, longer) = g[1 .. (n + 1)]
  BY <1>1, ScannedFolded
<1> HIDE DEF n
<1>4. f[1 .. n] = g[1 .. n]
  <2>1. n + 1 \in Nat /\ n <= n + 1
    BY <1>1
  <2> DEFINE k == n + 1
  <2>2. k \in Nat /\ n <= k /\ Folded(g, step, start, longer, k)
    BY <2>1, <1>3
  <2> HIDE DEF k
  <2>3. Folded(f, step, start, text, n) /\ n \in Nat /\ \A i \in 1 .. n : text[i] = longer[i]
    BY <1>1, <1>2
  <2> QED
    BY <2>2, <2>3, SameBeginning
<1>5. g[1 .. (n + 1)] = step[longer[n + 1]][g[1 .. ((n + 1) - 1)]]
  <2>1. n + 1 \in Nat /\ n + 1 \in 0 .. (n + 1) /\ n + 1 # 0
    BY <1>1
  <2> QED
    BY <2>1, <1>3, FoldedStep
<1>6. (n + 1) - 1 = n
  BY <1>1
<1> QED
  BY <1>1, <1>2, <1>3, <1>4, <1>5, <1>6 DEF longer

\* A scan ends in a state.
LEMMA ScannedType ==
    ASSUME NEW S, NEW X, NEW step \in [S -> [X -> X]], NEW start \in X
    PROVE  \A text \in Seq(S) : Scanned(step, start, text) \in X
<1> DEFINE good == {t \in Seq(S) : Scanned(step, start, t) \in X}
<1>1. <<>> \in good
  BY EmptySeq, ScannedEmpty
<1>2. ASSUME NEW t \in Seq(S), NEW c \in S, t \in good PROVE Append(t, c) \in good
  BY <1>2, ScannedAppend, AppendProperties
<1> HIDE DEF good
<1>3. Seq(S) \subseteq good
  BY <1>1, <1>2, Extension
<1> QED
  BY <1>3 DEF good

\* Appending to the second of two sequences.
LEMMA ConcatAppend ==
    ASSUME NEW S, NEW t \in Seq(S), NEW u \in Seq(S), NEW c \in S
    PROVE  t \o Append(u, c) = Append(t \o u, c)
<1>1. <<c>> \in Seq(S) /\ t \o u \in Seq(S)
  BY ConcatProperties
<1> QED
  BY <1>1, AppendIsConcat, ConcatAssociative

\* One text after the other.
LEMMA ScannedConcat ==
    ASSUME NEW S, NEW step, NEW start, NEW t \in Seq(S), NEW u \in Seq(S)
    PROVE  Scanned(step, start, t \o u) = Scanned(step, Scanned(step, start, t), u)
<1> DEFINE middle == Scanned(step, start, t)
           good == {v \in Seq(S) : Scanned(step, start, t \o v) = Scanned(step, middle, v)}
<1>1. <<>> \in good
  BY EmptySeq, ScannedEmpty, ConcatEmptySeq
<1>2. ASSUME NEW v \in Seq(S), NEW c \in S, v \in good PROVE Append(v, c) \in good
  <2>1. t \o Append(v, c) = Append(t \o v, c) /\ t \o v \in Seq(S) /\ Append(v, c) \in Seq(S)
    BY ConcatAppend, ConcatProperties, AppendProperties
  <2>2. Scanned(step, start, t \o Append(v, c)) = step[c][Scanned(step, start, t \o v)]
    <3>1. Scanned(step, start, Append(t \o v, c)) = step[c][Scanned(step, start, t \o v)]
      <4> DEFINE tv == t \o v
      <4>1. tv \in Seq(S)
        BY <2>1
      <4> HIDE DEF tv
      <4>2. Scanned(step, start, Append(tv, c)) = step[c][Scanned(step, start, tv)]
        BY <4>1, ScannedAppend
      <4> QED
        BY <4>2 DEF tv
    <3> QED
      BY <2>1, <3>1
  <2>3. Scanned(step, middle, Append(v, c)) = step[c][Scanned(step, middle, v)]
    BY ScannedAppend
  <2> QED
    BY <1>2, <2>1, <2>2, <2>3
<1> HIDE DEF good
<1>3. Seq(S) \subseteq good
  BY <1>1, <1>2, Extension
<1> QED
  BY <1>3 DEF good

\* One character.
LEMMA ScannedOne ==
    ASSUME NEW S, NEW step, NEW start, NEW c \in S
    PROVE  Scanned(step, start, <<c>>) = step[c][start]
<1> DEFINE empty == <<>>
<1>1. Append(empty, c) = <<c>>
  OBVIOUS
<1>2. empty \in Seq(S) /\ Scanned(step, start, empty) = start
  BY ScannedEmpty
<1> HIDE DEF empty
<1>3. Scanned(step, start, Append(empty, c)) = step[c][Scanned(step, start, empty)]
  BY <1>2, ScannedAppend
<1> QED
  BY <1>1, <1>2, <1>3

-----------------------------------------------------------------------------
(* Rendering, one character more                                           *)

\* The function FlattenSeq is defined with.
Flattened(f, seqs, n) ==
    f = [i \in 1 .. n |-> IF i = 1 THEN seqs[i] ELSE f[i - 1] \o seqs[i]]

\* The function exists.
LEMMA FlattenedExists ==
    ASSUME NEW seqs, NEW n \in Nat
    PROVE  \E f : Flattened(f, seqs, n)
<1> DEFINE good == {k \in Nat : \E f : Flattened(f, seqs, k)}
<1>1. 0 \in good
  <2> DEFINE f == [i \in 1 .. 0 |-> <<>>]
  <2>1. Flattened(f, seqs, 0)
    BY DEF Flattened
  <2> QED
    BY <2>1
<1>2. ASSUME NEW k \in Nat, k \in good PROVE k + 1 \in good
  <2>1. PICK f : Flattened(f, seqs, k)
    BY <1>2
  <2> DEFINE g == [i \in 1 .. k + 1 |->
                      IF i = k + 1 THEN IF i = 1 THEN seqs[i] ELSE f[k] \o seqs[i] ELSE f[i]]
  <2>2. ASSUME NEW i \in 1 .. k + 1
        PROVE  g[i] = IF i = 1 THEN seqs[i] ELSE g[i - 1] \o seqs[i]
    <3>1. CASE i = k + 1
      <4>1. i # 1 => i - 1 \in 1 .. k + 1 /\ i - 1 = k /\ i - 1 # k + 1
        BY <3>1
      <4> QED
        BY <3>1, <4>1
    <3>2. CASE i # k + 1
      <4>1. i \in 1 .. k /\ (i # 1 => i - 1 \in 1 .. k + 1 /\ i - 1 # k + 1)
        BY <3>2
      <4>2. f[i] = IF i = 1 THEN seqs[i] ELSE f[i - 1] \o seqs[i]
        BY <2>1, <4>1 DEF Flattened
      <4> QED
        BY <3>2, <4>1, <4>2
    <3> QED
      BY <3>1, <3>2
  <2>3. Flattened(g, seqs, k + 1)
    BY <2>2 DEF Flattened
  <2> QED
    BY <2>3
<1> HIDE DEF good
<1>3. Nat \subseteq good
  BY <1>1, <1>2, Induction
<1> QED
  BY <1>3 DEF good

\* FlattenSeq is the last value of such a function.
LEMMA FlattenSeqFlattened ==
    ASSUME NEW seqs, Len(seqs) \in Nat, Len(seqs) # 0
    PROVE  \E f : /\ Flattened(f, seqs, Len(seqs))
                  /\ FlattenSeq(seqs) = f[Len(seqs)]
<1> DEFINE f == CHOOSE g : Flattened(g, seqs, Len(seqs))
<1>1. Flattened(f, seqs, Len(seqs))
  BY FlattenedExists
<1>2. FlattenSeq(seqs) = f[Len(seqs)]
  BY DEF FlattenSeq, Flattened
<1> QED
  BY <1>1, <1>2

\* Sequences that begin alike are flattened alike, up to there.
LEMMA SameFlattened ==
    ASSUME NEW f, NEW g, NEW t, NEW u, NEW n \in Nat, NEW k \in Nat,
           Flattened(f, t, n), Flattened(g, u, k), n <= k, \A i \in 1 .. n : t[i] = u[i]
    PROVE  \A i \in 1 .. n : f[i] = g[i]
<1> DEFINE good == {m \in Nat : m \in 1 .. n => f[m] = g[m]}
<1>1. 0 \in good
  OBVIOUS
<1>2. ASSUME NEW m \in Nat, m \in good PROVE m + 1 \in good
  <2> SUFFICES ASSUME m + 1 \in 1 .. n PROVE f[m + 1] = g[m + 1]
    OBVIOUS
  <2>1. m + 1 \in 1 .. k /\ t[m + 1] = u[m + 1] /\ (m + 1) - 1 = m
    OBVIOUS
  <2>2. f[m + 1] = IF m + 1 = 1 THEN t[m + 1] ELSE f[m] \o t[m + 1]
    BY <2>1 DEF Flattened
  <2>3. g[m + 1] = IF m + 1 = 1 THEN u[m + 1] ELSE g[m] \o u[m + 1]
    BY <2>1 DEF Flattened
  <2>4. m + 1 # 1 => f[m] = g[m]
    BY <1>2
  <2> QED
    BY <2>1, <2>2, <2>3, <2>4
<1> HIDE DEF good
<1>3. Nat \subseteq good
  BY <1>1, <1>2, Induction
<1> QED
  BY <1>3 DEF good

\* Nothing to flatten.
LEMMA FlattenEmpty == FlattenSeq(<<>>) = <<>>
  BY DEF FlattenSeq

\* A sequence more is one at the end.
LEMMA FlattenAppend ==
    ASSUME NEW S, NEW seqs \in Seq(Seq(S)), NEW u \in Seq(S)
    PROVE  FlattenSeq(Append(seqs, u)) = FlattenSeq(seqs) \o u
<1> DEFINE longer == Append(seqs, u)
           n == Len(seqs)
           k == n + 1
<1>1. n \in Nat
  BY LenProperties
<1>2. longer[k] = u /\ Len(longer) = k /\ k \in Nat /\ k # 0 /\ n <= k /\ k - 1 = n
  BY <1>1, AppendProperties
<1>3. \A i \in 1 .. n : seqs[i] = longer[i]
  BY AppendProperties
<1> HIDE DEF longer, k
<1>4. PICK g : Flattened(g, longer, k) /\ FlattenSeq(longer) = g[k]
  BY <1>2, FlattenSeqFlattened
<1>5. g[k] = IF k = 1 THEN u ELSE g[n] \o u
  <2>1. k \in 1 .. k
    BY <1>2
  <2> QED
    BY <1>2, <1>4, <2>1 DEF Flattened
<1>6. CASE n = 0
  <2>1. seqs = <<>>
    BY <1>6, EmptySeq
  <2>2. FlattenSeq(seqs) = <<>> /\ <<>> \o u = u
    BY <2>1, FlattenEmpty, ConcatEmptySeq
  <2>3. k = 1
    BY <1>6 DEF k
  <2> QED
    BY <1>4, <1>5, <2>2, <2>3 DEF longer
<1>7. CASE n # 0
  <2>1. PICK f : Flattened(f, seqs, n) /\ FlattenSeq(seqs) = f[n]
    BY <1>1, <1>7, FlattenSeqFlattened
  <2> HIDE DEF n
  <2>2. Flattened(f, seqs, n) /\ Flattened(g, longer, k) /\ n <= k /\ n \in Nat /\ k \in Nat
    BY <1>1, <1>2, <1>4, <2>1
  <2>3. \A i \in 1 .. n : f[i] = g[i]
    BY <1>3, <2>2, SameFlattened
  <2>4. n \in 1 .. n /\ k # 1
    BY <1>1, <1>2, <1>7
  <2> QED
    BY <1>4, <1>5, <2>1, <2>3, <2>4 DEF longer
<1> QED
  BY <1>6, <1>7

\* What is flattened is a sequence again.
LEMMA FlattenType ==
    ASSUME NEW S
    PROVE  \A seqs \in Seq(Seq(S)) : FlattenSeq(seqs) \in Seq(S)
<1> DEFINE all == {seqs \in Seq(Seq(S)) : FlattenSeq(seqs) \in Seq(S)}
<1>1. <<>> \in all
  BY EmptySeq, FlattenEmpty
<1>2. ASSUME NEW seqs \in Seq(Seq(S)), NEW u \in Seq(S), seqs \in all
      PROVE  Append(seqs, u) \in all
  BY <1>2, FlattenAppend, AppendProperties, ConcatProperties
<1> HIDE DEF all
<1>3. Seq(Seq(S)) \subseteq all
  BY <1>1, <1>2, Extension
<1> QED
  BY <1>3 DEF all

\* One text at the end of another is one character at the end, where it has only one.
LEMMA ConcatOne ==
    ASSUME NEW t \in Texts, NEW c \in Characters
    PROVE  t \o <<c>> = Append(t, c)
  BY AppendIsConcat DEF Texts

\* A text read after another.
LEMMA ConcatRead ==
    ASSUME NEW step, NEW start, NEW t \in Texts, NEW u \in Texts
    PROVE  /\ Scanned(step, start, t \o u) = Scanned(step, Scanned(step, start, t), u)
           /\ t \o u \in Texts
<1>1. Scanned(step, start, t \o u) = Scanned(step, Scanned(step, start, t), u)
  BY ScannedConcat DEF Texts
<1>2. t \o u \in Texts
  BY ConcatProperties DEF Texts
<1> QED
  BY <1>1, <1>2

\* The last character is read after the others, whatever the text.
LEMMA EveryTextRead ==
    ASSUME NEW step, NEW start
    PROVE  \A t \in Texts, c \in Characters :
               Scanned(step, start, Append(t, c)) = step[c][Scanned(step, start, t)]
  BY ScannedAppend DEF Texts

\* A text after a longer one.
LEMMA ConcatLonger ==
    ASSUME NEW t \in Texts, NEW u \in Texts, NEW c \in Characters
    PROVE  t \o Append(u, c) = Append(t \o u, c)
  BY ConcatAppend DEF Texts

\* Two characters at the end of a text.
LEMMA ConcatTwo ==
    ASSUME NEW t \in Texts, NEW c \in Characters, NEW d \in Characters
    PROVE  t \o <<c, d>> = Append(Append(t, c), d)
<1>1. <<c>> \in Texts /\ <<c, d>> \in Texts
  BY DEF Texts
<1>2. t \o Append(<<c>>, d) = Append(t \o <<c>>, d)
  BY <1>1, ConcatAppend DEF Texts
<1>3. Append(<<c>>, d) = <<c, d>>
  <2> DEFINE l == Append(<<c>>, d)
             r == <<c, d>>
  <2>1. Len(<<c>>) = 1 /\ <<c>>[1] = c
    OBVIOUS
  <2>2. l \in Texts /\ r \in Texts /\ Len(l) = 2 /\ Len(r) = 2
    BY <1>1, <2>1, AppendProperties DEF Texts
  <2>3. l[1] = r[1] /\ l[2] = r[2]
    BY <1>1, <2>1, AppendProperties DEF Texts
  <2> HIDE DEF l, r
  <2>4. \A i \in 1 .. Len(l) : l[i] = r[i]
    BY <2>2, <2>3
  <2>5. l = r
    BY <2>2, <2>4, SeqEqual DEF Texts
  <2> QED
    BY <2>5 DEF l, r
<1> QED
  BY <1>2, <1>3, ConcatOne

\* Replacing in the empty text.
LEMMA ReplaceEmpty ==
    ASSUME NEW char, NEW by
    PROVE  Replace(<<>>, char, by) = <<>>
<1> DEFINE pieces == [i \in DOMAIN <<>> |-> IF <<>>[i] = char THEN by ELSE <<<<>>[i]>>]
<1>1. pieces = <<>>
  OBVIOUS
<1> QED
  BY <1>1, FlattenEmpty DEF Replace

\* Replacing in a text of one character more.
LEMMA ReplaceAppend ==
    ASSUME NEW t \in Texts, NEW c \in Characters, NEW char, NEW by \in Texts
    PROVE  /\ c = char => Replace(Append(t, c), char, by) = Replace(t, char, by) \o by
           /\ c # char => Replace(Append(t, c), char, by) = Replace(t, char, by) \o <<c>>
<1> DEFINE n == Len(t)
           longer == Append(t, c)
           Piece(d) == IF d = char THEN by ELSE <<d>>
           l == [i \in DOMAIN longer |-> Piece(longer[i])]
           s == [i \in DOMAIN t |-> Piece(t[i])]
           r == Append(s, Piece(c))
<1>1. /\ n \in Nat /\ DOMAIN t = 1 .. n /\ \A i \in 1 .. n : t[i] \in Characters
      /\ longer \in Texts /\ Len(longer) = n + 1 /\ DOMAIN longer = 1 .. n + 1
      /\ longer[n + 1] = c /\ \A i \in 1 .. n : longer[i] = t[i]
  BY AppendProperties, LenProperties DEF Texts
<1> HIDE DEF longer, n
<1>2. \A d \in Characters : Piece(d) \in Texts
  BY DEF Texts
<1> HIDE DEF Piece
<1>3. s \in Seq(Texts) /\ Len(s) = n
  BY <1>1, <1>2
<1>4. /\ r \in Seq(Texts) /\ Len(r) = n + 1 /\ DOMAIN r = 1 .. n + 1
      /\ r[n + 1] = Piece(c) /\ \A i \in 1 .. n : r[i] = s[i]
  BY <1>1, <1>2, <1>3, AppendProperties, LenProperties
<1> HIDE DEF r
<1>5. l = r
  <2>1. \A i \in 1 .. n + 1 : l[i] = r[i]
    <3> SUFFICES ASSUME NEW i \in 1 .. n + 1 PROVE l[i] = r[i]
      OBVIOUS
    <3>1. CASE i = n + 1
      BY <3>1, <1>1, <1>4
    <3>2. CASE i \in 1 .. n
      BY <3>2, <1>1, <1>4
    <3> QED
      BY <3>1, <3>2, <1>1
  <2> QED
    BY <1>1, <1>4, <2>1
<1>6. FlattenSeq(r) = FlattenSeq(s) \o Piece(c)
  BY <1>2, <1>3, FlattenAppend DEF r, Texts
<1> QED
  BY <1>5, <1>6 DEF Replace, longer, Piece

\* Replacing makes a text of a text.
LEMMA ReplaceType ==
    ASSUME NEW t \in Texts, NEW char, NEW by \in Texts
    PROVE  Replace(t, char, by) \in Texts
<1> DEFINE all == {u \in Texts : Replace(u, char, by) \in Texts}
<1>1. <<>> \in all
  BY EmptySeq, ReplaceEmpty DEF Texts
<1>2. ASSUME NEW u \in Texts, NEW c \in Characters, u \in all PROVE Append(u, c) \in all
  <2>1. <<c>> \in Texts
    BY DEF Texts
  <2>2. Replace(u, char, by) \o by \in Texts /\ Replace(u, char, by) \o <<c>> \in Texts
    BY <1>2, <2>1, ConcatProperties DEF Texts
  <2>4. /\ c = char => Replace(Append(u, c), char, by) = Replace(u, char, by) \o by
        /\ c # char => Replace(Append(u, c), char, by) = Replace(u, char, by) \o <<c>>
    BY <1>2, ReplaceAppend
  <2>3. Replace(Append(u, c), char, by) \in Texts
    BY <2>2, <2>4
  <2> QED
    BY <2>2, <2>3, AppendProperties DEF Texts
<1> HIDE DEF all
<1>3. Texts \subseteq all
  BY <1>1, <1>2, Extension DEF Texts
<1> QED
  BY <1>3 DEF all

\* Doubling a character.
LEMMA DoubledAppend ==
    ASSUME NEW t \in Texts, NEW c \in Characters, NEW char \in Characters
    PROVE  /\ Doubled(t, char) \in Texts
           /\ Doubled(<<>>, char) = <<>>
           /\ Doubled(Append(t, c), char) =
                  IF c = char THEN Append(Append(Doubled(t, char), c), c)
                              ELSE Append(Doubled(t, char), c)
<1>1. <<char, char>> \in Texts
  BY DEF Texts
<1>2. Doubled(t, char) \in Texts
  BY <1>1, ReplaceType DEF Doubled
<1>3. /\ c = char => Doubled(Append(t, c), char) = Doubled(t, char) \o <<c, c>>
      /\ c # char => Doubled(Append(t, c), char) = Doubled(t, char) \o <<c>>
  <2> DEFINE by == <<char, char>>
  <2>1. by \in Texts
    BY <1>1
  <2> HIDE DEF by
  <2>2. /\ c = char => Replace(Append(t, c), char, by) = Replace(t, char, by) \o by
        /\ c # char => Replace(Append(t, c), char, by) = Replace(t, char, by) \o <<c>>
    BY <2>1, ReplaceAppend
  <2> QED
    BY <2>2 DEF Doubled, by
<1> QED
  BY <1>2, <1>3, ConcatOne, ConcatTwo, ReplaceEmpty DEF Doubled

\* A backslash in front of backslashes and quotes, and nowhere else.
LEMMA EscapedAppend ==
    ASSUME NEW t \in Texts, NEW c \in Characters
    PROVE  /\ Escaped(t) \in Texts
           /\ Escaped(<<>>) = <<>>
           /\ Escaped(Append(t, c)) = IF c \in {"\\", "\""}
                                      THEN Append(Append(Escaped(t), "\\"), c)
                                      ELSE Append(Escaped(t), c)
<1> DEFINE d == Doubled(t, "\\")
           by == <<"\\", "\"">>
           Quoted(u) == Replace(u, "\"", by)
<1>1. "\\" \in Characters /\ "\"" \in Characters /\ by \in Texts /\ <<>> \in Texts
  <2>1. "\\" \in Characters /\ "\"" \in Characters
    BY DEF Characters, Special
  <2>2. by \in Texts
    <3>1. \A d1, d2 \in Characters : <<d1, d2>> \in Texts
      BY DEF Texts
    <3> QED
      BY <2>1, <3>1
  <2>3. <<>> \in Texts
    BY DEF Texts
  <2> QED
    BY <2>1, <2>2, <2>3
<1>2. d \in Texts /\ Append(d, c) \in Texts
  BY <1>1, DoubledAppend, AppendProperties DEF Texts
<1>3. /\ Doubled(<<>>, "\\") = <<>>
      /\ Doubled(Append(t, c), "\\") = IF c = "\\" THEN Append(Append(d, c), c) ELSE Append(d, c)
  BY <1>1, DoubledAppend
<1> HIDE DEF by
<1>4. Quoted(d) \in Texts /\ Quoted(Append(d, c)) \in Texts
  BY <1>1, <1>2, ReplaceType
<1>5. \A u \in Texts : /\ c = "\"" => Quoted(Append(u, c)) = Quoted(u) \o by
                       /\ c # "\"" => Quoted(Append(u, c)) = Quoted(u) \o <<c>>
  <2> SUFFICES ASSUME NEW u \in Texts
               PROVE  /\ c = "\"" => Replace(Append(u, c), "\"", by) = Replace(u, "\"", by) \o by
                      /\ c # "\"" => Replace(Append(u, c), "\"", by) = Replace(u, "\"", by) \o <<c>>
    OBVIOUS
  <2>1. by \in Texts
    BY <1>1
  <2> QED
    BY <2>1, ReplaceAppend
<1> HIDE DEF d
<1>7. CASE c = "\""
  <2>1. Quoted(Append(d, c)) = Append(Append(Quoted(d), "\\"), c)
    BY <1>1, <1>2, <1>4, <1>5, <1>7, ConcatTwo DEF by
  <2> HIDE DEF Quoted
  <2> QED
    BY <1>3, <1>4, <1>7, <2>1, ReplaceEmpty DEF Escaped, Quoted, d, by
<1>8. CASE c # "\""
  <2>1. Quoted(Append(d, c)) = Append(Quoted(d), c)
    BY <1>2, <1>4, <1>5, <1>8, ConcatOne
  <2>2. Quoted(Append(Append(d, c), c)) = Append(Quoted(Append(d, c)), c)
    BY <1>2, <1>4, <1>5, <1>8, ConcatOne
  <2> HIDE DEF Quoted
  <2> QED
    BY <1>3, <1>4, <1>8, <2>1, <2>2, ReplaceEmpty DEF Escaped, Quoted, d, by
<1> QED
  BY <1>7, <1>8

-----------------------------------------------------------------------------
(* Parsers, one character more                                             *)

\* A parser in the middle of a word, and between two words.
Inside(words, word, quote) ==
    [words |-> words, word |-> word, open |-> TRUE, quote |-> quote, escaped |-> FALSE]

Between(words) ==
    [words |-> words, word |-> <<>>, open |-> FALSE, quote |-> "none", escaped |-> FALSE]

\* States with the same components are the same.
LEMMA SameState ==
    ASSUME NEW r \in States, NEW s \in States, r.words = s.words, r.word = s.word,
           r.open <=> s.open, r.quote = s.quote, r.escaped <=> s.escaped
    PROVE  r = s
<1> DEFINE fields == {"words", "word", "open", "quote", "escaped"}
<1>1. r = [n \in fields |-> r[n]] /\ s = [n \in fields |-> s[n]]
  BY DEF States
<1>2. r.open = s.open /\ r.escaped = s.escaped
  BY DEF States
<1>3. \A n \in fields : r[n] = s[n]
  BY <1>2
<1> QED
  BY <1>1, <1>3

\* What Add, Quote, EndWord and Escape change and what they leave.
LEMMA AddState ==
    ASSUME NEW s \in States, NEW char \in Characters
    PROVE  /\ Add(s, char) \in States
           /\ Add(s, char).word = Append(s.word, char) /\ Add(s, char).open
           /\ ~Add(s, char).escaped
           /\ Add(s, char).words = s.words /\ Add(s, char).quote = s.quote
<1>1. s.word \in Texts
  BY DEF States
<1>2. Append(s.word, char) \in Texts
  BY <1>1 DEF Texts
<1> QED
  BY <1>2 DEF States, Add

\* What a quote does to the state.
LEMMA QuoteState ==
    ASSUME NEW s \in States, NEW quote \in Quotes
    PROVE  /\ Quote(s, quote) \in States
           /\ Quote(s, quote).quote = quote /\ Quote(s, quote).open
           /\ Quote(s, quote).words = s.words /\ Quote(s, quote).word = s.word
           /\ (Quote(s, quote).escaped <=> s.escaped)
  BY DEF States, Quote

\* What the end of a word does to it.
LEMMA EndWordState ==
    ASSUME NEW s \in States
    PROVE  /\ EndWord(s) \in States
           /\ s.open => EndWord(s).words = Append(s.words, s.word) /\ EndWord(s).word = <<>>
           /\ ~s.open => EndWord(s) = s
           /\ ~EndWord(s).open
           /\ EndWord(s).quote = s.quote /\ (EndWord(s).escaped <=> s.escaped)
<1>1. s.word \in Texts /\ s.words \in Seq(Texts) /\ s.open \in BOOLEAN
  BY DEF States
<1>2. Append(s.words, s.word) \in Seq(Texts) /\ <<>> \in Texts
  BY <1>1, EmptySeq, AppendProperties DEF Texts
<1>3. CASE s.open
  BY <1>2, <1>3 DEF States, EndWord
<1>4. CASE ~s.open
  BY <1>1, <1>4 DEF EndWord
<1> QED
  BY <1>3, <1>4

\* What a backslash does to it.
LEMMA EscapeState ==
    ASSUME NEW s \in States
    PROVE  /\ Escape(s) \in States /\ Escape(s).escaped
           /\ Escape(s).words = s.words /\ Escape(s).word = s.word
           /\ (Escape(s).open <=> s.open) /\ Escape(s).quote = s.quote
  BY DEF States, Escape

\* The quotes that may be open.
LEMMA OpenQuotes == "none" \in Quotes /\ "'" \in Quotes /\ "\"" \in Quotes
  BY DEF Quotes

\* A parser that has read nothing.
LEMMA ScanState ==
    /\ Scan \in States /\ Scan.words = <<>> /\ Scan.word = <<>> /\ Scan.quote = "none"
    /\ ~Scan.open /\ ~Scan.escaped
<1>1. <<>> \in Texts /\ <<>> \in Seq(Texts)
  BY EmptySeq DEF Texts
<1> QED
  BY <1>1, OpenQuotes DEF Scan, States

\* Texts of no and of one character.
LEMMA ShortTexts ==
    ASSUME NEW char \in Characters
    PROVE  <<>> \in Texts /\ <<char>> \in Texts /\ Append(<<>>, char) = <<char>>
<1>1. <<>> \in Texts
  BY DEF Texts
<1>2. <<char>> \in Texts
  BY DEF Texts
<1>3. Append(<<>>, char) = <<char>>
  BY SMT
<1> QED
  BY <1>1, <1>2, <1>3

\* The components of the two states.
LEMMA InsideState ==
    ASSUME NEW words \in Seq(Texts), NEW word \in Texts, NEW quote \in Quotes
    PROVE  /\ Inside(words, word, quote) \in States
           /\ Inside(words, word, quote).words = words /\ Inside(words, word, quote).word = word
           /\ Inside(words, word, quote).open /\ Inside(words, word, quote).quote = quote
           /\ ~Inside(words, word, quote).escaped
  BY DEF Inside, States

\* Between two words, nothing is open.
LEMMA BetweenState ==
    ASSUME NEW words \in Seq(Texts)
    PROVE  /\ Between(words) \in States
           /\ Between(words).words = words /\ Between(words).word = <<>>
           /\ ~Between(words).open /\ Between(words).quote = "none"
           /\ ~Between(words).escaped
<1>1. <<>> \in Texts
  <2>1. "x" \in Characters
    BY DEF Characters
  <2> QED
    BY <2>1, ShortTexts
<1> QED
  BY <1>1, OpenQuotes DEF Between, States

\* What a parser adds, quotes, ends and escapes in the middle of a word and between two words.
LEMMA InsideAndBetween ==
    ASSUME NEW words \in Seq(Texts), NEW word \in Texts, NEW quote \in Quotes,
           NEW next \in Quotes, NEW char \in Characters
    PROVE  /\ Append(word, char) \in Texts /\ Append(words, word) \in Seq(Texts)
           /\ Add(Between(words), char) = Inside(words, <<char>>, "none")
           /\ Add(Inside(words, word, quote), char) = Inside(words, Append(word, char), quote)
           /\ Add(Escape(Inside(words, word, quote)), char) =
                  Inside(words, Append(word, char), quote)
           /\ Quote(Between(words), quote) = Inside(words, <<>>, quote)
           /\ Quote(Inside(words, word, quote), next) = Inside(words, word, next)
           /\ EndWord(Between(words)) = Between(words)
           /\ EndWord(Inside(words, word, "none")) = Between(Append(words, word))
<1> DEFINE b == Between(words)
           i == Inside(words, word, quote)
           n == Inside(words, word, "none")
<1>1. <<>> \in Texts /\ <<char>> \in Texts /\ Append(<<>>, char) = <<char>>
  BY ShortTexts
<1>2. Append(word, char) \in Texts /\ Append(words, word) \in Seq(Texts)
  BY AppendProperties DEF Texts
<1>0. "none" \in Quotes
  BY OpenQuotes
<1>3. b \in States /\ b.words = words /\ b.word = <<>> /\ ~b.open /\ b.quote = "none" /\ ~b.escaped
  BY BetweenState
<1>4. i \in States /\ i.words = words /\ i.word = word /\ i.open /\ i.quote = quote /\ ~i.escaped
  BY InsideState
<1>5. n \in States /\ n.words = words /\ n.word = word /\ n.open /\ n.quote = "none" /\ ~n.escaped
  BY <1>0, InsideState
<1> HIDE DEF b, i, n
<1>6. Add(b, char) = Inside(words, <<char>>, "none")
  <2> DEFINE r == Add(b, char)
             s == Inside(words, <<char>>, "none")
  <2>1. /\ r \in States /\ r.words = words /\ r.word = <<char>> /\ r.open
        /\ r.quote = "none" /\ ~r.escaped
    BY <1>1, <1>3, AddState
  <2>2. /\ s \in States /\ s.words = words /\ s.word = <<char>> /\ s.open
        /\ s.quote = "none" /\ ~s.escaped
    BY <1>0, <1>1, InsideState
  <2> HIDE DEF r, s
  <2>3. r = s
    BY <2>1, <2>2, SameState
  <2> QED
    BY <2>3 DEF r, s
<1>7. Add(i, char) = Inside(words, Append(word, char), quote) /\
      Add(Escape(i), char) = Inside(words, Append(word, char), quote)
  <2> DEFINE r == Add(i, char)
             e == Escape(i)
             a == Add(e, char)
             w == Append(word, char)
             s == Inside(words, w, quote)
  <2>1. /\ r \in States /\ r.words = words /\ r.word = w /\ r.open
        /\ r.quote = quote /\ ~r.escaped
    BY <1>4, AddState
  <2>2. e \in States /\ e.words = words /\ e.word = word /\ e.open /\ e.quote = quote
    BY <1>4, EscapeState
  <2> HIDE DEF e
  <2>3. /\ a \in States /\ a.words = words /\ a.word = w /\ a.open
        /\ a.quote = quote /\ ~a.escaped
    BY <2>2, AddState
  <2>4. w \in Texts
    BY <1>2
  <2> HIDE DEF w
  <2>5. /\ s \in States /\ s.words = words /\ s.word = w /\ s.open
        /\ s.quote = quote /\ ~s.escaped
    BY <2>4, InsideState
  <2> HIDE DEF r, s, a
  <2>6. r = s
    BY <2>1, <2>5, SameState
  <2>7. a = s
    BY <2>3, <2>5, SameState
  <2> QED
    BY <2>6, <2>7 DEF r, s, a, e, w
<1>8. Quote(b, quote) = Inside(words, <<>>, quote)
  <2> DEFINE r == Quote(b, quote)
             s == Inside(words, <<>>, quote)
  <2>1. /\ r \in States /\ r.words = words /\ r.word = <<>> /\ r.open
        /\ r.quote = quote /\ ~r.escaped
    BY <1>3, QuoteState
  <2>2. /\ s \in States /\ s.words = words /\ s.word = <<>> /\ s.open
        /\ s.quote = quote /\ ~s.escaped
    BY <1>1, InsideState
  <2> HIDE DEF r, s
  <2>3. r = s
    BY <2>1, <2>2, SameState
  <2> QED
    BY <2>3 DEF r, s
<1>9. Quote(i, next) = Inside(words, word, next)
  <2> DEFINE r == Quote(i, next)
             s == Inside(words, word, next)
  <2>1. /\ r \in States /\ r.words = words /\ r.word = word /\ r.open
        /\ r.quote = next /\ ~r.escaped
    BY <1>4, QuoteState
  <2>2. /\ s \in States /\ s.words = words /\ s.word = word /\ s.open
        /\ s.quote = next /\ ~s.escaped
    BY InsideState
  <2> HIDE DEF r, s
  <2>3. r = s
    BY <2>1, <2>2, SameState
  <2> QED
    BY <2>3 DEF r, s
<1>10. EndWord(b) = b
  BY <1>3, EndWordState
<1>11. EndWord(n) = Between(Append(words, word))
  <2> DEFINE r == EndWord(n)
             w == Append(words, word)
             s == Between(w)
  <2>1. /\ r \in States /\ r.words = w /\ r.word = <<>> /\ ~r.open
        /\ r.quote = "none" /\ ~r.escaped
    BY <1>5, EndWordState
  <2>2. w \in Seq(Texts)
    BY <1>2
  <2> HIDE DEF w
  <2>3. /\ s \in States /\ s.words = w /\ s.word = <<>> /\ ~s.open
        /\ s.quote = "none" /\ ~s.escaped
    BY <2>2, BetweenState
  <2> HIDE DEF r, s
  <2>4. r = s
    BY <2>1, <2>3, SameState
  <2> QED
    BY <2>4 DEF r, s, w
<1> QED
  BY <1>2, <1>6, <1>7, <1>8, <1>9, <1>10, <1>11 DEF b, i, n

\* The cases of a character read by systemd.
LEMMA SystemdCases ==
    ASSUME NEW char \in Characters, NEW s \in States
    PROVE  /\ s.escaped /\ char \in {"\\", "\"", "'"} => SystemdChar[char][s] = Add(s, char)
           /\ ~s.escaped /\ char = "\\" => SystemdChar[char][s] = Escape(s)
           /\ ~s.escaped /\ char # "\\" /\ char = s.quote => SystemdChar[char][s] = Quote(s, "none")
           /\ ~s.escaped /\ char # "\\" /\ char # s.quote /\ s.quote # "none" =>
                  SystemdChar[char][s] = Add(s, char)
           /\ ~s.escaped /\ s.quote = "none" /\ char = "\"" => SystemdChar[char][s] = Quote(s, char)
           /\ ~s.escaped /\ s.quote = "none" /\ char = " " => SystemdChar[char][s] = EndWord(s)
<1>1. SystemdChar[char][s] =
          IF s.escaped THEN Add(s, IF char \in {"\\", "\"", "'"} THEN char ELSE "?")
          ELSE CASE char = "\\"                             -> Escape(s)
                 [] char = s.quote                          -> Quote(s, "none")
                 [] s.quote = "none" /\ char \in {"'", "\""} -> Quote(s, char)
                 [] s.quote = "none" /\ char = " "          -> EndWord(s)
                 [] OTHER                                   -> Add(s, char)
  BY DEF SystemdChar
<1>0. s.quote \in Quotes /\ "\\" \notin Quotes /\ " " \notin Quotes /\ char # "none"
  BY DEF States, Quotes, Characters, Special
<1>2. ASSUME s.escaped, char \in {"\\", "\"", "'"} PROVE SystemdChar[char][s] = Add(s, char)
  BY <1>0, <1>1, <1>2
<1>3. ASSUME ~s.escaped, char = "\\" PROVE SystemdChar[char][s] = Escape(s)
  BY <1>0, <1>1, <1>3
<1>4. ASSUME ~s.escaped, char # "\\", char = s.quote PROVE SystemdChar[char][s] = Quote(s, "none")
  BY <1>0, <1>1, <1>4
<1>5. ASSUME ~s.escaped, char # "\\", char # s.quote, s.quote # "none"
      PROVE  SystemdChar[char][s] = Add(s, char)
  BY <1>0, <1>1, <1>5
<1>6. ASSUME ~s.escaped, s.quote = "none", char = "\"" PROVE SystemdChar[char][s] = Quote(s, char)
  BY <1>0, <1>1, <1>6
<1>7. ASSUME ~s.escaped, s.quote = "none", char = " " PROVE SystemdChar[char][s] = EndWord(s)
  BY <1>0, <1>1, <1>7
<1> QED
  BY <1>2, <1>3, <1>4, <1>5, <1>6, <1>7

\* A word in double quotes, as systemd reads it.
LEMMA SystemdQuoted ==
    ASSUME NEW words \in Seq(Texts), NEW word \in Texts, NEW char \in Characters
    PROVE  /\ SystemdChar["\""][Between(words)] = Inside(words, <<>>, "\"")
           /\ char \notin {"\\", "\""} => SystemdChar[char][Inside(words, word, "\"")] =
                                              Inside(words, Append(word, char), "\"")
           /\ char \in {"\\", "\""} => SystemdChar[char][SystemdChar["\\"][Inside(words, word, "\"")]] =
                                              Inside(words, Append(word, char), "\"")
           /\ SystemdChar["\""][Inside(words, word, "\"")] = Inside(words, word, "none")
           /\ SystemdChar[" "][Inside(words, word, "none")] = Between(Append(words, word))
<1> DEFINE s == Inside(words, word, "\"")
           u == Inside(words, word, "none")
           b == Between(words)
           e == Escape(s)
<1>0. /\ "\"" \in Characters /\ "\\" \in Characters /\ " " \in Characters
      /\ "none" \in Quotes /\ "\"" \in Quotes
  BY OpenQuotes DEF Characters, Special
<1>1. s \in States /\ s.words = words /\ s.quote = "\"" /\ ~s.escaped
  <2> DEFINE q == "\""
  <2>1. q \in Quotes
    BY OpenQuotes
  <2> HIDE DEF q
  <2>2. /\ Inside(words, word, q) \in States /\ Inside(words, word, q).words = words
        /\ Inside(words, word, q).quote = q /\ ~Inside(words, word, q).escaped
    BY <2>1, InsideState
  <2> QED
    BY <2>2 DEF q
<1>2. u \in States /\ u.words = words /\ u.quote = "none" /\ ~u.escaped
  <2>1. "none" \in Quotes
    BY OpenQuotes
  <2> QED
    BY <2>1, InsideState
<1>3. b \in States /\ b.quote = "none" /\ ~b.escaped
  BY BetweenState
<1>4. e \in States /\ e.escaped
  BY <1>1, EscapeState
<1>5. /\ Add(s, char) = Inside(words, Append(word, char), "\"")
      /\ Add(e, char) = Inside(words, Append(word, char), "\"")
      /\ Quote(b, "\"") = Inside(words, <<>>, "\"")
      /\ Quote(s, "none") = u
      /\ EndWord(u) = Between(Append(words, word))
  BY <1>0, InsideAndBetween
<1> HIDE DEF s, u, b, e
<1>6. SystemdChar["\""][b] = Quote(b, "\"")
  BY <1>0, <1>3, SystemdCases
<1>7. char \notin {"\\", "\""} => SystemdChar[char][s] = Add(s, char)
  BY <1>0, <1>1, SystemdCases
<1>8. SystemdChar["\\"][s] = e
  BY <1>0, <1>1, SystemdCases DEF e
<1>9. char \in {"\\", "\""} => SystemdChar[char][e] = Add(e, char)
  BY <1>0, <1>4, SystemdCases
<1>10. SystemdChar["\""][s] = Quote(s, "none")
  BY <1>0, <1>1, SystemdCases
<1>11. SystemdChar[" "][u] = EndWord(u)
  BY <1>0, <1>2, SystemdCases
<1>12. SystemdChar["\""][b] = Inside(words, <<>>, "\"")
  BY <1>5, <1>6
<1>13. char \notin {"\\", "\""} => SystemdChar[char][s] = Inside(words, Append(word, char), "\"")
  BY <1>5, <1>7
<1>14. char \in {"\\", "\""} =>
          SystemdChar[char][SystemdChar["\\"][s]] = Inside(words, Append(word, char), "\"")
  BY <1>5, <1>8, <1>9
<1>15. SystemdChar["\""][s] = u
  BY <1>5, <1>10
<1>16. SystemdChar[" "][u] = Between(Append(words, word))
  BY <1>5, <1>11
<1> QED
  BY <1>12, <1>13, <1>14, <1>15, <1>16 DEF s, u, b

-----------------------------------------------------------------------------
(* systemd                                                                 *)

\* What systemd's words of a rendered text hold: specifiers and variables are still doubled.
Word(text) == Doubled(Doubled(text, "%"), "$")

\* Doubling two characters.
LEMMA TwiceDoubledAppend ==
    ASSUME NEW t \in Texts, NEW c \in Characters, NEW first \in Characters,
           NEW second \in Characters, first # second
    PROVE  /\ Doubled(Doubled(t, first), second) \in Texts
           /\ Doubled(Doubled(<<>>, first), second) = <<>>
           /\ c = first \/ c = second =>
                  Doubled(Doubled(Append(t, c), first), second) =
                      Append(Append(Doubled(Doubled(t, first), second), c), c)
           /\ c # first /\ c # second =>
                  Doubled(Doubled(Append(t, c), first), second) =
                      Append(Doubled(Doubled(t, first), second), c)
<1> DEFINE d == Doubled(t, first)
<1>2. d \in Texts /\ Doubled(<<>>, first) = <<>> /\ Doubled(<<>>, second) = <<>>
  BY DoubledAppend
<1>3. /\ c = first => Doubled(Append(t, c), first) = Append(Append(d, c), c)
      /\ c # first => Doubled(Append(t, c), first) = Append(d, c)
  BY DoubledAppend
<1> HIDE DEF d
<1>4. Append(d, c) \in Texts
  BY <1>2, AppendProperties DEF Texts
<1>5. Doubled(d, second) \in Texts
  BY <1>2, DoubledAppend
<1>6. \A u \in Texts :
          /\ c = second => Doubled(Append(u, c), second) = Append(Append(Doubled(u, second), c), c)
          /\ c # second => Doubled(Append(u, c), second) = Append(Doubled(u, second), c)
  BY DoubledAppend
<1>7. CASE c = first
  <2>1. Doubled(Append(d, c), second) = Append(Doubled(d, second), c)
    BY <1>2, <1>6, <1>7
  <2>2. Doubled(Append(Append(d, c), c), second) = Append(Doubled(Append(d, c), second), c)
    BY <1>4, <1>6, <1>7
  <2> QED
    BY <1>2, <1>3, <1>5, <1>7, <2>1, <2>2 DEF d
<1>8. CASE c # first
  <2>1. /\ c = second => Doubled(Append(d, c), second) = Append(Append(Doubled(d, second), c), c)
        /\ c # second => Doubled(Append(d, c), second) = Append(Doubled(d, second), c)
    BY <1>2, <1>6
  <2> QED
    BY <1>2, <1>3, <1>5, <1>8, <2>1 DEF d
<1> QED
  BY <1>7, <1>8

\* Words, one character more; texts are rendered into texts.
LEMMA WordAppend ==
    ASSUME NEW t \in Texts, NEW c \in Characters
    PROVE  /\ Word(t) \in Texts /\ Word(<<>>) = <<>>
           /\ Word(Append(t, c)) = IF c \in {"%", "$"} THEN Append(Append(Word(t), c), c)
                                                       ELSE Append(Word(t), c)
<1> DEFINE first == "%"
           second == "$"
<1>1. first \in Characters /\ second \in Characters /\ first # second
  BY DEF Characters, Special
<1> HIDE DEF first, second
<1>2. /\ Doubled(Doubled(t, first), second) \in Texts
      /\ Doubled(Doubled(<<>>, first), second) = <<>>
      /\ c = first \/ c = second =>
             Doubled(Doubled(Append(t, c), first), second) =
                 Append(Append(Doubled(Doubled(t, first), second), c), c)
      /\ c # first /\ c # second =>
             Doubled(Doubled(Append(t, c), first), second) =
                 Append(Doubled(Doubled(t, first), second), c)
  BY <1>1, TwiceDoubledAppend
<1> QED
  BY <1>2 DEF Word, first, second

\* A text between its double quotes, one character more.
LEMMA QuotedAppend ==
    ASSUME NEW t \in Texts, NEW c \in Characters
    PROVE  /\ Word(Escaped(t)) \in Texts /\ Word(Escaped(<<>>)) = <<>>
           /\ Word(Escaped(Append(t, c))) =
                  IF c \in {"\\", "\""} THEN Append(Append(Word(Escaped(t)), "\\"), c)
                  ELSE IF c \in {"%", "$"} THEN Append(Append(Word(Escaped(t)), c), c)
                                           ELSE Append(Word(Escaped(t)), c)
<1> DEFINE e == Escaped(t)
<1>1. "\\" \in Characters
  BY DEF Characters, Special
<1>2. e \in Texts /\ Escaped(<<>>) = <<>>
  BY EscapedAppend
<1>3. /\ c \in {"\\", "\""} => Escaped(Append(t, c)) = Append(Append(e, "\\"), c)
      /\ c \notin {"\\", "\""} => Escaped(Append(t, c)) = Append(e, c)
  BY EscapedAppend
<1> HIDE DEF e
<1>4. Word(e) \in Texts /\ Word(<<>>) = <<>>
  BY <1>2, WordAppend
<1>5. Append(e, "\\") \in Texts
  BY <1>1, <1>2, AppendProperties DEF Texts
<1>6. CASE c \in {"\\", "\""}
  <2>1. Word(Append(e, "\\")) = Append(Word(e), "\\")
    BY <1>1, <1>2, WordAppend
  <2>2. Word(Append(Append(e, "\\"), c)) = Append(Word(Append(e, "\\")), c)
    BY <1>5, <1>6, WordAppend
  <2> QED
    BY <1>2, <1>3, <1>4, <1>6, <2>1, <2>2 DEF e
<1>7. CASE c \notin {"\\", "\""}
  <2>1. Word(Append(e, c)) = IF c \in {"%", "$"} THEN Append(Append(Word(e), c), c)
                                                 ELSE Append(Word(e), c)
    BY <1>2, WordAppend
  <2> QED
    BY <1>2, <1>3, <1>4, <1>7, <2>1 DEF e
<1> QED
  BY <1>6, <1>7

\* Between double quotes systemd finds the word again, the escapes undone.
LEMMA QuotedRead ==
    ASSUME NEW words \in Seq(Texts)
    PROVE  \A t \in Texts : Scanned(SystemdChar, Inside(words, <<>>, "\""), Word(Escaped(t))) =
                                Inside(words, Word(t), "\"")
<1> DEFINE start == Inside(words, <<>>, "\"")
           Reads(u) == Scanned(SystemdChar, start, u)
           good == {t \in Texts : Reads(Word(Escaped(t))) = Inside(words, Word(t), "\"")}
<1>0. "\\" \in Characters /\ "x" \in Characters /\ <<>> \in Texts
  <2>1. "\\" \in Characters /\ "x" \in Characters
    BY DEF Characters, Special
  <2> QED
    BY <2>1, ShortTexts
<1>1. <<>> \in good
  <2>1. Word(Escaped(<<>>)) = <<>> /\ Word(<<>>) = <<>>
    BY <1>0, QuotedAppend, WordAppend
  <2> QED
    BY <1>0, <2>1, ScannedEmpty
<1> HIDE DEF start
<1>2. ASSUME NEW t \in Texts, NEW c \in Characters, t \in good PROVE Append(t, c) \in good
  <2> DEFINE a == Word(Escaped(t))
             w == Word(t)
  <2>1. a \in Texts /\ w \in Texts /\ Append(t, c) \in Texts
    BY QuotedAppend, WordAppend, AppendProperties DEF Texts
  <2>2. Reads(a) = Inside(words, w, "\"")
    BY <1>2
  <2>3. /\ c \in {"\\", "\""} => Word(Escaped(Append(t, c))) = Append(Append(a, "\\"), c)
        /\ c \in {"%", "$"} => Word(Escaped(Append(t, c))) = Append(Append(a, c), c)
        /\ c \notin {"\\", "\"", "%", "$"} => Word(Escaped(Append(t, c))) = Append(a, c)
    BY QuotedAppend
  <2>4. /\ c \in {"%", "$"} => Word(Append(t, c)) = Append(Append(w, c), c)
        /\ c \notin {"%", "$"} => Word(Append(t, c)) = Append(w, c)
    BY WordAppend
  <2> HIDE DEF a, w
  <2>5. /\ Append(a, "\\") \in Texts /\ Append(a, c) \in Texts /\ Append(w, c) \in Texts
    BY <1>0, <2>1, AppendProperties DEF Texts
  <2>6. \A u \in Texts, d \in Characters : Reads(Append(u, d)) = SystemdChar[d][Reads(u)]
    BY ScannedAppend DEF Texts
  <2> HIDE DEF Reads
  <2>7. CASE c \in {"\\", "\""}
    <3>1. Reads(Append(a, "\\")) = SystemdChar["\\"][Inside(words, w, "\"")]
      BY <1>0, <2>1, <2>2, <2>6
    <3>2. Reads(Append(Append(a, "\\"), c)) = SystemdChar[c][SystemdChar["\\"][Inside(words, w, "\"")]]
      BY <2>5, <2>6, <3>1
    <3>3. SystemdChar[c][SystemdChar["\\"][Inside(words, w, "\"")]] = Inside(words, Append(w, c), "\"")
      BY <2>1, <2>7, SystemdQuoted
    <3> QED
      BY <2>1, <2>3, <2>4, <2>7, <3>2, <3>3
  <2>8. CASE c \notin {"\\", "\""}
    <3>0. \A v \in Texts : SystemdChar[c][Inside(words, v, "\"")] = Inside(words, Append(v, c), "\"")
      BY <2>8, SystemdQuoted
    <3>1. Reads(Append(a, c)) = Inside(words, Append(w, c), "\"")
      BY <2>1, <2>2, <2>6, <3>0
    <3>2. Reads(Append(Append(a, c), c)) = Inside(words, Append(Append(w, c), c), "\"")
      BY <2>5, <2>6, <3>0, <3>1
    <3> QED
      BY <2>1, <2>3, <2>4, <2>8, <3>1, <3>2
  <2> QED
    BY <2>7, <2>8
<1> HIDE DEF good
<1>3. Texts \subseteq good
  BY <1>1, <1>2, Extension DEF Texts
<1> QED
  BY <1>3 DEF good, start

\* An argument, after the words before it.
LEMMA ArgumentRead ==
    ASSUME NEW words \in Seq(Texts), NEW t \in Texts
    PROVE  /\ systemdCommandArg(t) \in Texts
           /\ Scanned(SystemdChar, Between(words), systemdCommandArg(t)) =
                  Inside(words, Word(t), "none")
<1> DEFINE q == "\""
           o == <<q>>
           a == Word(Escaped(t))
           oa == o \o a
           w == Word(t)
           Reads(s, u) == Scanned(SystemdChar, s, u)
<1>1. a \in Texts /\ q \in Characters /\ o \in Texts /\ w \in Texts
  <2>1. q \in Characters
    BY DEF Characters, Special
  <2> QED
    BY <2>1, ShortTexts, QuotedAppend, WordAppend
<1>2. systemdCommandArg(t) = oa \o o
  BY DEF systemdCommandArg, Word
<1>5. Reads(Inside(words, <<>>, q), a) = Inside(words, w, q)
  BY QuotedRead
<1>4. /\ SystemdChar[q][Between(words)] = Inside(words, <<>>, q)
      /\ SystemdChar[q][Inside(words, w, q)] = Inside(words, w, "none")
  BY <1>1, SystemdQuoted
<1> HIDE DEF q, a, w
<1>6. \A s : Reads(s, o) = SystemdChar[q][s]
  BY <1>1, ScannedOne
<1> HIDE DEF o
<1>3. oa \in Texts
  BY <1>1, ConcatProperties DEF Texts
<1>7. \A s : Reads(s, oa) = Reads(Reads(s, o), a)
  BY <1>1, ConcatRead
<1> HIDE DEF oa
<1>8. \A s : Reads(s, oa \o o) = Reads(Reads(s, oa), o)
  BY <1>1, <1>3, ConcatRead
<1>9. oa \o o \in Texts
  BY <1>1, <1>3, ConcatProperties DEF Texts
<1> HIDE DEF Reads
<1>10. Reads(Between(words), oa \o o) = Inside(words, w, "none")
  BY <1>4, <1>5, <1>6, <1>7, <1>8
<1> QED
  BY <1>2, <1>9, <1>10 DEF Reads, w

-----------------------------------------------------------------------------
(* Texts and their words                                                   *)

\* What holds of the empty text, and of a text with one character more, holds of every text.
LEMMA EveryText ==
    ASSUME NEW all, <<>> \in all,
           \A t \in Texts, c \in Characters : t \in all => Append(t, c) \in all
    PROVE  Texts \subseteq all
  BY Extension DEF Texts

\* The ends of a text, and what it contains.
LEMMA LongerText ==
    ASSUME NEW t \in Texts, NEW c \in Characters
    PROVE  /\ Append(t, c) \in Texts /\ Append(t, c) # <<>>
           /\ Len(Append(t, c)) = Len(t) + 1 /\ Len(t) \in Nat
           /\ (t = <<>> <=> Len(t) = 0)
           /\ Last(Append(t, c)) = c
           /\ Head(Append(t, c)) = IF t = <<>> THEN c ELSE Head(t)
<1>1. /\ Append(t, c) \in Texts /\ Append(t, c) # <<>>
      /\ Len(Append(t, c)) = Len(t) + 1 /\ Append(t, c)[Len(t) + 1] = c
  BY AppendProperties DEF Texts
<1>2. Len(t) \in Nat /\ (t = <<>> <=> Len(t) = 0)
  BY EmptySeq, LenProperties DEF Texts
<1>3. Last(Append(t, c)) = c
  BY <1>1 DEF Last
<1>4. Head(Append(t, c)) = IF t = <<>> THEN c ELSE Head(t)
  BY HeadTailAppend DEF Texts
<1> QED
  BY <1>1, <1>2, <1>3, <1>4

\* What a text with one character more contains.
LEMMA LongerContains ==
    ASSUME NEW t \in Texts, NEW c \in Characters, NEW char
    PROVE  Contains(Append(t, c), char) <=> Contains(t, char) \/ c = char
<1> DEFINE longer == Append(t, c)
           n == Len(t)
<1>1. /\ n \in Nat /\ Len(longer) = n + 1 /\ longer[n + 1] = c
      /\ \A i \in 1 .. n : longer[i] = t[i]
  BY AppendProperties, LenProperties DEF Texts
<1> HIDE DEF longer
<1>2. Contains(longer, char) <=> \E i \in 1 .. n + 1 : longer[i] = char
  BY <1>1 DEF Contains
<1>3. Contains(t, char) <=> \E i \in 1 .. n : t[i] = char
  BY DEF Contains
<1> HIDE DEF n
<1>4. 1 .. n + 1 = (1 .. n) \cup {n + 1}
  BY <1>1
<1>5. Contains(longer, char) <=> Contains(t, char) \/ c = char
  BY <1>1, <1>2, <1>3, <1>4
<1> QED
  BY <1>5 DEF longer

\* The empty text contains nothing.
LEMMA EmptyContains ==
    ASSUME NEW char
    PROVE  ~Contains(<<>>, char)
  BY EmptySeq DEF Contains

\* Joining one text more.
LEMMA JoinedAppend ==
    ASSUME NEW texts \in Seq(Texts), NEW u \in Texts
    PROVE  /\ texts = <<>> => Joined(Append(texts, u)) = u
           /\ texts # <<>> => Joined(Append(texts, u)) = Joined(texts) \o (<<" ">> \o u)
<1> DEFINE n == Len(texts)
           longer == Append(texts, u)
           Piece(i, v) == IF i = 1 THEN v ELSE <<" ">> \o v
           l == [i \in DOMAIN longer |-> Piece(i, longer[i])]
           s == [i \in DOMAIN texts |-> Piece(i, texts[i])]
           r == Append(s, Piece(n + 1, u))
<1>1. /\ n \in Nat /\ DOMAIN texts = 1 .. n /\ \A i \in 1 .. n : texts[i] \in Texts
      /\ longer \in Seq(Texts) /\ Len(longer) = n + 1 /\ DOMAIN longer = 1 .. n + 1
      /\ longer[n + 1] = u /\ \A i \in 1 .. n : longer[i] = texts[i]
      /\ (texts = <<>> <=> n = 0)
  BY EmptySeq, AppendProperties, LenProperties
<1>2. \A v \in Texts, i \in Nat : Piece(i, v) \in Texts
  <2>1. <<" ">> \in Texts
    BY ShortTexts DEF Characters, Special
  <2>2. \A v \in Texts : <<" ">> \o v \in Texts
    BY <2>1, ConcatRead
  <2> QED
    BY <2>2
<1> HIDE DEF longer, n, Piece
<1>3. s \in Seq(Texts) /\ Len(s) = n /\ Piece(n + 1, u) \in Texts
  <2>1. \A i \in 1 .. n : Piece(i, texts[i]) \in Texts
    BY <1>1, <1>2
  <2>2. s \in [1 .. n -> Texts]
    BY <1>1, <2>1
  <2>3. s \in Seq(Texts) /\ Len(s) = n
    BY <1>1, <2>2
  <2> QED
    BY <1>1, <1>2, <2>3
<1>4. /\ r \in Seq(Texts) /\ Len(r) = n + 1 /\ DOMAIN r = 1 .. n + 1
      /\ r[n + 1] = Piece(n + 1, u) /\ \A i \in 1 .. n : r[i] = s[i]
  <2> HIDE DEF s
  <2> QED
    BY <1>1, <1>3, AppendProperties, LenProperties
<1> HIDE DEF r
<1>5. l = r
  <2>1. \A i \in 1 .. n + 1 : l[i] = r[i]
    <3> SUFFICES ASSUME NEW i \in 1 .. n + 1 PROVE l[i] = r[i]
      OBVIOUS
    <3>1. CASE i = n + 1
      BY <3>1, <1>1, <1>4
    <3>2. CASE i \in 1 .. n
      BY <3>2, <1>1, <1>4
    <3> QED
      BY <3>1, <3>2, <1>1
  <2> QED
    BY <1>1, <1>4, <2>1
<1>6. FlattenSeq(r) = FlattenSeq(s) \o Piece(n + 1, u)
  BY <1>3, FlattenAppend DEF r, Texts
<1>7. Joined(longer) = FlattenSeq(r) /\ Joined(texts) = FlattenSeq(s)
  BY <1>5 DEF Joined, Piece
<1>8. CASE n = 0
  <2>1. s = <<>> /\ FlattenSeq(s) = <<>> /\ <<>> \o u = u
    BY <1>3, <1>8, EmptySeq, FlattenEmpty, ConcatEmptySeq DEF Texts
  <2>2. n + 1 = 1
    BY <1>8
  <2>3. Piece(n + 1, u) = u
    BY <2>2 DEF Piece
  <2>4. Joined(longer) = u
    BY <1>6, <1>7, <2>1, <2>3
  <2> QED
    BY <1>1, <1>8, <2>4 DEF longer
<1>9. CASE n # 0
  <2>2. n + 1 # 1
    BY <1>1, <1>9
  <2>3. Piece(n + 1, u) = <<" ">> \o u
    BY <2>2 DEF Piece
  <2>4. Joined(longer) = Joined(texts) \o (<<" ">> \o u)
    BY <1>6, <1>7, <2>3
  <2> QED
    BY <1>1, <1>9, <2>4 DEF longer
<1> QED
  BY <1>8, <1>9

\* Nothing to join; texts are joined to a text.
LEMMA JoinedType ==
    ASSUME NEW texts \in Seq(Texts)
    PROVE  Joined(<<>>) = <<>> /\ Joined(texts) \in Texts
<1> DEFINE all == {us \in Seq(Texts) : Joined(us) \in Texts}
<1>0. Joined(<<>>) = <<>>
  <2>1. [i \in DOMAIN <<>> |-> IF i = 1 THEN <<>>[i] ELSE <<" ">> \o <<>>[i]] = <<>>
    OBVIOUS
  <2> QED
    BY <2>1, FlattenEmpty DEF Joined
<1>1. <<>> \in all
  <2>1. <<>> \in Seq(Texts)
    BY EmptySeq
  <2>2. <<>> \in Texts
    BY EmptySeq DEF Texts
  <2> QED
    BY <1>0, <2>1, <2>2
<1>2. ASSUME NEW us \in Seq(Texts), NEW u \in Texts, us \in all PROVE Append(us, u) \in all
  <2>1. <<" ">> \in Texts
    BY ShortTexts DEF Characters, Special
  <2>2. Joined(us) \o (<<" ">> \o u) \in Texts
    BY <1>2, <2>1, ConcatRead
  <2>3. Joined(Append(us, u)) \in Texts
    BY <2>2, JoinedAppend
  <2>4. Append(us, u) \in Seq(Texts)
    BY AppendProperties
  <2> QED
    BY <2>3, <2>4
<1> HIDE DEF all
<1>3. Seq(Texts) \subseteq all
  BY <1>1, <1>2, Extension
<1> QED
  BY <1>0, <1>3 DEF all

\* The function f applied to each of several texts.
Mapped(f, texts) == [i \in DOMAIN texts |-> f[texts[i]]]

\* No texts.
LEMMA MappedEmpty ==
    ASSUME NEW f
    PROVE  Mapped(f, <<>>) = <<>>
  BY DEF Mapped

\* One text more.
LEMMA MappedAppend ==
    ASSUME NEW f \in [Texts -> Texts], NEW texts \in Seq(Texts), NEW u \in Texts
    PROVE  /\ Mapped(f, <<>>) = <<>> /\ Mapped(f, texts) \in Seq(Texts)
           /\ texts # <<>> => Mapped(f, texts) # <<>>
           /\ Mapped(f, Append(texts, u)) = Append(Mapped(f, texts), f[u])
<1> DEFINE n == Len(texts)
           longer == Append(texts, u)
           l == Mapped(f, longer)
           s == Mapped(f, texts)
           r == Append(s, f[u])
<1>0. Mapped(f, <<>>) = <<>>
  BY MappedEmpty
<1>1. /\ n \in Nat /\ DOMAIN texts = 1 .. n /\ \A i \in 1 .. n : texts[i] \in Texts
      /\ DOMAIN longer = 1 .. n + 1
      /\ longer[n + 1] = u /\ \A i \in 1 .. n : longer[i] = texts[i]
  BY AppendProperties, LenProperties
<1> HIDE DEF longer, n
<1>2. s \in Seq(Texts) /\ Len(s) = n /\ \A i \in 1 .. n : s[i] = f[texts[i]]
  BY <1>1 DEF Mapped
<1>3. /\ l = [i \in 1 .. n + 1 |-> f[longer[i]]]
  BY <1>1 DEF Mapped
<1>4. f[u] \in Texts
  OBVIOUS
<1> HIDE DEF s, l
<1>5. /\ r \in Seq(Texts) /\ DOMAIN r = 1 .. n + 1 /\ Len(r) = n + 1
      /\ r[n + 1] = f[u] /\ \A i \in 1 .. n : r[i] = s[i]
  BY <1>1, <1>2, <1>4, AppendProperties, LenProperties
<1> HIDE DEF r
<1>6. \A i \in 1 .. n + 1 : f[longer[i]] = r[i]
  <2> SUFFICES ASSUME NEW i \in 1 .. n + 1 PROVE f[longer[i]] = r[i]
    OBVIOUS
  <2>1. CASE i = n + 1
    BY <2>1, <1>1, <1>5
  <2>2. CASE i \in 1 .. n
    BY <2>2, <1>1, <1>2, <1>5
  <2> QED
    BY <2>1, <2>2, <1>1
<1>7. l = r
  <2>1. r = [i \in 1 .. n + 1 |-> r[i]]
    BY <1>5
  <2> QED
    BY <1>3, <1>6, <2>1
<1>8. texts # <<>> => s # <<>>
  BY <1>2, EmptySeq DEF n
<1> QED
  BY <1>0, <1>2, <1>7, <1>8 DEF l, r, s, longer

\* A character between two texts.
LEMMA SeparatedRead ==
    ASSUME NEW step, NEW start, NEW t \in Texts, NEW c \in Characters, NEW u \in Texts
    PROVE  /\ Scanned(step, start, t \o (<<c>> \o u)) =
                  Scanned(step, step[c][Scanned(step, start, t)], u)
           /\ t \o (<<c>> \o u) \in Texts
<1> DEFINE o == <<c>>
           ou == o \o u
<1>1. o \in Texts /\ \A s : Scanned(step, s, o) = step[c][s]
  BY ShortTexts, ScannedOne
<1> HIDE DEF o
<1>2. ou \in Texts /\ \A s : Scanned(step, s, ou) = Scanned(step, Scanned(step, s, o), u)
  BY <1>1, ConcatRead
<1> HIDE DEF ou
<1>3. /\ t \o ou \in Texts
      /\ Scanned(step, start, t \o ou) = Scanned(step, Scanned(step, start, t), ou)
  BY <1>2, ConcatRead
<1>4. Scanned(step, start, t \o ou) = Scanned(step, step[c][Scanned(step, start, t)], u)
  BY <1>1, <1>2, <1>3
<1> QED
  BY <1>3, <1>4 DEF ou, o

\* The parser makes the word g[t] of what f makes of t, and ends it at a blank.
Separates(step, f, g) ==
    /\ \A words \in Seq(Texts), t \in Texts :
           Scanned(step, Between(words), f[t]) = Inside(words, g[t], "none")
    /\ \A words \in Seq(Texts), word \in Texts :
           step[" "][Inside(words, word, "none")] = Between(Append(words, word))

\* Such a parser makes one word each of several texts with blanks between them.
LEMMA WordsRead ==
    ASSUME NEW step, NEW f \in [Texts -> Texts], NEW g \in [Texts -> Texts],
           Separates(step, f, g)
    PROVE  \A texts \in Seq(Texts) :
               EndWord(Scanned(step, Scan, Joined(Mapped(f, texts)))) = Between(Mapped(g, texts))
<1> DEFINE none == <<>>
           R(t) == Scanned(step, Between(none), t)
           Whole(texts) == \E words \in Seq(Texts), word \in Texts :
                               /\ R(Joined(Mapped(f, texts))) = Inside(words, word, "none")
                               /\ Append(words, word) = Mapped(g, texts)
           good == {texts \in Seq(Texts) : texts = none \/ Whole(texts)}
<1>0. none \in Seq(Texts) /\ Scan = Between(none) /\ Mapped(f, none) = none
      /\ Mapped(g, none) = none /\ Joined(none) = none
  <2>1. none \in Seq(Texts)
    BY EmptySeq
  <2>2. Scan = Between(none)
    BY DEF Scan, Between
  <2>3. Mapped(f, none) = none
    BY MappedEmpty
  <2>5. Mapped(g, none) = none
    BY MappedEmpty
  <2>4. Joined(none) = none
    BY <2>1, JoinedType
  <2> QED
    BY <2>1, <2>2, <2>3, <2>4, <2>5
<1>9. R(none) = Between(none)
  BY ScannedEmpty
<1> HIDE DEF none
<1>1. none \in good
  BY <1>0
<1>2. ASSUME NEW texts \in Seq(Texts), NEW t \in Texts, texts \in good
      PROVE  Append(texts, t) \in good
  <2> DEFINE longer == Append(texts, t)
             before == Mapped(f, texts)
             ft == f[t]
             gt == g[t]
  <2>1. /\ before \in Seq(Texts) /\ ft \in Texts /\ gt \in Texts /\ longer \in Seq(Texts)
        /\ Mapped(f, longer) = Append(before, ft)
        /\ Mapped(g, longer) = Append(Mapped(g, texts), gt)
        /\ texts # none => before # none
    BY MappedAppend, AppendProperties DEF none
  <2>2. \A words \in Seq(Texts) : Scanned(step, Between(words), ft) = Inside(words, gt, "none")
    BY DEF Separates
  <2> HIDE DEF longer, before, ft, gt
  <2>3. CASE texts = none
    <3>1. Joined(Append(before, ft)) = ft
      BY <1>0, <2>1, <2>3, JoinedAppend DEF before, none
    <3>2. R(Joined(Mapped(f, longer))) = Inside(none, gt, "none")
      BY <1>0, <2>1, <2>2, <3>1
    <3>3. Append(none, gt) = Mapped(g, longer)
      BY <1>0, <2>1, <2>3
    <3> QED
      BY <1>0, <2>1, <3>2, <3>3 DEF longer
  <2>4. CASE texts # none
    <3> DEFINE b == Joined(before)
               blank == " "
               bt == <<blank>> \o ft
    <3>1. b \in Texts
      BY <2>1, JoinedType
    <3>2. blank \in Characters
      BY DEF Characters, Special
    <3>3. Joined(Append(before, ft)) = b \o bt
      BY <2>1, <2>4, JoinedAppend DEF none
    <3>4. \A words \in Seq(Texts), word \in Texts :
              step[blank][Inside(words, word, "none")] = Between(Append(words, word))
      BY DEF Separates
    <3> HIDE DEF b, blank
    <3>6. R(b \o bt) = Scanned(step, step[blank][R(b)], ft)
      BY <2>1, <3>1, <3>2, SeparatedRead
    <3> HIDE DEF bt
    <3>7. PICK words \in Seq(Texts) : \E word \in Texts :
              R(b) = Inside(words, word, "none") /\ Append(words, word) = Mapped(g, texts)
      BY <1>2, <2>4 DEF b, before
    <3>8. PICK word \in Texts :
              R(b) = Inside(words, word, "none") /\ Append(words, word) = Mapped(g, texts)
      BY <3>7
    <3>9. Append(words, word) \in Seq(Texts)
      BY AppendProperties
    <3>10. R(b \o bt) = Inside(Append(words, word), gt, "none")
      BY <2>2, <3>4, <3>6, <3>8, <3>9
    <3>11. R(Joined(Mapped(f, longer))) = Inside(Append(words, word), gt, "none")
      BY <2>1, <3>3, <3>10
    <3>12. Append(Append(words, word), gt) = Mapped(g, longer)
      BY <2>1, <3>8
    <3> QED
      BY <2>1, <3>9, <3>11, <3>12 DEF longer
  <2> QED
    BY <2>3, <2>4
<1> HIDE DEF good
<1>3. Seq(Texts) \subseteq good
  BY <1>1, <1>2, Extension DEF none
<1> SUFFICES ASSUME NEW texts \in Seq(Texts)
             PROVE  EndWord(R(Joined(Mapped(f, texts)))) = Between(Mapped(g, texts))
  BY <1>0
<1>4. texts = none \/ Whole(texts)
  BY <1>3 DEF good
<1>5. CASE texts = none
  <2>1. ~Between(none).open
    BY DEF Between
  <2> QED
    BY <1>0, <1>5, <1>9, <2>1 DEF EndWord
<1>6. CASE Whole(texts)
  <2>1. PICK words \in Seq(Texts) : \E word \in Texts :
            /\ R(Joined(Mapped(f, texts))) = Inside(words, word, "none")
            /\ Append(words, word) = Mapped(g, texts)
    BY <1>6
  <2>2. PICK word \in Texts :
            /\ R(Joined(Mapped(f, texts))) = Inside(words, word, "none")
            /\ Append(words, word) = Mapped(g, texts)
    BY <2>1
  <2>3. "none" \in Quotes /\ "x" \in Characters
    BY OpenQuotes DEF Characters
  <2>4. EndWord(Inside(words, word, "none")) = Between(Append(words, word))
    BY <2>3, InsideAndBetween
  <2> QED
    BY <2>2, <2>4
<1> QED
  BY <1>4, <1>5, <1>6

-----------------------------------------------------------------------------
(* What systemd expands                                                    *)

\* It makes no difference which of two characters is doubled first.
LEMMA DoubledEitherWay ==
    ASSUME NEW t \in Texts, NEW first \in Characters, NEW second \in Characters, first # second
    PROVE  Doubled(Doubled(t, first), second) = Doubled(Doubled(t, second), first)
<1> DEFINE A(u) == Doubled(Doubled(u, first), second)
           B(u) == Doubled(Doubled(u, second), first)
           all == {u \in Texts : A(u) = B(u)}
<1>1. <<>> \in all
  <2>1. <<>> \in Texts /\ Doubled(<<>>, first) = <<>> /\ Doubled(<<>>, second) = <<>>
    BY ShortTexts, DoubledAppend
  <2> QED
    BY <2>1
<1>2. ASSUME NEW u \in Texts, NEW c \in Characters, u \in all PROVE Append(u, c) \in all
  <2>1. /\ c = first \/ c = second => A(Append(u, c)) = Append(Append(A(u), c), c)
        /\ c # first /\ c # second => A(Append(u, c)) = Append(A(u), c)
    BY TwiceDoubledAppend
  <2>2. /\ c = second \/ c = first => B(Append(u, c)) = Append(Append(B(u), c), c)
        /\ c # second /\ c # first => B(Append(u, c)) = Append(B(u), c)
    BY TwiceDoubledAppend
  <2>3. Append(u, c) \in Texts
    BY LongerText
  <2> HIDE DEF A, B
  <2> QED
    BY <1>2, <2>1, <2>2, <2>3
<1> HIDE DEF all
<1>3. Texts \subseteq all
  BY <1>1, <1>2, EveryText
<1> QED
  BY <1>3 DEF all

\* The cases of a character that is expanded.
LEMMA ExpandedCases ==
    ASSUME NEW doubled \in Characters, NEW char \in Characters, NEW s \in States
    PROVE  /\ s.escaped /\ char = doubled => ExpandedChar(doubled)[char][s] = Add(s, char)
           /\ ~s.escaped /\ char = doubled => ExpandedChar(doubled)[char][s] = Escape(s)
           /\ ~s.escaped /\ char # doubled => ExpandedChar(doubled)[char][s] = Add(s, char)
<1>1. ExpandedChar(doubled)[char][s] =
          IF s.escaped THEN Add(s, IF char = doubled THEN char ELSE "?")
          ELSE IF char = doubled THEN Escape(s) ELSE Add(s, char)
  BY DEF ExpandedChar
<1> QED
  BY <1>1

\* Two of the doubled character stand for one, and the others for themselves.
LEMMA ExpandedDoubled ==
    ASSUME NEW text \in Texts, NEW doubled \in Characters
    PROVE  Expanded(Doubled(text, doubled), doubled) = text
<1> DEFINE step == ExpandedChar(doubled)
           Reads(t) == Scanned(step, Scan, t)
           D(t) == Doubled(t, doubled)
           Right(t, s) == s \in States /\ s.word = t /\ ~s.escaped
           good == {t \in Texts : Right(t, Reads(D(t)))}
<1>0. <<>> \in Texts
  BY ShortTexts
<1>1. <<>> \in good
  <2>1. Doubled(<<>>, doubled) = <<>>
    BY <1>0, DoubledAppend
  <2>2. Reads(<<>>) = Scan
    BY ScannedEmpty
  <2>3. Scan \in States /\ Scan.word = <<>> /\ ~Scan.escaped
    <3>1. <<>> \in Seq(Texts)
      BY EmptySeq
    <3> QED
      BY <1>0, <3>1, OpenQuotes DEF Scan, States
  <2> QED
    BY <1>0, <2>1, <2>2, <2>3
<1>2. ASSUME NEW t \in Texts, NEW c \in Characters, t \in good PROVE Append(t, c) \in good
  <2> DEFINE d == D(t)
             s == Reads(d)
             a == Append(d, c)
  <2>1. d \in Texts /\ Append(t, c) \in Texts /\ a \in Texts
    BY DoubledAppend, LongerText
  <2>2. D(Append(t, c)) = IF c = doubled THEN Append(a, c) ELSE a
    BY DoubledAppend
  <2>3. s \in States /\ s.word = t /\ ~s.escaped
    BY <1>2
  <2> HIDE DEF d, D, step
  <2>8. \A u \in Texts : Reads(Append(u, c)) = step[c][Reads(u)]
    BY ScannedAppend DEF Texts
  <2> HIDE DEF Reads
  <2>4. Reads(a) = step[c][s]
    BY <2>1, <2>8
  <2> HIDE DEF a
  <2>5. Reads(Append(a, c)) = step[c][Reads(a)]
    BY <2>1, <2>8
  <2> HIDE DEF s
  <2>6. CASE c = doubled
    <3> DEFINE e == Escape(s)
    <3>1. e \in States /\ e.word = t /\ e.escaped
      BY <2>3, EscapeState
    <3>2. Reads(a) = e
      BY <2>3, <2>4, <2>6, ExpandedCases DEF step
    <3> HIDE DEF e
    <3>3. Reads(Append(a, c)) = Add(e, c)
      BY <2>5, <2>6, <3>1, <3>2, ExpandedCases DEF step
    <3>4. Add(e, c) \in States /\ Add(e, c).word = Append(t, c) /\ ~Add(e, c).escaped
      BY <3>1, AddState
    <3> QED
      BY <2>1, <2>2, <2>6, <3>3, <3>4
  <2>7. CASE c # doubled
    <3>1. Reads(a) = Add(s, c)
      BY <2>3, <2>4, <2>7, ExpandedCases DEF step
    <3>2. Add(s, c) \in States /\ Add(s, c).word = Append(t, c) /\ ~Add(s, c).escaped
      BY <2>3, AddState
    <3> QED
      BY <2>1, <2>2, <2>7, <3>1, <3>2
  <2> QED
    BY <2>6, <2>7
<1> HIDE DEF good
<1>3. Texts \subseteq good
  BY <1>1, <1>2, EveryText
<1>4. Right(text, Reads(D(text)))
  BY <1>3 DEF good
<1> HIDE DEF Reads
<1> QED
  BY <1>4 DEF Expanded, Reads

\* The specifiers of a word are undone first, then its variables.
LEMMA WordExpanded ==
    ASSUME NEW t \in Texts
    PROVE  /\ Expanded(Word(t), "%") = Doubled(t, "$")
           /\ Expanded(Doubled(t, "$"), "$") = t
           /\ Expanded(Doubled(t, "%"), "%") = t
           /\ Word(t) \in Texts /\ Doubled(t, "$") \in Texts /\ Doubled(t, "%") \in Texts
<1> DEFINE first == "%"
           second == "$"
<1>1. first \in Characters /\ second \in Characters /\ first # second
  BY DEF Characters, Special
<1> HIDE DEF first, second
<1>2. \A u \in Texts : Doubled(u, first) \in Texts /\ Doubled(u, second) \in Texts
  BY <1>1, DoubledAppend
<1>3. Doubled(Doubled(t, first), second) = Doubled(Doubled(t, second), first)
  BY <1>1, DoubledEitherWay
<1> DEFINE d == Doubled(t, second)
           p == Doubled(t, first)
<1>4. d \in Texts /\ p \in Texts
  BY <1>2
<1>5. Expanded(d, second) = t /\ Expanded(p, first) = t
  BY <1>1, ExpandedDoubled
<1> HIDE DEF d
<1>6. Expanded(Doubled(d, first), first) = d
  BY <1>1, <1>4, ExpandedDoubled
<1>7. Doubled(p, second) \in Texts
  BY <1>2, <1>4
<1> QED
  BY <1>3, <1>4, <1>5, <1>6, <1>7 DEF Word, first, second, d

\* renderSystemdUnit: the arguments of a command are those of the application, however many there
\* are and whatever is in them.
THEOREM SystemdArgumentsArrive ==
    ASSUME NEW args \in Seq(Texts)
    PROVE  SystemdArguments(ExecStart(args)) = args
<1> DEFINE f == [t \in Texts |-> systemdCommandArg(t)]
           g == [t \in Texts |-> Word(t)]
           words == Mapped(g, args)
<1>1. f \in [Texts -> Texts] /\ g \in [Texts -> Texts]
  <2>1. \A t \in Texts : systemdCommandArg(t) \in Texts
    <3>1. <<>> \in Seq(Texts)
      BY EmptySeq
    <3> QED
      BY <3>1, ArgumentRead
  <2>2. \A t \in Texts : Word(t) \in Texts
    BY WordExpanded
  <2> QED
    BY <2>1, <2>2
<1>2. Separates(SystemdChar, f, g)
  <2>1. \A ws \in Seq(Texts), t \in Texts :
            Scanned(SystemdChar, Between(ws), f[t]) = Inside(ws, g[t], "none")
    <3> SUFFICES ASSUME NEW ws \in Seq(Texts), NEW t \in Texts
                 PROVE  Scanned(SystemdChar, Between(ws), f[t]) = Inside(ws, g[t], "none")
      OBVIOUS
    <3>1. f[t] = systemdCommandArg(t) /\ g[t] = Word(t)
      OBVIOUS
    <3>2. Scanned(SystemdChar, Between(ws), systemdCommandArg(t)) = Inside(ws, Word(t), "none")
      BY ArgumentRead
    <3> QED
      BY <3>1, <3>2
  <2>2. \A ws \in Seq(Texts), w \in Texts :
            SystemdChar[" "][Inside(ws, w, "none")] = Between(Append(ws, w))
    <3>1. "x" \in Characters
      BY DEF Characters
    <3> QED
      BY <3>1, SystemdQuoted
  <2> HIDE DEF f, g
  <2> QED
    BY <2>1, <2>2 DEF Separates
<1>3. ExecStart(args) = Joined(Mapped(f, args))
  <2>1. \A i \in DOMAIN args : args[i] \in Texts
    BY LenProperties
  <2>2. \A i \in DOMAIN args : f[args[i]] = systemdCommandArg(args[i])
    BY <2>1
  <2> HIDE DEF f
  <2>3. [i \in DOMAIN args |-> systemdCommandArg(args[i])] = [i \in DOMAIN args |-> f[args[i]]]
    BY <2>2
  <2> QED
    BY <2>3 DEF ExecStart, Mapped
<1>4. /\ DOMAIN words = DOMAIN args
      /\ \A i \in DOMAIN args : args[i] \in Texts /\ words[i] = Word(args[i])
  <2>1. \A i \in DOMAIN args : args[i] \in Texts
    BY LenProperties
  <2> QED
    BY <2>1 DEF Mapped
<1> HIDE DEF f, g
<1>5. EndWord(Scanned(SystemdChar, Scan, Joined(Mapped(f, args)))) = Between(words)
  BY <1>1, <1>2, WordsRead
<1>6. SystemdWords(ExecStart(args)) = words
  BY <1>3, <1>5 DEF SystemdWords, Between
<1> HIDE DEF words
<1>7. \A i \in DOMAIN args : Expanded(Expanded(words[i], "%"), "$") = args[i]
  BY <1>4, WordExpanded
<1>8. SystemdArguments(ExecStart(args)) = [i \in DOMAIN args |-> args[i]]
  BY <1>4, <1>6, <1>7 DEF SystemdArguments
<1>9. args = [i \in DOMAIN args |-> args[i]]
  BY LenProperties
<1> QED
  BY <1>8, <1>9

\* One value in double quotes, as systemd reads it.
LEMMA SystemdEnvironmentRead ==
    ASSUME NEW t \in Texts
    PROVE  SystemdEnvironment(systemdCommandArg(t)) = <<Doubled(t, "$")>>
<1> DEFINE none == <<>>
           w == Word(t)
<1>1. none \in Seq(Texts) /\ Scan = Between(none)
  BY EmptySeq DEF Scan, Between
<1>0. Append(none, w) = <<w>>
  OBVIOUS
<1> HIDE DEF none
<1>2. Scanned(SystemdChar, Between(none), systemdCommandArg(t)) = Inside(none, w, "none")
  BY <1>1, ArgumentRead
<1>3. w \in Texts /\ Expanded(w, "%") = Doubled(t, "$")
  BY WordExpanded
<1> HIDE DEF w
<1>4. EndWord(Inside(none, w, "none")) = Between(Append(none, w))
  <2>1. "none" \in Quotes /\ "x" \in Characters
    BY OpenQuotes DEF Characters
  <2> QED
    BY <1>1, <1>3, <2>1, InsideAndBetween
<1>5. SystemdWords(systemdCommandArg(t)) = <<w>>
  <2>1. EndWord(Scanned(SystemdChar, Scan, systemdCommandArg(t))) = Between(<<w>>)
    BY <1>0, <1>1, <1>2, <1>4
  <2>2. Between(<<w>>).words = <<w>>
    BY DEF Between
  <2> QED
    BY <2>1, <2>2 DEF SystemdWords
<1>6. SystemdEnvironment(systemdCommandArg(t)) = <<Expanded(w, "%")>>
  <2> DEFINE ws == <<w>>
  <2>1. [i \in DOMAIN ws |-> Expanded(ws[i], "%")] = <<Expanded(w, "%")>>
    OBVIOUS
  <2> QED
    BY <1>5, <2>1 DEF SystemdEnvironment
<1> QED
  BY <1>3, <1>6

\* Doubling a character changes a text if and only if it is in it, and makes it longer.
LEMMA DoubledSame ==
    ASSUME NEW text \in Texts, NEW char \in Characters
    PROVE  /\ Contains(text, char) => Doubled(text, char) # text
           /\ ~Contains(text, char) => Doubled(text, char) = text
           /\ Len(Doubled(text, char)) \in Nat /\ Len(text) \in Nat
           /\ Len(Doubled(text, char)) >= Len(text)
<1> DEFINE D(t) == Doubled(t, char)
           Right(t) == /\ Len(D(t)) \in Nat /\ Len(t) \in Nat /\ Len(D(t)) >= Len(t)
                       /\ Contains(t, char) => Len(D(t)) > Len(t)
                       /\ ~Contains(t, char) => D(t) = t
           good == {t \in Texts : Right(t)}
<1>1. <<>> \in good
  <2>1. <<>> \in Texts
    BY ShortTexts
  <2>2. D(<<>>) = <<>> /\ ~Contains(<<>>, char)
    BY <2>1, DoubledAppend, EmptyContains
  <2>3. Len(<<>>) = 0
    OBVIOUS
  <2> QED
    BY <2>1, <2>2, <2>3
<1>2. ASSUME NEW t \in Texts, NEW c \in Characters, t \in good PROVE Append(t, c) \in good
  <2> DEFINE longer == Append(t, c)
             d == D(t)
             a == Append(d, c)
             b == Append(a, c)
  <2>1. d \in Texts /\ D(longer) = IF c = char THEN b ELSE a
    BY DoubledAppend
  <2>2. Right(t)
    BY <1>2
  <2>3. longer \in Texts /\ Len(longer) = Len(t) + 1
    BY LongerText
  <2>4. Contains(longer, char) <=> Contains(t, char) \/ c = char
    BY LongerContains
  <2> HIDE DEF D
  <2>7. d = t => a = longer
    OBVIOUS
  <2> HIDE DEF d, longer
  <2>5. a \in Texts /\ Len(a) = Len(d) + 1
    BY <2>1, LongerText
  <2> HIDE DEF a
  <2>6. Len(b) = Len(a) + 1
    BY <2>5, LongerText
  <2> HIDE DEF b
  <2>8. /\ Len(d) \in Nat /\ Len(t) \in Nat /\ Len(d) >= Len(t)
        /\ Contains(t, char) => Len(d) > Len(t)
        /\ ~Contains(t, char) => d = t
    BY <2>2 DEF d
  <2>9. Right(longer)
    BY <2>1, <2>3, <2>4, <2>5, <2>6, <2>7, <2>8
  <2> QED
    BY <2>3, <2>9 DEF longer
<1> HIDE DEF good
<1>3. Texts \subseteq good
  BY <1>1, <1>2, EveryText
<1>4. Right(text)
  BY <1>3 DEF good
<1> QED
  BY <1>4

\* Doubling "%" changes neither whether the next line belongs to a line nor the blanks at its
\* ends.
LEMMA DoubledEnds ==
    ASSUME NEW text \in Texts
    PROVE  /\ Continued(Doubled(text, "%")) <=> Continued(text)
           /\ Blank(Doubled(text, "%")) <=> Blank(text)
<1> DEFINE char == "%"
           D(t) == Doubled(t, char)
           Right(t) == /\ Continued(D(t)) <=> Continued(t)
                       /\ t = <<>> => D(t) = <<>>
                       /\ t # <<>> => D(t) # <<>> /\ Head(D(t)) = Head(t) /\ Last(D(t)) = Last(t)
           good == {t \in Texts : Right(t)}
<1>0. char \in Characters /\ char # "\\"
  BY DEF Characters, Special
<1>5. \A t \in Texts, c \in Characters :
          Continued(Append(t, c)) <=> ~Continued(t) /\ c = "\\"
  <2> SUFFICES ASSUME NEW t \in Texts, NEW c \in Characters
               PROVE  Continued(Append(t, c)) <=> ~Continued(t) /\ c = "\\"
    OBVIOUS
  <2>1. ContinuedChar \in [Characters -> [BOOLEAN -> BOOLEAN]]
    BY DEF ContinuedChar
  <2>2. Scanned(ContinuedChar, FALSE, t) \in BOOLEAN
    <3> DEFINE b == BOOLEAN
               f == FALSE
    <3>1. ContinuedChar \in [Characters -> [b -> b]] /\ f \in b
      BY <2>1
    <3> HIDE DEF b, f
    <3>2. \A u \in Texts : Scanned(ContinuedChar, f, u) \in b
      BY <3>1, ScannedType DEF Texts
    <3> QED
      BY <3>2 DEF b, f
  <2>3. Scanned(ContinuedChar, FALSE, Append(t, c)) = ContinuedChar[c][Scanned(ContinuedChar, FALSE, t)]
    <3> DEFINE f == FALSE
    <3> HIDE DEF f
    <3>1. Scanned(ContinuedChar, f, Append(t, c)) = ContinuedChar[c][Scanned(ContinuedChar, f, t)]
      BY ScannedAppend DEF Texts
    <3> QED
      BY <3>1 DEF f
  <2>4. \A escaped \in BOOLEAN : ContinuedChar[c][escaped] = (~escaped /\ c = "\\")
    BY DEF ContinuedChar
  <2> QED
    BY <2>2, <2>3, <2>4 DEF Continued
<1> HIDE DEF char
<1>1. <<>> \in good
  <2>1. <<>> \in Texts
    BY <1>0, ShortTexts
  <2>2. D(<<>>) = <<>>
    BY <1>0, <2>1, DoubledAppend
  <2> QED
    BY <2>1, <2>2
<1>2. ASSUME NEW t \in Texts, NEW c \in Characters, t \in good PROVE Append(t, c) \in good
  <2> DEFINE longer == Append(t, c)
             d == D(t)
             a == Append(d, c)
             b == Append(a, c)
  <2>1. d \in Texts /\ D(longer) = IF c = char THEN b ELSE a
    BY <1>0, DoubledAppend
  <2>2. Right(t)
    BY <1>2
  <2>3. /\ longer \in Texts /\ longer # <<>> /\ Last(longer) = c
        /\ Head(longer) = IF t = <<>> THEN c ELSE Head(t)
    BY LongerText
  <2>4. Continued(longer) <=> ~Continued(t) /\ c = "\\"
    BY <1>5
  <2> HIDE DEF D
  <2>5. /\ a \in Texts /\ a # <<>> /\ Last(a) = c
        /\ Head(a) = IF d = <<>> THEN c ELSE Head(d)
    BY <2>1, LongerText
  <2>6. Continued(a) <=> ~Continued(d) /\ c = "\\"
    BY <1>5, <2>1
  <2> HIDE DEF a
  <2>7. b # <<>> /\ Last(b) = c /\ Head(b) = Head(a)
    BY <2>5, LongerText
  <2>8. Continued(b) <=> ~Continued(a) /\ c = "\\"
    BY <1>5, <2>5
  <2> HIDE DEF b, d, longer
  <2>9. /\ Continued(d) <=> Continued(t)
        /\ t = <<>> => d = <<>>
        /\ t # <<>> => d # <<>> /\ Head(d) = Head(t) /\ Last(d) = Last(t)
    BY <2>2 DEF d
  <2>10. Right(longer)
    <3>1. CASE c = char
      BY <1>0, <2>1, <2>3, <2>4, <2>5, <2>6, <2>7, <2>8, <2>9, <3>1
    <3>2. CASE c # char
      BY <2>1, <2>3, <2>4, <2>5, <2>6, <2>9, <3>2
    <3> QED
      BY <3>1, <3>2
  <2> QED
    BY <2>3, <2>10 DEF longer
<1> HIDE DEF good
<1>3. Texts \subseteq good
  BY <1>1, <1>2, EveryText
<1>4. Right(text)
  BY <1>3 DEF good
<1>6. Blank(D(text)) <=> Blank(text)
  BY <1>4 DEF Blank
<1> QED
  BY <1>4, <1>6 DEF char

\* A directive of one text arrives if neither its ends nor its line break are misread, and
\* only then.
LEMMA SystemdValueRead ==
    ASSUME NEW t \in Texts
    PROVE  SystemdValue(systemdText(t)) = <<t>> <=> ~(Continued(t) \/ Blank(t))
<1> DEFINE d == Doubled(t, "%")
<1>1. d \in Texts /\ Expanded(d, "%") = t
  BY WordExpanded
<1>2. /\ Continued(d) <=> Continued(t)
      /\ Blank(d) <=> Blank(t)
  BY DoubledEnds
<1>3. Len(d) \in Nat /\ Len(t) \in Nat /\ Len(d) >= Len(t)
  <2> DEFINE char == "%"
  <2>1. char \in Characters
    BY DEF Characters, Special
  <2> HIDE DEF char
  <2>2. /\ Len(Doubled(t, char)) \in Nat /\ Len(t) \in Nat
        /\ Len(Doubled(t, char)) >= Len(t)
    BY <2>1, DoubledSame
  <2> QED
    BY <2>2 DEF char
<1>4. systemdText(t) = d
  BY DEF systemdText
<1> HIDE DEF d
<1>5. CASE Continued(t) \/ Blank(t)
  <2> DEFINE a == Append(d, "?")
  <2>1. Len(a) = Len(d) + 1
    <3>1. "?" \in Characters
      BY DEF Characters
    <3> QED
      BY <1>1, <3>1, LongerText
  <2>2. a # t
    BY <1>3, <2>1
  <2>3. SystemdValue(d) = <<a>>
    BY <1>2, <1>5 DEF SystemdValue
  <2> HIDE DEF a
  <2> QED
    BY <1>4, <1>5, <2>2, <2>3
<1>6. CASE ~(Continued(t) \/ Blank(t))
  <2>1. SystemdValue(d) = <<t>>
    BY <1>1, <1>2, <1>6 DEF SystemdValue
  <2> QED
    BY <1>4, <1>6, <2>1
<1> QED
  BY <1>5, <1>6

-----------------------------------------------------------------------------
(* The shell                                                               *)

\* Five characters at the end of a text.
LEMMA ConcatFive ==
    ASSUME NEW t \in Texts, NEW a \in Characters, NEW b \in Characters, NEW c \in Characters,
           NEW d \in Characters, NEW e \in Characters
    PROVE  /\ <<a, b, c, d, e>> \in Texts
           /\ t \o <<a, b, c, d, e>> =
                  Append(Append(Append(Append(Append(t, a), b), c), d), e)
<1> DEFINE five == <<a, b, c, d, e>>
           r1 == <<a>>
           r2 == Append(r1, b)
           r3 == Append(r2, c)
           r4 == Append(r3, d)
           r5 == Append(r4, e)
<1>0. five \in Texts
  BY DEF Texts
<1>1. r1 \in Texts /\ Len(r1) = 1 /\ r1[1] = a
  BY ShortTexts
<1>8. five[1] = a /\ five[2] = b /\ five[3] = c /\ five[4] = d /\ five[5] = e /\ Len(five) = 5
  OBVIOUS
<1>9. t \o r1 = Append(t, a)
  BY ConcatOne
<1> HIDE DEF r1, five
<1>2. r2 \in Texts /\ Len(r2) = 2 /\ r2[1] = a /\ r2[2] = b
  <2>0. r1 \in Texts
    BY <1>1
  <2>1. /\ r2 \in Texts /\ Len(r2) = Len(r1) + 1 /\ r2[Len(r1) + 1] = b
        /\ \A i \in 1 .. Len(r1) : r2[i] = r1[i]
    BY <2>0, AppendProperties DEF Texts
  <2> HIDE DEF r2
  <2> QED
    BY <1>1, <2>1
<1>10. t \o r2 = Append(t \o r1, b)
  BY <1>1, ConcatAppend DEF Texts
<1> HIDE DEF r2
<1>3. r3 \in Texts /\ Len(r3) = 3 /\ r3[1] = a /\ r3[2] = b /\ r3[3] = c
  <2>0. r2 \in Texts
    BY <1>2
  <2>1. /\ r3 \in Texts /\ Len(r3) = Len(r2) + 1 /\ r3[Len(r2) + 1] = c
        /\ \A i \in 1 .. Len(r2) : r3[i] = r2[i]
    BY <2>0, AppendProperties DEF Texts
  <2> HIDE DEF r3
  <2> QED
    BY <1>2, <2>1
<1>11. t \o r3 = Append(t \o r2, c)
  BY <1>2, ConcatAppend DEF Texts
<1> HIDE DEF r3
<1>4. r4 \in Texts /\ Len(r4) = 4 /\ r4[1] = a /\ r4[2] = b /\ r4[3] = c /\ r4[4] = d
  <2>0. r3 \in Texts
    BY <1>3
  <2>1. /\ r4 \in Texts /\ Len(r4) = Len(r3) + 1 /\ r4[Len(r3) + 1] = d
        /\ \A i \in 1 .. Len(r3) : r4[i] = r3[i]
    BY <2>0, AppendProperties DEF Texts
  <2> HIDE DEF r4
  <2> QED
    BY <1>3, <2>1
<1>12. t \o r4 = Append(t \o r3, d)
  BY <1>3, ConcatAppend DEF Texts
<1> HIDE DEF r4
<1>5. /\ r5 \in Texts /\ Len(r5) = 5
      /\ r5[1] = a /\ r5[2] = b /\ r5[3] = c /\ r5[4] = d /\ r5[5] = e
  <2>0. r4 \in Texts
    BY <1>4
  <2>1. /\ r5 \in Texts /\ Len(r5) = Len(r4) + 1 /\ r5[Len(r4) + 1] = e
        /\ \A i \in 1 .. Len(r4) : r5[i] = r4[i]
    BY <2>0, AppendProperties DEF Texts
  <2> HIDE DEF r5
  <2> QED
    BY <1>4, <2>1
<1>13. t \o r5 = Append(t \o r4, e)
  BY <1>4, ConcatAppend DEF Texts
<1> HIDE DEF r5
<1>6. \A i \in 1 .. Len(r5) : r5[i] = five[i]
  BY <1>5, <1>8
<1>7. r5 = five
  BY <1>0, <1>5, <1>6, <1>8, SeqEqual DEF Texts
<1> QED
  BY <1>0, <1>7, <1>9, <1>10, <1>11, <1>12, <1>13 DEF five

\* The cases of a character read by the shell.
LEMMA ShellCases ==
    ASSUME NEW char \in Characters, NEW s \in States
    PROVE  /\ s.escaped => ShellChar[char][s] = Add(s, char)
           /\ s.quote = "'" /\ char # "'" => ShellChar[char][s] = Add(s, char)
           /\ ~s.escaped /\ s.quote # "'" /\ char = "\\" => ShellChar[char][s] = Escape(s)
           /\ ~s.escaped /\ s.quote # "'" /\ char = "$" => ShellChar[char][s] = Add(s, "?")
           /\ ~s.escaped /\ char = s.quote => ShellChar[char][s] = Quote(s, "none")
           /\ ~s.escaped /\ s.quote = "none" /\ char \in {"'", "\""} =>
                  ShellChar[char][s] = Quote(s, char)
           /\ ~s.escaped /\ s.quote = "none" /\ char = " " => ShellChar[char][s] = EndWord(s)
           /\ ~s.escaped /\ s.quote = "\"" /\ char \in {"'", " "} => ShellChar[char][s] = Add(s, char)
           /\ ~s.escaped /\ char \in {"x", "?", "%"} => ShellChar[char][s] = Add(s, char)
<1>1. ShellChar[char][s] =
          IF s.escaped \/ (s.quote = "'" /\ char # "'") THEN Add(s, char)
          ELSE CASE char = "\\"                             -> Escape(s)
                 [] char = "$"                              -> Add(s, "?")
                 [] char = s.quote                          -> Quote(s, "none")
                 [] s.quote = "none" /\ char \in {"'", "\""} -> Quote(s, char)
                 [] s.quote = "none" /\ char = " "          -> EndWord(s)
                 [] OTHER                                   -> Add(s, char)
  BY DEF ShellChar
<1>0. s.quote \in {"none", "'", "\""} /\ char # "none"
  BY DEF States, Quotes, Characters, Special
<1>2. ASSUME s.escaped PROVE ShellChar[char][s] = Add(s, char)
  BY <1>1, <1>2
<1>3. ASSUME s.quote = "'", char # "'" PROVE ShellChar[char][s] = Add(s, char)
  BY <1>1, <1>3
<1>4. ASSUME ~s.escaped, s.quote # "'", char = "\\" PROVE ShellChar[char][s] = Escape(s)
  BY <1>0, <1>1, <1>4
<1>5. ASSUME ~s.escaped, s.quote # "'", char = "$" PROVE ShellChar[char][s] = Add(s, "?")
  BY <1>0, <1>1, <1>5
<1>6. ASSUME ~s.escaped, char = s.quote PROVE ShellChar[char][s] = Quote(s, "none")
  BY <1>0, <1>1, <1>6
<1>7. ASSUME ~s.escaped, s.quote = "none", char \in {"'", "\""}
      PROVE  ShellChar[char][s] = Quote(s, char)
  BY <1>0, <1>1, <1>7
<1>8. ASSUME ~s.escaped, s.quote = "none", char = " " PROVE ShellChar[char][s] = EndWord(s)
  BY <1>0, <1>1, <1>8
<1>9. ASSUME ~s.escaped, s.quote = "\"", char \in {"'", " "} PROVE ShellChar[char][s] = Add(s, char)
  BY <1>0, <1>1, <1>9
<1>10. ASSUME ~s.escaped, char \in {"x", "?", "%"} PROVE ShellChar[char][s] = Add(s, char)
  BY <1>0, <1>1, <1>10
<1> QED
  BY <1>2, <1>3, <1>4, <1>5, <1>6, <1>7, <1>8, <1>9, <1>10

\* A word in single quotes, as the shell reads it.
LEMMA ShellQuoted ==
    ASSUME NEW words \in Seq(Texts), NEW word \in Texts, NEW char \in Characters
    PROVE  /\ ShellChar["'"][Between(words)] = Inside(words, <<>>, "'")
           /\ char # "'" => ShellChar[char][Inside(words, word, "'")] =
                                Inside(words, Append(word, char), "'")
           /\ ShellChar["'"][Inside(words, word, "'")] = Inside(words, word, "none")
           /\ ShellChar["\""][Inside(words, word, "none")] = Inside(words, word, "\"")
           /\ ShellChar["'"][Inside(words, word, "\"")] = Inside(words, Append(word, "'"), "\"")
           /\ ShellChar["\""][Inside(words, word, "\"")] = Inside(words, word, "none")
           /\ ShellChar["'"][Inside(words, word, "none")] = Inside(words, word, "'")
           /\ ShellChar[" "][Inside(words, word, "none")] = Between(Append(words, word))
<1> DEFINE p == "'"
           q == "\""
           n == "none"
           blank == " "
           b == Between(words)
           S(quote) == Inside(words, word, quote)
<1>0. /\ p \in Characters /\ q \in Characters /\ blank \in Characters
      /\ p \in Quotes /\ q \in Quotes /\ n \in Quotes
      /\ p # q /\ p # n /\ q # n
  BY OpenQuotes DEF Characters, Special
<1>2. \A quote \in Quotes : S(quote) \in States /\ S(quote).quote = quote /\ ~S(quote).escaped
  BY InsideState
<1>3. b \in States /\ b.quote = n /\ ~b.escaped
  BY BetweenState
<1>4. /\ \A quote, next \in Quotes : Quote(S(quote), next) = S(next)
      /\ EndWord(S(n)) = Between(Append(words, word))
  BY <1>0, InsideAndBetween
<1>5. \A quote \in Quotes, c \in Characters : Add(S(quote), c) = Inside(words, Append(word, c), quote)
  BY InsideAndBetween
<1>6. \A quote \in Quotes : Quote(b, quote) = Inside(words, <<>>, quote)
  BY <1>0, InsideAndBetween
<1> HIDE DEF S, b
<1>7. ShellChar[p][b] = Quote(b, p)
  BY <1>0, <1>3, ShellCases
<1>8. char # p => ShellChar[char][S(p)] = Add(S(p), char)
  BY <1>0, <1>2, ShellCases
<1>9. ShellChar[p][S(p)] = Quote(S(p), n)
  BY <1>0, <1>2, ShellCases
<1>10. ShellChar[q][S(n)] = Quote(S(n), q)
  BY <1>0, <1>2, ShellCases
<1>11. ShellChar[p][S(q)] = Add(S(q), p)
  BY <1>0, <1>2, ShellCases
<1>12. ShellChar[q][S(q)] = Quote(S(q), n)
  BY <1>0, <1>2, ShellCases
<1>13. ShellChar[p][S(n)] = Quote(S(n), p)
  BY <1>0, <1>2, ShellCases
<1>14. ShellChar[blank][S(n)] = EndWord(S(n))
  BY <1>0, <1>2, ShellCases
<1> HIDE DEF p, q, n, blank
<1>15. ShellChar[p][b] = Inside(words, <<>>, p)
  BY <1>0, <1>6, <1>7
<1>16. char # p => ShellChar[char][S(p)] = Inside(words, Append(word, char), p)
  BY <1>0, <1>5, <1>8
<1>17. ShellChar[p][S(p)] = S(n) /\ ShellChar[q][S(n)] = S(q)
  BY <1>0, <1>4, <1>9, <1>10
<1>18. ShellChar[p][S(q)] = Inside(words, Append(word, p), q)
  BY <1>0, <1>5, <1>11
<1>19. ShellChar[q][S(q)] = S(n) /\ ShellChar[p][S(n)] = S(p)
  BY <1>0, <1>4, <1>12, <1>13
<1>20. ShellChar[blank][S(n)] = Between(Append(words, word))
  BY <1>4, <1>14
<1> QED
  BY <1>15, <1>16, <1>17, <1>18, <1>19, <1>20 DEF S, b, p, q, n, blank

\* What shellQuote puts between its quotes.
Held(text) == Replace(text, "'", <<"'", "\"", "'", "\"", "'">>)

\* A single quote is written outside, between double quotes.
LEMMA HeldAppend ==
    ASSUME NEW t \in Texts, NEW c \in Characters
    PROVE  /\ Held(t) \in Texts /\ Held(<<>>) = <<>>
           /\ c = "'" => Held(Append(t, c)) =
                 Append(Append(Append(Append(Append(Held(t), "'"), "\""), "'"), "\""), "'")
           /\ c # "'" => Held(Append(t, c)) = Append(Held(t), c)
<1> DEFINE p == "'"
           q == "\""
           five == <<p, q, p, q, p>>
           h == Replace(t, p, five)
<1>1. p \in Characters /\ q \in Characters
  BY DEF Characters, Special
<1> HIDE DEF p, q
<1>2. \A u \in Texts : /\ five \in Texts
                       /\ u \o five = Append(Append(Append(Append(Append(u, p), q), p), q), p)
  BY <1>1, ConcatFive
<1>3. five \in Texts
  BY <1>2
<1> HIDE DEF five
<1>4. h \in Texts
  BY <1>3, ReplaceType
<1>5. /\ c = p => Replace(Append(t, c), p, five) = h \o five
      /\ c # p => Replace(Append(t, c), p, five) = h \o <<c>>
  BY <1>3, ReplaceAppend
<1>6. Replace(<<>>, p, five) = <<>>
  BY ReplaceEmpty
<1> HIDE DEF h
<1>7. h \o five = Append(Append(Append(Append(Append(h, p), q), p), q), p) /\ h \o <<c>> = Append(h, c)
  BY <1>2, <1>4, ConcatOne
<1>8. Held(t) = h /\ Held(<<>>) = Replace(<<>>, p, five)
      /\ Held(Append(t, c)) = Replace(Append(t, c), p, five)
  BY DEF Held, h, five, p, q
<1> QED
  BY <1>4, <1>5, <1>6, <1>7, <1>8 DEF p, q

\* Between single quotes the shell finds the text again.
LEMMA HeldRead ==
    ASSUME NEW words \in Seq(Texts)
    PROVE  \A t \in Texts : Scanned(ShellChar, Inside(words, <<>>, "'"), Held(t)) =
                                Inside(words, t, "'")
<1> DEFINE p == "'"
           q == "\""
           n == "none"
           start == Inside(words, <<>>, p)
           Reads(u) == Scanned(ShellChar, start, u)
           good == {t \in Texts : Reads(Held(t)) = Inside(words, t, p)}
<1>0. p \in Characters /\ q \in Characters /\ <<>> \in Texts
  <2>1. p \in Characters /\ q \in Characters
    BY DEF Characters, Special
  <2> QED
    BY <2>1, ShortTexts
<1>1. <<>> \in good
  <2>1. Held(<<>>) = <<>>
    BY <1>0, HeldAppend
  <2> QED
    BY <1>0, <2>1, ScannedEmpty
<1> HIDE DEF start
<1>4. \A u \in Texts, d \in Characters :
          Append(u, d) \in Texts /\ Reads(Append(u, d)) = ShellChar[d][Reads(u)]
  <2>1. \A u \in Texts, d \in Characters : Append(u, d) \in Texts
    BY LongerText
  <2>2. \A u \in Texts, d \in Characters : Reads(Append(u, d)) = ShellChar[d][Reads(u)]
    BY ScannedAppend DEF Texts
  <2> QED
    BY <2>1, <2>2
<1> HIDE DEF Reads
<1>2. ASSUME NEW t \in Texts, NEW c \in Characters, t \in good PROVE Append(t, c) \in good
  <2> DEFINE h == Held(t)
             h1 == Append(h, p)
             h2 == Append(h1, q)
             h3 == Append(h2, p)
             h4 == Append(h3, q)
             h5 == Append(h4, p)
             longer == Append(t, c)
  <2>1. /\ h \in Texts
        /\ c = p => Held(longer) = h5
        /\ c # p => Held(longer) = Append(h, c)
    BY HeldAppend
  <2>2. Reads(h) = Inside(words, t, p) /\ longer \in Texts
    BY <1>2, <1>4
  <2> HIDE DEF h
  <2>3. CASE c = p
    <3>0. /\ ShellChar[p][Inside(words, t, p)] = Inside(words, t, n)
          /\ ShellChar[q][Inside(words, t, n)] = Inside(words, t, q)
          /\ ShellChar[p][Inside(words, t, q)] = Inside(words, longer, q)
      BY <1>0, <2>3, ShellQuoted
    <3>9. /\ ShellChar[q][Inside(words, longer, q)] = Inside(words, longer, n)
          /\ ShellChar[p][Inside(words, longer, n)] = Inside(words, longer, p)
      BY <1>0, <2>2, ShellQuoted
    <3>1. h1 \in Texts /\ Reads(h1) = ShellChar[p][Reads(h)]
      BY <1>0, <1>4, <2>1
    <3> HIDE DEF h1
    <3>2. h2 \in Texts /\ Reads(h2) = ShellChar[q][Reads(h1)]
      BY <1>0, <1>4, <3>1
    <3> HIDE DEF h2
    <3>3. h3 \in Texts /\ Reads(h3) = ShellChar[p][Reads(h2)]
      BY <1>0, <1>4, <3>2
    <3> HIDE DEF h3
    <3>4. h4 \in Texts /\ Reads(h4) = ShellChar[q][Reads(h3)]
      BY <1>0, <1>4, <3>3
    <3> HIDE DEF h4
    <3>5. h5 \in Texts /\ Reads(h5) = ShellChar[p][Reads(h4)]
      BY <1>0, <1>4, <3>4
    <3> HIDE DEF h5, longer, p, q, n
    <3>6. Reads(h5) = Inside(words, longer, p)
      BY <2>2, <3>0, <3>1, <3>2, <3>3, <3>4, <3>5, <3>9
    <3>7. Reads(Held(longer)) = Inside(words, longer, p)
      BY <2>1, <2>3, <3>6
    <3> QED
      BY <2>2, <3>7 DEF longer
  <2>4. CASE c # p
    <3>1. Reads(Append(h, c)) = ShellChar[c][Inside(words, t, p)]
      BY <1>4, <2>1, <2>2
    <3>2. ShellChar[c][Inside(words, t, p)] = Inside(words, longer, p)
      BY <2>4, ShellQuoted
    <3> QED
      BY <2>1, <2>2, <2>4, <3>1, <3>2
  <2> QED
    BY <2>3, <2>4
<1> HIDE DEF good
<1>3. Texts \subseteq good
  BY <1>1, <1>2, EveryText
<1> QED
  BY <1>3 DEF good, Reads, start

\* A quoted text, after the words before it.
LEMMA ShellQuoteRead ==
    ASSUME NEW words \in Seq(Texts), NEW t \in Texts
    PROVE  /\ shellQuote(t) \in Texts
           /\ Scanned(ShellChar, Between(words), shellQuote(t)) = Inside(words, t, "none")
<1> DEFINE q == "'"
           o == <<q>>
           a == Held(t)
           oa == o \o a
           Reads(s, u) == Scanned(ShellChar, s, u)
<1>1. a \in Texts /\ q \in Characters /\ o \in Texts
  <2>1. q \in Characters
    BY DEF Characters, Special
  <2> QED
    BY <2>1, ShortTexts, HeldAppend
<1>2. shellQuote(t) = oa \o o
  BY DEF shellQuote, Held
<1>5. Reads(Inside(words, <<>>, q), a) = Inside(words, t, q)
  BY HeldRead
<1>4. /\ ShellChar[q][Between(words)] = Inside(words, <<>>, q)
      /\ ShellChar[q][Inside(words, t, q)] = Inside(words, t, "none")
  BY <1>1, ShellQuoted
<1> HIDE DEF q, a
<1>6. \A s : Reads(s, o) = ShellChar[q][s]
  BY <1>1, ScannedOne
<1> HIDE DEF o
<1>3. oa \in Texts
  BY <1>1, ConcatProperties DEF Texts
<1>7. \A s : Reads(s, oa) = Reads(Reads(s, o), a)
  BY <1>1, ConcatRead
<1> HIDE DEF oa
<1>8. \A s : Reads(s, oa \o o) = Reads(Reads(s, oa), o)
  BY <1>1, <1>3, ConcatRead
<1>9. oa \o o \in Texts
  BY <1>1, <1>3, ConcatProperties DEF Texts
<1> HIDE DEF Reads
<1>10. Reads(Between(words), oa \o o) = Inside(words, t, "none")
  BY <1>4, <1>5, <1>6, <1>7, <1>8
<1> QED
  BY <1>2, <1>9, <1>10 DEF Reads

\* shellQuote: a quoted text is one word to the shell, and that text, whatever is in it.
THEOREM ShellWordsQuoted ==
    ASSUME NEW t \in Texts
    PROVE  ShellWords(shellQuote(t)) = <<t>>
<1> DEFINE none == <<>>
<1>1. none \in Seq(Texts) /\ Scan = Between(none) /\ Append(none, t) = <<t>>
  BY EmptySeq DEF Scan, Between
<1> HIDE DEF none
<1>2. Scanned(ShellChar, Between(none), shellQuote(t)) = Inside(none, t, "none")
  BY <1>1, ShellQuoteRead
<1>4. EndWord(Inside(none, t, "none")) = Between(Append(none, t))
  <2>1. "none" \in Quotes /\ "x" \in Characters
    BY OpenQuotes DEF Characters
  <2> QED
    BY <1>1, <2>1, InsideAndBetween
<1>5. EndWord(Scanned(ShellChar, Scan, shellQuote(t))) = Between(<<t>>)
  BY <1>1, <1>2, <1>4
<1>6. Between(<<t>>).words = <<t>>
  BY DEF Between
<1> QED
  BY <1>5, <1>6 DEF ShellWords

-----------------------------------------------------------------------------
(* Splitting at blanks and joining again                                   *)

\* A text without the blanks that follow a blank.
SqueezedChar == [char \in Characters |-> [text \in Texts |->
    IF char = " " /\ text # <<>> /\ Last(text) = " " THEN text ELSE Append(text, char)]]

Squeezed(text) == Scanned(SqueezedChar, <<>>, text)

\* One character more.
LEMMA SqueezedAppend ==
    ASSUME NEW text \in Texts, NEW char \in Characters
    PROVE  /\ Squeezed(text) \in Texts /\ Squeezed(<<>>) = <<>>
           /\ text = <<>> <=> Squeezed(text) = <<>>
           /\ text # <<>> => Last(Squeezed(text)) = Last(text)
           /\ char = " " /\ text # <<>> /\ Last(text) = " " =>
                  Squeezed(Append(text, char)) = Squeezed(text)
           /\ ~(char = " " /\ text # <<>> /\ Last(text) = " ") =>
                  Squeezed(Append(text, char)) = Append(Squeezed(text), char)
<1> DEFINE none == <<>>
           S(t) == Scanned(SqueezedChar, none, t)
           Right(t) == /\ S(t) \in Texts
                       /\ t = none <=> S(t) = none
                       /\ t # none => Last(S(t)) = Last(t)
           good == {t \in Texts : Right(t)}
<1>0. none \in Texts
  BY ShortTexts
<1>1. S(none) = none
  BY ScannedEmpty
<1>4. \A t \in Texts, c \in Characters : S(Append(t, c)) = SqueezedChar[c][S(t)]
  BY ScannedAppend DEF Texts
<1>5. \A t \in Texts, c \in Characters :
          /\ c = " " /\ t # none /\ Last(t) = " " => SqueezedChar[c][t] = t
          /\ ~(c = " " /\ t # none /\ Last(t) = " ") => SqueezedChar[c][t] = Append(t, c)
  BY DEF SqueezedChar
<1>7. \A t \in Texts, c \in Characters :
          Append(t, c) \in Texts /\ Append(t, c) # none /\ Last(Append(t, c)) = c
  BY LongerText
<1> HIDE DEF none
<1>6. none \in good
  BY <1>0, <1>1
<1> HIDE DEF S
<1>2. ASSUME NEW t \in Texts, NEW c \in Characters, t \in good PROVE Append(t, c) \in good
  <2>1. Right(t)
    BY <1>2
  <2>2. CASE c = " " /\ t # none /\ Last(t) = " "
    <3>0. S(t) \in Texts /\ S(t) # none /\ Last(S(t)) = " "
      BY <2>1, <2>2
    <3>2. SqueezedChar[c][S(t)] = S(t)
      BY <1>5, <2>2, <3>0
    <3>1. S(Append(t, c)) = S(t)
      BY <1>4, <3>2
    <3> QED
      BY <1>7, <2>1, <2>2, <3>1
  <2>3. CASE ~(c = " " /\ t # none /\ Last(t) = " ")
    <3>1. S(Append(t, c)) = Append(S(t), c)
      BY <1>4, <1>5, <2>1, <2>3
    <3> QED
      BY <1>7, <2>1, <3>1
  <2> QED
    BY <2>2, <2>3
<1> HIDE DEF good
<1>3. Texts \subseteq good
  BY <1>0, <1>6, <1>2, EveryText DEF none
<1>8. Right(text)
  BY <1>3 DEF good
<1>9. char = " " /\ text # none /\ Last(text) = " " => S(Append(text, char)) = S(text)
  BY <1>4, <1>5, <1>8
<1>10. ~(char = " " /\ text # none /\ Last(text) = " ") => S(Append(text, char)) = Append(S(text), char)
  BY <1>4, <1>5, <1>8
<1> QED
  BY <1>1, <1>8, <1>9, <1>10 DEF S, Squeezed, none

\* The last character of one text after another, and its first.
LEMMA ConcatEnds ==
    ASSUME NEW t \in Texts, NEW u \in Texts
    PROVE  /\ u = <<>> => t \o u = t
           /\ t = <<>> => t \o u = u
           /\ u # <<>> => t \o u # <<>> /\ Last(t \o u) = Last(u)
           /\ t # <<>> => t \o u # <<>> /\ Head(t \o u) = Head(t)
<1> DEFINE none == <<>>
<1>1. (u = none => t \o u = t) /\ (t = none => t \o u = u)
  BY ConcatEmptySeq DEF Texts
<1>2. /\ Len(t) \in Nat /\ Len(u) \in Nat
      /\ (t = none <=> Len(t) = 0) /\ (u = none <=> Len(u) = 0)
  BY EmptySeq, LenProperties DEF Texts
<1> DEFINE tu == t \o u
<1>3. /\ tu \in Texts /\ Len(tu) = Len(t) + Len(u)
      /\ \A i \in 1 .. Len(t) + Len(u) : tu[i] = IF i <= Len(t) THEN t[i] ELSE u[i - Len(t)]
  BY ConcatProperties DEF Texts
<1>4. tu = none <=> Len(tu) = 0
  BY <1>3, EmptySeq, LenProperties DEF Texts
<1>5. ASSUME t # none PROVE tu # none /\ Head(tu) = Head(t)
  <2> DEFINE all == {v \in Texts : t \o v # none /\ Head(t \o v) = Head(t)}
  <2>1. none \in all
    <3>1. none \in Texts /\ t \o none = t
      BY ShortTexts, ConcatEmptySeq DEF Texts
    <3> QED
      BY <1>5, <3>1
  <2>2. ASSUME NEW v \in Texts, NEW c \in Characters, v \in all PROVE Append(v, c) \in all
    <3> DEFINE tv == t \o v
    <3>1. t \o Append(v, c) = Append(tv, c) /\ Append(v, c) \in Texts
      BY ConcatLonger, LongerText
    <3>2. tv \in Texts /\ tv # none /\ Head(tv) = Head(t)
      BY <2>2, ConcatRead
    <3> HIDE DEF tv
    <3>3. Append(tv, c) # none /\ Head(Append(tv, c)) = Head(tv)
      BY <3>2, LongerText
    <3> QED
      BY <3>1, <3>2, <3>3
  <2> HIDE DEF all
  <2>3. Texts \subseteq all
    BY <2>1, <2>2, EveryText
  <2> QED
    BY <2>3 DEF all
<1> HIDE DEF tu, none
<1>6. u # none => tu # none /\ Last(tu) = Last(u)
  <2> SUFFICES ASSUME u # none PROVE tu # none /\ Last(tu) = Last(u)
    OBVIOUS
  <2>1. Len(u) > 0 /\ Len(tu) > 0 /\ Len(tu) \in 1 .. Len(t) + Len(u)
        /\ ~(Len(tu) <= Len(t)) /\ Len(tu) - Len(t) = Len(u)
    BY <1>2, <1>3
  <2>2. tu[Len(tu)] = u[Len(u)]
    BY <1>3, <2>1
  <2> QED
    BY <1>4, <2>1, <2>2 DEF Last
<1> QED
  BY <1>1, <1>5, <1>6 DEF tu, none

\* Where no blank follows a blank, the one text is squeezed and then the other.
LEMMA SqueezedConcat ==
    ASSUME NEW t \in Texts, NEW u \in Texts,
           t = <<>> \/ Last(t) # " " \/ u = <<>> \/ Head(u) # " "
    PROVE  Squeezed(t \o u) = Squeezed(t) \o Squeezed(u)
<1> DEFINE none == <<>>
           blank == " "
           Apart(v) == t = none \/ Last(t) # blank \/ v = none \/ Head(v) # blank
           good == {v \in Texts : Apart(v) => Squeezed(t \o v) = Squeezed(t) \o Squeezed(v)}
<1>0. none \in Texts /\ blank \in Characters
  BY ShortTexts DEF Characters, Special
<1>1. none \in good
  <2>1. Squeezed(none) = none /\ Squeezed(t) \in Texts
    BY <1>0, SqueezedAppend
  <2>2. t \o none = t /\ Squeezed(t) \o none = Squeezed(t)
    BY <1>0, <2>1, ConcatEnds
  <2> QED
    BY <1>0, <2>1, <2>2
<1>2. ASSUME NEW v \in Texts, NEW c \in Characters, v \in good PROVE Append(v, c) \in good
  <2> DEFINE longer == Append(v, c)
             tv == t \o v
             st == Squeezed(t)
             sv == Squeezed(v)
  <2>1. /\ longer \in Texts /\ longer # none
        /\ Head(longer) = IF v = none THEN c ELSE Head(v)
    BY LongerText
  <2>9. tv \in Texts
    BY ConcatRead
  <2>10. t \o longer = Append(tv, c)
    BY ConcatLonger
  <2>2. tv \in Texts /\ t \o longer = Append(tv, c)
    BY <2>9, <2>10
  <2>3. /\ st \in Texts /\ sv \in Texts
        /\ v = none <=> sv = none
        /\ c = blank /\ v # none /\ Last(v) = blank => Squeezed(longer) = sv
        /\ ~(c = blank /\ v # none /\ Last(v) = blank) => Squeezed(longer) = Append(sv, c)
    BY SqueezedAppend
  <2>4. /\ v = none => tv = t
        /\ v # none => tv # none /\ Last(tv) = Last(v)
    BY ConcatEnds
  <2>5. Apart(v) => Squeezed(tv) = st \o sv
    BY <1>2
  <2> HIDE DEF tv, st, sv, longer, blank, none
  <2>6. st \o Append(sv, c) = Append(st \o sv, c)
    <3>1. st \in Texts /\ sv \in Texts
      BY <2>3
    <3> QED
      BY <3>1, ConcatLonger
  <2>7. /\ c = blank /\ tv # none /\ Last(tv) = blank => Squeezed(Append(tv, c)) = Squeezed(tv)
        /\ ~(c = blank /\ tv # none /\ Last(tv) = blank) =>
               Squeezed(Append(tv, c)) = Append(Squeezed(tv), c)
    BY <2>2, SqueezedAppend DEF blank, none
  <2>8. ASSUME Apart(longer) PROVE Squeezed(t \o longer) = st \o Squeezed(longer)
    <3>1. CASE v = none
      <4>1. ~(c = blank /\ tv # none /\ Last(tv) = blank)
        BY <2>1, <2>4, <2>8, <3>1
      <4>2. Apart(v)
        BY <3>1
      <4> QED
        BY <2>2, <2>3, <2>5, <2>6, <2>7, <3>1, <4>1, <4>2
    <3>2. CASE v # none
      <4>1. Apart(v)
        BY <2>1, <2>8, <3>2
      <4> QED
        BY <2>2, <2>3, <2>4, <2>5, <2>6, <2>7, <3>2, <4>1
    <3> QED
      BY <3>1, <3>2
  <2> QED
    BY <2>1, <2>8 DEF longer, st
<1> HIDE DEF good
<1>3. Texts \subseteq good
  BY <1>0, <1>1, <1>2, EveryText DEF none
<1>4. Apart(u)
  BY DEF none, blank
<1> QED
  BY <1>3, <1>4 DEF good

\* Squeezing and quoting leave each other alone.
LEMMA SqueezedHeld ==
    ASSUME NEW text \in Texts
    PROVE  Squeezed(Held(text)) = Held(Squeezed(text))
<1> DEFINE none == <<>>
           blank == " "
           p == "'"
           q == "\""
           Right(t) == /\ t = none <=> Held(t) = none
                       /\ t # none => Last(Held(t)) = Last(t)
                       /\ Squeezed(Held(t)) = Held(Squeezed(t))
           good == {t \in Texts : Right(t)}
<1>0. none \in Texts /\ p \in Characters /\ q \in Characters /\ p # blank /\ q # blank
  <2>1. p \in Characters /\ q \in Characters /\ p # blank /\ q # blank
    BY DEF Characters, Special
  <2> QED
    BY <2>1, ShortTexts
<1>1. none \in good
  <2>1. Held(none) = none /\ Squeezed(none) = none
    BY <1>0, HeldAppend, SqueezedAppend
  <2> QED
    BY <1>0, <2>1
<1>4. \A t \in Texts, c \in Characters :
          /\ Squeezed(t) \in Texts
          /\ c = blank /\ t # none /\ Last(t) = blank => Squeezed(Append(t, c)) = Squeezed(t)
          /\ ~(c = blank /\ t # none /\ Last(t) = blank) =>
                 Squeezed(Append(t, c)) = Append(Squeezed(t), c)
  BY SqueezedAppend
<1>5. \A t \in Texts, c \in Characters :
          /\ Held(t) \in Texts
          /\ c = p => Held(Append(t, c)) =
                 Append(Append(Append(Append(Append(Held(t), p), q), p), q), p)
          /\ c # p => Held(Append(t, c)) = Append(Held(t), c)
  BY HeldAppend
<1>6. \A t \in Texts, c \in Characters :
          Append(t, c) \in Texts /\ Append(t, c) # none /\ Last(Append(t, c)) = c
  BY LongerText
<1> HIDE DEF none, blank, p, q
<1>2. ASSUME NEW t \in Texts, NEW c \in Characters, t \in good PROVE Append(t, c) \in good
  <2> DEFINE longer == Append(t, c)
             h == Held(t)
             s == Squeezed(t)
  <2>1. Right(t)
    BY <1>2
  <2>2. h \in Texts /\ s \in Texts /\ longer \in Texts /\ longer # none /\ Last(longer) = c
    BY <1>4, <1>5, <1>6
  <2>3. CASE c = p
    <3> DEFINE h1 == Append(h, p)
               h2 == Append(h1, q)
               h3 == Append(h2, p)
               h4 == Append(h3, q)
               h5 == Append(h4, p)
               k == Append(Append(Append(Append(Append(Held(s), p), q), p), q), p)
    <3>1. Held(longer) = h5
      BY <1>5, <2>3
    <3>2. Squeezed(longer) = Append(s, p)
      BY <1>0, <1>4, <2>3
    <3>3. Held(Append(s, p)) = k
      BY <1>0, <1>5, <2>2
    <3>4. Squeezed(h) = Held(s)
      BY <2>1
    <3> HIDE DEF h, s
    <3>0. h \in Texts /\ p \in Characters /\ p # blank
      BY <1>0, <2>2
    <3>11. h1 \in Texts
      BY <1>6, <3>0
    <3>12. Squeezed(h1) = Append(Squeezed(h), p)
      BY <1>4, <3>0
    <3>5. h1 \in Texts /\ Squeezed(h1) = Append(Held(s), p)
      BY <3>4, <3>11, <3>12
    <3> HIDE DEF h1
    <3>6. h2 \in Texts /\ Squeezed(h2) = Append(Append(Held(s), p), q)
      BY <1>0, <1>4, <1>6, <3>5
    <3> HIDE DEF h2
    <3>7. h3 \in Texts /\ Squeezed(h3) = Append(Append(Append(Held(s), p), q), p)
      BY <1>0, <1>4, <1>6, <3>6
    <3> HIDE DEF h3
    <3>8. h4 \in Texts /\ Squeezed(h4) = Append(Append(Append(Append(Held(s), p), q), p), q)
      BY <1>0, <1>4, <1>6, <3>7
    <3> HIDE DEF h4
    <3>9. h5 # none /\ Last(h5) = p /\ Squeezed(h5) = k
      BY <1>0, <1>4, <1>6, <3>8
    <3> HIDE DEF h5, k, longer
    <3>10. Right(longer)
      BY <2>2, <2>3, <3>1, <3>2, <3>3, <3>9
    <3> QED
      BY <2>2, <3>10 DEF longer
  <2>4. CASE c # p
    <3> DEFINE a == Append(h, c)
    <3>1. Held(longer) = a /\ a # none /\ Last(a) = c
      BY <1>5, <1>6, <2>2, <2>4
    <3>2. CASE c = blank /\ t # none /\ Last(t) = blank
      <4>1. Squeezed(longer) = s
        BY <1>4, <3>2
      <4>2. h # none /\ Last(h) = blank
        BY <2>1, <3>2
      <4>3. Squeezed(a) = Squeezed(h)
        BY <1>4, <2>2, <3>2, <4>2
      <4> HIDE DEF a, longer
      <4>4. Right(longer)
        BY <2>1, <2>2, <3>1, <4>1, <4>3
      <4> QED
        BY <2>2, <4>4 DEF longer
    <3>3. CASE ~(c = blank /\ t # none /\ Last(t) = blank)
      <4>1. Squeezed(longer) = Append(s, c)
        BY <1>4, <3>3
      <4>2. ~(c = blank /\ h # none /\ Last(h) = blank)
        BY <2>1, <3>3
      <4>3. Squeezed(a) = Append(Squeezed(h), c)
        BY <1>4, <2>2, <4>2
      <4>5. Held(Append(s, c)) = Append(Held(s), c)
        BY <1>5, <2>2, <2>4
      <4> HIDE DEF a, longer
      <4>4. Right(longer)
        BY <2>1, <2>2, <3>1, <4>1, <4>3, <4>5
      <4> QED
        BY <2>2, <4>4 DEF longer
    <3> QED
      BY <3>2, <3>3
  <2> QED
    BY <2>3, <2>4
<1> HIDE DEF good
<1>3. Texts \subseteq good
  BY <1>0, <1>1, <1>2, EveryText DEF none
<1> QED
  BY <1>3 DEF good

\* A quoted text has no blanks at its ends, and is squeezed within its quotes.
LEMMA SqueezedQuoted ==
    ASSUME NEW t \in Texts
    PROVE  /\ shellQuote(t) \in Texts /\ shellQuote(t) # <<>>
           /\ Head(shellQuote(t)) # " " /\ Last(shellQuote(t)) # " "
           /\ Squeezed(shellQuote(t)) = shellQuote(Squeezed(t))
<1> DEFINE none == <<>>
           q == "'"
           o == <<q>>
           h == Held(t)
           oh == o \o h
           k == Held(Squeezed(t))
<1>1. q \in Characters /\ q # " "
  BY DEF Characters, Special
<1>2. h \in Texts /\ Squeezed(h) = k /\ Squeezed(none) = none
  BY <1>1, HeldAppend, SqueezedHeld, SqueezedAppend
<1>3. shellQuote(t) = oh \o o /\ shellQuote(Squeezed(t)) = (o \o k) \o o
  BY DEF shellQuote, Held
<1>4. none \in Texts /\ o \in Texts /\ o = Append(none, q)
  BY <1>1, ShortTexts
<1> HIDE DEF o, h, k, q
<1>5. o # none /\ Head(o) = q /\ Last(o) = q
  BY <1>1, <1>4, LongerText
<1>6. Squeezed(o) = o
  <2>1. ~(q = " " /\ none # <<>> /\ Last(none) = " ")
    BY <1>1
  <2>2. Squeezed(Append(none, q)) = Append(Squeezed(none), q)
    BY <1>1, <1>4, SqueezedAppend
  <2> QED
    BY <1>2, <1>4, <2>2
<1>7. Last(o) # " " /\ Head(o) # " "
  BY <1>1, <1>5
<1>8. oh \in Texts /\ Squeezed(oh) = Squeezed(o) \o Squeezed(h)
  BY <1>2, <1>4, <1>7, ConcatRead, SqueezedConcat
<1>9. oh # none /\ Head(oh) = Head(o)
  BY <1>2, <1>4, <1>5, ConcatEnds
<1> HIDE DEF oh
<1>10. oh \o o \in Texts /\ Squeezed(oh \o o) = Squeezed(oh) \o Squeezed(o)
  BY <1>4, <1>7, <1>8, ConcatRead, SqueezedConcat
<1>11. oh \o o # none /\ Head(oh \o o) = Head(oh) /\ Last(oh \o o) = Last(o)
  BY <1>4, <1>5, <1>8, <1>9, ConcatEnds
<1> QED
  BY <1>2, <1>3, <1>6, <1>7, <1>8, <1>9, <1>10, <1>11

\* Squeezing quoted texts with blanks between them squeezes each of them.
LEMMA SqueezedJoined ==
    ASSUME NEW f, f = [t \in Texts |-> shellQuote(t)],
           NEW g, g = [t \in Texts |-> Squeezed(t)]
    PROVE  \A args \in Seq(Texts) : args # <<>> =>
               /\ Joined(Mapped(f, args)) # <<>>
               /\ Head(Joined(Mapped(f, args))) # " " /\ Last(Joined(Mapped(f, args))) # " "
               /\ Squeezed(Joined(Mapped(f, args))) = Joined(Mapped(f, Mapped(g, args)))
<1> DEFINE none == <<>>
           blank == " "
           L(args) == Joined(Mapped(f, args))
           M(args) == Joined(Mapped(f, Mapped(g, args)))
           Right(args) == args # none => /\ L(args) # none
                                         /\ Head(L(args)) # blank /\ Last(L(args)) # blank
                                         /\ Squeezed(L(args)) = M(args)
           good == {args \in Seq(Texts) : Right(args)}
<1>0. none \in Seq(Texts) /\ none \in Texts /\ blank \in Characters
  BY EmptySeq DEF Texts, Characters, Special
<1>4. /\ f \in [Texts -> Texts] /\ g \in [Texts -> Texts]
      /\ \A t \in Texts : /\ f[t] \in Texts /\ g[t] \in Texts
                          /\ f[t] # none /\ Head(f[t]) # blank /\ Last(f[t]) # blank
                          /\ Squeezed(f[t]) = f[g[t]]
  <2>1. \A t \in Texts : Squeezed(t) \in Texts
    <3>1. "x" \in Characters
      BY DEF Characters
    <3> QED
      BY <3>1, SqueezedAppend
  <2>2. \A t \in Texts : /\ shellQuote(t) \in Texts
                         /\ shellQuote(t) # none /\ Head(shellQuote(t)) # blank
                         /\ Last(shellQuote(t)) # blank
                         /\ Squeezed(shellQuote(t)) = shellQuote(Squeezed(t))
    BY SqueezedQuoted
  <2> QED
    BY <2>1, <2>2
<1>5. f \in [Texts -> Texts] /\ g \in [Texts -> Texts]
  BY <1>4
<1>1. none \in good
  BY <1>0
<1>2. ASSUME NEW args \in Seq(Texts), NEW t \in Texts, args \in good
      PROVE  Append(args, t) \in good
  <2> DEFINE longer == Append(args, t)
             fs == Mapped(f, args)
             gs == Mapped(g, args)
             fgs == Mapped(f, gs)
             ft == f[t]
             gt == g[t]
             fgt == f[gt]
  <2>1. Right(args)
    BY <1>2
  <2>2. /\ ft \in Texts /\ gt \in Texts /\ fgt \in Texts
        /\ ft # none /\ Head(ft) # blank /\ Last(ft) # blank
        /\ Squeezed(ft) = fgt
    BY <1>4
  <2>3. /\ longer \in Seq(Texts) /\ fs \in Seq(Texts) /\ gs \in Seq(Texts)
        /\ Mapped(f, longer) = Append(fs, ft) /\ Mapped(g, longer) = Append(gs, gt)
        /\ (args # none => fs # none /\ gs # none)
        /\ Mapped(f, none) = none /\ Mapped(g, none) = none
    <3>1. longer \in Seq(Texts)
      BY AppendProperties
    <3>2. /\ fs \in Seq(Texts) /\ Mapped(f, longer) = Append(fs, ft)
          /\ (args # none => fs # none)
      BY <1>5, MappedAppend
    <3>3. /\ gs \in Seq(Texts) /\ Mapped(g, longer) = Append(gs, gt)
          /\ (args # none => gs # none)
      BY <1>5, MappedAppend
    <3>4. Mapped(f, none) = none /\ Mapped(g, none) = none
      BY MappedEmpty
    <3> QED
      BY <3>1, <3>2, <3>3, <3>4
  <2>8. gs \in Seq(Texts) /\ gt \in Texts
    BY <2>2, <2>3
  <2> HIDE DEF gt, gs
  <2>4. /\ fgs \in Seq(Texts) /\ Mapped(f, Append(gs, gt)) = Append(fgs, fgt)
        /\ (gs # none => fgs # none)
    BY <1>5, <2>8, MappedAppend
  <2> HIDE DEF longer, fs, fgs, ft, fgt
  <2>5. L(longer) = Joined(Append(fs, ft)) /\ M(longer) = Joined(Append(fgs, fgt))
    BY <2>3, <2>4
  <2>6. CASE args = none
    <3>1. fs = none /\ fgs = none
      BY <2>3, <2>6 DEF fs, gs, fgs
    <3>2. Joined(Append(fs, ft)) = ft
      BY <2>2, <2>3, <3>1, JoinedAppend
    <3>3. Joined(Append(fgs, fgt)) = fgt
      BY <2>2, <2>4, <3>1, JoinedAppend
    <3>4. Right(longer)
      BY <2>2, <2>5, <3>2, <3>3
    <3> QED
      BY <2>3, <3>4 DEF longer
  <2>7. CASE args # none
    <3> DEFINE l == Joined(fs)
               m == Joined(fgs)
               o == <<blank>>
               of == o \o ft
               og == o \o fgt
    <3>1. l \in Texts /\ m \in Texts /\ o \in Texts /\ o = Append(none, blank)
      BY <1>0, <2>3, <2>4, JoinedType, ShortTexts
    <3>2. Joined(Append(fs, ft)) = l \o of
      BY <2>2, <2>3, <2>7, JoinedAppend
    <3>3. Joined(Append(fgs, fgt)) = m \o og
      BY <2>2, <2>3, <2>4, <2>7, JoinedAppend
    <3>4. l # none /\ Head(l) # blank /\ Last(l) # blank /\ Squeezed(l) = m
      BY <2>1, <2>7 DEF fs, fgs, gs
    <3> HIDE DEF l, m, o
    <3>5. Squeezed(o) = o
      <4>1. Squeezed(none) = none
        BY <1>0, SqueezedAppend
      <4>2. Squeezed(Append(none, blank)) = Append(Squeezed(none), blank)
        <5>1. ~(blank = " " /\ none # <<>> /\ Last(none) = " ")
          OBVIOUS
        <5> HIDE DEF blank
        <5> QED
          BY <1>0, <5>1, SqueezedAppend
      <4> QED
        BY <3>1, <4>1, <4>2
    <3>6. of \in Texts /\ og \in Texts
      BY <2>2, <3>1, ConcatRead
    <3>7. Squeezed(of) = Squeezed(o) \o Squeezed(ft)
      BY <2>2, <3>1, SqueezedConcat
    <3>8. of # none /\ Last(of) = Last(ft)
      BY <2>2, <3>1, ConcatEnds
    <3> HIDE DEF of
    <3>9. Squeezed(l \o of) = Squeezed(l) \o Squeezed(of)
      BY <3>1, <3>4, <3>6, SqueezedConcat
    <3>10. l \o of # none /\ Head(l \o of) = Head(l) /\ Last(l \o of) = Last(of)
      BY <3>1, <3>4, <3>6, <3>8, ConcatEnds
    <3>11. Squeezed(l \o of) = m \o og
      BY <2>2, <3>4, <3>5, <3>7, <3>9
    <3> HIDE DEF og
    <3>12. Right(longer)
      BY <2>2, <2>5, <3>2, <3>3, <3>4, <3>8, <3>10, <3>11
    <3> QED
      BY <2>3, <3>12 DEF longer
  <2> QED
    BY <2>6, <2>7
<1> HIDE DEF good
<1>3. Seq(Texts) \subseteq good
  BY <1>1, <1>2, Extension
<1> QED
  BY <1>3 DEF good

\* One character more in the last of the texts, and a text more of one character.
LEMMA JoinedLonger ==
    ASSUME NEW words \in Seq(Texts), NEW word \in Texts, NEW c \in Characters
    PROVE  /\ Joined(Append(words, Append(word, c))) = Append(Joined(Append(words, word)), c)
           /\ words = <<>> => Joined(Append(words, <<c>>)) = <<c>>
           /\ words # <<>> => Joined(Append(words, <<c>>)) = Append(Append(Joined(words), " "), c)
<1> DEFINE none == <<>>
           blank == " "
           o == <<blank>>
           j == Joined(words)
           ow == o \o word
           longer == Append(word, c)
           short == <<c>>
<1>1. /\ blank \in Characters /\ o \in Texts /\ j \in Texts
      /\ longer \in Texts /\ short \in Texts /\ none \in Texts
  <2>1. blank \in Characters
    BY DEF Characters, Special
  <2>2. o \in Texts /\ none \in Texts /\ short \in Texts
    BY <2>1, ShortTexts
  <2> QED
    BY <2>1, <2>2, JoinedType, LongerText
<1>2. o \o longer = Append(ow, c) /\ o \o short = Append(o, c)
  <2> HIDE DEF o
  <2> QED
    BY <1>1, ConcatLonger, ConcatOne
<1>3. ow \in Texts
  BY <1>1, ConcatRead
<1>4. j \o o = Append(j, blank) /\ Append(j, blank) \in Texts
  BY <1>1, ConcatOne, LongerText
<1>5. /\ words = none => Joined(Append(words, word)) = word
      /\ words # none => Joined(Append(words, word)) = j \o ow
  BY JoinedAppend
<1>6. /\ words = none => Joined(Append(words, longer)) = longer
      /\ words # none => Joined(Append(words, longer)) = j \o (o \o longer)
  BY <1>1, JoinedAppend
<1>7. /\ words = none => Joined(Append(words, short)) = short
      /\ words # none => Joined(Append(words, short)) = j \o (o \o short)
  BY <1>1, JoinedAppend
<1> HIDE DEF ow, o, j
<1>8. j \o Append(ow, c) = Append(j \o ow, c)
  BY <1>1, <1>3, ConcatLonger
<1>9. j \o Append(o, c) = Append(j \o o, c)
  BY <1>1, ConcatLonger
<1> HIDE DEF short
<1>10. words # none => Joined(Append(words, short)) = Append(Append(j, blank), c)
  BY <1>2, <1>4, <1>7, <1>9
<1>11. Joined(Append(words, longer)) = Append(Joined(Append(words, word)), c)
  BY <1>2, <1>5, <1>6, <1>8
<1> QED
  BY <1>7, <1>10, <1>11 DEF j, short

\* The words between the blanks of a text, joined again, are the text squeezed, but for a
\* blank at its end.
LEMMA FieldsJoined ==
    ASSUME NEW text \in Texts, text # <<>>, Head(text) # " "
    PROVE  /\ Joined(Fields(text)) \in Texts
           /\ Last(text) = " " => Squeezed(text) = Append(Joined(Fields(text)), " ")
           /\ Last(text) # " " => Squeezed(text) = Joined(Fields(text))
<1> DEFINE none == <<>>
           blank == " "
           F(t) == Scanned(FieldsChar, Scan, t)
           Ended(t, s) == /\ ~s.open /\ s.words # none
                          /\ Squeezed(t) = Append(Joined(s.words), blank)
           Open(t, s) == s.open /\ Squeezed(t) = Joined(Append(s.words, s.word))
           Right(t) == /\ F(t) \in States
                       /\ ~F(t).open => F(t).word = none
                       /\ t # none /\ Head(t) # blank =>
                              /\ Last(t) = blank => Ended(t, F(t))
                              /\ Last(t) # blank => Open(t, F(t))
           good == {t \in Texts : Right(t)}
<1>0. none \in Texts /\ none \in Seq(Texts) /\ blank \in Characters
  BY EmptySeq DEF Texts, Characters, Special
<1>5. /\ F(none) \in States /\ F(none).words = none /\ F(none).word = none
      /\ ~F(none).open
  <2>1. F(none) = Scan
    BY ScannedEmpty
  <2> HIDE DEF F
  <2> QED
    BY <2>1, ScanState
<1>1. none \in good
  BY <1>0, <1>5
<1>4. \A t \in Texts, c \in Characters : F(Append(t, c)) = FieldsChar[c][F(t)]
  BY EveryTextRead
<1> HIDE DEF F
<1>6. \A s \in States, c \in Characters :
          /\ c = blank => FieldsChar[c][s] = EndWord(s)
          /\ c # blank => FieldsChar[c][s] = Add(s, c)
  BY DEF FieldsChar
<1>7. \A s \in States : s.word \in Texts /\ s.words \in Seq(Texts)
  BY DEF States
<1>2. ASSUME NEW t \in Texts, NEW c \in Characters, t \in good PROVE Append(t, c) \in good
  <2> DEFINE longer == Append(t, c)
             s == F(t)
             r == F(longer)
  <2>1. Right(t)
    BY <1>2
  <2>2. /\ longer \in Texts /\ longer # none /\ Last(longer) = c
        /\ Head(longer) = IF t = none THEN c ELSE Head(t)
    BY LongerText
  <2>3. /\ c = blank /\ t # none /\ Last(t) = blank => Squeezed(longer) = Squeezed(t)
        /\ ~(c = blank /\ t # none /\ Last(t) = blank) => Squeezed(longer) = Append(Squeezed(t), c)
        /\ Squeezed(none) = none
    BY SqueezedAppend
  <2>4. /\ c = blank => r = EndWord(s)
        /\ c # blank => r = Add(s, c)
    BY <1>4, <1>6, <2>1
  <2>5. /\ s \in States /\ s.word \in Texts /\ s.words \in Seq(Texts)
        /\ ~s.open => s.word = none
    BY <1>7, <2>1
  <2>6. t = none => s.words = none /\ ~s.open
    BY <1>5
  <2>7. t # none /\ Head(t) # blank => /\ Last(t) = blank => Ended(t, s)
                                       /\ Last(t) # blank => Open(t, s)
    BY <2>1
  <2> DEFINE words == s.words
             word == s.word
  <2>8. /\ Joined(Append(words, Append(word, c))) = Append(Joined(Append(words, word)), c)
        /\ words = none => Joined(Append(words, <<c>>)) = <<c>>
        /\ words # none => Joined(Append(words, <<c>>)) = Append(Append(Joined(words), blank), c)
    BY <2>5, JoinedLonger
  <2>9. Append(none, c) = <<c>>
    BY ShortTexts
  <2> HIDE DEF s, r, longer
  <2>10. CASE c = blank
    <3>1. /\ EndWord(s) \in States /\ ~EndWord(s).open
          /\ s.open => EndWord(s).words = Append(s.words, s.word) /\ EndWord(s).word = none
          /\ ~s.open => EndWord(s) = s
      BY <2>5, EndWordState
    <3>2. r = EndWord(s)
      BY <2>4, <2>10
    <3>3. r \in States /\ ~r.open /\ r.word = none
      BY <2>5, <3>1, <3>2
    <3>4. ASSUME longer # none, Head(longer) # blank PROVE Ended(longer, r)
      <4>1. t # none /\ Head(t) # blank
        BY <2>2, <2>10, <3>4
      <4>2. CASE Last(t) = blank
        <5>1. Ended(t, s)
          BY <2>7, <4>1, <4>2
        <5>2. r = s
          BY <3>1, <3>2, <5>1
        <5>3. Squeezed(longer) = Squeezed(t)
          BY <2>3, <2>10, <4>1, <4>2
        <5> QED
          BY <5>1, <5>2, <5>3
      <4>3. CASE Last(t) # blank
        <5>1. Open(t, s)
          BY <2>7, <4>1, <4>3
        <5>2. r.words = Append(words, word)
          BY <3>1, <3>2, <5>1
        <5>3. Squeezed(longer) = Append(Squeezed(t), c)
          BY <2>3, <4>3
        <5>4. Append(words, word) # none
          BY <2>5, AppendProperties
        <5>5. Squeezed(longer) = Append(Joined(Append(words, word)), blank)
          BY <2>10, <5>1, <5>3
        <5> QED
          BY <3>3, <5>2, <5>4, <5>5
      <4> QED
        BY <4>2, <4>3
    <3>5. F(longer) = r
      BY DEF r
    <3>6. Right(longer)
      BY <2>2, <2>10, <3>3, <3>4, <3>5
    <3> QED
      BY <2>2, <3>6 DEF longer
  <2>11. CASE c # blank
    <3>1. /\ Add(s, c) \in States /\ Add(s, c).word = Append(s.word, c) /\ Add(s, c).open
          /\ Add(s, c).words = s.words
      BY <2>5, AddState
    <3>2. r \in States /\ r.word = Append(word, c) /\ r.open /\ r.words = words
      BY <2>4, <2>11, <3>1
    <3>3. Squeezed(longer) = Append(Squeezed(t), c)
      BY <2>3, <2>11
    <3>4. ASSUME longer # none, Head(longer) # blank PROVE Open(longer, r)
      <4>1. CASE t = none
        <5>1. words = none /\ word = none
          BY <2>5, <2>6, <4>1
        <5>2. Joined(Append(words, Append(word, c))) = <<c>>
          BY <2>8, <2>9, <5>1
        <5>3. Squeezed(longer) = <<c>>
          BY <2>3, <2>9, <3>3, <4>1
        <5> QED
          BY <3>2, <5>2, <5>3
      <4>2. CASE t # none /\ Last(t) = blank
        <5>1. Ended(t, s)
          BY <2>2, <2>7, <3>4, <4>2
        <5>2. word = none /\ words # none
          BY <2>5, <5>1
        <5>3. Joined(Append(words, Append(word, c))) = Append(Append(Joined(words), blank), c)
          BY <2>8, <2>9, <5>2
        <5>4. Squeezed(longer) = Append(Append(Joined(words), blank), c)
          BY <3>3, <5>1
        <5> QED
          BY <3>2, <5>3, <5>4
      <4>3. CASE t # none /\ Last(t) # blank
        <5>1. Open(t, s)
          BY <2>2, <2>7, <3>4, <4>3
        <5>2. Squeezed(longer) = Append(Joined(Append(words, word)), c)
          BY <3>3, <5>1
        <5> QED
          BY <2>8, <3>2, <5>2
      <4> QED
        BY <4>1, <4>2, <4>3
    <3>5. F(longer) = r
      BY DEF r
    <3>6. Right(longer)
      BY <2>2, <2>11, <3>2, <3>4, <3>5
    <3> QED
      BY <2>2, <3>6 DEF longer
  <2> QED
    BY <2>10, <2>11
<1> HIDE DEF good
<1>3. Texts \subseteq good
  BY <1>0, <1>1, <1>2, EveryText DEF none
<1>8. Right(text)
  BY <1>3 DEF good
<1> DEFINE s == F(text)
<1>9. s \in States /\ s.word \in Texts /\ s.words \in Seq(Texts)
  BY <1>7, <1>8
<1>10. /\ Last(text) = blank => Ended(text, s)
       /\ Last(text) # blank => Open(text, s)
  BY <1>8 DEF none, blank
<1>11. Fields(text) = EndWord(s).words
  BY DEF Fields, F
<1> HIDE DEF s
<1>12. /\ s.open => EndWord(s).words = Append(s.words, s.word)
       /\ ~s.open => EndWord(s) = s
       /\ EndWord(s) \in States
  BY <1>9, EndWordState
<1>13. Fields(text) \in Seq(Texts)
  BY <1>7, <1>11, <1>12
<1>14. Joined(Fields(text)) \in Texts
  BY <1>13, JoinedType
<1> QED
  BY <1>10, <1>11, <1>12, <1>14

\* A list with one text.
LEMMA ListOfOne ==
    ASSUME NEW t
    PROVE  Append(<<>>, t) = <<t>>
  OBVIOUS

\* A sequence of one text, flattened.
LEMMA FlattenOne ==
    ASSUME NEW t \in Texts
    PROVE  FlattenSeq(<<t>>) = t
<1> DEFINE none == <<>>
<1>1. none \in Seq(Texts) /\ Append(none, t) = <<t>> /\ FlattenSeq(none) = none /\ none \o t = t
  BY EmptySeq, FlattenEmpty, ConcatEmptySeq DEF Texts
<1> HIDE DEF none
<1>2. FlattenSeq(Append(none, t)) = FlattenSeq(none) \o t
  BY <1>1, FlattenAppend DEF Texts
<1> QED
  BY <1>1, <1>2

\* Texts in single quotes with blanks between them are those words to the shell.
LEMMA ShellWordsJoined ==
    ASSUME NEW f, f = [t \in Texts |-> shellQuote(t)], NEW args \in Seq(Texts)
    PROVE  ShellWords(Joined(Mapped(f, args))) = args
<1> DEFINE g == [t \in Texts |-> t]
<1>1. f \in [Texts -> Texts] /\ g \in [Texts -> Texts]
  <2>1. \A t \in Texts : shellQuote(t) \in Texts
    BY SqueezedQuoted
  <2> QED
    BY <2>1
<1>2. Separates(ShellChar, f, g)
  <2>1. \A ws \in Seq(Texts), t \in Texts :
            Scanned(ShellChar, Between(ws), f[t]) = Inside(ws, g[t], "none")
    <3> SUFFICES ASSUME NEW ws \in Seq(Texts), NEW t \in Texts
                 PROVE  Scanned(ShellChar, Between(ws), f[t]) = Inside(ws, g[t], "none")
      OBVIOUS
    <3>1. f[t] = shellQuote(t) /\ g[t] = t
      OBVIOUS
    <3>2. Scanned(ShellChar, Between(ws), shellQuote(t)) = Inside(ws, t, "none")
      BY ShellQuoteRead
    <3> QED
      BY <3>1, <3>2
  <2>2. \A ws \in Seq(Texts), w \in Texts :
            ShellChar[" "][Inside(ws, w, "none")] = Between(Append(ws, w))
    <3>1. "x" \in Characters
      BY DEF Characters
    <3> QED
      BY <3>1, ShellQuoted
  <2> HIDE DEF g
  <2> QED
    BY <2>1, <2>2 DEF Separates
<1>3. Mapped(g, args) = args
  <2>1. \A i \in DOMAIN args : args[i] \in Texts
    BY LenProperties
  <2>2. args = [i \in DOMAIN args |-> args[i]]
    BY LenProperties
  <2> QED
    BY <2>1, <2>2 DEF Mapped
<1> HIDE DEF g
<1>4. EndWord(Scanned(ShellChar, Scan, Joined(Mapped(f, args)))) = Between(Mapped(g, args))
  BY <1>1, <1>2, WordsRead
<1>5. Between(args).words = args
  BY DEF Between
<1> QED
  BY <1>3, <1>4, <1>5 DEF ShellWords

\* renderOpenRCScript: of the arguments of a command nothing is lost but the blanks after a blank,
\* however many there are and whatever is in them.
THEOREM OpenRCArgumentsRead ==
    ASSUME NEW args \in Seq(Texts), args # <<>>
    PROVE  OpenRCCommandWords(CommandArgs(args)) = [i \in DOMAIN args |-> Squeezed(args[i])]
<1> DEFINE f == [t \in Texts |-> shellQuote(t)]
           g == [t \in Texts |-> Squeezed(t)]
           line0 == Joined(Mapped(f, args))
           shorter == Mapped(g, args)
<1>1. f \in [Texts -> Texts] /\ g \in [Texts -> Texts]
  <2>1. \A t \in Texts : shellQuote(t) \in Texts
    BY SqueezedQuoted
  <2>2. \A t \in Texts : Squeezed(t) \in Texts
    <3>1. "x" \in Characters
      BY DEF Characters
    <3> QED
      BY <3>1, SqueezedAppend
  <2> QED
    BY <2>1, <2>2
<1>2. \A i \in DOMAIN args : args[i] \in Texts
  BY LenProperties
<1>3. Joined([i \in DOMAIN args |-> shellQuote(args[i])]) = line0
  <2>1. \A i \in DOMAIN args : f[args[i]] = shellQuote(args[i])
    BY <1>2
  <2> HIDE DEF f
  <2>2. [i \in DOMAIN args |-> shellQuote(args[i])] = [i \in DOMAIN args |-> f[args[i]]]
    BY <2>1
  <2> QED
    BY <2>2 DEF Mapped
<1>4. CommandArgs(args) = shellQuote(line0)
  BY <1>3 DEF CommandArgs
<1>5. shorter = [i \in DOMAIN args |-> Squeezed(args[i])]
  <2>1. \A i \in DOMAIN args : g[args[i]] = Squeezed(args[i])
    BY <1>2
  <2> HIDE DEF g
  <2> QED
    BY <2>1 DEF Mapped
<1>6. f = [t \in Texts |-> shellQuote(t)] /\ g = [t \in Texts |-> Squeezed(t)]
  OBVIOUS
<1> HIDE DEF f, g
<1>7. Mapped(f, args) \in Seq(Texts) /\ shorter \in Seq(Texts)
  <2>1. <<>> \in Texts
    BY EmptySeq DEF Texts
  <2> QED
    BY <1>1, <2>1, MappedAppend
<1>8. /\ line0 # <<>> /\ Head(line0) # " " /\ Last(line0) # " "
      /\ Squeezed(line0) = Joined(Mapped(f, shorter))
  BY <1>6, SqueezedJoined
<1>9. line0 \in Texts
  BY <1>7, JoinedType
<1>10. ShellWords(Joined(Mapped(f, shorter))) = shorter
  <2> HIDE DEF shorter
  <2> QED
    BY <1>6, <1>7, ShellWordsJoined
<1> HIDE DEF line0
<1>11. ShellWords(CommandArgs(args)) = <<line0>> /\ FlattenSeq(<<line0>>) = line0
  BY <1>4, <1>9, ShellWordsQuoted, FlattenOne
<1>12. Squeezed(line0) = Joined(Fields(line0))
  BY <1>8, <1>9, FieldsJoined
<1> QED
  BY <1>5, <1>8, <1>10, <1>11, <1>12 DEF OpenRCCommandWords

\* Two blanks in a row.
TwoBlanks(text) == \E j \in 2 .. Len(text) : text[j - 1] = " " /\ text[j] = " "

\* Squeezing changes a text if and only if two blanks follow each other, and makes it shorter.
LEMMA SqueezedSame ==
    ASSUME NEW text \in Texts
    PROVE  /\ ~TwoBlanks(text) => Squeezed(text) = text
           /\ TwoBlanks(text) => Squeezed(text) # text
           /\ Len(text) \in Nat /\ Len(Squeezed(text)) \in Nat /\ Squeezed(text) \in Texts
           /\ Squeezed(text) = text \/ Len(Squeezed(text)) < Len(text)
<1> DEFINE none == <<>>
           blank == " "
           Right(t) == /\ ~TwoBlanks(t) => Squeezed(t) = t
                       /\ TwoBlanks(t) => Len(Squeezed(t)) < Len(t)
           good == {t \in Texts : Right(t)}
<1>0. none \in Texts /\ blank \in Characters
  BY EmptySeq DEF Texts, Characters, Special
<1>1. none \in good
  <2>1. ~TwoBlanks(none)
    <3>1. Len(none) = 0
      OBVIOUS
    <3>2. 2 .. 0 = {}
      OBVIOUS
    <3> QED
      BY <3>1, <3>2 DEF TwoBlanks
  <2>2. Squeezed(none) = none
    BY <1>0, SqueezedAppend
  <2> QED
    BY <1>0, <2>1, <2>2
<1>4. \A t \in Texts : Len(t) \in Nat /\ Squeezed(t) \in Texts /\ Len(Squeezed(t)) \in Nat
  <2>1. \A t \in Texts : Squeezed(t) \in Texts
    BY <1>0, SqueezedAppend
  <2>2. \A t \in Texts : Len(t) \in Nat
    BY LenProperties DEF Texts
  <2> QED
    BY <2>1, <2>2
<1>2. ASSUME NEW t \in Texts, NEW c \in Characters, t \in good PROVE Append(t, c) \in good
  <2> DEFINE longer == Append(t, c)
             n == Len(t)
  <2>1. Right(t)
    BY <1>2
  <2>2. longer \in Texts /\ Len(longer) = n + 1 /\ n \in Nat /\ (t = none <=> n = 0)
    BY LongerText
  <2>3. longer[n + 1] = c /\ \A i \in 1 .. n : longer[i] = t[i]
    BY AppendProperties DEF Texts
  <2>4. /\ c = blank /\ t # none /\ Last(t) = blank => Squeezed(longer) = Squeezed(t)
        /\ ~(c = blank /\ t # none /\ Last(t) = blank) => Squeezed(longer) = Append(Squeezed(t), c)
    BY SqueezedAppend
  <2>5. Len(Append(Squeezed(t), c)) = Len(Squeezed(t)) + 1 /\ Len(Squeezed(t)) \in Nat
    <3> DEFINE s == Squeezed(t)
    <3>1. s \in Texts /\ Len(s) \in Nat
      BY <1>4
    <3> HIDE DEF s
    <3>2. Len(Append(s, c)) = Len(s) + 1
      BY <3>1, LongerText
    <3> QED
      BY <3>1, <3>2 DEF s
  <2>11. Squeezed(t) = t => Append(Squeezed(t), c) = longer
    OBVIOUS
  <2> HIDE DEF longer
  <2>6. TwoBlanks(longer) <=> TwoBlanks(t) \/ (c = blank /\ t # none /\ Last(t) = blank)
    <3>0. Last(t) = t[n]
      BY DEF Last
    <3>1. TwoBlanks(longer) <=> \E j \in 2 .. n + 1 : longer[j - 1] = blank /\ longer[j] = blank
      BY <2>2 DEF TwoBlanks
    <3>2. TwoBlanks(t) <=> \E j \in 2 .. n : t[j - 1] = blank /\ t[j] = blank
      BY DEF TwoBlanks
    <3>8. n \in Nat /\ Len(longer) = n + 1
      BY <2>2
    <3> HIDE DEF n, blank
    <3>3. \A j \in 2 .. n : longer[j - 1] = t[j - 1] /\ longer[j] = t[j]
      BY <2>2, <2>3
    <3>4. \A j \in 2 .. n + 1 : j \in 2 .. n \/ (j = n + 1 /\ j - 1 = n /\ n \in 1 .. n)
      BY <2>2
    <3>5. TwoBlanks(t) => TwoBlanks(longer)
      <4> SUFFICES ASSUME NEW j \in 2 .. n, t[j - 1] = blank, t[j] = blank PROVE TwoBlanks(longer)
        BY <3>2
      <4>2. longer[j - 1] = blank /\ longer[j] = blank
        BY <3>3
      <4>3. j \in 2 .. n + 1
        BY <3>8
      <4>1. j \in 2 .. n + 1 /\ longer[j - 1] = blank /\ longer[j] = blank
        BY <4>2, <4>3
      <4> QED
        BY <3>1, <4>1
    <3>6. c = blank /\ t # none /\ Last(t) = blank => TwoBlanks(longer)
      <4> SUFFICES ASSUME c = blank, n # 0, t[n] = blank PROVE TwoBlanks(longer)
        BY <2>2, <3>0
      <4>1. n + 1 \in 2 .. n + 1 /\ (n + 1) - 1 = n /\ n \in 1 .. n
        BY <3>8
      <4>2. longer[(n + 1) - 1] = blank /\ longer[n + 1] = blank
        BY <2>3, <4>1
      <4> QED
        BY <3>1, <4>1, <4>2
    <3>7. TwoBlanks(longer) => TwoBlanks(t) \/ (c = blank /\ t # none /\ Last(t) = blank)
      <4> SUFFICES ASSUME NEW j \in 2 .. n + 1, longer[j - 1] = blank, longer[j] = blank
                   PROVE  TwoBlanks(t) \/ (c = blank /\ t # none /\ Last(t) = blank)
        BY <3>1
      <4>1. CASE j \in 2 .. n
        <5>1. t[j - 1] = blank /\ t[j] = blank
          BY <3>3, <4>1
        <5> QED
          BY <3>2, <4>1, <5>1
      <4>2. CASE j = n + 1 /\ j - 1 = n /\ n \in 1 .. n
        <5>2. longer[n + 1] = blank /\ longer[n] = blank
          BY <4>2
        <5>3. longer[n + 1] = c /\ longer[n] = t[n] /\ n # 0
          BY <2>3, <3>8, <4>2
        <5>1. c = blank /\ t[n] = blank /\ n # 0
          BY <5>2, <5>3
        <5> QED
          BY <2>2, <3>0, <5>1
      <4> QED
        BY <3>4, <4>1, <4>2
    <3> QED
      BY <3>5, <3>6, <3>7
  <2>7. CASE c = blank /\ t # none /\ Last(t) = blank
    <3>1. Len(Squeezed(t)) <= Len(t)
      BY <2>1, <2>2
    <3>3. TwoBlanks(longer)
      BY <2>6, <2>7
    <3>4. Squeezed(longer) = Squeezed(t)
      BY <2>4, <2>7
    <3>2. Len(Squeezed(longer)) < Len(longer)
      BY <2>2, <2>5, <3>1, <3>4
    <3> QED
      BY <2>2, <3>2, <3>3 DEF longer
  <2>8. CASE ~(c = blank /\ t # none /\ Last(t) = blank)
    <3>1. TwoBlanks(longer) <=> TwoBlanks(t)
      BY <2>6, <2>8
    <3>2. Squeezed(longer) = Append(Squeezed(t), c)
      BY <2>4, <2>8
    <3>3. CASE TwoBlanks(t)
      <4>1. Len(Squeezed(longer)) < Len(longer)
        BY <2>1, <2>2, <2>5, <3>2, <3>3
      <4> QED
        BY <2>2, <3>1, <3>3, <4>1 DEF longer
    <3>4. CASE ~TwoBlanks(t)
      <4>1. Squeezed(longer) = longer
        BY <2>1, <2>11, <3>2, <3>4
      <4> QED
        BY <2>2, <3>1, <3>4, <4>1 DEF longer
    <3> QED
      BY <3>3, <3>4
  <2> QED
    BY <2>7, <2>8
<1> HIDE DEF good
<1>3. Texts \subseteq good
  BY <1>0, <1>1, <1>2, EveryText DEF none
<1>5. Right(text)
  BY <1>3 DEF good
<1> QED
  BY <1>4, <1>5

-----------------------------------------------------------------------------
(* What the shell makes of a text without quotes                           *)

\* All characters of the words read so far.
Content(s) == FlattenSeq(s.words) \o s.word

\* A character the shell expands or obeys.
Obeyed(text) == \E char \in Special \ {"%"} : Contains(text, char)

\* The shell does one of five things with a character.
LEMMA ShellChoices ==
    ASSUME NEW char \in Characters, NEW s \in States
    PROVE  \/ ShellChar[char][s] = Add(s, char)
           \/ ShellChar[char][s] = Add(s, "?")
           \/ ShellChar[char][s] = Escape(s)
           \/ \E quote \in Quotes : ShellChar[char][s] = Quote(s, quote)
           \/ ShellChar[char][s] = EndWord(s)
<1>1. ShellChar[char][s] =
          IF s.escaped \/ (s.quote = "'" /\ char # "'") THEN Add(s, char)
          ELSE CASE char = "\\"                             -> Escape(s)
                 [] char = "$"                              -> Add(s, "?")
                 [] char = s.quote                          -> Quote(s, "none")
                 [] s.quote = "none" /\ char \in {"'", "\""} -> Quote(s, char)
                 [] s.quote = "none" /\ char = " "          -> EndWord(s)
                 [] OTHER                                   -> Add(s, char)
  BY DEF ShellChar
<1>2. "none" \in Quotes /\ (char \in {"'", "\""} => char \in Quotes)
  BY DEF Quotes
<1>3. CASE s.escaped \/ (s.quote = "'" /\ char # "'")
  BY <1>1, <1>3
<1>4. CASE ~(s.escaped \/ (s.quote = "'" /\ char # "'"))
  <2>1. CASE char = "\\"
    BY <1>4, <2>1, ShellCases
  <2>2. CASE char = "$"
    BY <1>4, <2>2, ShellCases
  <2>3. CASE char = s.quote
    BY <1>2, <1>4, <2>3, ShellCases
  <2>4. CASE s.quote = "none" /\ char \in {"'", "\""}
    BY <1>2, <1>4, <2>4, ShellCases
  <2>5. CASE s.quote = "none" /\ char = " "
    BY <1>4, <2>5, ShellCases
  <2>6. CASE /\ char # "\\" /\ char # "$" /\ char # s.quote
             /\ ~(s.quote = "none" /\ char \in {"'", "\""})
             /\ ~(s.quote = "none" /\ char = " ")
    BY <1>1, <1>4, <2>6
  <2> QED
    BY <2>1, <2>2, <2>3, <2>4, <2>5, <2>6
<1> QED
  BY <1>3, <1>4

\* Each adds at most one character: the one read, or "?".
LEMMA ContentGrows ==
    ASSUME NEW char \in Characters, NEW s \in States, ~s.open => s.word = <<>>,
           NEW r, r = ShellChar[char][s]
    PROVE  /\ r \in States /\ (~r.open => r.word = <<>>)
           /\ Content(s) \in Texts /\ Content(r) \in Texts
           /\ \/ Content(r) = Content(s)
              \/ Content(r) = Append(Content(s), char)
              \/ Content(r) = Append(Content(s), "?")
           /\ r = Add(s, "?") => Content(r) = Append(Content(s), "?")
           /\ r = Escape(s) \/ r = EndWord(s) => Content(r) = Content(s)
           /\ \A quote \in Quotes : r = Quote(s, quote) => Content(r) = Content(s)
<1> DEFINE none == <<>>
           f == FlattenSeq(s.words)
           c == Content(s)
<1>1. s.words \in Seq(Texts) /\ s.word \in Texts /\ none \in Texts
  BY EmptySeq DEF States, Texts
<1>2. f \in Texts
  BY <1>1, FlattenType DEF Texts
<1>3. c = f \o s.word /\ c \in Texts
  BY <1>1, <1>2, ConcatRead DEF Content
<1>4. \A u \in Texts : u \o none = u
  BY ConcatEmptySeq DEF Texts
<1>5. "?" \in Characters
  BY DEF Characters
<1>6. \A d \in Characters : Append(c, d) \in Texts
  BY <1>3, LongerText
<1> HIDE DEF c
<1>7. ASSUME NEW d \in Characters, r = Add(s, d)
      PROVE  r \in States /\ r.open /\ Content(r) = Append(c, d)
  <2>1. r \in States /\ r.open /\ r.words = s.words /\ r.word = Append(s.word, d)
    BY <1>7, AddState
  <2>2. Content(r) = f \o Append(s.word, d)
    BY <2>1 DEF Content
  <2> DEFINE word == s.word
  <2>4. word \in Texts
    BY <1>1
  <2> HIDE DEF f, word
  <2>3. f \o Append(word, d) = Append(f \o word, d)
    BY <1>2, <2>4, ConcatLonger
  <2> QED
    BY <1>3, <2>1, <2>2, <2>3 DEF word
<1>8. ASSUME r.words = s.words, r.word = s.word
      PROVE  Content(r) = c
  BY <1>3, <1>8 DEF Content
<1>9. ASSUME r = Escape(s) PROVE r \in States /\ (~r.open => r.word = none) /\ Content(r) = c
  <2>1. r \in States /\ r.words = s.words /\ r.word = s.word /\ (r.open <=> s.open)
    BY <1>9, EscapeState
  <2> QED
    BY <1>8, <2>1
<1>10. ASSUME NEW quote \in Quotes, r = Quote(s, quote)
       PROVE  r \in States /\ r.open /\ Content(r) = c
  <2>1. r \in States /\ r.words = s.words /\ r.word = s.word /\ r.open
    BY <1>10, QuoteState
  <2> QED
    BY <1>8, <2>1
<1>11. ASSUME r = EndWord(s) PROVE r \in States /\ (~r.open => r.word = none) /\ Content(r) = c
  <2>1. /\ r \in States
        /\ s.open => r.words = Append(s.words, s.word) /\ r.word = none
        /\ ~s.open => r = s
    BY <1>11, EndWordState
  <2>2. CASE s.open
    <3>1. FlattenSeq(Append(s.words, s.word)) = f \o s.word
      BY <1>1, FlattenAppend DEF Texts
    <3>2. Content(r) = c \o none
      BY <1>3, <2>1, <2>2, <3>1 DEF Content
    <3> QED
      BY <1>3, <1>4, <2>1, <2>2, <3>2
  <2>3. CASE ~s.open
    <3>1. r = s
      BY <2>1, <2>3
    <3> QED
      BY <1>8, <2>1, <2>3, <3>1
  <2> QED
    BY <2>2, <2>3
<1>12. \/ r = Add(s, char) \/ r = Add(s, "?") \/ r = Escape(s)
       \/ \E quote \in Quotes : r = Quote(s, quote)
       \/ r = EndWord(s)
  BY ShellChoices
<1>13. /\ r \in States /\ (~r.open => r.word = none)
       /\ Content(r) = c \/ Content(r) = Append(c, char) \/ Content(r) = Append(c, "?")
  BY <1>5, <1>7, <1>9, <1>10, <1>11, <1>12
<1>14. r = Add(s, "?") => Content(r) = Append(c, "?")
  BY <1>5, <1>7
<1>15. r = Escape(s) \/ r = EndWord(s) => Content(r) = c
  BY <1>9, <1>11
<1>16. \A quote \in Quotes : r = Quote(s, quote) => Content(r) = c
  BY <1>10
<1>17. Content(r) \in Texts
  BY <1>3, <1>5, <1>6, <1>13
<1> QED
  BY <1>3, <1>13, <1>14, <1>15, <1>16, <1>17 DEF c

\* The shell takes a text that has nothing it obeys as it is; of any other it loses a
\* character, or it puts another in its place.
LEMMA ShellLoses ==
    ASSUME NEW text \in Texts
    PROVE  LET s == Scanned(ShellChar, Scan, text) IN
           /\ s \in States /\ Content(s) \in Texts /\ (~s.open => s.word = <<>>)
           /\ ~Obeyed(text) => s.words = <<>> /\ s.word = text /\ (text # <<>> => s.open)
           /\ Obeyed(text) => Len(Content(s)) < Len(text) \/ Contains(Content(s), "?")
<1> DEFINE none == <<>>
           S(t) == Scanned(ShellChar, Scan, t)
           Plain(t, s) == /\ s.words = none /\ s.word = t /\ (t # none => s.open)
                          /\ s.quote = "none" /\ ~s.escaped
           Lost(t, s) == Len(Content(s)) < Len(t) \/ Contains(Content(s), "?")
           Right(t) == /\ S(t) \in States /\ (~S(t).open => S(t).word = none)
                       /\ ~Obeyed(t) => Plain(t, S(t))
                       /\ Obeyed(t) => Lost(t, S(t))
           good == {t \in Texts : Right(t)}
<1>0. none \in Texts /\ none \in Seq(Texts) /\ "?" \in Characters
  BY EmptySeq DEF Texts, Characters
<1>1. none \in good
  <2>1. S(none) = Scan
    BY ScannedEmpty
  <2>2. ~Obeyed(none)
    BY EmptyContains DEF Obeyed
  <2> HIDE DEF S
  <2> QED
    BY <1>0, <2>1, <2>2, ScanState
<1>4. \A t \in Texts, c \in Characters : S(Append(t, c)) = ShellChar[c][S(t)]
  BY EveryTextRead
<1> HIDE DEF S
<1>2. ASSUME NEW t \in Texts, NEW c \in Characters, t \in good PROVE Append(t, c) \in good
  <2> DEFINE longer == Append(t, c)
             s == S(t)
             r == S(longer)
             k == Content(s)
             l == Content(r)
  <2>1. Right(t)
    BY <1>2
  <2>2. longer \in Texts /\ Len(longer) = Len(t) + 1 /\ Len(t) \in Nat
    BY LongerText
  <2>3. Obeyed(longer) <=> Obeyed(t) \/ c \in Special \ {"%"}
    <3>1. \A char : Contains(longer, char) <=> Contains(t, char) \/ c = char
      BY LongerContains
    <3> QED
      BY <3>1 DEF Obeyed
  <2>4. s \in States /\ (~s.open => s.word = none) /\ r = ShellChar[c][s]
    BY <1>4, <2>1
  <2> HIDE DEF s, r, longer
  <2>5. /\ r \in States /\ (~r.open => r.word = none)
        /\ k \in Texts /\ l \in Texts
        /\ l = k \/ l = Append(k, c) \/ l = Append(k, "?")
        /\ r = Add(s, "?") => l = Append(k, "?")
        /\ r = Escape(s) \/ r = EndWord(s) => l = k
        /\ \A quote \in Quotes : r = Quote(s, quote) => l = k
    BY <2>4, ContentGrows
  <2>6. k = FlattenSeq(s.words) \o s.word
    BY DEF Content
  <2> HIDE DEF k, l
  <2>7. /\ Len(k) \in Nat /\ Len(Append(k, c)) = Len(k) + 1 /\ Len(Append(k, "?")) = Len(k) + 1
    BY <1>0, <2>5, LongerText
  <2>8. /\ Contains(k, "?") => Contains(Append(k, c), "?")
        /\ Contains(Append(k, "?"), "?")
    BY <1>0, <2>5, LongerContains
  <2>9. CASE Obeyed(t)
    <3>1. Len(k) < Len(t) \/ Contains(k, "?")
      BY <2>1, <2>9 DEF s, k
    <3>2. Len(l) <= Len(k) + 1
      BY <2>5, <2>7
    <3>3. Contains(k, "?") => Contains(l, "?")
      BY <2>5, <2>8
    <3>4. Len(l) \in Nat
      BY <2>5, <2>7
    <3>5. Len(l) < Len(longer) \/ Contains(l, "?")
      BY <2>2, <2>7, <3>1, <3>2, <3>3, <3>4
    <3> QED
      BY <2>2, <2>3, <2>5, <2>9, <3>5 DEF longer, r, l
  <2>10. CASE ~Obeyed(t) /\ c \in Special \ {"%"}
    <3>1. s.words = none /\ s.word = t /\ s.quote = "none" /\ ~s.escaped
      BY <2>1, <2>10 DEF s
    <3>2. k = t
      BY <2>6, <3>1, FlattenEmpty, ConcatEmptySeq DEF Texts
    <3>3. c = "$" => r = Add(s, "?")
      BY <2>4, <3>1, ShellCases
    <3>4. c # "$" => \/ r = Escape(s) \/ r = EndWord(s)
                     \/ \E quote \in Quotes : r = Quote(s, quote)
      <4>1. c = "\\" => r = Escape(s)
        BY <2>4, <3>1, ShellCases
      <4>2. c = " " => r = EndWord(s)
        BY <2>4, <3>1, ShellCases
      <4>3. c \in {"'", "\""} => r = Quote(s, c)
        BY <2>4, <3>1, ShellCases
      <4>4. c \in {"'", "\""} => c \in Quotes
        BY DEF Quotes
      <4>5. c \in {" ", "'", "\"", "\\", "$"}
        BY <2>10 DEF Special
      <4> QED
        BY <4>1, <4>2, <4>3, <4>4, <4>5
    <3>5. l = k \/ l = Append(k, "?")
      BY <2>5, <3>3, <3>4
    <3>6. l = k => Len(l) < Len(longer)
      BY <2>2, <3>2
    <3>7. Len(l) < Len(longer) \/ Contains(l, "?")
      BY <2>8, <3>5, <3>6
    <3> QED
      BY <2>2, <2>3, <2>5, <2>10, <3>7 DEF longer, r, l
  <2>11. CASE ~Obeyed(t) /\ c \notin Special \ {"%"}
    <3>1. s.words = none /\ s.word = t /\ s.quote = "none" /\ ~s.escaped
      BY <2>1, <2>11 DEF s
    <3>2. c \in {"x", "?", "%"}
      BY <2>11 DEF Characters, Special
    <3>3. r = Add(s, c)
      BY <2>4, <3>1, <3>2, ShellCases
    <3>4. /\ Add(s, c).word = Append(s.word, c) /\ Add(s, c).open /\ ~Add(s, c).escaped
          /\ Add(s, c).words = s.words /\ Add(s, c).quote = s.quote
      BY <2>4, AddState
    <3>5. Plain(longer, r)
      BY <3>1, <3>3, <3>4 DEF longer
    <3> QED
      BY <2>2, <2>3, <2>5, <2>11, <3>5 DEF longer, r
  <2> QED
    BY <2>9, <2>10, <2>11
<1> HIDE DEF good
<1>3. Texts \subseteq good
  BY <1>0, <1>1, <1>2, EveryText DEF none
<1>5. Right(text)
  BY <1>3 DEF good
<1>6. Content(S(text)) \in Texts
  <2> DEFINE s == S(text)
  <2>1. s \in States
    BY <1>5
  <2>2. s.words \in Seq(Texts) /\ s.word \in Texts
    BY <2>1 DEF States
  <2> HIDE DEF s
  <2>3. FlattenSeq(s.words) \in Texts
    BY <2>2, FlattenType DEF Texts
  <2>4. Content(s) \in Texts
    BY <2>2, <2>3, ConcatRead DEF Content
  <2> QED
    BY <2>4 DEF s
<1> QED
  BY <1>5, <1>6 DEF S

\* A path as an application may declare it.
Path(t) == t # <<>> /\ Head(t) # " " /\ ~Contains(t, "?")

\* A text without quotes, split and joined and read as a command: it arrives if there is nothing
\* in it that the shell obeys, and only then.
LEMMA OpenRCCommandRead ==
    ASSUME NEW t \in Texts, Path(t)
    PROVE  OpenRCCommandWords(shellQuote(t)) = <<t>> <=> ~Obeyed(t)
<1> DEFINE none == <<>>
           j == Joined(Fields(t))
           s == Scanned(ShellChar, Scan, j)
           result == EndWord(s).words
           n == Len(t)
           m == Len(j)
           q == Len(Squeezed(t))
<1>1. OpenRCCommandWords(shellQuote(t)) = result
  <2>1. ShellWords(shellQuote(t)) = <<t>> /\ FlattenSeq(<<t>>) = t
    BY ShellWordsQuoted, FlattenOne
  <2> QED
    BY <2>1 DEF OpenRCCommandWords, ShellWords
<1>16. t # none /\ Head(t) # " " /\ ~Contains(t, "?")
  BY DEF Path
<1>2. /\ j \in Texts
      /\ Last(t) = " " => Squeezed(t) = Append(j, " ")
      /\ Last(t) # " " => Squeezed(t) = j
  BY <1>16, FieldsJoined
<1>3. /\ ~TwoBlanks(t) => Squeezed(t) = t
      /\ n \in Nat /\ q \in Nat
      /\ Squeezed(t) = t \/ q < n
  BY SqueezedSame
<1>14. n \in Nat /\ q \in Nat
  BY <1>3
<1>15. Squeezed(t) = t \/ q < n
  BY <1>3
<1>11. m \in Nat
  BY <1>2, LenProperties DEF Texts
<1>12. Last(t) = " " => q = m + 1
  <2> SUFFICES ASSUME Last(t) = " " PROVE q = m + 1
    OBVIOUS
  <2> DEFINE blank == " "
             a == Append(j, blank)
  <2>1. j \in Texts /\ blank \in Characters
    BY <1>2 DEF Characters, Special
  <2>2. Squeezed(t) = a
    BY <1>2
  <2> HIDE DEF blank, j
  <2>3. Len(a) = m + 1
    BY <2>1, LongerText
  <2> QED
    BY <2>2, <2>3
<1>13. Squeezed(t) = t => q = n
  OBVIOUS
<1>4. j = t \/ m < n
  <2> HIDE DEF j, m, n, q
  <2>1. CASE Last(t) = " "
    <3>1. q = m + 1
      BY <1>12, <2>1
    <3>2. q <= n
      BY <1>13, <1>14, <1>15
    <3>3. m < n
      BY <1>11, <1>14, <3>1, <3>2
    <3> QED
      BY <3>3
  <2>2. CASE Last(t) # " "
    <3>1. Squeezed(t) = j
      BY <1>2, <2>2
    <3>2. Squeezed(t) = j => q = m
      BY DEF q, m
    <3> QED
      BY <1>3, <3>1, <3>2
  <2> QED
    BY <2>1, <2>2
<1> HIDE DEF j
<1>5. /\ s \in States /\ Content(s) \in Texts /\ (~s.open => s.word = none)
      /\ ~Obeyed(j) => s.words = none /\ s.word = j /\ (j # none => s.open)
      /\ Obeyed(j) => Len(Content(s)) < Len(j) \/ Contains(Content(s), "?")
  BY <1>2, ShellLoses
<1> HIDE DEF s
<1>6. s.words \in Seq(Texts) /\ s.word \in Texts
  BY <1>5 DEF States
<1>7. /\ s.open => result = Append(s.words, s.word)
      /\ ~s.open => result = s.words
  BY <1>5, EndWordState
<1>8. FlattenSeq(result) = Content(s)
  <2>1. CASE s.open
    <3>1. FlattenSeq(Append(s.words, s.word)) = FlattenSeq(s.words) \o s.word
      BY <1>6, FlattenAppend DEF Texts
    <3> QED
      BY <1>7, <2>1, <3>1 DEF Content
  <2>2. CASE ~s.open
    <3>1. FlattenSeq(s.words) \in Texts
      BY <1>6, FlattenType DEF Texts
    <3>2. FlattenSeq(s.words) \o none = FlattenSeq(s.words)
      BY <3>1, ConcatEmptySeq DEF Texts
    <3> QED
      BY <1>5, <1>7, <2>2, <3>2 DEF Content
  <2> QED
    BY <2>1, <2>2
<1>9. CASE ~Obeyed(t)
  <2>1. ~Contains(t, " ")
    <3>1. " " \in Special \ {"%"}
      BY DEF Special
    <3> QED
      BY <1>9, <3>1 DEF Obeyed
  <2>2. Len(t) # 0
    BY <1>16, EmptySeq DEF Texts
  <2>8. n # 0
    BY <2>2
  <2>9. \A i \in 1 .. n : t[i] # " "
    BY <2>1 DEF Contains
  <2>3. ~TwoBlanks(t)
    <3>1. \A i \in 2 .. n : i \in 1 .. n
      <4> HIDE DEF n
      <4> QED
        BY <1>14
    <3> QED
      BY <2>9, <3>1 DEF TwoBlanks
  <2>4. Last(t) # " "
    <3>1. n \in 1 .. n
      <4> HIDE DEF n
      <4> QED
        BY <1>14, <2>8
    <3> QED
      BY <2>9, <3>1 DEF Last
  <2>5. j = t
    BY <1>2, <1>3, <2>3, <2>4
  <2>6. s.words = none /\ s.word = t /\ s.open
    BY <1>5, <1>9, <1>16, <2>5
  <2>7. result = <<t>>
    <3>1. result = Append(none, t)
      BY <1>7, <2>6
    <3>2. Append(none, t) = <<t>>
      BY ListOfOne
    <3> QED
      BY <3>1, <3>2
  <2> QED
    BY <1>1, <1>9, <2>7
<1>10. CASE Obeyed(t)
  <2>1. ASSUME result = <<t>> PROVE FALSE
    <3>1. Content(s) = t
      BY <1>8, <2>1, FlattenOne
    <3>5. ~(n < n)
      <4> HIDE DEF n
      <4> QED
        BY <1>14
    <3>2. CASE j = t
      <4>1. Obeyed(j)
        BY <1>10, <3>2
      <4>2. Len(Content(s)) < Len(j) \/ Contains(Content(s), "?")
        BY <1>5, <4>1
      <4> QED
        BY <1>16, <3>1, <3>2, <3>5, <4>2
    <3>3. CASE m < n
      <4>2. CASE Obeyed(j)
        <5>1. Len(Content(s)) < Len(j) \/ Contains(Content(s), "?")
          BY <1>5, <4>2
        <5>2. n < m
          BY <1>16, <3>1, <5>1
        <5> HIDE DEF n, m
        <5> QED
          BY <1>11, <1>14, <3>3, <5>2
      <4>3. CASE ~Obeyed(j)
        <5>1. s.words = none /\ s.word = j
          BY <1>5, <4>3
        <5>2. Content(s) = j
          BY <1>2, <5>1, FlattenEmpty, ConcatEmptySeq DEF Content, Texts
        <5>3. n < n
          BY <3>1, <3>3, <5>2
        <5> QED
          BY <3>5, <5>3
      <4> QED
        BY <4>2, <4>3
    <3> QED
      BY <1>4, <3>2, <3>3
  <2> QED
    BY <1>1, <1>10, <2>1
<1> QED
  BY <1>9, <1>10

-----------------------------------------------------------------------------
(* From the application to its process                                     *)

\* What an application may declare is a text, and has no "?" in it.
LEMMA ValuesAreTexts == Values \subseteq Texts /\ \A t \in Values : ~Contains(t, "?")
<1> DEFINE plain == {"x"} \cup Special
<1>1. plain \subseteq Characters /\ "?" \notin plain
  BY DEF Characters, Special
<1>2. Values \subseteq Seq(plain)
  BY ValuesAssumption
<1> HIDE DEF plain
<1>3. Seq(plain) \subseteq Texts
  BY <1>1 DEF Texts
<1>4. ASSUME NEW t \in Seq(plain) PROVE ~Contains(t, "?")
  <2>1. \A i \in 1 .. Len(t) : t[i] \in plain
    BY LenProperties
  <2> QED
    BY <1>1, <2>1 DEF Contains
<1> QED
  BY <1>2, <1>3, <1>4

\* The directive is the rendering of what is declared, and what the manager makes of it the
\* reading of the directive.
RoundTrip ==
    /\ manager \in Managers /\ kind \in Kinds
    /\ declared \in Seq(Values) /\ declared # <<>>
    /\ kind # "arguments" => declared = <<declared[1]>> /\ declared[1] \in Values
    /\ kind \in {"command", "path"} => Declarable(kind, declared[1])
    /\ pc \in {"declared", "defined", "read"}
    /\ pc \in {"defined", "read"} => line = Rendering
    /\ pc = "read" => got = IF manager = "systemd" THEN SystemdReading ELSE OpenRCReading

\* RoundTrip holds at first.
LEMMA RoundTripInit == Init => RoundTrip
<1> SUFFICES ASSUME Init PROVE RoundTrip
  OBVIOUS
<1>1. PICK n \in (IF kind = "arguments" THEN 1 .. MaxWords ELSE {1}) : declared \in [1 .. n -> Values]
  BY DEF Init
<1>2. n \in Nat /\ n # 0
  BY <1>1, MaxWordsAssumption
<1>3. declared \in Seq(Values) /\ Len(declared) = n /\ DOMAIN declared = 1 .. n
  BY <1>1, <1>2
<1>4. declared # <<>>
  BY <1>2, <1>3, EmptySeq
<1>5. ASSUME kind # "arguments" PROVE declared = <<declared[1]>> /\ declared[1] \in Values
  <2>1. n = 1
    BY <1>1, <1>5
  <2>2. declared \in [1 .. 1 -> Values]
    BY <1>1, <2>1
  <2>3. declared[1] \in Values
    BY <2>2
  <2>4. declared = <<declared[1]>>
    BY <2>2
  <2> QED
    BY <2>3, <2>4
<1>6. 1 \in DOMAIN declared
  BY <1>2, <1>3
<1>7. Declarable(kind, declared[1])
  BY <1>6 DEF Init
<1>8. manager \in Managers /\ kind \in Kinds /\ pc = "declared"
  BY DEF Init
<1> QED
  BY <1>3, <1>4, <1>5, <1>7, <1>8 DEF RoundTrip

\* Every step keeps RoundTrip: the directive is rendered once, and read once.
LEMMA RoundTripStep == RoundTrip /\ [Next]_vars => RoundTrip'
<1> SUFFICES ASSUME RoundTrip, [Next]_vars PROVE RoundTrip'
  OBVIOUS
<1>1. CASE Define
  <2>1. pc' = "defined" /\ line' = Rendering /\ manager' = manager /\ kind' = kind /\ declared' = declared
    BY <1>1 DEF Define
  <2>2. Rendering' = Rendering
    BY <2>1 DEF Rendering, SystemdLine, OpenRCLine
  <2> QED
    BY <2>1, <2>2 DEF RoundTrip
<1>2. CASE Read
  <2>1. /\ pc = "defined" /\ pc' = "read"
        /\ manager' = manager /\ kind' = kind /\ declared' = declared /\ line' = line
        /\ got' = IF manager = "systemd" THEN SystemdReading ELSE OpenRCReading
    BY <1>2 DEF Read
  <2>2. Rendering' = Rendering /\ SystemdReading' = SystemdReading /\ OpenRCReading' = OpenRCReading
    BY <2>1 DEF Rendering, SystemdLine, OpenRCLine, SystemdReading, OpenRCReading
  <2> QED
    BY <2>1, <2>2 DEF RoundTrip
<1>3. CASE UNCHANGED vars
  <2>1. /\ pc' = pc /\ manager' = manager /\ kind' = kind /\ declared' = declared
        /\ line' = line /\ got' = got
    BY <1>3 DEF vars
  <2>2. Rendering' = Rendering /\ SystemdReading' = SystemdReading /\ OpenRCReading' = OpenRCReading
    BY <2>1 DEF Rendering, SystemdLine, OpenRCLine, SystemdReading, OpenRCReading
  <2> QED
    BY <2>1, <2>2 DEF RoundTrip
<1> QED
  BY <1>1, <1>2, <1>3 DEF Next

\* What is read in each directive, against what was declared.
LEMMA RoundTripArrives == RoundTrip => ArrivesAsDeclared
<1> SUFFICES ASSUME RoundTrip, pc = "read"
             PROVE  got = declared <=> ~DollarDoubled /\ ~EndsMisread /\ ~ReadTwice /\ ~BlanksJoined
  BY DEF ArrivesAsDeclared
<1> DEFINE t == declared[1]
<1>1. /\ manager = "systemd" \/ manager = "openrc"
      /\ \/ kind = "arguments" \/ kind = "command" \/ kind = "environment"
         \/ kind = "path" \/ kind = "text"
      /\ line = Rendering
      /\ got = IF manager = "systemd" THEN SystemdReading ELSE OpenRCReading
  BY DEF RoundTrip, Managers, Kinds
<1>2. declared \in Seq(Texts) /\ declared # <<>>
  <2>1. declared \in Seq(Values)
    BY DEF RoundTrip
  <2>2. Values \subseteq Texts
    BY ValuesAreTexts
  <2>3. declared \in Seq(Texts)
    BY <2>1, <2>2
  <2> QED
    BY <2>3 DEF RoundTrip
<1>3. kind # "arguments" => declared = <<t>> /\ t \in Texts /\ ~Contains(t, "?")
  BY ValuesAreTexts DEF RoundTrip
<1>4. kind \in {"command", "path"} => Path(t)
  <2> SUFFICES ASSUME kind \in {"command", "path"} PROVE Path(t)
    OBVIOUS
  <2>1. Declarable(kind, t) /\ ~Contains(t, "?")
    BY <1>3 DEF RoundTrip
  <2> QED
    BY <2>1 DEF Declarable, Path
<1>5. CASE manager = "systemd"
  <2>0. ~ReadTwice /\ ~BlanksJoined /\ got = SystemdReading /\ line = SystemdLine
    BY <1>1, <1>5 DEF ReadTwice, BlanksJoined, Rendering
  <2>1. CASE kind = "arguments"
    <3>1. got = SystemdArguments(ExecStart(declared))
      BY <2>0, <2>1 DEF SystemdReading, SystemdLine
    <3>2. got = declared
      BY <1>2, <3>1, SystemdArgumentsArrive
    <3> QED
      BY <2>0, <2>1, <3>2 DEF DollarDoubled, EndsMisread
  <2>2. CASE kind \in {"command", "environment"}
    <3>1. line = systemdCommandArg(t)
      BY <2>0, <2>2 DEF SystemdLine
    <3>2. got = SystemdEnvironment(line)
      BY <2>0, <2>2 DEF SystemdReading, SystemdCommand
    <3>3. declared = <<t>> /\ t \in Texts
      BY <1>3, <2>2
    <3>4. got = <<Doubled(t, "$")>>
      BY <3>1, <3>2, <3>3, SystemdEnvironmentRead
    <3>5. Doubled(t, "$") = t <=> ~Contains(t, "$")
      <4> DEFINE dollar == "$"
      <4>1. dollar \in Characters /\ t \in Texts
        BY <3>3 DEF Characters, Special
      <4> HIDE DEF dollar, t
      <4>2. /\ Contains(t, dollar) => Doubled(t, dollar) # t
            /\ ~Contains(t, dollar) => Doubled(t, dollar) = t
        BY <4>1, DoubledSame
      <4> QED
        BY <4>2 DEF dollar
    <3> DEFINE d == Doubled(t, "$")
    <3>6. got = declared <=> d = t
      <4> HIDE DEF d, t
      <4>1. <<d>> = <<t>> <=> d = t
        OBVIOUS
      <4> QED
        BY <3>3, <3>4, <4>1 DEF d
    <3>7. ~EndsMisread /\ (DollarDoubled <=> Contains(t, "$"))
      BY <1>5, <2>2 DEF EndsMisread, DollarDoubled
    <3> QED
      BY <2>0, <3>5, <3>6, <3>7
  <2>3. CASE kind \in {"path", "text"}
    <3>1. line = systemdText(t)
      BY <2>0, <2>3 DEF SystemdLine
    <3>2. got = SystemdValue(systemdText(t))
      BY <2>0, <2>3, <3>1 DEF SystemdReading
    <3>3. declared = <<t>> /\ t \in Texts
      BY <1>3, <2>3
    <3>4. got = declared <=> ~(Continued(t) \/ Blank(t))
      BY <3>2, <3>3, SystemdValueRead
    <3>5. ~DollarDoubled /\ (EndsMisread <=> Continued(t) \/ Blank(t))
      BY <1>5, <2>3 DEF EndsMisread, DollarDoubled
    <3> QED
      BY <2>0, <3>4, <3>5
  <2> QED
    BY <1>1, <2>1, <2>2, <2>3
<1>6. CASE manager = "openrc"
  <2>0. ~DollarDoubled /\ ~EndsMisread /\ got = OpenRCReading /\ line = OpenRCLine
    BY <1>1, <1>6 DEF DollarDoubled, EndsMisread, Rendering
  <2>1. CASE kind = "arguments"
    <3> DEFINE squeezed == [i \in DOMAIN declared |-> Squeezed(declared[i])]
    <3>1. got = OpenRCCommandWords(CommandArgs(declared))
      BY <2>0, <2>1 DEF OpenRCReading, OpenRCLine
    <3>2. got = squeezed
      BY <1>2, <3>1, OpenRCArgumentsRead
    <3>3. BlanksJoined <=> \E i \in DOMAIN declared : TwoBlanks(declared[i])
      BY <1>6, <2>1 DEF BlanksJoined, TwoBlanks
    <3>4. \A i \in DOMAIN declared : /\ declared[i] \in Texts
                                     /\ TwoBlanks(declared[i]) <=> squeezed[i] # declared[i]
      <4>1. \A i \in DOMAIN declared : declared[i] \in Texts
        BY <1>2, LenProperties
      <4>2. \A u \in Texts : TwoBlanks(u) <=> Squeezed(u) # u
        BY SqueezedSame
      <4> QED
        BY <4>1, <4>2
    <3>5. declared = [i \in DOMAIN declared |-> declared[i]]
      BY <1>2, LenProperties
    <3>6. squeezed = declared <=> \A i \in DOMAIN declared : squeezed[i] = declared[i]
      BY <3>5
    <3>7. ~ReadTwice
      BY <2>1 DEF ReadTwice
    <3> QED
      BY <2>0, <3>2, <3>3, <3>4, <3>6, <3>7
  <2>2. CASE kind \in {"command", "path"}
    <3>1. got = OpenRCCommandWords(shellQuote(t))
      BY <2>0, <2>2 DEF OpenRCReading, OpenRCLine
    <3>2. declared = <<t>> /\ t \in Texts /\ Path(t)
      BY <1>3, <1>4, <2>2
    <3>3. got = declared <=> ~Obeyed(t)
      BY <3>1, <3>2, OpenRCCommandRead
    <3>4. ~BlanksJoined /\ (ReadTwice <=> Obeyed(t))
      BY <1>6, <2>2 DEF BlanksJoined, ReadTwice, Obeyed
    <3> QED
      BY <2>0, <3>3, <3>4
  <2>3. CASE kind \in {"environment", "text"}
    <3>1. got = ShellWords(shellQuote(t))
      BY <2>0, <2>3 DEF OpenRCReading, OpenRCLine
    <3>2. declared = <<t>> /\ t \in Texts
      BY <1>3, <2>3
    <3>3. got = declared
      BY <3>1, <3>2, ShellWordsQuoted
    <3>4. ~BlanksJoined /\ ~ReadTwice
      BY <2>3 DEF BlanksJoined, ReadTwice
    <3> QED
      BY <2>0, <3>3, <3>4
  <2> QED
    BY <1>1, <2>1, <2>2, <2>3
<1> QED
  BY <1>1, <1>5, <1>6

\* renderSystemdUnit and renderOpenRCScript: for any texts and any number of arguments, the
\* process gets what the application declares if and only if none of the four exceptions applies.
THEOREM DeclaredArrives == Spec => []ArrivesAsDeclared
<1>1. Init => RoundTrip
  BY RoundTripInit
<1>2. RoundTrip /\ [Next]_vars => RoundTrip'
  BY RoundTripStep
<1>3. RoundTrip => ArrivesAsDeclared
  BY RoundTripArrives
<1> QED
  BY <1>1, <1>2, <1>3, PTL DEF Spec

=============================================================================
