--------------------------- MODULE McpRouterProofs --------------------------
(***************************************************************************)
(* What is proved of McpRouter.  The substitution is defined by recursion  *)
(* over a text, or over the arguments; its properties are shown by         *)
(* induction over the set of the lengths for which they hold (Inductive).  *)
(*                                                                         *)
(* A scan of a text reads its rest as it would read it alone (ScansAgree), *)
(* so AtOnce is known by its steps: AtOnceKeeps, AtOncePuts and, for what  *)
(* opens no brace, AtOncePasses.  From these, OneMore: one argument filled *)
(* in where others are already is as if it had been among them.            *)
(***************************************************************************)
EXTENDS McpRouter, SequenceTheorems, WellFoundedInduction, TLAPS

\* Induction, for a property given as the set of the numbers that have it.
LEMMA Inductive ==
    ASSUME NEW S, 0 \in S, \A k \in Nat : k \in S => k + 1 \in S
    PROVE  Nat \subseteq S
<1> SUFFICES ASSUME Nat \ S # {} PROVE FALSE
  OBVIOUS
<1> DEFINE R == OpToRel(<, Nat)
<1>1. IsWellFoundedOn(R, Nat)
  BY NatLessThanWellFounded
<1> HIDE DEF R
<1>2. PICK x \in Nat \ S : \A y \in Nat \ S : ~(<<y, x>> \in R)
  BY <1>1, WFMin
<1> USE DEF R
<1>3. \A y \in Nat \ S : ~(y < x)
  BY <1>2 DEF OpToRel
<1>4. x # 0 /\ x - 1 \in Nat /\ x - 1 < x /\ x - 1 + 1 = x
  OBVIOUS
<1>5. x - 1 \in S
  BY <1>3, <1>4
<1> QED
  BY <1>4, <1>5

\* The function that Scan reads its result from.
From(n, out, step) ==
    CHOOSE f : f = [i \in 1 .. n + 1 |-> IF i > n THEN <<>> ELSE out[i] \o f[i + step[i]]]

LEMMA ScanIsFrom == \A n, out, step : Scan(n, out, step) = From(n, out, step)[1]
  BY DEF Scan, From

\* A scan: from the places m to n + 1 the function has what the places after have.
Scans(f, m, n, out, step) ==
    \A i \in m .. n + 1 : f[i] = IF i > n THEN <<>> ELSE out[i] \o f[i + step[i]]

\* The steps of a scan go on, and not beyond the end.
Steps(n, out, step, T) ==
    /\ n \in Nat /\ out \in [1 .. n -> Seq(T)] /\ step \in [1 .. n -> Nat \ {0}]
    /\ \A i \in 1 .. n : i + step[i] <= n + 1

\* There is a function as the recursion of Scan defines it.
LEMMA ScanExists ==
    ASSUME NEW T, NEW n, NEW out, NEW step, Steps(n, out, step, T)
    PROVE  \E f \in [1 .. n + 1 -> Seq(T)] : Scans(f, 1, n, out, step)
<1> USE DEF Steps
<1> DEFINE S == {k \in Nat : k <= n =>
                    \E g \in [n + 1 - k .. n + 1 -> Seq(T)] : Scans(g, n + 1 - k, n, out, step)}
<1>1. 0 \in S
  <2> DEFINE g == [i \in n + 1 - 0 .. n + 1 |-> <<>>]
  <2>1. g \in [n + 1 - 0 .. n + 1 -> Seq(T)]
    BY EmptySeq
  <2>2. \A i \in n + 1 - 0 .. n + 1 : i > n /\ g[i] = <<>>
    OBVIOUS
  <2>3. Scans(g, n + 1 - 0, n, out, step)
    BY <2>2 DEF Scans
  <2> QED
    BY <2>1, <2>3
<1>2. ASSUME NEW k \in Nat, k \in S
      PROVE  k + 1 \in S
  <2> SUFFICES ASSUME k + 1 <= n
               PROVE  \E g \in [n + 1 - (k + 1) .. n + 1 -> Seq(T)] :
                        Scans(g, n + 1 - (k + 1), n, out, step)
    OBVIOUS
  <2> DEFINE m == n - k
  <2>1. m \in 1 .. n /\ m = n + 1 - (k + 1) /\ m + 1 = n + 1 - k /\ k <= n
    OBVIOUS
  <2>2. PICK g \in [m + 1 .. n + 1 -> Seq(T)] : Scans(g, m + 1, n, out, step)
    BY <1>2, <2>1
  <2>3. m + step[m] \in m + 1 .. n + 1 /\ out[m] \in Seq(T)
    BY <2>1
  <2> HIDE DEF m
  <2>4. out[m] \o g[m + step[m]] \in Seq(T)
    BY <2>2, <2>3, ConcatProperties
  <2> DEFINE h == [i \in m .. n + 1 |-> IF i = m THEN out[m] \o g[m + step[m]] ELSE g[i]]
  <2>5. h \in [m .. n + 1 -> Seq(T)]
    <3> SUFFICES ASSUME NEW i \in m .. n + 1
                 PROVE  (IF i = m THEN out[m] \o g[m + step[m]] ELSE g[i]) \in Seq(T)
      OBVIOUS
    <3>1. CASE i = m
      BY <2>4, <3>1
    <3>2. CASE i # m
      <4>1. i \in m + 1 .. n + 1
        BY <2>1, <3>2
      <4> QED
        BY <2>2, <3>2, <4>1
    <3> QED
      BY <3>1, <3>2
  <2>6. ASSUME NEW i \in m .. n + 1
        PROVE  h[i] = IF i > n THEN <<>> ELSE out[i] \o h[i + step[i]]
    <3>1. CASE i = m
      <4>1. ~(m > n) /\ m \in m .. n + 1
        BY <2>1
      <4>2. ~(i > n) /\ h[i] = out[i] \o g[i + step[i]] /\ i + step[i] \in m + 1 .. n + 1
        BY <2>3, <3>1, <4>1
      <4> DEFINE j == i + step[i]
      <4>3. h[j] = g[j]
        <5>1. j \in m .. n + 1 /\ j # m
          BY <2>1, <4>2
        <5> HIDE DEF j
        <5> QED
          BY <5>1
      <4> QED
        BY <4>2, <4>3
    <3>2. CASE i # m
      <4>1. i \in m + 1 .. n + 1 /\ h[i] = g[i]
        BY <2>1, <3>2
      <4>2. g[i] = IF i > n THEN <<>> ELSE out[i] \o g[i + step[i]]
        BY <2>2, <4>1 DEF Scans
      <4>3. CASE i > n
        BY <4>1, <4>2, <4>3
      <4>4. CASE ~(i > n)
        <5>1. i \in 1 .. n
          BY <2>1, <4>1, <4>4
        <5>2. step[i] \in Nat \ {0} /\ i + step[i] <= n + 1
          BY <5>1
        <5>3. i + step[i] \in m + 1 .. n + 1
          <6> HIDE DEF Steps
          <6> QED
            BY <2>1, <4>1, <5>1, <5>2
        <5> DEFINE j == i + step[i]
        <5>4. h[j] = g[j]
          <6>1. j \in m .. n + 1 /\ j # m
            BY <2>1, <5>3
          <6> HIDE DEF j
          <6> QED
            BY <6>1
        <5> QED
          BY <4>1, <4>2, <4>4, <5>4
      <4> QED
        BY <4>3, <4>4
    <3> QED
      BY <3>1, <3>2
  <2> QED
    BY <2>1, <2>5, <2>6 DEF Scans
<1>3. n \in S
  <2> HIDE DEF S
  <2> QED
    BY <1>1, <1>2, Inductive
<1> QED
  BY <1>3

\* A scan of what follows the first d tokens finds what the scan of the whole finds
\* there, and there is one result only.
LEMMA ScansAgree ==
    ASSUME NEW T, NEW n, NEW out, NEW step, NEW f,
           NEW m \in Nat, NEW d \in Nat, NEW out2, NEW step2, NEW g,
           Steps(n, out, step, T), Scans(f, 1, n, out, step),
           m + d = n, Scans(g, 1, m, out2, step2),
           \A i \in 1 .. m : out2[i] = out[i + d] /\ step2[i] = step[i + d]
    PROVE  \A i \in 1 .. m + 1 : g[i] = f[i + d]
<1> USE DEF Steps
<1> DEFINE S == {k \in Nat : \A i \in 1 .. m + 1 : i + k >= m + 1 => g[i] = f[i + d]}
<1>1. 0 \in S
  <2> SUFFICES ASSUME NEW i \in 1 .. m + 1, i >= m + 1
               PROVE  g[i] = f[i + d]
    OBVIOUS
  <2>1. i > m /\ i + d > n /\ i + d \in 1 .. n + 1
    OBVIOUS
  <2>2. g[i] = <<>> /\ f[i + d] = <<>>
    BY <2>1 DEF Scans
  <2> QED
    BY <2>2
<1>2. ASSUME NEW k \in Nat, k \in S
      PROVE  k + 1 \in S
  <2> SUFFICES ASSUME NEW i \in 1 .. m + 1, i + (k + 1) >= m + 1
               PROVE  g[i] = f[i + d]
    OBVIOUS
  <2>1. CASE i > m
    <3>1. i + k >= m + 1
      BY <2>1
    <3> QED
      BY <1>2, <3>1
  <2>2. CASE ~(i > m)
    <3>1. i \in 1 .. m /\ i + d \in 1 .. n /\ ~(i + d > n) /\ i + d \in 1 .. n + 1
      BY <2>2
    <3>2. step[i + d] \in Nat \ {0} /\ i + d + step[i + d] <= n + 1
      BY <3>1
    <3>3. g[i] = out2[i] \o g[i + step2[i]] /\ f[i + d] = out[i + d] \o f[i + d + step[i + d]]
      BY <2>2, <3>1 DEF Scans
    <3>4. step2[i] = step[i + d] /\ out2[i] = out[i + d]
      BY <3>1
    <3> DEFINE j == i + step2[i]
    <3>5. j \in 1 .. m + 1 /\ j + k >= m + 1 /\ j + d = i + d + step[i + d]
      <4> HIDE DEF Steps
      <4> QED
        BY <3>1, <3>2, <3>4
    <3>6. g[j] = f[j + d]
      <4> HIDE DEF j
      <4> QED
        BY <1>2, <3>5
    <3> QED
      BY <3>3, <3>4, <3>5, <3>6
  <2> QED
    BY <2>1, <2>2
<1>3. m \in S
  <2> HIDE DEF S
  <2> QED
    BY <1>1, <1>2, Inductive
<1>4. \A i \in 1 .. m + 1 : i + m >= m + 1
  OBVIOUS
<1> QED
  BY <1>3, <1>4

\* From is that function.
LEMMA FromFacts ==
    ASSUME NEW T, NEW n, NEW out, NEW step, Steps(n, out, step, T)
    PROVE  /\ From(n, out, step) \in [1 .. n + 1 -> Seq(T)]
           /\ Scans(From(n, out, step), 1, n, out, step)
<1>1. PICK f \in [1 .. n + 1 -> Seq(T)] : Scans(f, 1, n, out, step)
  BY ScanExists
<1>2. f = [i \in 1 .. n + 1 |-> IF i > n THEN <<>> ELSE out[i] \o f[i + step[i]]]
  BY <1>1 DEF Scans
<1> DEFINE g == From(n, out, step)
<1>3. g = [i \in 1 .. n + 1 |-> IF i > n THEN <<>> ELSE out[i] \o g[i + step[i]]]
  BY <1>2 DEF From
<1> HIDE DEF g
<1>4. Scans(g, 1, n, out, step)
  BY <1>3 DEF Scans
<1>5. 0 \in Nat /\ n + 0 = n /\ n \in Nat /\ \A i \in 1 .. n + 1 : i + 0 = i
  BY DEF Steps
<1>6. \A i \in 1 .. n + 1 : g[i] = f[i]
  <2>1. \A i \in 1 .. n : out[i] = out[i + 0] /\ step[i] = step[i + 0]
    BY <1>5
  <2>2. \A i \in 1 .. n + 1 : g[i] = f[i + 0]
    <3> DEFINE m == n
               d == 0
    <3>1. m \in Nat /\ d \in Nat /\ m + d = n
      BY <1>5
    <3>2. Scans(g, 1, m, out, step)
      BY <1>4
    <3>3. \A i \in 1 .. m : out[i] = out[i + d] /\ step[i] = step[i + d]
      BY <2>1
    <3>4. Scans(f, 1, n, out, step)
      BY <1>1
    <3> HIDE DEF m, d
    <3>5. \A i \in 1 .. m + 1 : g[i] = f[i + d]
      BY <3>1, <3>2, <3>3, <3>4, ScansAgree
    <3> QED
      BY <3>5 DEF m, d
  <2> QED
    BY <1>5, <2>2
<1>7. g = f
  BY <1>1, <1>3, <1>6
<1> QED
  BY <1>1, <1>7 DEF g

-----------------------------------------------------------------------------
(* Texts. *)

\* Concatenation is associative.
LEMMA Joined ==
    \A s, t, u \in Seq(Tokens) : (s \o t) \o u = s \o (t \o u)
  BY ConcatAssociative

\* A text that is not empty is its first token and the rest.
LEMMA FirstAndRest ==
    ASSUME NEW T, NEW x \in Seq(T), NEW n \in Nat, Len(x) = n + 1
    PROVE  /\ x[1] \in T
           /\ \E w \in Seq(T) : x = <<x[1]>> \o w /\ Len(w) = n
<1> DEFINE w == SubSeq(x, 2, Len(x))
<1>1. Len(x) \in Nat /\ 1 \in 1 .. Len(x) /\ Len(x) \in 1 .. Len(x) /\ 2 \in Int /\ Len(x) \in Int
  OBVIOUS
<1>2. \A i \in 1 .. Len(x) : x[i] \in T
  BY ElementOfSeq
<1>3. \A i \in 2 .. Len(x) : x[i] \in T
  BY <1>1, <1>2
<1>4. w \in Seq(T) /\ Len(w) = IF 2 <= Len(x) THEN Len(x) - 2 + 1 ELSE 0
  BY <1>1, <1>3, SubSeqProperties
<1>5. x = <<x[1]>> \o w
  <2>1. SubSeq(x, 1, Len(x)) = <<x[1]>> \o SubSeq(x, 1 + 1, Len(x))
    BY <1>1, SubSeqRecursiveFirst
  <2>2. SubSeq(x, 1, Len(x)) = x
    BY SubSeqFull
  <2> QED
    BY <2>1, <2>2
<1> HIDE DEF w
<1>6. Len(w) = n
  BY <1>1, <1>4
<1> QED
  BY <1>1, <1>2, <1>4, <1>5, <1>6

\* OccursAt, token by token.
LEMMA OccursPoints ==
    ASSUME NEW T, NEW q \in Seq(T), NEW x \in Seq(T), NEW i \in Nat, i >= 1
    PROVE  OccursAt(q, x, i) <=> /\ i + Len(q) - 1 <= Len(x)
                                 /\ \A j \in 1 .. Len(q) : x[i + j - 1] = q[j]
<1>1. Len(q) \in Nat /\ Len(x) \in Nat
  BY LenProperties
<1> SUFFICES ASSUME i + Len(q) - 1 <= Len(x)
             PROVE  SubSeq(x, i, i + Len(q) - 1) = q
                        <=> \A j \in 1 .. Len(q) : x[i + j - 1] = q[j]
  BY DEF OccursAt
<1> DEFINE n == i + Len(q) - 1
           y == SubSeq(x, i, n)
<1>2. i \in Int /\ n \in Int /\ n <= Len(x) /\ n - i + 1 = Len(q)
      /\ (IF i <= n THEN n - i + 1 ELSE 0) = Len(q)
  BY <1>1
<1>3. \A j \in i .. n : x[j] \in T
  <2> SUFFICES ASSUME NEW j \in i .. n PROVE x[j] \in T
    OBVIOUS
  <2>1. j \in 1 .. Len(x)
    BY <1>1, <1>2
  <2> QED
    BY <2>1, ElementOfSeq
<1>4. /\ y \in Seq(T) /\ Len(y) = IF i <= n THEN n - i + 1 ELSE 0
      /\ \A j \in 1 .. n - i + 1 : y[j] = x[i + j - 1]
  <2> HIDE DEF n
  <2> QED
    BY <1>2, <1>3, SubSeqProperties
<1> HIDE DEF n, y
<1>5. Len(y) = Len(q) /\ \A j \in 1 .. Len(q) : y[j] = x[i + j - 1]
  BY <1>2, <1>4
<1>6. (\A j \in 1 .. Len(q) : y[j] = q[j]) => y = q
  BY <1>4, <1>5, SeqEqual
<1> QED
  BY <1>5, <1>6 DEF n, y

\* What is found in a text is found behind what is put before it, and nothing else is.
LEMMA OccursBehind ==
    ASSUME NEW T, NEW q \in Seq(T), NEW p \in Seq(T), NEW w \in Seq(T), NEW i \in 1 .. Len(w)
    PROVE  OccursAt(q, p \o w, i + Len(p)) <=> OccursAt(q, w, i)
<1> DEFINE x == p \o w
           k == i + Len(p)
<1>1. Len(q) \in Nat /\ Len(p) \in Nat /\ Len(w) \in Nat /\ i \in Nat /\ i >= 1
  BY LenProperties
<1>2. /\ x \in Seq(T) /\ Len(x) = Len(p) + Len(w)
      /\ \A j \in 1 .. Len(p) + Len(w) : x[j] = IF j <= Len(p) THEN p[j] ELSE w[j - Len(p)]
  BY ConcatProperties
<1>3. OccursAt(q, w, i) <=> /\ i + Len(q) - 1 <= Len(w)
                            /\ \A j \in 1 .. Len(q) : w[i + j - 1] = q[j]
  BY <1>1, OccursPoints
<1>4. k \in Nat /\ k >= 1 /\ k = i + Len(p)
  BY <1>1
<1> HIDE DEF x, k
<1>5. OccursAt(q, x, k) <=> /\ k + Len(q) - 1 <= Len(x)
                            /\ \A j \in 1 .. Len(q) : x[k + j - 1] = q[j]
  <2>1. x \in Seq(T)
    BY <1>2
  <2>2. k \in Nat /\ k >= 1
    BY <1>4
  <2> QED
    BY <2>1, <2>2, OccursPoints
<1>6. k + Len(q) - 1 <= Len(x) <=> i + Len(q) - 1 <= Len(w)
  BY <1>1, <1>2, <1>4
<1>7. ASSUME i + Len(q) - 1 <= Len(w), NEW j \in 1 .. Len(q)
      PROVE  x[k + j - 1] = w[i + j - 1]
  <2> DEFINE l == k + j - 1
  <2>1. l \in 1 .. Len(p) + Len(w) /\ ~(l <= Len(p)) /\ l - Len(p) = i + j - 1
    BY <1>1, <1>4, <1>7
  <2> HIDE DEF l
  <2>2. x[l] = w[l - Len(p)]
    BY <1>2, <2>1
  <2> QED
    BY <2>1, <2>2 DEF l
<1> QED
  BY <1>3, <1>5, <1>6, <1>7 DEF x, k

\* What a text begins with occurs at its first place, and what occurs there it begins with.
LEMMA OccursFirst ==
    ASSUME NEW T, NEW q \in Seq(T)
    PROVE  /\ \A w \in Seq(T) : OccursAt(q, q \o w, 1)
           /\ \A x \in Seq(T) : Len(q) >= 1 /\ OccursAt(q, x, 1) => \E w \in Seq(T) : x = q \o w
<1>1. Len(q) \in Nat
  BY LenProperties
<1>2. ASSUME NEW w \in Seq(T)
      PROVE  OccursAt(q, q \o w, 1)
  <2> DEFINE x == q \o w
  <2>1. /\ x \in Seq(T) /\ Len(x) = Len(q) + Len(w) /\ Len(w) \in Nat
        /\ \A j \in 1 .. Len(q) + Len(w) : x[j] = IF j <= Len(q) THEN q[j] ELSE w[j - Len(q)]
    BY ConcatProperties
  <2> HIDE DEF x
  <2>2. 1 + Len(q) - 1 <= Len(x) /\ 1 \in Nat /\ 1 >= 1
    BY <1>1, <2>1
  <2>3. \A j \in 1 .. Len(q) : x[1 + j - 1] = q[j]
    <3> SUFFICES ASSUME NEW j \in 1 .. Len(q) PROVE x[1 + j - 1] = q[j]
      OBVIOUS
    <3>1. j \in 1 .. Len(q) + Len(w) /\ j <= Len(q) /\ 1 + j - 1 = j
      BY <1>1, <2>1
    <3> QED
      BY <2>1, <3>1
  <2>4. OccursAt(q, x, 1)
    BY <2>1, <2>2, <2>3, OccursPoints
  <2> QED
    BY <2>4 DEF x
<1>3. ASSUME NEW x \in Seq(T), Len(q) >= 1, OccursAt(q, x, 1)
      PROVE  \E w \in Seq(T) : x = q \o w
  <2> DEFINE l == Len(q)
             w == SubSeq(x, l + 1, Len(x))
  <2>1. l <= Len(x) /\ SubSeq(x, 1, l) = q /\ Len(x) \in Nat
    <3>1. 1 + Len(q) - 1 = l
      BY <1>1
    <3> HIDE DEF l
    <3> QED
      BY <1>3, <3>1 DEF OccursAt
  <2>2. l + 1 \in Int /\ Len(x) \in Int /\ \A j \in l + 1 .. Len(x) : x[j] \in T
    BY <1>1, <2>1, ElementOfSeq
  <2>3. w \in Seq(T)
    <3> HIDE DEF l
    <3> QED
      BY <2>2, SubSeqProperties
  <2>4. 1 \in 1 .. Len(x) + 1 /\ l \in 1 - 1 .. Len(x) /\ Len(x) \in l .. Len(x)
    BY <1>1, <2>1
  <2>5. SubSeq(x, 1, l) \o SubSeq(x, l + 1, Len(x)) = SubSeq(x, 1, Len(x))
    <3> HIDE DEF l
    <3> QED
      BY <2>4, ConcatAdjacentSubSeq
  <2>6. x = q \o w
    BY <2>1, <2>5, SubSeqFull
  <2> QED
    BY <2>3, <2>6
<1> QED
  BY <1>2, <1>3

-----------------------------------------------------------------------------
(* Filling in at once. *)

HereAt(text, args, i) == {a \in args : OccursAt(Placeholder(a.key), text, i)}
The(text, args, i) == CHOOSE a \in HereAt(text, args, i) : TRUE
OutOf(text, args) ==
    [i \in DOMAIN text |-> IF HereAt(text, args, i) = {} THEN <<text[i]>>
                           ELSE AsText(The(text, args, i).value)]
StepOf(text, args) ==
    [i \in DOMAIN text |-> IF HereAt(text, args, i) = {} THEN 1
                           ELSE Len(Placeholder(The(text, args, i).key))]

\* Keys and values are texts.
Fit(args) == \A a \in args : a.key \in Seq(Tokens) /\ AsText(a.value) \in Seq(Tokens)

LEMMA AtOnceIsScan ==
    \A text, args : AtOnce(text, args) = Scan(Len(text), OutOf(text, args), StepOf(text, args))
  BY DEF AtOnce, OutOf, StepOf, HereAt, The

\* To replace one placeholder is to fill in one argument.
LEMMA ReplaceIsAtOnce ==
    \A text, a : Replace(text, Placeholder(a.key), AsText(a.value)) = AtOnce(text, {a})
<1> SUFFICES ASSUME NEW text, NEW a
             PROVE  Replace(text, Placeholder(a.key), AsText(a.value)) = AtOnce(text, {a})
  OBVIOUS
<1> DEFINE q == Placeholder(a.key)
           v == AsText(a.value)
           out == [i \in DOMAIN text |-> IF OccursAt(q, text, i) THEN v ELSE <<text[i]>>]
           step == [i \in DOMAIN text |-> IF OccursAt(q, text, i) THEN Len(q) ELSE 1]
<1>1. ASSUME NEW i, OccursAt(q, text, i)
      PROVE  HereAt(text, {a}, i) # {} /\ The(text, {a}, i) = a
  <2>1. HereAt(text, {a}, i) = {a}
    BY <1>1 DEF HereAt
  <2> QED
    BY <2>1 DEF The
<1>2. ASSUME NEW i, ~OccursAt(q, text, i)
      PROVE  HereAt(text, {a}, i) = {}
  BY <1>2 DEF HereAt
<1>3. out = OutOf(text, {a})
  <2> SUFFICES ASSUME NEW i \in DOMAIN text
               PROVE  (IF OccursAt(q, text, i) THEN v ELSE <<text[i]>>)
                          = IF HereAt(text, {a}, i) = {} THEN <<text[i]>>
                            ELSE AsText(The(text, {a}, i).value)
    BY Zenon DEF OutOf
  <2> HIDE DEF q
  <2> QED
    BY <1>1, <1>2, Zenon
<1>4. step = StepOf(text, {a})
  <2> SUFFICES ASSUME NEW i \in DOMAIN text
               PROVE  (IF OccursAt(q, text, i) THEN Len(q) ELSE 1)
                          = IF HereAt(text, {a}, i) = {} THEN 1
                            ELSE Len(Placeholder(The(text, {a}, i).key))
    BY Zenon DEF StepOf
  <2>1. CASE OccursAt(q, text, i)
    <3>1. HereAt(text, {a}, i) # {} /\ The(text, {a}, i) = a
      BY <1>1, <2>1
    <3> QED
      BY <2>1, <3>1, Zenon
  <2>2. CASE ~OccursAt(q, text, i)
    <3> HIDE DEF q
    <3> QED
      BY <1>2, <2>2, Zenon
  <2> QED
    BY <2>1, <2>2
<1>5. Replace(text, q, v) = Scan(Len(text), out, step)
  BY DEF Replace
<1>6. AtOnce(text, {a}) = Scan(Len(text), OutOf(text, {a}), StepOf(text, {a}))
  BY AtOnceIsScan
<1> HIDE DEF out, step
<1> QED
  BY <1>3, <1>4, <1>5, <1>6

\* A placeholder is a text that an opening brace begins and a closing one ends.
LEMMA PlaceholderFacts ==
    ASSUME NEW k \in Seq(Tokens)
    PROVE  /\ Placeholder(k) \in Seq(Tokens) /\ Len(Placeholder(k)) = Len(k) + 2
           /\ Len(k) \in Nat
           /\ Placeholder(k)[1] = Opening /\ Placeholder(k)[Len(k) + 2] = Closing
           /\ \A j \in 1 .. Len(k) : Placeholder(k)[j + 1] = k[j]
           /\ \A w \in Seq(Tokens) :
                Placeholder(k) \o w = <<Opening>> \o (k \o (<<Closing>> \o w))
<1> DEFINE o == <<Opening>>
           c == <<Closing>>
<1>1. /\ o \in Seq(Tokens) /\ Len(o) = 1 /\ o[1] = Opening
      /\ c \in Seq(Tokens) /\ Len(c) = 1 /\ c[1] = Closing
  <2>1. Opening \in Tokens /\ Closing \in Tokens
    BY RouterAssumption DEF RouterAssumption, Braces
  <2> QED
    BY <2>1
<1> HIDE DEF o, c
<1>2. /\ o \o k \in Seq(Tokens) /\ Len(o \o k) = Len(o) + Len(k)
      /\ \A i \in 1 .. Len(o) + Len(k) : (o \o k)[i] = IF i <= Len(o) THEN o[i] ELSE k[i - Len(o)]
  BY <1>1, ConcatProperties
<1> DEFINE ok == o \o k
           p == ok \o c
<1> HIDE DEF ok
<1>3. /\ p \in Seq(Tokens) /\ Len(p) = Len(ok) + Len(c)
      /\ \A i \in 1 .. Len(ok) + Len(c) : p[i] = IF i <= Len(ok) THEN ok[i] ELSE c[i - Len(ok)]
  <2>1. ok \in Seq(Tokens)
    BY <1>2 DEF ok
  <2> QED
    BY <1>1, <2>1, ConcatProperties
<1>4. p = Placeholder(k)
  BY DEF Placeholder, ok, o, c
<1>5. Len(k) \in Nat /\ Len(ok) = Len(k) + 1 /\ \A i \in 1 .. Len(k) + 1 : ok[i] = IF i <= 1 THEN o[i] ELSE k[i - 1]
  BY <1>1, <1>2, LenProperties DEF ok
<1> HIDE DEF p
<1>6. Len(p) = Len(k) + 2
  BY <1>1, <1>3, <1>5
<1>7. p[1] = Opening
  <2>1. 1 \in 1 .. Len(ok) + Len(c) /\ 1 <= Len(ok) /\ 1 \in 1 .. Len(k) + 1
    BY <1>1, <1>5
  <2> QED
    BY <1>1, <1>3, <1>5, <2>1
<1>8. p[Len(k) + 2] = Closing
  <2> DEFINE l == Len(k) + 2
  <2>1. l \in 1 .. Len(ok) + Len(c) /\ ~(l <= Len(ok)) /\ l - Len(ok) = 1
    BY <1>1, <1>5
  <2> HIDE DEF l
  <2>2. p[l] = c[1]
    BY <1>3, <2>1
  <2> QED
    BY <1>1, <2>2 DEF l
<1>9. ASSUME NEW j \in 1 .. Len(k)
      PROVE  p[j + 1] = k[j]
  <2>1. /\ j + 1 \in 1 .. Len(ok) + Len(c) /\ j + 1 <= Len(ok)
        /\ j + 1 \in 1 .. Len(k) + 1 /\ ~(j + 1 <= 1) /\ j + 1 - 1 = j
    BY <1>1, <1>5
  <2>2. p[j + 1] = ok[j + 1]
    BY <1>3, <2>1
  <2>3. ok[j + 1] = k[j]
    BY <1>5, <2>1
  <2> QED
    BY <2>2, <2>3
<1>10. ASSUME NEW w \in Seq(Tokens)
       PROVE  p \o w = o \o (k \o (c \o w))
  <2>1. c \o w \in Seq(Tokens)
    BY <1>1, ConcatProperties
  <2>2. ok \in Seq(Tokens)
    BY <1>2 DEF ok
  <2>5. o \in Seq(Tokens) /\ c \in Seq(Tokens)
    BY <1>1
  <2>3. (ok \o c) \o w = ok \o (c \o w)
    BY <2>2, <2>5, Joined
  <2>4. (o \o k) \o (c \o w) = o \o (k \o (c \o w))
    <3> DEFINE cw == c \o w
    <3>1. o \in Seq(Tokens) /\ cw \in Seq(Tokens)
      BY <2>1, <2>5
    <3> HIDE DEF cw
    <3>2. (o \o k) \o cw = o \o (k \o cw)
      BY <3>1, Joined, SMTT(30)
    <3> QED
      BY <3>2 DEF cw
  <2> QED
    BY <2>3, <2>4, Zenon DEF p, ok
<1> QED
  BY <1>3, <1>4, <1>5, <1>6, <1>7, <1>8, <1>9, <1>10 DEF o, c

\* Filling in is a scan that goes on at each step and not beyond the end.
LEMMA FillingSteps ==
    ASSUME NEW args, Fit(args), NEW x \in Seq(Tokens)
    PROVE  Steps(Len(x), OutOf(x, args), StepOf(x, args), Tokens)
<1>1. Len(x) \in Nat /\ DOMAIN x = 1 .. Len(x)
  BY LenProperties
<1>2. ASSUME NEW i \in 1 .. Len(x), HereAt(x, args, i) = {}
      PROVE  <<x[i]>> \in Seq(Tokens) /\ 1 \in Nat \ {0} /\ i + 1 <= Len(x) + 1
  <2>1. x[i] \in Tokens
    BY ElementOfSeq
  <2> QED
    BY <1>1, <2>1
<1>3. ASSUME NEW i \in 1 .. Len(x), HereAt(x, args, i) # {}
      PROVE  LET a == The(x, args, i)
             IN  /\ AsText(a.value) \in Seq(Tokens)
                 /\ Len(Placeholder(a.key)) \in Nat \ {0}
                 /\ i + Len(Placeholder(a.key)) <= Len(x) + 1
  <2> DEFINE a == The(x, args, i)
  <2>1. a \in HereAt(x, args, i)
    BY <1>3 DEF The
  <2> HIDE DEF a
  <2>2. a \in args /\ OccursAt(Placeholder(a.key), x, i)
    BY <2>1 DEF HereAt
  <2>3. a.key \in Seq(Tokens) /\ AsText(a.value) \in Seq(Tokens)
    BY <2>2 DEF Fit
  <2> DEFINE l == Len(Placeholder(a.key))
  <2>4. l = Len(a.key) + 2 /\ Len(a.key) \in Nat
    BY <2>3, PlaceholderFacts
  <2>5. i + l - 1 <= Len(x)
    BY <2>2 DEF OccursAt
  <2> HIDE DEF l
  <2>6. l \in Nat \ {0} /\ i + l <= Len(x) + 1
    BY <1>1, <2>4, <2>5
  <2> QED
    BY <2>3, <2>6 DEF a, l
<1> DEFINE o == OutOf(x, args)
           s == StepOf(x, args)
<1>4. o \in [1 .. Len(x) -> Seq(Tokens)]
  <2> SUFFICES ASSUME NEW i \in 1 .. Len(x)
               PROVE  (IF HereAt(x, args, i) = {} THEN <<x[i]>> ELSE AsText(The(x, args, i).value))
                        \in Seq(Tokens)
    BY <1>1 DEF OutOf
  <2> QED
    BY <1>2, <1>3, Zenon
<1>5. ASSUME NEW i \in 1 .. Len(x)
      PROVE  s[i] \in Nat \ {0} /\ i + s[i] <= Len(x) + 1
  <2>1. s[i] = IF HereAt(x, args, i) = {} THEN 1 ELSE Len(Placeholder(The(x, args, i).key))
    BY <1>1 DEF StepOf
  <2> HIDE DEF s
  <2> QED
    BY <1>2, <1>3, <2>1, Zenon
<1>6. s \in [1 .. Len(x) -> Nat \ {0}]
  <2>1. s = [i \in 1 .. Len(x) |-> s[i]]
    BY <1>1 DEF StepOf
  <2> HIDE DEF s
  <2> QED
    BY <1>5, <2>1
<1> HIDE DEF o, s
<1>7. Steps(Len(x), o, s, Tokens)
  BY <1>1, <1>4, <1>5, <1>6 DEF Steps
<1> QED
  BY <1>7 DEF o, s

LEMMA AtOnceIsText ==
    ASSUME NEW args, Fit(args), NEW x \in Seq(Tokens)
    PROVE  AtOnce(x, args) \in Seq(Tokens)
<1> DEFINE f == From(Len(x), OutOf(x, args), StepOf(x, args))
<1>1. f \in [1 .. Len(x) + 1 -> Seq(Tokens)]
  BY FillingSteps, FromFacts
<1>2. AtOnce(x, args) = f[1]
  BY AtOnceIsScan, ScanIsFrom
<1>3. 1 \in 1 .. Len(x) + 1
  BY LenProperties
<1> HIDE DEF f
<1> QED
  BY <1>1, <1>2, <1>3

\* A text to whose first part one thing is put out: the rest is filled in for itself.
LEMMA AtOnceGoesOn ==
    ASSUME NEW args, Fit(args), NEW p \in Seq(Tokens), NEW w \in Seq(Tokens), Len(p) >= 1,
           StepOf(p \o w, args)[1] = Len(p)
    PROVE  AtOnce(p \o w, args) = OutOf(p \o w, args)[1] \o AtOnce(w, args)
<1> DEFINE x == p \o w
           n == Len(x)
           m == Len(w)
           d == Len(p)
           out == OutOf(x, args)
           step == StepOf(x, args)
           out2 == OutOf(w, args)
           step2 == StepOf(w, args)
           f == From(n, out, step)
           g == From(m, out2, step2)
<1>1. /\ x \in Seq(Tokens) /\ n = d + m /\ d \in Nat /\ m \in Nat /\ n \in Nat /\ d >= 1
      /\ DOMAIN x = 1 .. n /\ DOMAIN w = 1 .. m
      /\ \A i \in 1 .. d + m : x[i] = IF i <= d THEN p[i] ELSE w[i - d]
  BY ConcatProperties, LenProperties
<1>2. /\ Steps(n, out, step, Tokens) /\ f \in [1 .. n + 1 -> Seq(Tokens)]
      /\ Scans(f, 1, n, out, step)
  BY <1>1, FillingSteps, FromFacts
<1>3. Scans(g, 1, m, out2, step2)
  BY FillingSteps, FromFacts
<1>4. ASSUME NEW i \in 1 .. m
      PROVE  out2[i] = out[i + d] /\ step2[i] = step[i + d]
  <2> DEFINE j == i + d
  <2>1. j \in 1 .. n /\ ~(j <= d) /\ j - d = i /\ j \in 1 .. d + m
    BY <1>1
  <2>2. x[j] = w[i]
    <3> HIDE DEF j, x, n, m, d
    <3> QED
      BY <1>1, <2>1
  <2>3. HereAt(x, args, j) = HereAt(w, args, i)
    <3>1. ASSUME NEW a \in args
          PROVE  OccursAt(Placeholder(a.key), x, j) <=> OccursAt(Placeholder(a.key), w, i)
      <4>1. Placeholder(a.key) \in Seq(Tokens)
        BY PlaceholderFacts DEF Fit
      <4> QED
        BY <4>1, OccursBehind
    <3> QED
      BY <3>1, Zenon DEF HereAt
  <2>4. The(x, args, j) = The(w, args, i)
    BY <2>3, Zenon DEF The
  <2>5. j \in DOMAIN x /\ i \in DOMAIN w
    BY <1>1, <2>1
  <2> HIDE DEF x, n, m, d, j
  <2>6. out2[i] = out[j]
    BY <2>2, <2>3, <2>4, <2>5, Zenon DEF OutOf
  <2>7. step2[i] = step[j]
    BY <2>3, <2>4, <2>5, Zenon DEF StepOf
  <2> QED
    BY <2>6, <2>7 DEF j
<1> HIDE DEF x, n, m, d, out, step, out2, step2, f, g
<1>5. m + d = n
  BY <1>1
<1>6. \A i \in 1 .. m + 1 : g[i] = f[i + d]
  <2>1. m \in Nat /\ d \in Nat
    BY <1>1
  <2>2. \A i \in 1 .. m : out2[i] = out[i + d] /\ step2[i] = step[i + d]
    BY <1>4
  <2>3. Steps(n, out, step, Tokens) /\ Scans(f, 1, n, out, step)
    BY <1>2
  <2> QED
    BY <1>3, <1>5, <2>1, <2>2, <2>3, ScansAgree
<1>7. g[1] = f[1 + d]
  <2>1. 1 \in 1 .. m + 1
    BY <1>1
  <2> QED
    BY <1>6, <2>1
<1>8. f[1] = out[1] \o f[1 + step[1]]
  <2>1. 1 \in 1 .. n + 1 /\ ~(1 > n)
    BY <1>1
  <2> QED
    BY <1>2, <2>1 DEF Scans
<1>9. step[1] = d
  BY DEF step, d, x
<1>10. AtOnce(x, args) = f[1] /\ AtOnce(w, args) = g[1]
  BY AtOnceIsScan, ScanIsFrom, Zenon DEF f, g, n, m, out, step, out2, step2
<1>11. AtOnce(x, args) = out[1] \o AtOnce(w, args)
  BY <1>7, <1>8, <1>9, <1>10
<1> QED
  BY <1>11 DEF x, out

\* An empty text is filled in by an empty one.
LEMMA AtOnceOfEmpty ==
    ASSUME NEW args, Fit(args)
    PROVE  AtOnce(<<>>, args) = <<>>
<1> DEFINE x == <<>>
           n == Len(x)
           f == From(n, OutOf(x, args), StepOf(x, args))
<1>1. x \in Seq(Tokens) /\ n = 0 /\ 1 \in 1 .. n + 1 /\ 1 > n
  BY EmptySeq
<1>2. Scans(f, 1, n, OutOf(x, args), StepOf(x, args))
  BY <1>1, FillingSteps, FromFacts
<1>3. AtOnce(x, args) = f[1]
  BY AtOnceIsScan, ScanIsFrom
<1> HIDE DEF f, n
<1>4. f[1] = <<>>
  BY <1>1, <1>2 DEF Scans
<1> QED
  BY <1>3, <1>4

\* Where no placeholder begins the token stays.
LEMMA AtOnceKeeps ==
    ASSUME NEW args, Fit(args), NEW t \in Tokens, NEW w \in Seq(Tokens),
           \A a \in args : ~OccursAt(Placeholder(a.key), <<t>> \o w, 1)
    PROVE  AtOnce(<<t>> \o w, args) = <<t>> \o AtOnce(w, args)
<1> DEFINE p == <<t>>
           x == p \o w
<1>1. p \in Seq(Tokens) /\ Len(p) = 1 /\ p[1] = t
  OBVIOUS
<1> HIDE DEF p
<1>2. 1 \in DOMAIN x /\ x[1] = t
  <2>1. /\ x \in Seq(Tokens) /\ Len(x) = Len(p) + Len(w) /\ Len(w) \in Nat
        /\ \A i \in 1 .. Len(p) + Len(w) : x[i] = IF i <= Len(p) THEN p[i] ELSE w[i - Len(p)]
    <3>1. p \in Seq(Tokens) /\ Len(w) \in Nat
      BY <1>1, LenProperties
    <3> QED
      BY <3>1, ConcatProperties
  <2> HIDE DEF x
  <2>2. 1 \in 1 .. Len(p) + Len(w) /\ 1 <= Len(p) /\ DOMAIN x = 1 .. Len(p) + Len(w)
    BY <1>1, <2>1
  <2> QED
    BY <1>1, <2>1, <2>2
<1>3. HereAt(x, args, 1) = {}
  BY DEF HereAt, p
<1> HIDE DEF x
<1>4. OutOf(x, args)[1] = p /\ StepOf(x, args)[1] = 1
  BY <1>2, <1>3, Zenon DEF OutOf, StepOf, p
<1>5. AtOnce(p \o w, args) = OutOf(p \o w, args)[1] \o AtOnce(w, args)
  <2>1. StepOf(p \o w, args)[1] = Len(p) /\ Len(p) >= 1
    BY <1>1, <1>4 DEF x
  <2> QED
    BY <1>1, <2>1, AtOnceGoesOn
<1> QED
  BY <1>4, <1>5 DEF p, x

\* Where one placeholder begins its value is put in its place.
LEMMA AtOncePuts ==
    ASSUME NEW args, Fit(args), NEW a \in args, NEW w \in Seq(Tokens),
           \A b \in args : OccursAt(Placeholder(b.key), Placeholder(a.key) \o w, 1) => b = a
    PROVE  AtOnce(Placeholder(a.key) \o w, args) = AsText(a.value) \o AtOnce(w, args)
<1> DEFINE p == Placeholder(a.key)
           x == p \o w
<1>1. a.key \in Seq(Tokens)
  BY DEF Fit
<1>2. p \in Seq(Tokens) /\ Len(p) = Len(a.key) + 2 /\ Len(a.key) \in Nat
  BY <1>1, PlaceholderFacts
<1>3. OccursAt(p, x, 1)
  <2> HIDE DEF p
  <2> QED
    BY <1>2, OccursFirst
<1>4. 1 \in DOMAIN x
  <2> HIDE DEF p
  <2>1. p \in Seq(Tokens) /\ Len(p) \in Nat /\ Len(p) >= 1
    BY <1>2
  <2>2. x \in Seq(Tokens) /\ Len(x) = Len(p) + Len(w) /\ Len(w) \in Nat
    BY <2>1, ConcatProperties
  <2> QED
    BY <2>1, <2>2
<1>5. HereAt(x, args, 1) = {a}
  BY <1>3 DEF HereAt
<1>6. The(x, args, 1) = a /\ HereAt(x, args, 1) # {}
  BY <1>5 DEF The
<1> HIDE DEF x
<1>7. OutOf(x, args)[1] = AsText(a.value)
  <2> HIDE DEF p
  <2> QED
    BY <1>4, <1>6, Zenon DEF OutOf
<1>8. StepOf(x, args)[1] = Len(p)
  BY <1>4, <1>6, Zenon DEF StepOf
<1> HIDE DEF p
<1>9. Len(p) >= 1
  BY <1>2
<1>10. AtOnce(p \o w, args) = OutOf(p \o w, args)[1] \o AtOnce(w, args)
  BY <1>2, <1>8, <1>9, AtOnceGoesOn DEF x
<1> QED
  BY <1>7, <1>10 DEF p, x

-----------------------------------------------------------------------------
(* Braces. *)

LEMMA TwoBraces ==
    /\ Opening # Closing /\ Opening \in Tokens /\ Closing \in Tokens
    /\ <<Opening>> \in Seq(Tokens) /\ <<Closing>> \in Seq(Tokens)
<1>1. Opening # Closing
  BY Zenon DEF Opening, Closing
<1>2. Opening \in Tokens /\ Closing \in Tokens
  BY RouterAssumption DEF RouterAssumption, Braces
<1> QED
  BY <1>1, <1>2

LEMMA BraceFreeFacts ==
    ASSUME NEW u \in Seq(Tokens)
    PROVE  BraceFree(u) <=> \A i \in 1 .. Len(u) : u[i] # Opening /\ u[i] # Closing
<1>1. DOMAIN u = 1 .. Len(u)
  BY LenProperties
<1> QED
  BY <1>1, Zenon DEF BraceFree, Range, Braces

\* At most one placeholder begins at a place, when keys hold no braces.
LEMMA OnePlaceholder ==
    ASSUME NEW k \in Seq(Tokens), NEW l \in Seq(Tokens), BraceFree(k), BraceFree(l),
           NEW x \in Seq(Tokens),
           OccursAt(Placeholder(k), x, 1), OccursAt(Placeholder(l), x, 1)
    PROVE  k = l
<1>1. ASSUME NEW h \in Seq(Tokens), BraceFree(h), OccursAt(Placeholder(h), x, 1)
      PROVE  /\ Len(h) \in Nat /\ x[Len(h) + 2] = Closing
             /\ \A j \in 1 .. Len(h) : x[j + 1] = h[j] /\ h[j] # Closing
  <2> DEFINE q == Placeholder(h)
  <2>1. /\ q \in Seq(Tokens) /\ Len(q) = Len(h) + 2 /\ Len(h) \in Nat /\ q[Len(h) + 2] = Closing
        /\ \A j \in 1 .. Len(h) : q[j + 1] = h[j]
    BY PlaceholderFacts
  <2> HIDE DEF q
  <2>2. 1 \in Nat /\ 1 >= 1
    OBVIOUS
  <2>3. OccursAt(q, x, 1)
    BY <1>1 DEF q
  <2>4. \A j \in 1 .. Len(q) : x[1 + j - 1] = q[j]
    BY <2>1, <2>2, <2>3, OccursPoints
  <2>5. ASSUME NEW j \in 1 .. Len(h) + 2
        PROVE  x[j] = q[j]
    <3>1. j \in 1 .. Len(q) /\ 1 + j - 1 = j
      BY <2>1
    <3> QED
      BY <2>4, <3>1
  <2>6. x[Len(h) + 2] = Closing
    <3>1. Len(h) + 2 \in 1 .. Len(h) + 2
      BY <2>1
    <3> QED
      BY <2>1, <2>5, <3>1
  <2>7. ASSUME NEW j \in 1 .. Len(h)
        PROVE  x[j + 1] = h[j] /\ h[j] # Closing
    <3>1. j + 1 \in 1 .. Len(h) + 2
      BY <2>1
    <3>2. h[j] # Closing
      BY <1>1, BraceFreeFacts
    <3> QED
      BY <2>1, <2>5, <3>1, <3>2
  <2> QED
    BY <2>1, <2>6, <2>7
<1>2. ASSUME NEW h \in Seq(Tokens), NEW g \in Seq(Tokens), BraceFree(h), BraceFree(g),
             OccursAt(Placeholder(h), x, 1), OccursAt(Placeholder(g), x, 1), Len(h) < Len(g)
      PROVE  FALSE
  <2>1. Len(h) \in Nat /\ x[Len(h) + 2] = Closing
    BY <1>1, <1>2
  <2>2. Len(g) \in Nat /\ \A j \in 1 .. Len(g) : x[j + 1] = g[j] /\ g[j] # Closing
    BY <1>1, <1>2
  <2>3. Len(h) + 1 \in 1 .. Len(g) /\ Len(h) + 1 + 1 = Len(h) + 2
    BY <1>2, <2>1, <2>2
  <2> QED
    BY <2>1, <2>2, <2>3
<1>3. /\ Len(k) \in Nat /\ Len(l) \in Nat
      /\ \A j \in 1 .. Len(k) : x[j + 1] = k[j]
      /\ \A j \in 1 .. Len(l) : x[j + 1] = l[j]
  BY <1>1
<1>4. ~(Len(k) < Len(l)) /\ ~(Len(l) < Len(k))
  BY <1>2
<1>5. Len(k) = Len(l)
  BY <1>3, <1>4
<1>6. \A j \in 1 .. Len(k) : k[j] = l[j]
  BY <1>3, <1>5
<1> QED
  BY <1>5, <1>6, SeqEqual

\* No placeholder begins where no brace is opened.
LEMMA NoneBegins ==
    ASSUME NEW k \in Seq(Tokens), NEW t \in Tokens, NEW w \in Seq(Tokens), t # Opening
    PROVE  ~OccursAt(Placeholder(k), <<t>> \o w, 1)
<1> SUFFICES ASSUME OccursAt(Placeholder(k), <<t>> \o w, 1)
             PROVE  FALSE
  OBVIOUS
<1> DEFINE p == <<t>>
           x == p \o w
           q == Placeholder(k)
<1>1. p \in Seq(Tokens) /\ Len(p) = 1 /\ p[1] = t /\ Len(w) \in Nat
  BY LenProperties
<1>2. q \in Seq(Tokens) /\ Len(q) = Len(k) + 2 /\ Len(k) \in Nat /\ q[1] = Opening
  BY PlaceholderFacts
<1> HIDE DEF p, q
<1>3. /\ x \in Seq(Tokens)
      /\ \A i \in 1 .. Len(p) + Len(w) : x[i] = IF i <= Len(p) THEN p[i] ELSE w[i - Len(p)]
  BY <1>1, ConcatProperties
<1>4. x[1] = t
  <2>1. 1 \in 1 .. Len(p) + Len(w) /\ 1 <= Len(p)
    BY <1>1
  <2> HIDE DEF x
  <2> QED
    BY <1>1, <1>3, <2>1
<1>5. OccursAt(q, x, 1)
  BY DEF q, x, p
<1> HIDE DEF x
<1>6. x[1] = q[1]
  <2>1. 1 \in Nat /\ 1 >= 1 /\ 1 \in 1 .. Len(q) /\ 1 + 1 - 1 = 1
    BY <1>2
  <2>2. \A j \in 1 .. Len(q) : x[1 + j - 1] = q[j]
    BY <1>2, <1>3, <1>5, <2>1, OccursPoints
  <2> QED
    BY <2>1, <2>2
<1> QED
  BY <1>2, <1>4, <1>6

\* What opens no brace stays, whatever follows.
LEMMA AtOncePasses ==
    ASSUME NEW args, Fit(args), NEW u \in Seq(Tokens), \A i \in 1 .. Len(u) : u[i] # Opening,
           NEW w \in Seq(Tokens)
    PROVE  AtOnce(u \o w, args) = u \o AtOnce(w, args)
<1> DEFINE Opens(v) == \E i \in 1 .. Len(v) : v[i] = Opening
           Passes(v) == AtOnce(v \o w, args) = v \o AtOnce(w, args)
           S == {n \in Nat : \A v \in Seq(Tokens) : Len(v) = n /\ ~Opens(v) => Passes(v)}
<1>1. 0 \in S
  <2> SUFFICES ASSUME NEW v \in Seq(Tokens), Len(v) = 0
               PROVE  Passes(v)
    OBVIOUS
  <2>1. v = <<>>
    BY EmptySeq
  <2>2. v \o w = w
    BY <2>1, ConcatEmptySeq
  <2>3. v \o AtOnce(w, args) = AtOnce(w, args)
    BY <2>1, AtOnceIsText, ConcatEmptySeq
  <2> QED
    BY <2>2, <2>3
<1>2. ASSUME NEW n \in Nat, n \in S
      PROVE  n + 1 \in S
  <2> SUFFICES ASSUME NEW v \in Seq(Tokens), Len(v) = n + 1, ~Opens(v)
               PROVE  Passes(v)
    OBVIOUS
  <2>1. PICK r \in Seq(Tokens) : v = <<v[1]>> \o r /\ Len(r) = n
    BY FirstAndRest
  <2> DEFINE t == v[1]
  <2>2. t \in Tokens /\ <<t>> \in Seq(Tokens)
    BY FirstAndRest
  <2>3. t # Opening
    <3>1. 1 \in 1 .. Len(v)
      OBVIOUS
    <3> QED
      BY <3>1
  <2>4. ~Opens(r)
    <3> SUFFICES ASSUME NEW i \in 1 .. n, r[i] = Opening
                 PROVE  FALSE
      BY <2>1
    <3>1. /\ Len(<<t>>) = 1 /\ i + 1 \in 1 .. 1 + Len(r) /\ ~(i + 1 <= 1) /\ i + 1 - 1 = i
          /\ i + 1 \in 1 .. Len(v)
      BY <2>1
    <3>2. (<<t>> \o r)[i + 1] = r[i]
      <4> HIDE DEF t
      <4> QED
        BY <2>2, <3>1, ConcatProperties
    <3> QED
      BY <2>1, <3>1, <3>2
  <2>5. Passes(r)
    <3> HIDE DEF Passes, Opens
    <3> QED
      BY <1>2, <2>1, <2>4
  <2> HIDE DEF t
  <2>6. r \o w \in Seq(Tokens) /\ AtOnce(w, args) \in Seq(Tokens)
    BY AtOnceIsText, ConcatProperties
  <2>7. v = <<t>> \o r
    BY <2>1 DEF t
  <2>8. v \o w = <<t>> \o (r \o w)
    <3>1. (<<t>> \o r) \o w = <<t>> \o (r \o w)
      BY <2>2, Joined
    <3> QED
      BY <2>7, <3>1, Zenon
  <2>9. AtOnce(<<t>> \o (r \o w), args) = <<t>> \o AtOnce(r \o w, args)
    <3>1. \A a \in args : ~OccursAt(Placeholder(a.key), <<t>> \o (r \o w), 1)
      BY <2>2, <2>3, <2>6, NoneBegins DEF Fit
    <3> QED
      BY <2>2, <2>6, <3>1, AtOnceKeeps
  <2>10. <<t>> \o (r \o AtOnce(w, args)) = v \o AtOnce(w, args)
    <3>1. (<<t>> \o r) \o AtOnce(w, args) = <<t>> \o (r \o AtOnce(w, args))
      BY <2>2, <2>6, Joined
    <3> QED
      BY <2>7, <3>1, Zenon
  <2> QED
    BY <2>5, <2>8, <2>9, <2>10
<1>3. Len(u) \in S
  <2>1. Len(u) \in Nat
    BY LenProperties
  <2> HIDE DEF S
  <2> QED
    BY <1>1, <1>2, <2>1, Inductive
<1>4. ~Opens(u)
  OBVIOUS
<1> QED
  BY <1>3, <1>4

\* Without arguments the text stays as it is.
LEMMA AtOnceOfNothing ==
    ASSUME NEW x \in Seq(Tokens)
    PROVE  AtOnce(x, {}) = x
<1> DEFINE S == {n \in Nat : \A v \in Seq(Tokens) : Len(v) = n => AtOnce(v, {}) = v}
<1>1. Fit({})
  BY DEF Fit
<1>2. 0 \in S
  BY <1>1, AtOnceOfEmpty, EmptySeq
<1>3. ASSUME NEW n \in Nat, n \in S
      PROVE  n + 1 \in S
  <2> SUFFICES ASSUME NEW v \in Seq(Tokens), Len(v) = n + 1
               PROVE  AtOnce(v, {}) = v
    OBVIOUS
  <2>1. PICK r \in Seq(Tokens) : v = <<v[1]>> \o r /\ Len(r) = n
    BY FirstAndRest
  <2> DEFINE t == v[1]
  <2>2. t \in Tokens
    BY FirstAndRest
  <2>3. AtOnce(r, {}) = r
    BY <1>3, <2>1
  <2>4. v = <<t>> \o r
    BY <2>1
  <2> HIDE DEF t
  <2>5. AtOnce(<<t>> \o r, {}) = <<t>> \o AtOnce(r, {})
    BY <1>1, <2>2, AtOnceKeeps
  <2> QED
    BY <2>3, <2>4, <2>5
<1>4. Len(x) \in S
  <2>1. Len(x) \in Nat
    BY LenProperties
  <2> HIDE DEF S
  <2> QED
    BY <1>2, <1>3, <2>1, Inductive
<1> QED
  BY <1>4

\* What is behind a part of a text whose braces are not nested has none nested.
LEMMA UnnestedBehind ==
    ASSUME NEW p \in Seq(Tokens), NEW w \in Seq(Tokens), Unnested(p \o w)
    PROVE  Unnested(w)
<1> DEFINE x == p \o w
           d == Len(p)
<1>1. /\ x \in Seq(Tokens) /\ d \in Nat /\ Len(w) \in Nat
      /\ DOMAIN x = 1 .. d + Len(w) /\ DOMAIN w = 1 .. Len(w)
      /\ \A i \in 1 .. d + Len(w) : x[i] = IF i <= d THEN p[i] ELSE w[i - d]
  BY ConcatProperties, LenProperties
<1>2. \A i, j \in DOMAIN x :
        i < j /\ x[i] = Opening /\ x[j] = Opening => \E k \in i .. j : x[k] = Closing
  BY DEF Unnested
<1> HIDE DEF x, d
<1>3. ASSUME NEW i \in 1 .. Len(w)
      PROVE  i + d \in 1 .. d + Len(w) /\ x[i + d] = w[i]
  <2> DEFINE j == i + d
  <2>1. j \in 1 .. d + Len(w) /\ ~(j <= d) /\ j - d = i
    BY <1>1
  <2> HIDE DEF j
  <2>2. x[j] = w[i]
    <3>1. x[j] = w[j - d]
      BY <1>1, <2>1
    <3> QED
      BY <2>1, <3>1
  <2> QED
    BY <2>1, <2>2 DEF j
<1> SUFFICES ASSUME NEW i \in 1 .. Len(w), NEW j \in 1 .. Len(w), i < j,
                    w[i] = Opening, w[j] = Opening
             PROVE  \E k \in i .. j : w[k] = Closing
  BY <1>1 DEF Unnested
<1>4. i + d < j + d /\ x[i + d] = Opening /\ x[j + d] = Opening
      /\ i + d \in DOMAIN x /\ j + d \in DOMAIN x
  BY <1>1, <1>3
<1>5. PICK l \in i + d .. j + d : x[l] = Closing
  BY <1>2, <1>4
<1> DEFINE k == l - d
<1>6. k \in i .. j /\ k \in 1 .. Len(w) /\ k + d = l
  BY <1>1
<1> HIDE DEF k
<1>7. w[k] = Closing
  BY <1>3, <1>5, <1>6
<1> QED
  BY <1>6, <1>7

\* The first closing brace behind an opening one: nothing is opened before it.
LEMMA ClosesFirst ==
    ASSUME NEW w \in Seq(Tokens), Unnested(<<Opening>> \o w)
    PROVE  \/ \A i \in 1 .. Len(w) : w[i] # Opening
           \/ \E u \in Seq(Tokens), v \in Seq(Tokens) :
                /\ \A i \in 1 .. Len(u) : u[i] # Opening /\ u[i] # Closing
                /\ w = u \o (<<Closing>> \o v)
<1> DEFINE p == <<Opening>>
           x == p \o w
<1>1. p \in Seq(Tokens) /\ Len(p) = 1 /\ p[1] = Opening /\ Len(w) \in Nat
  BY TwoBraces, LenProperties
<1> HIDE DEF p
<1>2. /\ x \in Seq(Tokens) /\ DOMAIN x = 1 .. Len(w) + 1
      /\ x[1] = Opening /\ \A i \in 1 .. Len(w) : x[i + 1] = w[i]
  <2>1. /\ x \in Seq(Tokens) /\ Len(x) = Len(p) + Len(w)
        /\ \A i \in 1 .. Len(p) + Len(w) : x[i] = IF i <= Len(p) THEN p[i] ELSE w[i - Len(p)]
    BY <1>1, ConcatProperties
  <2> HIDE DEF x
  <2>2. DOMAIN x = 1 .. Len(w) + 1
    <3>1. Len(x) = Len(w) + 1
      BY <1>1, <2>1
    <3> QED
      BY <2>1, <3>1, LenProperties
  <2>3. x[1] = Opening
    BY <1>1, <2>1
  <2>4. ASSUME NEW i \in 1 .. Len(w)
        PROVE  x[i + 1] = w[i]
    <3>1. i + 1 \in 1 .. Len(p) + Len(w) /\ ~(i + 1 <= Len(p)) /\ i + 1 - Len(p) = i
      BY <1>1
    <3> QED
      BY <2>1, <3>1
  <2> QED
    BY <2>1, <2>2, <2>3, <2>4
<1>3. \A i, j \in DOMAIN x :
        i < j /\ x[i] = Opening /\ x[j] = Opening => \E k \in i .. j : x[k] = Closing
  BY DEF Unnested, p
<1> HIDE DEF x
<1>4. ASSUME NEW i \in 1 .. Len(w), w[i] = Opening
      PROVE  \E k \in 1 .. i - 1 : w[k] = Closing
  <2>1. 1 \in DOMAIN x /\ i + 1 \in DOMAIN x /\ 1 < i + 1 /\ x[i + 1] = Opening
    BY <1>1, <1>2, <1>4
  <2>2. PICK l \in 1 .. i + 1 : x[l] = Closing
    BY <1>2, <1>3, <2>1
  <2>3. l # 1 /\ l # i + 1
    BY <1>2, <2>1, <2>2, TwoBraces
  <2> DEFINE k == l - 1
  <2>4. k \in 1 .. i - 1 /\ k \in 1 .. Len(w) /\ k + 1 = l
    BY <1>1, <2>3
  <2> HIDE DEF k
  <2>5. w[k] = Closing
    BY <1>2, <2>2, <2>4
  <2> QED
    BY <2>4, <2>5
<1>5. CASE \A i \in 1 .. Len(w) : w[i] # Closing
  <2>1. \A i \in 1 .. Len(w) : w[i] # Opening
    <3> SUFFICES ASSUME NEW i \in 1 .. Len(w), w[i] = Opening
                 PROVE  FALSE
      OBVIOUS
    <3>1. PICK k \in 1 .. i - 1 : w[k] = Closing
      BY <1>4
    <3>2. k \in 1 .. Len(w)
      BY <1>1
    <3> QED
      BY <1>5, <3>1, <3>2
  <2> QED
    BY <2>1
<1>6. CASE \E i \in 1 .. Len(w) : w[i] = Closing
  <2>1. PICK c \in 1 .. Len(w) : w[c] = Closing /\ \A j \in 1 .. c - 1 : w[j] # Closing
    <3> DEFINE S == {k \in Nat : \A i \in 1 .. Len(w) : i <= k => w[i] # Closing}
    <3> SUFFICES ASSUME \A c \in 1 .. Len(w) : w[c] = Closing => \E j \in 1 .. c - 1 : w[j] = Closing
                 PROVE  FALSE
      OBVIOUS
    <3>1. 0 \in S
      OBVIOUS
    <3>2. ASSUME NEW k \in Nat, k \in S
          PROVE  k + 1 \in S
      <4> SUFFICES ASSUME NEW i \in 1 .. Len(w), i <= k + 1, w[i] = Closing
                   PROVE  FALSE
        OBVIOUS
      <4>1. PICK j \in 1 .. i - 1 : w[j] = Closing
        BY DEF S
      <4>2. j \in 1 .. Len(w) /\ j <= k
        BY <1>1
      <4> QED
        BY <3>2, <4>1, <4>2
    <3>3. Len(w) \in S
      <4> HIDE DEF S
      <4> QED
        BY <1>1, <3>1, <3>2, Inductive
    <3> QED
      BY <1>1, <1>6, <3>3
  <2> DEFINE u == SubSeq(w, 1, c - 1)
             v == SubSeq(w, c + 1, Len(w))
  <2>2. /\ 1 \in 1 .. Len(w) + 1 /\ c - 1 \in 1 - 1 .. Len(w) /\ Len(w) \in c - 1 .. Len(w)
        /\ c - 1 + 1 = c /\ c \in 1 .. Len(w) /\ Len(w) \in c .. Len(w)
    BY <1>1
  <2>3. u \o SubSeq(w, c - 1 + 1, Len(w)) = SubSeq(w, 1, Len(w))
    BY <2>2, ConcatAdjacentSubSeq
  <2>4. SubSeq(w, c, Len(w)) = <<w[c]>> \o v
    BY <2>2, SubSeqRecursiveFirst
  <2>5. SubSeq(w, 1, Len(w)) = w
    BY SubSeqFull
  <2>6. w = u \o (<<Closing>> \o v)
    <3> HIDE DEF u, v
    <3> QED
      BY <2>1, <2>2, <2>3, <2>4, <2>5
  <2>7. \A i \in 1 .. Len(w) : w[i] \in Tokens
    BY ElementOfSeq
  <2>8. v \in Seq(Tokens)
    <3>1. c + 1 \in Int /\ Len(w) \in Int /\ \A i \in c + 1 .. Len(w) : w[i] \in Tokens
      BY <1>1, <2>7
    <3> QED
      BY <3>1, SubSeqProperties
  <2>9. /\ u \in Seq(Tokens) /\ Len(u) = IF 1 <= c - 1 THEN c - 1 - 1 + 1 ELSE 0
        /\ \A i \in 1 .. c - 1 - 1 + 1 : u[i] = w[1 + i - 1]
    <3>1. 1 \in Int /\ c - 1 \in Int /\ \A i \in 1 .. c - 1 : w[i] \in Tokens
      BY <1>1, <2>7
    <3> QED
      BY <3>1, SubSeqProperties
  <2> HIDE DEF u, v
  <2>10. Len(u) = c - 1 /\ \A i \in 1 .. c - 1 : u[i] = w[i]
    BY <1>1, <2>9
  <2>11. ASSUME NEW i \in 1 .. Len(u)
         PROVE  u[i] # Opening /\ u[i] # Closing
    <3>1. i \in 1 .. c - 1 /\ i \in 1 .. Len(w) /\ u[i] = w[i]
      BY <1>1, <2>10
    <3>2. w[i] # Closing
      BY <2>1, <3>1
    <3>3. w[i] # Opening
      <4> SUFFICES ASSUME w[i] = Opening
                   PROVE  FALSE
        OBVIOUS
      <4>1. PICK k \in 1 .. i - 1 : w[k] = Closing
        BY <1>4, <3>1
      <4>2. k \in 1 .. c - 1
        BY <3>1
      <4> QED
        BY <2>1, <4>1, <4>2
    <3> QED
      BY <3>1, <3>2, <3>3
  <2> QED
    BY <2>6, <2>8, <2>9, <2>11
<1> QED
  BY <1>5, <1>6

-----------------------------------------------------------------------------
(* One argument after the other. *)

\* Arguments without braces, each key once.
Plain(args) ==
    /\ Fit(args)
    /\ \A a \in args : BraceFree(a.key) /\ BraceFree(AsText(a.value))
    /\ \A a, b \in args : a.key = b.key => a = b

\* Filling in makes no placeholder at a place where there is none.
LEMMA NoneComesUp ==
    ASSUME NEW args, Fit(args), NEW k \in Seq(Tokens), BraceFree(k),
           NEW t \in Tokens, NEW w \in Seq(Tokens), Unnested(<<t>> \o w),
           ~OccursAt(Placeholder(k), <<t>> \o w, 1)
    PROVE  ~OccursAt(Placeholder(k), <<t>> \o AtOnce(w, args), 1)
<1>1. AtOnce(w, args) \in Seq(Tokens)
  BY AtOnceIsText
<1>2. CASE t # Opening
  BY <1>1, <1>2, NoneBegins
<1>3. CASE t = Opening /\ \A i \in 1 .. Len(w) : w[i] # Opening
  <2>1. <<>> \in Seq(Tokens) /\ w \o <<>> = w
    BY EmptySeq, ConcatEmptySeq
  <2>2. AtOnce(w \o <<>>, args) = w \o AtOnce(<<>>, args)
    BY <1>3, <2>1, AtOncePasses
  <2>3. AtOnce(w, args) = w
    BY <2>1, <2>2, AtOnceOfEmpty
  <2> QED
    BY <2>3
<1>4. CASE t = Opening /\ ~(\A i \in 1 .. Len(w) : w[i] # Opening)
  <2>1. PICK u \in Seq(Tokens), v \in Seq(Tokens) :
           /\ \A i \in 1 .. Len(u) : u[i] # Opening /\ u[i] # Closing
           /\ w = u \o (<<Closing>> \o v)
    BY <1>4, ClosesFirst
  <2> DEFINE c == <<Closing>>
             o == <<Opening>>
             y == AtOnce(v, args)
  <2>2. /\ c \in Seq(Tokens) /\ o \in Seq(Tokens) /\ Len(c) = 1 /\ c[1] # Opening
        /\ y \in Seq(Tokens)
    BY TwoBraces, AtOnceIsText
  <2>3. w = u \o (c \o v)
    BY <2>1
  <2> HIDE DEF c, y
  <2>4. AtOnce(c \o v, args) = c \o y
    <3>1. \A i \in 1 .. Len(c) : c[i] # Opening
      BY <2>2
    <3> QED
      BY <2>2, <3>1, AtOncePasses DEF y
  <2>5. c \o v \in Seq(Tokens)
    BY <2>2, ConcatProperties
  <2>6. AtOnce(w, args) = u \o (c \o y)
    <3>1. \A i \in 1 .. Len(u) : u[i] # Opening
      BY <2>1
    <3>2. AtOnce(u \o (c \o v), args) = u \o AtOnce(c \o v, args)
      BY <2>5, <3>1, AtOncePasses
    <3> QED
      BY <2>3, <2>4, <3>2, Zenon
  <2>7. BraceFree(u)
    BY <2>1, BraceFreeFacts
  <2>8. o \o (u \o (c \o y)) = Placeholder(u) \o y /\ o \o w = Placeholder(u) \o v
    BY <2>2, <2>3, PlaceholderFacts DEF c
  <2>9. Placeholder(u) \in Seq(Tokens)
    BY PlaceholderFacts
  <2> HIDE DEF o
  <2> DEFINE z == Placeholder(u) \o y
  <2>10. z \in Seq(Tokens) /\ OccursAt(Placeholder(u), z, 1)
    BY <2>2, <2>9, ConcatProperties, OccursFirst
  <2>11. OccursAt(Placeholder(u), o \o w, 1)
    BY <2>8, <2>9, OccursFirst
  <2>12. <<t>> = o
    BY <1>4 DEF o
  <2> HIDE DEF z
  <2>13. OccursAt(Placeholder(k), z, 1) => k = u
    BY <2>7, <2>10, OnePlaceholder
  <2>14. ~OccursAt(Placeholder(k), z, 1)
    BY <2>11, <2>12, <2>13
  <2> QED
    BY <2>6, <2>8, <2>12, <2>14 DEF z
<1> QED
  BY <1>2, <1>3, <1>4

\* One more argument, filled in where the others are, is as if it had been among them.
LEMMA OneMore ==
    ASSUME NEW args, NEW a, a \notin args, Plain(args \cup {a}),
           NEW x \in Seq(Tokens), Unnested(x)
    PROVE  AtOnce(AtOnce(x, args), {a}) = AtOnce(x, args \cup {a})
<1> DEFINE all == args \cup {a}
           Good(y) == AtOnce(AtOnce(y, args), {a}) = AtOnce(y, all)
           S == {n \in Nat : \A y \in Seq(Tokens) : Len(y) <= n /\ Unnested(y) => Good(y)}
<1>1. Fit(args) /\ Fit({a}) /\ Fit(all)
  BY DEF Plain, Fit
<1>2. \A b \in all : /\ b.key \in Seq(Tokens) /\ AsText(b.value) \in Seq(Tokens)
                     /\ BraceFree(b.key) /\ BraceFree(AsText(b.value))
  BY DEF Plain, Fit
<1>3. \A b, c \in all : b.key = c.key => b = c
  BY DEF Plain
<1>4. ASSUME NEW y \in Seq(Tokens), NEW b \in all, NEW c \in all,
             OccursAt(Placeholder(b.key), y, 1), OccursAt(Placeholder(c.key), y, 1)
      PROVE  b = c
  <2>1. b.key = c.key
    BY <1>2, <1>4, OnePlaceholder
  <2> QED
    BY <1>3, <2>1
<1> HIDE DEF all
<1>5. all = args \cup {a}
  BY DEF all
<1>6. 0 \in S
  <2> SUFFICES ASSUME NEW y \in Seq(Tokens), Len(y) <= 0
               PROVE  Good(y)
    OBVIOUS
  <2>1. y = <<>>
    BY EmptySeq
  <2> QED
    BY <1>1, <2>1, AtOnceOfEmpty
<1>7. ASSUME NEW n \in Nat, n \in S
      PROVE  n + 1 \in S
  <2> SUFFICES ASSUME NEW y \in Seq(Tokens), Len(y) = n + 1, Unnested(y)
               PROVE  Good(y)
    <3>1. \A y \in Seq(Tokens) : Len(y) \in Nat
      BY LenProperties
    <3>2. \A m \in Nat : m <= n + 1 <=> m <= n \/ m = n + 1
      OBVIOUS
    <3> HIDE DEF Good
    <3> QED
      BY <1>7, <3>1, <3>2
  <2>1. ASSUME NEW p \in Seq(Tokens), Len(p) >= 1, NEW w \in Seq(Tokens), y = p \o w
        PROVE  Good(w) /\ AtOnce(w, args) \in Seq(Tokens)
    <3>1. Len(p) \in Nat /\ Len(w) \in Nat /\ Len(y) = Len(p) + Len(w)
      BY <2>1, ConcatProperties, LenProperties
    <3>2. Len(w) <= n
      BY <2>1, <3>1
    <3>3. Unnested(w)
      BY <2>1, UnnestedBehind
    <3>4. AtOnce(w, args) \in Seq(Tokens)
      BY <1>1, AtOnceIsText
    <3> HIDE DEF Good
    <3> QED
      BY <1>7, <3>2, <3>3, <3>4
  <2>2. CASE \E b \in all : OccursAt(Placeholder(b.key), y, 1)
    <3>1. PICK b \in all : OccursAt(Placeholder(b.key), y, 1)
      BY <2>2
    <3> DEFINE p == Placeholder(b.key)
               v == AsText(b.value)
    <3>2. p \in Seq(Tokens) /\ Len(p) = Len(b.key) + 2 /\ Len(b.key) \in Nat /\ v \in Seq(Tokens)
      BY <1>2, PlaceholderFacts
    <3>3. Len(p) >= 1
      BY <3>2
    <3>4. PICK w \in Seq(Tokens) : y = p \o w
      <4> HIDE DEF p
      <4>1. OccursAt(p, y, 1)
        BY <3>1 DEF p
      <4> QED
        BY <3>2, <3>3, <4>1, OccursFirst
    <3> DEFINE z == AtOnce(w, args)
    <3>5. AtOnce(z, {a}) = AtOnce(w, all) /\ z \in Seq(Tokens)
      <4> HIDE DEF p, v
      <4> QED
        BY <2>1, <3>2, <3>3, <3>4
    <3>6. AtOnce(y, all) = v \o AtOnce(w, all)
      <4>1. \A c \in all : OccursAt(Placeholder(c.key), p \o w, 1) => c = b
        BY <1>4, <3>1, <3>4
      <4> QED
        BY <1>1, <3>4, <4>1, AtOncePuts
    <3>7. CASE b \in args
      <4>1. AtOnce(y, args) = v \o z
        <5>1. \A c \in args : OccursAt(Placeholder(c.key), p \o w, 1) => c = b
          BY <1>4, <1>5, <3>1, <3>4
        <5> QED
          BY <1>1, <3>4, <3>7, <5>1, AtOncePuts
      <4>2. \A i \in 1 .. Len(v) : v[i] # Opening
        BY <1>2, <3>2, BraceFreeFacts
      <4> HIDE DEF v, z
      <4>3. AtOnce(v \o z, {a}) = v \o AtOnce(z, {a})
        BY <1>1, <3>2, <3>5, <4>2, AtOncePasses
      <4> QED
        BY <3>5, <3>6, <4>1, <4>3
    <3>8. CASE b \notin args
      <4>1. b = a
        BY <1>5, <3>8
      <4> DEFINE k == b.key
                 o == <<Opening>>
                 c == <<Closing>>
                 kc == k \o c
      <4>2. /\ o \in Seq(Tokens) /\ c \in Seq(Tokens) /\ Len(c) = 1 /\ c[1] # Opening
            /\ Opening \in Tokens
        BY TwoBraces
      <4>3. k \in Seq(Tokens) /\ \A i \in 1 .. Len(k) : k[i] # Opening
        BY <1>2, BraceFreeFacts
      <4>4. y = o \o (k \o (c \o w)) /\ p \o z = o \o (k \o (c \o z))
        BY <3>4, <3>5, <4>3, PlaceholderFacts
      <4> HIDE DEF p, v, z, k, o, c
      <4>5. AtOnce(k \o (c \o w), args) = k \o (c \o z)
        <5>1. c \o w \in Seq(Tokens)
          BY <4>2, ConcatProperties
        <5>2. AtOnce(k \o (c \o w), args) = k \o AtOnce(c \o w, args)
          BY <1>1, <4>3, <5>1, AtOncePasses
        <5>3. \A i \in 1 .. Len(c) : c[i] # Opening
          BY <4>2
        <5>4. AtOnce(c \o w, args) = c \o AtOnce(w, args)
          BY <1>1, <4>2, <5>3, AtOncePasses
        <5> QED
          BY <5>2, <5>4 DEF z
      <4>6. AtOnce(y, args) = p \o z
        <5> DEFINE r == k \o (c \o w)
        <5>1. r \in Seq(Tokens)
          BY <4>2, <4>3, ConcatProperties
        <5>2. \A d \in args : ~OccursAt(Placeholder(d.key), y, 1)
          BY <1>4, <1>5, <3>1, <3>8
        <5>3. y = <<Opening>> \o r
          BY <4>4 DEF o
        <5> HIDE DEF r
        <5>4. AtOnce(<<Opening>> \o r, args) = <<Opening>> \o AtOnce(r, args)
          BY <1>1, <4>2, <5>1, <5>2, <5>3, AtOnceKeeps
        <5> QED
          BY <4>4, <4>5, <5>3, <5>4 DEF r, o
      <4>7. AtOnce(p \o z, {a}) = v \o AtOnce(z, {a})
        <5>1. a \in {a} /\ \A d \in {a} : OccursAt(Placeholder(d.key), Placeholder(a.key) \o z, 1) => d = a
          OBVIOUS
        <5>2. AtOnce(Placeholder(a.key) \o z, {a}) = AsText(a.value) \o AtOnce(z, {a})
          BY <1>1, <3>5, <5>1, AtOncePuts
        <5> QED
          BY <4>1, <5>2 DEF p, v
      <4> QED
        BY <3>5, <3>6, <4>6, <4>7
    <3> QED
      BY <3>7, <3>8
  <2>3. CASE ~\E b \in all : OccursAt(Placeholder(b.key), y, 1)
    <3>1. PICK w \in Seq(Tokens) : y = <<y[1]>> \o w /\ Len(w) = n
      BY FirstAndRest
    <3> DEFINE t == y[1]
    <3>2. t \in Tokens
      BY FirstAndRest
    <3>3. y = <<t>> \o w
      BY <3>1
    <3> HIDE DEF t
    <3>4. <<t>> \in Seq(Tokens) /\ Len(<<t>>) >= 1
      BY <3>2
    <3> DEFINE z == AtOnce(w, args)
    <3>5. AtOnce(z, {a}) = AtOnce(w, all) /\ z \in Seq(Tokens)
      BY <2>1, <3>3, <3>4
    <3>6. AtOnce(y, all) = <<t>> \o AtOnce(w, all)
      BY <1>1, <2>3, <3>2, <3>3, AtOnceKeeps
    <3>7. AtOnce(y, args) = <<t>> \o z
      BY <1>1, <1>5, <2>3, <3>2, <3>3, AtOnceKeeps
    <3>8. ~OccursAt(Placeholder(a.key), <<t>> \o z, 1)
      <4>1. a \in all /\ ~OccursAt(Placeholder(a.key), <<t>> \o w, 1)
        BY <1>5, <2>3, <3>3
      <4>2. Unnested(<<t>> \o w)
        BY <3>3
      <4> QED
        BY <1>1, <1>2, <3>2, <4>1, <4>2, NoneComesUp
    <3> HIDE DEF z
    <3>9. AtOnce(<<t>> \o z, {a}) = <<t>> \o AtOnce(z, {a})
      BY <1>1, <3>2, <3>5, <3>8, AtOnceKeeps
    <3> QED
      BY <3>5, <3>6, <3>7, <3>9
  <2> QED
    BY <2>2, <2>3
<1>8. Len(x) \in S
  <2>1. Len(x) \in Nat
    BY LenProperties
  <2> HIDE DEF S
  <2> QED
    BY <1>6, <1>7, <2>1, Inductive
<1>9. Good(x)
  <2>1. Len(x) <= Len(x)
    BY LenProperties
  <2> HIDE DEF Good
  <2> QED
    BY <1>8, <2>1
<1> QED
  BY <1>9 DEF all

\* The function that FillIn reads its result from.
Filled(text, args) ==
    CHOOSE f : f = [n \in 0 .. Len(args) |->
        IF n = 0 THEN text ELSE Replace(f[n - 1], Placeholder(args[n].key), AsText(args[n].value))]

LEMMA FillInIsFilled == \A text, args : FillIn(text, args) = Filled(text, args)[Len(args)]
  BY DEF FillIn, Filled

\* There is such a function, and it fills in one argument after the other.
LEMMA FilledFacts ==
    ASSUME NEW text, NEW args, Len(args) \in Nat
    PROVE  /\ Filled(text, args)[0] = text
           /\ \A n \in 1 .. Len(args) :
                Filled(text, args)[n] = Replace(Filled(text, args)[n - 1],
                                                Placeholder(args[n].key), AsText(args[n].value))
<1> DEFINE F(n, before) == Replace(before, Placeholder(args[n].key), AsText(args[n].value))
           Fills(f, k) == f = [n \in 0 .. k |-> IF n = 0 THEN text ELSE F(n, f[n - 1])]
           S == {k \in Nat : \E f : Fills(f, k)}
<1>1. 0 \in S
  <2> DEFINE f == [n \in 0 .. 0 |-> text]
  <2> HIDE DEF F
  <2>1. f = [n \in 0 .. 0 |-> IF n = 0 THEN text ELSE F(n, f[n - 1])]
    OBVIOUS
  <2> HIDE DEF f
  <2>2. Fills(f, 0)
    BY <2>1
  <2> QED
    BY <2>2
<1>2. ASSUME NEW k \in Nat, k \in S
      PROVE  k + 1 \in S
  <2>1. PICK f : Fills(f, k)
    BY <1>2
  <2> HIDE DEF F
  <2> DEFINE l == k + 1
             h == [n \in 0 .. l |-> IF n = l THEN F(l, f[k]) ELSE f[n]]
  <2>2. \A n \in 0 .. l : /\ n # l => n \in 0 .. k
                          /\ n # 0 => n - 1 \in 0 .. l /\ n - 1 # l
                          /\ l # 0 /\ l - 1 = k
    OBVIOUS
  <2> HIDE DEF l
  <2>3. ASSUME NEW n \in 0 .. l
        PROVE  h[n] = IF n = 0 THEN text ELSE F(n, h[n - 1])
    <3>1. CASE n = l
      <4>1. h[n] = F(l, f[k]) /\ h[n - 1] = f[k] /\ n # 0
        BY <2>2, <3>1
      <4> HIDE DEF h
      <4> QED
        BY <3>1, <4>1, Zenon
    <3>2. CASE n # l
      <4>1. h[n] = f[n]
        BY <3>2
      <4>2. n # 0 => h[n - 1] = f[n - 1]
        BY <2>2
      <4>3. f[n] = IF n = 0 THEN text ELSE F(n, f[n - 1])
        BY <2>1, <2>2, <3>2, Zenon
      <4> HIDE DEF h
      <4> QED
        BY <4>1, <4>2, <4>3, Zenon
    <3> QED
      BY <3>1, <3>2
  <2>4. h = [n \in 0 .. l |-> h[n]]
    OBVIOUS
  <2> HIDE DEF h
  <2>5. h = [n \in 0 .. l |-> IF n = 0 THEN text ELSE F(n, h[n - 1])]
    BY <2>3, <2>4, Zenon
  <2>6. Fills(h, l)
    BY <2>5
  <2> HIDE DEF Fills
  <2> QED
    BY <2>6 DEF l
<1>3. Len(args) \in S
  <2> HIDE DEF S
  <2> QED
    BY <1>1, <1>2, Inductive
<1>4. PICK f : Fills(f, Len(args))
  BY <1>3
<1> DEFINE g == Filled(text, args)
<1>5. g = [n \in 0 .. Len(args) |-> IF n = 0 THEN text ELSE F(n, g[n - 1])]
  BY <1>4, Zenon DEF Filled
<1> HIDE DEF g, F
<1>6. 0 \in 0 .. Len(args) /\ \A n \in 1 .. Len(args) : n \in 0 .. Len(args) /\ n # 0
  OBVIOUS
<1>7. g[0] = text
  BY <1>5, <1>6, Zenon
<1>8. ASSUME NEW n \in 1 .. Len(args)
      PROVE  g[n] = Replace(g[n - 1], Placeholder(args[n].key), AsText(args[n].value))
  <2>1. g[n] = F(n, g[n - 1])
    BY <1>5, <1>6, Zenon
  <2> QED
    BY <2>1 DEF F
<1> QED
  BY <1>7, <1>8 DEF g

\* What requests have as arguments.
LEMMA ArgumentsFit ==
    ASSUME NEW args \in Seq(Arguments)
    PROVE  \A i \in 1 .. Len(args) :
             args[i].key \in Seq(Tokens) /\ AsText(args[i].value) \in Seq(Tokens)
<1> SUFFICES ASSUME NEW i \in 1 .. Len(args)
             PROVE  args[i].key \in Seq(Tokens) /\ AsText(args[i].value) \in Seq(Tokens)
  OBVIOUS
<1> DEFINE a == args[i]
<1>1. a \in Arguments
  BY ElementOfSeq
<1>2. Texts \subseteq Seq(Tokens)
  BY RouterAssumption DEF RouterAssumption
<1> HIDE DEF a
<1>3. a.key \in Texts /\ (a.value \in Texts \/ a.value = NotText)
  BY <1>1 DEF Arguments
<1>4. <<>> \in Seq(Tokens)
  BY EmptySeq
<1>5. (a.value = NotText => AsText(a.value) = <<>>) /\ (a.value # NotText => AsText(a.value) = a.value)
  BY DEF AsText
<1>6. a.key \in Seq(Tokens) /\ AsText(a.value) \in Seq(Tokens)
  BY <1>2, <1>3, <1>4, <1>5, Zenon
<1> QED
  BY <1>6 DEF a

\* What is filled in is a text.
LEMMA FillInIsText ==
    ASSUME NEW text \in Seq(Tokens), NEW args \in Seq(Arguments)
    PROVE  FillIn(text, args) \in Seq(Tokens)
<1> DEFINE f == Filled(text, args)
           S == {n \in Nat : n <= Len(args) => f[n] \in Seq(Tokens)}
<1>1. Len(args) \in Nat
  BY LenProperties
<1>2. f[0] = text /\ \A n \in 1 .. Len(args) : f[n] = AtOnce(f[n - 1], {args[n]})
  <2>1. Len(args) \in Nat
    BY <1>1
  <2>2. Filled(text, args)[0] = text
    BY <2>1, FilledFacts
  <2>3. ASSUME NEW n \in 1 .. Len(args)
        PROVE  f[n] = AtOnce(f[n - 1], {args[n]})
    <3>1. f[n] = Replace(f[n - 1], Placeholder(args[n].key), AsText(args[n].value))
      BY <2>1, FilledFacts
    <3> HIDE DEF f
    <3> QED
      BY <3>1, ReplaceIsAtOnce
  <2> QED
    BY <2>2, <2>3
<1> HIDE DEF f
<1>3. 0 \in S
  BY <1>2
<1>4. ASSUME NEW n \in Nat, n \in S
      PROVE  n + 1 \in S
  <2> SUFFICES ASSUME n + 1 <= Len(args)
               PROVE  f[n + 1] \in Seq(Tokens)
    OBVIOUS
  <2>1. n + 1 \in 1 .. Len(args) /\ n + 1 - 1 = n /\ n <= Len(args)
    BY <1>1
  <2>2. Fit({args[n + 1]})
    BY <2>1, ArgumentsFit DEF Fit
  <2> DEFINE m == n + 1
  <2>3. f[m] = AtOnce(f[n], {args[m]}) /\ f[n] \in Seq(Tokens)
    <3>1. m \in 1 .. Len(args) /\ m - 1 = n
      BY <2>1
    <3>2. f[n] \in Seq(Tokens)
      BY <1>4, <2>1
    <3> HIDE DEF m
    <3> QED
      BY <1>2, <3>1, <3>2, Zenon
  <2> QED
    BY <2>2, <2>3, AtOnceIsText
<1>5. Len(args) \in S
  <2> HIDE DEF S
  <2> QED
    BY <1>1, <1>3, <1>4, Inductive
<1>6. f[Len(args)] \in Seq(Tokens)
  BY <1>1, <1>5
<1> QED
  BY <1>6, FillInIsFilled DEF f

\* One argument after the other is all of them at once.
LEMMA FillInIsAtOnce ==
    ASSUME NEW text \in Seq(Tokens), Unnested(text), NEW args \in Seq(Arguments),
           \A i, j \in 1 .. Len(args) : args[i].key = args[j].key => i = j,
           \A i \in 1 .. Len(args) : BraceFree(args[i].key) /\ BraceFree(AsText(args[i].value))
    PROVE  FillIn(text, args) = AtOnce(text, Range(args))
<1> DEFINE f == Filled(text, args)
           A(n) == {args[i] : i \in 1 .. n}
           S == {n \in Nat : n <= Len(args) => f[n] = AtOnce(text, A(n))}
<1>1. Len(args) \in Nat /\ DOMAIN args = 1 .. Len(args)
  BY LenProperties
<1>2. f[0] = text /\ \A n \in 1 .. Len(args) : f[n] = AtOnce(f[n - 1], {args[n]})
  <2>1. Len(args) \in Nat
    BY <1>1
  <2>2. Filled(text, args)[0] = text
    BY <2>1, FilledFacts
  <2>3. ASSUME NEW n \in 1 .. Len(args)
        PROVE  f[n] = AtOnce(f[n - 1], {args[n]})
    <3>1. f[n] = Replace(f[n - 1], Placeholder(args[n].key), AsText(args[n].value))
      BY <2>1, FilledFacts
    <3> HIDE DEF f
    <3> QED
      BY <3>1, ReplaceIsAtOnce
  <2> QED
    BY <2>2, <2>3
<1> HIDE DEF f
<1>3. 0 \in S
  <2>1. A(0) = {}
    OBVIOUS
  <2> QED
    BY <1>2, <2>1, AtOnceOfNothing
<1>4. ASSUME NEW n \in Nat, n \in S
      PROVE  n + 1 \in S
  <2> SUFFICES ASSUME n + 1 <= Len(args)
               PROVE  f[n + 1] = AtOnce(text, A(n + 1))
    OBVIOUS
  <2> DEFINE a == args[n + 1]
  <2>1. n + 1 \in 1 .. Len(args) /\ n + 1 - 1 = n /\ n <= Len(args)
    BY <1>1
  <2>2. f[n + 1] = AtOnce(AtOnce(text, A(n)), {a})
    <3> DEFINE m == n + 1
    <3>1. m \in 1 .. Len(args) /\ m - 1 = n /\ a = args[m]
      BY <2>1
    <3>2. f[n] = AtOnce(text, A(n))
      BY <1>4, <2>1
    <3> HIDE DEF m, a, A
    <3>3. f[m] = AtOnce(AtOnce(text, A(n)), {a})
      BY <1>2, <3>1, <3>2, Zenon
    <3> QED
      BY <3>3 DEF m
  <2>3. \A i \in 1 .. n + 1 : i \in 1 .. Len(args) /\ (i \in 1 .. n \/ i = n + 1)
    BY <2>1
  <2>4. \A i \in 1 .. n : i \in 1 .. n + 1 /\ i # n + 1
    OBVIOUS
  <2>5. A(n + 1) = A(n) \cup {a}
    BY <2>3, <2>4
  <2>6. a \notin A(n)
    <3> SUFFICES ASSUME NEW i \in 1 .. n, args[i] = a
                 PROVE  FALSE
      OBVIOUS
    <3>1. i \in 1 .. Len(args) /\ i # n + 1 /\ args[i].key = args[n + 1].key
      BY <2>3, <2>4
    <3> QED
      BY <2>1, <3>1
  <2>7. Plain(A(n + 1))
    <3>1. Fit(A(n + 1))
      BY <2>3, ArgumentsFit DEF Fit
    <3>2. \A b \in A(n + 1) : BraceFree(b.key) /\ BraceFree(AsText(b.value))
      BY <2>3
    <3>3. \A b, c \in A(n + 1) : b.key = c.key => b = c
      BY <2>3
    <3> HIDE DEF A
    <3> QED
      BY <3>1, <3>2, <3>3 DEF Plain
  <2> HIDE DEF A, a
  <2>8. AtOnce(AtOnce(text, A(n)), {a}) = AtOnce(text, A(n) \cup {a})
    BY <2>5, <2>6, <2>7, OneMore
  <2> QED
    BY <2>2, <2>5, <2>8
<1>5. Len(args) \in S
  <2> HIDE DEF S
  <2> QED
    BY <1>1, <1>3, <1>4, Inductive
<1>6. A(Len(args)) = Range(args)
  BY <1>1 DEF Range
<1>7. f[Len(args)] = AtOnce(text, Range(args))
  <2> HIDE DEF A
  <2> QED
    BY <1>1, <1>5, <1>6
<1> QED
  BY <1>7, FillInIsFilled DEF f

-----------------------------------------------------------------------------
(* The router. *)

\* Who is waited for is the handler of the request.
Dispatched == awaits # "nothing" => awaits = Handler(request)

\* A filled prompt left after every check, and is what FillIn makes of the description.
FilledIn ==
    FilledPrompt => /\ Complete(request) /\ WithinLimits(request)
                    /\ Len(description) <= MaxDescription
                    /\ response.content = FillIn(description, request.args)

IInv == RouterTypeOK /\ Dispatched /\ FilledIn

\* Which requests get to which handler.
LEMMA HandlerFacts ==
    ASSUME NEW req
    PROVE  /\ Handler(req) \in {"nothing", "call_tool", "read_resource", "get_prompt"}
           /\ Handler(req) = "call_tool" => req.method = "tools/call"
           /\ Handler(req) = "read_resource" => req.method = "resources/read"
           /\ Handler(req) = "get_prompt" => req.method = "prompts/get" /\ Complete(req)
<1>1. CASE req.method = "tools/call" /\ req.name # Absent
  BY <1>1 DEF Handler
<1>2. CASE req.method = "resources/read" /\ req.name # Absent
  BY <1>2 DEF Handler
<1>3. CASE /\ req.method = "prompts/get"
           /\ req.name \in Prompts /\ req.args # Absent /\ ~MissingRequired(req)
  <2>1. Handler(req) = "get_prompt"
    BY <1>3 DEF Handler
  <2>2. Complete(req)
    BY <1>3, Zenon DEF Complete, MissingRequired, AsText
  <2> QED
    BY <1>3, <2>1, <2>2
<1>4. CASE /\ ~(req.method = "tools/call" /\ req.name # Absent)
           /\ ~(req.method = "resources/read" /\ req.name # Absent)
           /\ ~(/\ req.method = "prompts/get"
                /\ req.name \in Prompts /\ req.args # Absent /\ ~MissingRequired(req))
  <2>1. Handler(req) = "nothing"
    BY <1>4 DEF Handler
  <2> QED
    BY <2>1
<1> QED
  BY <1>1, <1>2, <1>3, <1>4

\* What is answered at once is an error, or not a prompt.
LEMMA AnswerFacts ==
    ASSUME NEW req
    PROVE  \/ ImmediateAnswer(req).tag = "error" /\ ImmediateAnswer(req).code \in Codes
           \/ ImmediateAnswer(req) = Result(Data) /\ req.method # "prompts/get"
<1>1. CASE req.method = "other"
  BY <1>1 DEF ImmediateAnswer, Error, Codes
<1>2. CASE req.method \in {"tools/call", "resources/read", "prompts/get"}
  BY <1>2 DEF ImmediateAnswer, Error, Codes
<1>3. CASE req.method # "other" /\ req.method \notin {"tools/call", "resources/read", "prompts/get"}
  BY <1>3 DEF ImmediateAnswer
<1> QED
  BY <1>1, <1>2, <1>3

LEMMA InvariantStarts == Init => IInv
  BY DEF Init, IInv, RouterTypeOK, Dispatched, FilledIn, FilledPrompt, NoResponse

\* An answer that is no filled prompt keeps the invariant.
LEMMA OtherAnswers ==
    ASSUME IInv, NEW answer, Respond(answer), awaits # "nothing",
           description' = description \/ description' \in UNION {Descriptions[p] : p \in Prompts},
           \/ answer = Error("INTERNAL_ERROR")
           \/ answer = Result(Data) /\ request.method # "prompts/get"
    PROVE  IInv'
<1>1. /\ response' = answer /\ awaits' = "nothing" /\ request' = request
  BY DEF Respond
<1>2. request # NoRequest
  BY DEF IInv, RouterTypeOK
<1>3. \/ answer.tag = "error" /\ answer.code \in Codes
      \/ answer.tag = "result" /\ answer.content = Data /\ request.method # "prompts/get"
  BY DEF Error, Result, Codes
<1>4. answer # NoResponse
  <2>1. NoResponse.tag = "none"
    BY DEF NoResponse
  <2> QED
    BY <1>3, <2>1
<1>5. RouterTypeOK'
  <2>1. description' \in {<<>>} \cup UNION {Descriptions[p] : p \in Prompts}
    BY DEF IInv, RouterTypeOK
  <2>2. request \in Requests
    BY <1>2 DEF IInv, RouterTypeOK
  <2> QED
    BY <1>1, <1>2, <1>3, <1>4, <2>1, <2>2 DEF RouterTypeOK
<1>6. ~FilledPrompt'
  BY <1>1, <1>3 DEF FilledPrompt
<1> QED
  BY <1>1, <1>5, <1>6 DEF IInv, Dispatched, FilledIn

LEMMA KeptByCall ==
    ASSUME IInv, NEW req \in Requests, Call(req)
    PROVE  IInv'
<1>1. /\ request = NoRequest /\ request' = req /\ awaits' = Handler(req)
      /\ response' = IF Handler(req) = "nothing" THEN ImmediateAnswer(req) ELSE NoResponse
      /\ description' = description
  BY DEF Call
<1>2. req # NoRequest
  BY RouterAssumption DEF RouterAssumption
<1>3. NoResponse.tag = "none"
  BY DEF NoResponse
<1>4. Handler(req) \in {"nothing", "call_tool", "read_resource", "get_prompt"}
  BY HandlerFacts
<1>5. description' \in {<<>>} \cup UNION {Descriptions[p] : p \in Prompts}
  BY <1>1 DEF IInv, RouterTypeOK
<1>6. CASE Handler(req) = "nothing"
  <2>1. response' = ImmediateAnswer(req) /\ awaits' = "nothing"
    BY <1>1, <1>6
  <2>2. \/ response'.tag = "error" /\ response'.code \in Codes
        \/ response'.tag = "result" /\ response'.content = Data /\ req.method # "prompts/get"
    BY <2>1, AnswerFacts DEF Result
  <2>3. response' # NoResponse
    BY <1>3, <2>2
  <2>4. RouterTypeOK'
    BY <1>1, <1>2, <1>5, <2>1, <2>2, <2>3 DEF RouterTypeOK
  <2>5. ~FilledPrompt'
    BY <1>1, <2>2 DEF FilledPrompt
  <2> QED
    BY <2>1, <2>4, <2>5 DEF IInv, Dispatched, FilledIn
<1>7. CASE Handler(req) # "nothing"
  <2>1. response' = NoResponse /\ awaits' = Handler(req) /\ awaits' # "nothing"
    BY <1>1, <1>7
  <2>2. RouterTypeOK'
    BY <1>1, <1>2, <1>4, <1>5, <2>1 DEF RouterTypeOK
  <2>3. ~FilledPrompt'
    BY <1>3, <2>1 DEF FilledPrompt
  <2>4. Dispatched'
    BY <1>1 DEF Dispatched
  <2> QED
    BY <2>2, <2>3, <2>4 DEF IInv, FilledIn
<1> QED
  BY <1>6, <1>7

\* The checks that get_prompt's answer is put through.
LEMMA FitFacts ==
    ASSUME NEW req, req.args \in Seq(Arguments), ~\E i \in DOMAIN req.args : Unfit(req.args[i])
    PROVE  WithinLimits(req)
<1> SUFFICES ASSUME NEW i \in DOMAIN req.args
             PROVE  /\ Len(req.args[i].key) \in 1 .. MaxArgument
                    /\ Len(AsText(req.args[i].value)) <= MaxArgument
                    /\ \A p \in Unsafe : ~Occurs(p, req.args[i].key)
                                         /\ ~Occurs(p, AsText(req.args[i].value))
  BY Zenon DEF WithinLimits
<1> DEFINE a == req.args[i]
           v == AsText(a.value)
<1>1. i \in 1 .. Len(req.args)
  BY LenProperties
<1>2. a.key \in Seq(Tokens) /\ v \in Seq(Tokens)
  BY <1>1, ArgumentsFit
<1>3. ~Unfit(a)
  OBVIOUS
<1> HIDE DEF a
<1>4. /\ a.key # <<>> /\ ~(Len(a.key) > MaxArgument) /\ ~(Len(v) > MaxArgument)
      /\ \A p \in Unsafe : ~Occurs(p, a.key) /\ ~Occurs(p, v)
  BY <1>3, Zenon DEF Unfit
<1> HIDE DEF v
<1>5. MaxArgument \in Nat
  BY RouterAssumption DEF RouterAssumption
<1>6. Len(a.key) \in Nat \ {0} /\ Len(v) \in Nat
  BY <1>2, <1>4, EmptySeq, LenProperties
<1>7. Len(a.key) \in 1 .. MaxArgument /\ Len(v) <= MaxArgument
  BY <1>4, <1>5, <1>6
<1> QED
  BY <1>4, <1>7 DEF a, v

LEMMA KeptByPromptReturns ==
    ASSUME IInv, request # NoRequest, request.name \in Prompts,
           NEW text \in Descriptions[request.name], PromptReturns(text)
    PROVE  IInv'
<1>1. awaits = "get_prompt" /\ description' = text
  BY DEF PromptReturns
<1>2. request.method = "prompts/get" /\ Complete(request)
  BY <1>1, HandlerFacts DEF IInv, Dispatched
<1>3. text \in UNION {Descriptions[p] : p \in Prompts}
  OBVIOUS
<1>4. CASE \/ \E i \in DOMAIN request.args : Unfit(request.args[i])
           \/ Len(text) > MaxDescription
  <2>1. Respond(Error("INTERNAL_ERROR"))
    BY <1>4 DEF PromptReturns
  <2> QED
    BY <1>1, <1>3, <2>1, OtherAnswers
<1>5. CASE /\ ~\E i \in DOMAIN request.args : Unfit(request.args[i])
           /\ ~(Len(text) > MaxDescription)
  <2> DEFINE content == FillIn(text, request.args)
  <2>1. Respond(Result(content))
    BY <1>5, Zenon DEF PromptReturns
  <2>2. request \in Requests /\ request.args # Absent
    BY <1>2 DEF IInv, RouterTypeOK, Complete
  <2>3. request.args \in Seq(Arguments)
    BY <2>2, RouterAssumption DEF RouterAssumption
  <2>4. text \in Seq(Tokens) /\ MaxDescription \in Nat
    BY RouterAssumption DEF RouterAssumption
  <2>5. content \in Seq(Tokens)
    BY <2>3, <2>4, FillInIsText
  <2>6. Len(text) <= MaxDescription
    BY <1>5, <2>4, LenProperties
  <2>7. WithinLimits(request)
    BY <1>5, <2>3, FitFacts
  <2> HIDE DEF content
  <2>8. /\ request' = request /\ awaits' = "nothing" /\ description' = text
        /\ response'.tag = "result" /\ response'.content = content
    BY <1>1, <2>1 DEF Respond, Result
  <2>9. response' # NoResponse
    BY <2>8 DEF NoResponse
  <2>10. RouterTypeOK'
    BY <1>3, <2>2, <2>5, <2>8, <2>9 DEF RouterTypeOK, IInv
  <2>11. FilledIn'
    <3>1. Complete(request)' /\ WithinLimits(request)'
      BY <1>2, <2>7, <2>8, Zenon DEF Complete, WithinLimits
    <3>2. (response.content = FillIn(description, request.args))'
      BY <2>8, Zenon DEF content
    <3> QED
      BY <2>6, <2>8, <3>1, <3>2, Zenon DEF FilledIn
  <2> QED
    BY <2>8, <2>10, <2>11 DEF IInv, Dispatched
<1> QED
  BY <1>4, <1>5

LEMMA Kept == IInv /\ [Next]_vars => IInv'
<1> SUFFICES ASSUME IInv, [Next]_vars PROVE IInv'
  OBVIOUS
<1>1. ASSUME NEW req \in Requests, Call(req) PROVE IInv'
  BY <1>1, KeptByCall
<1>2. CASE ToolReturns
  <2>1. request.method # "prompts/get"
    BY <1>2, HandlerFacts DEF ToolReturns, IInv, Dispatched
  <2> QED
    BY <1>2, <2>1, OtherAnswers DEF ToolReturns
<1>3. CASE ResourceReturns
  <2>1. request.method # "prompts/get"
    BY <1>3, HandlerFacts DEF ResourceReturns, IInv, Dispatched
  <2> QED
    BY <1>3, <2>1, OtherAnswers DEF ResourceReturns
<1>4. CASE PromptFails
  BY <1>4, OtherAnswers DEF PromptFails
<1>5. ASSUME NEW p \in Prompts, request # NoRequest, request.name = p,
             NEW text \in Descriptions[p], PromptReturns(text)
      PROVE  IInv'
  BY <1>5, KeptByPromptReturns
<1>6. CASE UNCHANGED vars
  BY <1>6 DEF vars, IInv, RouterTypeOK, Dispatched, FilledIn, FilledPrompt, Complete, WithinLimits
<1> QED
  BY <1>1, <1>2, <1>3, <1>4, <1>5, <1>6 DEF Next

THEOREM Invariance == Spec => []IInv
<1> QED
  BY InvariantStarts, Kept, PTL DEF Spec

\* Requests, answers and the texts in them are what they should be.
THEOREM TypeCorrect == Spec => []RouterTypeOK
<1>1. IInv => RouterTypeOK
  BY DEF IInv
<1> QED
  BY <1>1, Invariance, PTL

\* get_prompt is asked for complete requests only, and a prompt leaves the router filled
\* in only when every check holds (router.rs:275-364).
THEOREM ChecksComeFirst == Spec => []CheckedInOrder
<1>1. IInv => CheckedInOrder
  BY HandlerFacts DEF IInv, Dispatched, FilledIn, CheckedInOrder
<1> QED
  BY <1>1, Invariance, PTL

\* Filling in one argument after the other, as router.rs:369-374 does, is filling them
\* in at once, for any text and any number of arguments in any order.
THEOREM OrderDoesNotMatter == Spec => []FilledAtOnce
<1>1. IInv => FilledAtOnce
  <2> SUFFICES ASSUME IInv, FilledPrompt, Unnested(description),
                      \A i \in DOMAIN request.args :
                        BraceFree(request.args[i].key) /\ BraceFree(AsText(request.args[i].value))
               PROVE  response.content = AtOnce(description, Range(request.args))
    BY Zenon DEF FilledAtOnce
  <2>1. response.content = FillIn(description, request.args) /\ Complete(request)
    BY DEF IInv, FilledIn
  <2>2. response # NoResponse
    BY DEF FilledPrompt, NoResponse
  <2>3. request \in Requests /\ request.args # Absent
    BY <2>1, <2>2 DEF IInv, RouterTypeOK, Complete
  <2>4. /\ request.args \in Seq(Arguments)
        /\ \A i, j \in DOMAIN request.args : request.args[i].key = request.args[j].key => i = j
    BY <2>3, RouterAssumption DEF RouterAssumption
  <2>5. description \in Seq(Tokens)
    <3>1. <<>> \in Seq(Tokens) /\ \A p \in Prompts : Descriptions[p] \subseteq Seq(Tokens)
      BY RouterAssumption, EmptySeq DEF RouterAssumption
    <3>2. description \in {<<>>} \cup UNION {Descriptions[p] : p \in Prompts}
      BY DEF IInv, RouterTypeOK
    <3> QED
      BY <3>1, <3>2
  <2>6. DOMAIN request.args = 1 .. Len(request.args)
    BY <2>4, LenProperties
  <2> DEFINE args == request.args
  <2>7. FillIn(description, args) = AtOnce(description, Range(args))
    <3>1. args \in Seq(Arguments)
      BY <2>4
    <3>2. \A i, j \in 1 .. Len(args) : args[i].key = args[j].key => i = j
      BY <2>4, <2>6
    <3>3. \A i \in 1 .. Len(args) : BraceFree(args[i].key) /\ BraceFree(AsText(args[i].value))
      BY <2>6
    <3> HIDE DEF args
    <3> QED
      BY <2>5, <3>1, <3>2, <3>3, FillInIsAtOnce
  <2> QED
    BY <2>1, <2>7
<1> QED
  BY <1>1, Invariance, PTL

=============================================================================
