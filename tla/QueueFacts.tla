---------------------------- MODULE QueueFacts -----------------------------
(***************************************************************************)
(* Facts about the FIFO channels and pipes of the models: what a queue     *)
(* holds after an append and after its head is taken.                      *)
(***************************************************************************)
EXTENDS Naturals, Sequences, Functions, SequenceTheorems, TLAPS

\* Appending (mpsc send, write_all) adds the element, and keeps a queue of
\* different elements so.
LEMMA AppendFacts ==
    ASSUME NEW S, NEW s \in Seq(S), NEW e \in S
    PROVE  /\ Append(s, e) \in Seq(S)
           /\ Range(Append(s, e)) = Range(s) \cup {e}
           /\ IsInjective(s) /\ e \notin Range(s) => IsInjective(Append(s, e))
<1> DEFINE t == Append(s, e)
<1>1. /\ t \in Seq(S)
      /\ Len(t) = Len(s) + 1
      /\ \A i \in 1..Len(s) : t[i] = s[i]
      /\ t[Len(s) + 1] = e
  BY AppendProperties
<1>2. DOMAIN s = 1..Len(s) /\ DOMAIN t = 1..(Len(s) + 1) /\ Len(s) \in Nat
  BY <1>1, LenProperties
<1>3. DOMAIN t = DOMAIN s \cup {Len(s) + 1}
  BY <1>2
<1> HIDE DEF t
<1>4. Range(t) = Range(s) \cup {e}
  BY <1>1, <1>2, <1>3 DEF Range
<1>5. IsInjective(s) /\ e \notin Range(s) => IsInjective(t)
  BY <1>1, <1>2, <1>3 DEF Range, IsInjective
<1> QED
  BY <1>1, <1>4, <1>5 DEF t

\* Taking the head (recv, a line read) leaves the other elements.
LEMMA TailFacts ==
    ASSUME NEW S, NEW s \in Seq(S), s # <<>>
    PROVE  /\ Head(s) \in S /\ Head(s) \in Range(s)
           /\ Tail(s) \in Seq(S)
           /\ Range(s) = Range(Tail(s)) \cup {Head(s)}
           /\ IsInjective(s) => IsInjective(Tail(s)) /\ Head(s) \notin Range(Tail(s))
<1> DEFINE t == Tail(s)
<1>1. /\ Head(s) \in S /\ Head(s) = s[1]
      /\ t \in Seq(S)
      /\ Len(t) = Len(s) - 1
      /\ \A i \in 1..Len(t) : t[i] = s[i + 1]
  BY HeadTailProperties
<1>2. DOMAIN s = 1..Len(s) /\ DOMAIN t = 1..(Len(s) - 1) /\ Len(s) \in Nat \ {0}
  BY <1>1, LenProperties, EmptySeq
<1> HIDE DEF t
<1>3. \A i \in DOMAIN t : i + 1 \in DOMAIN s /\ i + 1 # 1 /\ t[i] = s[i + 1]
  BY <1>1, <1>2
<1>4. \A i \in DOMAIN s : i = 1 \/ (i - 1 \in DOMAIN t /\ s[i] = t[i - 1])
  BY <1>1, <1>2
<1>5. 1 \in DOMAIN s
  BY <1>2
<1>6. Range(s) \subseteq Range(t) \cup {Head(s)}
  BY <1>1, <1>4 DEF Range
<1>7. Range(t) \cup {Head(s)} \subseteq Range(s)
  BY <1>1, <1>3, <1>5 DEF Range
<1>8. ASSUME IsInjective(s)
      PROVE  IsInjective(t) /\ Head(s) \notin Range(t)
  <2>1. ASSUME NEW i \in DOMAIN t, NEW j \in DOMAIN t, t[i] = t[j]
        PROVE  i = j
    <3>1. i + 1 = j + 1
      BY <1>3, <1>8, <2>1 DEF IsInjective
    <3> QED
      BY <1>2, <3>1
  <2>2. Head(s) \notin Range(t)
    BY <1>1, <1>3, <1>5, <1>8 DEF Range, IsInjective
  <2> QED
    BY <2>1, <2>2 DEF IsInjective
<1> QED
  BY <1>1, <1>6, <1>7, <1>8 DEF t, Range

\* A queue is a queue of any set that has its elements.
LEMMA QueueOfFacts ==
    ASSUME NEW S, NEW s \in Seq(S), NEW T, Range(s) \subseteq T
    PROVE  s \in Seq(T)
  BY SeqOfRange, SeqMonotonic

\* The elements of a queue are of the set it is a queue of.
LEMMA RangeFacts ==
    ASSUME NEW S, NEW s \in Seq(S)
    PROVE  Range(s) \subseteq S
  BY ElementOfSeq, LenProperties DEF Range

\* An empty queue holds nothing.
LEMMA EmptyFacts ==
    ASSUME NEW S
    PROVE  <<>> \in Seq(S) /\ Range(<<>>) = {} /\ IsInjective(<<>>)
  BY DEF Range, IsInjective

\* A queue of one or two elements.
LEMMA ShortFacts ==
    ASSUME NEW S, NEW a \in S, NEW b \in S
    PROVE  /\ <<a>> \in Seq(S) /\ Len(<<a>>) = 1 /\ <<a>>[1] = a
           /\ <<a, b>> \in Seq(S) /\ Len(<<a, b>>) = 2
           /\ <<a, b>>[1] = a /\ <<a, b>>[2] = b
  OBVIOUS

\* Where the elements are after an append.
LEMMA AppendPlaces ==
    ASSUME NEW S, NEW s \in Seq(S), NEW e \in S
    PROVE  /\ Append(s, e) \in Seq(S) /\ Len(Append(s, e)) = Len(s) + 1
           /\ DOMAIN Append(s, e) = 1..(Len(s) + 1)
           /\ \A k \in DOMAIN s : k \in DOMAIN Append(s, e) /\ Append(s, e)[k] = s[k]
           /\ Len(s) + 1 \in DOMAIN Append(s, e) /\ Append(s, e)[Len(s) + 1] = e
           /\ \A k \in DOMAIN Append(s, e) : k \in DOMAIN s \/ k = Len(s) + 1
<1> DEFINE t == Append(s, e)
<1>1. /\ t \in Seq(S) /\ Len(t) = Len(s) + 1
      /\ \A k \in 1..Len(s) : t[k] = s[k]
      /\ t[Len(s) + 1] = e
  BY AppendProperties
<1>2. DOMAIN s = 1..Len(s) /\ DOMAIN t = 1..(Len(s) + 1) /\ Len(s) \in Nat
  BY <1>1, LenProperties
<1> HIDE DEF t
<1> QED
  BY <1>1, <1>2 DEF t

\* Where they are after two elements are appended at once.
LEMMA PairPlaces ==
    ASSUME NEW S, NEW s \in Seq(S), NEW a \in S, NEW b \in S
    PROVE  /\ s \o <<a, b>> \in Seq(S) /\ Len(s \o <<a, b>>) = Len(s) + 2
           /\ DOMAIN (s \o <<a, b>>) = 1..(Len(s) + 2)
           /\ \A k \in DOMAIN s : k \in DOMAIN (s \o <<a, b>>) /\ (s \o <<a, b>>)[k] = s[k]
           /\ (s \o <<a, b>>)[Len(s) + 1] = a /\ (s \o <<a, b>>)[Len(s) + 2] = b
           /\ \A k \in DOMAIN (s \o <<a, b>>) :
                k \in DOMAIN s \/ k = Len(s) + 1 \/ k = Len(s) + 2
<1> DEFINE u == <<a, b>>
           t == s \o u
<1>1. u \in Seq(S) /\ Len(u) = 2 /\ u[1] = a /\ u[2] = b
  BY ShortFacts
<1> HIDE DEF u
<1>2. /\ t \in Seq(S) /\ Len(t) = Len(s) + Len(u)
      /\ \A k \in 1..(Len(s) + Len(u)) : t[k] = IF k <= Len(s) THEN s[k] ELSE u[k - Len(s)]
  BY <1>1, ConcatProperties
<1> HIDE DEF t
<1>3. DOMAIN s = 1..Len(s) /\ DOMAIN t = 1..(Len(s) + 2) /\ Len(s) \in Nat
  BY <1>1, <1>2, LenProperties
<1>4. t[Len(s) + 1] = a /\ t[Len(s) + 2] = b
  BY <1>1, <1>2, <1>3
<1>5. \A k \in DOMAIN s : k \in DOMAIN t /\ t[k] = s[k]
  BY <1>2, <1>3
<1>6. \A k \in DOMAIN t : k \in DOMAIN s \/ k = Len(s) + 1 \/ k = Len(s) + 2
  BY <1>3
<1> QED
  BY <1>2, <1>3, <1>4, <1>5, <1>6 DEF t, u

\* What stays of a queue whose first n elements are taken.
LEMMA RestPlaces ==
    ASSUME NEW S, NEW s \in Seq(S), NEW n \in 1..Len(s)
    PROVE  LET t == SubSeq(s, n + 1, Len(s))
           IN  /\ t \in Seq(S) /\ Len(t) = Len(s) - n /\ DOMAIN t = 1..(Len(s) - n)
               /\ \A k \in DOMAIN t : n + k \in DOMAIN s /\ t[k] = s[n + k]
<1> DEFINE t == SubSeq(s, n + 1, Len(s))
<1>1. Len(s) \in Nat /\ DOMAIN s = 1..Len(s) /\ n \in Nat /\ n >= 1 /\ n <= Len(s)
  BY LenProperties
<1>2. \A i \in (n + 1)..Len(s) : s[i] \in S
  BY <1>1, ElementOfSeq
<1>3. /\ t \in Seq(S)
      /\ Len(t) = IF n + 1 <= Len(s) THEN Len(s) - (n + 1) + 1 ELSE 0
      /\ \A k \in 1..(Len(s) - (n + 1) + 1) : t[k] = s[(n + 1) + k - 1]
  BY <1>1, <1>2, SubSeqProperties
<1> HIDE DEF t
<1>4. Len(t) = Len(s) - n
  <2>1. CASE n + 1 <= Len(s)
    BY <1>1, <1>3, <2>1
  <2>2. CASE ~(n + 1 <= Len(s))
    <3>0. \A l, k \in Nat : k <= l /\ ~(k + 1 <= l) => l - k = 0
      OBVIOUS
    <3>1. Len(s) - n = 0
      BY <1>1, <2>2, <3>0
    <3>2. Len(t) = 0
      BY <1>3, <2>2, Zenon
    <3> QED
      BY <3>1, <3>2
  <2> QED
    BY <2>1, <2>2
<1>5. DOMAIN t = 1..(Len(s) - n)
  BY <1>3, <1>4, LenProperties
<1>6. ASSUME NEW k \in DOMAIN t
      PROVE  n + k \in DOMAIN s /\ t[k] = s[n + k]
  <2>1. k \in Nat /\ k >= 1 /\ k <= Len(s) - n
    BY <1>1, <1>5
  <2>2. (n + 1) + k - 1 = n + k /\ k \in 1..(Len(s) - (n + 1) + 1) /\ n + k \in 1..Len(s)
    BY <1>1, <2>1
  <2>3. t[k] = s[(n + 1) + k - 1]
    BY <1>3, <2>2
  <2> QED
    BY <1>1, <2>2, <2>3
<1> QED
  BY <1>3, <1>4, <1>5, <1>6 DEF t

\* The part of a queue from place m to place n.
LEMMA PartPlaces ==
    ASSUME NEW S, NEW s \in Seq(S), NEW m \in Nat, m >= 1, NEW n \in Nat, n <= Len(s), m <= n + 1
    PROVE  LET t == SubSeq(s, m, n)
           IN  /\ t \in Seq(S) /\ Len(t) = n - m + 1 /\ DOMAIN t = 1..(n - m + 1)
               /\ \A k \in 1..(n - m + 1) : t[k] = s[m + k - 1]
<1> DEFINE t == SubSeq(s, m, n)
<1>1. Len(s) \in Nat /\ DOMAIN s = 1..Len(s) /\ \A i \in 1..Len(s) : s[i] \in S
  BY LenProperties, ElementOfSeq
<1>2. \A i \in m..n : s[i] \in S
  BY <1>1
<1>3. /\ t \in Seq(S)
      /\ Len(t) = IF m <= n THEN n - m + 1 ELSE 0
      /\ \A k \in 1..(n - m + 1) : t[k] = s[m + k - 1]
  BY <1>2, SubSeqProperties
<1> HIDE DEF t
<1>4. Len(t) = n - m + 1
  <2>1. CASE m <= n
    BY <1>3, <2>1
  <2>2. CASE ~(m <= n)
    <3>1. n - m + 1 = 0
      BY <2>2
    <3>2. Len(t) = 0
      BY <1>3, <2>2, Zenon
    <3> QED
      BY <3>1, <3>2
  <2> QED
    BY <2>1, <2>2
<1>5. DOMAIN t = 1..(n - m + 1)
  BY <1>3, <1>4, LenProperties
<1> QED
  BY <1>3, <1>4, <1>5 DEF t

\* An append leaves the parts of a queue as they are.
LEMMA PartOfAppend ==
    ASSUME NEW S, NEW s \in Seq(S), NEW e \in S,
           NEW m \in Nat, m >= 1, NEW n \in Nat, n <= Len(s), m <= n + 1
    PROVE  SubSeq(Append(s, e), m, n) = SubSeq(s, m, n)
<1> DEFINE u == Append(s, e)
           t == SubSeq(s, m, n)
           v == SubSeq(u, m, n)
<1>1. /\ u \in Seq(S) /\ Len(u) = Len(s) + 1
      /\ \A k \in DOMAIN s : u[k] = s[k]
  BY AppendPlaces
<1>2. Len(s) \in Nat /\ DOMAIN s = 1..Len(s)
  BY LenProperties
<1>3. t \in Seq(S) /\ Len(t) = n - m + 1 /\ \A k \in 1..(n - m + 1) : t[k] = s[m + k - 1]
  BY PartPlaces
<1> HIDE DEF t, u
<1>4. n <= Len(u)
  BY <1>1, <1>2
<1>5. v \in Seq(S) /\ Len(v) = n - m + 1 /\ \A k \in 1..(n - m + 1) : v[k] = u[m + k - 1]
  BY <1>1, <1>4, PartPlaces
<1> HIDE DEF v
<1>6. \A k \in 1..Len(t) : t[k] = v[k]
  <2> SUFFICES ASSUME NEW k \in 1..Len(t) PROVE t[k] = v[k]
    OBVIOUS
  <2>1. k \in 1..(n - m + 1) /\ m + k - 1 \in DOMAIN s
    BY <1>2, <1>3
  <2> QED
    BY <1>1, <1>3, <1>5, <2>1
<1>7. t = v
  BY <1>3, <1>5, <1>6, SeqEqual
<1> QED
  BY <1>7 DEF t, u, v

\* Taking the head of the part that follows the first n elements adds it to them.
LEMMA PartMoves ==
    ASSUME NEW S, NEW s \in Seq(S), NEW n \in Nat, NEW l \in Nat, n + 1 <= l, l <= Len(s)
    PROVE  LET t == SubSeq(s, n + 1, l)
           IN  /\ t # <<>> /\ Head(t) = s[n + 1] /\ Tail(t) = SubSeq(s, n + 1 + 1, l)
               /\ Range(SubSeq(s, 1, n + 1)) = Range(SubSeq(s, 1, n)) \cup {s[n + 1]}
<1> DEFINE t == SubSeq(s, n + 1, l)
           u == SubSeq(s, n + 1 + 1, l)
           a == SubSeq(s, 1, n)
           b == SubSeq(s, 1, n + 1)
<1>1. Len(s) \in Nat /\ n + 1 \in Nat /\ n + 1 + 1 \in Nat
  BY LenProperties
<1>2. /\ t \in Seq(S) /\ Len(t) = l - (n + 1) + 1
      /\ \A k \in 1..(l - (n + 1) + 1) : t[k] = s[n + 1 + k - 1]
  <2>1. n + 1 >= 1 /\ n + 1 <= l + 1
    BY <1>1
  <2> QED
    BY <1>1, <2>1, PartPlaces
<1>3. /\ u \in Seq(S) /\ Len(u) = l - (n + 1 + 1) + 1
      /\ \A k \in 1..(l - (n + 1 + 1) + 1) : u[k] = s[n + 1 + 1 + k - 1]
  <2>1. n + 1 + 1 >= 1 /\ n + 1 + 1 <= l + 1
    BY <1>1
  <2> QED
    BY <1>1, <2>1, PartPlaces
<1>4. /\ a \in Seq(S) /\ DOMAIN a = 1..(n - 1 + 1)
      /\ \A k \in 1..(n - 1 + 1) : a[k] = s[1 + k - 1]
  <2>1. n <= Len(s) /\ 1 <= n + 1 /\ 1 \in Nat /\ 1 >= 1
    BY <1>1
  <2> QED
    BY <2>1, PartPlaces
<1>5. /\ b \in Seq(S) /\ DOMAIN b = 1..(n + 1 - 1 + 1)
      /\ \A k \in 1..(n + 1 - 1 + 1) : b[k] = s[1 + k - 1]
  <2>1. n + 1 <= Len(s) /\ 1 <= n + 1 + 1 /\ 1 \in Nat /\ 1 >= 1
    BY <1>1
  <2> QED
    BY <1>1, <2>1, PartPlaces
<1> HIDE DEF t, u, a, b
<1>6. Len(t) >= 1 /\ t # <<>> /\ t[1] = s[n + 1]
  BY <1>1, <1>2, EmptySeq
<1>7. /\ Head(t) = t[1] /\ Tail(t) \in Seq(S) /\ Len(Tail(t)) = Len(t) - 1
      /\ \A k \in 1..Len(Tail(t)) : Tail(t)[k] = t[k + 1]
  BY <1>2, <1>6, HeadTailProperties
<1>8. Len(Tail(t)) = Len(u)
  BY <1>1, <1>2, <1>3, <1>7
<1>9. ASSUME NEW k \in 1..Len(Tail(t))
      PROVE  Tail(t)[k] = u[k]
  <2>1. /\ k + 1 \in 1..(l - (n + 1) + 1) /\ k \in 1..(l - (n + 1 + 1) + 1)
        /\ n + 1 + (k + 1) - 1 = n + 1 + 1 + k - 1
    BY <1>1, <1>2, <1>7
  <2> QED
    BY <1>2, <1>3, <1>7, <2>1
<1>10. Tail(t) = u
  BY <1>3, <1>7, <1>8, <1>9, SeqEqual
<1>11. /\ DOMAIN a = 1..n /\ DOMAIN b = 1..(n + 1)
       /\ \A k \in 1..n : a[k] = s[k]
       /\ \A k \in 1..(n + 1) : b[k] = s[k]
       /\ 1..(n + 1) = (1..n) \cup {n + 1}
  BY <1>4, <1>5
<1>12. Range(b) = Range(a) \cup {s[n + 1]}
  BY <1>11 DEF Range
<1> QED
  BY <1>6, <1>7, <1>10, <1>12 DEF t, u, a, b

\* Taking an element from anywhere in a queue of different ones leaves the others.
LEMMA RemoveFacts ==
    ASSUME NEW S, NEW s \in Seq(S), IsInjective(s), NEW i \in DOMAIN s
    PROVE  LET t == SubSeq(s, 1, i - 1) \o SubSeq(s, i + 1, Len(s))
           IN  t \in Seq(S) /\ IsInjective(t) /\ Range(t) = Range(s) \ {s[i]}
<1> DEFINE a == SubSeq(s, 1, i - 1)
           b == SubSeq(s, i + 1, Len(s))
           t == a \o b
<1>1. /\ Len(s) \in Nat /\ DOMAIN s = 1..Len(s) /\ i \in Nat /\ i >= 1 /\ i <= Len(s)
      /\ \A k \in 1..Len(s) : s[k] \in S
  BY LenProperties, ElementOfSeq
<1>2. i - 1 \in Nat /\ i + 1 \in Nat
  BY <1>1
<1>3. \A k \in 1..(i - 1) : s[k] \in S
  BY <1>1
<1>5. /\ a \in Seq(S) /\ Len(a) = IF 1 <= i - 1 THEN i - 1 - 1 + 1 ELSE 0
      /\ \A k \in 1..(i - 1 - 1 + 1) : a[k] = s[1 + k - 1]
  BY <1>2, <1>3, SubSeqProperties
<1>6. /\ b \in Seq(S) /\ Len(b) = Len(s) - i /\ DOMAIN b = 1..(Len(s) - i)
      /\ \A k \in DOMAIN b : b[k] = s[i + k]
  BY <1>1, RestPlaces
<1> HIDE DEF a, b
<1>7. Len(a) = i - 1 /\ \A k \in Nat : k >= 1 /\ k < i => a[k] = s[k]
  BY <1>1, <1>5
<1>8. Len(b) = Len(s) - i /\ \A k \in Nat : k >= 1 /\ k <= Len(s) - i => b[k] = s[i + k]
  BY <1>1, <1>6
<1>9. /\ t \in Seq(S) /\ Len(t) = Len(s) - 1
      /\ \A k \in 1..(Len(a) + Len(b)) : t[k] = IF k <= Len(a) THEN a[k] ELSE b[k - Len(a)]
  <2>1. /\ t \in Seq(S) /\ Len(t) = Len(a) + Len(b)
        /\ \A k \in 1..(Len(a) + Len(b)) : t[k] = IF k <= Len(a) THEN a[k] ELSE b[k - Len(a)]
    BY <1>5, <1>6, ConcatProperties
  <2>2. Len(a) + Len(b) = Len(s) - 1
    BY <1>1, <1>7, <1>8
  <2> QED
    BY <2>1, <2>2
<1> HIDE DEF t
<1>10. DOMAIN t = 1..(Len(s) - 1)
  BY <1>9, LenProperties
<1>11. \A k \in DOMAIN t : t[k] = IF k < i THEN s[k] ELSE s[k + 1]
  <2> SUFFICES ASSUME NEW k \in DOMAIN t
               PROVE  t[k] = IF k < i THEN s[k] ELSE s[k + 1]
    OBVIOUS
  <2>1. k \in Nat /\ k >= 1 /\ k <= Len(s) - 1 /\ k \in 1..(Len(a) + Len(b))
    BY <1>1, <1>7, <1>8, <1>10
  <2>2. CASE k < i
    BY <1>1, <1>7, <1>9, <2>1, <2>2
  <2>3. CASE ~(k < i)
    <3>1. k - Len(a) \in Nat /\ k - Len(a) >= 1 /\ k - Len(a) <= Len(s) - i
          /\ i + (k - Len(a)) = k + 1 /\ ~(k <= Len(a))
      BY <1>1, <1>7, <2>1, <2>3
    <3> QED
      BY <1>8, <1>9, <2>1, <2>3, <3>1
  <2> QED
    BY <2>2, <2>3
<1>12. \A k \in DOMAIN t : \E j \in DOMAIN s : /\ j # i /\ t[k] = s[j]
                                            /\ k = IF j < i THEN j ELSE j - 1
  BY <1>1, <1>10, <1>11
<1>13. \A j \in DOMAIN s : j # i => \E k \in DOMAIN t : t[k] = s[j]
  <2> SUFFICES ASSUME NEW j \in DOMAIN s, j # i
               PROVE  \E k \in DOMAIN t : t[k] = s[j]
    OBVIOUS
  <2>1. CASE j < i
    BY <1>1, <1>10, <1>11, <2>1
  <2>2. CASE j > i
    <3>1. j - 1 \in DOMAIN t /\ ~(j - 1 < i) /\ j - 1 + 1 = j
      BY <1>1, <1>10, <2>2
    <3> QED
      BY <1>11, <3>1
  <2> QED
    BY <1>1, <2>1, <2>2
<1>14. IsInjective(t)
  <2> SUFFICES ASSUME NEW k \in DOMAIN t, NEW m \in DOMAIN t, t[k] = t[m]
               PROVE  k = m
    BY DEF IsInjective
  <2>1. PICK j \in DOMAIN s : t[k] = s[j] /\ k = IF j < i THEN j ELSE j - 1
    BY <1>12
  <2>2. PICK n \in DOMAIN s : t[m] = s[n] /\ m = IF n < i THEN n ELSE n - 1
    BY <1>12
  <2>3. j = n
    BY <2>1, <2>2 DEF IsInjective
  <2> QED
    BY <2>1, <2>2, <2>3
<1>15. Range(t) = Range(s) \ {s[i]}
  BY <1>12, <1>13 DEF Range, IsInjective
<1> QED
  BY <1>9, <1>14, <1>15 DEF t, a, b

\* What comes out when one or two elements are taken and joined to others.
LEMMA FirstPlaces ==
    ASSUME NEW S, NEW s \in Seq(S), NEW a \in S, NEW b \in S
    PROVE  /\ Len(s) >= 1 /\ s[1] = a =>
                <<>> \o SubSeq(s, 1, 1) = <<a>> /\ <<b>> \o SubSeq(s, 1, 1) = <<b, a>>
           /\ Len(s) >= 2 /\ s[1] = a /\ s[2] = b => <<>> \o SubSeq(s, 1, 2) = <<a, b>>
<1>1. Len(s) \in Nat /\ DOMAIN s = 1..Len(s) /\ \A i \in 1..Len(s) : s[i] \in S
  BY LenProperties, ElementOfSeq
<1>2. ASSUME Len(s) >= 1, s[1] = a
      PROVE  SubSeq(s, 1, 1) = <<a>>
  <2> DEFINE t == SubSeq(s, 1, 1)
             u == <<a>>
  <2>1. \A i \in 1..1 : s[i] \in S
    BY <1>1, <1>2
  <2>2. /\ t \in Seq(S) /\ Len(t) = IF 1 <= 1 THEN 1 - 1 + 1 ELSE 0
        /\ \A k \in 1..(1 - 1 + 1) : t[k] = s[1 + k - 1]
    BY <2>1, SubSeqProperties
  <2>3. u \in Seq(S) /\ Len(u) = 1 /\ u[1] = a
    BY ShortFacts
  <2> HIDE DEF t, u
  <2>4. Len(t) = 1 /\ t[1] = s[1]
    BY <2>2
  <2>5. t = u
    BY <1>2, <2>2, <2>3, <2>4, SeqEqual
  <2> QED
    BY <2>5 DEF t, u
<1>3. ASSUME Len(s) >= 2, s[1] = a, s[2] = b
      PROVE  SubSeq(s, 1, 2) = <<a, b>>
  <2> DEFINE t == SubSeq(s, 1, 2)
             u == <<a, b>>
  <2>1. \A i \in 1..2 : s[i] \in S
    BY <1>1, <1>3
  <2>2. /\ t \in Seq(S) /\ Len(t) = IF 1 <= 2 THEN 2 - 1 + 1 ELSE 0
        /\ \A k \in 1..(2 - 1 + 1) : t[k] = s[1 + k - 1]
    BY <2>1, SubSeqProperties
  <2>3. u \in Seq(S) /\ Len(u) = 2 /\ u[1] = a /\ u[2] = b
    BY ShortFacts
  <2> HIDE DEF t, u
  <2>4. Len(t) = 2 /\ t[1] = s[1] /\ t[2] = s[2]
    BY <2>2
  <2>5. \A k \in 1..Len(t) : t[k] = u[k]
    BY <1>3, <2>3, <2>4
  <2>6. t = u
    BY <2>2, <2>3, <2>4, <2>5, SeqEqual
  <2> QED
    BY <2>6 DEF t, u
<1>4. <<b>> \o <<a>> = <<b, a>>
  <2> DEFINE p == <<b>>
             q == <<a>>
             u == <<b, a>>
  <2>1. /\ p \in Seq(S) /\ Len(p) = 1 /\ p[1] = b
        /\ q \in Seq(S) /\ Len(q) = 1 /\ q[1] = a
        /\ u \in Seq(S) /\ Len(u) = 2 /\ u[1] = b /\ u[2] = a
    BY ShortFacts
  <2> HIDE DEF p, q, u
  <2>2. /\ p \o q \in Seq(S) /\ Len(p \o q) = Len(p) + Len(q)
        /\ \A i \in 1..(Len(p) + Len(q)) :
            (p \o q)[i] = IF i <= Len(p) THEN p[i] ELSE q[i - Len(p)]
    BY <2>1, ConcatProperties
  <2>3. Len(p \o q) = 2 /\ (p \o q)[1] = b /\ (p \o q)[2] = a
    BY <2>1, <2>2
  <2>4. p \o q = u
    BY <2>1, <2>2, <2>3, SeqEqual
  <2> QED
    BY <2>4 DEF p, q, u
<1>5. <<>> \o <<a>> = <<a>> /\ <<>> \o <<a, b>> = <<a, b>>
  BY ShortFacts, ConcatEmptySeq
<1> QED
  BY <1>2, <1>3, <1>4, <1>5

=============================================================================
