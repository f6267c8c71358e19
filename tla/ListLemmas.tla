------------------------------ MODULE ListLemmas ------------------------------
(* What unlinking, prepending, appending and reversing do to the elements of *)
(* a list, and that they keep a list a list; and what is added to a sequence *)
(* of numbered pieces.  The facts on sequences that they rest on come first: *)
(* the proofs that extend this module are faster without a library of them.  *)
EXTENDS Lists, TLAPS

LEMMA Elements ==
  ASSUME NEW S, NEW s \in Seq(S)
  PROVE  /\ Len(s) \in Nat /\ DOMAIN s = 1 .. Len(s)
         /\ \A i \in 1 .. Len(s) : s[i] \in S
         /\ s = <<>> <=> Len(s) = 0
OBVIOUS

LEMMA PartLemma ==
  ASSUME NEW S, NEW s, NEW m \in Int, NEW n \in Int, \A i \in m .. n : s[i] \in S
  PROVE  /\ SubSeq(s, m, n) \in Seq(S)
         /\ Len(SubSeq(s, m, n)) = IF m <= n THEN n - m + 1 ELSE 0
         /\ \A i \in 1 .. n - m + 1 : SubSeq(s, m, n)[i] = s[m + i - 1]
<1>1. SubSeq(s, m, n) = [i \in 1 .. 1 + n - m |-> s[i + m - 1]]
  OBVIOUS
<1>2. Len(SubSeq(s, m, n)) = IF m <= n THEN n - m + 1 ELSE 0
  OBVIOUS
<1>3. \A i \in 1 .. n - m + 1 : SubSeq(s, m, n)[i] = s[m + i - 1]
  OBVIOUS
<1>4. SubSeq(s, m, n) \in Seq(S)
  BY <1>1
<1> QED BY <1>2, <1>3, <1>4

LEMMA ConcatElements ==
  ASSUME NEW S, NEW s \in Seq(S), NEW t \in Seq(S)
  PROVE  /\ s \o t \in Seq(S)
         /\ Len(s \o t) = Len(s) + Len(t)
         /\ \A i \in 1 .. Len(s) + Len(t) : (s \o t)[i] = IF i <= Len(s) THEN s[i] ELSE t[i - Len(s)]
<1>1. s \o t \in Seq(S)
  OBVIOUS
<1>2. Len(s \o t) = Len(s) + Len(t)
  OBVIOUS
<1>3. \A i \in 1 .. Len(s) + Len(t) : (s \o t)[i] = IF i <= Len(s) THEN s[i] ELSE t[i - Len(s)]
  OBVIOUS
<1> QED BY <1>1, <1>2, <1>3

LEMMA AppendElements ==
  ASSUME NEW S, NEW s \in Seq(S), NEW e \in S
  PROVE  /\ Append(s, e) \in Seq(S) /\ Len(Append(s, e)) = Len(s) + 1
         /\ \A i \in 1 .. Len(s) : Append(s, e)[i] = s[i]
         /\ Append(s, e)[Len(s) + 1] = e
OBVIOUS

\* Removing one position of a list removes its element, and nothing else.
LEMMA UnlinkLemma ==
  ASSUME NEW S, NEW l \in List(S), NEW e \in Range(l)
  PROVE  /\ Unlink(l, e) \in List(S)
         /\ Range(Unlink(l, e)) = Range(l) \ {e}
         /\ Len(Unlink(l, e)) = Len(l) - 1
<1> DEFINE k == CHOOSE i \in DOMAIN l : l[i] = e
           a == SubSeq(l, 1, k - 1)
           b == SubSeq(l, k + 1, Len(l))
           u == a \o b
<1>1. l \in Seq(S) /\ Len(l) \in Nat /\ DOMAIN l = 1 .. Len(l)
      /\ \A i \in 1 .. Len(l) : l[i] \in S
  BY Elements DEF List
<1>2. k \in 1 .. Len(l) /\ l[k] = e
  BY <1>1 DEF Range
<1> HIDE DEF k
<1>3. /\ a \in Seq(S) /\ Len(a) = k - 1
      /\ \A i \in 1 .. k - 1 : a[i] = l[i]
  BY <1>1, <1>2, PartLemma, 1 \in Int, k - 1 \in Int
<1>4. /\ b \in Seq(S) /\ Len(b) = Len(l) - k
      /\ \A i \in 1 .. Len(l) - k : b[i] = l[k + i]
  <2>1. k + 1 \in Int /\ Len(l) \in Int /\ \A i \in k + 1 .. Len(l) : l[i] \in S
    BY <1>1, <1>2
  <2>2. /\ b \in Seq(S) /\ Len(b) = IF k + 1 <= Len(l) THEN Len(l) - (k + 1) + 1 ELSE 0
        /\ \A i \in 1 .. Len(l) - (k + 1) + 1 : b[i] = l[k + 1 + i - 1]
    BY <2>1, PartLemma
  <2> HIDE DEF b
  <2>3. Len(b) = Len(l) - k
    <3>1. Len(l) \in Nat /\ k \in Nat /\ k <= Len(l)
      BY <1>1, <1>2
    <3>2. CASE k = Len(l)
      BY <2>2, <3>1, <3>2
    <3>3. CASE k < Len(l)
      BY <2>2, <3>1, <3>3
    <3> QED BY <3>1, <3>2, <3>3
  <2>4. ASSUME NEW i \in 1 .. Len(l) - k
        PROVE  b[i] = l[k + i]
    <3>1. i \in 1 .. Len(l) - (k + 1) + 1 /\ k + 1 + i - 1 = k + i
      BY <1>1, <1>2
    <3> QED BY <2>2, <3>1
  <2> QED BY <2>2, <2>3, <2>4
<1> HIDE DEF a, b
<1>5. /\ u \in Seq(S) /\ Len(u) = Len(l) - 1 /\ DOMAIN u = 1 .. Len(l) - 1
      /\ \A i \in 1 .. Len(l) - 1 : u[i] = IF i < k THEN l[i] ELSE l[i + 1]
  <2>1. /\ u \in Seq(S) /\ Len(u) = Len(a) + Len(b)
        /\ \A i \in 1 .. Len(a) + Len(b) : u[i] = IF i <= Len(a) THEN a[i] ELSE b[i - Len(a)]
    BY <1>3, <1>4, ConcatElements, Zenon
  <2>2. DOMAIN u = 1 .. Len(u)
    BY <2>1, Elements
  <2> HIDE DEF u
  <2>3. Len(a) + Len(b) = Len(l) - 1
    BY <1>1, <1>2, <1>3, <1>4
  <2>4. ASSUME NEW i \in 1 .. Len(l) - 1
        PROVE  u[i] = IF i < k THEN l[i] ELSE l[i + 1]
    <3>1. CASE i < k
      <4>1. i \in 1 .. k - 1 /\ i <= Len(a) /\ i \in 1 .. Len(a) + Len(b)
        BY <3>1, <2>3, <1>1, <1>2, <1>3
      <4> QED BY <4>1, <3>1, <2>1, <1>3
    <3>2. CASE ~(i < k)
      <4>1. /\ i - Len(a) \in 1 .. Len(l) - k /\ ~(i <= Len(a)) /\ i \in 1 .. Len(a) + Len(b)
            /\ k + (i - Len(a)) = i + 1
        BY <3>2, <2>3, <1>1, <1>2, <1>3
      <4>2. u[i] = b[i - Len(a)]
        BY <4>1, <2>1
      <4>3. b[i - Len(a)] = l[k + (i - Len(a))]
        BY <4>1, <1>4
      <4> QED BY <4>1, <4>2, <4>3, <3>2
    <3> QED BY <3>1, <3>2
  <2> QED BY <2>1, <2>2, <2>3, <2>4
<1> HIDE DEF u
<1>6. \A i, j \in 1 .. Len(l) : l[i] = l[j] => i = j
  BY <1>1 DEF List, IsInjective
<1>7. IsInjective(u)
  BY <1>1, <1>2, <1>5, <1>6 DEF IsInjective
<1>8. \A x \in Range(u) : x \in Range(l) \ {e}
  <2> SUFFICES ASSUME NEW i \in 1 .. Len(l) - 1
               PROVE  u[i] \in Range(l) \ {e}
    BY <1>5 DEF Range
  <2>1. PICK j \in 1 .. Len(l) : j # k /\ u[i] = l[j]
    BY <1>1, <1>2, <1>5
  <2>2. l[j] # e
    BY <1>2, <1>6, <2>1
  <2> QED BY <1>1, <2>1, <2>2 DEF Range
<1>9. \A x \in Range(l) \ {e} : x \in Range(u)
  <2> SUFFICES ASSUME NEW i \in 1 .. Len(l), l[i] # e
               PROVE  l[i] \in Range(u)
    BY <1>1 DEF Range
  <2>1. CASE i < k
    BY <2>1, <1>1, <1>2, <1>5 DEF Range
  <2>2. CASE i > k
    <3>1. i - 1 \in 1 .. Len(l) - 1 /\ u[i - 1] = l[i]
      BY <2>2, <1>1, <1>2, <1>5
    <3> QED BY <3>1, <1>5 DEF Range
  <2> QED BY <2>1, <2>2, <1>1, <1>2
<1>10. Unlink(l, e) = u
  BY DEF Unlink, Unlink, k, a, b, u
<1> QED BY <1>5, <1>7, <1>8, <1>9, <1>10 DEF List

LEMMA WithoutLemma ==
  ASSUME NEW S, NEW l \in List(S), NEW e
  PROVE  /\ Without(l, e) \in List(S)
         /\ Range(Without(l, e)) = Range(l) \ {e}
BY UnlinkLemma DEF Without

LEMMA RangeType ==
  ASSUME NEW S, NEW l \in List(S)
  PROVE  Range(l) \subseteq S
BY Elements DEF Range, List

LEMMA EmptyList ==
  ASSUME NEW S
  PROVE  /\ <<>> \in List(S) /\ Range(<<>>) = {}
         /\ \A l \in List(S) : Range(l) = {} => l = <<>>
<1>1. <<>> \in List(S) /\ Range(<<>>) = {}
  BY DEF List, Range, IsInjective
<1>2. ASSUME NEW l \in List(S), Range(l) = {}
      PROVE  l = <<>>
  <2>1. l \in Seq(S) /\ Len(l) \in Nat /\ DOMAIN l = 1 .. Len(l)
    BY Elements DEF List
  <2>2. Len(l) = 0
    BY <2>1, <1>2, 1 \in 1 .. Len(l) \/ Len(l) = 0, Zenon DEF Range
  <2> QED BY <2>1, <2>2, Elements
<1> QED BY <1>1, <1>2

\* A sequence cut after its first k elements.
LEMMA CutLemma ==
  ASSUME NEW S, NEW s \in Seq(S), NEW k \in 0 .. Len(s)
  PROVE  /\ SubSeq(s, 1, k) \in Seq(S) /\ Len(SubSeq(s, 1, k)) = k
         /\ \A i \in 1 .. k : SubSeq(s, 1, k)[i] = s[i]
         /\ SubSeq(s, k + 1, Len(s)) \in Seq(S) /\ Len(SubSeq(s, k + 1, Len(s))) = Len(s) - k
         /\ \A i \in 1 .. Len(s) - k : SubSeq(s, k + 1, Len(s))[i] = s[k + i]
<1> DEFINE n == Len(s)
           a == SubSeq(s, 1, k)
           b == SubSeq(s, k + 1, n)
<1>1. n \in Nat /\ DOMAIN s = 1 .. n /\ (\A i \in 1 .. n : s[i] \in S) /\ k \in Nat /\ k <= n
  BY Elements
<1> HIDE DEF n
<1>2. /\ a \in Seq(S) /\ Len(a) = IF 1 <= k THEN k - 1 + 1 ELSE 0
      /\ \A i \in 1 .. k - 1 + 1 : a[i] = s[1 + i - 1]
  <2>1. 1 \in Int /\ k \in Int /\ \A i \in 1 .. k : s[i] \in S
    BY <1>1
  <2> QED BY <2>1, PartLemma
<1>3. /\ b \in Seq(S) /\ Len(b) = IF k + 1 <= n THEN n - (k + 1) + 1 ELSE 0
      /\ \A i \in 1 .. n - (k + 1) + 1 : b[i] = s[k + 1 + i - 1]
  <2>1. k + 1 \in Int /\ n \in Int /\ \A i \in k + 1 .. n : s[i] \in S
    BY <1>1
  <2> QED BY <2>1, PartLemma
<1> HIDE DEF a, b
<1>4. Len(a) = k /\ \A i \in 1 .. k : a[i] = s[i]
  <2>1. k - 1 + 1 = k /\ \A i \in 1 .. k : 1 + i - 1 = i
    BY <1>1
  <2> QED BY <1>1, <1>2, <2>1
<1>5. Len(b) = n - k
  <2>1. CASE k = n
    BY <2>1, <1>1, <1>3
  <2>2. CASE k < n
    BY <2>2, <1>1, <1>3
  <2> QED BY <2>1, <2>2, <1>1
<1>6. ASSUME NEW i \in 1 .. n - k
      PROVE  b[i] = s[k + i]
  <2>1. i \in 1 .. n - (k + 1) + 1 /\ k + 1 + i - 1 = k + i
    BY <1>1
  <2> QED BY <1>3, <2>1
<1> QED BY <1>2, <1>3, <1>4, <1>5, <1>6 DEF a, b, n

\* The elements of a concatenation.
LEMMA JoinLemma ==
  ASSUME NEW S, NEW s \in Seq(S), NEW t \in Seq(S), NEW u, u = s \o t
  PROVE  /\ u \in Seq(S) /\ Len(s) \in Nat /\ Len(t) \in Nat /\ Len(u) = Len(s) + Len(t)
         /\ \A i \in 1 .. Len(s) : u[i] = s[i]
         /\ \A i \in 1 .. Len(t) : u[Len(s) + i] = t[i]
<1>1. Len(s) \in Nat /\ Len(t) \in Nat
  BY Elements
<1>2. /\ u \in Seq(S) /\ Len(u) = Len(s) + Len(t)
      /\ \A i \in 1 .. Len(s) + Len(t) : u[i] = IF i <= Len(s) THEN s[i] ELSE t[i - Len(s)]
  BY ConcatElements
<1>3. \A i \in 1 .. Len(s) : u[i] = s[i]
  BY <1>1, <1>2
<1>4. ASSUME NEW i \in 1 .. Len(t)
      PROVE  u[Len(s) + i] = t[i]
  <2>1. PICK j : j = Len(s) + i
    OBVIOUS
  <2>2. j \in 1 .. Len(s) + Len(t) /\ ~(j <= Len(s)) /\ j - Len(s) = i
    BY <1>1, <2>1
  <2> QED BY <1>2, <2>1, <2>2
<1> QED BY <1>1, <1>2, <1>3, <1>4

\* The first k elements of s are moved behind r, which becomes x, and s becomes y.
Moved(S, r, s, k, x, y) ==
  /\ r \in Seq(S) /\ s \in Seq(S) /\ k \in 1 .. Len(s)
  /\ x = r \o SubSeq(s, 1, k) /\ y = SubSeq(s, k + 1, Len(s))
MovedElements(S, r, s, k, x, y) ==
  /\ x \in Seq(S) /\ y \in Seq(S) /\ k \in Nat /\ Len(r) \in Nat /\ Len(s) \in Nat
  /\ Len(x) = Len(r) + k /\ Len(y) = Len(s) - k
  /\ \A i \in 1 .. Len(r) : x[i] = r[i]
  /\ \A i \in 1 .. k : x[Len(r) + i] = s[i]
  /\ \A i \in 1 .. Len(s) - k : y[i] = s[k + i]

LEMMA PiecesMoveLemma ==
  ASSUME NEW S, NEW r, NEW s, NEW k, NEW x, NEW y, Moved(S, r, s, k, x, y)
  PROVE  MovedElements(S, r, s, k, x, y)
<1>0. /\ r \in Seq(S) /\ s \in Seq(S) /\ k \in 1 .. Len(s)
      /\ x = r \o SubSeq(s, 1, k) /\ y = SubSeq(s, k + 1, Len(s))
  BY DEF Moved
<1>1. Len(r) \in Nat /\ Len(s) \in Nat
  BY <1>0, Elements
<1>2. k \in 0 .. Len(s) /\ k \in Nat
  BY <1>0, <1>1
<1>3. PICK a : a = SubSeq(s, 1, k)
  BY Zenon
<1>4. /\ a \in Seq(S) /\ Len(a) = k /\ \A i \in 1 .. k : a[i] = s[i]
      /\ y \in Seq(S) /\ Len(y) = Len(s) - k /\ \A i \in 1 .. Len(s) - k : y[i] = s[k + i]
  BY <1>0, <1>2, <1>3, CutLemma
<1>5. /\ x \in Seq(S) /\ Len(x) = Len(r) + Len(a)
      /\ \A i \in 1 .. Len(r) : x[i] = r[i]
      /\ \A i \in 1 .. Len(a) : x[Len(r) + i] = a[i]
  <2>1. r \in Seq(S) /\ a \in Seq(S) /\ x = r \o a
    BY <1>0, <1>3, <1>4, Zenon
  <2> QED BY <2>1, JoinLemma
<1> QED BY <1>1, <1>2, <1>4, <1>5 DEF MovedElements

\* The pieces from .. to of a message that has P of them.
LEMMA RunLemma ==
  ASSUME NEW P \in Nat, NEW Q, NEW q \in Q, NEW from \in 0 .. P - 1, NEW to \in from + 1 .. P,
         NEW p, p = [k \in 1 .. to - from |-> <<q, from + k>>]
  PROVE  /\ p \in Seq(Q \X (1 .. P)) /\ Len(p) = to - from
         /\ \A k \in 1 .. to - from : p[k] = <<q, from + k>>
<1>1. to - from \in 1 .. P /\ \A k \in 1 .. to - from : from + k \in 1 .. P
  OBVIOUS
<1> QED BY <1>1

\* u is w, a sequence of pieces of messages in Q that have P each, with the pieces
\* from + 1 .. to of q added.
Joined(P, Q, w, u, q, from, to) ==
  /\ P \in Nat /\ w \in Seq(Q \X (1 .. P)) /\ q \in Q /\ from \in 0 .. P - 1 /\ to \in from + 1 .. P
  /\ u = w \o [k \in 1 .. to - from |-> <<q, from + k>>]

\* What that means for the elements
Longer(P, w, u, q, from, to) ==
  \E n \in Nat, m \in 1 .. P :
    /\ n = Len(w) /\ m = to - from
    /\ DOMAIN w = 1 .. n /\ DOMAIN u = 1 .. n + m /\ Len(u) = n + m /\ (w = <<>> <=> n = 0) /\ u # <<>>
    /\ \A i \in 1 .. n : u[i] = w[i]
    /\ \A k \in 1 .. m : u[n + k] = <<q, from + k>>

LEMMA AddLemma ==
  ASSUME NEW P, NEW Q, NEW w, NEW u, NEW q, NEW from, NEW to, Joined(P, Q, w, u, q, from, to)
  PROVE  u \in Seq(Q \X (1 .. P)) /\ Longer(P, w, u, q, from, to)
<1>0. P \in Nat /\ w \in Seq(Q \X (1 .. P)) /\ q \in Q /\ from \in 0 .. P - 1 /\ to \in from + 1 .. P
  BY DEF Joined
<1>1. PICK S : S = Q \X (1 .. P)
  BY Zenon
<1>2. PICK p : p = [k \in 1 .. to - from |-> <<q, from + k>>]
  BY Zenon
<1>3. p \in Seq(S) /\ Len(p) = to - from /\ \A k \in 1 .. to - from : p[k] = <<q, from + k>>
  BY <1>0, <1>1, <1>2, RunLemma
<1>4. PICK n \in Nat, m \in 1 .. P : n = Len(w) /\ m = to - from
  <2>1. Len(w) \in Nat /\ to - from \in 1 .. P
    BY <1>0
  <2> QED BY <2>1
<1>5. /\ u \in Seq(S) /\ Len(u) = Len(w) + Len(p)
      /\ \A i \in 1 .. Len(w) : u[i] = w[i]
      /\ \A k \in 1 .. Len(p) : u[Len(w) + k] = p[k]
  <2>1. p \in Seq(S) /\ w \in Seq(S) /\ u = w \o p
    BY <1>0, <1>1, <1>2, <1>3, Zenon DEF Joined
  <2> QED BY <2>1, JoinLemma
<1>6. DOMAIN w = 1 .. n /\ DOMAIN u = 1 .. n + m /\ Len(u) = n + m
  <2>1. DOMAIN w = 1 .. Len(w) /\ DOMAIN u = 1 .. Len(u)
    BY <1>0, <1>5
  <2> QED BY <1>3, <1>4, <1>5, <2>1
<1>7. (w = <<>> <=> n = 0) /\ u # <<>>
  <2>1. Len(u) # 0
    BY <1>6
  <2> QED BY <1>0, <1>4, <1>5, <2>1, Elements
<1>8. (\A i \in 1 .. n : u[i] = w[i]) /\ (\A k \in 1 .. m : u[n + k] = <<q, from + k>>)
  BY <1>3, <1>4, <1>5
<1> QED BY <1>1, <1>4, <1>5, <1>6, <1>7, <1>8, Zenon DEF Longer

\* The pieces on a connection, each the next of its message, or the first of one
\* behind the last of another.
Orderly(P, w, i) ==
  \/ w[i][2] = 1 /\ (i > 1 => w[i - 1][2] = P)
  \/ i > 1 /\ w[i] = <<w[i - 1][1], w[i - 1][2] + 1>>

\* A write goes on with the message that the last piece is of, or begins one behind
\* the end of another.
FitsBehind(P, w, q, from) ==
  IF from > 0 THEN w # <<>> /\ w[Len(w)] = <<q, from>> ELSE w = <<>> \/ w[Len(w)][2] = P

LEMMA OrderlyLemma ==
  ASSUME NEW P \in Nat, NEW w, NEW u, NEW q, NEW from \in 0 .. P - 1, NEW to \in from + 1 .. P,
         Longer(P, w, u, q, from, to), FitsBehind(P, w, q, from), \A i \in DOMAIN w : Orderly(P, w, i)
  PROVE  u # <<>> /\ u[Len(u)] = <<q, to>> /\ \A i \in DOMAIN u : Orderly(P, u, i)
<1>1. PICK n \in Nat, m \in 1 .. P :
        /\ n = Len(w) /\ m = to - from
        /\ DOMAIN w = 1 .. n /\ DOMAIN u = 1 .. n + m /\ Len(u) = n + m /\ (w = <<>> <=> n = 0) /\ u # <<>>
        /\ \A i \in 1 .. n : u[i] = w[i]
        /\ \A k \in 1 .. m : u[n + k] = <<q, from + k>>
  BY Zenon DEF Longer
<1>2. u[n + 1] = <<q, from + 1>> /\ u[n + m] = <<q, to>>
  <2>1. 1 \in 1 .. m /\ m \in 1 .. m /\ from + m = to
    BY <1>1
  <2> QED BY <1>1, <2>1, Zenon
<1>3. ASSUME NEW i \in 1 .. n + m PROVE Orderly(P, u, i)
  <2>1. CASE i <= n
    <3>1. i \in 1 .. n /\ (i > 1 => i - 1 \in 1 .. n)
      BY <2>1
    <3>2. Orderly(P, w, i) /\ u[i] = w[i] /\ (i > 1 => u[i - 1] = w[i - 1])
      BY <1>1, <3>1, Zenon
    <3> QED BY <3>2 DEF Orderly
  <2>2. CASE i = n + 1
    <3>1. n # 0 => u[i - 1] = w[n] /\ w[n] = w[Len(w)] /\ w # <<>>
      <4>1. i - 1 = n /\ (n # 0 => n \in 1 .. n)
        BY <2>2
      <4> QED BY <1>1, <4>1
    <3>2. CASE from > 0
      <4>1. n # 0 /\ i > 1 /\ w[n] = <<q, from>>
        BY <1>1, <2>2, <3>1, <3>2 DEF FitsBehind
      <4> QED BY <1>2, <2>2, <3>1, <4>1 DEF Orderly
    <3>3. CASE from = 0
      <4>1. u[i][2] = 1
        BY <1>2, <2>2, <3>3
      <4>2. i > 1 => n # 0
        BY <2>2
      <4>3. n # 0 => w[n][2] = P
        BY <3>1, <3>3 DEF FitsBehind
      <4> QED BY <3>1, <4>1, <4>2, <4>3 DEF Orderly
    <3> QED BY <3>2, <3>3
  <2>3. CASE i > n + 1
    <3>1. PICK k \in 1 .. m : k + 1 \in 1 .. m /\ i = n + (k + 1) /\ i - 1 = n + k
      <4>1. i - n - 1 \in 1 .. m /\ (i - n - 1) + 1 \in 1 .. m /\ i = n + ((i - n - 1) + 1) /\ i - 1 = n + (i - n - 1)
        BY <2>3
      <4> QED BY <4>1
    <3>2. u[i] = <<q, from + (k + 1)>> /\ u[i - 1] = <<q, from + k>>
      BY <1>1, <3>1, Zenon
    <3>3. from + (k + 1) = (from + k) + 1 /\ i > 1
      BY <2>3
    <3> QED BY <3>2, <3>3 DEF Orderly
  <2> QED BY <2>1, <2>2, <2>3
<1> QED BY <1>1, <1>2, <1>3

\* The pieces on one connection after another, f[1] .. f[N]: "next" follows "piece"
\* as the next piece of its message or as the first of a later one, and each piece
\* follows the one before it, on its connection or on the last one that has any.
After(next, piece) ==
  IF next[2] = 1 THEN next[1] > piece[1] ELSE next = <<piece[1], piece[2] + 1>>
EndOf(f, c) == f[c][Len(f[c])]
LastBefore(f, b, c) == f[b] # <<>> /\ \A a \in b + 1 .. c - 1 : f[a] = <<>>
Begins(f, c, piece) ==
  \/ piece[2] = 1 /\ \A b \in 1 .. c - 1 : f[b] = <<>>
  \/ \E b \in 1 .. c - 1 : LastBefore(f, b, c) /\ After(piece, EndOf(f, b))
InSequence(f, N) ==
  \A c \in 1 .. N : \A i \in DOMAIN f[c] :
    IF i > 1 THEN After(f[c][i], f[c][i - 1]) ELSE Begins(f, c, f[c][1])

\* g is f with the pieces from + 1 .. to of q added on d, the last connection that
\* may have any; they follow the last piece that there is.
Extended(P, f, g, N, d, q, from, to) ==
  /\ N \in Nat /\ P \in Nat /\ d \in 1 .. N /\ q \in Nat /\ from \in 0 .. P - 1 /\ to \in from + 1 .. P
  /\ Longer(P, f[d], g[d], q, from, to)
  /\ \A c \in 1 .. N : (c # d => g[c] = f[c]) /\ (c > d => f[c] = <<>>)
  /\ \/ from = 0 /\ \A c \in 1 .. N : f[c] = <<>>
     \/ \E b \in 1 .. d : LastBefore(f, b, N + 1) /\ After(<<q, from + 1>>, EndOf(f, b))

LEMMA ExtendLemma ==
  ASSUME NEW P, NEW f, NEW g, NEW N, NEW d, NEW q, NEW from, NEW to,
         Extended(P, f, g, N, d, q, from, to), InSequence(f, N)
  PROVE  InSequence(g, N) /\ LastBefore(g, d, N + 1) /\ EndOf(g, d) = <<q, to>>
<1>1. /\ N \in Nat /\ P \in Nat /\ d \in 1 .. N /\ q \in Nat /\ from \in 0 .. P - 1 /\ to \in from + 1 .. P
      /\ \A c \in 1 .. N : (c # d => g[c] = f[c]) /\ (c > d => f[c] = <<>>)
      /\ \/ from = 0 /\ \A c \in 1 .. N : f[c] = <<>>
         \/ \E b \in 1 .. d : LastBefore(f, b, N + 1) /\ After(<<q, from + 1>>, EndOf(f, b))
  BY Zenon DEF Extended
<1>2. PICK w, u : w = f[d] /\ u = g[d]
  OBVIOUS
<1>3. PICK n \in Nat, m \in 1 .. P :
        /\ n = Len(w) /\ m = to - from
        /\ DOMAIN w = 1 .. n /\ DOMAIN u = 1 .. n + m /\ Len(u) = n + m /\ (w = <<>> <=> n = 0) /\ u # <<>>
        /\ \A i \in 1 .. n : u[i] = w[i]
        /\ \A k \in 1 .. m : u[n + k] = <<q, from + k>>
  BY <1>2, Zenon DEF Extended, Longer
<1>4. u[n + 1] = <<q, from + 1>> /\ u[n + m] = <<q, to>>
  <2>1. 1 \in 1 .. m /\ m \in 1 .. m /\ from + m = to
    BY <1>1, <1>3
  <2> QED BY <1>3, <2>1
<1>5. EndOf(g, d) = <<q, to>>
  BY <1>2, <1>3, <1>4 DEF EndOf
<1>6. LastBefore(g, d, N + 1)
  <2>1. \A a \in d + 1 .. (N + 1) - 1 : a \in 1 .. N /\ a # d /\ a > d
    BY <1>1
  <2> QED BY <1>1, <1>2, <1>3, <2>1 DEF LastBefore
\* On the connection itself each piece follows the one before.
<1>7. ASSUME NEW i \in 1 .. n + m, i > 1 PROVE After(u[i], u[i - 1])
  <2>1. CASE i <= n
    <3>1. i \in 1 .. n /\ i - 1 \in 1 .. n
      BY <1>7, <2>1
    <3>2. After(w[i], w[i - 1])
      BY <1>1, <1>2, <1>3, <1>7, <3>1, Zenon DEF InSequence
    <3> QED BY <1>3, <3>1, <3>2
  <2>2. CASE i = n + 1
    <3>1. n \in 1 .. n /\ i - 1 = n /\ w # <<>>
      BY <1>3, <1>7, <2>2
    <3>2. f[d] # <<>>
      BY <1>2, <3>1
    <3>3. PICK b \in 1 .. d : LastBefore(f, b, N + 1) /\ After(<<q, from + 1>>, EndOf(f, b))
      BY <1>1, <3>2
    <3>4. ~(b < d)
      BY <1>1, <3>2, <3>3, d \in b + 1 .. (N + 1) - 1 \/ ~(b < d) DEF LastBefore
    <3>5. b = d
      BY <1>1, <3>4
    <3>6. EndOf(f, b) = w[n] /\ u[i - 1] = w[n]
      BY <1>2, <1>3, <3>1, <3>5, Zenon DEF EndOf
    <3> QED BY <1>4, <2>2, <3>3, <3>6
  <2>3. CASE i > n + 1
    <3>1. PICK k \in 1 .. m : k + 1 \in 1 .. m /\ i = n + (k + 1) /\ i - 1 = n + k
      <4>1. i - n - 1 \in 1 .. m /\ (i - n - 1) + 1 \in 1 .. m /\ i = n + ((i - n - 1) + 1) /\ i - 1 = n + (i - n - 1)
        BY <1>1, <2>3
      <4> QED BY <4>1
    <3>2. u[i] = <<q, from + (k + 1)>> /\ u[i - 1] = <<q, from + k>>
      BY <1>3, <3>1, Zenon
    <3>3. from \in Nat /\ k \in Nat /\ k >= 1
      BY <1>1
    <3>4. from + (k + 1) = (from + k) + 1 /\ from + (k + 1) # 1
      BY <3>3
    <3> QED BY <3>2, <3>4 DEF After
  <2> QED BY <1>1, <2>1, <2>2, <2>3
\* The connections up to d, without d, have the same pieces in f and g.
<1>8. ASSUME NEW c \in 1 .. d, NEW piece, Begins(f, c, piece) PROVE Begins(g, c, piece)
  <2>1. \A a \in 1 .. c - 1 : g[a] = f[a]
    BY <1>1
  <2>2. ASSUME NEW b \in 1 .. c - 1 PROVE \A a \in b + 1 .. c - 1 : a \in 1 .. c - 1
    BY <1>1
  <2>3. \A b \in 1 .. c - 1 : EndOf(g, b) = EndOf(f, b) /\ (LastBefore(f, b, c) => LastBefore(g, b, c))
    BY <2>1, <2>2 DEF EndOf, LastBefore
  <2> QED BY <1>8, <2>1, <2>3 DEF Begins
<1>9. Begins(f, d, u[1])
  <2>1. CASE n > 0
    <3>1. 1 \in DOMAIN f[d] /\ u[1] = f[d][1] /\ ~(1 > 1)
      BY <1>2, <1>3, <2>1
    <3> QED BY <1>1, <3>1, Zenon DEF InSequence
  <2>2. CASE n = 0
    <3>1. u[1] = <<q, from + 1>> /\ f[d] = <<>>
      BY <1>2, <1>3, <1>4, <2>2
    <3>2. CASE from = 0 /\ \A c \in 1 .. N : f[c] = <<>>
      <4>1. u[1][2] = 1 /\ \A b \in 1 .. d - 1 : f[b] = <<>>
        BY <1>1, <3>1, <3>2
      <4> QED BY <4>1 DEF Begins
    <3>3. ASSUME NEW b \in 1 .. d, LastBefore(f, b, N + 1), After(<<q, from + 1>>, EndOf(f, b))
          PROVE  Begins(f, d, u[1])
      <4>1. b # d
        BY <3>1, <3>3 DEF LastBefore
      <4>2. b \in 1 .. d - 1 /\ \A a \in b + 1 .. d - 1 : a \in b + 1 .. (N + 1) - 1
        BY <1>1, <4>1
      <4>3. LastBefore(f, b, d)
        BY <3>3, <4>2 DEF LastBefore
      <4> QED BY <3>1, <3>3, <4>2, <4>3 DEF Begins
    <3> QED BY <1>1, <3>2, <3>3
  <2> QED BY <1>3, <2>1, <2>2
<1>10. ASSUME NEW c \in 1 .. N, NEW i \in DOMAIN g[c]
       PROVE  IF i > 1 THEN After(g[c][i], g[c][i - 1]) ELSE Begins(g, c, g[c][1])
  <2>1. CASE c = d
    <3>0. g[c] = u /\ DOMAIN u = 1 .. n + m
      BY <1>2, <1>3, <2>1, Zenon
    <3>1. g[c] = u /\ i \in 1 .. n + m /\ d \in 1 .. d
      BY <1>1, <3>0
    <3>2. Begins(g, c, u[1])
      BY <1>8, <1>9, <2>1, <3>1
    <3> QED BY <1>7, <3>1, <3>2
  <2>2. CASE c # d
    <3>1. g[c] = f[c] /\ (c > d => f[c] = <<>>)
      BY <1>1, <2>2
    <3>2. c \in 1 .. d
      <4>1. f[c] # <<>>
        BY <3>1
      <4> QED BY <1>1, <3>1, <4>1
    <3>3. IF i > 1 THEN After(f[c][i], f[c][i - 1]) ELSE Begins(f, c, f[c][1])
      BY <3>1 DEF InSequence
    <3>4. Begins(f, c, f[c][1]) => Begins(g, c, f[c][1])
      BY <1>8, <3>2
    <3> QED BY <3>1, <3>3, <3>4
  <2> QED BY <2>1, <2>2
<1> QED BY <1>5, <1>6, <1>10 DEF InSequence

\* The concatenation of two lists without a common element.
LEMMA ConcatLemma ==
  ASSUME NEW S, NEW l \in List(S), NEW m \in List(S), Range(l) \cap Range(m) = {}
  PROVE  l \o m \in List(S) /\ Range(l \o m) = Range(l) \cup Range(m)
<1> DEFINE c == l \o m
<1>1. /\ l \in Seq(S) /\ Len(l) \in Nat /\ DOMAIN l = 1 .. Len(l)
      /\ m \in Seq(S) /\ Len(m) \in Nat /\ DOMAIN m = 1 .. Len(m)
  BY Elements DEF List
<1>2. /\ c \in Seq(S) /\ Len(c) = Len(l) + Len(m) /\ DOMAIN c = 1 .. Len(l) + Len(m)
      /\ \A i \in 1 .. Len(l) + Len(m) : c[i] = IF i <= Len(l) THEN l[i] ELSE m[i - Len(l)]
  BY <1>1, ConcatElements, Elements
<1> HIDE DEF c
<1>3. /\ \A i, j \in 1 .. Len(l) : l[i] = l[j] => i = j
      /\ \A i, j \in 1 .. Len(m) : m[i] = m[j] => i = j
      /\ \A i \in 1 .. Len(l), j \in 1 .. Len(m) : l[i] # m[j]
  <2>1. IsInjective(l) /\ IsInjective(m) BY DEF List
  <2>2. \A i \in 1 .. Len(l), j \in 1 .. Len(m) : l[i] \in Range(l) /\ m[j] \in Range(m)
    BY <1>1 DEF Range
  <2> QED BY <2>1, <2>2, <1>1 DEF IsInjective
<1>4. IsInjective(c)
  <2> SUFFICES ASSUME NEW i \in 1 .. Len(l) + Len(m), NEW j \in 1 .. Len(l) + Len(m), c[i] = c[j]
               PROVE  i = j
    BY <1>2 DEF IsInjective
  <2>1. CASE i <= Len(l) /\ j <= Len(l)
    <3>1. i \in 1 .. Len(l) /\ j \in 1 .. Len(l) /\ l[i] = l[j]
      BY <2>1, <1>1, <1>2
    <3> QED BY <3>1, <1>3
  <2>2. CASE i > Len(l) /\ j > Len(l)
    <3>1. i - Len(l) \in 1 .. Len(m) /\ j - Len(l) \in 1 .. Len(m) /\ m[i - Len(l)] = m[j - Len(l)]
      BY <2>2, <1>1, <1>2
    <3>2. i - Len(l) = j - Len(l)
      BY <3>1, <1>3
    <3> QED BY <3>2, <1>1
  <2>3. CASE i <= Len(l) /\ j > Len(l)
    <3>1. i \in 1 .. Len(l) /\ j - Len(l) \in 1 .. Len(m) /\ l[i] = m[j - Len(l)]
      BY <2>3, <1>1, <1>2
    <3> QED BY <3>1, <1>3
  <2>4. CASE i > Len(l) /\ j <= Len(l)
    <3>1. j \in 1 .. Len(l) /\ i - Len(l) \in 1 .. Len(m) /\ l[j] = m[i - Len(l)]
      BY <2>4, <1>1, <1>2
    <3> QED BY <3>1, <1>3
  <2> QED BY <2>1, <2>2, <2>3, <2>4, <1>1
<1>5. \A x \in Range(c) : x \in Range(l) \cup Range(m)
  <2> SUFFICES ASSUME NEW i \in 1 .. Len(l) + Len(m)
               PROVE  c[i] \in Range(l) \cup Range(m)
    BY <1>2 DEF Range
  <2>1. CASE i <= Len(l)
    <3>1. i \in 1 .. Len(l) /\ c[i] = l[i]
      BY <2>1, <1>1, <1>2
    <3> QED BY <3>1, <1>1 DEF Range
  <2>2. CASE i > Len(l)
    <3>1. i - Len(l) \in 1 .. Len(m) /\ c[i] = m[i - Len(l)]
      BY <2>2, <1>1, <1>2
    <3> QED BY <3>1, <1>1 DEF Range
  <2> QED BY <2>1, <2>2, <1>1
<1>6. \A x \in Range(l) : x \in Range(c)
  BY <1>1, <1>2 DEF Range
<1>7. \A x \in Range(m) : x \in Range(c)
  <2> SUFFICES ASSUME NEW j \in 1 .. Len(m)
               PROVE  m[j] \in Range(c)
    BY <1>1 DEF Range
  <2>1. Len(l) \in Nat /\ Len(m) \in Nat
    BY <1>1
  <2>2. Len(l) + j \in 1 .. Len(l) + Len(m) /\ Len(l) + j > Len(l) /\ (Len(l) + j) - Len(l) = j
    BY <2>1
  <2>3. c[Len(l) + j] = m[j]
    BY <1>2, <2>2
  <2> QED BY <2>2, <2>3, <1>2, Zenon DEF Range
<1> QED BY <1>2, <1>4, <1>5, <1>6, <1>7 DEF List, c

LEMMA SingletonList ==
  ASSUME NEW S, NEW e \in S
  PROVE  <<e>> \in List(S) /\ Range(<<e>>) = {e}
BY DEF List, Range, IsInjective

\* perf_list_prepend and perf_list_append of an element that is not linked.
LEMMA AppendLemma ==
  ASSUME NEW S, NEW l \in List(S), NEW e \in S, e \notin Range(l)
  PROVE  Append(l, e) \in List(S) /\ Range(Append(l, e)) = Range(l) \cup {e}
<1>1. l \o <<e>> \in List(S) /\ Range(l \o <<e>>) = Range(l) \cup {e}
  BY SingletonList, ConcatLemma
<1>2. Append(l, e) = l \o <<e>>
  BY DEF List
<1> QED BY <1>1, <1>2

LEMMA LinkLemma ==
  ASSUME NEW S, NEW l \in List(S), NEW e \in S, e \notin Range(l)
  PROVE  /\ <<e>> \o l \in List(S) /\ Range(<<e>> \o l) = Range(l) \cup {e}
         /\ Append(l, e) \in List(S) /\ Range(Append(l, e)) = Range(l) \cup {e}
BY SingletonList, ConcatLemma, AppendLemma

LEMMA ReverseLemma ==
  ASSUME NEW S, NEW l \in List(S)
  PROVE  FromTail(l) \in List(S) /\ Range(FromTail(l)) = Range(l)
<1>1. l \in Seq(S) /\ Len(l) \in Nat /\ DOMAIN l = 1 .. Len(l)
      /\ \A i \in 1 .. Len(l) : l[i] \in S
  BY Elements DEF List
<1> DEFINE n == Len(l)
           r == [i \in 1 .. n |-> l[(n - i) + 1]]
<1> HIDE DEF n
<1>2. n \in Nat /\ DOMAIN r = 1 .. n /\ \A i \in 1 .. n : n - i + 1 \in 1 .. n /\ r[i] = l[n - i + 1]
  BY <1>1 DEF n
<1>3. r \in Seq(S)
  BY <1>1, <1>2 DEF n
<1> HIDE DEF r
<1>4. \A i, j \in 1 .. n : l[i] = l[j] => i = j
  BY <1>1 DEF List, IsInjective, n
<1>5. IsInjective(r)
  <2> SUFFICES ASSUME NEW i \in 1 .. n, NEW j \in 1 .. n, r[i] = r[j]
               PROVE  i = j
    BY <1>2 DEF IsInjective
  <2>1. n - i + 1 \in 1 .. n /\ n - j + 1 \in 1 .. n /\ l[n - i + 1] = l[n - j + 1]
    BY <1>2
  <2>2. n - i + 1 = n - j + 1
    BY <2>1, <1>4
  <2> QED BY <2>2, <1>2
<1>6. \A x \in Range(r) : x \in Range(l)
  BY <1>1, <1>2 DEF Range, n
<1>7. \A x \in Range(l) : x \in Range(r)
  <2> SUFFICES ASSUME NEW i \in 1 .. n
               PROVE  l[i] \in Range(r)
    BY <1>1 DEF Range, n
  <2>1. n - i + 1 \in 1 .. n /\ r[n - i + 1] = l[i]
    BY <1>2
  <2> QED BY <2>1, <1>2 DEF Range
<1>8. FromTail(l) = r
  BY DEF FromTail, r, n
<1> QED BY <1>3, <1>5, <1>6, <1>7, <1>8, Zenon DEF List

LEMMA HeadTailLemma ==
  ASSUME NEW S, NEW l \in List(S), l # <<>>
  PROVE  Head(l) \in Range(l) /\ ListTail(l) \in Range(l)
<1>1. l \in Seq(S) /\ Len(l) \in Nat \ {0} /\ DOMAIN l = 1 .. Len(l)
  BY Elements DEF List
<1>2. Head(l) = l[1]
  BY <1>1
<1> QED BY <1>1, <1>2, 1 \in 1 .. Len(l), Len(l) \in 1 .. Len(l) DEF Range, ListTail
=============================================================================
