--------------------------- MODULE SequenceLemmas ---------------------------
(***************************************************************************)
(* Facts about sequences, least elements and functions defined by          *)
(* recursion, that the proofs of several modules rest on.                  *)
(***************************************************************************)
EXTENDS Integers, Sequences, SequencesExt, SequenceParts, FiniteSets, FiniteSetsExt,
        FiniteSetTheorems, WellFoundedInduction, TLAPS

-----------------------------------------------------------------------------
(* Least elements *)

LEMMA SmallestOne ==
  ASSUME NEW T, T \subseteq Nat, T # {}
  PROVE  \E x \in T : \A y \in T : x <= y
<1> DEFINE R == OpToRel(<, Nat)
<1>1. IsWellFoundedOn(R, Nat)
  BY NatLessThanWellFounded
<1>2. \A x, y \in Nat : y < x => <<y, x>> \in R
  BY DEF OpToRel
<1> HIDE DEF R
<1>3. \E x \in T : \A y \in T : ~(<<y, x>> \in R)
  BY <1>1, WFMin
<1>4. \A x, y \in T : ~(<<y, x>> \in R) => x <= y
  BY <1>2
<1> QED
  BY <1>3, <1>4

LEMMA LargestOne ==
  ASSUME NEW n \in Nat, NEW T, T \subseteq 0..n, T # {}
  PROVE  Max(T) \in T /\ \A y \in T : y <= Max(T)
<1> DEFINE U == {m \in Nat : m <= n /\ n - m \in T}
<1>1. PICK y \in T : TRUE
  OBVIOUS
<1>2. n - y \in U
  <2>1. y \in 0..n /\ n - (n - y) = y
    BY <1>1
  <2>2. n - y \in Nat /\ n - y <= n
    BY <2>1
  <2> QED
    BY <1>1, <2>1, <2>2
<1>3. PICK m \in U : \A x \in U : m <= x
  <2>1. U \subseteq Nat /\ U # {}
    BY <1>2
  <2> HIDE DEF U
  <2> QED
    BY <2>1, SmallestOne
<1>4. n - m \in T /\ \A x \in T : n - m >= x
  <2>1. n - m \in T
    BY <1>3
  <2>2. ASSUME NEW x \in T PROVE n - m >= x
    <3>1. x \in 0..n /\ n - (n - x) = x
      BY <2>2
    <3>2. n - x \in U
      BY <2>2, <3>1
    <3>3. m <= n - x /\ m \in Nat
      BY <1>3, <3>2
    <3> QED
      BY <3>1, <3>3
  <2> QED
    BY <2>1, <2>2
<1>5. Max(T) \in T /\ \A x \in T : Max(T) >= x
  <2> HIDE DEF U
  <2> QED
    BY <1>4 DEF Max
<1> DEFINE x == Max(T)
<1>6. x \in 0..n /\ \A z \in T : z \in 0..n /\ x >= z
  BY <1>5
<1> HIDE DEF x
<1>7. \A z \in T : z <= x
  BY <1>6
<1> QED
  BY <1>5, <1>7 DEF x

LEMMA MinIs ==
  ASSUME NEW T, T \subseteq Nat, NEW m \in T, \A k \in T : m <= k
  PROVE  Min(T) = m
<1>1. \A x \in T : (\A y \in T : x <= y) => x = m
  OBVIOUS
<1>2. \E x \in T : \A y \in T : x <= y
  OBVIOUS
<1> QED
  BY <1>1, <1>2 DEF Min

-----------------------------------------------------------------------------
(* Sequences *)

LEMMA Concatenation ==
  ASSUME NEW S, NEW s \in Seq(S), NEW r \in Seq(S)
  PROVE  /\ s \o r \in Seq(S) /\ Len(s \o r) = Len(s) + Len(r)
         /\ \A i \in 1..Len(s) : (s \o r)[i] = s[i]
         /\ \A i \in 1..Len(r) : (s \o r)[Len(s) + i] = r[i]
         /\ \A i \in (Len(s) + 1)..(Len(s) + Len(r)) : (s \o r)[i] = r[i - Len(s)]
  OBVIOUS

LEMMA SubSeqIs ==
  ASSUME NEW S, NEW s \in Seq(S), NEW m \in 1..(Len(s) + 1), NEW n \in 0..Len(s), m <= n + 1
  PROVE  /\ SubSeq(s, m, n) \in Seq(S) /\ Len(SubSeq(s, m, n)) = n - m + 1
         /\ \A i \in 1..(n - m + 1) : SubSeq(s, m, n)[i] = s[m + i - 1]
  OBVIOUS

LEMMA HeadIs ==
  ASSUME NEW S, NEW s \in Seq(S), s # <<>>
  PROVE  Head(s) = s[1] /\ 1 \in 1..Len(s) /\ s[1] \in S
  OBVIOUS

LEMMA TailIs ==
  ASSUME NEW S, NEW s \in Seq(S), s # <<>>
  PROVE  /\ Tail(s) \in Seq(S) /\ Len(Tail(s)) = Len(s) - 1 /\ Len(s) \in Nat /\ Len(s) >= 1
         /\ \A i \in 1..Len(s) - 1 : Tail(s)[i] = s[i + 1]
  OBVIOUS

\* r is s with x as its k-th element.
Inserted(s, k, x, r) ==
    /\ Len(r) = Len(s) + 1 /\ r[k] = x
    /\ \A i \in 1..k - 1 : r[i] = s[i]
    /\ \A i \in (k + 1)..(Len(s) + 1) : r[i] = s[i - 1]

LEMMA InsertedExists ==
  ASSUME NEW S, NEW s \in Seq(S), NEW x \in S, NEW p \in 1..(Len(s) + 1)
  PROVE  \E r \in Seq(S) : r = InsertAt(s, p, x) /\ Inserted(s, p, x, r)
<1>1. PICK a \in Seq(S) : a = SubSeq(s, 1, p - 1)
  <2>1. 1 \in 1..(Len(s) + 1) /\ p - 1 \in 0..Len(s) /\ 1 <= p - 1 + 1
    OBVIOUS
  <2> QED
    BY <2>1, SubSeqIs
<1>2. Len(a) = p - 1 /\ \A i \in 1..p - 1 : a[i] = s[i]
  <2>1. /\ 1 \in 1..(Len(s) + 1) /\ p - 1 \in 0..Len(s) /\ 1 <= p - 1 + 1 /\ p - 1 - 1 + 1 = p - 1
        /\ \A i \in 1..p - 1 : 1 + i - 1 = i
    OBVIOUS
  <2> QED
    BY <1>1, <2>1, SubSeqIs
<1>3. PICK b \in Seq(S) : b = SubSeq(s, p, Len(s))
  <2>1. Len(s) \in 0..Len(s) /\ p <= Len(s) + 1
    OBVIOUS
  <2> QED
    BY <2>1, SubSeqIs
<1>4. Len(b) = Len(s) - p + 1 /\ \A i \in 1..(Len(s) - p + 1) : b[i] = s[p + i - 1]
  <2>1. Len(s) \in 0..Len(s) /\ p <= Len(s) + 1
    OBVIOUS
  <2> QED
    BY <1>3, <2>1, SubSeqIs
<1>5. PICK e \in Seq(S) : e = <<x>>
  <2>1. <<x>> \in Seq(S)
    OBVIOUS
  <2> QED
    BY <2>1
<1>6. Len(e) = 1 /\ e[1] = x
  BY <1>5
<1>7. PICK c \in Seq(S) : c = a \o e
  BY Concatenation
<1>8. Len(c) = p /\ (\A i \in 1..p - 1 : c[i] = s[i]) /\ c[p] = x
  <2>1. /\ Len(c) = Len(a) + Len(e) /\ (\A i \in 1..Len(a) : c[i] = a[i])
        /\ \A i \in 1..Len(e) : c[Len(a) + i] = e[i]
    BY <1>7, Concatenation
  <2>2. /\ Len(c) = p /\ (\A i \in 1..p - 1 : c[i] = a[i])
        /\ \A i \in 1..1 : c[p - 1 + i] = e[i]
    BY <1>2, <1>6, <2>1
  <2>3. 1 \in 1..1 /\ p - 1 + 1 = p
    OBVIOUS
  <2>4. c[p] = x
    BY <1>6, <2>2, <2>3
  <2> QED
    BY <1>2, <2>2, <2>4
<1>9. PICK r \in Seq(S) : r = c \o b
  BY Concatenation
<1>10. /\ Len(r) = Len(c) + Len(b) /\ (\A i \in 1..Len(c) : r[i] = c[i])
       /\ \A i \in (Len(c) + 1)..(Len(c) + Len(b)) : r[i] = b[i - Len(c)]
  BY <1>9, Concatenation
<1>11. /\ Len(r) = Len(s) + 1 /\ (\A i \in 1..p : r[i] = c[i])
       /\ \A i \in (p + 1)..(Len(s) + 1) : r[i] = b[i - p]
  BY <1>4, <1>8, <1>10
<1>12. \A i \in (p + 1)..(Len(s) + 1) : i - p \in 1..(Len(s) - p + 1) /\ p + (i - p) - 1 = i - 1
  OBVIOUS
<1>13. \A i \in (p + 1)..(Len(s) + 1) : r[i] = s[i - 1]
  BY <1>4, <1>11, <1>12
<1>14. (\A i \in 1..p - 1 : r[i] = s[i]) /\ r[p] = x
  BY <1>8, <1>11
<1>15. InsertAt(s, p, x) = r
  BY <1>1, <1>3, <1>5, <1>7, <1>9 DEF InsertAt
<1>16. Inserted(s, p, x, r)
  BY <1>11, <1>13, <1>14 DEF Inserted
<1> QED
  BY <1>15, <1>16

LEMMA InsertAtIs ==
  ASSUME NEW S, NEW s \in Seq(S), NEW p \in 1..(Len(s) + 1), NEW x \in S
  PROVE  /\ InsertAt(s, p, x) \in Seq(S)
         /\ Len(InsertAt(s, p, x)) = Len(s) + 1
         /\ \A i \in 1..p - 1 : InsertAt(s, p, x)[i] = s[i]
         /\ InsertAt(s, p, x)[p] = x
         /\ \A i \in (p + 1)..(Len(s) + 1) : InsertAt(s, p, x)[i] = s[i - 1]
<1> DEFINE y == InsertAt(s, p, x)
<1>1. PICK r \in Seq(S) : r = y /\ Inserted(s, p, x, r)
  BY InsertedExists
<1> HIDE DEF y
<1>2. y \in Seq(S) /\ Inserted(s, p, x, y)
  BY <1>1
<1>3. /\ y \in Seq(S) /\ Len(y) = Len(s) + 1 /\ (\A i \in 1..p - 1 : y[i] = s[i]) /\ y[p] = x
      /\ \A i \in (p + 1)..(Len(s) + 1) : y[i] = s[i - 1]
  BY <1>2 DEF Inserted
<1> QED
  BY <1>3 DEF y

-----------------------------------------------------------------------------
(* Recursion over the naturals up to a bound *)

\* A function whose value at k is the k-th step from its value at k - 1.
Recursion(f, S, c, step, n) ==
    f \in [0..n -> S] /\ f[0] = c /\ \A k \in 1..n : f[k] = step[k][f[k - 1]]

LEMMA RecursionExists ==
  ASSUME NEW S, NEW c \in S, NEW n \in Nat, NEW step \in [1..n -> [S -> S]]
  PROVE  \E f : Recursion(f, S, c, step, n)
<1> DEFINE Is(m, f) == Recursion(f, S, c, step, m)
           T == {m \in 0..n : ~ \E f : Is(m, f)}
<1> USE DEF Recursion
<1>1. SUFFICES T = {}
  BY SMTT(30)
<1>2. SUFFICES ASSUME T # {} PROVE FALSE
  OBVIOUS
<1>3. PICK m \in T : \A k \in T : m <= k
  <2>1. T \subseteq Nat
    OBVIOUS
  <2> HIDE DEF T
  <2> QED
    BY <1>2, <2>1, SmallestOne
<1>4. Is(0, [k \in 0..0 |-> c])
  OBVIOUS
<1>5. m # 0 /\ m - 1 \in 0..n /\ m - 1 \notin T /\ m \in 1..n
  <2>1. m # 0
    BY <1>3, <1>4
  <2>2. m \in 0..n
    OBVIOUS
  <2> HIDE DEF T
  <2>3. m - 1 \in 0..n /\ ~(m <= m - 1) /\ m \in 1..n
    BY <2>1, <2>2
  <2> QED
    BY <1>3, <2>1, <2>3
<1>6. PICK f : Is(m - 1, f)
  BY <1>5
<1> DEFINE g == [k \in 0..m |-> IF k = m THEN step[m][f[m - 1]] ELSE f[k]]
<1>7. Is(m, g)
  <2>1. m \in Nat \ {0}
    BY <1>3, <1>5
  <2>2. /\ \A k \in 0..(m - 1) : f[k] \in S /\ g[k] = f[k]
        /\ g[m] = step[m][f[m - 1]] /\ step[m][f[m - 1]] \in S
    BY <1>5, <1>6, <2>1
  <2>3. g \in [0..m -> S] /\ g[0] = c
    BY <1>6, <2>1, <2>2
  <2>4. ASSUME NEW k \in 1..m PROVE g[k] = step[k][g[k - 1]]
    <3>1. CASE k = m
      BY <2>1, <2>2, <3>1
    <3>2. CASE k # m
      <4>1. k \in 1..(m - 1) /\ k - 1 \in 0..(m - 1) /\ k \in 0..(m - 1)
        BY <2>1, <2>4, <3>2
      <4> HIDE DEF g
      <4> QED
        BY <1>6, <2>2, <4>1
    <3> QED
      BY <3>1, <3>2
  <2> HIDE DEF g
  <2> QED
    BY <2>3, <2>4
<1> QED
  BY <1>3, <1>7

-----------------------------------------------------------------------------
(* Sequences as sets of places *)

\* x is in s.
Has(s, x) == \E i \in 1..Len(s) : s[i] = x

\* r is s without its k-th element.
Removed(s, k, r) ==
    /\ Len(r) = Len(s) - 1
    /\ \A i \in 1..k - 1 : r[i] = s[i]
    /\ \A i \in k..(Len(s) - 1) : r[i] = s[i + 1]

\* Nothing is in s twice.
Distinct(s) == \A i, j \in 1..Len(s) : s[i] = s[j] => i = j

LEMMA SequencesEqual ==
  ASSUME NEW S, NEW s \in Seq(S), NEW r \in Seq(S), Len(s) = Len(r),
         \A i \in 1..Len(s) : s[i] = r[i]
  PROVE  s = r
OBVIOUS

LEMMA AppendIs ==
  ASSUME NEW S, NEW s \in Seq(S), NEW x \in S
  PROVE  /\ Append(s, x) \in Seq(S) /\ Len(Append(s, x)) = Len(s) + 1
         /\ (\A i \in 1..Len(s) : Append(s, x)[i] = s[i]) /\ Append(s, x)[Len(s) + 1] = x
OBVIOUS

LEMMA InsertedIs ==
  ASSUME NEW S, NEW s \in Seq(S), NEW r \in Seq(S), NEW x \in S,
         NEW k \in 1..(Len(s) + 1), Inserted(s, k, x, r)
  PROVE  r = InsertAt(s, k, x)
<1>1. PICK q \in Seq(S) : q = InsertAt(s, k, x) /\ Inserted(s, k, x, q)
  BY InsertedExists
<1>2. \A i \in 1..(Len(s) + 1) : i \in 1..k - 1 \/ i = k \/ i \in (k + 1)..(Len(s) + 1)
  OBVIOUS
<1>3. Len(r) = Len(q) /\ \A i \in 1..Len(r) : r[i] = q[i]
  BY <1>1, <1>2 DEF Inserted
<1> QED
  BY <1>1, <1>3, SequencesEqual

LEMMA RemovedExists ==
  ASSUME NEW S, NEW s \in Seq(S), NEW k \in 1..Len(s)
  PROVE  \E r \in Seq(S) : r = RemoveAt(s, k) /\ Removed(s, k, r)
<1>1. PICK a \in Seq(S) : a = SubSeq(s, 1, k - 1)
  <2>1. 1 \in 1..(Len(s) + 1) /\ k - 1 \in 0..Len(s) /\ 1 <= k - 1 + 1
    OBVIOUS
  <2> QED
    BY <2>1, SubSeqIs
<1>2. Len(a) = k - 1 /\ \A i \in 1..k - 1 : a[i] = s[i]
  <2>1. /\ 1 \in 1..(Len(s) + 1) /\ k - 1 \in 0..Len(s) /\ 1 <= k - 1 + 1 /\ k - 1 - 1 + 1 = k - 1
        /\ \A i \in 1..k - 1 : 1 + i - 1 = i
    OBVIOUS
  <2> QED
    BY <1>1, <2>1, SubSeqIs
<1>3. PICK m \in 1..(Len(s) + 1) : m = k + 1
  OBVIOUS
<1>4. Len(s) \in 0..Len(s) /\ m <= Len(s) + 1
  BY <1>3
<1>5. /\ SubSeq(s, m, Len(s)) \in Seq(S)
      /\ Len(SubSeq(s, m, Len(s))) = Len(s) - m + 1
      /\ \A i \in 1..(Len(s) - m + 1) : SubSeq(s, m, Len(s))[i] = s[m + i - 1]
  BY <1>4, SubSeqIs
<1>6. PICK b \in Seq(S) : b = SubSeq(s, m, Len(s))
  BY <1>5
<1>7. Len(b) = Len(s) - k /\ \A i \in 1..(Len(s) - k) : b[i] = s[k + i]
  <2>1. /\ Len(s) - m + 1 = Len(s) - k
        /\ \A i \in 1..(Len(s) - k) : m + i - 1 = k + i
    BY <1>3
  <2> QED
    BY <1>5, <1>6, <2>1
<1>8. PICK r \in Seq(S) : r = a \o b
  BY Concatenation
<1>9. /\ Len(r) = Len(a) + Len(b) /\ (\A i \in 1..Len(a) : r[i] = a[i])
      /\ \A i \in (Len(a) + 1)..(Len(a) + Len(b)) : r[i] = b[i - Len(a)]
  BY <1>8, Concatenation
<1>10. /\ Len(r) = Len(s) - 1 /\ (\A i \in 1..k - 1 : r[i] = a[i])
       /\ \A i \in k..(Len(s) - 1) : r[i] = b[i - (k - 1)]
  <2>1. k - 1 + (Len(s) - k) = Len(s) - 1 /\ k - 1 + 1 = k
    OBVIOUS
  <2> QED
    BY <1>2, <1>7, <1>9, <2>1
<1>11. \A i \in k..(Len(s) - 1) : i - (k - 1) \in 1..(Len(s) - k) /\ k + (i - (k - 1)) = i + 1
  OBVIOUS
<1>12. \A i \in k..(Len(s) - 1) : r[i] = s[i + 1]
  BY <1>7, <1>10, <1>11
<1>13. \A i \in 1..k - 1 : r[i] = s[i]
  BY <1>2, <1>10
<1>14. r = RemoveAt(s, k)
  BY <1>1, <1>3, <1>6, <1>8 DEF RemoveAt
<1> QED
  BY <1>10, <1>12, <1>13, <1>14 DEF Removed

LEMMA RemovedIs ==
  ASSUME NEW S, NEW s \in Seq(S), NEW r \in Seq(S), NEW k \in 1..Len(s), Removed(s, k, r)
  PROVE  r = RemoveAt(s, k)
<1>1. PICK q \in Seq(S) : q = RemoveAt(s, k) /\ Removed(s, k, q)
  BY RemovedExists
<1>2. \A i \in 1..(Len(s) - 1) : i \in 1..k - 1 \/ i \in k..(Len(s) - 1)
  OBVIOUS
<1>3. Len(r) = Len(q) /\ \A i \in 1..Len(r) : r[i] = q[i]
  BY <1>1, <1>2 DEF Removed
<1> QED
  BY <1>1, <1>3, SequencesEqual

\* The elements of r, from those of s.
LEMMA InsertedPlaces ==
  ASSUME NEW S, NEW s \in Seq(S), NEW r, NEW x, NEW k \in 1..(Len(s) + 1), Inserted(s, k, x, r)
  PROVE  /\ Len(r) = Len(s) + 1 /\ Len(s) \in Nat
         /\ \A i \in 1..(Len(s) + 1) :
               \/ i < k /\ i \in 1..Len(s) /\ r[i] = s[i]
               \/ i = k /\ r[i] = x
               \/ i > k /\ i - 1 \in 1..Len(s) /\ r[i] = s[i - 1]
         /\ \A i \in 1..Len(s) :
               \/ i < k /\ i \in 1..(Len(s) + 1) /\ r[i] = s[i]
               \/ i >= k /\ i + 1 \in 1..(Len(s) + 1) /\ r[i + 1] = s[i]
<1>1. Len(r) = Len(s) + 1 /\ Len(s) \in Nat
  BY DEF Inserted
<1>2. ASSUME NEW i \in 1..(Len(s) + 1)
      PROVE  \/ i < k /\ i \in 1..Len(s) /\ r[i] = s[i]
             \/ i = k /\ r[i] = x
             \/ i > k /\ i - 1 \in 1..Len(s) /\ r[i] = s[i - 1]
  <2>1. \/ i < k /\ i \in 1..k - 1 /\ i \in 1..Len(s)
        \/ i = k
        \/ i > k /\ i \in (k + 1)..(Len(s) + 1) /\ i - 1 \in 1..Len(s)
    OBVIOUS
  <2> QED
    BY <2>1 DEF Inserted
<1>3. ASSUME NEW i \in 1..Len(s)
      PROVE  \/ i < k /\ i \in 1..(Len(s) + 1) /\ r[i] = s[i]
             \/ i >= k /\ i + 1 \in 1..(Len(s) + 1) /\ r[i + 1] = s[i]
  <2>1. CASE i < k
    BY <1>2, <2>1
  <2>2. CASE i >= k
    <3>1. PICK j \in 1..(Len(s) + 1) : j = i + 1
      OBVIOUS
    <3>2. j > k /\ j - 1 = i
      BY <2>2, <3>1
    <3>3. r[j] = s[j - 1]
      BY <1>2, <3>2
    <3> QED
      BY <2>2, <3>1, <3>2, <3>3
  <2> QED
    BY <2>1, <2>2
<1> QED
  BY <1>1, <1>2, <1>3

LEMMA RemovedPlaces ==
  ASSUME NEW S, NEW s \in Seq(S), NEW r, NEW k \in 1..Len(s), Removed(s, k, r)
  PROVE  /\ Len(r) = Len(s) - 1 /\ Len(s) \in Nat
         /\ \A i \in 1..(Len(s) - 1) :
               \/ i < k /\ i \in 1..Len(s) /\ r[i] = s[i]
               \/ i >= k /\ i + 1 \in 1..Len(s) /\ r[i] = s[i + 1]
         /\ \A i \in 1..Len(s) :
               \/ i < k /\ i \in 1..(Len(s) - 1) /\ r[i] = s[i]
               \/ i = k
               \/ i > k /\ i - 1 \in 1..(Len(s) - 1) /\ r[i - 1] = s[i]
<1>1. Len(r) = Len(s) - 1 /\ Len(s) \in Nat
  BY DEF Removed
<1>2. ASSUME NEW i \in 1..(Len(s) - 1)
      PROVE  \/ i < k /\ i \in 1..Len(s) /\ r[i] = s[i]
             \/ i >= k /\ i + 1 \in 1..Len(s) /\ r[i] = s[i + 1]
  <2>1. \/ i < k /\ i \in 1..k - 1 /\ i \in 1..Len(s)
        \/ i >= k /\ i \in k..(Len(s) - 1) /\ i + 1 \in 1..Len(s)
    OBVIOUS
  <2> QED
    BY <2>1 DEF Removed
<1>3. ASSUME NEW i \in 1..Len(s)
      PROVE  \/ i < k /\ i \in 1..(Len(s) - 1) /\ r[i] = s[i]
             \/ i = k
             \/ i > k /\ i - 1 \in 1..(Len(s) - 1) /\ r[i - 1] = s[i]
  <2>1. CASE i < k
    <3>1. i \in 1..(Len(s) - 1)
      BY <2>1
    <3> QED
      BY <1>2, <2>1, <3>1
  <2>2. CASE i > k
    <3>1. PICK j \in 1..(Len(s) - 1) : j = i - 1
      BY <2>2
    <3>2. j >= k /\ j + 1 = i
      BY <2>2, <3>1
    <3>3. r[j] = s[j + 1]
      BY <1>2, <3>2
    <3> QED
      BY <2>2, <3>1, <3>2, <3>3
  <2> QED
    BY <2>1, <2>2
<1> QED
  BY <1>1, <1>2, <1>3

LEMMA HasAfterInsert ==
  ASSUME NEW S, NEW s \in Seq(S), NEW x, NEW k \in 1..(Len(s) + 1), NEW r, Inserted(s, k, x, r)
  PROVE  /\ \A y : Has(r, y) <=> y = x \/ Has(s, y)
         /\ Distinct(s) /\ ~Has(s, x) => Distinct(r)
<1>1. /\ Len(r) = Len(s) + 1 /\ Len(s) \in Nat
      /\ \A i \in 1..(Len(s) + 1) :
            \/ i < k /\ i \in 1..Len(s) /\ r[i] = s[i]
            \/ i = k /\ r[i] = x
            \/ i > k /\ i - 1 \in 1..Len(s) /\ r[i] = s[i - 1]
      /\ \A i \in 1..Len(s) :
            \/ i < k /\ i \in 1..(Len(s) + 1) /\ r[i] = s[i]
            \/ i >= k /\ i + 1 \in 1..(Len(s) + 1) /\ r[i + 1] = s[i]
  BY InsertedPlaces
<1>2. \A y : Has(r, y) => y = x \/ Has(s, y)
  BY <1>1 DEF Has
<1>3. \A y : Has(s, y) => Has(r, y)
  <2>1. \A i \in 1..Len(s) : \E j \in 1..Len(r) : r[j] = s[i]
    BY <1>1
  <2> QED
    BY <2>1 DEF Has
<1>4. Has(r, x)
  BY <1>1 DEF Has
<1>5. ASSUME Distinct(s), ~Has(s, x) PROVE Distinct(r)
  <2>1. \A i \in 1..Len(s) : s[i] # x
    BY <1>5 DEF Has
  <2>2. \A i, j \in 1..Len(s) : s[i] = s[j] => i = j
    BY <1>5 DEF Distinct
  <2>3. ASSUME NEW i \in 1..(Len(s) + 1), NEW j \in 1..(Len(s) + 1), r[i] = r[j] PROVE i = j
    <3>1. CASE i = k
      BY <1>1, <2>1, <2>3, <3>1
    <3>2. CASE i < k
      BY <1>1, <2>1, <2>2, <2>3, <3>2
    <3>3. CASE i > k
      <4>1. i - 1 \in 1..Len(s) /\ r[i] = s[i - 1]
        BY <1>1, <3>3
      <4>2. j # k
        <5>1. r[j] # x
          BY <2>1, <2>3, <4>1
        <5>2. j = k => r[j] = x
          BY <1>1
        <5> QED
          BY <5>1, <5>2
      <4>3. j > k \/ (j < k /\ j \in 1..Len(s) /\ r[j] = s[j])
        BY <1>1, <4>2
      <4>4. ~(j < k)
        BY <2>2, <2>3, <3>3, <4>1, <4>3
      <4>5. j > k /\ j - 1 \in 1..Len(s) /\ r[j] = s[j - 1]
        BY <1>1, <4>2, <4>4
      <4>6. i - 1 = j - 1
        BY <2>2, <2>3, <4>1, <4>5
      <4> QED
        BY <4>6
    <3> QED
      BY <3>1, <3>2, <3>3
  <2> QED
    BY <1>1, <2>3 DEF Distinct
<1> QED
  BY <1>2, <1>3, <1>4, <1>5

LEMMA HasAfterRemove ==
  ASSUME NEW S, NEW s \in Seq(S), NEW k \in 1..Len(s), Distinct(s), NEW r, Removed(s, k, r)
  PROVE  /\ \A y : Has(r, y) <=> Has(s, y) /\ y # s[k]
         /\ Distinct(r)
<1>1. /\ Len(r) = Len(s) - 1 /\ Len(s) \in Nat
      /\ \A i \in 1..(Len(s) - 1) :
            \/ i < k /\ i \in 1..Len(s) /\ r[i] = s[i]
            \/ i >= k /\ i + 1 \in 1..Len(s) /\ r[i] = s[i + 1]
      /\ \A i \in 1..Len(s) :
            \/ i < k /\ i \in 1..(Len(s) - 1) /\ r[i] = s[i]
            \/ i = k
            \/ i > k /\ i - 1 \in 1..(Len(s) - 1) /\ r[i - 1] = s[i]
  BY RemovedPlaces
<1>2. \A i, j \in 1..Len(s) : s[i] = s[j] => i = j
  BY DEF Distinct
<1>3. \A i \in 1..(Len(s) - 1) : \E j \in 1..Len(s) : r[i] = s[j] /\ s[j] # s[k]
  <2>1. SUFFICES ASSUME NEW i \in 1..(Len(s) - 1)
                 PROVE  \E j \in 1..Len(s) : r[i] = s[j] /\ s[j] # s[k]
    OBVIOUS
  <2>2. PICK j \in 1..Len(s) : r[i] = s[j] /\ j # k
    <3>1. CASE i < k
      <4>1. i \in 1..Len(s) /\ r[i] = s[i] /\ i # k
        BY <1>1, <3>1
      <4> QED
        BY <4>1
    <3>2. CASE i >= k
      <4>1. i + 1 \in 1..Len(s) /\ r[i] = s[i + 1] /\ i + 1 # k
        BY <1>1, <3>2
      <4> QED
        BY <4>1
    <3> QED
      BY <1>1, <3>1, <3>2
  <2> QED
    BY <1>2, <2>2
<1>4. \A i \in 1..Len(s) : s[i] # s[k] => \E j \in 1..(Len(s) - 1) : r[j] = s[i]
  BY <1>1
<1>5. ASSUME NEW i \in 1..(Len(s) - 1), NEW j \in 1..(Len(s) - 1), r[i] = r[j] PROVE i = j
  BY <1>1, <1>2, <1>5
<1>6. \A y : Has(r, y) => Has(s, y) /\ y # s[k]
  BY <1>1, <1>3 DEF Has
<1>7. \A y : Has(s, y) /\ y # s[k] => Has(r, y)
  BY <1>1, <1>4 DEF Has
<1> QED
  BY <1>1, <1>5, <1>6, <1>7 DEF Distinct

LEMMA TailRemoves ==
  ASSUME NEW S, NEW s \in Seq(S), s # <<>>
  PROVE  Tail(s) \in Seq(S) /\ Removed(s, 1, Tail(s)) /\ 1 \in 1..Len(s)
<1>1. /\ Tail(s) \in Seq(S) /\ Len(Tail(s)) = Len(s) - 1 /\ Len(s) \in Nat /\ Len(s) >= 1
      /\ \A i \in 1..Len(s) - 1 : Tail(s)[i] = s[i + 1]
  BY TailIs
<1> QED
  BY <1>1 DEF Removed

LEMMA ConsInserts ==
  ASSUME NEW S, NEW s \in Seq(S), NEW x \in S
  PROVE  <<x>> \o s \in Seq(S) /\ Inserted(s, 1, x, <<x>> \o s) /\ 1 \in 1..(Len(s) + 1)
<1>1. PICK e \in Seq(S) : e = <<x>>
  <2>1. <<x>> \in Seq(S)
    OBVIOUS
  <2> QED
    BY <2>1
<1>2. Len(e) = 1 /\ e[1] = x /\ Len(s) \in Nat
  BY <1>1
<1>3. PICK r \in Seq(S) : r = e \o s
  BY Concatenation
<1>4. /\ Len(r) = Len(e) + Len(s) /\ (\A i \in 1..Len(e) : r[i] = e[i])
      /\ \A i \in (Len(e) + 1)..(Len(e) + Len(s)) : r[i] = s[i - Len(e)]
  BY <1>3, Concatenation
<1>5. Inserted(s, 1, x, r)
  BY <1>2, <1>4 DEF Inserted
<1>6. r = <<x>> \o s
  BY <1>1, <1>3
<1> QED
  BY <1>2, <1>5, <1>6

\* The sequence without its first element.
LEMMA WithoutFirst ==
  ASSUME NEW S, NEW q \in Seq(S), q # <<>>
  PROVE  Tail(q) \in Seq(S) /\ Tail(q) = RemoveAt(q, 1) /\ Head(q) = q[1]
<1>1. PICK r \in Seq(S) : r = Tail(q) /\ Removed(q, 1, r)
  BY TailRemoves
<1>2. Head(q) = q[1] /\ 1 \in 1..Len(q)
  BY HeadIs
<1>3. r = RemoveAt(q, 1)
  BY <1>1, <1>2, RemovedIs
<1> QED
  BY <1>1, <1>2, <1>3

\* The one element in front.
LEMMA WithFirst ==
  ASSUME NEW S, NEW q \in Seq(S), NEW x \in S
  PROVE  <<x>> \o q \in Seq(S) /\ <<x>> \o q = InsertAt(q, 1, x)
<1>1. PICK r \in Seq(S) : r = <<x>> \o q /\ Inserted(q, 1, x, r)
  BY ConsInserts
<1>2. 1 \in 1..(Len(q) + 1)
  OBVIOUS
<1>3. r = InsertAt(q, 1, x)
  BY <1>1, <1>2, InsertedIs
<1> QED
  BY <1>1, <1>3

LEMMA WithoutLast ==
  ASSUME NEW S, NEW q \in Seq(S), q # <<>>
  PROVE  Front(q) = RemoveAt(q, Len(q))
<1>1. PICK k \in 1..Len(q) : k = Len(q) /\ k \in Nat /\ k >= 1
  OBVIOUS
<1>2. PICK r \in Seq(S) : r = SubSeq(q, 1, k - 1) /\ Removed(q, k, r)
  <2>1. 1 \in 1..(Len(q) + 1) /\ k - 1 \in 0..Len(q) /\ 1 <= k - 1 + 1
    BY <1>1
  <2>2. /\ SubSeq(q, 1, k - 1) \in Seq(S) /\ Len(SubSeq(q, 1, k - 1)) = k - 1 - 1 + 1
        /\ \A i \in 1..(k - 1 - 1 + 1) : SubSeq(q, 1, k - 1)[i] = q[1 + i - 1]
    BY <2>1, SubSeqIs
  <2>3. PICK r \in Seq(S) : r = SubSeq(q, 1, k - 1)
    BY <2>2
  <2>4. Len(r) = k - 1 /\ \A i \in 1..(k - 1) : r[i] = q[i]
    BY <1>1, <2>2, <2>3
  <2>5. Removed(q, k, r)
    BY <1>1, <2>4 DEF Removed
  <2> QED
    BY <2>3, <2>5
<1>3. r = RemoveAt(q, k)
  BY <1>2, RemovedIs
<1> QED
  BY <1>1, <1>2, <1>3 DEF Front

LEMMA ConcatenationHas ==
  ASSUME NEW S, NEW s \in Seq(S), NEW r \in Seq(S)
  PROVE  /\ \A x : Has(s \o r, x) <=> Has(s, x) \/ Has(r, x)
         /\ Distinct(s) /\ Distinct(r) /\ (\A x : ~(Has(s, x) /\ Has(r, x))) => Distinct(s \o r)
<1>1. PICK q \in Seq(S) : q = s \o r
  BY Concatenation
<1>2. /\ Len(q) = Len(s) + Len(r) /\ Len(s) \in Nat /\ Len(r) \in Nat
      /\ \A i \in 1..Len(s) : q[i] = s[i]
      /\ \A i \in 1..Len(r) : q[Len(s) + i] = r[i]
  BY <1>1, Concatenation
<1>3. \A i \in 1..Len(q) : \/ i \in 1..Len(s) /\ q[i] = s[i]
                           \/ /\ i > Len(s) /\ i - Len(s) \in 1..Len(r)
                              /\ q[i] = r[i - Len(s)]
  <2>1. SUFFICES ASSUME NEW i \in 1..Len(q), i \notin 1..Len(s)
                 PROVE  i > Len(s) /\ i - Len(s) \in 1..Len(r) /\ q[i] = r[i - Len(s)]
    BY <1>2
  <2>2. PICK j \in 1..Len(r) : j = i - Len(s) /\ i = Len(s) + j /\ i > Len(s)
    <3>1. i - Len(s) \in 1..Len(r) /\ i = Len(s) + (i - Len(s)) /\ i > Len(s)
      BY <1>2, <2>1
    <3> QED
      BY <3>1
  <2> QED
    BY <1>2, <2>2
<1>4. ASSUME NEW x PROVE Has(q, x) <=> Has(s, x) \/ Has(r, x)
  <2>1. ASSUME Has(s, x) PROVE Has(q, x)
    <3>1. PICK i \in 1..Len(s) : s[i] = x
      BY <2>1 DEF Has
    <3>2. i \in 1..Len(q)
      BY <1>2
    <3> QED
      BY <1>2, <3>1, <3>2 DEF Has
  <2>2. ASSUME Has(r, x) PROVE Has(q, x)
    <3>1. PICK i \in 1..Len(r) : r[i] = x
      BY <2>2 DEF Has
    <3>2. Len(s) + i \in 1..Len(q)
      BY <1>2
    <3> QED
      BY <1>2, <3>1, <3>2 DEF Has
  <2>3. ASSUME Has(q, x) PROVE Has(s, x) \/ Has(r, x)
    <3>1. PICK i \in 1..Len(q) : q[i] = x
      BY <2>3 DEF Has
    <3> QED
      BY <1>3, <3>1 DEF Has
  <2> QED
    BY <2>1, <2>2, <2>3
<1>5. ASSUME Distinct(s), Distinct(r), \A x : ~(Has(s, x) /\ Has(r, x))
      PROVE  Distinct(q)
  <2>1. SUFFICES ASSUME NEW i \in 1..Len(q), NEW j \in 1..Len(q), q[i] = q[j] PROVE i = j
    BY DEF Distinct
  <2>2. CASE i \in 1..Len(s) /\ j \in 1..Len(s)
    BY <1>2, <1>5, <2>1, <2>2 DEF Distinct
  <2>3. \A k, l \in 1..Len(q) : k \in 1..Len(s) /\ q[k] = q[l] => l \in 1..Len(s)
    <3>1. SUFFICES ASSUME NEW k \in 1..Len(q), NEW l \in 1..Len(q), k \in 1..Len(s),
                          q[k] = q[l], l \notin 1..Len(s)
                   PROVE  FALSE
      OBVIOUS
    <3>2. Has(s, q[k]) /\ Has(r, q[l])
      BY <1>2, <1>3, <3>1 DEF Has
    <3> QED
      BY <1>5, <3>1, <3>2
  <2>4. CASE i \notin 1..Len(s) /\ j \notin 1..Len(s)
    <3>1. PICK k \in 1..Len(r) : k = i - Len(s) /\ q[i] = r[k]
      BY <1>3, <2>4
    <3>2. PICK l \in 1..Len(r) : l = j - Len(s) /\ q[j] = r[l]
      BY <1>3, <2>4
    <3>3. k = l
      BY <1>5, <2>1, <3>1, <3>2 DEF Distinct
    <3> QED
      BY <1>2, <3>1, <3>2, <3>3
  <2> QED
    BY <2>1, <2>2, <2>3, <2>4
<1> QED
  BY <1>1, <1>4, <1>5

LEMMA HasConcatenated ==
  ASSUME NEW S, NEW s \in Seq(S), NEW r \in Seq(S), NEW q, q = s \o r, NEW x
  PROVE  Has(q, x) <=> Has(s, x) \/ Has(r, x)
BY ConcatenationHas

LEMMA ConcatenatedIsDistinct ==
  ASSUME NEW S, NEW s \in Seq(S), NEW r \in Seq(S), NEW q, q = s \o r, Distinct(s), Distinct(r),
         \A x : ~(Has(s, x) /\ Has(r, x))
  PROVE  Distinct(q)
BY ConcatenationHas

\* What is gathered from sequences that have nothing in common.
LEMMA GatheredIs ==
  ASSUME NEW S, NEW n \in Nat, NEW E \in [1..n -> Seq(S)], NEW f \in [0..n -> Seq(S)],
         f[0] = <<>>, \A k \in 1..n : f[k] = E[k] \o f[k - 1],
         \A k \in 1..n : Distinct(E[k]),
         \A j, k \in 1..n : \A x : Has(E[j], x) /\ Has(E[k], x) => j = k
  PROVE  Distinct(f[n]) /\ \A x : Has(f[n], x) <=> \E j \in 1..n : Has(E[j], x)
<1> DEFINE Good(k) == Distinct(f[k]) /\ \A x : Has(f[k], x) <=> \E j \in 1..k : Has(E[j], x)
           T == {k \in 0..n : ~Good(k)}
<1>1. SUFFICES T = {}
  <2>1. n \in 0..n
    OBVIOUS
  <2> QED
    BY <2>1
<1>2. SUFFICES ASSUME T # {} PROVE FALSE
  OBVIOUS
<1>3. PICK m \in T : \A k \in T : m <= k
  <2>1. T \subseteq Nat
    OBVIOUS
  <2> HIDE DEF T
  <2> QED
    BY <1>2, <2>1, SmallestOne
<1>4. Good(0)
  <2>1. Len(f[0]) = 0 /\ 1..0 = {}
    OBVIOUS
  <2> QED
    BY <2>1 DEF Distinct, Has
<1>5. m \in 0..n /\ ~Good(m)
  OBVIOUS
<1>6. m \in 1..n /\ m - 1 \in 0..n /\ ~(m <= m - 1)
  <2>1. m # 0
    BY <1>4, <1>5
  <2> HIDE DEF Good, T
  <2> QED
    BY <1>5, <2>1
<1>7. Good(m - 1)
  <2>1. m - 1 \notin T
    <3> HIDE DEF T
    <3> QED
      BY <1>3, <1>6
  <2> HIDE DEF Good
  <2> QED
    BY <1>6, <2>1
<1>8. PICK g \in Seq(S) : g = f[m - 1]
  BY <1>6
<1>9. Distinct(g) /\ \A x : Has(g, x) <=> \E j \in 1..m - 1 : Has(E[j], x)
  BY <1>7, <1>8
<1>10. PICK e \in Seq(S) : e = E[m] /\ Distinct(e)
  BY <1>6
<1>11. f[m] = e \o g
  BY <1>6, <1>8, <1>10
<1>12. \A x : ~(Has(e, x) /\ Has(g, x))
  <2>1. SUFFICES ASSUME NEW x, Has(e, x), Has(g, x) PROVE FALSE
    OBVIOUS
  <2>2. PICK j \in 1..m - 1 : Has(E[j], x)
    BY <1>9, <2>1
  <2>3. j \in 1..n /\ j # m
    BY <1>6
  <2> QED
    BY <1>6, <1>10, <2>1, <2>2, <2>3
<1>13. Distinct(f[m]) /\ \A x : Has(f[m], x) <=> Has(e, x) \/ Has(g, x)
  <2> HIDE DEF Good, T
  <2>1. e \in Seq(S) /\ g \in Seq(S)
    BY <1>8, <1>10
  <2>2. PICK w : w = f[m]
    OBVIOUS
  <2>3. w = e \o g
    BY <1>11, <2>2
  <2>4. Distinct(w)
    BY <1>9, <1>10, <1>12, <2>1, <2>3, ConcatenatedIsDistinct
  <2>5. \A x : Has(w, x) <=> Has(e, x) \/ Has(g, x)
    BY <2>1, <2>3, HasConcatenated
  <2> QED
    BY <2>2, <2>4, <2>5
<1>14. \A x : (\E j \in 1..m : Has(E[j], x)) <=> Has(e, x) \/ \E j \in 1..m - 1 : Has(E[j], x)
  <2>1. m \in Nat /\ m >= 1
    BY <1>6
  <2>2. \A j \in 1..m : j = m \/ j \in 1..m - 1
    BY <2>1
  <2>3. m \in 1..m /\ \A j \in 1..m - 1 : j \in 1..m
    BY <2>1
  <2> QED
    BY <1>10, <2>2, <2>3
<1>15. Good(m)
  BY <1>9, <1>13, <1>14
<1> QED
  BY <1>5, <1>15

LEMMA ToSetHas ==
  ASSUME NEW S, NEW s \in Seq(S)
  PROVE  \A x : x \in ToSet(s) <=> Has(s, x)
<1>1. DOMAIN s = 1..Len(s)
  OBVIOUS
<1> QED
  BY <1>1 DEF ToSet, Has

LEMMA DistinctIsInjective ==
  ASSUME NEW S, NEW s \in Seq(S)
  PROVE  Distinct(s) => IsInjective(s)
BY DEF Distinct, IsInjective

-----------------------------------------------------------------------------
(* The elements of a set of numbers in order *)

\* f is the function upTo of Ascending(S, n).
IsUpTo(S, n, f) ==
    /\ f \in [0..n -> Seq(Nat)] /\ Ascending(S, n) = f[n] /\ f[0] = <<>>
    /\ \A k \in 1..n : f[k] = IF k \in S THEN Append(f[k - 1], k) ELSE f[k - 1]

LEMMA AscendingFunction ==
  ASSUME NEW S, NEW n \in Nat
  PROVE  \E f : IsUpTo(S, n, f)
<1> DEFINE Is(h) == h = [k \in 0..n |-> IF k = 0 THEN <<>>
                                        ELSE IF k \in S THEN Append(h[k - 1], k) ELSE h[k - 1]]
           step == [k \in 1..n |-> [s \in Seq(Nat) |-> IF k \in S THEN Append(s, k) ELSE s]]
<1>1. PICK f : Recursion(f, Seq(Nat), <<>>, step, n)
  <2>1. step \in [1..n -> [Seq(Nat) -> Seq(Nat)]] /\ <<>> \in Seq(Nat)
    OBVIOUS
  <2> HIDE DEF step
  <2> QED
    BY <2>1, RecursionExists
<1>2. f \in [0..n -> Seq(Nat)] /\ f[0] = <<>>
  BY <1>1 DEF Recursion
<1>3. \A k \in 1..n : f[k] = IF k \in S THEN Append(f[k - 1], k) ELSE f[k - 1]
  <2>1. \A k \in 1..n : k - 1 \in 0..n
    OBVIOUS
  <2>2. \A k \in 1..n : \A s \in Seq(Nat) : step[k][s] = IF k \in S THEN Append(s, k) ELSE s
    OBVIOUS
  <2> HIDE DEF step
  <2>3. \A k \in 1..n : f[k] = step[k][f[k - 1]]
    BY <1>1 DEF Recursion
  <2> QED
    BY <1>2, <2>1, <2>2, <2>3
<1>4. Is(f)
  <2>1. \A k \in 0..n : k # 0 => k \in 1..n
    OBVIOUS
  <2> QED
    BY <1>2, <1>3, <2>1
<1>5. PICK u : u = CHOOSE h : Is(h)
  OBVIOUS
<1>6. Is(u)
  <2> HIDE DEF Is
  <2> QED
    BY <1>4, <1>5
<1>7. Ascending(S, n) = u[n]
  BY <1>5 DEF Ascending
<1> HIDE DEF step
<1>8. u[0] = <<>> /\ \A k \in 1..n : u[k] = IF k \in S THEN Append(u[k - 1], k) ELSE u[k - 1]
  <2>1. 0 \in 0..n /\ \A k \in 1..n : k \in 0..n /\ k # 0
    OBVIOUS
  <2> QED
    BY <1>6, <2>1
<1>9. \A k \in 0..n : u[k] \in Seq(Nat)
  <2> DEFINE T == {k \in 0..n : u[k] \notin Seq(Nat)}
  <2>1. SUFFICES ASSUME T # {} PROVE FALSE
    OBVIOUS
  <2>2. PICK k \in T : \A j \in T : k <= j
    <3>1. T \subseteq Nat
      OBVIOUS
    <3> HIDE DEF T
    <3> QED
      BY <2>1, <3>1, SmallestOne
  <2> HIDE DEF Is
  <2>3. k # 0
    <3>1. u[0] \in Seq(Nat)
      <4>1. <<>> \in Seq(Nat)
        OBVIOUS
      <4> QED
        BY <1>8, <4>1
    <3> QED
      BY <2>2, <3>1
  <2>4. k \in 1..n /\ k - 1 \in 0..n /\ ~(k <= k - 1) /\ k \in Nat
    BY <2>2, <2>3
  <2>5. u[k - 1] \in Seq(Nat)
    BY <2>2, <2>4
  <2>6. u[k] = IF k \in S THEN Append(u[k - 1], k) ELSE u[k - 1]
    BY <1>8, <2>4
  <2>7. u[k] \in Seq(Nat)
    BY <2>4, <2>5, <2>6
  <2> QED
    BY <2>2, <2>7
<1> DEFINE g == [k \in 0..n |-> u[k]]
<1>10. g \in [0..n -> Seq(Nat)] /\ g[n] = u[n] /\ g[0] = u[0]
  <2> HIDE DEF Is
  <2> QED
    BY <1>9
<1>11. \A k \in 1..n : g[k] = u[k] /\ g[k - 1] = u[k - 1]
  <2> HIDE DEF Is
  <2> QED
    OBVIOUS
<1> HIDE DEF g, Is
<1> QED
  <2>1. g \in [0..n -> Seq(Nat)] /\ Ascending(S, n) = g[n] /\ g[0] = <<>>
    BY <1>7, <1>8, <1>10
  <2>2. \A k \in 1..n : g[k] = IF k \in S THEN Append(g[k - 1], k) ELSE g[k - 1]
    BY <1>8, <1>11
  <2>3. IsUpTo(S, n, g)
    BY <2>1, <2>2 DEF IsUpTo
  <2> QED
    BY <2>3

LEMMA AscendingStep ==
  ASSUME NEW S
  PROVE  /\ Ascending(S, 0) = <<>>
         /\ \A n \in Nat \ {0} :
               Ascending(S, n) = IF n \in S THEN Append(Ascending(S, n - 1), n)
                                 ELSE Ascending(S, n - 1)
<1>1. Ascending(S, 0) = <<>>
  <2>1. 0 \in Nat
    OBVIOUS
  <2> QED
    BY <2>1, AscendingFunction DEF IsUpTo
<1>2. ASSUME NEW n \in Nat \ {0}
      PROVE  Ascending(S, n) = IF n \in S THEN Append(Ascending(S, n - 1), n)
                               ELSE Ascending(S, n - 1)
  <2>1. PICK f : IsUpTo(S, n, f)
    BY AscendingFunction
  <2>2. n - 1 \in Nat
    OBVIOUS
  <2>3. PICK g : IsUpTo(S, n - 1, g)
    BY <2>2, AscendingFunction
  <2> DEFINE T == {k \in 0..(n - 1) : f[k] # g[k]}
  <2>4. T = {}
    <3>1. SUFFICES ASSUME T # {} PROVE FALSE
      OBVIOUS
    <3>2. PICK k \in T : \A j \in T : k <= j
      <4>1. T \subseteq Nat
        OBVIOUS
      <4> HIDE DEF T
      <4> QED
        BY <3>1, <4>1, SmallestOne
    <3>3. k # 0
      <4>1. f[0] = g[0]
        BY <2>1, <2>3 DEF IsUpTo
      <4> QED
        BY <3>2, <4>1
    <3>4. k \in 1..(n - 1) /\ k \in 1..n /\ k - 1 \in 0..(n - 1) /\ ~(k <= k - 1)
      BY <3>2, <3>3
    <3>5. f[k - 1] = g[k - 1]
      BY <3>2, <3>4
    <3>6. f[k] = g[k]
      <4> HIDE DEF T
      <4> QED
        BY <2>1, <2>3, <3>4, <3>5 DEF IsUpTo
    <3> QED
      BY <3>2, <3>6
  <2>5. f[n - 1] = g[n - 1] /\ n \in 1..n
    <3>1. n - 1 \in 0..(n - 1) /\ n \in 1..n
      BY <2>2
    <3> QED
      BY <2>4, <3>1
  <2> QED
    BY <2>1, <2>3, <2>5 DEF IsUpTo
<1> QED
  BY <1>1, <1>2

\* o is the sequence of the elements of T in order.
Enumerates(o, T) ==
    /\ o \in Seq(Nat)
    /\ \A i, j \in 1..Len(o) : i < j => o[i] < o[j]
    /\ \A i \in 1..Len(o) : o[i] \in T
    /\ \A x \in T : \E i \in 1..Len(o) : o[i] = x

LEMMA EnumeratesAppended ==
  ASSUME NEW o, NEW T, Enumerates(o, T), NEW x \in Nat, \A y \in T : y < x
  PROVE  Enumerates(Append(o, x), T \cup {x})
<1>1. o \in Seq(Nat) /\ Len(o) \in Nat
  BY DEF Enumerates
<1>2. /\ Append(o, x) \in Seq(Nat) /\ Len(Append(o, x)) = Len(o) + 1
      /\ (\A i \in 1..Len(o) : Append(o, x)[i] = o[i]) /\ Append(o, x)[Len(o) + 1] = x
  BY <1>1, AppendIs
<1> DEFINE r == Append(o, x)
<1>3. \A i \in 1..Len(r) : (i \in 1..Len(o) /\ r[i] = o[i]) \/ (i = Len(o) + 1 /\ r[i] = x)
  <2>1. Len(r) = Len(o) + 1
    BY <1>2
  <2>2. \A i \in 1..Len(r) : i \in 1..Len(o) \/ i = Len(o) + 1
    BY <1>1, <2>1
  <2> HIDE DEF r
  <2> QED
    BY <1>2, <2>2 DEF r
<1> HIDE DEF r
<1>4. ASSUME NEW i \in 1..Len(r), NEW j \in 1..Len(r), i < j PROVE r[i] < r[j]
  <2>1. i \in 1..Len(o) /\ r[i] = o[i]
    BY <1>1, <1>2, <1>3, <1>4 DEF r
  <2> QED
    BY <1>3, <1>4, <2>1 DEF Enumerates
<1>5. \A i \in 1..Len(r) : r[i] \in T \cup {x}
  BY <1>3 DEF Enumerates
<1>6. \A y \in T \cup {x} : \E i \in 1..Len(r) : r[i] = y
  <2>1. Len(o) + 1 \in 1..Len(r) /\ \A i \in 1..Len(o) : i \in 1..Len(r)
    BY <1>1, <1>2 DEF r
  <2> QED
    BY <1>2, <2>1 DEF Enumerates, r
<1> QED
  BY <1>2, <1>4, <1>5, <1>6 DEF Enumerates, r

LEMMA AscendingEnumerates ==
  ASSUME NEW S, NEW n \in Nat
  PROVE  Enumerates(Ascending(S, n), S \cap (1..n))
<1> DEFINE Good(k) == Enumerates(Ascending(S, k), S \cap (1..k))
           T == {k \in Nat : ~Good(k)}
<1>1. SUFFICES ASSUME T # {} PROVE FALSE
  OBVIOUS
<1>2. PICK k \in T : \A j \in T : k <= j
  <2>1. T \subseteq Nat
    OBVIOUS
  <2> HIDE DEF T
  <2> QED
    BY <1>1, <2>1, SmallestOne
<1>3. k # 0
  <2>1. Good(0)
    <3>1. Ascending(S, 0) = <<>> /\ S \cap (1..0) = {}
      BY AscendingStep
    <3>2. Enumerates(<<>>, {})
      BY DEF Enumerates
    <3> QED
      BY <3>1, <3>2
  <2> QED
    BY <1>2, <2>1
<1>4. k \in Nat \ {0} /\ k - 1 \in Nat /\ ~(k <= k - 1) /\ 1..k = (1..(k - 1)) \cup {k}
  BY <1>2, <1>3
<1>5. Good(k - 1)
  BY <1>2, <1>4
<1>6. Good(k)
  <2>1. Ascending(S, k) = IF k \in S THEN Append(Ascending(S, k - 1), k) ELSE Ascending(S, k - 1)
    BY <1>4, AscendingStep
  <2>2. CASE k \in S
    <3>1. S \cap (1..k) = (S \cap (1..(k - 1))) \cup {k} /\ \A y \in S \cap (1..(k - 1)) : y < k
      BY <1>4, <2>2
    <3> QED
      BY <1>4, <1>5, <2>1, <2>2, <3>1, EnumeratesAppended
  <2>3. CASE k \notin S
    <3>1. S \cap (1..k) = S \cap (1..(k - 1))
      BY <1>4, <2>3
    <3> QED
      BY <1>5, <2>1, <2>3, <3>1
  <2> QED
    BY <2>2, <2>3
<1> QED
  BY <1>2, <1>6

LEMMA EnumerationIsUnique ==
  ASSUME NEW T, NEW o, NEW r, Enumerates(o, T), Enumerates(r, T)
  PROVE  o = r
<1>1. o \in Seq(Nat) /\ r \in Seq(Nat) /\ Len(o) \in Nat /\ Len(r) \in Nat
  BY DEF Enumerates
<1> DEFINE Differ(i) == (i \in 1..Len(o) \/ i \in 1..Len(r))
                         /\ ~(i \in 1..Len(o) /\ i \in 1..Len(r) /\ o[i] = r[i])
           D == {i \in Nat : Differ(i)}
<1>2. D = {}
  <2>1. SUFFICES ASSUME D # {} PROVE FALSE
    OBVIOUS
  <2>2. PICK i \in D : \A j \in D : i <= j
    <3>1. D \subseteq Nat
      OBVIOUS
    <3> HIDE DEF D
    <3> QED
      BY <2>1, <3>1, SmallestOne
  <2>3. \A j \in 1..(i - 1) : j \in 1..Len(o) /\ j \in 1..Len(r) /\ o[j] = r[j]
    <3>1. SUFFICES ASSUME NEW j \in 1..(i - 1) PROVE j \in 1..Len(o) /\ j \in 1..Len(r) /\ o[j] = r[j]
      OBVIOUS
    <3>2. i \in Nat /\ (i \in 1..Len(o) \/ i \in 1..Len(r))
      BY <2>2
    <3>3. j \in Nat /\ ~(i <= j) /\ (j \in 1..Len(o) \/ j \in 1..Len(r))
      BY <1>1, <3>1, <3>2
    <3>4. j \notin D
      <4> HIDE DEF D
      <4> QED
        BY <2>2, <3>3
    <3> QED
      BY <3>3, <3>4
  <2>4. ASSUME NEW s, NEW t, Enumerates(s, T), Enumerates(t, T), i \in 1..Len(s),
               \A j \in 1..(i - 1) : j \in 1..Len(s) /\ j \in 1..Len(t) /\ s[j] = t[j]
        PROVE  i \in 1..Len(t) /\ t[i] <= s[i]
    <3>1. PICK k \in 1..Len(t) : t[k] = s[i]
      BY <2>4 DEF Enumerates
    <3>2. i \in Nat /\ Len(s) \in Nat /\ Len(t) \in Nat
      <4>1. i \in Nat
        BY <2>2
      <4>2. s \in Seq(Nat) /\ t \in Seq(Nat)
        BY <2>4, Zenon DEF Enumerates
      <4> QED
        BY <4>1, <4>2
    <3>3. ~(k < i)
      <4>1. SUFFICES ASSUME k < i PROVE FALSE
        OBVIOUS
      <4>2. k \in 1..(i - 1)
        BY <3>1, <3>2, <4>1
      <4>3. s[k] = s[i] /\ k \in 1..Len(s) /\ s[k] < s[i] /\ s[k] \in Nat
        BY <2>4, <3>1, <4>1, <4>2 DEF Enumerates
      <4> QED
        BY <4>3
    <3>4. i \in 1..Len(t) /\ k \in Nat
      BY <2>4, <3>1, <3>2, <3>3
    <3>5. CASE k = i
      <4>1. t[i] = s[i] /\ t \in Seq(Nat)
        BY <2>4, <3>1, <3>5 DEF Enumerates
      <4>2. t[i] \in Nat
        BY <3>4, <4>1
      <4> QED
        BY <3>4, <4>1, <4>2
    <3>6. CASE k # i
      <4>1. i < k
        BY <3>2, <3>3, <3>4, <3>6
      <4>2. t[i] < t[k] /\ t \in Seq(Nat)
        BY <2>4, <3>1, <3>4, <4>1 DEF Enumerates
      <4>3. t[i] \in Nat /\ t[k] \in Nat
        BY <3>1, <3>4, <4>2
      <4> QED
        BY <3>1, <3>4, <4>2, <4>3
    <3> QED
      BY <3>5, <3>6
  <2>5. i \in 1..Len(o) \/ i \in 1..Len(r)
    BY <2>2
  <2>6. i \in 1..Len(o) /\ i \in 1..Len(r) /\ o[i] <= r[i] /\ r[i] <= o[i]
    <3>1. i \in 1..Len(o) => i \in 1..Len(r) /\ r[i] <= o[i]
      BY <2>3, <2>4
    <3>2. i \in 1..Len(r) => i \in 1..Len(o) /\ o[i] <= r[i]
      BY <2>3, <2>4
    <3> QED
      BY <2>5, <3>1, <3>2
  <2>7. o[i] \in Nat /\ r[i] \in Nat
    BY <2>6 DEF Enumerates
  <2> QED
    BY <2>2, <2>6, <2>7
<1> HIDE DEF D, Differ
<1>3. \A i \in Nat : i \in 1..Len(o) <=> i \in 1..Len(r)
  BY <1>2 DEF D, Differ
<1>4. Len(o) = Len(r)
  <2>1. Len(o) \in 1..Len(o) \/ Len(o) = 0
    BY <1>1
  <2>2. Len(r) \in 1..Len(r) \/ Len(r) = 0
    BY <1>1
  <2> QED
    BY <1>1, <1>3, <2>1, <2>2
<1>5. \A i \in 1..Len(o) : o[i] = r[i]
  <2>1. \A i \in 1..Len(o) : i \in Nat
    OBVIOUS
  <2> QED
    BY <1>2, <1>3, <2>1 DEF D, Differ
<1> QED
  BY <1>1, <1>4, <1>5, SequencesEqual

LEMMA EnumerationCounts ==
  ASSUME NEW T, NEW o, Enumerates(o, T)
  PROVE  IsFiniteSet(T) /\ Cardinality(T) = Len(o)
<1>1. Len(o) \in Nat /\ o \in [1..Len(o) -> T]
  <2>1. o \in Seq(Nat)
    BY DEF Enumerates
  <2>2. Len(o) \in Nat /\ o \in [1..Len(o) -> Nat]
    BY <2>1
  <2> QED
    BY <2>2 DEF Enumerates
<1>2. \A i, j \in 1..Len(o) : o[i] = o[j] => i = j
  <2>1. \A i, j \in 1..Len(o) : i < j \/ j < i \/ i = j
    OBVIOUS
  <2>2. \A i \in 1..Len(o) : o[i] \in Nat
    BY DEF Enumerates
  <2> QED
    BY <2>1, <2>2 DEF Enumerates
<1>3. \A x \in T : \E i \in 1..Len(o) : o[i] = x
  BY DEF Enumerates
<1>4. o \in Bijection(1..Len(o), T)
  BY <1>1, <1>2, <1>3 DEF Bijection, Injection, Surjection, IsInjective
<1>5. ExistsBijection(1..Len(o), T)
  BY <1>4 DEF ExistsBijection
<1>6. IsFiniteSet(1..Len(o)) /\ Cardinality(1..Len(o)) = Len(o)
  BY <1>1, FS_Interval
<1> QED
  BY <1>1, <1>5, <1>6, FS_Bijection

\* g is increasing on T, r is o under g, and R is T under g.
Increasing(o, T, g, r, R) ==
    /\ (\A x \in T : g[x] \in Nat) /\ \A x, y \in T : x < y => g[x] < g[y]
    /\ \A y : y \in R <=> \E x \in T : y = g[x]
    /\ r \in Seq(Nat) /\ Len(r) = Len(o) /\ \A k \in 1..Len(o) : r[k] = g[o[k]]

LEMMA EnumerationMapped ==
  ASSUME NEW T, NEW o, Enumerates(o, T), NEW g, NEW r, NEW R, Increasing(o, T, g, r, R)
  PROVE  Enumerates(r, R)
<1>1. o \in Seq(Nat) /\ Len(o) \in Nat /\ \A i \in 1..Len(o) : o[i] \in T
  BY DEF Enumerates
<1>2. /\ (\A x \in T : g[x] \in Nat) /\ \A x, y \in T : x < y => g[x] < g[y]
      /\ \A y : y \in R <=> \E x \in T : y = g[x]
      /\ r \in Seq(Nat) /\ Len(r) = Len(o) /\ \A k \in 1..Len(o) : r[k] = g[o[k]]
  BY DEF Increasing
<1>3. \A i \in 1..Len(r) : r[i] \in R
  BY <1>1, <1>2
<1>4. \A i, j \in 1..Len(r) : i < j => r[i] < r[j]
  <2>1. SUFFICES ASSUME NEW i \in 1..Len(r), NEW j \in 1..Len(r), i < j PROVE r[i] < r[j]
    OBVIOUS
  <2>2. o[i] < o[j] /\ o[i] \in T /\ o[j] \in T
    BY <1>1, <1>2, <2>1 DEF Enumerates
  <2>3. g[o[i]] < g[o[j]]
    BY <1>2, <2>2
  <2> QED
    BY <1>2, <2>3
<1>5. \A y \in R : \E i \in 1..Len(r) : r[i] = y
  <2>1. SUFFICES ASSUME NEW z \in R PROVE \E i \in 1..Len(r) : r[i] = z
    OBVIOUS
  <2>2. PICK v \in T : z = g[v]
    BY <1>2
  <2>3. PICK i \in 1..Len(o) : o[i] = v
    BY DEF Enumerates
  <2> QED
    BY <1>2, <2>2, <2>3
<1> QED
  BY <1>2, <1>3, <1>4, <1>5 DEF Enumerates

-----------------------------------------------------------------------------
(* A part of a sequence *)

\* Kept(q, S) are the elements of q at the places o, in order.
KeptAlong(E, q, S, o) ==
    /\ Enumerates(o, S \cap (1..Len(q)))
    /\ Kept(q, S) \in Seq(E) /\ Len(Kept(q, S)) = Len(o)
    /\ \A i \in 1..Len(o) : o[i] \in 1..Len(q) /\ Kept(q, S)[i] = q[o[i]]

LEMMA KeptIs ==
  ASSUME NEW E, NEW q \in Seq(E), NEW S
  PROVE  \E o : KeptAlong(E, q, S, o)
<1> DEFINE o == Ascending(S, Len(q))
<1>1. Len(q) \in Nat
  OBVIOUS
<1>2. Enumerates(o, S \cap (1..Len(q)))
  BY <1>1, AscendingEnumerates
<1>3. o \in Seq(Nat) /\ Kept(q, S) = [i \in DOMAIN o |-> q[o[i]]]
  BY <1>2 DEF Enumerates, Kept
<1> HIDE DEF o
<1>4. \A i \in 1..Len(o) : o[i] \in 1..Len(q)
  BY <1>2 DEF Enumerates
<1>5. Len(o) \in Nat /\ DOMAIN o = 1..Len(o)
  BY <1>3
<1>6. Kept(q, S) = [i \in 1..Len(o) |-> q[o[i]]] /\ \A i \in 1..Len(o) : q[o[i]] \in E
  BY <1>3, <1>4, <1>5
<1>7. Kept(q, S) \in Seq(E) /\ Len(Kept(q, S)) = Len(o)
  BY <1>5, <1>6
<1>8. \A i \in 1..Len(o) : Kept(q, S)[i] = q[o[i]]
  BY <1>6
<1> QED
  BY <1>2, <1>4, <1>7, <1>8 DEF KeptAlong

\* What is kept is determined by the places at which there are elements.
LEMMA KeptSame ==
  ASSUME NEW E, NEW q \in Seq(E), NEW S, NEW T, S \cap (1..Len(q)) = T \cap (1..Len(q))
  PROVE  Kept(q, S) = Kept(q, T)
<1>1. Len(q) \in Nat
  OBVIOUS
<1>2. Enumerates(Ascending(S, Len(q)), S \cap (1..Len(q)))
  BY <1>1, AscendingEnumerates
<1>3. Enumerates(Ascending(T, Len(q)), T \cap (1..Len(q)))
  BY <1>1, AscendingEnumerates
<1>4. Ascending(S, Len(q)) = Ascending(T, Len(q))
  BY <1>2, <1>3, EnumerationIsUnique
<1> QED
  BY <1>4 DEF Kept

LEMMA KeptNone ==
  ASSUME NEW S
  PROVE  Kept(<<>>, S) = <<>>
<1>1. Len(<<>>) = 0 /\ Ascending(S, 0) = <<>>
  BY AscendingStep
<1>2. Kept(<<>>, S) = [i \in DOMAIN <<>> |-> <<>>[<<>>[i]]]
  BY <1>1 DEF Kept
<1>3. DOMAIN <<>> = {}
  OBVIOUS
<1> QED
  BY <1>2, <1>3

LEMMA KeptAppend ==
  ASSUME NEW E, NEW q \in Seq(E), NEW x \in E, NEW S
  PROVE  Kept(Append(q, x), S) = IF Len(q) + 1 \in S THEN Append(Kept(q, S), x) ELSE Kept(q, S)
<1> DEFINE n == Len(q)
           r == Append(q, x)
           o == Ascending(S, n)
<1>1. n \in Nat /\ n + 1 \in Nat \ {0} /\ n + 1 - 1 = n
  OBVIOUS
<1>2. r \in Seq(E) /\ Len(r) = n + 1 /\ (\A i \in 1..n : r[i] = q[i]) /\ r[n + 1] = x
  BY AppendIs
<1>3. Ascending(S, n + 1) = IF n + 1 \in S THEN Append(o, n + 1) ELSE o
  <2> HIDE DEF n
  <2>1. \A m \in Nat \ {0} : Ascending(S, m) = IF m \in S THEN Append(Ascending(S, m - 1), m)
                                             ELSE Ascending(S, m - 1)
    BY AscendingStep
  <2>2. PICK m : m = n + 1
    OBVIOUS
  <2>3. m \in Nat \ {0} /\ m - 1 = n
    BY <1>1, <2>2
  <2>4. Ascending(S, m) = IF m \in S THEN Append(Ascending(S, m - 1), m) ELSE Ascending(S, m - 1)
    BY <2>1, <2>3
  <2> QED
    BY <2>2, <2>3, <2>4
<1>4. Enumerates(o, S \cap (1..n))
  BY <1>1, AscendingEnumerates
<1>5. o \in Seq(Nat) /\ Len(o) \in Nat /\ DOMAIN o = 1..Len(o)
  BY <1>4 DEF Enumerates
<1>6. \A i \in 1..Len(o) : o[i] \in 1..n
  BY <1>4 DEF Enumerates
<1>7. Kept(q, S) = [i \in 1..Len(o) |-> q[o[i]]]
  BY <1>5 DEF Kept
<1>8. Kept(r, S) = [i \in DOMAIN Ascending(S, n + 1) |-> r[Ascending(S, n + 1)[i]]]
  BY <1>2 DEF Kept
<1> HIDE DEF o, r, n
<1>9. CASE n + 1 \notin S
  <2>1. Kept(r, S) = [i \in 1..Len(o) |-> r[o[i]]]
    BY <1>3, <1>5, <1>8, <1>9
  <2>2. \A i \in 1..Len(o) : r[o[i]] = q[o[i]]
    BY <1>2, <1>6
  <2> QED
    BY <1>7, <1>9, <2>1, <2>2 DEF r, n
<1>10. CASE n + 1 \in S
  <2> DEFINE a == Append(o, n + 1)
  <2>1. /\ a \in Seq(Nat) /\ Len(a) = Len(o) + 1 /\ (\A i \in 1..Len(o) : a[i] = o[i])
        /\ a[Len(o) + 1] = n + 1
    BY <1>1, <1>5, AppendIs
  <2> HIDE DEF a
  <2>2. Kept(r, S) = [i \in 1..(Len(o) + 1) |-> r[a[i]]]
    <3>1. Ascending(S, n + 1) = a
      BY <1>3, <1>10 DEF a
    <3>2. DOMAIN a = 1..(Len(o) + 1)
      BY <2>1
    <3> QED
      BY <1>8, <3>1, <3>2
  <2>3. Kept(q, S) \in Seq(E) /\ Len(Kept(q, S)) = Len(o)
    <3>1. \A i \in 1..Len(o) : q[o[i]] \in E
      BY <1>6 DEF n
    <3> QED
      BY <1>5, <1>7, <3>1
  <2>4. /\ Append(Kept(q, S), x) \in Seq(E) /\ Len(Append(Kept(q, S), x)) = Len(o) + 1
        /\ \A i \in 1..Len(o) : Append(Kept(q, S), x)[i] = Kept(q, S)[i]
        /\ Append(Kept(q, S), x)[Len(o) + 1] = x
    BY <2>3, AppendIs
  <2>5. Kept(r, S) \in Seq(E) /\ Len(Kept(r, S)) = Len(o) + 1
    <3>1. \A i \in 1..(Len(o) + 1) : r[a[i]] \in E
      <4>1. \A i \in 1..(Len(o) + 1) : i \in 1..Len(o) \/ i = Len(o) + 1
        BY <1>5
      <4>2. \A i \in 1..Len(o) : r[a[i]] = q[o[i]] /\ q[o[i]] \in E
        BY <1>2, <1>6, <2>1 DEF n
      <4> QED
        BY <1>2, <2>1, <4>1, <4>2
    <3> QED
      BY <1>5, <2>2, <3>1
  <2>6. \A i \in 1..(Len(o) + 1) : Kept(r, S)[i] = Append(Kept(q, S), x)[i]
    <3>1. \A i \in 1..(Len(o) + 1) : i \in 1..Len(o) \/ i = Len(o) + 1
      BY <1>5
    <3>2. \A i \in 1..Len(o) : r[a[i]] = q[o[i]] /\ Kept(q, S)[i] = q[o[i]]
      BY <1>2, <1>6, <1>7, <2>1
    <3>3. \A i \in 1..(Len(o) + 1) : Kept(r, S)[i] = r[a[i]]
      BY <2>2
    <3> QED
      BY <1>2, <2>1, <2>4, <3>1, <3>2, <3>3
  <2>7. Kept(r, S) = Append(Kept(q, S), x)
    BY <2>4, <2>5, <2>6, SequencesEqual
  <2> QED
    BY <1>10, <2>7 DEF r, n
<1> QED
  BY <1>9, <1>10

-----------------------------------------------------------------------------
(* Finite sets *)

LEMMA FiniteMinimum ==
  ASSUME NEW E, IsFiniteSet(E), E \subseteq Int, E # {}
  PROVE  Min(E) \in E /\ \A y \in E : Min(E) <= y
<1> DEFINE Good(X) == X # {} => \E x \in X : \A y \in X : x <= y
           Fails(n) == \E X : IsFiniteSet(X) /\ X \subseteq Int /\ Cardinality(X) = n /\ ~Good(X)
           T == {n \in Nat : Fails(n)}
<1>1. T = {}
  <2>1. SUFFICES ASSUME T # {} PROVE FALSE
    OBVIOUS
  <2>2. PICK n \in T : \A m \in T : n <= m
    <3>1. T \subseteq Nat
      OBVIOUS
    <3> HIDE DEF T
    <3> QED
      BY <2>1, <3>1, SmallestOne
  <2>3. PICK X : IsFiniteSet(X) /\ X \subseteq Int /\ Cardinality(X) = n /\ ~Good(X)
    BY <2>2
  <2>4. PICK x : x \in X
    BY <2>3
  <2>5. IsFiniteSet(X \ {x}) /\ Cardinality(X \ {x}) = n - 1 /\ n \in Nat /\ n # 0
    <3>1. IsFiniteSet(X \ {x}) /\ Cardinality(X \ {x}) = n - 1
      BY <2>3, <2>4, FS_RemoveElement
    <3>2. n \in Nat /\ n # 0
      BY <2>2, <2>3, <2>4, FS_EmptySet
    <3> QED
      BY <3>1, <3>2
  <2>6. n - 1 \notin T
    <3> HIDE DEF T
    <3>1. n \in Nat => ~(n <= n - 1)
      OBVIOUS
    <3> QED
      BY <2>2, <2>5, <3>1
  <2>7. Good(X \ {x})
    <3>1. n - 1 \in Nat
      BY <2>5
    <3>2. ~Fails(n - 1)
      BY <2>6, <3>1
    <3>3. X \ {x} \subseteq Int
      BY <2>3
    <3> HIDE DEF Good
    <3> QED
      BY <2>5, <3>2, <3>3
  <2>8. Good(X)
    <3>1. CASE X = {x}
      BY <2>3, <3>1
    <3>2. CASE X # {x}
      <4>1. PICK y \in X \ {x} : \A z \in X \ {x} : y <= z
        BY <2>4, <2>7, <3>2
      <4>2. x \in Int /\ y \in Int /\ X \subseteq Int
        BY <2>3, <2>4, <4>1
      <4>3. CASE x <= y
        BY <2>4, <4>1, <4>2, <4>3
      <4>4. CASE ~(x <= y)
        BY <2>4, <4>1, <4>2, <4>4
      <4> QED
        BY <4>3, <4>4
    <3> QED
      BY <3>1, <3>2
  <2> QED
    BY <2>3, <2>8
<1>2. Cardinality(E) \in Nat
  BY FS_CardinalityType
<1>3. ~Fails(Cardinality(E))
  BY <1>1, <1>2
<1>4. Good(E)
  <2> HIDE DEF Good
  <2> QED
    BY <1>3
<1>5. \E x \in E : \A y \in E : x <= y
  BY <1>4
<1> QED
  BY <1>5 DEF Min

LEMMA ImageIsFinite ==
  ASSUME NEW X, IsFiniteSet(X), NEW f, DOMAIN f = X
  PROVE  IsFiniteSet({f[x] : x \in X})
<1> DEFINE Y == {f[x] : x \in X}
           g == [x \in X |-> f[x]]
<1>1. g \in [X -> Y] /\ \A y \in Y : \E x \in X : g[x] = y
  OBVIOUS
<1> HIDE DEF g, Y
<1>2. g \in Surjection(X, Y)
  BY <1>1 DEF Surjection
<1> QED
  BY <1>2, FS_Surjection DEF Y

-----------------------------------------------------------------------------
(* Concatenation *)

LEMMA ConcatenateAppended ==
  ASSUME NEW S, NEW s \in Seq(S), NEW r \in Seq(S), NEW x \in S
  PROVE  /\ s \o Append(r, x) = Append(s \o r, x) /\ s \o r \in Seq(S)
         /\ s \o <<>> = s /\ <<>> \o s = s
<1> DEFINE a == s \o Append(r, x)
           b == Append(s \o r, x)
           c == s \o r
<1>1. /\ Append(r, x) \in Seq(S) /\ Len(Append(r, x)) = Len(r) + 1
      /\ (\A i \in 1..Len(r) : Append(r, x)[i] = r[i]) /\ Append(r, x)[Len(r) + 1] = x
  BY AppendIs
<1>2. /\ c \in Seq(S) /\ Len(c) = Len(s) + Len(r)
      /\ \A i \in 1..Len(s) : c[i] = s[i]
      /\ \A i \in (Len(s) + 1)..(Len(s) + Len(r)) : c[i] = r[i - Len(s)]
  BY Concatenation
<1>3. /\ a \in Seq(S) /\ Len(a) = Len(s) + Len(r) + 1
      /\ \A i \in 1..Len(s) : a[i] = s[i]
      /\ \A i \in (Len(s) + 1)..(Len(s) + (Len(r) + 1)) : a[i] = Append(r, x)[i - Len(s)]
  <2> DEFINE y == Append(r, x)
  <2> HIDE DEF y
  <2>1. /\ s \o y \in Seq(S) /\ Len(s \o y) = Len(s) + Len(y)
        /\ \A i \in 1..Len(s) : (s \o y)[i] = s[i]
        /\ \A i \in (Len(s) + 1)..(Len(s) + Len(y)) : (s \o y)[i] = y[i - Len(s)]
    <3>1. y \in Seq(S)
      BY <1>1 DEF y
    <3> QED
      BY <3>1, Concatenation
  <2>2. Len(y) = Len(r) + 1 /\ Len(s) + (Len(r) + 1) = Len(s) + Len(r) + 1
    BY <1>1 DEF y
  <2> QED
    BY <2>1, <2>2 DEF y
<1>4. /\ b \in Seq(S) /\ Len(b) = Len(c) + 1 /\ (\A i \in 1..Len(c) : b[i] = c[i]) /\ b[Len(c) + 1] = x
  <2> HIDE DEF c
  <2>1. c \in Seq(S)
    BY <1>2
  <2>2. /\ Append(c, x) \in Seq(S) /\ Len(Append(c, x)) = Len(c) + 1
        /\ (\A i \in 1..Len(c) : Append(c, x)[i] = c[i]) /\ Append(c, x)[Len(c) + 1] = x
    BY <2>1, AppendIs
  <2> QED
    BY <2>2 DEF c
<1> HIDE DEF a, b, c
<1>5. Len(s) \in Nat /\ Len(r) \in Nat
  OBVIOUS
<1>6. \A i \in 1..Len(a) : a[i] = b[i]
  <2>1. SUFFICES ASSUME NEW i \in 1..Len(a) PROVE a[i] = b[i]
    OBVIOUS
  <2>2. CASE i \in 1..Len(s)
    BY <1>2, <1>3, <1>4, <1>5, <2>2
  <2>3. CASE i \in (Len(s) + 1)..(Len(s) + Len(r))
    <3>1. a[i] = Append(r, x)[i - Len(s)] /\ i - Len(s) \in 1..Len(r)
      BY <1>3, <1>5, <2>3
    <3>2. b[i] = c[i] /\ c[i] = r[i - Len(s)]
      BY <1>2, <1>4, <1>5, <2>3
    <3> QED
      BY <1>1, <3>1, <3>2
  <2>4. CASE i = Len(s) + Len(r) + 1
    <3>1. a[i] = Append(r, x)[i - Len(s)] /\ i - Len(s) = Len(r) + 1
      BY <1>3, <1>5, <2>4
    <3> QED
      BY <1>1, <1>2, <1>4, <2>4, <3>1
  <2>5. i \in 1..(Len(s) + Len(r) + 1)
    BY <1>3, <2>1
  <2>6. \/ i \in 1..Len(s) \/ i \in (Len(s) + 1)..(Len(s) + Len(r)) \/ i = Len(s) + Len(r) + 1
    BY <1>5, <2>5
  <2> QED
    BY <2>2, <2>3, <2>4, <2>6
<1>7. Len(a) = Len(b)
  BY <1>2, <1>3, <1>4
<1>8. a = b
  BY <1>3, <1>4, <1>6, <1>7, SequencesEqual
<1>9. s \o <<>> = s /\ <<>> \o s = s
  OBVIOUS
<1> QED
  BY <1>2, <1>8, <1>9 DEF a, b, c

LEMMA PrefixStep ==
  ASSUME NEW S, NEW s \in Seq(S), NEW k \in 1..Len(s)
  PROVE  /\ SubSeq(s, 1, 0) = <<>> /\ SubSeq(s, 1, Len(s)) = s
         /\ SubSeq(s, 1, k) = Append(SubSeq(s, 1, k - 1), s[k])
         /\ SubSeq(s, 1, k - 1) \in Seq(S) /\ s[k] \in S /\ Len(SubSeq(s, 1, k - 1)) = k - 1
<1> DEFINE a == SubSeq(s, 1, k)
           b == SubSeq(s, 1, k - 1)
<1>1. Len(s) \in Nat /\ 1 \in 1..(Len(s) + 1) /\ k \in 0..Len(s) /\ k - 1 \in 0..Len(s) /\ s[k] \in S
  OBVIOUS
<1>2. a \in Seq(S) /\ Len(a) = k /\ \A i \in 1..k : a[i] = s[i]
  <2>1. k \in Nat /\ 1 <= k + 1 /\ k - 1 + 1 = k /\ \A i \in 1..k : 1 + i - 1 = i
    OBVIOUS
  <2> QED
    BY <1>1, <2>1, SubSeqIs
<1>3. b \in Seq(S) /\ Len(b) = k - 1 /\ \A i \in 1..(k - 1) : b[i] = s[i]
  <2>1. 1 <= (k - 1) + 1 /\ (k - 1) - 1 + 1 = k - 1 /\ \A i \in 1..k - 1 : 1 + i - 1 = i
    OBVIOUS
  <2> QED
    BY <1>1, <2>1, SubSeqIs
<1> HIDE DEF a, b
<1>4. /\ Append(b, s[k]) \in Seq(S) /\ Len(Append(b, s[k])) = k
      /\ (\A i \in 1..k - 1 : Append(b, s[k])[i] = b[i]) /\ Append(b, s[k])[k] = s[k]
  <2>1. Len(b) + 1 = k
    BY <1>3
  <2> QED
    BY <1>1, <1>3, <2>1, AppendIs
<1>5. \A i \in 1..k : a[i] = Append(b, s[k])[i]
  <2>1. \A i \in 1..k : i \in 1..(k - 1) \/ i = k
    BY <1>1
  <2> QED
    BY <1>2, <1>3, <1>4, <2>1
<1>6. a = Append(b, s[k])
  BY <1>2, <1>4, <1>5, SequencesEqual
<1>7. SubSeq(s, 1, 0) = <<>> /\ SubSeq(s, 1, Len(s)) = s
  OBVIOUS
<1> QED
  BY <1>1, <1>3, <1>6, <1>7 DEF a, b

\* c is s \o r.
Joined(s, r, c) ==
    /\ Len(c) = Len(s) + Len(r)
    /\ \A i \in 1..Len(s) : c[i] = s[i]
    /\ \A i \in (Len(s) + 1)..(Len(s) + Len(r)) : c[i] = r[i - Len(s)]

LEMMA JoinedIs ==
  ASSUME NEW S, NEW s \in Seq(S), NEW r \in Seq(S), NEW c, c = s \o r
  PROVE  c \in Seq(S) /\ Joined(s, r, c)
BY Concatenation DEF Joined

LEMMA IntegersAppended ==
  \A s, r \in Seq(Int), x \in Int : s \o Append(r, x) = Append(s \o r, x)
BY ConcatenateAppended

LEMMA IntegersJoined ==
  ASSUME NEW a \in Seq(Int), NEW b \in Seq(Int), NEW c \in Seq(Int), Len(c) = Len(a) + Len(b),
         \A i \in 1..Len(a) : c[i] = a[i], \A j \in 1..Len(b) : c[Len(a) + j] = b[j]
  PROVE  c = a \o b
<1> DEFINE d == a \o b
<1>1. d \in Seq(Int) /\ Joined(a, b, d)
  BY JoinedIs
<1>2. Len(d) = Len(a) + Len(b) /\ (\A i \in 1..Len(a) : d[i] = a[i])
      /\ \A i \in (Len(a) + 1)..(Len(a) + Len(b)) : d[i] = b[i - Len(a)]
  BY <1>1 DEF Joined
<1> HIDE DEF d
<1>3. ASSUME NEW i \in 1..Len(c) PROVE c[i] = d[i]
  <2>1. CASE i \in 1..Len(a)
    BY <1>2, <2>1
  <2>2. CASE i \notin 1..Len(a)
    <3> DEFINE j == i - Len(a)
    <3>1. i \in (Len(a) + 1)..(Len(a) + Len(b)) /\ j \in 1..Len(b) /\ Len(a) + j = i
      BY <2>2
    <3> HIDE DEF j
    <3>2. c[i] = b[j]
      BY <3>1
    <3>3. d[i] = b[j]
      BY <1>2, <3>1 DEF j
    <3> QED
      BY <3>2, <3>3
  <2> QED
    BY <2>1, <2>2
<1>4. c = d
  BY <1>1, <1>2, <1>3
<1> QED
  BY <1>4 DEF d

-----------------------------------------------------------------------------
(* A sequence divided in two *)

\* T can be told apart into A and B, each of them in order.
Divides(T, A, B) ==
    \E S \in SUBSET (1..Len(T)) : Kept(T, S) = A /\ Kept(T, (1..Len(T)) \ S) = B

LEMMA DividesAppend ==
  ASSUME NEW T \in Seq(Int), NEW A, NEW B, Divides(T, A, B), NEW x \in Int
  PROVE  Divides(Append(T, x), Append(A, x), B) /\ Divides(Append(T, x), A, Append(B, x))
<1>1. PICK S \in SUBSET (1..Len(T)) : Kept(T, S) = A /\ Kept(T, (1..Len(T)) \ S) = B
  BY DEF Divides
<1> DEFINE n == Len(T)
           a == Append(T, x)
           R == (1..n) \ S
<1>2. n \in Nat /\ Len(a) = n + 1
  OBVIOUS
<1>3. \A Q : Kept(a, Q) = IF n + 1 \in Q THEN Append(Kept(T, Q), x) ELSE Kept(T, Q)
  BY KeptAppend
<1>4. \A Q : Kept(T, Q \cup {n + 1}) = Kept(T, Q)
  <2>1. \A Q : (Q \cup {n + 1}) \cap (1..Len(T)) = Q \cap (1..Len(T))
    BY <1>2
  <2> QED
    BY <2>1, KeptSame
<1>5. n + 1 \notin S /\ n + 1 \notin R
  BY <1>2
<1>6. /\ (1..Len(a)) \ (S \cup {n + 1}) = R /\ (1..Len(a)) \ S = R \cup {n + 1}
      /\ S \subseteq 1..Len(a) /\ S \cup {n + 1} \subseteq 1..Len(a)
  <2>1. 1..Len(a) = (1..n) \cup {n + 1} /\ S \subseteq 1..n /\ n + 1 \notin 1..n
    BY <1>1, <1>2
  <2> HIDE DEF n, a
  <2> QED
    BY <2>1
<1> HIDE DEF n, a, R
<1>7. Kept(a, S \cup {n + 1}) = Append(A, x) /\ Kept(a, R) = B
  BY <1>1, <1>3, <1>4, <1>5 DEF R, n
<1>8. Kept(a, S) = A /\ Kept(a, R \cup {n + 1}) = Append(B, x)
  <2>1. n + 1 \in R \cup {n + 1}
    OBVIOUS
  <2>2. Kept(T, R) = B
    BY <1>1 DEF R, n
  <2> QED
    BY <1>1, <1>3, <1>4, <1>5, <2>1, <2>2
<1>9. Divides(a, Append(A, x), B)
  BY <1>6, <1>7 DEF Divides
<1>10. Divides(a, A, Append(B, x))
  BY <1>6, <1>8 DEF Divides
<1> QED
  BY <1>9, <1>10 DEF a

LEMMA DividesNothing == Divides(<<>>, <<>>, <<>>)
<1>1. {} \in SUBSET (1..Len(<<>>))
  OBVIOUS
<1>2. \A S : Kept(<<>>, S) = <<>>
  BY KeptNone
<1> QED
  BY <1>1, <1>2 DEF Divides

-----------------------------------------------------------------------------
(* Parts of a sequence *)

\* w is s without its first n elements.
Rest(S, s, n, w) ==
    w \in Seq(S) /\ Len(w) = Len(s) - n /\ \A i \in 1..(Len(s) - n) : w[i] = s[n + i]

LEMMA RestOf ==
  ASSUME NEW S, NEW s \in Seq(S), NEW n \in 0..Len(s)
  PROVE  Rest(S, s, n, SubSeq(s, n + 1, Len(s)))
<1>1. /\ n + 1 \in 1..(Len(s) + 1) /\ Len(s) \in 0..Len(s) /\ n + 1 <= Len(s) + 1
      /\ Len(s) - (n + 1) + 1 = Len(s) - n
  <2>1. Len(s) \in Nat /\ n \in Nat /\ n <= Len(s)
    OBVIOUS
  <2> QED
    BY <2>1
<1>2. /\ SubSeq(s, n + 1, Len(s)) \in Seq(S) /\ Len(SubSeq(s, n + 1, Len(s))) = Len(s) - (n + 1) + 1
      /\ \A i \in 1..(Len(s) - (n + 1) + 1) : SubSeq(s, n + 1, Len(s))[i] = s[n + 1 + i - 1]
  BY <1>1, SubSeqIs, ZenonT(40)
<1> DEFINE w == SubSeq(s, n + 1, Len(s))
<1> HIDE DEF w
<1>3. w \in Seq(S) /\ Len(w) = Len(s) - n
  BY <1>1, <1>2, Zenon DEF w
<1>4. \A i \in 1..(Len(s) - n) : w[i] = s[n + i]
  <2>1. SUFFICES ASSUME NEW i \in 1..(Len(s) - n) PROVE w[i] = s[n + i]
    OBVIOUS
  <2>2. n + 1 + i - 1 = n + i
    BY SMTT(30)
  <2>3. w[i] = s[n + 1 + i - 1]
    BY <1>1, <1>2 DEF w
  <2> QED
    BY <2>2, <2>3
<1>5. Rest(S, s, n, w)
  BY <1>3, <1>4 DEF Rest
<1> QED
  BY <1>5 DEF w

LEMMA ConcatenateParts ==
  ASSUME NEW S, NEW O \in Seq(S), NEW s \in Seq(S), NEW n \in 0..Len(s),
         NEW v, v = SubSeq(s, 1, n)
  PROVE  (O \o v) \o SubSeq(s, n + 1, Len(s)) = O \o s
<1> DEFINE w == SubSeq(s, n + 1, Len(s))
           a == O \o v
           b == O \o s
           c == a \o w
           k == Len(O)
<1>1. k \in Nat /\ Len(s) \in Nat /\ n \in Nat
  OBVIOUS
<1>9. v \in Seq(S) /\ Len(v) = n /\ \A i \in 1..n : v[i] = s[i]
  OBVIOUS
<1>2. w \in Seq(S) /\ Len(w) = Len(s) - n /\ \A i \in 1..(Len(s) - n) : w[i] = s[n + i]
  <2>1. Rest(S, s, n, w)
    BY RestOf
  <2> HIDE DEF w
  <2> QED
    BY <2>1 DEF Rest
<1>3. /\ a \in Seq(S) /\ Len(a) = k + n /\ (\A i \in 1..k : a[i] = O[i])
      /\ \A i \in (k + 1)..(k + n) : a[i] = v[i - k]
  <2>1. a \in Seq(S) /\ Joined(O, v, a)
    BY <1>9, JoinedIs
  <2> HIDE DEF a
  <2> QED
    BY <1>9, <2>1 DEF Joined
<1>4. /\ b \in Seq(S) /\ Len(b) = k + Len(s) /\ (\A i \in 1..k : b[i] = O[i])
      /\ \A i \in (k + 1)..(k + Len(s)) : b[i] = s[i - k]
  <2>1. b \in Seq(S) /\ Joined(O, s, b)
    BY JoinedIs
  <2> HIDE DEF b
  <2> QED
    BY <2>1 DEF Joined
<1> HIDE DEF w, a, b
<1>5. /\ c \in Seq(S) /\ Len(c) = Len(a) + Len(w) /\ (\A i \in 1..Len(a) : c[i] = a[i])
      /\ \A i \in (Len(a) + 1)..(Len(a) + Len(w)) : c[i] = w[i - Len(a)]
  <2>1. c \in Seq(S) /\ Joined(a, w, c)
    BY <1>2, <1>3, JoinedIs
  <2> HIDE DEF c
  <2> QED
    BY <2>1 DEF Joined
<1> HIDE DEF c, k
<1>6. Len(c) = Len(b)
  BY <1>1, <1>2, <1>3, <1>4, <1>5
<1>7. \A i \in 1..Len(c) : c[i] = b[i]
  <2>1. SUFFICES ASSUME NEW i \in 1..Len(c) PROVE c[i] = b[i]
    OBVIOUS
  <2>2. i \in 1..(k + Len(s))
    BY <1>4, <1>6, <2>1
  <2>3. CASE i \in 1..k
    BY <1>1, <1>3, <1>4, <1>5, <2>3
  <2>4. CASE i \in (k + 1)..(k + n)
    <3>4. i - k \in 1..n
      BY <1>1, <2>4
    <3>5. c[i] = a[i]
      BY <1>1, <1>3, <1>5, <2>4
    <3>6. a[i] = v[i - k]
      BY <1>3, <2>4
    <3>1. c[i] = a[i] /\ a[i] = v[i - k] /\ i - k \in 1..n
      BY <3>4, <3>5, <3>6
    <3>2. b[i] = s[i - k]
      BY <1>1, <1>4, <2>2, <2>4
    <3> QED
      BY <1>9, <3>1, <3>2
  <2>5. CASE i \in (k + n + 1)..(k + Len(s))
    <3>1. c[i] = w[i - Len(a)] /\ i - Len(a) = i - k - n /\ i - k - n \in 1..(Len(s) - n)
      <4>1. Len(a) = k + n /\ Len(w) = Len(s) - n
        BY <1>2, <1>3
      <4>2. i \in (Len(a) + 1)..(Len(a) + Len(w))
        <5>1. Len(a) + 1 = k + n + 1 /\ Len(a) + Len(w) = k + Len(s)
          BY <1>1, <4>1
        <5> QED
          BY <2>5, <5>1
      <4>3. c[i] = w[i - Len(a)]
        BY <1>5, <4>2
      <4>4. i \in Int /\ i - Len(a) = i - k - n
        BY <1>1, <2>5, <4>1
      <4>5. i - k - n \in 1..(Len(s) - n)
        BY <1>1, <2>5
      <4> QED
        BY <4>3, <4>4, <4>5
    <3>4. n + (i - k - n) = i - k
      BY <1>1, <2>2
    <3> DEFINE j == i - k - n
    <3>5. j \in 1..(Len(s) - n)
      BY <3>1
    <3> HIDE DEF j
    <3>6. w[j] = s[n + j]
      BY <1>2, <3>5
    <3>2. w[i - k - n] = s[n + (i - k - n)] /\ n + (i - k - n) = i - k
      BY <3>4, <3>6 DEF j
    <3>3. b[i] = s[i - k]
      BY <1>1, <1>4, <2>5
    <3> QED
      BY <3>1, <3>2, <3>3
  <2>6. i \in 1..k \/ i \in (k + 1)..(k + n) \/ i \in (k + n + 1)..(k + Len(s))
    BY <1>1, <2>2
  <2> QED
    BY <2>3, <2>4, <2>5, <2>6
<1>8. c = b
  BY <1>4, <1>5, <1>6, <1>7, SequencesEqual
<1> QED
  BY <1>8 DEF a, b, c, w

-----------------------------------------------------------------------------
(* The values put at an output *)

PutSet == [out : Nat, time : Nat, val : Int]

\* The values put at output o, in order.
PutsAt(puts, o) == {i \in DOMAIN puts : puts[i].out = o}
ValuesPut(puts, o) == [i \in DOMAIN Kept(puts, PutsAt(puts, o)) |-> Kept(puts, PutsAt(puts, o))[i].val]

LEMMA ValuesPutAppend ==
  ASSUME NEW puts \in Seq(PutSet), NEW x \in PutSet, NEW o
  PROVE  /\ ValuesPut(puts, o) \in Seq(Int)
         /\ ValuesPut(Append(puts, x), o) = IF x.out = o THEN Append(ValuesPut(puts, o), x.val)
                                           ELSE ValuesPut(puts, o)
<1> DEFINE a == Append(puts, x)
           S == PutsAt(puts, o)
           T == PutsAt(a, o)
           k == Kept(puts, S)
           h == Kept(a, T)
<1>1. /\ a \in Seq(PutSet) /\ Len(a) = Len(puts) + 1 /\ Len(puts) \in Nat
      /\ (\A i \in 1..Len(puts) : a[i] = puts[i]) /\ a[Len(puts) + 1] = x
      /\ DOMAIN a = 1..Len(a) /\ DOMAIN puts = 1..Len(puts)
  OBVIOUS
<1>2. k \in Seq(PutSet) /\ DOMAIN k = 1..Len(k) /\ Len(k) \in Nat
  <2>1. \E w : KeptAlong(PutSet, puts, S, w)
    <3> HIDE DEF S
    <3> QED
      BY KeptIs
  <2>2. k \in Seq(PutSet)
    BY <2>1 DEF KeptAlong
  <2> HIDE DEF k
  <2> QED
    BY <2>2
<1>3. h = IF x.out = o THEN Append(k, x) ELSE k
  <2>1. T \cap (1..Len(puts)) = S \cap (1..Len(puts)) /\ (Len(puts) + 1 \in T <=> x.out = o)
    BY <1>1 DEF PutsAt
  <2> HIDE DEF S, T
  <2>2. h = IF Len(puts) + 1 \in T THEN Append(Kept(puts, T), x) ELSE Kept(puts, T)
    BY KeptAppend
  <2>3. Kept(puts, T) = k
    BY <2>1, KeptSame
  <2> QED
    BY <2>1, <2>2, <2>3
<1>4. ValuesPut(puts, o) = [i \in DOMAIN k |-> k[i].val] /\ ValuesPut(a, o) = [i \in DOMAIN h |-> h[i].val]
  BY DEF ValuesPut
<1> HIDE DEF k, h, a, S, T
<1>5. ValuesPut(puts, o) \in Seq(Int) /\ Len(ValuesPut(puts, o)) = Len(k)
  <2>1. \A i \in 1..Len(k) : k[i] \in PutSet
    BY <1>2
  <2>2. \A i \in 1..Len(k) : k[i].val \in Int
    BY <2>1 DEF PutSet
  <2> QED
    BY <1>2, <1>4, <2>2
<1>6. CASE x.out = o
  <2>1. h = Append(k, x) /\ h \in Seq(PutSet) /\ Len(h) = Len(k) + 1 /\ DOMAIN h = 1..(Len(k) + 1)
        /\ (\A i \in 1..Len(k) : h[i] = k[i]) /\ h[Len(k) + 1] = x
    BY <1>2, <1>3, <1>6
  <2>2. x.val \in Int
    BY DEF PutSet
  <2>3. Append(ValuesPut(puts, o), x.val) = [i \in 1..(Len(k) + 1) |-> h[i].val]
    <3> DEFINE v == ValuesPut(puts, o)
               y == x.val
    <3>1. \A i \in 1..Len(k) : v[i] = k[i].val
      BY <1>2, <1>4
    <3>2. v \in Seq(Int) /\ Len(v) = Len(k) /\ y \in Int /\ y = h[Len(k) + 1].val
      BY <1>5, <2>1, <2>2
    <3>4. \A i \in 1..Len(k) : v[i] = h[i].val
      BY <2>1, <3>1
    <3> HIDE DEF v, y
    <3>3. /\ Append(v, y) \in Seq(Int) /\ Len(Append(v, y)) = Len(k) + 1 /\ Append(v, y)[Len(k) + 1] = y
          /\ \A i \in 1..Len(k) : Append(v, y)[i] = v[i]
      BY <3>2
    <3>5. \A i \in 1..(Len(k) + 1) : Append(v, y)[i] = h[i].val
      <4>1. \A i \in 1..(Len(k) + 1) : i \in 1..Len(k) \/ i = Len(k) + 1
        BY <1>2
      <4> QED
        BY <3>2, <3>3, <3>4, <4>1
    <3> DEFINE w == Append(v, y)
    <3>6. w \in Seq(Int) /\ Len(w) = Len(k) + 1 /\ \A i \in 1..(Len(k) + 1) : w[i] = h[i].val
      BY <3>3, <3>5
    <3> HIDE DEF w
    <3>7. w = [i \in 1..(Len(k) + 1) |-> h[i].val]
      BY <1>2, <3>6
    <3> QED
      BY <3>7 DEF v, y, w
  <2> QED
    BY <1>4, <1>5, <1>6, <2>1, <2>3 DEF a
<1>7. CASE x.out # o
  BY <1>3, <1>4, <1>5, <1>7 DEF a
<1> QED
  BY <1>6, <1>7

LEMMA ValuesPutNone ==
  ASSUME NEW puts \in Seq(PutSet), NEW o, \A i \in 1..Len(puts) : puts[i].out # o
  PROVE  ValuesPut(puts, o) = <<>>
<1>1. PutsAt(puts, o) \cap (1..Len(puts)) = {}
  BY DEF PutsAt
<1>2. PICK w : KeptAlong(PutSet, puts, PutsAt(puts, o), w)
  BY KeptIs
<1>3. Kept(puts, PutsAt(puts, o)) \in Seq(PutSet) /\ Len(Kept(puts, PutsAt(puts, o))) = 0
  <2>1. /\ w \in Seq(Nat) /\ \A i \in 1..Len(w) : w[i] \in {}
        /\ Len(Kept(puts, PutsAt(puts, o))) = Len(w) /\ Kept(puts, PutsAt(puts, o)) \in Seq(PutSet)
    BY <1>1, <1>2 DEF KeptAlong, Enumerates
  <2>2. Len(w) \in Nat /\ ~(1 \in 1..Len(w))
    BY <2>1
  <2> QED
    BY <2>1, <2>2
<1>4. Kept(puts, PutsAt(puts, o)) = <<>>
  BY <1>3
<1>5. ValuesPut(puts, o) = [i \in DOMAIN <<>> |-> <<>>[i].val]
  BY <1>4 DEF ValuesPut
<1> QED
  BY <1>5

\* All of them, when there are no others.
LEMMA ValuesPutAll ==
  ASSUME NEW puts \in Seq(PutSet), NEW o, \A i \in 1..Len(puts) : puts[i].out = o
  PROVE  /\ ValuesPut(puts, o) \in Seq(Int) /\ Len(ValuesPut(puts, o)) = Len(puts)
         /\ \A i \in 1..Len(puts) : ValuesPut(puts, o)[i] = puts[i].val
<1> DEFINE V(k) == ValuesPut(SubSeq(puts, 1, k), o)
           Good(k) == /\ V(k) \in Seq(Int) /\ Len(V(k)) = k
                      /\ \A i \in 1..k : V(k)[i] = puts[i].val
           T == {k \in 0..Len(puts) : ~Good(k)}
<1>1. Len(puts) \in Nat
  OBVIOUS
<1>2. V(0) = <<>>
  <2>1. SubSeq(puts, 1, 0) \in Seq(PutSet) /\ Len(SubSeq(puts, 1, 0)) = 0
    OBVIOUS
  <2>2. \A i \in 1..Len(SubSeq(puts, 1, 0)) : SubSeq(puts, 1, 0)[i].out # o
    BY <2>1
  <2> QED
    BY <2>1, <2>2, ValuesPutNone
<1>3. \A k \in 1..Len(puts) : V(k) = Append(V(k - 1), puts[k].val) /\ puts[k].val \in Int
  <2>1. SUFFICES ASSUME NEW k \in 1..Len(puts) PROVE V(k) = Append(V(k - 1), puts[k].val) /\ puts[k].val \in Int
    OBVIOUS
  <2>2. /\ SubSeq(puts, 1, k) = Append(SubSeq(puts, 1, k - 1), puts[k])
        /\ SubSeq(puts, 1, k - 1) \in Seq(PutSet) /\ puts[k] \in PutSet
    BY PrefixStep
  <2>3. puts[k].out = o /\ puts[k].val \in Int
    BY <2>2 DEF PutSet
  <2>4. ValuesPut(Append(SubSeq(puts, 1, k - 1), puts[k]), o)
           = Append(ValuesPut(SubSeq(puts, 1, k - 1), o), puts[k].val)
    BY <2>2, <2>3, ValuesPutAppend
  <2> QED
    BY <2>2, <2>3, <2>4
<1> HIDE DEF V
<1>4. Good(0)
  <2>1. V(0) \in Seq(Int) /\ Len(V(0)) = 0
    <3>1. <<>> \in Seq(Int) /\ Len(<<>>) = 0
      OBVIOUS
    <3> QED
      BY <1>2, <3>1
  <2>2. \A i \in 1..0 : V(0)[i] = puts[i].val
    OBVIOUS
  <2> QED
    BY <2>1, <2>2
<1>5. \A k \in 1..Len(puts) : Good(k - 1) => Good(k)
  <2>1. SUFFICES ASSUME NEW k \in 1..Len(puts), Good(k - 1) PROVE Good(k)
    OBVIOUS
  <2>2. /\ V(k - 1) \in Seq(Int) /\ Len(V(k - 1)) = k - 1
        /\ \A i \in 1..k - 1 : V(k - 1)[i] = puts[i].val
    BY <2>1
  <2>3. V(k) = Append(V(k - 1), puts[k].val) /\ puts[k].val \in Int
    BY <1>3
  <2>4. /\ V(k) \in Seq(Int) /\ Len(V(k)) = k /\ V(k)[k] = puts[k].val
        /\ \A i \in 1..(k - 1) : V(k)[i] = V(k - 1)[i]
    <3>1. k \in Nat
      BY <1>1
    <3> QED
      BY <2>2, <2>3, <3>1, AppendIs
  <2>5. \A i \in 1..k : i \in 1..(k - 1) \/ i = k
    BY <1>1
  <2> QED
    BY <2>2, <2>4, <2>5
<1> HIDE DEF Good
<1>6. T = {}
  <2>1. SUFFICES ASSUME T # {} PROVE FALSE
    OBVIOUS
  <2>2. PICK k \in T : \A j \in T : k <= j
    <3>1. T \subseteq Nat
      OBVIOUS
    <3> HIDE DEF T
    <3> QED
      BY <2>1, <3>1, SmallestOne
  <2>3. k # 0
    BY <1>4, <2>2
  <2>4. k \in 1..Len(puts) /\ k - 1 \in 0..Len(puts) /\ ~(k <= k - 1)
    BY <1>1, <2>2, <2>3
  <2>5. Good(k - 1)
    BY <2>2, <2>4
  <2>6. Good(k)
    BY <1>5, <2>4, <2>5
  <2> QED
    BY <2>2, <2>6
<1>7. Good(Len(puts))
  BY <1>1, <1>6
<1>8. V(Len(puts)) = ValuesPut(puts, o)
  <2>1. SubSeq(puts, 1, Len(puts)) = puts
    OBVIOUS
  <2> QED
    BY <2>1 DEF V
<1> QED
  BY <1>7, <1>8 DEF Good

-----------------------------------------------------------------------------
(* The values sent along an arc *)

SentSet == [time : Nat, val : Int]

\* The values of the first n that were sent.
FirstVals(S, n) == [i \in 1..n |-> S[i].val]

LEMMA FirstValsAre ==
  ASSUME NEW S \in Seq(SentSet), NEW n \in 0..Len(S)
  PROVE  /\ FirstVals(S, n) \in Seq(Int) /\ Len(FirstVals(S, n)) = n
         /\ \A i \in 1..n : FirstVals(S, n)[i] = S[i].val
<1>1. \A i \in 1..n : S[i] \in SentSet
  OBVIOUS
<1>2. \A i \in 1..n : S[i].val \in Int
  BY <1>1 DEF SentSet
<1> QED
  BY <1>2 DEF FirstVals

-----------------------------------------------------------------------------
(* Counting what is sent along an arc *)

\* The number of events of S after time a and up to time b.
CountOf(S, a, b) == Cardinality({i \in 1..Len(S) : a < S[i].time /\ S[i].time <= b})

\* The last event of S up to time u has time l; it is -1 when there is none.
LastUpTo(S, u, l) ==
    /\ l \in Int /\ \A j \in 1..Len(S) : S[j].time <= u => S[j].time <= l
    /\ l = -1 \/ (l <= u /\ \E j \in 1..Len(S) : S[j].time = l)

\* R is S and events after time u.
LaterToo(S, R, u) ==
    /\ S \in Seq(SentSet) /\ R \in Seq(SentSet) /\ Len(S) <= Len(R)
    /\ \A j \in 1..Len(S) : R[j] = S[j]
    /\ \A j \in 1..Len(R) : j > Len(S) => R[j].time > u

\* Those of S up to n are up to time u, the c next ones at t, and the others of R later.
NextAt(S, R, n, c, u, t) ==
    /\ LaterToo(S, R, u) /\ n \in Nat /\ c \in Nat /\ n + c <= Len(S)
    /\ u \in Int /\ t \in Nat /\ u < t
    /\ \A j \in 1..n : S[j].time <= u
    /\ \A j \in 1..Len(S) : n < j /\ j <= n + c => S[j].time = t
    /\ \A j \in 1..Len(R) : n + c < j => R[j].time > t

LEMMA TimesAre ==
  ASSUME NEW S \in Seq(SentSet)
  PROVE  Len(S) \in Nat /\ \A j \in 1..Len(S) : S[j].time \in Nat
<1>1. \A x \in SentSet : x.time \in Nat
  BY DEF SentSet
<1> QED
  BY <1>1

LEMMA CountStays ==
  ASSUME NEW S, NEW R, NEW u \in Int, LaterToo(S, R, u), NEW a \in Int, NEW b \in Int, b <= u
  PROVE  CountOf(R, a, b) = CountOf(S, a, b)
<1>1. /\ S \in Seq(SentSet) /\ R \in Seq(SentSet) /\ Len(S) <= Len(R) /\ \A j \in 1..Len(S) : R[j] = S[j]
      /\ \A j \in 1..Len(R) : j > Len(S) => R[j].time > u
  BY DEF LaterToo
<1>2. /\ Len(S) \in Nat /\ Len(R) \in Nat /\ \A j \in 1..Len(R) : R[j].time \in Nat
  BY <1>1, TimesAre
<1>3. {i \in 1..Len(R) : a < R[i].time /\ R[i].time <= b} = {i \in 1..Len(S) : a < S[i].time /\ S[i].time <= b}
  <2>1. \A i \in 1..Len(R) : R[i].time <= b => i \in 1..Len(S)
    BY <1>1, <1>2
  <2>2. \A i \in 1..Len(S) : i \in 1..Len(R) /\ R[i] = S[i]
    BY <1>1, <1>2
  <2> QED
    BY <2>1, <2>2
<1> QED
  BY <1>3 DEF CountOf

LEMMA LastStays ==
  ASSUME NEW S, NEW R, NEW u \in Int, LaterToo(S, R, u), NEW w \in Int, w <= u, NEW l, LastUpTo(S, w, l)
  PROVE  LastUpTo(R, w, l)
<1>1. /\ S \in Seq(SentSet) /\ R \in Seq(SentSet) /\ Len(S) <= Len(R) /\ \A j \in 1..Len(S) : R[j] = S[j]
      /\ \A j \in 1..Len(R) : j > Len(S) => R[j].time > u
  BY DEF LaterToo
<1>2. /\ Len(S) \in Nat /\ Len(R) \in Nat /\ \A j \in 1..Len(R) : R[j].time \in Nat
  BY <1>1, TimesAre
<1>3. /\ l \in Int /\ \A j \in 1..Len(S) : S[j].time <= w => S[j].time <= l
      /\ l = -1 \/ (l <= w /\ \E j \in 1..Len(S) : S[j].time = l)
  BY DEF LastUpTo
<1>4. \A j \in 1..Len(R) : R[j].time <= w => R[j].time <= l
  <2>1. \A j \in 1..Len(R) : R[j].time <= w => j \in 1..Len(S) /\ R[j] = S[j]
    BY <1>1, <1>2
  <2> QED
    BY <1>3, <2>1
<1>5. ASSUME l <= w, NEW j \in 1..Len(S), S[j].time = l PROVE \E i \in 1..Len(R) : R[i].time = l
  BY <1>1, <1>2, <1>5
<1> QED
  BY <1>3, <1>4, <1>5 DEF LastUpTo

\* c more events, at time t.
LEMMA CountAdds ==
  ASSUME NEW S, NEW R, NEW n, NEW c, NEW u, NEW t, NextAt(S, R, n, c, u, t), NEW a \in Int, a <= u
  PROVE  CountOf(R, a, t) = CountOf(S, a, u) + c
<1>1. /\ S \in Seq(SentSet) /\ R \in Seq(SentSet) /\ Len(S) <= Len(R) /\ \A j \in 1..Len(S) : R[j] = S[j]
      /\ n \in Nat /\ c \in Nat /\ n + c <= Len(S) /\ u \in Int /\ t \in Nat /\ u < t
      /\ \A j \in 1..n : S[j].time <= u
      /\ \A j \in 1..Len(S) : n < j /\ j <= n + c => S[j].time = t
      /\ \A j \in 1..Len(R) : n + c < j => R[j].time > t
  BY DEF NextAt, LaterToo
<1>2. /\ Len(S) \in Nat /\ Len(R) \in Nat /\ \A j \in 1..Len(R) : R[j].time \in Nat
  BY <1>1, TimesAre
<1> DEFINE X == {i \in 1..Len(S) : a < S[i].time /\ S[i].time <= u}
           Y == {i \in 1..Len(R) : a < R[i].time /\ R[i].time <= t}
           D == (n + 1)..(n + c)
<1>3. X \subseteq 1..n
  <2>1. \A j \in 1..Len(S) : S[j].time <= u => j <= n
    <3>1. \A j \in 1..Len(S) : j > n + c => S[j].time > t /\ S[j].time \in Nat
      BY <1>1, <1>2
    <3> QED
      BY <1>1, <1>2, <3>1
  <2> QED
    BY <1>1, <2>1
<1>4. Y = X \cup D
  <2>1. \A j \in 1..n : j \in 1..Len(S) /\ j \in 1..Len(R) /\ R[j] = S[j] /\ S[j].time <= u /\ S[j].time \in Nat
    BY <1>1, <1>2
  <2>2. \A j \in D : j \in 1..Len(S) /\ j \in 1..Len(R) /\ R[j].time = t /\ j \notin 1..n
    BY <1>1, <1>2
  <2>3. \A j \in 1..Len(R) : j \in 1..n \/ j \in D \/ R[j].time > t
    BY <1>1, <1>2
  <2>4. \A j \in 1..n : j \in Y <=> j \in X
    BY <1>1, <2>1
  <2>5. \A j \in D : j \in Y
    BY <1>1, <2>2
  <2>6. \A j \in Y : j \in 1..n \/ j \in D
    BY <1>1, <1>2, <2>3
  <2> HIDE DEF X, Y, D
  <2> QED
    BY <1>3, <2>4, <2>5, <2>6
<1>5. IsFiniteSet(X)
  <2>1. IsFiniteSet(1..n)
    BY <1>1, FS_Interval
  <2> HIDE DEF X
  <2> QED
    BY <1>3, <2>1, FS_Subset
<1>6. IsFiniteSet(D) /\ Cardinality(D) = c
  <2>1. n + 1 \in Int /\ n + c \in Int
    BY <1>1
  <2>2. IsFiniteSet(D) /\ Cardinality(D) = IF n + 1 > n + c THEN 0 ELSE (n + c) - (n + 1) + 1
    BY <2>1, FS_Interval
  <2> HIDE DEF D
  <2> QED
    BY <1>1, <2>2
<1>7. X \cap D = {}
  BY <1>1, <1>3
<1> HIDE DEF X, Y, D
<1>8. Cardinality(Y) = Cardinality(X) + c
  <2>1. Cardinality(X \cup D) = Cardinality(X) + Cardinality(D) - Cardinality(X \cap D)
    BY <1>5, <1>6, FS_Union
  <2>2. Cardinality(X \cap D) = 0
    BY <1>7, FS_EmptySet
  <2>3. Cardinality(X) \in Nat
    BY <1>5, FS_CardinalityType
  <2> QED
    BY <1>1, <1>4, <1>6, <2>1, <2>2, <2>3
<1> QED
  BY <1>8 DEF X, Y, CountOf

LEMMA LastBefore ==
  ASSUME NEW S, NEW R, NEW n, NEW c, NEW u, NEW t, NextAt(S, R, n, c, u, t), NEW l, LastUpTo(S, u, l)
  PROVE  LastUpTo(R, t - 1, l) /\ (c = 0 => LastUpTo(R, t, l)) /\ (c > 0 => LastUpTo(R, t, t))
<1>1. /\ S \in Seq(SentSet) /\ R \in Seq(SentSet) /\ Len(S) <= Len(R) /\ \A j \in 1..Len(S) : R[j] = S[j]
      /\ n \in Nat /\ c \in Nat /\ n + c <= Len(S) /\ u \in Int /\ t \in Nat /\ u < t
      /\ \A j \in 1..n : S[j].time <= u
      /\ \A j \in 1..Len(S) : n < j /\ j <= n + c => S[j].time = t
      /\ \A j \in 1..Len(R) : n + c < j => R[j].time > t
  BY DEF NextAt, LaterToo
<1>2. /\ Len(S) \in Nat /\ Len(R) \in Nat /\ \A j \in 1..Len(R) : R[j].time \in Nat
  BY <1>1, TimesAre
<1>3. /\ l \in Int /\ \A j \in 1..Len(S) : S[j].time <= u => S[j].time <= l
      /\ l = -1 \/ (l <= u /\ \E j \in 1..Len(S) : S[j].time = l)
  BY DEF LastUpTo
<1>4. l = -1 \/ (l <= u /\ \E j \in 1..Len(R) : R[j].time = l)
  <2>1. \A j \in 1..Len(S) : j \in 1..Len(R) /\ R[j] = S[j]
    BY <1>1, <1>2
  <2> QED
    BY <1>3, <2>1
<1>5. \A j \in 1..n : R[j].time <= l
  <2>1. \A j \in 1..n : j \in 1..Len(S) /\ R[j] = S[j]
    BY <1>1, <1>2
  <2> QED
    BY <1>1, <1>3, <2>1
<1>6. \A j \in 1..Len(R) : R[j].time <= t => j \in 1..n \/ (n < j /\ j <= n + c /\ R[j].time = t)
  BY <1>1, <1>2
<1>7. LastUpTo(R, t - 1, l)
  <2>1. \A j \in 1..Len(R) : R[j].time <= t - 1 => R[j].time <= l
    BY <1>1, <1>2, <1>5, <1>6
  <2>2. l <= u => l <= t - 1
    BY <1>1, <1>3
  <2> QED
    BY <1>3, <1>4, <2>1, <2>2 DEF LastUpTo
<1>8. ASSUME c = 0 PROVE LastUpTo(R, t, l)
  <2>1. \A j \in 1..Len(R) : R[j].time <= t => R[j].time <= l
    BY <1>1, <1>2, <1>5, <1>6, <1>8
  <2>2. l <= u => l <= t
    BY <1>1, <1>3
  <2> QED
    BY <1>3, <1>4, <2>1, <2>2 DEF LastUpTo
<1>9. ASSUME c > 0 PROVE LastUpTo(R, t, t)
  <2>1. n + 1 \in 1..Len(R) /\ R[n + 1].time = t
    <3>1. n + 1 \in 1..Len(S) /\ n < n + 1 /\ n + 1 <= n + c /\ n + 1 \in 1..Len(R)
      BY <1>1, <1>2, <1>9
    <3> QED
      BY <1>1, <3>1
  <2> QED
    BY <1>1, <2>1 DEF LastUpTo
<1> QED
  BY <1>7, <1>8, <1>9

LEMMA CountNone ==
  ASSUME NEW R \in Seq(SentSet), NEW t \in Int
  PROVE  CountOf(R, t, t) = 0
<1>1. {i \in 1..Len(R) : t < R[i].time /\ R[i].time <= t} = {}
  BY TimesAre
<1> QED
  BY <1>1, FS_EmptySet DEF CountOf

LEMMA CountIs ==
  ASSUME NEW S \in Seq(SentSet), NEW a, NEW b
  PROVE  CountOf(S, a, b) \in Nat
<1> DEFINE X == {i \in 1..Len(S) : a < S[i].time /\ S[i].time <= b}
<1>1. X \subseteq 1..Len(S) /\ Len(S) \in Nat
  OBVIOUS
<1> HIDE DEF X
<1>2. IsFiniteSet(X)
  <2>1. IsFiniteSet(1..Len(S))
    BY <1>1, FS_Interval
  <2> QED
    BY <1>1, <2>1, FS_Subset
<1> QED
  BY <1>2, FS_CardinalityType DEF CountOf, X

-----------------------------------------------------------------------------
(* Tallies *)

\* The count x is that of the events of S1 less those of S2 since the last one of S3.
IsExact(S1, S2, S3, x) ==
    \E l : LastUpTo(S3, x.time - 1, l) /\ x.val = CountOf(S1, l, x.time) - CountOf(S2, l, x.time)

\* So are the counts C, up to time u, and m is what is counted at time u.
Tallied(S1, S2, S3, C, m, u) ==
    /\ \E l : LastUpTo(S3, u, l) /\ m = CountOf(S1, l, u) - CountOf(S2, l, u)
    /\ \A k \in 1..Len(C) : C[k].time <= u /\ IsExact(S1, S2, S3, C[k])

\* D is C and counts v at time t.
CountsToo(C, D, v, t) ==
    /\ C \in Seq(SentSet) /\ D \in Seq(SentSet) /\ Len(C) <= Len(D)
    /\ \A k \in 1..Len(C) : D[k] = C[k]
    /\ \A k \in 1..Len(D) : k > Len(C) => D[k].time = t /\ D[k].val = v

LEMMA ExactStays ==
  ASSUME NEW u \in Int, NEW S1, NEW R1, LaterToo(S1, R1, u), NEW S2, NEW R2, LaterToo(S2, R2, u),
         NEW S3, NEW R3, LaterToo(S3, R3, u), NEW x \in SentSet, x.time <= u, IsExact(S1, S2, S3, x)
  PROVE  IsExact(R1, R2, R3, x)
<1> DEFINE t == x.time
<1>1. t \in Int /\ t <= u /\ t - 1 \in Int /\ t - 1 <= u
  BY DEF SentSet
<1>2. PICK l : LastUpTo(S3, t - 1, l) /\ x.val = CountOf(S1, l, t) - CountOf(S2, l, t)
  BY DEF IsExact
<1>3. l \in Int
  BY <1>2 DEF LastUpTo
<1> HIDE DEF t
<1>4. LastUpTo(R3, t - 1, l)
  BY <1>1, <1>2, LastStays
<1>5. CountOf(R1, l, t) = CountOf(S1, l, t) /\ CountOf(R2, l, t) = CountOf(S2, l, t)
  BY <1>1, <1>3, CountStays
<1> QED
  BY <1>2, <1>4, <1>5 DEF IsExact, t

LEMMA TallyStays ==
  ASSUME NEW u \in Int, NEW S1, NEW R1, LaterToo(S1, R1, u), NEW S2, NEW R2, LaterToo(S2, R2, u),
         NEW S3, NEW R3, LaterToo(S3, R3, u), NEW C \in Seq(SentSet), NEW m, Tallied(S1, S2, S3, C, m, u)
  PROVE  Tallied(R1, R2, R3, C, m, u)
<1>1. PICK l : LastUpTo(S3, u, l) /\ m = CountOf(S1, l, u) - CountOf(S2, l, u)
  BY DEF Tallied
<1>2. l \in Int /\ u <= u
  BY <1>1 DEF LastUpTo
<1>3. LastUpTo(R3, u, l)
  BY <1>1, <1>2, LastStays
<1>4. CountOf(R1, l, u) = CountOf(S1, l, u) /\ CountOf(R2, l, u) = CountOf(S2, l, u)
  BY <1>2, CountStays
<1>5. ASSUME NEW k \in 1..Len(C) PROVE C[k].time <= u /\ IsExact(R1, R2, R3, C[k])
  <2>1. C[k] \in SentSet /\ C[k].time <= u /\ IsExact(S1, S2, S3, C[k])
    BY DEF Tallied
  <2> QED
    BY <2>1, ExactStays
<1> QED
  BY <1>1, <1>3, <1>4, <1>5 DEF Tallied

LEMMA TallyAdds ==
  ASSUME NEW u \in Int, -1 <= u, NEW t,
         NEW S1, NEW R1, NEW n1, NEW c1, NextAt(S1, R1, n1, c1, u, t),
         NEW S2, NEW R2, NEW n2, NEW c2, NextAt(S2, R2, n2, c2, u, t),
         NEW S3, NEW R3, NEW n3, NEW c3, NextAt(S3, R3, n3, c3, u, t),
         NEW C, NEW m \in Int, Tallied(S1, S2, S3, C, m, u),
         NEW v, v = m + c1 - c2, NEW D, CountsToo(C, D, v, t)
  PROVE  Tallied(R1, R2, R3, D, IF c3 > 0 THEN 0 ELSE v, t)
<1>1. PICK l : LastUpTo(S3, u, l) /\ m = CountOf(S1, l, u) - CountOf(S2, l, u)
  BY DEF Tallied
<1>2. l \in Int /\ l <= u
  BY <1>1 DEF LastUpTo
<1>3. /\ u < t /\ t \in Nat /\ c1 \in Nat /\ c2 \in Nat /\ c3 \in Nat
      /\ LaterToo(S1, R1, u) /\ LaterToo(S2, R2, u) /\ LaterToo(S3, R3, u)
  BY Zenon DEF NextAt
<1>4. /\ S1 \in Seq(SentSet) /\ S2 \in Seq(SentSet) /\ R1 \in Seq(SentSet) /\ R2 \in Seq(SentSet)
  BY <1>3, Zenon DEF LaterToo
<1>5. CountOf(R1, l, t) - CountOf(R2, l, t) = v
  <2>1. CountOf(R1, l, t) = CountOf(S1, l, u) + c1
    BY <1>2, CountAdds
  <2>2. CountOf(R2, l, t) = CountOf(S2, l, u) + c2
    BY <1>2, CountAdds
  <2>3. CountOf(S1, l, u) \in Nat /\ CountOf(S2, l, u) \in Nat
    BY <1>4, CountIs
  <2> QED
    BY <1>1, <1>3, <2>1, <2>2, <2>3
<1>6. LastUpTo(R3, t - 1, l) /\ (c3 = 0 => LastUpTo(R3, t, l)) /\ (c3 > 0 => LastUpTo(R3, t, t))
  BY <1>1, LastBefore
<1>7. \E k : LastUpTo(R3, t, k) /\ (IF c3 > 0 THEN 0 ELSE v) = CountOf(R1, k, t) - CountOf(R2, k, t)
  <2>1. CASE c3 > 0
    <3>1. CountOf(R1, t, t) = 0 /\ CountOf(R2, t, t) = 0
      BY <1>3, <1>4, CountNone
    <3> QED
      BY <1>6, <2>1, <3>1
  <2>2. CASE ~(c3 > 0)
    <3>1. c3 = 0
      BY <1>3, <2>2
    <3> QED
      BY <1>5, <1>6, <2>2, <3>1
  <2> QED
    BY <2>1, <2>2
<1>8. ASSUME NEW k \in 1..Len(D) PROVE D[k].time <= t /\ IsExact(R1, R2, R3, D[k])
  <2>1. /\ C \in Seq(SentSet) /\ D \in Seq(SentSet) /\ Len(C) <= Len(D)
        /\ \A j \in 1..Len(C) : D[j] = C[j]
        /\ \A j \in 1..Len(D) : j > Len(C) => D[j].time = t /\ D[j].val = v
    BY DEF CountsToo
  <2>2. CASE k > Len(C)
    <3>1. D[k].time = t /\ D[k].val = v
      BY <2>1, <2>2
    <3> QED
      BY <1>3, <1>5, <1>6, <3>1 DEF IsExact
  <2>3. CASE ~(k > Len(C))
    <3>1. k \in 1..Len(C) /\ D[k] = C[k] /\ C[k] \in SentSet
      BY <2>1, <2>3
    <3>2. C[k].time <= u /\ IsExact(S1, S2, S3, C[k])
      BY <3>1 DEF Tallied
    <3>3. IsExact(R1, R2, R3, C[k])
      BY <1>3, <3>1, <3>2, ExactStays
    <3>4. C[k].time \in Nat
      BY <3>1 DEF SentSet
    <3> QED
      BY <1>3, <3>1, <3>2, <3>3, <3>4
  <2> QED
    BY <2>2, <2>3
<1> QED
  BY <1>7, <1>8 DEF Tallied

LEMMA NothingTallied ==
  ASSUME NEW C, Len(C) = 0
  PROVE  Tallied(<<>>, <<>>, <<>>, C, 0, -1)
<1>1. LastUpTo(<<>>, -1, -1)
  BY DEF LastUpTo
<1>2. CountOf(<<>>, -1, -1) = 0
  <2>1. {i \in 1..Len(<<>>) : -1 < <<>>[i].time /\ <<>>[i].time <= -1} = {}
    OBVIOUS
  <2> QED
    BY <2>1, FS_EmptySet DEF CountOf
<1>3. 0 = 0 - 0
  OBVIOUS
<1> QED
  BY <1>1, <1>2, <1>3 DEF Tallied

\* The definition of the run's property.
LEMMA LastIs ==
  ASSUME NEW S \in Seq(SentSet), NEW t \in Int, NEW l, LastUpTo(S, t - 1, l)
  PROVE  Max({-1} \cup {S[j].time : j \in {i \in 1..Len(S) : S[i].time < t}}) = l
<1> DEFINE T == {-1} \cup {S[j].time : j \in {i \in 1..Len(S) : S[i].time < t}}
<1>1. /\ l \in Int /\ \A j \in 1..Len(S) : S[j].time <= t - 1 => S[j].time <= l
      /\ l = -1 \/ (l <= t - 1 /\ \E j \in 1..Len(S) : S[j].time = l)
  BY DEF LastUpTo
<1>2. \A j \in 1..Len(S) : S[j].time \in Nat
  BY TimesAre
<1>3. \A x \in T : x = -1 \/ \E j \in 1..Len(S) : x = S[j].time /\ S[j].time < t
  OBVIOUS
<1>4. \A j \in 1..Len(S) : S[j].time < t => S[j].time \in T
  OBVIOUS
<1>5. l \in T
  <2>1. CASE l = -1
    BY <2>1
  <2>2. CASE l <= t - 1 /\ \E j \in 1..Len(S) : S[j].time = l
    <3>1. PICK j \in 1..Len(S) : S[j].time = l
      BY <2>2
    <3>2. S[j].time < t
      BY <1>1, <2>2, <3>1
    <3> QED
      BY <1>4, <3>1, <3>2
  <2> QED
    BY <1>1, <2>1, <2>2
<1>6. -1 <= l
  BY <1>1, <1>2
<1>7. \A x \in T : x \in Int /\ l >= x
  <2>1. SUFFICES ASSUME NEW x \in T PROVE x \in Int /\ l >= x
    OBVIOUS
  <2>2. CASE x = -1
    BY <1>1, <1>6, <2>2
  <2>3. CASE \E j \in 1..Len(S) : x = S[j].time /\ S[j].time < t
    BY <1>1, <1>2, <2>3
  <2> QED
    BY <1>3, <2>2, <2>3
<1> HIDE DEF T
<1>8. Max(T) \in T /\ \A x \in T : Max(T) >= x
  BY <1>5, <1>7 DEF Max
<1>9. Max(T) = l
  BY <1>5, <1>7, <1>8
<1> QED
  BY <1>9 DEF T
=============================================================================
