-------------------------- MODULE BitcoinRpcProofs --------------------------
(***************************************************************************)
(* Theorems about the amount that the node client computes, by induction   *)
(* on the places of a sequence: the library's induction over a predicate   *)
(* is replaced by one over a set, which follows from WFMin.                *)
(***************************************************************************)
EXTENDS BitcoinRpc, FiniteSetTheorems, WellFoundedInduction, TLAPS

-----------------------------------------------------------------------------
(***************************************************************************)
(* Induction.                                                              *)
(***************************************************************************)
\* A set of numbers that is not empty has a least one.
LEMMA LeastNumber ==
  ASSUME NEW T \in SUBSET Nat, T # {}
  PROVE  \E m \in T : \A k \in T : m <= k
<1>1. PICK m \in T : \A k \in T : <<k, m>> \notin OpToRel(<, Nat)
  BY WFMin, NatLessThanWellFounded, Zenon
<1>2. \A k \in T : ~(k < m)
  BY <1>1, Zenon DEF OpToRel
<1> QED
  BY <1>2

\* A set with 0 and the successors of its numbers has every number.
LEMMA SetInduction ==
  ASSUME NEW S, 0 \in S, \A n \in Nat : n \in S => n + 1 \in S
  PROVE  \A n \in Nat : n \in S
<1> DEFINE T == Nat \ S
<1>1. SUFFICES ASSUME T # {} PROVE FALSE
  OBVIOUS
<1>2. PICK m \in T : \A k \in T : m <= k
  BY <1>1, LeastNumber, Zenon
<1>3. m \in Nat /\ m # 0
  OBVIOUS
<1>4. m - 1 \in Nat /\ m - 1 \notin T
  BY <1>2, <1>3
<1>5. m - 1 + 1 = m
  BY <1>3
<1> QED
  BY <1>4, <1>5

-----------------------------------------------------------------------------
(***************************************************************************)
(* The sums that the loop behind Total goes through.                       *)
(***************************************************************************)
Sums(f) ==
  CHOOSE sum : sum = [n \in 0..Len(f) |-> IF n = 0 THEN 0 ELSE sum[n - 1] + f[n]]

\* The sums of the first m elements of f exist.
SumsUpTo(f, m) ==
  \E sum : sum = [n \in 0..m |-> IF n = 0 THEN 0 ELSE sum[n - 1] + f[n]]

LEMMA SumsExist ==
  ASSUME NEW f
  PROVE  \A m \in Nat : SumsUpTo(f, m)
<1> DEFINE S == {m \in Nat : SumsUpTo(f, m)}
<1>1. 0 \in S
  <2> DEFINE s == [n \in 0..0 |-> 0]
  <2>1. s = [n \in 0..0 |-> IF n = 0 THEN 0 ELSE s[n - 1] + f[n]]
    OBVIOUS
  <2> QED
    BY <2>1 DEF SumsUpTo
<1>2. ASSUME NEW m \in Nat, m \in S
      PROVE  m + 1 \in S
  <2>1. PICK s : s = [n \in 0..m |-> IF n = 0 THEN 0 ELSE s[n - 1] + f[n]]
    BY <1>2 DEF SumsUpTo
  <2> DEFINE t == [n \in 0..(m + 1) |-> IF n = m + 1 THEN s[m] + f[m + 1] ELSE s[n]]
  <2>2. ASSUME NEW n \in 0..(m + 1)
        PROVE  t[n] = IF n = 0 THEN 0 ELSE t[n - 1] + f[n]
    <3>1. CASE n = m + 1
      BY <3>1
    <3>2. CASE n # m + 1
      <4>1. n \in 0..m /\ t[n] = s[n]
        BY <3>2
      <4>2. s[n] = IF n = 0 THEN 0 ELSE s[n - 1] + f[n]
        BY <2>1, <4>1
      <4>3. n # 0 => n - 1 \in 0..m /\ t[n - 1] = s[n - 1]
        BY <4>1
      <4> QED
        BY <4>1, <4>2, <4>3
    <3> QED
      BY <3>1, <3>2
  <2>3. t = [n \in 0..(m + 1) |-> IF n = 0 THEN 0 ELSE t[n - 1] + f[n]]
    BY <2>2
  <2> HIDE DEF t
  <2> QED
    BY <2>3 DEF SumsUpTo
<1> HIDE DEF S
<1>3. \A m \in Nat : m \in S
  BY <1>1, <1>2, SetInduction
<1> QED
  BY <1>3 DEF S

\* Each sum adds the next number to the one before it; Total is the last of them.
LEMMA SumsStep ==
  ASSUME NEW f, Len(f) \in Nat
  PROVE  /\ Total(f) = Sums(f)[Len(f)]
         /\ Sums(f)[0] = 0
         /\ \A n \in 1..Len(f) : Sums(f)[n] = Sums(f)[n - 1] + f[n]
<1>1. SumsUpTo(f, Len(f))
  BY SumsExist
<1>2. Sums(f) = [n \in 0..Len(f) |-> IF n = 0 THEN 0 ELSE Sums(f)[n - 1] + f[n]]
  BY <1>1, Zenon DEF SumsUpTo, Sums
<1>3. Total(f) = Sums(f)[Len(f)]
  BY Zenon DEF Total, Sums
<1>4. \A n \in 0..Len(f) : Sums(f)[n] = IF n = 0 THEN 0 ELSE Sums(f)[n - 1] + f[n]
  BY <1>2, Zenon
<1> QED
  BY <1>3, <1>4

\* Sums of natural numbers are natural numbers.
LEMMA SumsType ==
  ASSUME NEW f \in Seq(Nat)
  PROVE  /\ \A n \in 0..Len(f) : Sums(f)[n] \in Nat
         /\ Total(f) \in Nat
<1> DEFINE S == {n \in Nat : n <= Len(f) => Sums(f)[n] \in Nat}
<1>1. 0 \in S
  BY SumsStep
<1>2. ASSUME NEW n \in Nat, n \in S
      PROVE  n + 1 \in S
  <2>1. SUFFICES ASSUME n + 1 <= Len(f) PROVE Sums(f)[n + 1] \in Nat
    OBVIOUS
  <2>2. n + 1 \in 1..Len(f) /\ f[n + 1] \in Nat /\ (n + 1) - 1 = n
    BY <2>1
  <2>3. Sums(f)[n + 1] = Sums(f)[n] + f[n + 1]
    BY <2>2, SumsStep
  <2> QED
    BY <1>2, <2>1, <2>2, <2>3
<1> HIDE DEF S
<1>3. \A n \in Nat : n \in S
  BY <1>1, <1>2, SetInduction
<1>4. \A n \in 0..Len(f) : Sums(f)[n] \in Nat
  BY <1>3 DEF S
<1> QED
  BY <1>4, SumsStep

\* The next sum, and the types of what it adds up.
LEMMA SumsNext ==
  ASSUME NEW f \in Seq(Nat), NEW n \in Nat, n + 1 <= Len(f)
  PROVE  /\ Sums(f)[n + 1] = Sums(f)[n] + f[n + 1]
         /\ Sums(f)[n] \in Nat
         /\ f[n + 1] \in Nat
<1>1. n + 1 \in 1..Len(f) /\ n \in 0..Len(f) /\ (n + 1) - 1 = n /\ f[n + 1] \in Nat
  OBVIOUS
<1>2. Sums(f)[n + 1] = Sums(f)[n] + f[n + 1]
  <2>1. Len(f) \in Nat
    OBVIOUS
  <2>2. \A k \in 1..Len(f) : Sums(f)[k] = Sums(f)[k - 1] + f[k]
    BY <2>1, SumsStep, Zenon
  <2>3. Sums(f)[n + 1] = Sums(f)[(n + 1) - 1] + f[n + 1]
    BY <1>1, <2>2, Zenon
  <2> QED
    BY <1>1, <2>3, Zenon
<1>3. Sums(f)[n] \in Nat
  BY <1>1, SumsType
<1> QED
  BY <1>1, <1>2, <1>3

\* Smaller numbers have a smaller sum.
LEMMA SumsMonotone ==
  ASSUME NEW f \in Seq(Nat), NEW g \in Seq(Nat), NEW m \in Nat,
         m <= Len(f), m <= Len(g), \A n \in 1..m : f[n] <= g[n]
  PROVE  Sums(f)[m] <= Sums(g)[m]
<1> DEFINE S == {n \in Nat : n <= m => Sums(f)[n] <= Sums(g)[n]}
<1>1. 0 \in S
  <2>1. Sums(f)[0] = 0
    BY SumsStep
  <2>2. Sums(g)[0] = 0
    BY SumsStep
  <2> QED
    BY <2>1, <2>2
<1>2. ASSUME NEW n \in Nat, n \in S
      PROVE  n + 1 \in S
  <2>1. SUFFICES ASSUME n + 1 <= m PROVE Sums(f)[n + 1] <= Sums(g)[n + 1]
    OBVIOUS
  <2>2. n + 1 <= Len(f) /\ n + 1 <= Len(g)
    BY <2>1
  <2>3. /\ Sums(f)[n + 1] = Sums(f)[n] + f[n + 1]
        /\ Sums(f)[n] \in Nat /\ f[n + 1] \in Nat
    BY <2>2, SumsNext, Zenon
  <2>4. /\ Sums(g)[n + 1] = Sums(g)[n] + g[n + 1]
        /\ Sums(g)[n] \in Nat /\ g[n + 1] \in Nat
    BY <2>2, SumsNext, Zenon
  <2>5. n <= m /\ n + 1 \in 1..m
    BY <2>1
  <2>6. Sums(f)[n] <= Sums(g)[n]
    BY <1>2, <2>5, Zenon
  <2>7. f[n + 1] <= g[n + 1]
    BY <2>5, Zenon
  <2> QED
    BY <2>3, <2>4, <2>6, <2>7
<1> HIDE DEF S
<1>3. \A n \in Nat : n \in S
  BY <1>1, <1>2, SetInduction
<1> QED
  BY <1>3 DEF S

LEMMA TotalMonotone ==
  ASSUME NEW f \in Seq(Nat), NEW g \in Seq(Nat), Len(f) = Len(g),
         \A n \in 1..Len(f) : f[n] <= g[n]
  PROVE  Total(f) <= Total(g)
<1>1. Len(f) \in Nat /\ Len(f) <= Len(f) /\ Len(f) <= Len(g)
  OBVIOUS
<1>2. Sums(f)[Len(f)] <= Sums(g)[Len(f)]
  BY <1>1, SumsMonotone, Zenon
<1>3. Total(f) = Sums(f)[Len(f)]
  BY <1>1, SumsStep, Zenon
<1>4. Total(g) = Sums(g)[Len(g)]
  BY <1>1, SumsStep, Zenon
<1> QED
  BY <1>2, <1>3, <1>4

\* Equal numbers have an equal sum.
LEMMA SumsAgree ==
  ASSUME NEW f \in Seq(Nat), NEW g \in Seq(Nat), NEW m \in Nat,
         m <= Len(f), m <= Len(g), \A n \in 1..m : f[n] = g[n]
  PROVE  Sums(f)[m] = Sums(g)[m]
<1>1. Sums(f)[m] <= Sums(g)[m] /\ Sums(g)[m] <= Sums(f)[m]
  <2>1. \A n \in 1..m : f[n] <= g[n] /\ g[n] <= f[n]
    OBVIOUS
  <2> QED
    BY <2>1, SumsMonotone
<1>2. Sums(f)[m] \in Nat /\ Sums(g)[m] \in Nat
  BY SumsType
<1> QED
  BY <1>1, <1>2

\* Zeros at the end do not change the sum.
LEMMA SumsZeros ==
  ASSUME NEW f \in Seq(Nat), NEW m \in Nat, m <= Len(f),
         \A n \in (m + 1)..Len(f) : f[n] = 0
  PROVE  Total(f) = Sums(f)[m]
<1> DEFINE S == {n \in Nat : m + n <= Len(f) => Sums(f)[m + n] = Sums(f)[m]}
<1>1. 0 \in S
  OBVIOUS
<1>2. ASSUME NEW n \in Nat, n \in S
      PROVE  n + 1 \in S
  <2>1. SUFFICES ASSUME m + (n + 1) <= Len(f) PROVE Sums(f)[m + (n + 1)] = Sums(f)[m]
    OBVIOUS
  <2>2. m + n \in Nat /\ (m + n) + 1 <= Len(f) /\ m + (n + 1) = (m + n) + 1
    BY <2>1
  <2>3. f[(m + n) + 1] = 0
    BY <2>2
  <2>4. /\ Sums(f)[(m + n) + 1] = Sums(f)[m + n] + f[(m + n) + 1]
        /\ Sums(f)[m + n] \in Nat
    BY <2>2, SumsNext, Zenon
  <2>5. Sums(f)[m + n] = Sums(f)[m]
    BY <1>2, <2>2
  <2> QED
    BY <2>2, <2>3, <2>4, <2>5
<1> HIDE DEF S
<1>3. \A n \in Nat : n \in S
  BY <1>1, <1>2, SetInduction
<1>4. Len(f) - m \in Nat /\ m + (Len(f) - m) = Len(f)
  OBVIOUS
<1>5. Sums(f)[m + (Len(f) - m)] = Sums(f)[m]
  BY <1>3, <1>4 DEF S
<1> QED
  BY <1>4, <1>5, SumsStep

\* Moving a number to an earlier place does not change the sum.
LEMMA TotalMoved ==
  ASSUME NEW f \in Seq(Nat), NEW g \in Seq(Nat), Len(f) = Len(g),
         NEW p \in 1..Len(f), NEW q \in 1..p,
         g[q] = f[p],
         \A n \in 1..(q - 1) : g[n] = f[n],
         \A n \in (q + 1)..p : g[n] = f[n - 1],
         \A n \in (p + 1)..Len(f) : g[n] = f[n]
  PROVE  Total(g) = Total(f)
<1> DEFINE Moved(n) == IF n < q THEN Sums(f)[n]
                       ELSE IF n < p THEN Sums(f)[n - 1] + f[p]
                       ELSE Sums(f)[n]
           S == {n \in Nat : n <= Len(f) => Sums(g)[n] = Moved(n)}
<1>1. 0 \in S
  <2>1. Sums(g)[0] = 0
    BY SumsStep
  <2>2. Sums(f)[0] = 0
    BY SumsStep
  <2> QED
    BY <2>1, <2>2
<1>2. ASSUME NEW n \in Nat, n \in S
      PROVE  n + 1 \in S
  <2>1. SUFFICES ASSUME n + 1 <= Len(f) PROVE Sums(g)[n + 1] = Moved(n + 1)
    OBVIOUS
  <2>2. n + 1 <= Len(g) /\ f[p] \in Nat
    BY <2>1
  <2>3. /\ Sums(f)[n + 1] = Sums(f)[n] + f[n + 1]
        /\ Sums(f)[n] \in Nat /\ f[n + 1] \in Nat
    BY <2>1, SumsNext, Zenon
  <2>4. Sums(g)[n + 1] = Sums(g)[n] + g[n + 1]
    BY <2>2, SumsNext, Zenon
  <2>6. Sums(g)[n] = Moved(n)
    BY <1>2, <2>1
  <2>7. CASE n + 1 < q
    BY <2>3, <2>4, <2>6, <2>7
  <2>8. CASE n + 1 = q
    BY <2>2, <2>3, <2>4, <2>6, <2>8
  <2>9. CASE n + 1 > q /\ n + 1 <= p
    <3>1. n - 1 \in Nat /\ (n - 1) + 1 = n /\ (n - 1) + 1 <= Len(f)
      BY <2>1, <2>9
    <3>2. /\ Sums(f)[(n - 1) + 1] = Sums(f)[n - 1] + f[(n - 1) + 1]
          /\ Sums(f)[n - 1] \in Nat /\ f[(n - 1) + 1] \in Nat
      BY <3>1, SumsNext, Zenon
    <3>3. /\ Sums(f)[n] = Sums(f)[n - 1] + f[n]
          /\ Sums(f)[n - 1] \in Nat /\ f[n] \in Nat
      BY <3>1, <3>2, Zenon
    <3>4. g[n + 1] = f[n]
      <4>1. n + 1 \in (q + 1)..p /\ (n + 1) - 1 = n
        BY <2>9
      <4>2. g[n + 1] = f[(n + 1) - 1]
        BY <4>1, Zenon
      <4> QED
        BY <4>1, <4>2, Zenon
    <3>5. Sums(g)[n] = Sums(f)[n - 1] + f[p]
      BY <2>6, <2>9
    <3>6. Sums(g)[n + 1] = Sums(f)[n] + f[p]
      <4>1. \A x, y, z \in Nat : (x + y) + z = (x + z) + y
        OBVIOUS
      <4>2. Sums(g)[n + 1] = (Sums(f)[n - 1] + f[p]) + f[n]
        BY <2>4, <3>4, <3>5, Zenon
      <4>3. (Sums(f)[n - 1] + f[p]) + f[n] = (Sums(f)[n - 1] + f[n]) + f[p]
        BY <2>2, <3>3, <4>1, Zenon
      <4> QED
        BY <3>3, <4>2, <4>3, Zenon
    <3>7. CASE n + 1 < p
      BY <2>2, <2>9, <3>6, <3>7
    <3>8. CASE n + 1 = p
      <4>1. Moved(n + 1) = Sums(f)[n + 1]
        BY <2>9, <3>8
      <4> QED
        BY <2>3, <3>6, <3>8, <4>1, Zenon
    <3> QED
      BY <2>9, <3>7, <3>8
  <2>10. CASE n + 1 > p
    <3>1. Moved(n) = Sums(f)[n] /\ Moved(n + 1) = Sums(f)[n + 1]
      BY <2>10
    <3>2. g[n + 1] = f[n + 1]
      BY <2>1, <2>10
    <3> QED
      BY <2>3, <2>4, <2>6, <3>1, <3>2, Zenon
  <2> QED
    BY <2>7, <2>8, <2>9, <2>10
<1> HIDE DEF S
<1>3. \A n \in Nat : n \in S
  BY <1>1, <1>2, SetInduction
<1>4. Sums(g)[Len(f)] = Sums(f)[Len(f)]
  <2>1. Len(f) \in Nat /\ Len(f) <= Len(f) /\ ~(Len(f) < p) /\ ~(Len(f) < q)
    OBVIOUS
  <2>2. Moved(Len(f)) = Sums(f)[Len(f)]
    BY <2>1, Zenon
  <2> HIDE DEF Moved
  <2>3. Sums(g)[Len(f)] = Moved(Len(f))
    BY <1>3, <2>1, Zenon DEF S
  <2> QED
    BY <2>2, <2>3, Zenon
<1>5. Total(f) = Sums(f)[Len(f)]
  BY SumsStep
<1>6. Total(g) = Sums(g)[Len(g)]
  BY SumsStep
<1> QED
  BY <1>4, <1>5, <1>6

-----------------------------------------------------------------------------
(***************************************************************************)
(* Types.                                                                  *)
(***************************************************************************)
LEMMA TypeInit == Init => TypeOK
BY DEF Init, TypeOK

LEMMA RemoveAtType ==
  ASSUME NEW T, NEW s \in Seq(T), NEW j \in DOMAIN s
  PROVE  /\ RemoveAt(s, j) \in Seq(T)
         /\ Len(RemoveAt(s, j)) = Len(s) - 1
         /\ \A k \in 1..(j - 1) : RemoveAt(s, j)[k] = s[k]
         /\ \A k \in j..(Len(s) - 1) : RemoveAt(s, j)[k] = s[k + 1]
<1> DEFINE u == SubSeq(s, 1, j - 1)
           v == SubSeq(s, j + 1, Len(s))
<1>1. /\ u \in Seq(T) /\ Len(u) = j - 1
      /\ \A k \in 1..(j - 1) : u[k] = s[k]
  OBVIOUS
<1>2. /\ v \in Seq(T) /\ Len(v) = Len(s) - j
      /\ \A k \in 1..(Len(s) - j) : v[k] = s[j + k]
  OBVIOUS
<1>3. RemoveAt(s, j) = u \o v
  BY DEF RemoveAt
<1> HIDE DEF u, v
<1>4. /\ u \o v \in Seq(T)
      /\ Len(u \o v) = Len(s) - 1
      /\ \A k \in 1..(j - 1) : (u \o v)[k] = u[k]
      /\ \A k \in j..(Len(s) - 1) : (u \o v)[k] = v[k - (j - 1)]
  BY <1>1, <1>2
<1>5. ASSUME NEW k \in j..(Len(s) - 1)
      PROVE  v[k - (j - 1)] = s[k + 1]
  <2>1. k - (j - 1) \in 1..(Len(s) - j) /\ j + (k - (j - 1)) = k + 1
    OBVIOUS
  <2> QED
    BY <1>2, <2>1
<1> QED
  BY <1>1, <1>3, <1>4, <1>5

Moved(c, m) == Front(c) \o (<<Last(c)>> \o m)

\* A reorganization takes the last transaction of c back to the head of m.
LEMMA FrontType ==
  ASSUME NEW T, NEW c \in Seq(T), NEW m \in Seq(T), c # <<>>
  PROVE  /\ Front(c) \in Seq(T)
         /\ <<Last(c)>> \o m \in Seq(T)
         /\ Moved(c, m) = c \o m
<1>1. Len(c) \in Nat /\ Len(c) > 0
  OBVIOUS
<1>2. /\ Front(c) \in Seq(T) /\ Len(Front(c)) = Len(c) - 1
      /\ \A k \in 1..(Len(c) - 1) : Front(c)[k] = c[k]
  <2>1. Len(c) - 1 \in Nat /\ Len(c) - 1 <= Len(c)
    BY <1>1
  <2> DEFINE n == Len(c) - 1
  <2>2. Front(c) = SubSeq(c, 1, n)
    BY DEF Front
  <2>3. n \in Nat /\ n <= Len(c)
    BY <2>1
  <2> HIDE DEF n
  <2>4. SubSeq(c, 1, n) \in Seq(T)
    BY <2>3
  <2>5. Len(SubSeq(c, 1, n)) = n
    BY <2>3
  <2>6. \A k \in 1..n : SubSeq(c, 1, n)[k] = c[k]
    BY <2>3
  <2> QED
    BY <2>2, <2>4, <2>5, <2>6, Zenon DEF n
<1>3. Last(c) = c[Len(c)] /\ Last(c) \in T
  BY <1>1 DEF Last
<1> DEFINE w == <<Last(c)>> \o m
           u == Front(c)
<1>4. /\ w \in Seq(T) /\ Len(w) = Len(m) + 1 /\ w[1] = c[Len(c)]
      /\ \A k \in 2..(Len(m) + 1) : w[k] = m[k - 1]
  BY <1>3
<1>5. u \in Seq(T) /\ Len(u) = Len(c) - 1 /\ \A k \in 1..(Len(c) - 1) : u[k] = c[k]
  BY <1>2
<1> HIDE DEF w, u
<1>6. /\ u \o w \in Seq(T) /\ c \o m \in Seq(T)
      /\ Len(u \o w) = Len(c) + Len(m) /\ Len(c \o m) = Len(c) + Len(m)
  <2>1. u \o w \in Seq(T) /\ c \o m \in Seq(T)
    BY <1>4, <1>5
  <2>2. Len(u \o w) = Len(u) + Len(w) /\ Len(c \o m) = Len(c) + Len(m) /\ Len(m) \in Nat
    <3>1. Len(c \o m) = Len(c) + Len(m) /\ Len(m) \in Nat
      OBVIOUS
    <3>2. u \in Seq(T) /\ w \in Seq(T)
      BY <1>4, <1>5
    <3>3. Len(u \o w) = Len(u) + Len(w)
      BY <3>2
    <3> QED
      BY <3>1, <3>3
  <2>3. Len(u) + Len(w) = Len(c) + Len(m)
    BY <1>1, <1>4, <1>5, <2>2
  <2> QED
    BY <2>1, <2>2, <2>3
<1>7. ASSUME NEW k \in 1..(Len(c) + Len(m))
      PROVE  (u \o w)[k] = (c \o m)[k]
  <2>1. CASE k \in 1..(Len(c) - 1)
    BY <1>1, <1>4, <1>5, <2>1
  <2>2. CASE k = Len(c)
    <3>1. (u \o w)[k] = w[1]
      BY <1>1, <1>4, <1>5, <2>2
    <3> QED
      BY <1>1, <1>4, <2>2, <3>1
  <2>3. CASE k \in (Len(c) + 1)..(Len(c) + Len(m))
    <3>1. (u \o w)[k] = w[k - (Len(c) - 1)]
      BY <1>1, <1>4, <1>5, <2>3
    <3>2. k - (Len(c) - 1) \in 2..(Len(m) + 1) /\ (k - (Len(c) - 1)) - 1 = k - Len(c)
      BY <1>1, <2>3
    <3>3. w[k - (Len(c) - 1)] = m[k - Len(c)]
      BY <1>4, <3>2
    <3>4. (c \o m)[k] = m[k - Len(c)]
      BY <1>1, <2>3
    <3> QED
      BY <3>1, <3>3, <3>4
  <2>4. Len(m) \in Nat
    OBVIOUS
  <2>5. k \in 1..(Len(c) - 1) \/ k = Len(c) \/ k \in (Len(c) + 1)..(Len(c) + Len(m))
    BY <1>1, <2>4
  <2> QED
    BY <2>1, <2>2, <2>3, <2>5
<1>8. u \o w = c \o m
  BY <1>6, <1>7
<1> QED
  BY <1>4, <1>5, <1>8 DEF u, w, Moved

LEMMA TypeStep == TypeOK /\ [Next]_vars => TypeOK'
<1> SUFFICES ASSUME TypeOK, [Next]_vars PROVE TypeOK'
  OBVIOUS
<1> USE DEF TypeOK
<1>1. ASSUME NEW tx \in Transactions, Broadcast(tx)
      PROVE  TypeOK'
  BY <1>1, RpcAssumption DEF Broadcast
<1>2. ASSUME NEW j \in DOMAIN mempool, Confirm(j)
      PROVE  TypeOK'
  BY <1>2, RemoveAtType DEF Confirm
<1>3. ASSUME NEW j \in DOMAIN mempool, Drop(j)
      PROVE  TypeOK'
  BY <1>3, RemoveAtType DEF Drop
<1>4. CASE Reorganize
  BY <1>4, FrontType DEF Reorganize
<1>5. CASE BeginErrors
  BY <1>5 DEF BeginErrors
<1>6. CASE CeaseErrors
  BY <1>6 DEF CeaseErrors
<1>7. CASE UNCHANGED vars
  BY <1>7 DEF vars
<1> QED
  BY <1>1, <1>2, <1>3, <1>4, <1>5, <1>6, <1>7 DEF Next

(***************************************************************************)
(* The node's chain and pool are sequences of transactions.                *)
(***************************************************************************)
THEOREM Types == Spec => []TypeOK
BY TypeInit, TypeStep, PTL DEF Spec

-----------------------------------------------------------------------------
(***************************************************************************)
(* What the loops of GetReceivedAmount add up.                             *)
(***************************************************************************)
\* The places of a sequence are finite in number, and so are those of any kind.
LEMMA PlacesFinite ==
  ASSUME NEW T, NEW s \in Seq(T), NEW P \in SUBSET (DOMAIN s)
  PROVE  IsFiniteSet(P) /\ Cardinality(P) \in Nat
<1>1. DOMAIN s = 1..Len(s) /\ Len(s) \in Nat
  OBVIOUS
<1>2. IsFiniteSet(DOMAIN s)
  BY <1>1, FS_Interval
<1>3. IsFiniteSet(P)
  BY <1>2, FS_Subset
<1> QED
  BY <1>3, FS_CardinalityType

\* A script that names a at most once has its value credited if and only if it does.
LEMMA CreditValue ==
  ASSUME NEW out \in Output, NEW a
  PROVE  /\ Credit(out, a) \in Nat
         /\ ~Contains(out.addrs, a) => Credit(out, a) = 0
         /\ (\A j, k \in DOMAIN out.addrs : out.addrs[j] = a /\ out.addrs[k] = a => j = k)
            => Credit(out, a) = IF Contains(out.addrs, a) THEN out.value ELSE 0
<1> DEFINE P == {i \in DOMAIN out.addrs : out.addrs[i] = a}
<1>1. out.addrs \in Seq(Addresses) /\ out.value \in Nat
  BY DEF Output
<1>2. IsFiniteSet(P) /\ Cardinality(P) \in Nat
  BY <1>1, PlacesFinite
<1>3. Contains(out.addrs, a) <=> \E i \in DOMAIN out.addrs : out.addrs[i] = a
  BY <1>1 DEF Contains
<1>4. \A v, n \in Nat : v * n \in Nat /\ v * 0 = 0 /\ v * 1 = v
  OBVIOUS
<1>5. Credit(out, a) = out.value * Cardinality(P)
  BY Zenon DEF Credit
<1>6. Credit(out, a) \in Nat
  BY <1>1, <1>2, <1>4, <1>5, Zenon
<1>7. ASSUME ~Contains(out.addrs, a)
      PROVE  Credit(out, a) = 0
  <2>1. P = {}
    BY <1>3, <1>7
  <2>2. Cardinality(P) = 0
    BY <2>1, FS_EmptySet
  <2> QED
    BY <1>1, <1>4, <1>5, <2>2, Zenon
<1>8. ASSUME \A j, k \in DOMAIN out.addrs : out.addrs[j] = a /\ out.addrs[k] = a => j = k,
             Contains(out.addrs, a)
      PROVE  Credit(out, a) = out.value
  <2>1. PICK i \in DOMAIN out.addrs : out.addrs[i] = a
    BY <1>3, <1>8
  <2>2. P = {i}
    BY <1>8, <2>1
  <2>3. Cardinality(P) = 1
    BY <2>2, FS_Singleton
  <2> QED
    BY <1>1, <1>4, <1>5, <2>3, Zenon
<1> QED
  BY <1>6, <1>7, <1>8

\* The credit of a transaction, a number, is 0 unless it pays a.
LEMMA CreditOfType ==
  ASSUME NEW tx \in Transaction, NEW a
  PROVE  /\ [i \in DOMAIN tx.outs |-> Credit(tx.outs[i], a)] \in Seq(Nat)
         /\ CreditOf(tx, a) \in Nat
         /\ ~Pays(tx, a) => CreditOf(tx, a) = 0
<1> DEFINE f == [i \in DOMAIN tx.outs |-> Credit(tx.outs[i], a)]
<1>1. tx.outs \in Seq(Output)
  BY DEF Transaction
<1>2. \A i \in DOMAIN tx.outs : tx.outs[i] \in Output
  BY <1>1
<1>3. \A i \in DOMAIN tx.outs : Credit(tx.outs[i], a) \in Nat
  BY <1>2, CreditValue
<1>4. f \in Seq(Nat) /\ Len(f) = Len(tx.outs)
  BY <1>1, <1>3
<1>5. CreditOf(tx, a) = Total(f)
  BY Zenon DEF CreditOf
<1>6. ASSUME ~Pays(tx, a)
      PROVE  Total(f) = 0
  <2>1. \A i \in DOMAIN tx.outs : Credit(tx.outs[i], a) = 0
    BY <1>2, <1>6, CreditValue DEF Pays
  <2>2. \A i \in 1..Len(f) : f[i] = 0
    BY <1>1, <1>4, <2>1
  <2> HIDE DEF f
  <2>3. 0 \in Nat /\ 0 <= Len(f) /\ \A i \in (0 + 1)..Len(f) : f[i] = 0
    BY <1>4, <2>2
  <2>4. Total(f) = Sums(f)[0]
    BY <1>4, <2>3, SumsZeros, Zenon
  <2>5. Sums(f)[0] = 0
    BY <1>4, SumsStep
  <2> QED
    BY <2>4, <2>5
<1> QED
  BY <1>4, <1>5, <1>6, SumsType

\* What a transaction sends to a is a number, its credit if no script names a twice.
LEMMA SentInValue ==
  ASSUME NEW tx \in Transaction, NEW a
  PROVE  /\ SentIn(tx, a) \in Nat
         /\ (\A i \in DOMAIN tx.outs : \A j, k \in DOMAIN tx.outs[i].addrs :
               tx.outs[i].addrs[j] = a /\ tx.outs[i].addrs[k] = a => j = k)
            => CreditOf(tx, a) = SentIn(tx, a)
<1> DEFINE g == [i \in DOMAIN tx.outs |->
                   IF Contains(tx.outs[i].addrs, a) THEN tx.outs[i].value ELSE 0]
<1>1. tx.outs \in Seq(Output)
  BY DEF Transaction
<1>2. \A i \in DOMAIN tx.outs : tx.outs[i] \in Output /\ tx.outs[i].value \in Nat
  <2>1. \A i \in DOMAIN tx.outs : tx.outs[i] \in Output
    BY <1>1
  <2>2. \A out \in Output : out.value \in Nat
    BY DEF Output
  <2> QED
    BY <2>1, <2>2, Zenon
<1>3. g \in Seq(Nat)
  BY <1>1, <1>2
<1>4. SentIn(tx, a) = Total(g)
  BY Zenon DEF SentIn
<1>5. ASSUME \A i \in DOMAIN tx.outs : \A j, k \in DOMAIN tx.outs[i].addrs :
               tx.outs[i].addrs[j] = a /\ tx.outs[i].addrs[k] = a => j = k
      PROVE  CreditOf(tx, a) = SentIn(tx, a)
  <2>1. ASSUME NEW i \in DOMAIN tx.outs
        PROVE  Credit(tx.outs[i], a)
               = IF Contains(tx.outs[i].addrs, a) THEN tx.outs[i].value ELSE 0
    BY <1>2, <1>5, CreditValue, Zenon
  <2>2. [i \in DOMAIN tx.outs |-> Credit(tx.outs[i], a)] = g
    BY <2>1, Zenon
  <2> QED
    BY <1>4, <2>2, Zenon DEF CreditOf
<1> QED
  BY <1>3, <1>4, <1>5, SumsType

-----------------------------------------------------------------------------
(***************************************************************************)
(* The amount as a function of the sequence of known transactions.         *)
(***************************************************************************)
Places(s, a) == {t \in DOMAIN s : Mentions(s[t], a)}

UpTo(s, t, a) == {u \in Places(s, a) : u <= t}

Oldest(s, a) == {t \in Places(s, a) : Cardinality(UpTo(s, t, a)) <= SearchCount}

CreditsAt(s, listed, a) ==
  [t \in DOMAIN s |-> IF t \in listed THEN CreditOf(s[t], a) ELSE 0]

Amount(s, listed, a) ==
  IF \E t \in listed : Unparsable(s[t])
  THEN [err |-> TRUE, paid |-> 0]
  ELSE [err |-> FALSE, paid |-> Total(CreditsAt(s, listed, a))]

\* All that the outputs of s credit to a, and what they send to it.
Full(s, a) == Total([t \in DOMAIN s |-> CreditOf(s[t], a)])

Sent(s, a) == Total([t \in DOMAIN s |-> SentIn(s[t], a)])

LEMMA AmountIsKnown ==
  ASSUME NEW a
  PROVE  /\ Indexed(a) = Places(Known, a)
         /\ SentTo(a) = Sent(Known, a)
         /\ GetReceivedAmount(a) = Amount(Known, SearchRawTransactions(a), a)
         /\ serving => SearchRawTransactions(a) = Oldest(Known, a)
         /\ SearchRawTransactions(a) \subseteq Places(Known, a)
<1>1. Indexed(a) = Places(Known, a)
  BY Zenon DEF Indexed, Places
<1>2. SentTo(a) = Sent(Known, a)
  BY Zenon DEF SentTo, Sent
<1>3. GetReceivedAmount(a) = Amount(Known, SearchRawTransactions(a), a)
  BY Zenon DEF GetReceivedAmount, Amount, Credits, CreditsAt
<1>4. \A t : Rank(t, a) = Cardinality(UpTo(Known, t, a))
  BY <1>1, Zenon DEF Rank, UpTo
<1>5. serving => SearchRawTransactions(a) = Oldest(Known, a)
  BY <1>1, <1>4 DEF SearchRawTransactions, Oldest
<1>6. SearchRawTransactions(a) \subseteq Places(Known, a)
  BY <1>1 DEF SearchRawTransactions
<1> QED
  BY <1>1, <1>2, <1>3, <1>5, <1>6

\* The numbers added up, one for each known transaction.
LEMMA CreditsType ==
  ASSUME NEW s \in Seq(Transaction), NEW listed, NEW a
  PROVE  /\ CreditsAt(s, listed, a) \in Seq(Nat)
         /\ Len(CreditsAt(s, listed, a)) = Len(s)
         /\ \A t \in 1..Len(s) :
              /\ t \in listed => CreditsAt(s, listed, a)[t] = CreditOf(s[t], a)
              /\ t \notin listed => CreditsAt(s, listed, a)[t] = 0
<1>1. DOMAIN s = 1..Len(s) /\ Len(s) \in Nat /\ \A t \in 1..Len(s) : s[t] \in Transaction
  OBVIOUS
<1>2. \A t \in 1..Len(s) : CreditOf(s[t], a) \in Nat
  BY <1>1, CreditOfType
<1> QED
  BY <1>1, <1>2 DEF CreditsAt

LEMMA FullType ==
  ASSUME NEW s \in Seq(Transaction), NEW a
  PROVE  /\ [t \in DOMAIN s |-> CreditOf(s[t], a)] \in Seq(Nat)
         /\ Len([t \in DOMAIN s |-> CreditOf(s[t], a)]) = Len(s)
         /\ \A t \in 1..Len(s) :
              /\ s[t] \in Transaction
              /\ CreditOf(s[t], a) \in Nat
              /\ [i \in DOMAIN s |-> CreditOf(s[i], a)][t] = CreditOf(s[t], a)
         /\ Full(s, a) \in Nat
<1> DEFINE f == [t \in DOMAIN s |-> CreditOf(s[t], a)]
<1>1. DOMAIN s = 1..Len(s) /\ Len(s) \in Nat /\ \A t \in 1..Len(s) : s[t] \in Transaction
  OBVIOUS
<1>2. \A t \in 1..Len(s) : CreditOf(s[t], a) \in Nat
  BY <1>1, CreditOfType
<1>3. f \in Seq(Nat) /\ Len(f) = Len(s)
  BY <1>1, <1>2
<1>4. Full(s, a) = Total(f)
  BY Zenon DEF Full
<1>5. Full(s, a) \in Nat
  BY <1>3, <1>4, SumsType
<1> QED
  BY <1>1, <1>2, <1>3, <1>5

\* Whatever is listed, no more is added up than the outputs credit.
LEMMA AmountBelow ==
  ASSUME NEW s \in Seq(Transaction), NEW listed, NEW a
  PROVE  /\ Amount(s, listed, a).paid <= Full(s, a)
         /\ Amount(s, listed, a).paid \in Nat
<1> DEFINE c == CreditsAt(s, listed, a)
           f == [t \in DOMAIN s |-> CreditOf(s[t], a)]
<1>1. c \in Seq(Nat) /\ Len(c) = Len(s)
  BY CreditsType
<1>2. f \in Seq(Nat) /\ Len(f) = Len(s)
  BY FullType
<1>3. \A t \in 1..Len(c) : c[t] <= f[t]
  <2>1. ASSUME NEW t \in 1..Len(s)
        PROVE  c[t] <= f[t]
    <3>1. c[t] = CreditOf(s[t], a) \/ c[t] = 0
      BY CreditsType, Zenon
    <3>2. f[t] = CreditOf(s[t], a) /\ CreditOf(s[t], a) \in Nat
      BY FullType, Zenon
    <3> HIDE DEF c, f
    <3> QED
      BY <3>1, <3>2
  <2> QED
    BY <1>1, <2>1
<1>4. Full(s, a) = Total(f)
  BY Zenon DEF Full
<1> HIDE DEF c, f
<1>5. Total(c) <= Full(s, a) /\ Total(c) \in Nat
  BY <1>1, <1>2, <1>3, <1>4, TotalMonotone, SumsType
<1>6. Amount(s, listed, a).paid = 0 \/ Amount(s, listed, a).paid = Total(c)
  BY DEF Amount, c
<1>7. Full(s, a) \in Nat
  BY FullType
<1> QED
  BY <1>5, <1>6, <1>7

\* When every place is listed, all of it is added up.
LEMMA AmountFull ==
  ASSUME NEW s \in Seq(Transaction), NEW a,
         ~Amount(s, Places(s, a), a).err
  PROVE  Amount(s, Places(s, a), a).paid = Full(s, a)
<1>1. \A t \in DOMAIN s : (IF t \in Places(s, a) THEN CreditOf(s[t], a) ELSE 0) = CreditOf(s[t], a)
  <2>1. SUFFICES ASSUME NEW t \in DOMAIN s, t \notin Places(s, a)
                 PROVE  CreditOf(s[t], a) = 0
    OBVIOUS
  <2>2. ~Pays(s[t], a) /\ s[t] \in Transaction
    BY <2>1 DEF Places, Mentions
  <2> QED
    BY <2>2, CreditOfType
<1>2. CreditsAt(s, Places(s, a), a) = [t \in DOMAIN s |-> CreditOf(s[t], a)]
  BY <1>1, Zenon DEF CreditsAt
<1>3. Amount(s, Places(s, a), a).paid = Total(CreditsAt(s, Places(s, a), a))
  BY DEF Amount
<1> QED
  BY <1>2, <1>3, Zenon DEF Full

\* In the window, every place is listed.
LEMMA OldestInWindow ==
  ASSUME NEW s \in Seq(Transaction), NEW a,
         Cardinality(Places(s, a)) <= SearchCount
  PROVE  Oldest(s, a) = Places(s, a)
<1>1. SUFFICES ASSUME NEW t \in Places(s, a)
               PROVE  Cardinality(UpTo(s, t, a)) <= SearchCount
  BY DEF Oldest
<1>2. IsFiniteSet(Places(s, a)) /\ Cardinality(Places(s, a)) \in Nat
  BY PlacesFinite DEF Places
<1>3. UpTo(s, t, a) \subseteq Places(s, a)
  BY DEF UpTo
<1>4. Cardinality(UpTo(s, t, a)) <= Cardinality(Places(s, a))
  BY <1>2, <1>3, FS_Subset
<1>5. Cardinality(UpTo(s, t, a)) \in Nat
  BY <1>2, <1>3, FS_Subset, FS_CardinalityType
<1> QED
  BY <1>2, <1>4, <1>5, RpcAssumption

\* If no script names a twice, what is credited is what was sent.
LEMMA FullIsSent ==
  ASSUME NEW s \in Seq(Transaction), NEW a,
         \A t \in DOMAIN s : \A i \in DOMAIN s[t].outs : \A j, k \in DOMAIN s[t].outs[i].addrs :
           s[t].outs[i].addrs[j] = a /\ s[t].outs[i].addrs[k] = a => j = k
  PROVE  Full(s, a) = Sent(s, a)
<1>1. \A t \in DOMAIN s : s[t] \in Transaction
  OBVIOUS
<1>2. \A t \in DOMAIN s : CreditOf(s[t], a) = SentIn(s[t], a)
  BY <1>1, SentInValue, Zenon
<1>3. [t \in DOMAIN s |-> CreditOf(s[t], a)] = [t \in DOMAIN s |-> SentIn(s[t], a)]
  BY <1>2, Zenon
<1> QED
  BY <1>3, Zenon DEF Full, Sent

-----------------------------------------------------------------------------
LEMMA KnownType == TypeOK => Known \in Seq(Transaction)
BY DEF TypeOK, Known

LEMMA NamedOnceSent ==
  ASSUME TypeOK, NEW a, NamedOnce(a)
  PROVE  Full(Known, a) = SentTo(a)
<1>1. \A t \in DOMAIN Known : \A i \in DOMAIN Known[t].outs :
        \A j, k \in DOMAIN Known[t].outs[i].addrs :
          Known[t].outs[i].addrs[j] = a /\ Known[t].outs[i].addrs[k] = a => j = k
  BY Zenon DEF NamedOnce
<1> QED
  BY <1>1, KnownType, FullIsSent, AmountIsKnown, Zenon

LEMMA ExactStep == TypeOK => ExactInWindow
<1> SUFFICES ASSUME TypeOK, NEW a \in Addresses,
                    Readable(a), InWindow(a), NamedOnce(a)
             PROVE  GetReceivedAmount(a).paid = SentTo(a)
  BY DEF ExactInWindow
<1>1. Known \in Seq(Transaction)
  BY KnownType
<1>2. Cardinality(Places(Known, a)) <= SearchCount
  BY AmountIsKnown, Zenon DEF InWindow
<1>3. SearchRawTransactions(a) = Places(Known, a)
  BY <1>1, <1>2, OldestInWindow, AmountIsKnown, Zenon DEF Readable
<1>4. GetReceivedAmount(a) = Amount(Known, Places(Known, a), a)
  BY <1>3, AmountIsKnown, Zenon
<1>5. GetReceivedAmount(a).paid = Full(Known, a)
  BY <1>1, <1>4, AmountFull, Zenon DEF Readable
<1> QED
  BY <1>5, NamedOnceSent, Zenon

(***************************************************************************)
(* In the window, the amount is what was sent to the address, whatever the *)
(* number of addresses, of transactions and of outputs, and whatever the   *)
(* values (rpc.go:72-96).                                                  *)
(***************************************************************************)
THEOREM AmountIsExact == Spec => []ExactInWindow
BY Types, ExactStep, PTL

LEMMA OverstatedStep == TypeOK => NeverOverstated
<1> SUFFICES ASSUME TypeOK, NEW a \in Addresses, NamedOnce(a)
             PROVE  GetReceivedAmount(a).paid <= SentTo(a)
  BY DEF NeverOverstated
<1>1. GetReceivedAmount(a).paid <= Full(Known, a)
  BY KnownType, AmountIsKnown, AmountBelow, Zenon
<1> QED
  BY <1>1, NamedOnceSent, Zenon

(***************************************************************************)
(* No money is made up, in the window or past it, with the node or without *)
(* (rpc.go:86-91).                                                         *)
(***************************************************************************)
THEOREM NoMoneyIsMadeUp == Spec => []NeverOverstated
BY Types, OverstatedStep, PTL

-----------------------------------------------------------------------------
(***************************************************************************)
(* Steps of the node.                                                      *)
(***************************************************************************)
LEMMA ConcatPlaces ==
  ASSUME NEW s \in Seq(Transaction), NEW z \in Seq(Transaction)
  PROVE  /\ s \o z \in Seq(Transaction) /\ Len(s \o z) = Len(s) + Len(z)
         /\ \A t \in 1..Len(s) : (s \o z)[t] = s[t]
         /\ \A k \in 1..Len(z) : (s \o z)[Len(s) + k] = z[k]
OBVIOUS

\* A transaction more adds its credit; a transaction moved forward adds nothing.
LEMMA FullAppend ==
  ASSUME NEW s \in Seq(Transaction), NEW tx \in Transaction, NEW a
  PROVE  Full(s, a) <= Full(Append(s, tx), a)
<1> DEFINE z == Append(s, tx)
           f == [t \in DOMAIN s |-> CreditOf(s[t], a)]
           g == [t \in DOMAIN z |-> CreditOf(z[t], a)]
<1>1. /\ z \in Seq(Transaction) /\ Len(z) = Len(s) + 1 /\ Len(s) \in Nat
      /\ \A t \in 1..Len(s) : z[t] = s[t]
  OBVIOUS
<1> HIDE DEF z
<1>2. /\ f \in Seq(Nat) /\ Len(f) = Len(s)
      /\ \A t \in 1..Len(s) : f[t] = CreditOf(s[t], a)
  BY FullType, Zenon
<1>3. /\ g \in Seq(Nat) /\ Len(g) = Len(z)
      /\ \A t \in 1..Len(z) : g[t] = CreditOf(z[t], a)
  BY <1>1, FullType, Zenon
<1>4. Full(s, a) = Total(f) /\ Full(z, a) = Total(g)
  BY Zenon DEF Full
<1> HIDE DEF f, g
<1>5. \A t \in 1..Len(s) : f[t] = g[t]
  BY <1>1, <1>2, <1>3
<1>6. Sums(f)[Len(s)] = Sums(g)[Len(s)]
  <2>1. Len(s) \in Nat /\ Len(s) <= Len(f) /\ Len(s) <= Len(g)
    BY <1>1, <1>2, <1>3
  <2> QED
    BY <1>2, <1>3, <1>5, <2>1, SumsAgree, Zenon
<1>7. /\ Sums(g)[Len(s) + 1] = Sums(g)[Len(s)] + g[Len(s) + 1]
      /\ Sums(g)[Len(s)] \in Nat /\ g[Len(s) + 1] \in Nat
  BY <1>1, <1>3, SumsNext
<1>8. Total(f) = Sums(f)[Len(s)]
  BY <1>1, <1>2, SumsStep
<1>9. Total(g) = Sums(g)[Len(s) + 1]
  BY <1>1, <1>3, SumsStep
<1>10. Total(f) <= Total(g)
  BY <1>6, <1>7, <1>8, <1>9
<1> QED
  BY <1>4, <1>10 DEF z

LEMMA FullMoved ==
  ASSUME NEW c \in Seq(Transaction), NEW m \in Seq(Transaction), NEW j \in DOMAIN m,
         NEW a
  PROVE  Full(Append(c, m[j]) \o RemoveAt(m, j), a) = Full(c \o m, a)
<1> DEFINE s == c \o m
           r == RemoveAt(m, j)
           y == Append(c, m[j])
           z == y \o r
           p == Len(c) + j
           q == Len(c) + 1
           f == [t \in DOMAIN s |-> CreditOf(s[t], a)]
           g == [t \in DOMAIN z |-> CreditOf(z[t], a)]
<1>1. Len(c) \in Nat /\ Len(m) \in Nat /\ j \in 1..Len(m)
  OBVIOUS
<1>2. /\ r \in Seq(Transaction) /\ Len(r) = Len(m) - 1
      /\ \A k \in 1..(j - 1) : r[k] = m[k]
      /\ \A k \in j..(Len(m) - 1) : r[k] = m[k + 1]
  BY RemoveAtType
<1> HIDE DEF r
<1>3. /\ s \in Seq(Transaction) /\ Len(s) = Len(c) + Len(m)
      /\ \A t \in 1..Len(c) : s[t] = c[t]
      /\ \A k \in 1..Len(m) : s[Len(c) + k] = m[k]
  BY <1>1
<1>4. /\ z \in Seq(Transaction) /\ Len(z) = Len(c) + Len(m)
      /\ \A t \in 1..Len(c) : z[t] = c[t]
      /\ z[Len(c) + 1] = m[j]
      /\ \A k \in 1..Len(r) : z[(Len(c) + 1) + k] = r[k]
  <2>1. /\ y \in Seq(Transaction) /\ Len(y) = Len(c) + 1
        /\ \A t \in 1..Len(c) : y[t] = c[t]
        /\ y[Len(c) + 1] = m[j]
    BY <1>1
  <2> HIDE DEF y
  <2>2. /\ z \in Seq(Transaction) /\ Len(z) = Len(y) + Len(r)
        /\ \A t \in 1..Len(y) : z[t] = y[t]
        /\ \A k \in 1..Len(r) : z[Len(y) + k] = r[k]
    <3>1. y \in Seq(Transaction) /\ r \in Seq(Transaction)
      BY <1>2, <2>1, Zenon
    <3> QED
      BY <3>1, ConcatPlaces, Zenon
  <2> HIDE DEF z
  <2>3. Len(z) = Len(c) + Len(m)
    BY <1>1, <1>2, <2>1, <2>2
  <2>4. \A t \in 1..Len(c) : z[t] = c[t]
    BY <1>1, <2>1, <2>2
  <2>5. z[Len(c) + 1] = m[j]
    BY <1>1, <2>1, <2>2
  <2> QED
    BY <2>1, <2>2, <2>3, <2>4, <2>5
<1> HIDE DEF s, z
<1>5. \A n \in 1..(q - 1) : z[n] = s[n]
  BY <1>1, <1>3, <1>4
<1>6. z[q] = s[p]
  BY <1>1, <1>3, <1>4
<1>7. ASSUME NEW n \in (q + 1)..p
      PROVE  z[n] = s[n - 1]
  <2> DEFINE k == n - (Len(c) + 1)
  <2>1. k \in 1..(j - 1) /\ k \in 1..Len(r) /\ k \in 1..Len(m)
    BY <1>1, <1>2
  <2>2. (Len(c) + 1) + k = n /\ Len(c) + k = n - 1
    BY <1>1
  <2> HIDE DEF k
  <2>3. z[(Len(c) + 1) + k] = r[k] /\ r[k] = m[k] /\ s[Len(c) + k] = m[k]
    BY <1>2, <1>3, <1>4, <2>1, Zenon
  <2> QED
    BY <2>2, <2>3, Zenon
<1>8. ASSUME NEW n \in (p + 1)..Len(s)
      PROVE  z[n] = s[n]
  <2> DEFINE k == n - (Len(c) + 1)
  <2>1. k \in j..(Len(m) - 1) /\ k \in 1..Len(r) /\ k + 1 \in 1..Len(m)
    BY <1>1, <1>2, <1>3
  <2>2. (Len(c) + 1) + k = n /\ Len(c) + (k + 1) = n
    BY <1>1, <1>3
  <2> HIDE DEF k
  <2>3. z[(Len(c) + 1) + k] = r[k] /\ r[k] = m[k + 1] /\ s[Len(c) + (k + 1)] = m[k + 1]
    BY <1>2, <1>3, <1>4, <2>1, Zenon
  <2> QED
    BY <2>2, <2>3, Zenon
<1>9. /\ f \in Seq(Nat) /\ Len(f) = Len(s)
      /\ \A t \in 1..Len(s) : f[t] = CreditOf(s[t], a)
  BY <1>3, FullType, Zenon
<1>10. /\ g \in Seq(Nat) /\ Len(g) = Len(z)
       /\ \A t \in 1..Len(z) : g[t] = CreditOf(z[t], a)
  BY <1>4, FullType, Zenon
<1>11. Full(s, a) = Total(f) /\ Full(z, a) = Total(g)
  BY Zenon DEF Full
<1> HIDE DEF f, g
<1>12. /\ p \in 1..Len(s) /\ q \in 1..p /\ q \in 1..Len(z)
       /\ p \in 1..Len(f) /\ Len(f) = Len(g)
  <2>1. p \in 1..(Len(c) + Len(m)) /\ q \in 1..p /\ q \in 1..(Len(c) + Len(m))
    BY <1>1
  <2> QED
    BY <1>3, <1>4, <1>9, <1>10, <2>1, Zenon
<1>13. g[q] = f[p]
  BY <1>6, <1>9, <1>10, <1>12, Zenon
<1>14. \A n \in 1..(q - 1) : g[n] = f[n]
  BY <1>1, <1>3, <1>4, <1>5, <1>9, <1>10
<1>15. \A n \in (q + 1)..p : g[n] = f[n - 1]
  <2>1. \A n \in (q + 1)..p : n \in 1..Len(z) /\ n - 1 \in 1..Len(s)
    BY <1>1, <1>3, <1>4
  <2> HIDE DEF p, q
  <2> QED
    BY <1>7, <1>9, <1>10, <2>1, Zenon
<1>16. \A n \in (p + 1)..Len(f) : g[n] = f[n]
  <2>1. \A n \in (p + 1)..Len(s) : n \in 1..Len(z) /\ n \in 1..Len(s)
    BY <1>1, <1>3, <1>4
  <2> HIDE DEF p, q
  <2> QED
    BY <1>8, <1>9, <1>10, <2>1, Zenon
<1> HIDE DEF p, q
<1>17. Total(g) = Total(f)
  BY <1>9, <1>10, <1>12, <1>13, <1>14, <1>15, <1>16, TotalMoved, Zenon
<1> QED
  BY <1>11, <1>17, Zenon DEF s, y, z, r

\* A reorganization forgets no transaction, and leaves their order as it was.
LEMMA ReorganizeKeepsKnown ==
  ASSUME TypeOK, Reorganize
  PROVE  Known' = Known
<1>1. chain \in Seq(Transaction) /\ mempool \in Seq(Transaction) /\ chain # <<>>
  BY DEF TypeOK, Reorganize
<1>2. Moved(chain, mempool) = chain \o mempool
  BY <1>1, FrontType, Zenon
<1> QED
  BY <1>2, Zenon DEF Reorganize, Known, Moved

\* No step but a drop takes anything away from what the known outputs credit.
LEMMA FullStep ==
  ASSUME TypeOK, [Next]_vars, NEW a, Len(Known') >= Len(Known)
  PROVE  Full(Known, a) <= Full(Known', a)
<1>1. Known \in Seq(Transaction) /\ Full(Known, a) \in Nat
  BY KnownType, FullType
<1>2. ASSUME NEW tx \in Transactions, Broadcast(tx)
      PROVE  Full(Known, a) <= Full(Known', a)
  <2>1. Known' = Append(Known, tx)
    BY <1>2 DEF Broadcast, Known, TypeOK
  <2>2. tx \in Transaction
    BY RpcAssumption
  <2> QED
    BY <1>1, <2>1, <2>2, FullAppend, Zenon
<1>3. ASSUME NEW j \in DOMAIN mempool, Confirm(j)
      PROVE  Full(Known, a) <= Full(Known', a)
  <2>1. Known' = Append(chain, mempool[j]) \o RemoveAt(mempool, j)
    BY <1>3, Zenon DEF Confirm, Known
  <2>2. Full(Known', a) = Full(Known, a)
    <3>1. chain \in Seq(Transaction) /\ mempool \in Seq(Transaction)
      BY DEF TypeOK
    <3>2. Full(Append(chain, mempool[j]) \o RemoveAt(mempool, j), a) = Full(chain \o mempool, a)
      BY <3>1, FullMoved, Zenon
    <3> QED
      BY <2>1, <3>2, Zenon DEF Known
  <2> QED
    BY <1>1, <2>2
<1>4. ASSUME NEW j \in DOMAIN mempool, Drop(j)
      PROVE  FALSE
  <2>1. Len(mempool') = Len(mempool) - 1 /\ mempool' \in Seq(Transaction)
    BY <1>4, RemoveAtType DEF Drop, TypeOK
  <2>2. chain' = chain
    BY <1>4 DEF Drop
  <2>3. Len(Known') = Len(chain) + (Len(mempool) - 1)
    BY <2>1, <2>2 DEF TypeOK, Known
  <2>4. Len(Known) = Len(chain) + Len(mempool)
    BY DEF TypeOK, Known
  <2> QED
    BY <2>3, <2>4 DEF TypeOK
<1>5. CASE Reorganize
  BY <1>1, <1>5, ReorganizeKeepsKnown
<1>6. CASE UNCHANGED <<chain, mempool>>
  <2>1. Known' = Known
    BY <1>6 DEF Known
  <2> QED
    BY <1>1, <2>1
<1> QED
  BY <1>2, <1>3, <1>4, <1>5, <1>6 DEF Next, BeginErrors, CeaseErrors, vars

\* The amount after a step, while the node answers.
LEMMA NextAmount ==
  ASSUME NEW a, serving'
  PROVE  GetReceivedAmount(a)' = Amount(Known', Oldest(Known', a), a)
<1>1. Indexed(a)' = Places(Known', a)
  BY Zenon DEF Indexed, Places
<1>2. \A t : Rank(t, a)' = Cardinality(UpTo(Known', t, a))
  BY <1>1, Zenon DEF Rank, UpTo
<1>3. SearchRawTransactions(a)' = Oldest(Known', a)
  BY <1>1, <1>2 DEF SearchRawTransactions, Oldest
<1> QED
  BY <1>3, Zenon DEF GetReceivedAmount, Amount, Credits, CreditsAt

LEMMA DropsStep ==
  ASSUME TypeOK, TypeOK', [Next]_vars
  PROVE  \A a \in Addresses :
           /\ Readable(a) /\ Readable(a)' /\ InWindow(a)'
           /\ Len(Known') >= Len(Known)
           => GetReceivedAmount(a).paid <= GetReceivedAmount(a).paid'
<1> SUFFICES ASSUME NEW a \in Addresses,
                    Readable(a)', InWindow(a)', Len(Known') >= Len(Known)
             PROVE  GetReceivedAmount(a).paid <= GetReceivedAmount(a)'.paid
  BY Zenon
<1>1. Known \in Seq(Transaction) /\ Known' \in Seq(Transaction)
  BY DEF TypeOK, Known
<1>2. /\ GetReceivedAmount(a).paid <= Full(Known, a)
      /\ GetReceivedAmount(a).paid \in Nat
  BY <1>1, AmountIsKnown, AmountBelow, Zenon
<1>3. Full(Known, a) <= Full(Known', a)
  BY FullStep, Zenon
<1>4. Indexed(a)' = Places(Known', a)
  BY Zenon DEF Indexed, Places
<1>5. Oldest(Known', a) = Places(Known', a)
  BY <1>1, <1>4, OldestInWindow, Zenon DEF InWindow
<1>6. GetReceivedAmount(a)' = Amount(Known', Oldest(Known', a), a)
  BY NextAmount, Zenon DEF Readable
<1>7. GetReceivedAmount(a)' = Amount(Known', Places(Known', a), a)
  BY <1>5, <1>6, Zenon
<1>8. GetReceivedAmount(a)'.paid = Full(Known', a)
  BY <1>1, <1>7, AmountFull, Zenon DEF Readable
<1>9. Full(Known, a) \in Nat /\ Full(Known', a) \in Nat
  BY <1>1, FullType
<1> QED
  BY <1>2, <1>3, <1>8, <1>9

(***************************************************************************)
(* In the window, no confirmation, in whatever order, and no spend lowers  *)
(* the amount (rpc.go:72-96).                                              *)
(***************************************************************************)
THEOREM AmountOnlyRises == Spec => AmountNeverDrops
BY Types, DropsStep, PTL DEF Spec, AmountNeverDrops

-----------------------------------------------------------------------------
(***************************************************************************)
(* Past the window.                                                        *)
(***************************************************************************)
\* z begins with s.
Extends(z, s) == Len(s) <= Len(z) /\ \A t \in 1..Len(s) : z[t] = s[t]

\* What is oldest in s is oldest in what s grows to, once s fills the window.
LEMMA OldestOfPrefix ==
  ASSUME NEW s \in Seq(Transaction), NEW z \in Seq(Transaction), Extends(z, s), NEW a,
         Cardinality(Places(s, a)) >= SearchCount
  PROVE  Oldest(z, a) = Oldest(s, a)
<1>1. /\ DOMAIN s = 1..Len(s) /\ DOMAIN z = 1..Len(z)
      /\ Len(s) \in Nat /\ Len(z) \in Nat /\ Len(s) <= Len(z)
      /\ \A t \in 1..Len(s) : z[t] = s[t]
  BY DEF Extends
<1>2. \A t \in 1..Len(s) : t \in Places(z, a) <=> t \in Places(s, a)
  BY <1>1 DEF Places
<1>3. Places(s, a) \subseteq 1..Len(s) /\ Places(z, a) \subseteq 1..Len(z)
  BY <1>1 DEF Places
<1>4. IsFiniteSet(Places(s, a)) /\ Cardinality(Places(s, a)) \in Nat
  BY PlacesFinite DEF Places
<1>5. IsFiniteSet(Places(z, a))
  BY PlacesFinite DEF Places
<1>6. ASSUME NEW t \in 1..Len(s)
      PROVE  t \in Oldest(z, a) <=> t \in Oldest(s, a)
  <2>1. UpTo(z, t, a) = UpTo(s, t, a)
    <3>1. ASSUME NEW u \in Places(z, a), u <= t
          PROVE  u \in Places(s, a)
      BY <1>1, <1>2, <1>3, <3>1
    <3>2. Places(s, a) \subseteq Places(z, a)
      BY <1>2, <1>3
    <3> QED
      BY <3>1, <3>2 DEF UpTo
  <2> QED
    BY <1>2, <2>1, Zenon DEF Oldest
<1>7. ASSUME NEW t \in Oldest(z, a), t \notin 1..Len(s)
      PROVE  FALSE
  <2>1. t \in Places(z, a) /\ t > Len(s) /\ t \in Nat
    BY <1>1, <1>3, <1>7 DEF Oldest
  <2>2. t \notin Places(s, a)
    BY <1>3, <1>7
  <2>3. Places(s, a) \cup {t} \subseteq UpTo(z, t, a)
    BY <1>1, <1>2, <1>3, <2>1 DEF UpTo
  <2>4. Cardinality(Places(s, a) \cup {t}) = Cardinality(Places(s, a)) + 1
    BY <1>4, <2>2, FS_AddElement
  <2>5. IsFiniteSet(UpTo(z, t, a)) /\ Cardinality(UpTo(z, t, a)) \in Nat
    <3>1. UpTo(z, t, a) \subseteq Places(z, a)
      BY DEF UpTo
    <3> QED
      BY <1>5, <3>1, FS_Subset, FS_CardinalityType
  <2>6. Cardinality(Places(s, a) \cup {t}) <= Cardinality(UpTo(z, t, a))
    BY <2>3, <2>5, FS_Subset
  <2>7. Cardinality(UpTo(z, t, a)) <= SearchCount
    BY <1>7 DEF Oldest
  <2> QED
    BY <1>4, <2>4, <2>5, <2>6, <2>7, RpcAssumption
<1>8. Oldest(s, a) \subseteq 1..Len(s)
  BY <1>3 DEF Oldest
<1> QED
  BY <1>6, <1>7, <1>8

\* Then the amount is the same too: what comes after s is not looked at.
LEMMA AmountOfPrefix ==
  ASSUME NEW s \in Seq(Transaction), NEW z \in Seq(Transaction), Extends(z, s), NEW a,
         NEW listed \in SUBSET (1..Len(s))
  PROVE  Amount(z, listed, a) = Amount(s, listed, a)
<1> DEFINE c == CreditsAt(s, listed, a)
           d == CreditsAt(z, listed, a)
<1>1. /\ Len(s) \in Nat /\ Len(z) \in Nat /\ Len(s) <= Len(z)
      /\ \A t \in 1..Len(s) : z[t] = s[t]
  BY DEF Extends
<1>2. /\ c \in Seq(Nat) /\ Len(c) = Len(s)
      /\ \A t \in 1..Len(s) : /\ t \in listed => c[t] = CreditOf(s[t], a)
                              /\ t \notin listed => c[t] = 0
  BY CreditsType, Zenon
<1>3. /\ d \in Seq(Nat) /\ Len(d) = Len(z)
      /\ \A t \in 1..Len(z) : /\ t \in listed => d[t] = CreditOf(z[t], a)
                              /\ t \notin listed => d[t] = 0
  BY CreditsType, Zenon
<1> HIDE DEF c, d
<1>4. \A t \in 1..Len(s) : c[t] = d[t]
  <2>1. \A t \in 1..Len(s) : t \in 1..Len(z)
    BY <1>1
  <2> QED
    BY <1>1, <1>2, <1>3, <2>1, Zenon
<1>5. \A t \in (Len(s) + 1)..Len(d) : d[t] = 0
  <2>1. \A t \in (Len(s) + 1)..Len(z) : t \in 1..Len(z) /\ t \notin 1..Len(s)
    BY <1>1
  <2>2. \A t \in (Len(s) + 1)..Len(z) : d[t] = 0
    BY <1>3, <2>1, Zenon
  <2> QED
    BY <1>3, <2>2
<1>6. Len(s) <= Len(c) /\ Len(s) <= Len(d)
  BY <1>1, <1>2, <1>3
<1>7. Total(d) = Sums(d)[Len(s)]
  BY <1>1, <1>3, <1>5, <1>6, SumsZeros, Zenon
<1>8. Sums(c)[Len(s)] = Sums(d)[Len(s)]
  BY <1>1, <1>2, <1>3, <1>4, <1>6, SumsAgree, Zenon
<1>9. Total(c) = Sums(c)[Len(s)]
  BY <1>1, <1>2, SumsStep
<1>10. Total(c) = Total(d)
  BY <1>7, <1>8, <1>9
<1>11. (\E t \in listed : Unparsable(z[t])) <=> (\E t \in listed : Unparsable(s[t]))
  BY <1>1, Zenon
<1> QED
  BY <1>10, <1>11, Zenon DEF Amount, c, d

\* A step that keeps the chain, or adds to it.
LEMMA GrowsStep ==
  ASSUME TypeOK, TypeOK', [Next]_vars, Known' # Known
  PROVE  \A a \in Addresses :
           /\ Cardinality({t \in DOMAIN chain : Mentions(chain[t], a)}) >= SearchCount
           /\ serving /\ serving'
           => GetReceivedAmount(a)' = GetReceivedAmount(a)
<1> SUFFICES ASSUME NEW a \in Addresses,
                    Cardinality(Places(chain, a)) >= SearchCount, serving, serving'
             PROVE  GetReceivedAmount(a)' = GetReceivedAmount(a)
  BY Zenon DEF Places
<1>1. /\ chain \in Seq(Transaction) /\ Known \in Seq(Transaction) /\ Known' \in Seq(Transaction)
  BY DEF TypeOK, Known
<1>2. Extends(Known, chain)
  BY DEF TypeOK, Known, Extends
<1>3. Extends(Known', chain)
  <2>1. chain' \in Seq(Transaction) /\ mempool' \in Seq(Transaction)
    BY DEF TypeOK
  <2>2. Extends(chain', chain)
    <3>1. CASE chain' = chain
      BY <3>1 DEF TypeOK, Extends
    <3>2. ASSUME NEW j \in DOMAIN mempool, Confirm(j)
          PROVE  Extends(chain', chain)
      BY <3>2 DEF Confirm, TypeOK, Extends
    <3>3. ~Reorganize
      BY ReorganizeKeepsKnown
    <3> QED
      BY <3>1, <3>2, <3>3 DEF Next, Broadcast, Drop, BeginErrors, CeaseErrors, vars
  <2>3. Extends(Known', chain')
    BY <2>1 DEF Known, Extends
  <2> QED
    BY <1>1, <2>1, <2>2, <2>3 DEF Extends
<1>4. Oldest(Known, a) = Oldest(chain, a)
  BY <1>1, <1>2, OldestOfPrefix, Zenon
<1>5. Oldest(Known', a) = Oldest(chain, a)
  BY <1>1, <1>3, OldestOfPrefix, Zenon
<1>6. Oldest(chain, a) \in SUBSET (1..Len(chain))
  BY <1>1 DEF Oldest, Places
<1>7. GetReceivedAmount(a) = Amount(chain, Oldest(chain, a), a)
  <2>1. GetReceivedAmount(a) = Amount(Known, Oldest(Known, a), a)
    BY AmountIsKnown, Zenon
  <2>2. Amount(Known, Oldest(chain, a), a) = Amount(chain, Oldest(chain, a), a)
    BY <1>1, <1>2, <1>6, AmountOfPrefix, Zenon
  <2> QED
    BY <1>4, <2>1, <2>2, Zenon
<1>8. GetReceivedAmount(a)' = Amount(chain, Oldest(chain, a), a)
  <2>1. GetReceivedAmount(a)' = Amount(Known', Oldest(Known', a), a)
    BY NextAmount, Zenon
  <2>2. Amount(Known', Oldest(chain, a), a) = Amount(chain, Oldest(chain, a), a)
    BY <1>1, <1>3, <1>6, AmountOfPrefix, Zenon
  <2> QED
    BY <1>5, <2>1, <2>2, Zenon
<1> QED
  BY <1>7, <1>8, Zenon

LEMMA FreezesStep ==
  ASSUME TypeOK, TypeOK', [Next]_vars
  PROVE  \A a \in Addresses :
           /\ Cardinality({t \in DOMAIN chain : Mentions(chain[t], a)}) >= SearchCount
           /\ serving /\ serving'
           => GetReceivedAmount(a)' = GetReceivedAmount(a)
<1>1. CASE Known' # Known
  BY <1>1, GrowsStep, Zenon
<1>2. ASSUME Known' = Known, NEW a \in Addresses, serving, serving'
      PROVE  GetReceivedAmount(a)' = GetReceivedAmount(a)
  <2>1. GetReceivedAmount(a)' = Amount(Known', Oldest(Known', a), a)
    BY <1>2, NextAmount, Zenon
  <2>2. GetReceivedAmount(a) = Amount(Known, Oldest(Known, a), a)
    BY <1>2, AmountIsKnown, Zenon
  <2> QED
    BY <1>2, <2>1, <2>2, Zenon
<1> QED
  BY <1>1, <1>2, Zenon

\* While the chain fills the window of an address, no step changes its amount.
FullWindowFreezes ==
  [][\A a \in Addresses :
       /\ Cardinality({t \in DOMAIN chain : Mentions(chain[t], a)}) >= SearchCount
       /\ serving /\ serving'
       => GetReceivedAmount(a)' = GetReceivedAmount(a)]_vars

(***************************************************************************)
(* Why EveryPaymentCounts fails, for every window: while the chain fills   *)
(* the window of an address, its amount stands still, and no later payment *)
(* reaches the invoice (rpc.go:72).                                        *)
(***************************************************************************)
THEOREM FullWindowIsFrozen == Spec => FullWindowFreezes
BY Types, FreezesStep, PTL DEF Spec, FullWindowFreezes

-----------------------------------------------------------------------------
(***************************************************************************)
(* The size of the amount.                                                 *)
(***************************************************************************)
\* What is known was broadcast.
KnownWasSent == chain \in Seq(Transactions) /\ mempool \in Seq(Transactions)

LEMMA KnownWasSentAlways == Spec => []KnownWasSent
<1>1. Init => KnownWasSent
  BY DEF Init, KnownWasSent
<1>2. KnownWasSent /\ [Next]_vars => KnownWasSent'
  <2> SUFFICES ASSUME KnownWasSent, [Next]_vars PROVE KnownWasSent'
    OBVIOUS
  <2> USE DEF KnownWasSent
  <2>1. ASSUME NEW tx \in Transactions, Broadcast(tx)
        PROVE  KnownWasSent'
    BY <2>1 DEF Broadcast
  <2>2. ASSUME NEW j \in DOMAIN mempool, Confirm(j)
        PROVE  KnownWasSent'
    BY <2>2, RemoveAtType DEF Confirm
  <2>3. ASSUME NEW j \in DOMAIN mempool, Drop(j)
        PROVE  KnownWasSent'
    BY <2>3, RemoveAtType DEF Drop
  <2>4. CASE Reorganize
    BY <2>4, FrontType DEF Reorganize
  <2>5. CASE UNCHANGED <<chain, mempool>>
    BY <2>5
  <2> QED
    BY <2>1, <2>2, <2>3, <2>4, <2>5 DEF Next, BeginErrors, CeaseErrors, vars
<1> QED
  BY <1>1, <1>2, PTL DEF Spec

\* No more than SearchCount places are the oldest.
LEMMA OldestCount ==
  ASSUME NEW s \in Seq(Transaction), NEW a
  PROVE  Cardinality(Oldest(s, a)) <= SearchCount
<1>1. DOMAIN s = 1..Len(s) /\ Len(s) \in Nat
  OBVIOUS
<1>2. Oldest(s, a) \subseteq Places(s, a) /\ Oldest(s, a) \in SUBSET (DOMAIN s)
  BY DEF Oldest, Places
<1>3. CASE Oldest(s, a) = {}
  BY <1>3, FS_EmptySet, RpcAssumption
<1>4. CASE Oldest(s, a) # {}
  <2> DEFINE fromEnd == {Len(s) - t : t \in Oldest(s, a)}
  <2>1. fromEnd \in SUBSET Nat /\ fromEnd # {}
    BY <1>1, <1>2, <1>4
  <2>2. PICK m \in fromEnd : \A k \in fromEnd : m <= k
    BY <2>1, LeastNumber, Zenon
  <2>3. PICK t \in Oldest(s, a) : m = Len(s) - t
    BY <2>2
  <2>4. \A u \in Oldest(s, a) : Len(s) - t <= Len(s) - u
    BY <2>2, <2>3
  <2>5. \A u \in Oldest(s, a) : u <= t
    BY <1>1, <1>2, <2>4
  <2>6. Oldest(s, a) \subseteq UpTo(s, t, a)
    BY <1>2, <2>5 DEF UpTo
  <2>7. IsFiniteSet(UpTo(s, t, a)) /\ Cardinality(UpTo(s, t, a)) \in Nat
    BY PlacesFinite DEF UpTo, Places
  <2>8. IsFiniteSet(Oldest(s, a)) /\ Cardinality(Oldest(s, a)) \in Nat
    BY <1>2, PlacesFinite
  <2>9. Cardinality(Oldest(s, a)) <= Cardinality(UpTo(s, t, a))
    BY <2>6, <2>7, FS_Subset
  <2>10. Cardinality(UpTo(s, t, a)) <= SearchCount
    BY <2>3 DEF Oldest
  <2> QED
    BY <2>7, <2>8, <2>9, <2>10, RpcAssumption
<1> QED
  BY <1>3, <1>4

\* If no listed transaction credits more than most, the sum is at most so many times it.
LEMMA CreditsBound ==
  ASSUME NEW s \in Seq(Transaction), NEW listed \in SUBSET (DOMAIN s), NEW a,
         NEW most \in Nat, \A t \in DOMAIN s : CreditOf(s[t], a) <= most
  PROVE  Total(CreditsAt(s, listed, a)) <= Cardinality(listed) * most
<1> DEFINE c == CreditsAt(s, listed, a)
           L(n) == listed \cap (1..n)
           S == {n \in Nat : n <= Len(s) => Sums(c)[n] <= Cardinality(L(n)) * most}
<1>1. DOMAIN s = 1..Len(s) /\ Len(s) \in Nat
  OBVIOUS
<1>2. /\ c \in Seq(Nat) /\ Len(c) = Len(s)
      /\ \A t \in 1..Len(s) : /\ t \in listed => c[t] = CreditOf(s[t], a)
                              /\ t \notin listed => c[t] = 0
  BY CreditsType, Zenon
<1> HIDE DEF c
<1>3. \A n \in Nat : IsFiniteSet(L(n)) /\ Cardinality(L(n)) \in Nat
  <2>1. SUFFICES ASSUME NEW n \in Nat
                 PROVE  IsFiniteSet(L(n)) /\ Cardinality(L(n)) \in Nat
    OBVIOUS
  <2>2. L(n) \in SUBSET (DOMAIN s)
    OBVIOUS
  <2> QED
    BY <2>2, PlacesFinite
<1>4. 0 \in S
  <2>1. L(0) = {}
    OBVIOUS
  <2>2. Cardinality(L(0)) = 0
    BY <2>1, FS_EmptySet
  <2>3. Sums(c)[0] = 0
    BY <1>1, <1>2, SumsStep
  <2>4. 0 * most = 0
    OBVIOUS
  <2>5. Sums(c)[0] <= Cardinality(L(0)) * most
    BY <2>2, <2>3, <2>4
  <2> HIDE DEF L
  <2> QED
    BY <2>5
<1>5. ASSUME NEW n \in Nat, n \in S
      PROVE  n + 1 \in S
  <2>1. SUFFICES ASSUME n + 1 <= Len(s)
                 PROVE  Sums(c)[n + 1] <= Cardinality(L(n + 1)) * most
    OBVIOUS
  <2>2. n + 1 <= Len(c)
    BY <1>2, <2>1
  <2>3. /\ Sums(c)[n + 1] = Sums(c)[n] + c[n + 1]
        /\ Sums(c)[n] \in Nat /\ c[n + 1] \in Nat
    BY <1>2, <2>2, SumsNext, Zenon
  <2>4. Sums(c)[n] <= Cardinality(L(n)) * most
    BY <1>1, <1>5, <2>1
  <2>5. n + 1 \in 1..Len(s) /\ n + 1 \in DOMAIN s
    BY <1>1, <2>1
  <2>6. n + 1 \notin L(n)
    OBVIOUS
  <2>7. CASE n + 1 \in listed
    <3>1. c[n + 1] <= most
      BY <1>2, <2>5, <2>7
    <3>2. L(n + 1) = L(n) \cup {n + 1}
      BY <2>7
    <3>3. Cardinality(L(n + 1)) = Cardinality(L(n)) + 1
      BY <1>3, <2>6, <3>2, FS_AddElement
    <3>4. \A k, x \in Nat : (k + 1) * x = k * x + x /\ k * x \in Nat
      OBVIOUS
    <3>5. /\ (Cardinality(L(n)) + 1) * most = Cardinality(L(n)) * most + most
          /\ Cardinality(L(n)) * most \in Nat
      BY <1>3, <3>4
    <3> HIDE DEF L
    <3> QED
      BY <2>3, <2>4, <3>1, <3>3, <3>5
  <2>8. CASE n + 1 \notin listed
    <3>1. c[n + 1] = 0
      BY <1>2, <2>5, <2>8
    <3>2. L(n + 1) = L(n)
      BY <2>8
    <3> HIDE DEF L
    <3> QED
      BY <2>3, <2>4, <3>1, <3>2
  <2> QED
    BY <2>7, <2>8
<1> HIDE DEF S
<1>6. \A n \in Nat : n \in S
  BY <1>4, <1>5, SetInduction
<1>7. L(Len(s)) = listed
  BY <1>1
<1> HIDE DEF L
<1>8. Sums(c)[Len(s)] <= Cardinality(L(Len(s))) * most
  BY <1>1, <1>6 DEF S
<1>9. Total(c) = Sums(c)[Len(s)]
  BY <1>1, <1>2, SumsStep
<1> QED
  BY <1>7, <1>8, <1>9 DEF c

(***************************************************************************)
(* Whatever the node lists, the amount is at most SearchCount times what   *)
(* one transaction credits.  With 100 and the 21 million coins there are,  *)
(* the int64 of rpc.go:73 has room for it.                                 *)
(***************************************************************************)
THEOREM AmountIsBounded ==
  ASSUME NEW most \in Nat,
         \A tx \in Transactions, a \in Addresses : CreditOf(tx, a) <= most
  PROVE  Spec => [](\A a \in Addresses : GetReceivedAmount(a).paid <= SearchCount * most)
<1>1. ASSUME TypeOK, KnownWasSent, NEW a \in Addresses
      PROVE  GetReceivedAmount(a).paid <= SearchCount * most
  <2> DEFINE listed == SearchRawTransactions(a)
  <2>1. Known \in Seq(Transaction)
    BY <1>1, KnownType
  <2>2. Known \in Seq(Transactions)
    BY <1>1 DEF KnownWasSent, Known
  <2>3. \A t \in DOMAIN Known : CreditOf(Known[t], a) <= most
    <3>1. \A t \in DOMAIN Known : Known[t] \in Transactions
      BY <2>2
    <3> QED
      BY <3>1, Zenon
  <2>4. listed \in SUBSET (DOMAIN Known)
    BY AmountIsKnown DEF Places
  <2>5. IsFiniteSet(listed) /\ Cardinality(listed) \in Nat
    BY <2>1, <2>4, PlacesFinite
  <2>6. Cardinality(listed) <= SearchCount
    <3>1. CASE serving
      BY <2>1, <3>1, AmountIsKnown, OldestCount, Zenon
    <3>2. CASE ~serving
      BY <3>2, FS_EmptySet, RpcAssumption DEF SearchRawTransactions
    <3> QED
      BY <3>1, <3>2
  <2>7. Total(CreditsAt(Known, listed, a)) <= Cardinality(listed) * most
    BY <2>1, <2>3, <2>4, CreditsBound, Zenon
  <2>8. Total(CreditsAt(Known, listed, a)) \in Nat
    BY <2>1, CreditsType, SumsType
  <2>9. \A k, n, x \in Nat : k <= n => k * x <= n * x /\ k * x \in Nat /\ n * x \in Nat
    <3>1. SUFFICES ASSUME NEW k \in Nat, NEW n \in Nat, NEW x \in Nat, k <= n
                   PROVE  k * x <= n * x /\ k * x \in Nat /\ n * x \in Nat
      OBVIOUS
    <3>2. n - k \in Nat /\ n = k + (n - k)
      BY <3>1
    <3>3. n * x = k * x + (n - k) * x
      BY <3>2
    <3>4. (n - k) * x \in Nat /\ k * x \in Nat
      BY <3>2
    <3> QED
      BY <3>3, <3>4
  <2>10. /\ Cardinality(listed) * most <= SearchCount * most
         /\ Cardinality(listed) * most \in Nat /\ SearchCount * most \in Nat
    BY <2>5, <2>6, <2>9, RpcAssumption
  <2>11. \/ GetReceivedAmount(a).paid = 0
         \/ GetReceivedAmount(a).paid = Total(CreditsAt(Known, listed, a))
    <3>1. GetReceivedAmount(a) = Amount(Known, listed, a)
      BY AmountIsKnown, Zenon
    <3> HIDE DEF listed
    <3> QED
      BY <3>1 DEF Amount
  <2> HIDE DEF listed
  <2> QED
    BY <2>7, <2>8, <2>10, <2>11
<1>2. TypeOK /\ KnownWasSent => \A a \in Addresses : GetReceivedAmount(a).paid <= SearchCount * most
  BY <1>1
<1> QED
  BY <1>2, Types, KnownWasSentAlways, PTL
=============================================================================
