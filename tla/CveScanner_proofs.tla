--------------------------- MODULE CveScanner_proofs ---------------------------
(***************************************************************************)
(* Proofs about CveScanner for any repository, any contents of the         *)
(* databases and any requests that fail.                                   *)
(***************************************************************************)
EXTENDS CveScanner, SequenceTheorems, WellFoundedInduction, TLAPS

-----------------------------------------------------------------------------
(* Sequences *)

\* A set of numbers has a least one; and induction over the numbers, for a set.
LEMMA Least ==
  ASSUME NEW T \in SUBSET Nat, T # {}
  PROVE  \E n \in T : \A m \in T : n <= m
<1> DEFINE R == {ss \in Nat \X Nat : ss[1] < ss[2]}
<1>1. IsWellFoundedOn(R, Nat)
  BY NatLessThanWellFounded, Zenon DEF OpToRel
<1>2. PICK n \in T : \A m \in T : ~(<<m, n>> \in R)
  <2> HIDE DEF R
  <2> QED BY <1>1, WFMin
<1>3. \A m \in T : ~(m < n)
  BY <1>2
<1> QED BY <1>3

LEMMA Induction ==
  ASSUME NEW T, 0 \in T, \A n \in Nat : n \in T => n + 1 \in T
  PROVE  \A n \in Nat : n \in T
<1> SUFFICES ASSUME NEW k \in Nat, k \notin T PROVE FALSE
  OBVIOUS
<1> DEFINE Out == {n \in Nat : n \notin T}
<1>1. PICK n \in Out : \A m \in Out : n <= m
  BY Least
<1>2. n # 0 /\ n - 1 \in Nat
  BY <1>1
<1>3. n - 1 \in T
  BY <1>1, <1>2
<1> QED BY <1>1, <1>2, <1>3

\* What Kept is up to its place n.
Keeping(g, s, P, n) ==
  g = [m \in 0..n |-> IF m = 0 THEN <<>>
                      ELSE IF m \in P THEN Append(g[m - 1], s[m])
                      ELSE g[m - 1]]

LEMMA KeptNext ==
  ASSUME NEW g, NEW s, NEW P, NEW N \in Nat, Keeping(g, s, P, N), NEW n \in Nat, n + 1 <= N
  PROVE  g[n + 1] = IF n + 1 \in P THEN Append(g[n], s[n + 1]) ELSE g[n]
<1>1. n + 1 \in 0..N /\ n + 1 # 0 /\ (n + 1) - 1 = n
  OBVIOUS
<1>2. g[n + 1] = IF n + 1 = 0 THEN <<>>
                 ELSE IF n + 1 \in P THEN Append(g[(n + 1) - 1], s[n + 1])
                 ELSE g[(n + 1) - 1]
  <2> DEFINE step(m) == IF m = 0 THEN <<>>
                        ELSE IF m \in P THEN Append(g[m - 1], s[m])
                        ELSE g[m - 1]
  <2>1. g = [m \in 0..N |-> step(m)]
    BY DEF Keeping
  <2> HIDE DEF step
  <2>2. g[n + 1] = step(n + 1)
    BY <1>1, <2>1
  <2> QED BY <2>2 DEF step
<1> QED BY <1>1, <1>2

LEMMA KeepingExists ==
  ASSUME NEW s, NEW P PROVE \A n \in Nat : \E g : Keeping(g, s, P, n)
<1> DEFINE T == {n \in Nat : \E g : Keeping(g, s, P, n)}
<1>1. 0 \in T
  <2> DEFINE g == [m \in 0..0 |-> <<>>]
  <2>1. Keeping(g, s, P, 0)
    <3>1. \A m \in 0..0 : m = 0
      OBVIOUS
    <3> QED BY <3>1 DEF Keeping
  <2> QED BY <2>1
<1>2. ASSUME NEW n \in Nat, n \in T PROVE n + 1 \in T
  <2>1. PICK g : Keeping(g, s, P, n)
    BY <1>2
  <2> DEFINE last == IF n + 1 \in P THEN Append(g[n], s[n + 1]) ELSE g[n]
             h == [m \in 0..(n + 1) |-> IF m = n + 1 THEN last ELSE g[m]]
             step(m) == IF m = 0 THEN <<>>
                        ELSE IF m \in P THEN Append(h[m - 1], s[m])
                        ELSE h[m - 1]
  <2>2. ASSUME NEW m \in 0..(n + 1) PROVE h[m] = step(m)
    <3>1. CASE m = n + 1
      <4>1. h[m - 1] = g[n] /\ m # 0
        BY <3>1
      <4> QED BY <3>1, <4>1
    <3>2. CASE m # n + 1 /\ m # 0
      <4>1. h[m - 1] = g[m - 1] /\ m \in 0..n /\ h[m] = g[m]
        BY <3>2
      <4> HIDE DEF h, last
      <4> QED BY <2>1, <3>2, <4>1 DEF Keeping
    <3>3. CASE m = 0
      <4>1. m \in 0..n /\ h[m] = g[m]
        BY <3>3
      <4> HIDE DEF h, last
      <4> QED BY <2>1, <3>3, <4>1 DEF Keeping
    <3> QED BY <3>1, <3>2, <3>3
  <2>3. Keeping(h, s, P, n + 1)
    <3>1. h = [m \in 0..(n + 1) |-> h[m]]
      OBVIOUS
    <3> HIDE DEF h
    <3>2. h = [m \in 0..(n + 1) |-> step(m)]
      BY <2>2, <3>1
    <3> QED BY <3>2, Zenon DEF Keeping
  <2> QED BY <2>3
<1>3. \A n \in Nat : n \in T
  <2> HIDE DEF T
  <2> QED BY <1>1, <1>2, Induction, Zenon
<1> QED BY <1>3

\* t has the elements of s at the places of P up to n, all of them and in order.
InOrder(t, s, P, n) ==
  \A k, l \in 1..Len(t) : k <= l =>
    \E a, b \in P : a <= b /\ b <= n /\ t[k] = s[a] /\ t[l] = s[b]
HasAll(t, s, P, n) == \A a \in P : a <= n => \E k \in 1..Len(t) : t[k] = s[a]

LEMMA OneMore ==
  ASSUME NEW S, NEW s \in Seq(S), NEW P \in SUBSET (1..Len(s)), NEW n \in 0..(Len(s) - 1),
         n + 1 \in P, NEW t \in Seq(S), InOrder(t, s, P, n), HasAll(t, s, P, n)
  PROVE  LET u == Append(t, s[n + 1])
         IN u \in Seq(S) /\ InOrder(u, s, P, n + 1) /\ HasAll(u, s, P, n + 1)
<1> DEFINE u == Append(t, s[n + 1])
<1>1. /\ u \in Seq(S) /\ Len(u) = Len(t) + 1 /\ u[Len(t) + 1] = s[n + 1]
      /\ \A k \in 1..Len(t) : u[k] = t[k]
  BY s[n + 1] \in S
<1> HIDE DEF u
<1>2. InOrder(u, s, P, n + 1)
  <2> SUFFICES ASSUME NEW k \in 1..Len(u), NEW l \in 1..Len(u), k <= l
               PROVE  \E a, b \in P : a <= b /\ b <= n + 1 /\ u[k] = s[a] /\ u[l] = s[b]
    BY DEF InOrder
  <2>1. CASE l = Len(t) + 1 /\ k = Len(t) + 1
    BY <1>1, <2>1
  <2>2. CASE l = Len(t) + 1 /\ k # Len(t) + 1
    <3>1. k \in 1..Len(t) /\ k <= k
      BY <1>1, <2>2
    <3>2. PICK a \in P : a <= n /\ t[k] = s[a]
      BY <3>1 DEF InOrder
    <3> QED BY <1>1, <2>2, <3>1, <3>2
  <2>3. CASE l # Len(t) + 1
    <3>1. k \in 1..Len(t) /\ l \in 1..Len(t)
      BY <1>1, <2>3
    <3>2. PICK a \in P, b \in P : a <= b /\ b <= n /\ t[k] = s[a] /\ t[l] = s[b]
      BY <3>1 DEF InOrder
    <3> QED BY <1>1, <3>1, <3>2
  <2> QED BY <2>1, <2>2, <2>3
<1>3. HasAll(u, s, P, n + 1)
  <2> SUFFICES ASSUME NEW a \in P, a <= n + 1 PROVE \E k \in 1..Len(u) : u[k] = s[a]
    BY DEF HasAll
  <2>1. CASE a = n + 1
    <3>1. Len(t) + 1 \in 1..Len(u)
      BY <1>1
    <3> QED BY <1>1, <2>1, <3>1
  <2>2. CASE a <= n
    <3>1. PICK k \in 1..Len(t) : t[k] = s[a]
      BY <2>2 DEF HasAll
    <3>2. k \in 1..Len(u)
      BY <1>1
    <3> QED BY <1>1, <3>1, <3>2
  <2> QED BY <2>1, <2>2
<1> QED BY <1>1, <1>2, <1>3 DEF u

LEMMA Keeps ==
  ASSUME NEW S, NEW s \in Seq(S), NEW P \in SUBSET (1..Len(s))
  PROVE  /\ Keep(s, P) \in Seq(S)
         /\ InOrder(Keep(s, P), s, P, Len(s)) /\ HasAll(Keep(s, P), s, P, Len(s))
<1> DEFINE Good(t, n) == t \in Seq(S) /\ InOrder(t, s, P, n) /\ HasAll(t, s, P, n)
           g == CHOOSE k : Keeping(k, s, P, Len(s))
           T == {n \in Nat : n <= Len(s) => Good(g[n], n)}
<1>1. Keep(s, P) = g[Len(s)]
  BY Zenon DEF Keep, Keeping
<1>2. Len(s) \in Nat
  OBVIOUS
<1>3. Keeping(g, s, P, Len(s))
  BY <1>2, KeepingExists, Zenon
<1> HIDE DEF g
<1>4. 0 \in T
  <2>1. g[0] = <<>>
    BY <1>2, <1>3 DEF Keeping
  <2>2. <<>> \in Seq(S) /\ InOrder(<<>>, s, P, 0) /\ HasAll(<<>>, s, P, 0)
    BY DEF InOrder, HasAll
  <2> QED BY <2>1, <2>2
<1>5. ASSUME NEW n \in Nat, n \in T PROVE n + 1 \in T
  <2> SUFFICES ASSUME n + 1 <= Len(s) PROVE Good(g[n + 1], n + 1)
    OBVIOUS
  <2>1. Good(g[n], n)
    BY <1>2, <1>5
  <2>2. n + 1 \in 0..Len(s) /\ n + 1 # 0 /\ (n + 1) - 1 = n /\ n \in 0..(Len(s) - 1)
    BY <1>2
  <2>3. g[n + 1] = IF n + 1 \in P THEN Append(g[n], s[n + 1]) ELSE g[n]
    BY <1>3, <2>2 DEF Keeping
  <2>4. CASE n + 1 \in P
    <3>1. Good(Append(g[n], s[n + 1]), n + 1)
      BY <2>1, <2>2, <2>4, OneMore
    <3> QED BY <2>3, <2>4, <3>1
  <2>5. CASE n + 1 \notin P
    <3>1. InOrder(g[n], s, P, n + 1)
      BY <2>1, <2>2 DEF InOrder
    <3>2. \A a \in P : a <= n + 1 => a <= n
      BY <1>2, <2>5
    <3>3. HasAll(g[n], s, P, n + 1)
      BY <2>1, <3>2 DEF HasAll
    <3> QED BY <2>1, <2>3, <2>5, <3>1, <3>3
  <2> QED BY <2>4, <2>5
<1>6. \A n \in Nat : n \in T
  <2> HIDE DEF T
  <2> QED BY <1>4, <1>5, Induction, Zenon
<1>7. Len(s) \in T
  BY <1>2, <1>6
<1>8. Good(g[Len(s)], Len(s))
  <2> HIDE DEF Good
  <2> QED BY <1>2, <1>7
<1> QED BY <1>1, <1>8, Zenon

LEMMA Appended ==
  ASSUME NEW S, NEW t \in Seq(S), NEW x \in S
  PROVE  /\ Append(t, x) \in Seq(S) /\ Len(Append(t, x)) = Len(t) + 1
         /\ Append(t, x)[Len(t) + 1] = x
         /\ \A j \in 1..Len(t) : Append(t, x)[j] = t[j]
OBVIOUS

\* What is kept of a sequence and what is kept of its places fit together.
LEMMA KeptTogether ==
  ASSUME NEW S, NEW s \in Seq(S), NEW p \in Seq(1..Len(s)), Len(p) = Len(s),
         \A n \in 1..Len(s) : p[n] = n, NEW P \in SUBSET (1..Len(s))
  PROVE  /\ Len(Keep(p, P)) = Len(Keep(s, P))
         /\ \A j \in 1..Len(Keep(s, P)) : Keep(s, P)[j] = s[Keep(p, P)[j]]
<1> DEFINE Alike(t, q) == /\ t \in Seq(S) /\ q \in Seq(1..Len(s)) /\ Len(q) = Len(t)
                          /\ \A j \in 1..Len(t) : t[j] = s[q[j]]
           g == CHOOSE k : Keeping(k, s, P, Len(s))
           h == CHOOSE k : Keeping(k, p, P, Len(p))
           T == {n \in Nat : n <= Len(s) => Alike(g[n], h[n])}
<1>1. Keep(s, P) = g[Len(s)] /\ Keep(p, P) = h[Len(p)]
  BY Zenon DEF Keep, Keeping
<1>2. Len(s) \in Nat
  OBVIOUS
<1>3. Keeping(g, s, P, Len(s)) /\ Keeping(h, p, P, Len(s))
  BY <1>2, KeepingExists, Zenon
<1> HIDE DEF g, h
<1>4. 0 \in T
  <2>1. g[0] = <<>> /\ h[0] = <<>>
    BY <1>2, <1>3 DEF Keeping
  <2>2. Alike(<<>>, <<>>)
    OBVIOUS
  <2> HIDE DEF Alike
  <2> QED BY <2>1, <2>2
<1>5. ASSUME NEW n \in Nat, n \in T PROVE n + 1 \in T
  <2> SUFFICES ASSUME n + 1 <= Len(s) PROVE Alike(g[n + 1], h[n + 1])
    OBVIOUS
  <2>1. Alike(g[n], h[n])
    BY <1>2, <1>5
  <2>2. n + 1 \in 1..Len(s) /\ n + 1 \in 0..Len(s) /\ n + 1 # 0 /\ (n + 1) - 1 = n
    BY <1>2
  <2>3. g[n + 1] = IF n + 1 \in P THEN Append(g[n], s[n + 1]) ELSE g[n]
    <3>1. Keeping(g, s, P, Len(s))
      BY <1>3
    <3> QED BY <1>2, <3>1, KeptNext, SMTT(30)
  <2>h. h[n + 1] = IF n + 1 \in P THEN Append(h[n], p[n + 1]) ELSE h[n]
    <3>1. Keeping(h, p, P, Len(s))
      BY <1>3
    <3> QED BY <1>2, <3>1, KeptNext, SMTT(30)
  <2>4. CASE n + 1 \in P
    <3> DEFINE t == Append(g[n], s[n + 1])
               q == Append(h[n], p[n + 1])
    <3>1. s[n + 1] \in S /\ p[n + 1] = n + 1
      BY <2>2
    <3>2. /\ t \in Seq(S) /\ Len(t) = Len(g[n]) + 1 /\ t[Len(g[n]) + 1] = s[n + 1]
          /\ \A j \in 1..Len(g[n]) : t[j] = g[n][j]
      BY <2>1, <3>1, Appended
    <3>3. /\ q \in Seq(1..Len(s)) /\ Len(q) = Len(h[n]) + 1 /\ q[Len(h[n]) + 1] = n + 1
          /\ \A j \in 1..Len(h[n]) : q[j] = h[n][j]
      <4>1. h[n] \in Seq(1..Len(s)) /\ p[n + 1] \in 1..Len(s)
        BY <2>1, <2>2, <3>1
      <4> QED BY <3>1, <4>1, Appended
    <3>4. g[n + 1] = t /\ h[n + 1] = q
      BY <2>3, <2>h, <2>4
    <3> HIDE DEF t, q
    <3>5. Len(g[n]) \in Nat /\ Len(h[n]) = Len(g[n])
      BY <2>1
    <3>6. ASSUME NEW j \in 1..Len(t) PROVE t[j] = s[q[j]]
      <4>1. CASE j = Len(g[n]) + 1
        BY <3>2, <3>3, <3>5, <4>1
      <4>2. CASE j # Len(g[n]) + 1
        <5>1. j \in 1..Len(g[n])
          <6> DEFINE length == Len(g[n])
          <6>1. j \in 1..(length + 1) /\ length \in Nat
            BY <3>2, <3>5
          <6> HIDE DEF length
          <6>2. j # length + 1
            BY <4>2 DEF length
          <6>3. j \in 1..length
            BY <6>1, <6>2
          <6> QED BY <6>3 DEF length
        <5> QED BY <2>1, <3>2, <3>3, <3>5, <5>1
      <4> QED BY <4>1, <4>2
    <3> QED BY <3>2, <3>3, <3>4, <3>5, <3>6
  <2>5. CASE n + 1 \notin P
    <3> HIDE DEF Alike
    <3> QED BY <2>1, <2>3, <2>h, <2>5
  <2> QED BY <2>4, <2>5
<1>6. \A n \in Nat : n \in T
  <2> HIDE DEF T
  <2> QED BY <1>4, <1>5, Induction, Zenon
<1>7. Alike(g[Len(s)], h[Len(s)])
  <2> HIDE DEF Alike
  <2> QED BY <1>2, <1>6
<1> QED BY <1>1, <1>7

\* KeepFirst keeps one element of every key, in order.
LEMMA FirstOfKey ==
  ASSUME NEW S, NEW s \in Seq(S), NEW key
  PROVE  /\ KeepFirst(s, key) \in Seq(S)
         /\ InOrder(KeepFirst(s, key), s, 1..Len(s), Len(s))
         /\ \A a \in 1..Len(s) : \E b \in 1..Len(s) :
              /\ key[b] = key[a]
              /\ \E k \in 1..Len(KeepFirst(s, key)) : KeepFirst(s, key)[k] = s[b]
<1> DEFINE P == {n \in DOMAIN s : \A m \in 1..(n - 1) : key[m] # key[n]}
           t == KeepFirst(s, key)
<1>1. P \in SUBSET (1..Len(s)) /\ Len(s) \in Nat
  OBVIOUS
<1>2. t = Keep(s, P)
  BY DEF KeepFirst
<1>3. t \in Seq(S) /\ InOrder(t, s, P, Len(s)) /\ HasAll(t, s, P, Len(s))
  <2> HIDE DEF P, t
  <2> QED BY <1>1, <1>2, Keeps
<1>4. ASSUME NEW a \in 1..Len(s)
      PROVE  \E b \in 1..Len(s) : key[b] = key[a] /\ \E k \in 1..Len(t) : t[k] = s[b]
  <2> DEFINE B == {b \in 1..Len(s) : key[b] = key[a]}
  <2>1. B \in SUBSET Nat /\ B # {}
    OBVIOUS
  <2>2. PICK b \in B : \A m \in B : b <= m
    <3> HIDE DEF B
    <3> QED BY <2>1, Least
  <2>3. b \in P /\ b <= Len(s)
    BY <2>2
  <2>4. \E k \in 1..Len(t) : t[k] = s[b]
    <3> HIDE DEF P, t
    <3> QED BY <1>3, <2>3 DEF HasAll
  <2> QED BY <2>2, <2>4
<1>5. InOrder(t, s, 1..Len(s), Len(s))
  <2> HIDE DEF P, t
  <2> QED BY <1>1, <1>3 DEF InOrder
<1> QED BY <1>3, <1>4, <1>5

\* What flatten of FlattenSeq is up to its place n.
Flattening(g, ss, n) == g = [m \in 1..n |-> IF m = 1 THEN ss[m] ELSE g[m - 1] \o ss[m]]

LEMMA FlatteningExists ==
  ASSUME NEW ss PROVE \A n \in Nat : \E g : Flattening(g, ss, n)
<1> DEFINE T == {n \in Nat : \E g : Flattening(g, ss, n)}
<1>1. 0 \in T
  <2> DEFINE g == [m \in 1..0 |-> <<>>]
  <2>1. Flattening(g, ss, 0)
    BY DEF Flattening
  <2> QED BY <2>1
<1>2. ASSUME NEW n \in Nat, n \in T PROVE n + 1 \in T
  <2>1. PICK g : Flattening(g, ss, n)
    BY <1>2
  <2> DEFINE last == IF n = 0 THEN ss[n + 1] ELSE g[n] \o ss[n + 1]
             h == [m \in 1..(n + 1) |-> IF m = n + 1 THEN last ELSE g[m]]
             step(m) == IF m = 1 THEN ss[m] ELSE h[m - 1] \o ss[m]
  <2>2. ASSUME NEW m \in 1..(n + 1) PROVE h[m] = step(m)
    <3>1. CASE m = n + 1 /\ n # 0
      <4>1. last = g[n] \o ss[n + 1]
        BY <3>1
      <4> HIDE DEF last
      <4>2. h[m - 1] = g[n] /\ m # 1 /\ h[m] = last
        BY <3>1
      <4> HIDE DEF h
      <4> QED BY <3>1, <4>1, <4>2
    <3>2. CASE m # n + 1 /\ m # 1
      <4>1. h[m - 1] = g[m - 1] /\ m \in 1..n /\ h[m] = g[m]
        BY <3>2
      <4> HIDE DEF h, last
      <4>2. g[m] = g[m - 1] \o ss[m]
        BY <2>1, <3>2, <4>1 DEF Flattening
      <4> QED BY <3>2, <4>1, <4>2
    <3>3. CASE m = 1 /\ n = 0
      BY <3>3
    <3>4. CASE m = 1 /\ n # 0
      <4>1. m \in 1..n /\ h[m] = g[m]
        BY <3>4
      <4> HIDE DEF h, last
      <4> QED BY <2>1, <3>4, <4>1 DEF Flattening
    <3> QED BY <3>1, <3>2, <3>3, <3>4
  <2>3. Flattening(h, ss, n + 1)
    <3>1. h = [m \in 1..(n + 1) |-> h[m]]
      OBVIOUS
    <3> HIDE DEF h
    <3>2. h = [m \in 1..(n + 1) |-> step(m)]
      BY <2>2, <3>1
    <3> QED BY <3>2, Zenon DEF Flattening
  <2> QED BY <2>3
<1>3. \A n \in Nat : n \in T
  <2> HIDE DEF T
  <2> QED BY <1>1, <1>2, Induction, Zenon
<1> QED BY <1>3

\* FlattenSeq loses nothing.
Holds(t, s) == \A k \in 1..Len(s) : \E l \in 1..Len(t) : t[l] = s[k]

LEMMA Joined ==
  ASSUME NEW S, NEW s \in Seq(S), NEW t \in Seq(S)
  PROVE  /\ s \o t \in Seq(S)
         /\ Holds(s \o t, s) /\ Holds(s \o t, t)
         /\ \A u : Holds(s, u) => Holds(s \o t, u)
<1>1. s \o t \in Seq(S) /\ Len(s \o t) = Len(s) + Len(t)
  OBVIOUS
<1>2. \A k \in 1..Len(s) : k \in 1..Len(s \o t) /\ (s \o t)[k] = s[k]
  OBVIOUS
<1>3. \A k \in 1..Len(t) : Len(s) + k \in 1..Len(s \o t) /\ (s \o t)[Len(s) + k] = t[k]
  OBVIOUS
<1> DEFINE v == s \o t
<1> HIDE DEF v
<1>4. Holds(v, s) /\ Holds(v, t)
  BY <1>2, <1>3 DEF Holds, v
<1>5. \A u : Holds(s, u) => Holds(v, u)
  BY <1>2 DEF Holds, v
<1> QED BY <1>1, <1>4, <1>5 DEF v

LEMMA Flattened ==
  ASSUME NEW S, NEW ss \in Seq(Seq(S))
  PROVE  /\ FlattenSeq(ss) \in Seq(S)
         /\ \A n \in 1..Len(ss) : Holds(FlattenSeq(ss), ss[n])
<1>1. CASE Len(ss) = 0
  <2>1. FlattenSeq(ss) = <<>>
    BY <1>1 DEF FlattenSeq
  <2> QED BY <1>1, <2>1
<1>2. CASE Len(ss) # 0
  <2> DEFINE g == CHOOSE k : Flattening(k, ss, Len(ss))
             Good(n) == g[n] \in Seq(S) /\ \A m \in 1..n : Holds(g[n], ss[m])
             T == {n \in Nat : n + 1 <= Len(ss) => Good(n + 1)}
  <2>1. FlattenSeq(ss) = g[Len(ss)]
    BY <1>2, Zenon DEF FlattenSeq, Flattening
  <2>2. Len(ss) \in Nat
    OBVIOUS
  <2>3. Flattening(g, ss, Len(ss))
    BY <2>2, FlatteningExists, Zenon
  <2> HIDE DEF g
  <2>a. \A m \in 1..Len(ss) : ss[m] \in Seq(S) /\ Holds(ss[m], ss[m])
    BY DEF Holds
  <2>4. 0 \in T
    <3>1. 1 <= Len(ss) => g[1] = ss[1]
      BY <2>2, <2>3 DEF Flattening
    <3>2. \A m \in 1..1 : m = 1
      OBVIOUS
    <3> QED BY <2>2, <2>a, <3>1, <3>2
  <2>5. ASSUME NEW n \in Nat, n \in T PROVE n + 1 \in T
    <3> SUFFICES ASSUME (n + 1) + 1 <= Len(ss) PROVE Good((n + 1) + 1)
      OBVIOUS
    <3>1. Good(n + 1)
      BY <2>2, <2>5
    <3>2. (n + 1) + 1 \in 1..Len(ss) /\ (n + 1) + 1 # 1 /\ ((n + 1) + 1) - 1 = n + 1
      BY <2>2
    <3>3. g[(n + 1) + 1] = g[n + 1] \o ss[(n + 1) + 1]
      BY <2>3, <3>2 DEF Flattening
    <3> DEFINE s == g[n + 1]
               t == ss[(n + 1) + 1]
    <3>4. s \in Seq(S) /\ t \in Seq(S)
      BY <2>a, <3>1, <3>2
    <3>5. ASSUME NEW m \in 1..((n + 1) + 1) PROVE Holds(s \o t, ss[m])
      <4>1. CASE m = (n + 1) + 1
        <5>1. Holds(s \o t, t)
          <6> HIDE DEF s, t
          <6> QED BY <3>4, Joined
        <5> QED BY <4>1, <5>1
      <4>2. CASE m # (n + 1) + 1
        <5>1. m \in 1..(n + 1)
          BY <4>2
        <5>2. Holds(s, ss[m])
          BY <3>1, <5>1
        <5> HIDE DEF s, t
        <5> QED BY <3>4, <5>2, Joined
      <4> QED BY <4>1, <4>2
    <3>6. s \o t \in Seq(S)
      <4> HIDE DEF s, t
      <4> QED BY <3>4
    <3> QED BY <3>3, <3>5, <3>6
  <2>6. \A n \in Nat : n \in T
    <3> HIDE DEF T
    <3> QED BY <2>4, <2>5, Induction, Zenon
  <2>7. Len(ss) - 1 \in Nat /\ (Len(ss) - 1) + 1 = Len(ss)
    BY <1>2, <2>2
  <2>8. Len(ss) - 1 \in T
    BY <2>6, <2>7
  <2>9. Good(Len(ss))
    <3> HIDE DEF Good
    <3> QED BY <2>2, <2>7, <2>8
  <2> QED BY <2>1, <2>9, Zenon
<1> QED BY <1>1, <1>2
-----------------------------------------------------------------------------
(* The dependencies *)

LEMMA Selected ==
  ASSUME NEW S, NEW s \in Seq(S), NEW P \in SUBSET (1..Len(s))
  PROVE  /\ Keep(s, P) \in Seq(S)
         /\ \A k \in 1..Len(Keep(s, P)) : \E a \in P : Keep(s, P)[k] = s[a]
         /\ \A a \in P : \E k \in 1..Len(Keep(s, P)) : Keep(s, P)[k] = s[a]
<1> DEFINE t == Keep(s, P)
<1>1. t \in Seq(S) /\ InOrder(t, s, P, Len(s)) /\ HasAll(t, s, P, Len(s))
  BY Keeps
<1> HIDE DEF t
<1>2. \A k \in 1..Len(t) : \E a \in P : t[k] = s[a]
  <2> TAKE k \in 1..Len(t)
  <2>1. k <= k
    BY <1>1
  <2> QED BY <1>1, <2>1 DEF InOrder
<1>3. \A a \in P : \E k \in 1..Len(t) : t[k] = s[a]
  BY <1>1 DEF HasAll
<1> QED BY <1>1, <1>2, <1>3 DEF t

LEMMA ItemsOfFiles ==
  ASSUME NEW T, NEW fs \in Seq(FileOf(T))
  PROVE  /\ Items(fs) \in Seq(T)
         /\ \A x \in ItemSet(fs) : \E k \in 1..Len(Items(fs)) : Items(fs)[k] = x
<1> DEFINE ss == [f \in DOMAIN fs |-> IF fs[f].readable THEN fs[f].items ELSE <<>>]
<1>1. ss \in Seq(Seq(T)) /\ Len(ss) = Len(fs)
  <2>1. DOMAIN fs = 1..Len(fs) /\ Len(fs) \in Nat
    OBVIOUS
  <2>2. \A f \in 1..Len(fs) : ss[f] \in Seq(T)
    <3> TAKE f \in 1..Len(fs)
    <3>1. fs[f] \in FileOf(T)
      OBVIOUS
    <3>2. fs[f].items \in Seq(T) /\ <<>> \in Seq(T)
      BY <3>1 DEF FileOf
    <3> QED BY <2>1, <3>2
  <2>3. ss = [f \in 1..Len(fs) |-> ss[f]]
    BY <2>1
  <2> HIDE DEF ss
  <2> QED BY <2>1, <2>2, <2>3
<1>2. FlattenSeq(ss) \in Seq(T) /\ \A n \in 1..Len(ss) : Holds(FlattenSeq(ss), ss[n])
  <2> HIDE DEF ss
  <2> QED BY <1>1, Flattened
<1>3. Items(fs) = FlattenSeq(ss)
  BY DEF Items
<1>4. ASSUME NEW x \in ItemSet(fs) PROVE \E k \in 1..Len(Items(fs)) : Items(fs)[k] = x
  <2>1. PICK f \in DOMAIN fs : fs[f].readable /\ x \in ToSet(fs[f].items)
    BY <1>4 DEF ItemSet
  <2>2. f \in 1..Len(ss) /\ ss[f] = fs[f].items /\ fs[f].items \in Seq(T)
    <3>1. f \in 1..Len(fs) /\ fs[f] \in FileOf(T)
      BY <2>1
    <3> QED BY <1>1, <2>1, <3>1 DEF FileOf
  <2>3. PICK m \in 1..Len(ss[f]) : x = ss[f][m]
    BY <2>1, <2>2 DEF ToSet
  <2>4. Holds(Items(fs), ss[f])
    BY <1>2, <1>3, <2>2
  <2> QED BY <2>3, <2>4 DEF Holds
<1> QED BY <1>2, <1>3, <1>4

Python == {d \in Dependency : d.ecosystem = "PyPI" /\ d.upstream = NoRepo}
Crates == {d \in Dependency : d.ecosystem = "crates.io" /\ d.upstream = NoRepo}
Ros == {d \in Dependency : d.ecosystem = "ROS" /\ d.upstream = Upstream(d.name)}

LEMMA InternalIsNormal ==
  {Normalised(p) : p \in InternalPackages} = InternalPackages
BY NormalAssumption DEF Normalised

Version == STRING \cup {NoVersion}

LEMMA VersionIsText == ASSUME NEW r \in Requirement PROVE FirstVersion(r) \in Version
<1>1. r.constraints \in Seq(STRING)
  BY DEF Requirement
<1>2. CASE r.constraints = <<>>
  BY <1>2 DEF FirstVersion, Version
<1>3. CASE r.constraints # <<>>
  <2>1. Head(r.constraints) \in STRING
    BY <1>1, <1>3
  <2> QED BY <1>3, <2>1 DEF FirstVersion, Version
<1> QED BY <1>2, <1>3

Repo == {Upstream(p) : p \in DOMAIN RosUpstreamRepos} \cup {NoRepo}

LEMMA DepFields ==
  ASSUME NEW e, NEW n, NEW v, NEW r
  PROVE  /\ Dep(e, n, v, r).ecosystem = e /\ Dep(e, n, v, r).name = n
         /\ Dep(e, n, v, r).version = v /\ Dep(e, n, v, r).upstream = r
         /\ e \in {"PyPI", "crates.io", "ROS"} /\ n \in STRING /\ v \in Version /\ r \in Repo
              => Dep(e, n, v, r) \in Dependency
BY DEF Dep, Dependency, Version, Repo

\* A requirement, and one that is looked up in its place.
LEMMA PythonDeps ==
  ASSUME NEW fs \in Seq(FileOf(Requirement))
  PROVE  /\ SetupPyDeps(fs) \in Seq(Python)
         /\ \A r \in ItemSet(fs) : Normalised(r.name) \notin InternalPackages =>
              \E k \in 1..Len(SetupPyDeps(fs)) :
                /\ Normalised(SetupPyDeps(fs)[k].name) = Normalised(r.name)
                /\ SetupPyDeps(fs)[k].version = FirstVersion(r)
<1> DEFINE items == Items(fs)
           all == [n \in DOMAIN items |->
                     Dep("PyPI", items[n].name, FirstVersion(items[n]), NoRepo)]
           key == [n \in DOMAIN all |-> SetupKey(all[n])]
           new == KeepFirst(all, key)
           P == {n \in DOMAIN new : Normalised(new[n].name) \notin
                                      {Normalised(p) : p \in InternalPackages}}
           D == SetupPyDeps(fs)
<1>1. D = Keep(new, P)
  BY DEF SetupPyDeps
<1>2. /\ items \in Seq(Requirement)
      /\ \A x \in ItemSet(fs) : \E k \in 1..Len(items) : items[k] = x
  BY ItemsOfFiles
<1> HIDE DEF items, D
<1>3. all \in Seq(Python) /\ Len(all) = Len(items)
  <2>1. \A n \in 1..Len(items) : all[n] \in Python
    <3> TAKE n \in 1..Len(items)
    <3>0. items[n] \in Requirement
      BY <1>2
    <3>1. items[n] \in Requirement /\ items[n].name \in STRING
      BY <3>0 DEF Requirement
    <3>2. FirstVersion(items[n]) \in Version /\ NoRepo \in Repo
      BY <3>1, VersionIsText DEF Repo
    <3>3. all[n] = Dep("PyPI", items[n].name, FirstVersion(items[n]), NoRepo)
      BY <1>2
    <3> HIDE DEF all
    <3> QED BY <3>1, <3>2, <3>3, DepFields DEF Python
  <2>2. DOMAIN all = 1..Len(items) /\ Len(items) \in Nat
    BY <1>2
  <2>3. all = [n \in 1..Len(items) |-> all[n]]
    BY <2>2
  <2> HIDE DEF all
  <2> QED BY <2>1, <2>2, <2>3
<1>4. /\ new \in Seq(Python)
      /\ \A a \in 1..Len(all) : \E b \in 1..Len(all) :
           key[b] = key[a] /\ \E k \in 1..Len(new) : new[k] = all[b]
  <2> HIDE DEF all, key
  <2> QED BY <1>3, FirstOfKey
<1>5. /\ D \in Seq(Python)
      /\ \A a \in P : \E k \in 1..Len(D) : D[k] = new[a]
  <2>1. P \in SUBSET (1..Len(new))
    <3> HIDE DEF new
    <3> QED BY <1>4
  <2>2. new \in Seq(Python)
    <3> HIDE DEF new
    <3> QED BY <1>4
  <2> HIDE DEF P, new
  <2> QED BY <1>1, <2>1, <2>2, Selected, SMTT(30)
<1>6. ASSUME NEW r \in ItemSet(fs), Normalised(r.name) \notin InternalPackages
      PROVE  \E k \in 1..Len(D) : /\ Normalised(D[k].name) = Normalised(r.name)
                                  /\ D[k].version = FirstVersion(r)
  <2>1. PICK a \in 1..Len(items) : items[a] = r
    BY <1>2
  <2>2. a \in 1..Len(all) /\ all[a] = Dep("PyPI", r.name, FirstVersion(r), NoRepo)
    BY <1>2, <1>3, <2>1
  <2>3. PICK b \in 1..Len(all) : key[b] = key[a] /\ \E k \in 1..Len(new) : new[k] = all[b]
    BY <1>4, <2>2
  <2>4. key[b] = SetupKey(all[b]) /\ key[a] = SetupKey(all[a])
    <3>1. DOMAIN all = 1..Len(all)
      BY <1>3
    <3> HIDE DEF all
    <3> QED BY <2>2, <2>3, <3>1
  <2>5. Normalised(all[b].name) = Normalised(r.name) /\ all[b].version = FirstVersion(r)
    <3>1. all[a].name = r.name /\ all[a].version = FirstVersion(r)
      <4> HIDE DEF all
      <4> QED BY <2>2, DepFields
    <3>2. SetupKey(all[b]) = SetupKey(all[a])
      <4> HIDE DEF all, key
      <4> QED BY <2>3, <2>4
    <3> HIDE DEF all
    <3> QED BY <3>1, <3>2 DEF SetupKey
  <2>6. PICK k \in 1..Len(new) : new[k] = all[b]
    BY <2>3
  <2>7. k \in P
    <3>1. k \in DOMAIN new
      <4> HIDE DEF new
      <4> QED BY <1>4, <2>6
    <3> HIDE DEF new, all
    <3> QED BY <1>6, <2>5, <2>6, <3>1, InternalIsNormal
  <2>8. PICK l \in 1..Len(D) : D[l] = new[k]
    <3> HIDE DEF P, new
    <3> QED BY <1>5, <2>7
  <2> HIDE DEF new, all
  <2> QED BY <2>5, <2>6, <2>8
<1> QED BY <1>5, <1>6 DEF D

\* A sequence of typed elements, given by what stands at each place.
LEMMA Mapped ==
  ASSUME NEW S, NEW n \in Nat, NEW f, DOMAIN f = 1..n, f = [m \in 1..n |-> f[m]],
         \A m \in 1..n : f[m] \in S
  PROVE  f \in Seq(S) /\ Len(f) = n
OBVIOUS

\* A crate in a version, and that it is looked up.
LEMMA CrateDeps ==
  ASSUME NEW fs \in Seq(FileOf(LockedCrate))
  PROVE  /\ CargoLockDeps(fs) \in Seq(Crates)
         /\ \A c \in ItemSet(fs) : c.version # NoVersion /\ c.name \notin InternalPackages =>
              \E k \in 1..Len(CargoLockDeps(fs)) :
                CargoLockDeps(fs)[k].name = c.name /\ CargoLockDeps(fs)[k].version = c.version
<1> DEFINE items == Items(fs)
           Q == {n \in DOMAIN items : items[n].version # NoVersion}
           full == Keep(items, Q)
           all == [n \in DOMAIN full |-> Dep("crates.io", full[n].name, full[n].version, NoRepo)]
           key == [n \in DOMAIN all |-> <<all[n].name, all[n].version>>]
           new == KeepFirst(all, key)
           P == {n \in DOMAIN new : new[n].name \notin InternalPackages}
           D == CargoLockDeps(fs)
<1>1. D = Keep(new, P)
  BY DEF CargoLockDeps
<1>2. /\ items \in Seq(LockedCrate)
      /\ \A x \in ItemSet(fs) : \E k \in 1..Len(items) : items[k] = x
  BY ItemsOfFiles
<1> HIDE DEF items, D
<1>3. Q \in SUBSET (1..Len(items))
  BY <1>2
<1>4. full \in Seq(LockedCrate) /\ \A a \in Q : \E k \in 1..Len(full) : full[k] = items[a]
  <2> HIDE DEF Q
  <2> QED BY <1>2, <1>3, Selected
<1> HIDE DEF full
<1>5. DOMAIN full = 1..Len(full) /\ Len(full) \in Nat
  BY <1>4
<1>6. all \in Seq(Crates) /\ Len(all) = Len(full) /\ DOMAIN all = 1..Len(full)
  <2>1. \A n \in 1..Len(full) : all[n] \in Crates
    <3> TAKE n \in 1..Len(full)
    <3>0. full[n] \in LockedCrate
      BY <1>4
    <3>1. full[n].name \in STRING /\ full[n].version \in Version
      BY <3>0 DEF LockedCrate, Version
    <3>2. NoRepo \in Repo
      BY DEF Repo
    <3>3. all[n] = Dep("crates.io", full[n].name, full[n].version, NoRepo)
      BY <1>5
    <3> HIDE DEF all
    <3> QED BY <3>1, <3>2, <3>3, DepFields DEF Crates
  <2>2. DOMAIN all = 1..Len(full) /\ all = [n \in 1..Len(full) |-> all[n]]
    BY <1>5
  <2> HIDE DEF all
  <2> QED BY <1>5, <2>1, <2>2, Mapped
<1>7. /\ new \in Seq(Crates)
      /\ \A a \in 1..Len(all) : \E b \in 1..Len(all) :
           key[b] = key[a] /\ \E k \in 1..Len(new) : new[k] = all[b]
  <2> HIDE DEF all, key
  <2> QED BY <1>6, FirstOfKey
<1>8. \A a \in 1..Len(all) : key[a] = <<all[a].name, all[a].version>>
  <2> HIDE DEF all
  <2> QED BY <1>6
<1> HIDE DEF key, new
<1>9. P \in SUBSET (1..Len(new))
  BY <1>7
<1>10. /\ D \in Seq(Crates)
       /\ \A a \in P : \E k \in 1..Len(D) : D[k] = new[a]
  <2> HIDE DEF P
  <2> QED BY <1>1, <1>7, <1>9, Selected
<1>11. ASSUME NEW c \in ItemSet(fs), c.version # NoVersion, c.name \notin InternalPackages
       PROVE  \E k \in 1..Len(D) : D[k].name = c.name /\ D[k].version = c.version
  <2>1. PICK a \in 1..Len(items) : items[a] = c
    BY <1>2
  <2>2. a \in Q
    BY <1>2, <1>11, <2>1
  <2>3. PICK f \in 1..Len(full) : full[f] = c
    <3> HIDE DEF Q
    <3> QED BY <1>4, <2>1, <2>2
  <2>4. all[f] = Dep("crates.io", c.name, c.version, NoRepo) /\ f \in 1..Len(all)
    BY <1>5, <1>6, <2>3
  <2>5. all[f].name = c.name /\ all[f].version = c.version
    <3> HIDE DEF all
    <3> QED BY <2>4, DepFields
  <2> HIDE DEF all
  <2>6. PICK b \in 1..Len(all) : key[b] = key[f] /\ \E k \in 1..Len(new) : new[k] = all[b]
    BY <1>7, <2>4
  <2>7. all[b].name = c.name /\ all[b].version = c.version
    <3>1. key[b] = <<all[b].name, all[b].version>> /\ key[f] = <<all[f].name, all[f].version>>
      BY <1>8, <2>4
    <3>2. <<all[b].name, all[b].version>> = <<all[f].name, all[f].version>>
      BY <2>6, <3>1, Zenon
    <3>3. all[b].name = all[f].name /\ all[b].version = all[f].version
      BY <3>2
    <3> QED BY <2>5, <3>3
  <2>8. PICK k \in 1..Len(new) : new[k] = all[b]
    BY <2>6
  <2>9. k \in P
    <3>1. k \in DOMAIN new
      BY <1>7
    <3>2. new[k].name = c.name
      BY <2>7, <2>8
    <3> QED BY <1>11, <3>1, <3>2
  <2>10. PICK l \in 1..Len(D) : D[l] = new[k]
    <3> HIDE DEF P
    <3> QED BY <1>10, <2>9
  <2> QED BY <2>7, <2>8, <2>10
<1> QED BY <1>10, <1>11 DEF D

LEMMA SortedByTag ==
  ASSUME NEW s \in Seq(Element)
  PROVE  /\ ByTag(s) \in Seq(Element)
         /\ \A k \in 1..Len(s) : s[k].tag \in ToSet(DepTags) =>
              \E l \in 1..Len(ByTag(s)) : ByTag(s)[l] = s[k]
<1> DEFINE P(t) == {n \in DOMAIN s : s[n].tag = DepTags[t]}
           ss == [t \in DOMAIN DepTags |-> Keep(s, P(t))]
<1>1. DOMAIN DepTags = 1..Len(DepTags) /\ Len(DepTags) \in Nat
  BY DEF DepTags
<1>2. \A t \in 1..Len(DepTags) :
        /\ Keep(s, P(t)) \in Seq(Element)
        /\ \A a \in P(t) : \E k \in 1..Len(Keep(s, P(t))) : Keep(s, P(t))[k] = s[a]
  <2> TAKE t \in 1..Len(DepTags)
  <2>1. P(t) \in SUBSET (1..Len(s))
    OBVIOUS
  <2> HIDE DEF P
  <2> QED BY <2>1, Selected
<1>3. ByTag(s) = FlattenSeq(ss)
  BY DEF ByTag
<1>4. ss \in Seq(Seq(Element)) /\ Len(ss) = Len(DepTags)
  <2>1. /\ DOMAIN ss = 1..Len(DepTags)
        /\ ss = [t \in 1..Len(DepTags) |-> ss[t]]
        /\ \A t \in 1..Len(DepTags) : ss[t] = Keep(s, P(t))
    BY <1>1
  <2>2. \A t \in 1..Len(DepTags) : ss[t] \in Seq(Element)
    <3> HIDE DEF ss, P
    <3> QED BY <1>2, <2>1
  <2> HIDE DEF ss
  <2> QED BY <1>1, <2>1, <2>2, Mapped
<1>5. ByTag(s) \in Seq(Element) /\ \A t \in 1..Len(ss) : Holds(ByTag(s), ss[t])
  <2> HIDE DEF ss
  <2> QED BY <1>3, <1>4, Flattened
<1>6. ASSUME NEW k \in 1..Len(s), s[k].tag \in ToSet(DepTags)
      PROVE  \E l \in 1..Len(ByTag(s)) : ByTag(s)[l] = s[k]
  <2>1. PICK t \in 1..Len(DepTags) : s[k].tag = DepTags[t]
    BY <1>1, <1>6 DEF ToSet
  <2>2. k \in P(t)
    BY <2>1
  <2>3. ss[t] = Keep(s, P(t)) /\ t \in 1..Len(ss)
    BY <1>1, <1>4
  <2> HIDE DEF P, ss
  <2>4. PICK m \in 1..Len(ss[t]) : ss[t][m] = s[k]
    BY <1>2, <2>2, <2>3
  <2> QED BY <1>5, <2>3, <2>4 DEF Holds
<1> QED BY <1>5, <1>6

\* No package with an upstream repository is left out, and none has an empty one.
LEMMA UpstreamsAreScanned ==
  ASSUME NEW name \in DOMAIN RosUpstreamRepos
  PROVE  /\ name \notin InternalPackages \cup BuildToolPackages \cup {""}
         /\ Upstream(name) = RosUpstreamRepos[name] /\ Upstream(name) # NoRepo
<1>1. name \in {"geometry_msgs", "std_srvs", "sensor_msgs", "diagnostic_msgs", "std_msgs", "rclpy",
                "launch", "launch_ros", "example_interfaces"}
  BY DEF RosUpstreamRepos
<1>2. name \notin InternalPackages \cup BuildToolPackages \cup {""}
  BY <1>1 DEF InternalPackages, BuildToolPackages
<1> DEFINE common == "ros2/common_interfaces"
<1>3. /\ RosUpstreamRepos.geometry_msgs = common /\ RosUpstreamRepos.std_srvs = common
      /\ RosUpstreamRepos.sensor_msgs = common /\ RosUpstreamRepos.diagnostic_msgs = common
      /\ RosUpstreamRepos.std_msgs = common
      /\ RosUpstreamRepos.rclpy = "ros2/rclpy" /\ RosUpstreamRepos.launch = "ros2/launch"
      /\ RosUpstreamRepos.launch_ros = "ros2/launch_ros"
      /\ RosUpstreamRepos.example_interfaces = "ros2/example_interfaces"
  BY DEF RosUpstreamRepos
<1>4. RosUpstreamRepos[name] # ""
  BY <1>1, <1>3
<1> QED BY <1>2, <1>4 DEF Upstream, NoRepo

\* A package with an upstream repository, and that the repository is asked about.
LEMMA RosDeps ==
  ASSUME NEW fs \in Seq(FileOf(Element))
  PROVE  /\ PackageXmlDeps(fs) \in Seq(Ros)
         /\ \A p \in ItemSet(fs) :
              p.tag \in ToSet(DepTags) /\ p.name \in DOMAIN RosUpstreamRepos =>
                \E k \in 1..Len(PackageXmlDeps(fs)) : PackageXmlDeps(fs)[k].name = p.name
<1> DEFINE sorted == [f \in DOMAIN fs |-> [fs[f] EXCEPT !.items = ByTag(@)]]
           items == Items(sorted)
           others == InternalPackages \cup BuildToolPackages \cup {""}
           Q == {n \in DOMAIN items : items[n].name \notin others}
           scanned == Keep(items, Q)
           all == [n \in DOMAIN scanned |->
                     Dep("ROS", scanned[n].name, NoVersion, Upstream(scanned[n].name))]
           key == [n \in DOMAIN all |-> all[n].name]
           D == PackageXmlDeps(fs)
<1>1. D = KeepFirst(all, key)
  BY DEF PackageXmlDeps
<1>2. /\ DOMAIN fs = 1..Len(fs) /\ Len(fs) \in Nat
      /\ \A f \in 1..Len(fs) : /\ fs[f] \in FileOf(Element) /\ fs[f].items \in Seq(Element)
                               /\ sorted[f].readable = fs[f].readable
                               /\ sorted[f].items = ByTag(fs[f].items)
  <2>1. DOMAIN fs = 1..Len(fs) /\ Len(fs) \in Nat /\ \A f \in 1..Len(fs) : fs[f] \in FileOf(Element)
    OBVIOUS
  <2>2. \A x \in FileOf(Element) :
          /\ x.items \in Seq(Element)
          /\ LET y == [x EXCEPT !.items = ByTag(@)]
             IN y.readable = x.readable /\ y.items = ByTag(x.items)
    BY DEF FileOf
  <2>3. \A f \in 1..Len(fs) : sorted[f] = [fs[f] EXCEPT !.items = ByTag(@)]
    BY <2>1
  <2> HIDE DEF sorted
  <2> QED BY <2>1, <2>2, <2>3
<1>3. sorted \in Seq(FileOf(Element)) /\ Len(sorted) = Len(fs)
  <2>1. \A f \in 1..Len(fs) : sorted[f] \in FileOf(Element)
    <3> TAKE f \in 1..Len(fs)
    <3>1. ByTag(fs[f].items) \in Seq(Element)
      BY <1>2, SortedByTag
    <3>2. sorted[f] = [fs[f] EXCEPT !.items = ByTag(fs[f].items)]
      BY <1>2
    <3>3. fs[f] \in FileOf(Element)
      BY <1>2
    <3> HIDE DEF sorted
    <3> QED BY <3>1, <3>2, <3>3 DEF FileOf
  <2>2. DOMAIN sorted = 1..Len(fs) /\ sorted = [f \in 1..Len(fs) |-> sorted[f]]
    BY <1>2
  <2> HIDE DEF sorted
  <2> QED BY <1>2, <2>1, <2>2, Mapped
<1>4. ASSUME NEW p \in ItemSet(fs), p.tag \in ToSet(DepTags) PROVE p \in ItemSet(sorted)
  <2>1. PICK f \in 1..Len(fs) : fs[f].readable /\ p \in ToSet(fs[f].items)
    BY <1>2, <1>4 DEF ItemSet
  <2>2. PICK k \in 1..Len(fs[f].items) : fs[f].items[k] = p
    BY <1>2, <2>1 DEF ToSet
  <2>3. PICK l \in 1..Len(ByTag(fs[f].items)) : ByTag(fs[f].items)[l] = p
    BY <1>2, <1>4, <2>2, SortedByTag
  <2>4. f \in DOMAIN sorted /\ sorted[f].readable /\ sorted[f].items = ByTag(fs[f].items)
    BY <1>2, <2>1
  <2>5. ByTag(fs[f].items) \in Seq(Element)
    BY <1>2, SortedByTag
  <2>6. p \in ToSet(ByTag(fs[f].items))
    BY <2>3, <2>5 DEF ToSet
  <2> HIDE DEF sorted
  <2> QED BY <2>4, <2>6 DEF ItemSet
<1> HIDE DEF sorted
<1>5. /\ items \in Seq(Element)
      /\ \A x \in ItemSet(sorted) : \E k \in 1..Len(items) : items[k] = x
  BY <1>3, ItemsOfFiles
<1> HIDE DEF items, D, others
<1>6. Q \in SUBSET (1..Len(items))
  BY <1>5
<1>7. scanned \in Seq(Element) /\ \A a \in Q : \E k \in 1..Len(scanned) : scanned[k] = items[a]
  <2> HIDE DEF Q
  <2> QED BY <1>5, <1>6, Selected
<1> HIDE DEF scanned
<1>8. DOMAIN scanned = 1..Len(scanned) /\ Len(scanned) \in Nat
  BY <1>7
<1>9. all \in Seq(Ros) /\ Len(all) = Len(scanned) /\ DOMAIN all = 1..Len(scanned)
  <2>1. \A n \in 1..Len(scanned) : all[n] \in Ros
    <3> TAKE n \in 1..Len(scanned)
    <3>0. scanned[n] \in Element
      BY <1>7
    <3>1. scanned[n].name \in STRING /\ NoVersion \in Version
      BY <3>0 DEF Element, Version
    <3>2. Upstream(scanned[n].name) \in Repo
      BY DEF Repo, Upstream
    <3>3. all[n] = Dep("ROS", scanned[n].name, NoVersion, Upstream(scanned[n].name))
      BY <1>8
    <3> HIDE DEF all
    <3> QED BY <3>1, <3>2, <3>3, DepFields DEF Ros
  <2>2. DOMAIN all = 1..Len(scanned) /\ all = [n \in 1..Len(scanned) |-> all[n]]
    BY <1>8
  <2> HIDE DEF all
  <2> QED BY <1>8, <2>1, <2>2, Mapped
<1>10. /\ D \in Seq(Ros)
       /\ \A a \in 1..Len(all) : \E b \in 1..Len(all) :
            key[b] = key[a] /\ \E k \in 1..Len(D) : D[k] = all[b]
  <2> DEFINE new == KeepFirst(all, key)
  <2> HIDE DEF all, key
  <2>1. /\ new \in Seq(Ros)
        /\ \A a \in 1..Len(all) : \E b \in 1..Len(all) :
             key[b] = key[a] /\ \E k \in 1..Len(new) : new[k] = all[b]
    BY <1>9, FirstOfKey
  <2> HIDE DEF new
  <2>2. D = new
    BY <1>1 DEF new
  <2> QED BY <2>1, <2>2
<1>11. \A a \in 1..Len(all) : key[a] = all[a].name
  <2> HIDE DEF all
  <2> QED BY <1>9
<1> HIDE DEF key
<1>12. ASSUME NEW p \in ItemSet(fs), p.tag \in ToSet(DepTags), p.name \in DOMAIN RosUpstreamRepos
       PROVE  \E k \in 1..Len(D) : D[k].name = p.name
  <2>1. PICK a \in 1..Len(items) : items[a] = p
    BY <1>4, <1>5, <1>12
  <2>2. a \in Q
    <3>1. p.name \notin others
      BY <1>12, UpstreamsAreScanned DEF others
    <3>2. a \in DOMAIN items
      BY <1>5
    <3> QED BY <2>1, <3>1, <3>2
  <2>3. PICK n \in 1..Len(scanned) : scanned[n] = p
    <3> HIDE DEF Q
    <3> QED BY <1>7, <2>1, <2>2
  <2>4. all[n] = Dep("ROS", p.name, NoVersion, Upstream(p.name)) /\ n \in 1..Len(all)
    BY <1>8, <1>9, <2>3
  <2>5. all[n].name = p.name
    <3> HIDE DEF all
    <3> QED BY <2>4, DepFields
  <2> HIDE DEF all
  <2>6. PICK b \in 1..Len(all) : key[b] = key[n] /\ \E k \in 1..Len(D) : D[k] = all[b]
    BY <1>10, <2>4
  <2>7. all[b].name = p.name
    BY <1>11, <2>4, <2>5, <2>6
  <2> QED BY <2>6, <2>7
<1> QED BY <1>10, <1>12 DEF D

\* Packages with an upstream repository are ROS packages and come last.
RosLast(seq) == \A k, l \in 1..Len(seq) :
                  k <= l /\ seq[k].upstream # NoRepo => seq[l].ecosystem = "ROS"

LEMMA RosBehind ==
  ASSUME NEW s \in Seq(Python \cup Crates), NEW t \in Seq(Ros)
  PROVE  /\ s \o t \in Seq(Python \cup Crates \cup Ros)
         /\ RosLast(s \o t) /\ Holds(s \o t, s) /\ Holds(s \o t, t)
<1> DEFINE v == s \o t
           All == Python \cup Crates \cup Ros
<1>1. s \in Seq(All) /\ t \in Seq(All)
  OBVIOUS
<1>2. v \in Seq(All) /\ Holds(v, s) /\ Holds(v, t)
  <2> HIDE DEF All
  <2> QED BY <1>1, Joined
<1>3. /\ Len(v) = Len(s) + Len(t) /\ Len(s) \in Nat /\ Len(t) \in Nat
      /\ \A k \in 1..Len(v) : v[k] = IF k <= Len(s) THEN s[k] ELSE t[k - Len(s)]
  OBVIOUS
<1> HIDE DEF v
<1>4. RosLast(v)
  <2> SUFFICES ASSUME NEW k \in 1..Len(v), NEW l \in 1..Len(v), k <= l, v[k].upstream # NoRepo
               PROVE  v[l].ecosystem = "ROS"
    BY DEF RosLast
  <2>1. ~(k <= Len(s))
    <3> SUFFICES ASSUME k <= Len(s) PROVE FALSE
      OBVIOUS
    <3>1. s[k] \in Python \cup Crates /\ v[k] = s[k]
      BY <1>3
    <3> QED BY <3>1 DEF Python, Crates
  <2>2. l - Len(s) \in 1..Len(t) /\ v[l] = t[l - Len(s)]
    BY <1>3, <2>1
  <2>3. v[l] \in Ros
    BY <2>2
  <2> QED BY <2>3 DEF Ros
<1> QED BY <1>2, <1>4 DEF v

\* What run_scan looks up: everything that the files declare.
LEMMA EverythingIsLookedUp ==
  ASSUME NEW r \in Repository
  PROVE  /\ AllDeps(r) \in Seq(Dependency) /\ RosLast(AllDeps(r))
         /\ \A p \in DeclaredPython(r) : \E k \in 1..Len(AllDeps(r)) :
              /\ AllDeps(r)[k].ecosystem = "PyPI"
              /\ Normalised(AllDeps(r)[k].name) = p[1] /\ AllDeps(r)[k].version = p[2]
         /\ \A c \in DeclaredCrates(r) : \E k \in 1..Len(AllDeps(r)) :
              /\ AllDeps(r)[k].ecosystem = "crates.io"
              /\ AllDeps(r)[k].name = c[1] /\ AllDeps(r)[k].version = c[2]
         /\ \A repo \in DeclaredUpstream(r) :
              \E k \in 1..Len(AllDeps(r)) : AllDeps(r)[k].upstream = repo
<1> DEFINE S == SetupPyDeps(r.setup)
           C == CargoLockDeps(r.cargo)
           X == PackageXmlDeps(r.packages)
           all == S \o C \o X
           key == [n \in DOMAIN all |-> <<all[n].ecosystem, all[n].name, all[n].version>>]
           D == AllDeps(r)
           AnyKind == Python \cup Crates \cup Ros
<1>1. D = KeepFirst(all, key)
  BY DEF AllDeps, DeduplicateDeps
<1>2. /\ r.setup \in Seq(FileOf(Requirement)) /\ r.cargo \in Seq(FileOf(LockedCrate))
      /\ r.packages \in Seq(FileOf(Element))
  BY DEF Repository
<1>3. /\ S \in Seq(Python)
      /\ \A q \in ItemSet(r.setup) : Normalised(q.name) \notin InternalPackages =>
           \E k \in 1..Len(S) : /\ Normalised(S[k].name) = Normalised(q.name)
                                /\ S[k].version = FirstVersion(q)
  BY <1>2, PythonDeps
<1>4. /\ C \in Seq(Crates)
      /\ \A c \in ItemSet(r.cargo) : c.version # NoVersion /\ c.name \notin InternalPackages =>
           \E k \in 1..Len(C) : C[k].name = c.name /\ C[k].version = c.version
  BY <1>2, CrateDeps
<1>5. /\ X \in Seq(Ros)
      /\ \A p \in ItemSet(r.packages) :
           p.tag \in ToSet(DepTags) /\ p.name \in DOMAIN RosUpstreamRepos =>
             \E k \in 1..Len(X) : X[k].name = p.name
  BY <1>2, RosDeps
<1> HIDE DEF S, C, X, D
<1>6. /\ all \in Seq(AnyKind) /\ RosLast(all)
      /\ Holds(all, S) /\ Holds(all, C) /\ Holds(all, X)
  <2> DEFINE T == Python \cup Crates
             u == S \o C
  <2>1. S \in Seq(T) /\ C \in Seq(T)
    BY <1>3, <1>4
  <2>2. u \in Seq(T) /\ Holds(u, S) /\ Holds(u, C)
    <3> HIDE DEF T
    <3> QED BY <2>1, Joined
  <2> HIDE DEF u
  <2>3. /\ u \o X \in Seq(AnyKind) /\ RosLast(u \o X) /\ Holds(u \o X, u) /\ Holds(u \o X, X)
    BY <1>5, <2>2, RosBehind
  <2>4. u \in Seq(AnyKind) /\ X \in Seq(AnyKind)
    BY <1>5, <2>2
  <2>5. \A w : Holds(u, w) => Holds(u \o X, w)
    <3> HIDE DEF AnyKind
    <3> QED BY <2>4, Joined
  <2> QED BY <2>2, <2>3, <2>5 DEF u
<1> HIDE DEF all
<1>7. /\ D \in Seq(AnyKind) /\ InOrder(D, all, 1..Len(all), Len(all))
      /\ \A a \in 1..Len(all) : \E b \in 1..Len(all) :
           key[b] = key[a] /\ \E k \in 1..Len(D) : D[k] = all[b]
  <2> HIDE DEF key, AnyKind
  <2> QED BY <1>1, <1>6, FirstOfKey
<1>8. ASSUME NEW a \in 1..Len(all)
      PROVE  \E k \in 1..Len(D) : /\ D[k].ecosystem = all[a].ecosystem
                                  /\ D[k].name = all[a].name /\ D[k].version = all[a].version
  <2>1. PICK b \in 1..Len(all) : key[b] = key[a] /\ \E k \in 1..Len(D) : D[k] = all[b]
    BY <1>7
  <2>2. /\ key[b] = <<all[b].ecosystem, all[b].name, all[b].version>>
        /\ key[a] = <<all[a].ecosystem, all[a].name, all[a].version>>
    <3>1. DOMAIN all = 1..Len(all)
      <4> HIDE DEF AnyKind
      <4> QED BY <1>6
    <3> QED BY <3>1
  <2> HIDE DEF key
  <2>3. <<all[b].ecosystem, all[b].name, all[b].version>>
          = <<all[a].ecosystem, all[a].name, all[a].version>>
    BY <2>1, <2>2, Zenon
  <2>4. /\ all[b].ecosystem = all[a].ecosystem
        /\ all[b].name = all[a].name /\ all[b].version = all[a].version
    BY <2>3
  <2> QED BY <2>1, <2>4
<1> HIDE DEF key
<1>9. \A s : \A k \in 1..Len(s) : Holds(all, s) =>
        \E l \in 1..Len(D) : /\ D[l].ecosystem = s[k].ecosystem
                             /\ D[l].name = s[k].name /\ D[l].version = s[k].version
  <2> SUFFICES ASSUME NEW s, NEW k \in 1..Len(s), Holds(all, s)
               PROVE  \E l \in 1..Len(D) : /\ D[l].ecosystem = s[k].ecosystem
                                           /\ D[l].name = s[k].name
                                           /\ D[l].version = s[k].version
    OBVIOUS
  <2>1. PICK a \in 1..Len(all) : all[a] = s[k]
    BY DEF Holds
  <2> QED BY <1>8, <2>1
<1>10. \A p \in DeclaredPython(r) : \E k \in 1..Len(D) :
         D[k].ecosystem = "PyPI" /\ Normalised(D[k].name) = p[1] /\ D[k].version = p[2]
  <2> TAKE p \in DeclaredPython(r)
  <2>1. PICK q \in ItemSet(r.setup) : /\ Normalised(q.name) \notin InternalPackages
                                      /\ p = <<Normalised(q.name), FirstVersion(q)>>
    BY DEF DeclaredPython
  <2>2. PICK k \in 1..Len(S) : /\ Normalised(S[k].name) = Normalised(q.name)
                               /\ S[k].version = FirstVersion(q)
    BY <1>3, <2>1
  <2>3. S[k].ecosystem = "PyPI"
    <3>1. S[k] \in Python
      BY <1>3
    <3> QED BY <3>1 DEF Python
  <2>4. PICK l \in 1..Len(D) : /\ D[l].ecosystem = S[k].ecosystem
                               /\ D[l].name = S[k].name /\ D[l].version = S[k].version
    BY <1>6, <1>9
  <2>5. p[1] = Normalised(q.name) /\ p[2] = FirstVersion(q)
    BY <2>1
  <2> QED BY <2>2, <2>3, <2>4, <2>5
<1>11. \A c \in DeclaredCrates(r) : \E k \in 1..Len(D) :
         D[k].ecosystem = "crates.io" /\ D[k].name = c[1] /\ D[k].version = c[2]
  <2> TAKE c \in DeclaredCrates(r)
  <2>1. PICK q \in ItemSet(r.cargo) : /\ q.version # NoVersion /\ q.name \notin InternalPackages
                                      /\ c = <<q.name, q.version>>
    BY DEF DeclaredCrates, NoVersion
  <2>2. PICK k \in 1..Len(C) : C[k].name = q.name /\ C[k].version = q.version
    BY <1>4, <2>1
  <2>3. C[k].ecosystem = "crates.io"
    <3>1. C[k] \in Crates
      BY <1>4
    <3> QED BY <3>1 DEF Crates
  <2>4. PICK l \in 1..Len(D) : /\ D[l].ecosystem = C[k].ecosystem
                               /\ D[l].name = C[k].name /\ D[l].version = C[k].version
    BY <1>6, <1>9
  <2>5. c[1] = q.name /\ c[2] = q.version
    BY <2>1
  <2> QED BY <2>2, <2>3, <2>4, <2>5
<1>12. \A repo \in DeclaredUpstream(r) : \E k \in 1..Len(D) : D[k].upstream = repo
  <2> TAKE repo \in DeclaredUpstream(r)
  <2>1. PICK p \in ItemSet(r.packages) :
          /\ p.tag \in ToSet(DepTags) /\ p.name \in DOMAIN RosUpstreamRepos
          /\ repo = RosUpstreamRepos[p.name]
    BY DEF DeclaredUpstream
  <2>2. PICK k \in 1..Len(X) : X[k].name = p.name
    BY <1>5, <2>1
  <2>3. X[k].ecosystem = "ROS"
    <3>1. X[k] \in Ros
      BY <1>5
    <3> QED BY <3>1 DEF Ros
  <2>4. PICK l \in 1..Len(D) : D[l].ecosystem = X[k].ecosystem /\ D[l].name = X[k].name
    BY <1>6, <1>9
  <2>5. D[l].upstream = Upstream(D[l].name)
    <3>1. D[l] \in AnyKind
      <4> HIDE DEF AnyKind
      <4> QED BY <1>7
    <3> QED BY <2>3, <2>4, <3>1 DEF Python, Crates, Ros
  <2>6. Upstream(p.name) = RosUpstreamRepos[p.name]
    BY <2>1, UpstreamsAreScanned
  <2> QED BY <2>1, <2>2, <2>4, <2>5, <2>6
<1>13. D \in Seq(Dependency)
  <2>1. AnyKind \subseteq Dependency
    BY DEF Python, Crates, Ros
  <2> HIDE DEF AnyKind
  <2> QED BY <1>7, <2>1
<1>14. RosLast(D)
  <2> SUFFICES ASSUME NEW k \in 1..Len(D), NEW l \in 1..Len(D), k <= l, D[k].upstream # NoRepo
               PROVE  D[l].ecosystem = "ROS"
    BY DEF RosLast
  <2>1. PICK a \in 1..Len(all), b \in 1..Len(all) : a <= b /\ D[k] = all[a] /\ D[l] = all[b]
    <3>1. InOrder(D, all, 1..Len(all), Len(all))
      BY <1>7
    <3> QED BY <3>1 DEF InOrder
  <2> QED BY <1>6, <2>1 DEF RosLast
<1> QED BY <1>10, <1>11, <1>12, <1>13, <1>14 DEF D

-----------------------------------------------------------------------------
(* Types *)

LEMMA ScoresAreScores ==
  ASSUME world \in Worlds, NEW id \in VulnId, NEW full \in BOOLEAN
  PROVE  CvssScores(id, full) \subseteq Score
<1>1. world.vuln[id].page \in Score \cup {NoScore} /\ world.vuln[id].rest \in Score \cup {NoScore}
  BY ScannerAssumption
<1>2. OfficialScores(id) \subseteq Score \cup {NoScore}
  BY <1>1 DEF OfficialScores, Score, NoScore
<1>3. \A label \in DOMAIN LabelScores : LabelScores[label] \in Score
  BY DEF LabelScores, Score
<1>4. 0 \in Score
  BY DEF Score
<1> QED BY <1>2, <1>3, <1>4 DEF CvssScores

\* The dependency and the label of a vulnerability put its row in the report.
LEMMA RowsCover ==
  ASSUME NEW vulns, vulns \subseteq Vulnerability
  PROVE  vulns = UNION {Report(vulns).rows[e] : e \in DOMAIN Report(vulns).rows}
<1>1. \A v \in vulns : Ecosystem(v) \in {"PyPI", "crates.io", "ROS"}
  BY DEF Ecosystem, Vulnerability, Dependency
<1> QED BY <1>1 DEF Report

LEMMA ReportFields ==
  ASSUME NEW vulns
  PROVE  Report(vulns).total = vulns /\ Report(vulns).critical = High(vulns)
BY DEF Report

LEMMA FiveEndpoints == Len(Endpoints) = 5
BY DEF Endpoints

LEMMA NothingYet ==
  /\ <<>> \in Seq(Dependency) /\ 1 \in 1..(Len(<<>>) + 1)
  /\ 0 \in 0..Len(Endpoints)
BY FiveEndpoints

\* Between two scans the variables of the scan are as at the beginning.
AtRest == pc = "idle" =>
  i = 1 /\ asked = 0 /\ advisories = {} /\ found = {} /\ deps = <<>>

TypeInv == TypeOK /\ AtRest

LEMMA InitType == Init => TypeInv
<1> SUFFICES ASSUME Init PROVE TypeInv
  OBVIOUS
<1>1. results \in [1..Len(deps) -> SUBSET Entry]
  BY DEF Init, NoResults
<1>2. deps \in Seq(Dependency) /\ i \in 1..(Len(deps) + 1)
  <2>1. deps = <<>> /\ i = 1
    BY DEF Init
  <2> QED BY <2>1
<1>3. asked \in 0..Len(Endpoints)
  <2>1. asked = 0
    BY DEF Init
  <2> QED BY <2>1, FiveEndpoints
<1> QED BY <1>1, <1>2, <1>3 DEF Init, TypeInv, TypeOK, AtRest

LEMMA ForgetType ==
  ASSUME TypeInv, Forget, alert' \subseteq Vulnerability, output' \in {"", "true", "false"},
         UNCHANGED <<repository, world>>
  PROVE  TypeInv'
<1>1. results' \in [1..Len(deps') -> SUBSET Entry]
  BY DEF Forget, NoResults
<1>2. deps' = <<>> /\ i' = 1 /\ asked' = 0
  BY DEF Forget
<1>3. /\ deps' \in Seq(Dependency) /\ i' \in 1..(Len(deps') + 1)
      /\ asked' \in 0..Len(Endpoints)
  BY <1>2, NothingYet, Zenon
<1> QED BY <1>1, <1>2, <1>3 DEF Forget, TypeInv, TypeOK, AtRest

\* What is listed are ids, of OSV and of GitHub.
LEMMA ListsAreIds ==
  ASSUME world \in Worlds
  PROVE  /\ \A dep : OsvLists(dep) \subseteq VulnId
         /\ \A repo, e : GithubLists(repo, e) \subseteq VulnId
BY ScannerAssumption DEF OsvLists, OsvMatches, Affected, Ids, GithubLists

\* The queries are those of the dependencies that OSV can know: each has one, and
\* each query is that of the dependency whose index is kept for it.
LEMMA QueriesFit ==
  ASSUME NEW S, deps \in Seq(S)
  PROVE  /\ QueryIndices \in Seq(1..Len(deps))
         /\ DOMAIN Queries = 1..Len(QueryIndices) /\ Len(Queries) = Len(QueryIndices)
         /\ Len(QueryIndices) \in Nat
         /\ \A j \in 1..Len(QueryIndices) :
              /\ QueryIndices[j] \in 1..Len(deps)
              /\ OsvMatches(Queries[j]) = OsvLists(deps[QueryIndices[j]])
         /\ \A d \in 1..Len(deps) : deps[d].ecosystem \in OsvEcosystems =>
              \E j \in 1..Len(QueryIndices) : QueryIndices[j] = d
<1> DEFINE places == [d \in DOMAIN deps |-> d]
<1>1. DOMAIN deps = 1..Len(deps) /\ Len(deps) \in Nat
  OBVIOUS
<1>2. places \in Seq(1..Len(deps)) /\ Len(places) = Len(deps)
  BY <1>1
<1>3. KnownToOsv \in SUBSET (1..Len(places))
  BY <1>1, <1>2 DEF KnownToOsv
<1>4. \A d \in 1..Len(deps) : places[d] = d
  BY <1>1
<1>q. QueryIndices = Keep(places, KnownToOsv)
  BY DEF QueryIndices
<1> DEFINE known == Keep(deps, KnownToOsv)
<1>r. /\ Len(QueryIndices) = Len(known) /\ known \in Seq(S)
      /\ \A j \in 1..Len(known) : known[j] = deps[QueryIndices[j]]
  <2>1. KnownToOsv \in SUBSET (1..Len(deps))
    BY <1>1 DEF KnownToOsv
  <2>2. known \in Seq(S)
    BY <2>1, Selected
  <2>3. /\ Len(Keep(places, KnownToOsv)) = Len(Keep(deps, KnownToOsv))
        /\ \A j \in 1..Len(Keep(deps, KnownToOsv)) :
             Keep(deps, KnownToOsv)[j] = deps[Keep(places, KnownToOsv)[j]]
    BY <1>2, <1>4, <2>1, KeptTogether
  <2> QED BY <1>q, <2>2, <2>3
<1>s. Queries = [j \in DOMAIN known |-> OsvQuery(known[j])]
  BY DEF Queries
<1> HIDE DEF known
<1> HIDE DEF places
<1>5. /\ QueryIndices \in Seq(1..Len(deps))
      /\ \A k \in 1..Len(QueryIndices) : \E a \in KnownToOsv : QueryIndices[k] = places[a]
      /\ \A a \in KnownToOsv : \E k \in 1..Len(QueryIndices) : QueryIndices[k] = places[a]
  BY <1>2, <1>3, <1>q, Selected
<1>6. Len(QueryIndices) \in Nat /\ DOMAIN QueryIndices = 1..Len(QueryIndices)
  BY <1>5
<1>7. DOMAIN Queries = 1..Len(QueryIndices) /\ Len(Queries) = Len(QueryIndices)
  BY <1>6, <1>r, <1>s
<1>8. ASSUME NEW j \in 1..Len(QueryIndices)
      PROVE  /\ QueryIndices[j] \in 1..Len(deps)
             /\ OsvMatches(Queries[j]) = OsvLists(deps[QueryIndices[j]])
  <2>1. PICK a \in KnownToOsv : QueryIndices[j] = places[a]
    BY <1>5
  <2>2. QueryIndices[j] = a /\ a \in 1..Len(deps)
    BY <1>2, <1>3, <1>4, <2>1
  <2>3. deps[QueryIndices[j]].ecosystem \in OsvEcosystems
    BY <2>1, <2>2 DEF KnownToOsv
  <2>4. Queries[j] = OsvQuery(deps[QueryIndices[j]])
    BY <1>6, <1>r, <1>s
  <2> QED BY <2>2, <2>3, <2>4 DEF OsvLists
<1>9. ASSUME NEW d \in 1..Len(deps), deps[d].ecosystem \in OsvEcosystems
      PROVE  \E j \in 1..Len(QueryIndices) : QueryIndices[j] = d
  <2>1. d \in KnownToOsv
    BY <1>1, <1>9 DEF KnownToOsv
  <2> QED BY <1>4, <1>5, <2>1
<1> QED BY <1>5, <1>6, <1>7, <1>8, <1>9

\* What the batch gives a dependency is known of it, and a whole answer gives it all.
LEMMA BatchFits ==
  ASSUME NEW S, deps \in Seq(S), QueryOsvBatch
  PROVE  /\ \A d \in 1..Len(deps) : \A e \in results'[d] :
              e.id \in OsvLists(deps[d]) /\ e.detail = "stub"
         /\ \A d \in 1..Len(deps) : \A e \in results'[d] : e = [id |-> e.id, detail |-> e.detail]
         /\ DOMAIN results' = 1..Len(deps)
         /\ whole' => \A d \in 1..Len(deps) : OsvLists(deps[d]) \subseteq Ids(results'[d])
<1>1. PICK answer \in OsvAnswers(Queries) :
        /\ results' = [d \in 1..Len(deps) |->
             [id : UNION {answer[j] : j \in {j \in DOMAIN answer : QueryIndices[j] = d}},
              detail : {"stub"}]]
        /\ whole' = (whole /\ answer = WholeAnswer(Queries))
  BY DEF QueryOsvBatch
<1> DEFINE given(d) == UNION {answer[j] : j \in {j \in DOMAIN answer : QueryIndices[j] = d}}
<1>2. \A d \in 1..Len(deps) : results'[d] = [id : given(d), detail : {"stub"}]
  BY <1>1
<1>3. DOMAIN results' = 1..Len(deps)
  BY <1>1
<1>4. /\ DOMAIN answer \subseteq 1..Len(QueryIndices)
      /\ \A j \in DOMAIN answer : answer[j] \subseteq OsvMatches(Queries[j])
  <2>1. PICK n \in 0..Len(Queries) : \E part : answer = Given(Queries, n, part)
    BY DEF OsvAnswers
  <2>2. PICK part :
          answer = [j \in 1..n |-> {id \in OsvMatches(Queries[j]) : <<j, id>> \in part}]
    BY <2>1 DEF Given
  <2>3. n <= Len(QueryIndices) /\ n \in Nat /\ Len(QueryIndices) \in Nat
    BY <2>1, QueriesFit
  <2>4. DOMAIN answer = 1..n
    BY <2>2
  <2>5. \A j \in 1..n : j \in 1..Len(QueryIndices)
    BY <2>3
  <2>6. \A j \in 1..n : answer[j] \subseteq OsvMatches(Queries[j])
    BY <2>2
  <2> QED BY <2>4, <2>5, <2>6
<1>5. \A d \in 1..Len(deps) : given(d) \subseteq OsvLists(deps[d])
  <2> TAKE d \in 1..Len(deps)
  <2>1. ASSUME NEW id \in given(d)
        PROVE  id \in OsvLists(deps[d])
    <3>1. PICK j \in DOMAIN answer : QueryIndices[j] = d /\ id \in answer[j]
      OBVIOUS
    <3>2. j \in 1..Len(QueryIndices) /\ id \in OsvMatches(Queries[j])
      BY <1>4, <3>1
    <3> QED BY <3>1, <3>2, QueriesFit
  <2> QED BY <2>1
<1>6. ASSUME whole', NEW d \in 1..Len(deps), NEW id \in OsvLists(deps[d])
      PROVE  id \in given(d)
  <2>1. answer = WholeAnswer(Queries)
    BY <1>1, <1>6
  <2>2. deps[d].ecosystem \in OsvEcosystems
    BY <1>6 DEF OsvLists
  <2>3. PICK j \in 1..Len(QueryIndices) : QueryIndices[j] = d
    BY <2>2, QueriesFit
  <2>4. j \in DOMAIN Queries /\ OsvMatches(Queries[j]) = OsvLists(deps[d])
    BY <2>3, QueriesFit
  <2>5. j \in DOMAIN answer /\ answer[j] = OsvLists(deps[d])
    BY <2>1, <2>4 DEF WholeAnswer
  <2> QED BY <1>6, <2>3, <2>5
<1> HIDE DEF given
<1>7. ASSUME NEW d \in 1..Len(deps), NEW e \in results'[d]
      PROVE  e.id \in OsvLists(deps[d]) /\ e.detail = "stub" /\ e = [id |-> e.id, detail |-> e.detail]
  <2>1. e \in [id : given(d), detail : {"stub"}]
    BY <1>2
  <2>2. e.id \in given(d) /\ e.detail = "stub" /\ e = [id |-> e.id, detail |-> e.detail]
    BY <2>1
  <2> QED BY <1>5, <2>2
<1>9. ASSUME whole', NEW d \in 1..Len(deps)
      PROVE  OsvLists(deps[d]) \subseteq Ids(results'[d])
  <2>1. \A id \in OsvLists(deps[d]) : [id |-> id, detail |-> "stub"] \in results'[d]
    BY <1>2, <1>6, <1>9
  <2>2. \A id : [id |-> id, detail |-> "stub"].id = id
    OBVIOUS
  <2>3. \A id \in OsvLists(deps[d]) : \E x \in results'[d] : x.id = id
    BY <2>1, <2>2, Zenon
  <2> QED BY <2>3, Zenon DEF Ids
<1> QED BY <1>3, <1>7, <1>9

\* What GitHub gives for a question is listed there; a whole page is the list.
LEMMA PageFits ==
  ASSUME AskGithub
  PROVE  LET list == GithubLists(deps[i].upstream, Endpoints[asked + 1])
         IN /\ advisories \subseteq advisories' /\ advisories' \subseteq advisories \cup list
            /\ whole' => whole /\ advisories' = advisories \cup list
BY DEF AskGithub

LEMMA TypeStep == TypeInv /\ [Next]_vars => TypeInv'
<1> SUFFICES ASSUME TypeInv, [Next]_vars PROVE TypeInv'
  OBVIOUS
<1>a. /\ deps \in Seq(Dependency) /\ i \in 1..(Len(deps) + 1)
      /\ asked \in 0..Len(Endpoints) /\ (pc = "advisories" => i <= Len(deps))
      /\ results \in [1..Len(deps) -> SUBSET Entry]
      /\ advisories \subseteq VulnId
  BY DEF TypeInv, TypeOK
<1>0. Len(deps) \in Nat /\ \A d \in 1..Len(deps) : deps[d] \in Dependency
  BY <1>a
<1>1. CASE StartScan
  <2>1. deps' \in Seq(Dependency)
    <3>1. deps' = AllDeps(repository) /\ repository \in Repository
      BY <1>1, ScannerAssumption DEF StartScan, TypeInv, TypeOK
    <3> QED BY <3>1, EverythingIsLookedUp, Zenon
  <2>2. results' \in [1..Len(deps') -> SUBSET Entry]
    BY <1>1 DEF StartScan
  <2>3. i' = 1
    BY <1>1 DEF StartScan, TypeInv, AtRest
  <2>4. i' \in 1..(Len(deps') + 1)
    BY <2>1, <2>3
  <2> QED BY <1>1, <2>1, <2>2, <2>4 DEF StartScan, TypeInv, TypeOK, AtRest
<1>2. CASE QueryOsvBatch
  <2>1. results' \in [1..Len(deps) -> SUBSET Entry]
    <3>1. \A d \in 1..Len(deps) : OsvLists(deps[d]) \subseteq VulnId
      BY ListsAreIds DEF TypeInv, TypeOK
    <3>2. \A d \in 1..Len(deps) : \A e \in results'[d] :
            /\ e.id \in OsvLists(deps[d]) /\ e.detail = "stub"
            /\ e = [id |-> e.id, detail |-> e.detail]
      BY <1>2, <1>a, BatchFits
    <3>3. \A d \in 1..Len(deps) : results'[d] \subseteq Entry
      BY <3>1, <3>2 DEF Entry
    <3>4. results' = [d \in 1..Len(deps) |-> results'[d]]
      BY <1>2 DEF QueryOsvBatch
    <3> QED BY <3>3, <3>4
  <2>2. whole' \in BOOLEAN
    BY <1>2 DEF QueryOsvBatch
  <2> QED BY <1>2, <2>1, <2>2 DEF QueryOsvBatch, TypeInv, TypeOK, AtRest, files
<1>3. CASE FetchDetails
  <2>1. results' \in [1..Len(deps) -> SUBSET Entry]
    <3>0. PICK d \in 1..Len(deps) : \E e \in Stubs(d) : \E detail \in {"full", "none"} :
            results' = [results EXCEPT ![d] = (@ \ {e}) \cup {[id |-> e.id, detail |-> detail]}]
      BY <1>3 DEF FetchDetails
    <3>1. PICK e \in Stubs(d) : \E detail \in {"full", "none"} :
            results' = [results EXCEPT ![d] = (@ \ {e}) \cup {[id |-> e.id, detail |-> detail]}]
      BY <3>0
    <3>4. PICK detail \in {"full", "none"} :
            results' = [results EXCEPT ![d] = (@ \ {e}) \cup {[id |-> e.id, detail |-> detail]}]
      BY <3>1
    <3>2. [id |-> e.id, detail |-> detail] \in Entry
      <4>1. e \in Entry
        BY <1>a DEF Stubs
      <4> QED BY <4>1 DEF Entry
    <3> QED BY <3>4, <3>2 DEF TypeInv, TypeOK
  <2> QED BY <1>3, <2>1 DEF FetchDetails, TypeInv, TypeOK, AtRest, files
<1>4. CASE Enriched
  BY <1>4 DEF Enriched, TypeInv, TypeOK, AtRest, scan, files
<1>5. CASE ParseEntry
  <2>1. PICK e \in results[i] :
          /\ results' = [results EXCEPT ![i] = @ \ {e}]
          /\ \E score \in CvssScores(e.id, e.detail = "full") :
               found' = found \cup {[id |-> e.id, dep |-> deps[i], source |-> "OSV",
                                     full |-> e.detail = "full", score |-> score]}
    BY <1>5 DEF ParseEntry
  <2>a. i <= Len(deps)
    BY <1>5 DEF ParseEntry
  <2>2. i \in 1..Len(deps)
    BY <1>a, <1>0, <2>a
  <2>3. e \in Entry
    BY <2>2 DEF TypeInv, TypeOK
  <2>4. PICK score \in CvssScores(e.id, e.detail = "full") :
          found' = found \cup {[id |-> e.id, dep |-> deps[i], source |-> "OSV",
                                full |-> e.detail = "full", score |-> score]}
    BY <2>1
  <2>5. (e.detail = "full") \in BOOLEAN /\ e.id \in VulnId
    BY <2>3 DEF Entry
  <2>6. score \in Score
    BY <2>4, <2>5, ScoresAreScores DEF TypeInv, TypeOK
  <2>b. [id |-> e.id, dep |-> deps[i], source |-> "OSV", full |-> e.detail = "full",
         score |-> score] \in Vulnerability
    BY <1>0, <2>2, <2>5, <2>6, Zenon DEF Vulnerability
  <2>7. found' \subseteq Vulnerability
    BY <2>4, <2>b DEF TypeInv, TypeOK
  <2>8. results' \in [1..Len(deps) -> SUBSET Entry]
    BY <2>1 DEF TypeInv, TypeOK
  <2> QED BY <1>5, <2>7, <2>8 DEF ParseEntry, TypeInv, TypeOK, AtRest, files
<1>6. CASE NextDependency
  <2>1. /\ pc = "parse" /\ i <= Len(deps)
        /\ (pc' = "advisories" /\ i' = i) \/ (i' = i + 1 /\ pc' = "parse")
    BY <1>6 DEF NextDependency
  <2>2. i' \in 1..(Len(deps) + 1) /\ (pc' = "advisories" => i' <= Len(deps))
    BY <1>a, <1>0, <2>1
  <2> QED BY <1>6, <2>1, <2>2 DEF NextDependency, TypeInv, TypeOK, AtRest, files
<1>7. CASE AskGithub
  <2>1. advisories' \subseteq VulnId
    BY <1>7, ListsAreIds, PageFits DEF TypeInv, TypeOK
  <2>2. pc = "advisories" /\ asked < Len(Endpoints) /\ asked' = asked + 1
    BY <1>7 DEF AskGithub
  <2>3. asked' \in 0..Len(Endpoints)
    BY <1>a, <2>2, FiveEndpoints
  <2>4. whole' \in BOOLEAN
    BY <1>7 DEF AskGithub
  <2> QED BY <1>7, <2>1, <2>2, <2>3, <2>4 DEF AskGithub, TypeInv, TypeOK, AtRest, files
<1>8. CASE ParseAdvisory
  <2>1. PICK id \in advisories :
          /\ advisories' = advisories \ {id}
          /\ \/ UNCHANGED found
             \/ \E score \in CvssScores(id, TRUE) :
                  found' = found \cup {[id |-> id, dep |-> deps[i], source |-> "GitHub",
                                        full |-> TRUE, score |-> score]}
    BY <1>8 DEF ParseAdvisory
  <2>a. pc = "advisories"
    BY <1>8 DEF ParseAdvisory
  <2>2. i \in 1..Len(deps) /\ id \in VulnId
    BY <1>a, <1>0, <2>a
  <2>3. CvssScores(id, TRUE) \subseteq Score
    BY <2>2, ScoresAreScores DEF TypeInv, TypeOK
  <2>b. \A score \in Score :
          [id |-> id, dep |-> deps[i], source |-> "GitHub", full |-> TRUE, score |-> score]
             \in Vulnerability
    BY <1>0, <2>2, Zenon DEF Vulnerability
  <2>4. found' \subseteq Vulnerability
    <3>1. found \subseteq Vulnerability
      BY DEF TypeInv, TypeOK
    <3>2. CASE \E score \in CvssScores(id, TRUE) :
                 found' = found \cup {[id |-> id, dep |-> deps[i], source |-> "GitHub",
                                       full |-> TRUE, score |-> score]}
      <4>1. PICK score \in CvssScores(id, TRUE) :
              found' = found \cup {[id |-> id, dep |-> deps[i], source |-> "GitHub",
                                    full |-> TRUE, score |-> score]}
        BY <3>2
      <4>2. score \in Score
        BY <2>3, <4>1
      <4>3. [id |-> id, dep |-> deps[i], source |-> "GitHub", full |-> TRUE, score |-> score]
               \in Vulnerability
        BY <2>b, <4>2
      <4> QED BY <3>1, <4>1, <4>3, Zenon
    <3> QED BY <2>1, <3>1, <3>2, Zenon
  <2> QED BY <1>8, <2>1, <2>4 DEF ParseAdvisory, TypeInv, TypeOK, AtRest, files
<1>9. CASE AdvisoriesDone
  <2>1. pc = "advisories" /\ pc' = "parse" /\ i' = i + 1 /\ asked' = 0
    BY <1>9 DEF AdvisoriesDone
  <2>2. i' \in 1..(Len(deps) + 1) /\ asked' \in 0..Len(Endpoints)
    BY <1>a, <1>0, <2>1, FiveEndpoints
  <2> QED BY <1>9, <2>1, <2>2 DEF AdvisoriesDone, TypeInv, TypeOK, AtRest, files
<1>10. CASE ScanDone
  <2>1. CASE Forget
    BY <1>10, <2>1, ForgetType DEF ScanDone, files, TypeInv, TypeOK
  <2>2. CASE UNCHANGED <<jsonOnly, scan>> /\ pc' = "publish"
    BY <1>10, <2>2 DEF ScanDone, TypeInv, TypeOK, AtRest, scan, files
  <2> QED BY <1>10, <2>1, <2>2 DEF ScanDone
<1>11. CASE SaveReports
  BY <1>11 DEF SaveReports, TypeInv, TypeOK, AtRest, scan
<1>12. CASE WriteAlertOutput
  <2>1. alert' \subseteq Vulnerability /\ output' \in {"", "true", "false"}
    BY <1>12 DEF WriteAlertOutput, High, TypeInv, TypeOK
  <2> QED BY <1>12, <2>1, ForgetType DEF WriteAlertOutput
<1>13. CASE ScanRaises
  BY <1>13, ForgetType DEF ScanRaises, files, TypeInv, TypeOK
<1>14. CASE TimePasses
  BY <1>14 DEF TimePasses, TypeInv, TypeOK, AtRest, scan, files
<1>15. CASE UNCHANGED vars
  BY <1>15 DEF vars, TypeInv, TypeOK, AtRest, scan, files
<1> QED BY <1>1, <1>2, <1>3, <1>4, <1>5, <1>6, <1>7, <1>8, <1>9, <1>10, <1>11, <1>12, <1>13,
           <1>14, <1>15 DEF Next, ScanStep

\* The type invariant of the scanner.
THEOREM TypeCorrect == Spec => []TypeOK
<1>1. TypeInv => TypeOK
  BY DEF TypeInv
<1> QED BY <1>1, InitType, TypeStep, PTL DEF Spec
-----------------------------------------------------------------------------
(* The files *)

\* While a scan runs the output is unwritten; the alert lists what the report of
\* the scan before marks, until SaveReports writes the next one.
FilesInv ==
  /\ report.total = UNION {report.rows[e] : e \in DOMAIN report.rows}
  /\ pc # "alert" => alert = report.critical
  /\ pc = "alert" => report.critical = High(found)
  /\ pc # "idle" => output = ""
  /\ pc = "idle" /\ output # "" => (output = "true") = (alert # {})

LEMMA FilesInit == Init => FilesInv
<1> SUFFICES ASSUME Init PROVE FilesInv
  OBVIOUS
<1>1. report = Report({}) /\ alert = {} /\ output = "" /\ pc = "idle"
  BY DEF Init
<1>2. report.critical = {} /\ report.total = {}
  BY <1>1, ReportFields DEF High
<1>3. {} = UNION {Report({}).rows[e] : e \in DOMAIN Report({}).rows}
  BY RowsCover
<1> QED BY <1>1, <1>2, <1>3 DEF FilesInv

LEMMA FilesStep == TypeInv /\ FilesInv /\ [Next]_vars => FilesInv'
<1> SUFFICES ASSUME TypeInv, FilesInv, [Next]_vars PROVE FilesInv'
  OBVIOUS
<1> USE DEF FilesInv
<1>1. CASE StartScan
  BY <1>1 DEF StartScan
<1>2. CASE QueryOsvBatch \/ FetchDetails \/ Enriched \/ ParseEntry \/ NextDependency
           \/ AskGithub \/ ParseAdvisory \/ AdvisoriesDone
  <2>1. UNCHANGED files /\ pc \notin {"idle", "alert"} /\ pc' \notin {"idle", "alert"}
    BY <1>2 DEF QueryOsvBatch, FetchDetails, Enriched, ParseEntry, NextDependency, AskGithub,
                ParseAdvisory, AdvisoriesDone
  <2> QED BY <2>1 DEF files
<1>3. CASE ScanDone \/ ScanRaises
  <2>1. UNCHANGED files /\ pc \notin {"idle", "alert"} /\ pc' # "alert"
    BY <1>3 DEF ScanDone, ScanRaises, Forget
  <2> QED BY <2>1 DEF files
<1>4. CASE SaveReports
  <2>1. report' = Report(found) /\ found' = found /\ pc = "publish" /\ pc' = "alert"
        /\ UNCHANGED <<alert, output>>
    BY <1>4 DEF SaveReports, scan
  <2>2. found \subseteq Vulnerability
    BY DEF TypeInv, TypeOK
  <2>3. report'.critical = High(found)
    BY <2>1, ReportFields
  <2>4. report'.total = UNION {report'.rows[e] : e \in DOMAIN report'.rows}
    <3>1. found = UNION {Report(found).rows[e] : e \in DOMAIN Report(found).rows}
      BY <2>2, RowsCover
    <3>2. Report(found).total = found
      BY ReportFields
    <3> QED BY <2>1, <3>1, <3>2, Zenon
  <2>5. High(found)' = High(found)
    BY <2>1 DEF High
  <2> QED BY <2>1, <2>3, <2>4, <2>5
<1>5. CASE WriteAlertOutput
  <2>1. pc = "alert" /\ pc' = "idle" /\ report' = report
    BY <1>5 DEF WriteAlertOutput, Forget
  <2>2. alert' = High(found) /\ (output' = "true") = (alert' # {})
    BY <1>5 DEF WriteAlertOutput
  <2> QED BY <2>1, <2>2
<1>6. CASE TimePasses
  BY <1>6 DEF TimePasses, files
<1>7. CASE UNCHANGED vars
  BY <1>7 DEF vars, files, scan, High
<1> QED BY <1>1, <1>2, <1>3, <1>4, <1>5, <1>6, <1>7 DEF Next, ScanStep

\* The alert file and the report of the last scan that wrote them agree.
THEOREM FilesAlwaysAgree == Spec => []FilesAgree
<1>1. FilesInv => FilesAgree
  BY DEF FilesInv, FilesAgree
<1> QED BY <1>1, InitType, TypeStep, FilesInit, FilesStep, PTL DEF Spec
-----------------------------------------------------------------------------
(* What is reported *)

\* A vulnerability that the databases list for the dependency it is reported for.
Listed(v) ==
  IF v.source = "OSV"
    THEN v.id \in OsvLists(v.dep)
    ELSE v.dep.upstream # NoRepo
           /\ \E e \in ToSet(Endpoints) : v.id \in GithubLists(v.dep.upstream, e)

\* What the scan holds on its way to the report is listed as well.
ListedInv ==
  /\ \A d \in 1..Len(deps) : \A e \in results[d] : e.id \in OsvLists(deps[d])
  /\ pc = "advisories" => deps[i].upstream # NoRepo
  /\ pc # "advisories" => advisories = {}
  /\ \A id \in advisories : \E e \in ToSet(Endpoints) : id \in GithubLists(deps[i].upstream, e)
  /\ \A v \in found : Listed(v)

LEMMA ListedInit == Init => ListedInv
<1> SUFFICES ASSUME Init PROVE ListedInv
  OBVIOUS
<1>1. deps = <<>> /\ advisories = {} /\ found = {} /\ pc = "idle"
  BY DEF Init
<1>2. 1..Len(deps) = {}
  BY <1>1
<1> QED BY <1>1, <1>2 DEF ListedInv

LEMMA ListedForget ==
  ASSUME Forget
  PROVE  ListedInv'
<1>1. deps' = <<>> /\ advisories' = {} /\ found' = {} /\ pc' = "idle"
  BY DEF Forget
<1>2. 1..Len(<<>>) = {}
  OBVIOUS
<1> QED BY <1>1, <1>2 DEF ListedInv

\* The databases and the dependencies stay as they are, so do the lists.
LEMMA SameLists ==
  ASSUME world' = world
  PROVE  /\ \A dep : OsvLists(dep)' = OsvLists(dep)
         /\ \A repo, e : GithubLists(repo, e)' = GithubLists(repo, e)
         /\ \A v : Listed(v)' = Listed(v)
<1>1. \A dep : OsvLists(dep)' = OsvLists(dep)
  BY DEF OsvLists, OsvMatches, Affected, Ids
<1>2. \A repo, e : GithubLists(repo, e)' = GithubLists(repo, e)
  BY DEF GithubLists
<1> QED BY <1>1, <1>2 DEF Listed

LEMMA ListedStep == TypeInv /\ ListedInv /\ [Next]_vars => ListedInv'
<1> SUFFICES ASSUME TypeInv, ListedInv, [Next]_vars PROVE ListedInv'
  OBVIOUS
<1>a. /\ deps \in Seq(Dependency) /\ i \in 1..(Len(deps) + 1)
      /\ asked \in 0..Len(Endpoints) /\ (pc = "advisories" => i <= Len(deps))
      /\ results \in [1..Len(deps) -> SUBSET Entry]
  BY DEF TypeInv, TypeOK
<1>1. CASE StartScan
  <2>1. results' = [d \in 1..Len(deps') |-> {}] /\ advisories' = {} /\ found' = {} /\ pc' = "batch"
    BY <1>1 DEF StartScan, TypeInv, AtRest
  <2> QED BY <2>1 DEF ListedInv
<1>2. CASE QueryOsvBatch
  <2>1. UNCHANGED <<world, deps, i, advisories, found>> /\ pc = "batch" /\ pc' = "details"
    BY <1>2 DEF QueryOsvBatch
  <2>2. \A d \in 1..Len(deps) : \A e \in results'[d] : e.id \in OsvLists(deps[d])
    BY <1>2, <1>a, BatchFits
  <2> QED BY <2>1, <2>2, SameLists DEF ListedInv
<1>3. CASE FetchDetails
  <2>1. UNCHANGED <<world, deps, i, advisories, found, pc>>
    BY <1>3 DEF FetchDetails
  <2>2. PICK d \in 1..Len(deps) : \E e \in Stubs(d) : \E detail \in {"full", "none"} :
          results' = [results EXCEPT ![d] = (@ \ {e}) \cup {[id |-> e.id, detail |-> detail]}]
    BY <1>3 DEF FetchDetails
  <2>3. PICK e \in Stubs(d) : \E detail \in {"full", "none"} :
          results' = [results EXCEPT ![d] = (@ \ {e}) \cup {[id |-> e.id, detail |-> detail]}]
    BY <2>2
  <2>4. e.id \in OsvLists(deps[d])
    BY <2>3 DEF Stubs, ListedInv
  <2>5. \A c \in 1..Len(deps) : \A x \in results'[c] : x.id \in OsvLists(deps[c])
    BY <1>a, <2>3, <2>4 DEF ListedInv
  <2> QED BY <2>1, <2>5, SameLists DEF ListedInv
<1>4. CASE Enriched \/ SaveReports
  <2>1. UNCHANGED <<world, scan>> /\ pc # "advisories" /\ pc' # "advisories"
    BY <1>4 DEF Enriched, SaveReports
  <2> QED BY <2>1, SameLists DEF ListedInv, scan
<1>5. CASE ParseEntry
  <2>1. UNCHANGED <<world, deps, i, advisories, pc>> /\ pc = "parse" /\ i <= Len(deps)
    BY <1>5 DEF ParseEntry
  <2>2. PICK e \in results[i] :
          /\ results' = [results EXCEPT ![i] = @ \ {e}]
          /\ \E score \in CvssScores(e.id, e.detail = "full") :
               found' = found \cup {[id |-> e.id, dep |-> deps[i], source |-> "OSV",
                                     full |-> e.detail = "full", score |-> score]}
    BY <1>5 DEF ParseEntry
  <2>3. i \in 1..Len(deps)
    BY <1>a, <2>1
  <2>4. e.id \in OsvLists(deps[i])
    BY <2>2, <2>3 DEF ListedInv
  <2>5. \A v \in found' : Listed(v)
    BY <2>2, <2>4 DEF ListedInv, Listed
  <2>6. \A c \in 1..Len(deps) : \A x \in results'[c] : x.id \in OsvLists(deps[c])
    BY <1>a, <2>2 DEF ListedInv
  <2> QED BY <2>1, <2>5, <2>6, SameLists DEF ListedInv
<1>6. CASE NextDependency
  <2>1. UNCHANGED <<world, deps, results, advisories, found>> /\ pc = "parse"
    BY <1>6 DEF NextDependency
  <2>2. pc' = "advisories" => i' = i /\ deps[i].upstream # NoRepo
    BY <1>6 DEF NextDependency
  <2> QED BY <2>1, <2>2, SameLists DEF ListedInv
<1>7. CASE AskGithub
  <2>1. UNCHANGED <<world, deps, results, i, found, pc>> /\ asked < Len(Endpoints)
    BY <1>7 DEF AskGithub
  <2>2. asked + 1 \in 1..Len(Endpoints) /\ DOMAIN Endpoints = 1..Len(Endpoints)
    BY <1>a, <2>1, FiveEndpoints DEF Endpoints
  <2>3. Endpoints[asked + 1] \in ToSet(Endpoints)
    BY <2>2 DEF ToSet
  <2>4. \A id \in advisories' :
          \E e \in ToSet(Endpoints) : id \in GithubLists(deps[i].upstream, e)
    BY <1>7, <2>3, PageFits DEF ListedInv
  <2>5. pc = "advisories"
    BY <1>7 DEF AskGithub
  <2> QED BY <2>1, <2>4, <2>5, SameLists DEF ListedInv
<1>8. CASE ParseAdvisory
  <2>1. UNCHANGED <<world, deps, results, i, pc>> /\ pc = "advisories"
    BY <1>8 DEF ParseAdvisory
  <2>2. PICK id \in advisories :
          /\ advisories' = advisories \ {id}
          /\ \/ UNCHANGED found
             \/ \E score \in CvssScores(id, TRUE) :
                  found' = found \cup {[id |-> id, dep |-> deps[i], source |-> "GitHub",
                                        full |-> TRUE, score |-> score]}
    BY <1>8 DEF ParseAdvisory
  <2>3. \A v \in found' : Listed(v)
    <3>1. \A score : Listed([id |-> id, dep |-> deps[i], source |-> "GitHub", full |-> TRUE,
                             score |-> score])
      BY <2>1, <2>2 DEF ListedInv, Listed
    <3>2. \A v \in found : Listed(v)
      BY DEF ListedInv
    <3>3. CASE \E score \in CvssScores(id, TRUE) :
                 found' = found \cup {[id |-> id, dep |-> deps[i], source |-> "GitHub",
                                       full |-> TRUE, score |-> score]}
      <4>1. PICK score \in CvssScores(id, TRUE) :
              found' = found \cup {[id |-> id, dep |-> deps[i], source |-> "GitHub",
                                    full |-> TRUE, score |-> score]}
        BY <3>3
      <4>2. Listed([id |-> id, dep |-> deps[i], source |-> "GitHub", full |-> TRUE,
                    score |-> score])
        BY <3>1
      <4> QED BY <3>2, <4>1, <4>2, Zenon
    <3> QED BY <2>2, <3>2, <3>3, Zenon
  <2> QED BY <2>1, <2>2, <2>3, SameLists DEF ListedInv
<1>9. CASE AdvisoriesDone
  <2>1. UNCHANGED <<world, deps, results, found>> /\ advisories' = {} /\ pc' = "parse"
    BY <1>9 DEF AdvisoriesDone
  <2> QED BY <2>1, SameLists DEF ListedInv
<1>10. CASE ScanDone
  <2>1. CASE Forget
    BY <2>1, ListedForget
  <2>2. CASE UNCHANGED scan /\ pc' = "publish"
    <3>1. world' = world /\ pc # "advisories"
      BY <1>10 DEF ScanDone
    <3> QED BY <2>2, <3>1, SameLists DEF ListedInv, scan
  <2> QED BY <1>10, <2>1, <2>2 DEF ScanDone
<1>11. CASE WriteAlertOutput \/ ScanRaises
  BY <1>11, ListedForget DEF WriteAlertOutput, ScanRaises
<1>12. CASE TimePasses
  <2>1. UNCHANGED <<pc, scan>> /\ deps = <<>> /\ found = {} /\ advisories = {} /\ pc = "idle"
    BY <1>12 DEF TimePasses, TypeInv, AtRest
  <2>2. 1..Len(<<>>) = {}
    OBVIOUS
  <2> QED BY <2>1, <2>2 DEF ListedInv, scan
<1>13. CASE UNCHANGED vars
  BY <1>13, SameLists DEF ListedInv, vars, scan
<1> QED BY <1>1, <1>2, <1>3, <1>4, <1>5, <1>6, <1>7, <1>8, <1>9, <1>10, <1>11, <1>12, <1>13
        DEF Next, ScanStep

\* Whatever requests fail and however short an answer is, what is reported for a
\* dependency is known of it: the places of the batch do not get mixed up.
THEOREM NothingIsInvented == Spec => []NothingInvented
<1>1. ListedInv => NothingInvented
  BY DEF ListedInv, NothingInvented, Listed
<1> QED BY <1>1, InitType, TypeStep, ListedInit, ListedStep, PTL DEF Spec

\* An advisory is reported once because the packages that have advisories come
\* after those that OSV knows: no entry of OSV follows.
OnceInv ==
  /\ AdvisoriesOnce
  /\ RosLast(deps)
  /\ \A v \in found : v.source = "GitHub" =>
       \E k \in 1..Len(deps) : k <= i /\ deps[k].upstream # NoRepo

LEMMA OnceInit == Init => OnceInv
<1> SUFFICES ASSUME Init PROVE OnceInv
  OBVIOUS
<1>1. deps = <<>> /\ found = {}
  BY DEF Init
<1>2. 1..Len(<<>>) = {}
  OBVIOUS
<1> QED BY <1>1, <1>2 DEF OnceInv, AdvisoriesOnce, RosLast

LEMMA OnceForget ==
  ASSUME Forget
  PROVE  OnceInv'
<1>1. deps' = <<>> /\ found' = {}
  BY DEF Forget
<1>2. 1..Len(<<>>) = {}
  OBVIOUS
<1> QED BY <1>1, <1>2 DEF OnceInv, AdvisoriesOnce, RosLast

LEMMA OnceStep == TypeInv /\ ListedInv /\ OnceInv /\ [Next]_vars => OnceInv'
<1> SUFFICES ASSUME TypeInv, ListedInv, OnceInv, [Next]_vars PROVE OnceInv'
  OBVIOUS
<1>a. Len(deps) \in Nat /\ i \in 1..(Len(deps) + 1) /\ (pc = "advisories" => i <= Len(deps))
  <2>1. deps \in Seq(Dependency) /\ i \in 1..(Len(deps) + 1) /\ (pc = "advisories" => i <= Len(deps))
    BY DEF TypeInv, TypeOK
  <2> QED BY <2>1
<1>1. CASE StartScan
  <2>1. found' = {} /\ deps' = AllDeps(repository) /\ repository \in Repositories
    BY <1>1 DEF StartScan, TypeInv, TypeOK, AtRest
  <2>2. RosLast(deps')
    <3>1. RosLast(AllDeps(repository))
      BY <2>1, ScannerAssumption, EverythingIsLookedUp
    <3> QED BY <2>1, <3>1, Zenon
  <2> QED BY <2>1, <2>2 DEF OnceInv, AdvisoriesOnce, RosLast
<1>2. CASE QueryOsvBatch \/ FetchDetails \/ Enriched \/ AskGithub \/ SaveReports
           \/ UNCHANGED vars \/ TimePasses
  <2>1. UNCHANGED <<deps, i, found>>
    BY <1>2 DEF QueryOsvBatch, FetchDetails, Enriched, AskGithub, SaveReports, TimePasses,
                vars, scan
  <2> QED BY <2>1 DEF OnceInv, AdvisoriesOnce, RosLast
<1>3. CASE ParseEntry
  <2>1. UNCHANGED <<deps, i>> /\ pc = "parse" /\ i <= Len(deps)
    BY <1>3 DEF ParseEntry
  <2>2. PICK e \in results[i] :
          \E score \in CvssScores(e.id, e.detail = "full") :
            found' = found \cup {[id |-> e.id, dep |-> deps[i], source |-> "OSV",
                                  full |-> e.detail = "full", score |-> score]}
    BY <1>3 DEF ParseEntry
  <2>3. i \in 1..Len(deps)
    BY <1>a, <2>1
  <2>4. e.id \in OsvLists(deps[i])
    BY <2>2, <2>3 DEF ListedInv
  <2>5. deps[i].ecosystem # "ROS"
    BY <2>4 DEF OsvLists, OsvEcosystems
  <2>6. \A v \in found : v.source # "GitHub"
    BY <2>3, <2>5 DEF OnceInv, RosLast
  <2>7. \A v \in found' : v.source # "GitHub"
    BY <2>2, <2>6
  <2> QED BY <2>1, <2>7 DEF OnceInv, AdvisoriesOnce, RosLast
<1>4. CASE NextDependency \/ AdvisoriesDone
  <2>1. UNCHANGED <<deps, found>> /\ (i' = i \/ i' = i + 1)
    BY <1>4 DEF NextDependency, AdvisoriesDone
  <2>2. \A k \in 1..Len(deps) : k <= i => k <= i'
    BY <1>a, <2>1
  <2> QED BY <2>1, <2>2 DEF OnceInv, AdvisoriesOnce, RosLast
<1>5. CASE ParseAdvisory
  <2>1. UNCHANGED <<deps, i>> /\ pc = "advisories"
    BY <1>5 DEF ParseAdvisory
  <2>2. PICK id \in advisories :
          \/ UNCHANGED found
          \/ /\ id \notin Ids(found)
             /\ \E score \in CvssScores(id, TRUE) :
                  found' = found \cup {[id |-> id, dep |-> deps[i], source |-> "GitHub",
                                        full |-> TRUE, score |-> score]}
    BY <1>5 DEF ParseAdvisory, Seen
  <2>3. i \in 1..Len(deps) /\ deps[i].upstream # NoRepo
    BY <1>a, <2>1 DEF ListedInv
  <2>4. CASE UNCHANGED found
    BY <2>1, <2>4 DEF OnceInv, AdvisoriesOnce, RosLast
  <2>5. CASE id \notin Ids(found) /\ ~UNCHANGED found
    <3>1. PICK score \in CvssScores(id, TRUE) :
            found' = found \cup {[id |-> id, dep |-> deps[i], source |-> "GitHub",
                                  full |-> TRUE, score |-> score]}
      BY <2>2, <2>5
    <3>2. \A v \in found : v.id # id
      BY <2>5 DEF Ids
    <3> DEFINE new == [id |-> id, dep |-> deps[i], source |-> "GitHub", full |-> TRUE,
                       score |-> score]
    <3>a. new.id = id
      OBVIOUS
    <3>b. \A v \in found : v.source = "GitHub" => \A w \in found : w.id = v.id => w = v
      BY DEF OnceInv, AdvisoriesOnce
    <3>c. \A v \in found' : v \in found \/ v = new
      BY <3>1
    <3>3. AdvisoriesOnce'
      <4> HIDE DEF new
      <4> QED BY <3>2, <3>a, <3>b, <3>c, Zenon DEF AdvisoriesOnce
    <3>4. i <= i
      BY <1>a
    <3>5. \A v \in found' : v.source = "GitHub" =>
            \E k \in 1..Len(deps) : k <= i /\ deps[k].upstream # NoRepo
      BY <2>3, <3>4 DEF OnceInv
    <3> QED BY <2>1, <3>3, <3>5 DEF OnceInv, RosLast
  <2> QED BY <2>2, <2>4, <2>5
<1>6. CASE ScanDone
  <2>1. CASE Forget
    BY <2>1, OnceForget
  <2>2. CASE UNCHANGED scan
    BY <2>2 DEF OnceInv, AdvisoriesOnce, RosLast, scan
  <2> QED BY <1>6, <2>1, <2>2 DEF ScanDone
<1>7. CASE WriteAlertOutput \/ ScanRaises
  BY <1>7, OnceForget DEF WriteAlertOutput, ScanRaises
<1> QED BY <1>1, <1>2, <1>3, <1>4, <1>5, <1>6, <1>7 DEF Next, ScanStep

\* An advisory is in the report once, however many packages share its repository.
THEOREM AdvisoriesAreOnce == Spec => []AdvisoriesOnce
<1>1. OnceInv => AdvisoriesOnce
  BY DEF OnceInv
<1> QED BY <1>1, InitType, TypeStep, ListedInit, ListedStep, OnceInit, OnceStep, PTL DEF Spec
-----------------------------------------------------------------------------
\* A grave vulnerability has no other scores than high ones.
LEMMA GraveScores ==
  ASSUME NEW id \in VulnId, Grave(id), NEW score \in CvssScores(id, TRUE)
  PROVE  score >= HighThreshold
<1>1. \A s \in OfficialScores(id) : s = NoScore \/ s >= HighThreshold
  BY DEF Grave, OfficialScores, Score, NoScore, HighThreshold
<1>2. /\ world.vuln[id].label \in DOMAIN LabelScores
      /\ LabelScores[world.vuln[id].label] >= HighThreshold
  BY DEF Grave, LabelScores, HighThreshold
<1> QED BY <1>1, <1>2 DEF CvssScores

LEMMA GraveStep == TypeInv /\ GraveIsAlerted /\ [Next]_vars => GraveIsAlerted'
<1> SUFFICES ASSUME TypeInv, GraveIsAlerted, [Next]_vars PROVE GraveIsAlerted'
  OBVIOUS
<1>1. CASE found' = {}
  BY <1>1 DEF GraveIsAlerted
<1>2. CASE found' = found /\ world' = world
  BY <1>2 DEF GraveIsAlerted, Grave, High
<1>a. \A v \in found : v.full /\ Grave(v.id) => v.score >= HighThreshold
  BY DEF GraveIsAlerted, High
<1>b. ASSUME world' = world, NEW new,
             found' = found \cup {new}, new.full /\ Grave(new.id) => new.score >= HighThreshold
      PROVE  GraveIsAlerted'
  <2>1. \A v \in found' : v.full /\ Grave(v.id) => v.score >= HighThreshold
    BY <1>a, <1>b, Zenon
  <2>2. \A id : Grave(id)' = Grave(id)
    BY <1>b DEF Grave
  <2> QED BY <2>1, <2>2 DEF GraveIsAlerted, High
<1>3. CASE ParseEntry
  <2>1. PICK e \in results[i] :
          \E score \in CvssScores(e.id, e.detail = "full") :
            found' = found \cup {[id |-> e.id, dep |-> deps[i], source |-> "OSV",
                                  full |-> e.detail = "full", score |-> score]}
    BY <1>3 DEF ParseEntry
  <2>2. PICK score \in CvssScores(e.id, e.detail = "full") :
          found' = found \cup {[id |-> e.id, dep |-> deps[i], source |-> "OSV",
                                full |-> e.detail = "full", score |-> score]}
    BY <2>1
  <2>3. i \in 1..Len(deps) /\ results \in [1..Len(deps) -> SUBSET Entry]
    <3>1. /\ deps \in Seq(Dependency) /\ i \in 1..(Len(deps) + 1) /\ i <= Len(deps)
          /\ results \in [1..Len(deps) -> SUBSET Entry]
      BY <1>3 DEF ParseEntry, TypeInv, TypeOK
    <3> QED BY <3>1
  <2>4. e.id \in VulnId
    BY <2>1, <2>3 DEF Entry
  <2>5. e.detail = "full" /\ Grave(e.id) => score >= HighThreshold
    <3> SUFFICES ASSUME e.detail = "full", Grave(e.id) PROVE score >= HighThreshold
      OBVIOUS
    <3>1. (e.detail = "full") = TRUE
      OBVIOUS
    <3>2. score \in CvssScores(e.id, TRUE)
      BY <2>2, <3>1
    <3> QED BY <2>4, <3>2, GraveScores
  <2>6. world' = world
    BY <1>3 DEF ParseEntry
  <2> DEFINE new == [id |-> e.id, dep |-> deps[i], source |-> "OSV",
                     full |-> e.detail = "full", score |-> score]
  <2>7. new.full /\ Grave(new.id) => new.score >= HighThreshold
    BY <2>5
  <2>8. found' = found \cup {new}
    BY <2>2
  <2> QED BY <1>b, <2>6, <2>7, <2>8, Zenon
<1>4. CASE ParseAdvisory
  <2>1. PICK id \in advisories :
          \/ UNCHANGED found
          \/ \E score \in CvssScores(id, TRUE) :
               found' = found \cup {[id |-> id, dep |-> deps[i], source |-> "GitHub",
                                     full |-> TRUE, score |-> score]}
    BY <1>4 DEF ParseAdvisory
  <2>2. id \in VulnId /\ world' = world
    BY <1>4 DEF ParseAdvisory, TypeInv, TypeOK
  <2>3. CASE \E score \in CvssScores(id, TRUE) :
               found' = found \cup {[id |-> id, dep |-> deps[i], source |-> "GitHub",
                                     full |-> TRUE, score |-> score]}
    <3>1. PICK score \in CvssScores(id, TRUE) :
            found' = found \cup {[id |-> id, dep |-> deps[i], source |-> "GitHub",
                                  full |-> TRUE, score |-> score]}
      BY <2>3
    <3> DEFINE new == [id |-> id, dep |-> deps[i], source |-> "GitHub", full |-> TRUE,
                       score |-> score]
    <3>2. new.full /\ Grave(new.id) => new.score >= HighThreshold
      BY <2>2, <3>1, GraveScores
    <3> QED BY <1>b, <2>2, <3>1, <3>2, Zenon
  <2> QED BY <1>2, <2>1, <2>2, <2>3
<1>5. CASE StartScan \/ TimePasses
  BY <1>1, <1>5 DEF StartScan, TimePasses, TypeInv, AtRest, scan
<1>6. CASE QueryOsvBatch \/ FetchDetails \/ Enriched \/ NextDependency \/ AskGithub
           \/ AdvisoriesDone \/ SaveReports \/ UNCHANGED vars
  BY <1>2, <1>6 DEF QueryOsvBatch, FetchDetails, Enriched, NextDependency, AskGithub,
                    AdvisoriesDone, SaveReports, vars, scan
<1>7. CASE ScanDone \/ WriteAlertOutput \/ ScanRaises
  BY <1>1, <1>2, <1>7 DEF ScanDone, WriteAlertOutput, ScanRaises, Forget, scan
<1> QED BY <1>3, <1>4, <1>5, <1>6, <1>7 DEF Next, ScanStep

\* A vulnerability that is grave by its label and by all its scores is in the
\* alert, whichever requests for its score fail.
THEOREM GraveAlwaysAlerted == Spec => []GraveIsAlerted
<1>1. Init => GraveIsAlerted
  BY DEF Init, GraveIsAlerted
<1> QED BY <1>1, InitType, TypeStep, GraveStep, PTL DEF Spec
-----------------------------------------------------------------------------
(* What is looked up *)

\* What the databases list for a dependency has been reported.
Looked(dep) ==
  /\ OsvLists(dep) \subseteq Ids(found)
  /\ dep.upstream # NoRepo =>
       \A e \in ToSet(Endpoints) : GithubLists(dep.upstream, e) \subseteq Ids(found)

\* If every list came whole, it is reported of the dependencies behind the loop of
\* run_scan; of the others it is in the lists of the batch, and what was asked for
\* the one at hand is among the advisories.
DoneInv ==
  pc \in {"parse", "advisories", "publish"} => \A d \in 1..Len(deps) : d < i => Looked(deps[d])
BatchInv ==
  pc \in {"details", "parse", "advisories", "publish"} => \A d \in 1..Len(deps) :
    d >= i => OsvLists(deps[d]) \subseteq Ids(results[d]) \cup Ids(found)
AskedInv ==
  pc = "advisories" =>
    /\ results[i] = {}
    /\ \A e \in 1..asked :
         GithubLists(deps[i].upstream, Endpoints[e]) \subseteq advisories \cup Ids(found)
StageInv ==
  /\ pc \notin {"idle", "alert"} => deps = AllDeps(repository)
  /\ pc \in {"batch", "details"} => i = 1
  /\ pc \in {"batch", "details", "parse"} => asked = 0
  /\ pc = "publish" => i = Len(deps) + 1
CompleteInv == StageInv /\ (whole => DoneInv /\ BatchInv /\ AskedInv)

LEMMA CompleteInit == Init => CompleteInv
<1> SUFFICES ASSUME Init PROVE CompleteInv
  OBVIOUS
<1>1. pc = "idle"
  BY DEF Init
<1> QED BY <1>1 DEF CompleteInv, StageInv, DoneInv, BatchInv, AskedInv

LEMMA Grows ==
  ASSUME NEW vulns, NEW v
  PROVE  Ids(vulns) \subseteq Ids(vulns \cup {v}) /\ v.id \in Ids(vulns \cup {v})
BY DEF Ids

\* What has been reported stays reported.
LEMMA StaysLooked ==
  ASSUME world' = world, Ids(found) \subseteq Ids(found'), NEW dep, Looked(dep)
  PROVE  /\ OsvLists(dep)' \subseteq Ids(found')
         /\ dep.upstream # NoRepo =>
              \A e \in ToSet(Endpoints) : GithubLists(dep.upstream, e)' \subseteq Ids(found')
BY SameLists DEF Looked

LEMMA StageStep == TypeInv /\ StageInv /\ [Next]_vars => StageInv'
<1> SUFFICES ASSUME TypeInv, StageInv, [Next]_vars PROVE StageInv'
  OBVIOUS
<1> USE DEF StageInv
<1>1. CASE StartScan
  <2>1. /\ deps' = AllDeps(repository) /\ repository' = repository /\ pc' = "batch"
        /\ i' = 1 /\ asked' = 0
    BY <1>1 DEF StartScan, TypeInv, AtRest
  <2> QED BY <2>1
<1>2. CASE QueryOsvBatch \/ FetchDetails \/ Enriched \/ ParseEntry
  <2>1. /\ UNCHANGED <<repository, deps, i, asked>>
        /\ pc \in {"batch", "details", "parse"} /\ pc' \in {"details", "parse"}
        /\ pc = "parse" => pc' = "parse"
    BY <1>2 DEF QueryOsvBatch, FetchDetails, Enriched, ParseEntry, scan
  <2> QED BY <2>1
<1>3. CASE NextDependency
  <2>1. /\ UNCHANGED <<repository, deps, asked>> /\ pc = "parse"
        /\ pc' \in {"parse", "advisories"}
    BY <1>3 DEF NextDependency
  <2> QED BY <2>1
<1>4. CASE AskGithub \/ ParseAdvisory
  <2>1. UNCHANGED <<repository, deps>> /\ pc = "advisories" /\ pc' = pc
    BY <1>4 DEF AskGithub, ParseAdvisory
  <2> QED BY <2>1
<1>5. CASE AdvisoriesDone
  <2>1. UNCHANGED <<repository, deps>> /\ pc = "advisories" /\ pc' = "parse" /\ asked' = 0
    BY <1>5 DEF AdvisoriesDone
  <2> QED BY <2>1
<1>6. CASE ScanDone
  <2>1. CASE Forget
    BY <2>1 DEF Forget
  <2>2. CASE pc' = "publish" /\ UNCHANGED <<jsonOnly, scan>>
    BY <1>6, <2>2 DEF ScanDone, scan
  <2> QED BY <1>6, <2>1, <2>2 DEF ScanDone
<1>7. CASE SaveReports
  BY <1>7 DEF SaveReports
<1>8. CASE WriteAlertOutput \/ ScanRaises
  BY <1>8 DEF WriteAlertOutput, ScanRaises, Forget
<1>9. CASE TimePasses
  BY <1>9 DEF TimePasses
<1>10. CASE UNCHANGED vars
  BY <1>10 DEF vars, scan
<1> QED BY <1>1, <1>2, <1>3, <1>4, <1>5, <1>6, <1>7, <1>8, <1>9, <1>10 DEF Next, ScanStep

LEMMA CompleteStep == TypeInv /\ ListedInv /\ CompleteInv /\ [Next]_vars => CompleteInv'
<1> SUFFICES ASSUME TypeInv, ListedInv, CompleteInv, [Next]_vars, whole'
             PROVE  DoneInv' /\ BatchInv' /\ AskedInv'
  BY StageStep DEF CompleteInv
<1>a. /\ deps \in Seq(Dependency) /\ i \in 1..(Len(deps) + 1)
      /\ asked \in 0..Len(Endpoints) /\ (pc = "advisories" => i <= Len(deps))
      /\ results \in [1..Len(deps) -> SUBSET Entry]
  BY DEF TypeInv, TypeOK
<1>b. Len(deps) \in Nat /\ Len(Endpoints) = 5
  BY <1>a, FiveEndpoints
<1>c. StageInv
  BY DEF CompleteInv
<1>1. CASE pc' \in {"idle", "batch", "alert"}
  BY <1>1 DEF DoneInv, BatchInv, AskedInv
<1>2. CASE QueryOsvBatch
  <2>1. UNCHANGED <<world, deps, i, found>> /\ pc' = "details"
    BY <1>2 DEF QueryOsvBatch
  <2>2. \A d \in 1..Len(deps) : OsvLists(deps[d]) \subseteq Ids(results'[d])
    BY <1>2, <1>a, BatchFits
  <2>3. BatchInv'
    BY <2>1, <2>2, SameLists DEF BatchInv
  <2> QED BY <2>1, <2>3 DEF DoneInv, AskedInv
<1>3. CASE FetchDetails
  <2>1. UNCHANGED <<world, deps, i, found, pc, whole>> /\ pc = "details"
    BY <1>3 DEF FetchDetails
  <2>2. PICK d \in 1..Len(deps) : \E e \in Stubs(d) : \E detail \in {"full", "none"} :
          results' = [results EXCEPT ![d] = (@ \ {e}) \cup {[id |-> e.id, detail |-> detail]}]
    BY <1>3 DEF FetchDetails
  <2>3. PICK e \in Stubs(d) : \E detail \in {"full", "none"} :
          results' = [results EXCEPT ![d] = (@ \ {e}) \cup {[id |-> e.id, detail |-> detail]}]
    BY <2>2
  <2>4. PICK detail \in {"full", "none"} :
          results' = [results EXCEPT ![d] = (@ \ {e}) \cup {[id |-> e.id, detail |-> detail]}]
    BY <2>3
  <2>5. \A c \in 1..Len(deps) : Ids(results[c]) \subseteq Ids(results'[c])
    <3> TAKE c \in 1..Len(deps)
    <3>1. CASE c # d
      <4>1. results'[c] = results[c]
        BY <1>a, <2>4, <3>1
      <4> QED BY <4>1
    <3>2. CASE c = d
      <4> DEFINE new == [id |-> e.id, detail |-> detail]
      <4>1. results'[c] = (results[c] \ {e}) \cup {new}
        BY <1>a, <2>4, <3>2
      <4>2. new.id = e.id
        OBVIOUS
      <4> HIDE DEF new
      <4> QED BY <4>1, <4>2 DEF Ids
    <3> QED BY <3>1, <3>2
  <2>6. BatchInv
    BY <2>1 DEF CompleteInv
  <2>7. BatchInv'
    BY <2>1, <2>5, <2>6, SameLists DEF BatchInv
  <2> QED BY <2>1, <2>7 DEF DoneInv, AskedInv
<1>4. CASE Enriched
  <2>1. UNCHANGED <<world, deps, i, found, results, whole>> /\ pc = "details" /\ pc' = "parse"
    BY <1>4 DEF Enriched, scan
  <2>2. BatchInv
    BY <2>1 DEF CompleteInv
  <2>3. BatchInv'
    BY <2>1, <2>2, SameLists DEF BatchInv
  <2>4. i = 1
    BY <1>c, <2>1 DEF StageInv
  <2>5. \A d \in 1..Len(deps) : ~(d < i)
    BY <1>b, <2>4
  <2> QED BY <2>1, <2>3, <2>5 DEF DoneInv, AskedInv
<1>5. CASE ParseEntry
  <2>1. UNCHANGED <<world, deps, i, pc, whole>> /\ pc = "parse" /\ i <= Len(deps)
    BY <1>5 DEF ParseEntry
  <2>2. PICK e \in results[i] :
          /\ results' = [results EXCEPT ![i] = @ \ {e}]
          /\ \E score \in CvssScores(e.id, e.detail = "full") :
               found' = found \cup {[id |-> e.id, dep |-> deps[i], source |-> "OSV",
                                     full |-> e.detail = "full", score |-> score]}
    BY <1>5 DEF ParseEntry
  <2>3. PICK score : found' = found \cup {[id |-> e.id, dep |-> deps[i], source |-> "OSV",
                                           full |-> e.detail = "full", score |-> score]}
    BY <2>2
  <2>4. Ids(found) \subseteq Ids(found') /\ e.id \in Ids(found')
    <3> DEFINE new == [id |-> e.id, dep |-> deps[i], source |-> "OSV",
                       full |-> e.detail = "full", score |-> score]
    <3>1. found' = found \cup {new} /\ new.id = e.id
      BY <2>3
    <3> HIDE DEF new
    <3> QED BY <3>1, Grows, Zenon
  <2>5. \A d \in 1..Len(deps) : Ids(results[d]) \subseteq Ids(results'[d]) \cup Ids(found')
    <3> TAKE d \in 1..Len(deps)
    <3>1. results[d] \subseteq results'[d] \cup {e}
      BY <1>a, <2>2
    <3> QED BY <2>4, <3>1 DEF Ids
  <2>6. DoneInv /\ BatchInv
    BY <2>1 DEF CompleteInv
  <2>7. DoneInv'
    BY <2>1, <2>4, <2>6, StaysLooked DEF DoneInv, Looked
  <2>8. BatchInv'
    <3>1. \A d \in 1..Len(deps) : d >= i =>
            OsvLists(deps[d]) \subseteq Ids(results'[d]) \cup Ids(found')
      BY <2>1, <2>4, <2>5, <2>6 DEF BatchInv
    <3> QED BY <2>1, <3>1, SameLists DEF BatchInv
  <2> QED BY <2>1, <2>7, <2>8 DEF AskedInv
<1>6. CASE NextDependency
  <2>1. /\ UNCHANGED <<world, deps, results, asked, found, whole>> /\ pc = "parse"
        /\ i <= Len(deps) /\ results[i] = {}
        /\ \/ pc' = "advisories" /\ i' = i
           \/ deps[i].upstream = NoRepo /\ i' = i + 1 /\ pc' = "parse"
    BY <1>6 DEF NextDependency
  <2>2. DoneInv /\ BatchInv
    BY <2>1 DEF CompleteInv
  <2>3. i \in 1..Len(deps) /\ i >= i /\ asked = 0
    BY <1>a, <1>b, <1>c, <2>1 DEF StageInv
  <2>4. OsvLists(deps[i]) \subseteq Ids(found)
    <3>1. Ids({}) = {}
      BY DEF Ids
    <3> QED BY <2>1, <2>2, <2>3, <3>1 DEF BatchInv
  <2>5. \A d \in 1..Len(deps) : d < i' => Looked(deps[d])
    <3>1. CASE i' = i
      BY <2>1, <2>2, <3>1 DEF DoneInv
    <3>2. CASE i' = i + 1 /\ deps[i].upstream = NoRepo
      <4>1. Looked(deps[i])
        BY <2>4, <3>2 DEF Looked
      <4>2. \A d \in 1..Len(deps) : d < i + 1 => d < i \/ d = i
        BY <2>3
      <4> QED BY <2>1, <2>2, <3>2, <4>1, <4>2 DEF DoneInv
    <3> QED BY <2>1, <3>1, <3>2
  <2>6. DoneInv'
    BY <2>1, <2>5, SameLists DEF DoneInv, Looked
  <2>7. \A d \in 1..Len(deps) : d >= i' => d >= i
    BY <2>1, <2>3
  <2>8. BatchInv'
    BY <2>1, <2>2, <2>7, SameLists DEF BatchInv
  <2>9. 1..asked' = {}
    BY <2>1, <2>3
  <2>10. AskedInv'
    BY <2>1, <2>9 DEF AskedInv
  <2> QED BY <2>6, <2>8, <2>10
<1>7. CASE AskGithub
  <2>1. /\ UNCHANGED <<world, deps, results, i, found, pc>> /\ pc = "advisories"
        /\ asked' = asked + 1 /\ asked < Len(Endpoints)
    BY <1>7 DEF AskGithub
  <2>g. whole /\ advisories' = advisories \cup GithubLists(deps[i].upstream, Endpoints[asked + 1])
    BY <1>7, PageFits
  <2>2. DoneInv /\ BatchInv /\ AskedInv
    BY <2>g DEF CompleteInv
  <2>3. DoneInv' /\ BatchInv'
    BY <2>1, <2>2, SameLists DEF DoneInv, BatchInv, Looked
  <2>4. \A e \in 1..(asked + 1) : e \in 1..asked \/ e = asked + 1
    BY <1>a, <1>b
  <2>5. \A e \in 1..(asked + 1) :
          GithubLists(deps[i].upstream, Endpoints[e]) \subseteq advisories' \cup Ids(found)
    BY <2>1, <2>g, <2>2, <2>4 DEF AskedInv
  <2>6. AskedInv'
    BY <2>1, <2>2, <2>5, SameLists DEF AskedInv
  <2> QED BY <2>3, <2>6
<1>8. CASE ParseAdvisory
  <2>1. UNCHANGED <<world, deps, results, i, asked, pc, whole>> /\ pc = "advisories"
    BY <1>8 DEF ParseAdvisory
  <2>2. PICK id \in advisories :
          /\ advisories' = advisories \ {id}
          /\ \/ id \in Ids(found) /\ UNCHANGED found
             \/ \E score \in CvssScores(id, TRUE) :
                  found' = found \cup {[id |-> id, dep |-> deps[i], source |-> "GitHub",
                                        full |-> TRUE, score |-> score]}
    BY <1>8 DEF ParseAdvisory, Seen
  <2>3. Ids(found) \subseteq Ids(found') /\ id \in Ids(found')
    <3>1. CASE id \in Ids(found) /\ UNCHANGED found
      BY <3>1
    <3>2. CASE \E score \in CvssScores(id, TRUE) :
                 found' = found \cup {[id |-> id, dep |-> deps[i], source |-> "GitHub",
                                       full |-> TRUE, score |-> score]}
      <4>1. PICK score : found' = found \cup {[id |-> id, dep |-> deps[i], source |-> "GitHub",
                                               full |-> TRUE, score |-> score]}
        BY <3>2
      <4> DEFINE new == [id |-> id, dep |-> deps[i], source |-> "GitHub",
                         full |-> TRUE, score |-> score]
      <4>2. found' = found \cup {new} /\ new.id = id
        BY <4>1
      <4> HIDE DEF new
      <4> QED BY <4>2, Grows, Zenon
    <3> QED BY <2>2, <3>1, <3>2
  <2>4. DoneInv /\ BatchInv /\ AskedInv
    BY <2>1 DEF CompleteInv
  <2>5. DoneInv'
    BY <2>1, <2>3, <2>4, StaysLooked DEF DoneInv, Looked
  <2>6. BatchInv'
    <3>1. \A d \in 1..Len(deps) : d >= i =>
            OsvLists(deps[d]) \subseteq Ids(results[d]) \cup Ids(found')
      BY <2>1, <2>3, <2>4 DEF BatchInv
    <3> QED BY <2>1, <3>1, SameLists DEF BatchInv
  <2>7. \A e \in 1..asked :
          GithubLists(deps[i].upstream, Endpoints[e]) \subseteq advisories' \cup Ids(found')
    BY <2>1, <2>2, <2>3, <2>4 DEF AskedInv
  <2>8. AskedInv'
    BY <2>1, <2>4, <2>7, SameLists DEF AskedInv
  <2> QED BY <2>5, <2>6, <2>8
<1>9. CASE AdvisoriesDone
  <2>1. /\ UNCHANGED <<world, deps, results, found, whole>> /\ pc = "advisories"
        /\ asked = Len(Endpoints) /\ advisories = {} /\ pc' = "parse" /\ i' = i + 1
    BY <1>9 DEF AdvisoriesDone
  <2>2. DoneInv /\ BatchInv /\ AskedInv
    BY <2>1 DEF CompleteInv
  <2>3. i \in 1..Len(deps) /\ i >= i
    BY <1>a, <1>b, <2>1
  <2>4. Looked(deps[i])
    <3>1. OsvLists(deps[i]) \subseteq Ids(found)
      <4>1. Ids({}) = {}
        BY DEF Ids
      <4> QED BY <2>1, <2>2, <2>3, <4>1 DEF BatchInv, AskedInv
    <3>2. DOMAIN Endpoints = 1..Len(Endpoints)
      BY DEF Endpoints
    <3>3. \A e \in ToSet(Endpoints) : GithubLists(deps[i].upstream, e) \subseteq Ids(found)
      BY <2>1, <2>2, <3>2 DEF AskedInv, ToSet
    <3> QED BY <3>1, <3>3 DEF Looked
  <2>5. \A d \in 1..Len(deps) : (d < i + 1 => d < i \/ d = i) /\ (d >= i + 1 => d >= i)
    BY <2>3
  <2>6. \A d \in 1..Len(deps) : d < i + 1 => Looked(deps[d])
    BY <2>1, <2>2, <2>4, <2>5 DEF DoneInv
  <2>7. DoneInv'
    BY <2>1, <2>6, SameLists DEF DoneInv, Looked
  <2>8. BatchInv'
    BY <2>1, <2>2, <2>5, SameLists DEF BatchInv
  <2> QED BY <2>1, <2>7, <2>8 DEF AskedInv
<1>10. CASE ScanDone /\ pc' = "publish"
  <2>1. UNCHANGED <<world, deps, i, results, found, whole>> /\ pc = "parse"
    BY <1>10 DEF ScanDone, Forget, scan
  <2>2. DoneInv /\ BatchInv
    BY <2>1 DEF CompleteInv
  <2> QED BY <1>10, <2>1, <2>2, SameLists DEF DoneInv, BatchInv, AskedInv, Looked
<1>11. CASE UNCHANGED vars
  <2>1. UNCHANGED <<world, deps, i, results, asked, advisories, found, whole, pc>>
    BY <1>11 DEF vars, scan
  <2>2. DoneInv /\ BatchInv /\ AskedInv
    BY <2>1 DEF CompleteInv
  <2> QED BY <2>1, <2>2, SameLists DEF DoneInv, BatchInv, AskedInv, Looked
<1>12. CASE ScanDone /\ pc' # "publish"
  BY <1>1, <1>12 DEF ScanDone, Forget
<1>13. CASE StartScan \/ SaveReports \/ WriteAlertOutput \/ ScanRaises \/ TimePasses
  BY <1>1, <1>13 DEF StartScan, SaveReports, WriteAlertOutput, ScanRaises, TimePasses, Forget
<1> QED BY <1>2, <1>3, <1>4, <1>5, <1>6, <1>7, <1>8, <1>9, <1>10, <1>11, <1>12, <1>13
        DEF Next, ScanStep

\* When the reports are written, the loop is through with everything that the files
\* declare.
LEMMA AllIsReported ==
  ASSUME TypeInv, CompleteInv
  PROVE  NothingOverlooked
<1> SUFFICES ASSUME pc = "publish", whole PROVE NothingOverlooked
  BY DEF NothingOverlooked
<1>1. deps = AllDeps(repository) /\ repository \in Repository /\ i = Len(deps) + 1
  BY ScannerAssumption DEF CompleteInv, StageInv, TypeInv, TypeOK
<1>2. /\ \A p \in DeclaredPython(repository) : \E k \in 1..Len(deps) :
           deps[k].ecosystem = "PyPI" /\ Normalised(deps[k].name) = p[1] /\ deps[k].version = p[2]
      /\ \A c \in DeclaredCrates(repository) : \E k \in 1..Len(deps) :
           deps[k].ecosystem = "crates.io" /\ deps[k].name = c[1] /\ deps[k].version = c[2]
      /\ \A repo \in DeclaredUpstream(repository) : \E k \in 1..Len(deps) :
           deps[k].upstream = repo
  <2> DEFINE D == AllDeps(repository)
  <2>1. /\ D \in Seq(Dependency) /\ RosLast(D)
        /\ \A p \in DeclaredPython(repository) : \E k \in 1..Len(D) :
             /\ D[k].ecosystem = "PyPI"
             /\ Normalised(D[k].name) = p[1] /\ D[k].version = p[2]
        /\ \A c \in DeclaredCrates(repository) : \E k \in 1..Len(D) :
             /\ D[k].ecosystem = "crates.io"
             /\ D[k].name = c[1] /\ D[k].version = c[2]
        /\ \A repo \in DeclaredUpstream(repository) :
             \E k \in 1..Len(D) : D[k].upstream = repo
    BY <1>1, EverythingIsLookedUp, ZenonT(60)
  <2> QED BY <1>1, <2>1
<1>3. \A k \in 1..Len(deps) : Looked(deps[k])
  <2>1. Len(deps) \in Nat
    <3>1. deps \in Seq(Dependency)
      BY DEF TypeInv, TypeOK
    <3> QED BY <3>1
  <2>2. \A k \in 1..Len(deps) : k < i
    BY <1>1, <2>1
  <2> QED BY <2>2 DEF CompleteInv, DoneInv
<1>4. ASSUME NEW p \in DeclaredPython(repository)
      PROVE  Affected("PyPI", p[1], p[2]) \subseteq Ids(found)
  <2>1. PICK k \in 1..Len(deps) :
          deps[k].ecosystem = "PyPI" /\ Normalised(deps[k].name) = p[1] /\ deps[k].version = p[2]
    BY <1>2
  <2>2. OsvLists(deps[k]) = Affected("PyPI", p[1], p[2])
    BY <2>1 DEF OsvLists, OsvMatches, OsvQuery, OsvEcosystems
  <2> QED BY <1>3, <2>2 DEF Looked
<1>5. ASSUME NEW c \in DeclaredCrates(repository)
      PROVE  Affected("crates.io", c[1], c[2]) \subseteq Ids(found)
  <2>1. PICK k \in 1..Len(deps) :
          deps[k].ecosystem = "crates.io" /\ deps[k].name = c[1] /\ deps[k].version = c[2]
    BY <1>2
  <2>2. OsvLists(deps[k]) = Affected("crates.io", c[1], c[2])
    BY <2>1 DEF OsvLists, OsvMatches, OsvQuery, OsvEcosystems
  <2> QED BY <1>3, <2>2 DEF Looked
<1>6. ASSUME NEW repo \in DeclaredUpstream(repository), NEW e \in ToSet(Endpoints)
      PROVE  GithubLists(repo, e) \subseteq Ids(found)
  <2>1. PICK k \in 1..Len(deps) : deps[k].upstream = repo
    BY <1>2
  <2>2. repo # NoRepo
    BY UpstreamsAreScanned DEF DeclaredUpstream
  <2> QED BY <1>3, <2>1, <2>2 DEF Looked
<1> QED BY <1>4, <1>5, <1>6 DEF NothingOverlooked

\* Of every external package that the files declare, in the version it is locked to or
\* the first one its requirement names, a scan to which every list came whole reports
\* what is known, whatever the files hold.
THEOREM NothingIsOverlooked == Spec => []NothingOverlooked
<1>1. TypeInv /\ CompleteInv => NothingOverlooked
  BY AllIsReported
<1> QED BY <1>1, InitType, TypeStep, ListedInit, ListedStep, CompleteInit, CompleteStep, PTL DEF Spec
=============================================================================
