---------------------------- MODULE SequenceLemmas ----------------------------
(***************************************************************************)
(* What the theorems about sequences share: an induction, the greatest of  *)
(* some indices, the last elements of a sequence, the elements of a        *)
(* sequence that are in a set, those it holds once, and lists put end to   *)
(* end.                                                                    *)
(***************************************************************************)
EXTENDS Integers, Sublists, SequenceTheorems, FiniteSetTheorems, TLAPS

--------------------------------------------------------------------------------
(* Induction over the natural numbers, about a set of them: the library's   *)
(* is about an operator.                                                    *)
LEMMA Induction ==
  ASSUME NEW T, 0 \in T, \A n \in Nat : n \in T => n + 1 \in T
  PROVE  Nat \subseteq T
<1> SUFFICES ASSUME NEW m \in Nat, m \notin T PROVE FALSE
  OBVIOUS
<1> DEFINE U == {0 .. i : i \in Nat \ T}
           R == StrictSubsetOrdering(Nat)
           S == FiniteSubsetsOf(Nat)
<1>1. U \subseteq S
  <2>1. \A i \in Nat : IsFiniteSet(0 .. i) /\ 0 .. i \subseteq Nat
    BY FS_Interval
  <2>2. QED
    BY <2>1 DEF FiniteSubsetsOf
<1>2. U # {}
  OBVIOUS
<1>3. IsWellFoundedOn(R, S)
  BY FS_StrictSubsetOrderingWellFounded
<1>4. PICK x \in U : \A y \in U : <<y, x>> \notin R
  <2> HIDE DEF U, R, S
  <2>1. QED
    BY <1>1, <1>2, <1>3, WFMin
<1>5. PICK i \in Nat \ T : x = 0 .. i
  OBVIOUS
<1>6. i # 0 /\ i - 1 \in Nat /\ i = (i - 1) + 1
  OBVIOUS
<1>7. i - 1 \notin T
  BY <1>5, <1>6
<1>8. 0 .. (i - 1) \in U
  BY <1>6, <1>7
<1>9. <<0 .. (i - 1), 0 .. i>> \in R
  <2>1. i \in 0 .. i /\ i \notin 0 .. (i - 1) /\ 0 .. (i - 1) \subseteq 0 .. i /\ 0 .. i \subseteq Nat
    BY <1>6
  <2>2. QED
    BY <2>1 DEF StrictSubsetOrdering
<1>10. QED
  BY <1>4, <1>5, <1>8, <1>9

(* Of finitely many numbers one is the greatest, or the least.              *)
LEMMA Greatest ==
  ASSUME NEW n \in Nat, NEW S \in SUBSET (1 .. n), S # {}
  PROVE  Max(S) \in S
<1> DEFINE P(U) == \E m \in U : \A y \in U : m >= y
           T == {i \in Nat : \A U \in SUBSET (1 .. i) : U # {} => P(U)}
<1>1. 0 \in T
  <2>1. \A U \in SUBSET (1 .. 0) : U = {}
    OBVIOUS
  <2>2. QED
    BY <2>1
<1>2. ASSUME NEW i \in Nat, \A U \in SUBSET (1 .. i) : U # {} => P(U),
             NEW U \in SUBSET (1 .. (i + 1)), U # {}
      PROVE  P(U)
  <2>1. CASE i + 1 \in U
    <3>1. \A y \in U : i + 1 >= y
      OBVIOUS
    <3>2. QED
      BY <2>1, <3>1
  <2>2. CASE i + 1 \notin U
    <3>1. U \in SUBSET (1 .. i)
      BY <2>2
    <3>2. QED
      BY <1>2, <3>1
  <2>3. QED
    BY <2>1, <2>2
<1>3. ASSUME NEW i \in Nat, i \in T PROVE i + 1 \in T
  <2> HIDE DEF P
  <2>1. \A U \in SUBSET (1 .. i) : U # {} => P(U)
    BY <1>3
  <2>2. \A U \in SUBSET (1 .. (i + 1)) : U # {} => P(U)
    BY <1>2, <2>1
  <2>3. i + 1 \in Nat
    OBVIOUS
  <2>4. QED
    BY <2>2, <2>3
<1>4. n \in T
  <2> HIDE DEF T
  <2>1. QED
    BY <1>1, <1>3, Induction
<1>5. P(S)
  <2> HIDE DEF P
  <2>1. QED
    BY <1>4
<1>6. QED
  BY <1>5 DEF Max

LEMMA TwoOfThem ==
  ASSUME NEW a \in Int, NEW b \in Int
  PROVE  Min({a, b}) = IF a <= b THEN a ELSE b
<1> DEFINE m == IF a <= b THEN a ELSE b
<1>1. m \in {a, b} /\ \A y \in {a, b} : m =< y
  OBVIOUS
<1>2. \A z \in {a, b} : (\A y \in {a, b} : z =< y) => z = m
  OBVIOUS
<1>3. QED
  BY <1>1, <1>2 DEF Min

(* Steps in one direction add up.                                           *)
LEMMA StepsAddUp ==
  ASSUME NEW f, NEW n \in Nat, \A i \in 1 .. n : f[i] \in Int,
         \A i \in 1 .. (n - 1) : f[i] <= f[i + 1]
  PROVE  \A i, j \in 1 .. n : i < j => f[i] <= f[j]
<1> DEFINE T == {m \in Nat : m <= n => \A i \in 1 .. m : f[i] <= f[m]}
<1>1. 0 \in T
  OBVIOUS
<1>2. ASSUME NEW m \in Nat, m \in T PROVE m + 1 \in T
  <2>1. m <= n => \A i \in 1 .. m : f[i] <= f[m]
    BY <1>2
  <2>2. ASSUME m + 1 <= n, NEW i \in 1 .. (m + 1) PROVE f[i] <= f[m + 1]
    <3>1. CASE i = m + 1
      <4>1. f[i] \in Int
        BY <2>2
      <4>2. QED
        BY <3>1, <4>1
    <3>2. CASE i # m + 1
      <4>1. i \in 1 .. m /\ m \in 1 .. (n - 1) /\ m <= n
        BY <2>2, <3>2
      <4>2. f[i] <= f[m] /\ f[m] <= f[m + 1]
        BY <2>1, <4>1
      <4>3. f[i] \in Int /\ f[m] \in Int /\ f[m + 1] \in Int
        BY <2>2, <4>1
      <4>4. QED
        BY <4>2, <4>3
    <3>3. QED
      BY <3>1, <3>2
  <2>3. m + 1 \in Nat
    OBVIOUS
  <2>4. QED
    BY <2>2, <2>3
<1>3. Nat \subseteq T
  <2> HIDE DEF T
  <2>1. QED
    BY <1>1, <1>2, Induction
<1>4. QED
  BY <1>3
--------------------------------------------------------------------------------
(* A list comprehension.                                                    *)

(* t holds the elements of s at the indices g, in order: those of the first *)
(* n elements of s that are in S.                                           *)
Picks(t, g, s, S, n) ==
  /\ g \in [1 .. Len(t) -> 1 .. n]
  /\ \A i, j \in 1 .. Len(t) : i < j => g[i] < g[j]
  /\ \A i \in 1 .. Len(t) : t[i] = s[g[i]] /\ s[g[i]] \in S
  /\ \A j \in 1 .. n : s[j] \in S => \E i \in 1 .. Len(t) : g[i] = j

KeepIf(kept, e, S) == IF e \in S THEN Append(kept, e) ELSE kept

(* The function the fold is the result of, on the indices up to n.          *)
FoldedBy(f, s, S, n) ==
  f = [u \in SUBSET (1 .. n) |->
         IF u = {} THEN <<>> ELSE KeepIf(f[u \ {Max(u)}], s[Max(u)], S)]

LEMMA GreatestIsLast ==
  ASSUME NEW n \in Nat, NEW u \in SUBSET (1 .. (n + 1)), n + 1 \in u
  PROVE  Max(u) = n + 1
<1>1. \A y \in u : n + 1 >= y
  OBVIOUS
<1>2. \A z \in u : (\A y \in u : z >= y) => z = n + 1
  BY <1>1
<1>3. QED
  BY <1>1, <1>2 DEF Max

LEMMA FoldExists ==
  ASSUME NEW s, NEW S, NEW n \in Nat
  PROVE  \E f : FoldedBy(f, s, S, n)
<1> DEFINE T == {m \in Nat : \E f : FoldedBy(f, s, S, m)}
<1>1. 0 \in T
  <2> DEFINE f == [u \in SUBSET (1 .. 0) |-> <<>>]
  <2>1. \A u \in SUBSET (1 .. 0) : u = {}
    OBVIOUS
  <2>2. FoldedBy(f, s, S, 0)
    BY <2>1 DEF FoldedBy
  <2>3. QED
    BY <2>2
<1>2. ASSUME NEW m \in Nat, NEW f, FoldedBy(f, s, S, m) PROVE \E g : FoldedBy(g, s, S, m + 1)
  <2> DEFINE last == m + 1
             g == [u \in SUBSET (1 .. last) |->
                     IF last \in u THEN KeepIf(f[u \ {last}], s[last], S) ELSE f[u]]
  <2>1. last \in Nat /\ \A i \in 1 .. last : i # last => i \in 1 .. m
    OBVIOUS
  <2>2. last \notin 1 .. m /\ 1 .. m \subseteq 1 .. last
    OBVIOUS
  <2>3. ASSUME NEW u \in SUBSET (1 .. last)
        PROVE  g[u] = IF u = {} THEN <<>> ELSE KeepIf(g[u \ {Max(u)}], s[Max(u)], S)
    <3>1. CASE u = {}
      <4>1. g[u] = f[u] /\ f[u] = <<>>
        BY <1>2, <3>1 DEF FoldedBy
      <4>2. QED
        BY <3>1, <4>1
    <3>2. CASE last \in u
      <4>1. Max(u) = last
        BY <3>2, GreatestIsLast
      <4>2. u \ {last} \in SUBSET (1 .. last) /\ last \notin u \ {last}
        OBVIOUS
      <4>3. g[u \ {last}] = f[u \ {last}]
        BY <4>2
      <4>4. g[u] = KeepIf(f[u \ {last}], s[last], S)
        BY <3>2
      <4> HIDE DEF g, last
      <4>5. QED
        BY <3>2, <4>1, <4>3, <4>4
    <3>3. CASE last \notin u /\ u # {}
      <4>1. u \in SUBSET (1 .. m)
        BY <2>1, <3>3
      <4>2. Max(u) \in u
        BY <3>3, <4>1, Greatest
      <4>3. u \ {Max(u)} \in SUBSET (1 .. m) /\ u \ {Max(u)} \in SUBSET (1 .. last)
            /\ last \notin u \ {Max(u)}
        BY <3>3, <4>1
      <4>4. g[u] = f[u] /\ g[u \ {Max(u)}] = f[u \ {Max(u)}]
        BY <3>3, <4>3
      <4>5. f[u] = KeepIf(f[u \ {Max(u)}], s[Max(u)], S)
        BY <1>2, <3>3, <4>1 DEF FoldedBy
      <4> HIDE DEF g, last
      <4>6. QED
        BY <3>3, <4>4, <4>5
    <3>4. QED
      BY <3>1, <3>2, <3>3
  <2>4. g = [u \in SUBSET (1 .. last) |-> g[u]]
    OBVIOUS
  <2> HIDE DEF g
  <2>5. FoldedBy(g, s, S, m + 1)
    BY <2>3, <2>4 DEF FoldedBy
  <2>6. QED
    BY <2>5
<1>3. ASSUME NEW m \in Nat, m \in T PROVE m + 1 \in T
  <2>1. \E f : FoldedBy(f, s, S, m)
    BY <1>3
  <2>2. \E g : FoldedBy(g, s, S, m + 1)
    BY <1>2, <2>1
  <2>3. m + 1 \in Nat
    OBVIOUS
  <2>4. QED
    BY <2>2, <2>3
<1>4. n \in T
  <2> HIDE DEF T
  <2>1. QED
    BY <1>1, <1>3, Induction
<1>5. QED
  BY <1>4

(* One more element of s.                                                   *)
LEMMA PicksOneMore ==
  ASSUME NEW A, NEW s \in Seq(A), NEW S, NEW m \in Nat, m + 1 <= Len(s),
         NEW t \in Seq(A), NEW g, Picks(t, g, s, S, m)
  PROVE  /\ KeepIf(t, s[m + 1], S) \in Seq(A)
         /\ \E h : Picks(KeepIf(t, s[m + 1], S), h, s, S, m + 1)
<1> DEFINE last == m + 1
           e == s[last]
           k == Len(t)
<1>1. /\ k \in Nat /\ e \in A /\ last \in Nat /\ 1 .. last = (1 .. m) \cup {last}
      /\ last \notin 1 .. m
  <2>1. last \in 1 .. Len(s)
    BY LenProperties
  <2>2. e \in A
    BY <2>1, ElementOfSeq
  <2>3. QED
    BY <2>2, LenProperties
<1>2. /\ g \in [1 .. k -> 1 .. m]
      /\ \A i, j \in 1 .. k : i < j => g[i] < g[j]
      /\ \A i \in 1 .. k : t[i] = s[g[i]] /\ s[g[i]] \in S
      /\ \A j \in 1 .. m : s[j] \in S => \E i \in 1 .. k : g[i] = j
  BY DEF Picks
<1>3. CASE e \notin S
  <2>1. KeepIf(t, e, S) = t
    BY <1>3 DEF KeepIf
  <2>2. Picks(t, g, s, S, last)
    <3>1. g \in [1 .. k -> 1 .. last]
      BY <1>1, <1>2
    <3>2. \A j \in 1 .. last : s[j] \in S => \E i \in 1 .. k : g[i] = j
      BY <1>1, <1>2, <1>3
    <3>3. QED
      BY <1>2, <3>1, <3>2 DEF Picks
  <2>3. QED
    BY <2>1, <2>2
<1>4. CASE e \in S
  <2> DEFINE u == Append(t, e)
             h == [i \in 1 .. (k + 1) |-> IF i = k + 1 THEN last ELSE g[i]]
  <2>1. KeepIf(t, e, S) = u
    BY <1>4 DEF KeepIf
  <2>2. /\ u \in Seq(A) /\ Len(u) = k + 1 /\ u[k + 1] = e
        /\ \A i \in 1 .. k : u[i] = t[i]
    BY <1>1, AppendProperties
  <2>3. 1 .. (k + 1) = (1 .. k) \cup {k + 1} /\ k + 1 \notin 1 .. k
    BY <1>1
  <2>4. h[k + 1] = last /\ \A i \in 1 .. k : h[i] = g[i]
    BY <1>1, <2>3
  <2> HIDE DEF u, e, last, k
  <2>5. h \in [1 .. (k + 1) -> 1 .. last]
    BY <1>1, <1>2, <2>3, <2>4
  <2>6. ASSUME NEW i \in 1 .. (k + 1), NEW j \in 1 .. (k + 1), i < j PROVE h[i] < h[j]
    <3>1. i \in 1 .. k
      BY <1>1, <2>6
    <3>2. CASE j \in 1 .. k
      BY <1>2, <2>4, <2>6, <3>1, <3>2
    <3>3. CASE j = k + 1
      <4>1. g[i] \in 1 .. m
        BY <1>2, <3>1
      <4>2. g[i] < last
        BY <4>1 DEF last
      <4>3. QED
        BY <2>4, <3>1, <3>3, <4>2
    <3>4. QED
      BY <2>3, <3>2, <3>3
  <2>7. \A i \in 1 .. (k + 1) : u[i] = s[h[i]] /\ s[h[i]] \in S
    <3>1. \A i \in 1 .. k : u[i] = s[h[i]] /\ s[h[i]] \in S
      BY <1>2, <2>2, <2>4
    <3>2. u[k + 1] = s[h[k + 1]] /\ s[h[k + 1]] \in S
      BY <1>4, <2>2, <2>4 DEF e
    <3>3. QED
      BY <2>3, <3>1, <3>2
  <2>8. \A j \in 1 .. last : s[j] \in S => \E i \in 1 .. (k + 1) : h[i] = j
    <3>1. ASSUME NEW j \in 1 .. m, s[j] \in S PROVE \E i \in 1 .. (k + 1) : h[i] = j
      <4>1. PICK i \in 1 .. k : g[i] = j
        BY <1>2, <3>1
      <4>2. QED
        BY <2>3, <2>4, <4>1
    <3>2. \E i \in 1 .. (k + 1) : h[i] = last
      BY <2>3, <2>4
    <3>3. QED
      BY <1>1, <3>1, <3>2
  <2> HIDE DEF h
  <2>9. Picks(u, h, s, S, last)
    BY <2>2, <2>5, <2>6, <2>7, <2>8 DEF Picks
  <2>10. QED
    BY <2>1, <2>2, <2>9 DEF e, last
<1>5. QED
  BY <1>3, <1>4

(* What the comprehension returns.                                          *)
LEMMA OnlyPicks ==
  ASSUME NEW A, NEW s \in Seq(A), NEW S
  PROVE  Only(s, S) \in Seq(A) /\ \E g : Picks(Only(s, S), g, s, S, Len(s))
<1> DEFINE n == Len(s)
           f == CHOOSE f : f = [u \in SUBSET (1 .. n) |->
                  IF u = {} THEN <<>>
                  ELSE IF s[Max(u)] \in S THEN Append(f[u \ {Max(u)}], s[Max(u)])
                       ELSE f[u \ {Max(u)}]]
<1>1. n \in Nat /\ DOMAIN s = 1 .. n
  BY LenProperties
<1>2. Only(s, S) = f[1 .. n]
  BY <1>1 DEF Only, FoldLeft, MapThenFoldSet
<1>3. FoldedBy(f, s, S, n)
  <2>1. PICK g : FoldedBy(g, s, S, n)
    BY <1>1, FoldExists
  <2>2. g = [u \in SUBSET (1 .. n) |->
                  IF u = {} THEN <<>>
                  ELSE IF s[Max(u)] \in S THEN Append(g[u \ {Max(u)}], s[Max(u)])
                       ELSE g[u \ {Max(u)}]]
    BY <2>1 DEF FoldedBy, KeepIf
  <2>3. f = [u \in SUBSET (1 .. n) |->
                  IF u = {} THEN <<>>
                  ELSE IF s[Max(u)] \in S THEN Append(f[u \ {Max(u)}], s[Max(u)])
                       ELSE f[u \ {Max(u)}]]
    BY <2>2
  <2> HIDE DEF f
  <2>4. QED
    BY <2>3 DEF FoldedBy, KeepIf
<1> HIDE DEF f
<1> DEFINE P(m) == f[1 .. m] \in Seq(A) /\ \E g : Picks(f[1 .. m], g, s, S, m)
           T == {m \in Nat : m <= n => P(m)}
<1>4. 0 \in T
  <2>1. 1 .. 0 = {} /\ f[{}] = <<>>
    BY <1>3 DEF FoldedBy
  <2>2. <<>> \in Seq(A) /\ Len(<<>>) = 0
    BY EmptySeq
  <2>3. Picks(<<>>, <<>>, s, S, 0)
    BY <2>1, <2>2 DEF Picks
  <2>4. QED
    BY <2>1, <2>2, <2>3
<1>5. ASSUME NEW m \in Nat, P(m), m + 1 <= n PROVE P(m + 1)
  <2> DEFINE u == 1 .. (m + 1)
  <2>1. u \in SUBSET (1 .. n) /\ u # {} /\ Max(u) = m + 1 /\ u \ {m + 1} = 1 .. m
    <3>1. m + 1 \in u /\ \A i \in u : i \in 1 .. n
      BY <1>1, <1>5
    <3>2. Max(u) = m + 1
      BY <3>1, GreatestIsLast
    <3>3. QED
      BY <3>1, <3>2
  <2> HIDE DEF u
  <2>2. f[u] = KeepIf(f[1 .. m], s[m + 1], S)
    BY <1>3, <2>1 DEF FoldedBy
  <2>3. PICK g : Picks(f[1 .. m], g, s, S, m)
    BY <1>5
  <2>4. f[u] \in Seq(A) /\ \E h : Picks(f[u], h, s, S, m + 1)
    BY <1>5, <2>2, <2>3, PicksOneMore
  <2>5. QED
    BY <2>4 DEF u
<1>6. ASSUME NEW m \in Nat, m \in T PROVE m + 1 \in T
  <2> HIDE DEF P
  <2>1. m <= n => P(m)
    BY <1>6
  <2>2. m + 1 <= n => P(m + 1)
    BY <1>1, <1>5, <2>1
  <2>3. m + 1 \in Nat
    OBVIOUS
  <2>4. QED
    BY <2>2, <2>3
<1>7. n \in T
  <2> HIDE DEF T
  <2>1. QED
    BY <1>1, <1>4, <1>6, Induction
<1>8. P(n)
  <2> HIDE DEF P
  <2>1. QED
    BY <1>1, <1>7
<1>9. QED
  BY <1>2, <1>8

LEMMA OnlyRange ==
  ASSUME NEW A, NEW s \in Seq(A), NEW S
  PROVE  Range(Only(s, S)) = Range(s) \cap S
<1> DEFINE t == Only(s, S)
<1>1. t \in Seq(A) /\ \E g : Picks(t, g, s, S, Len(s))
  BY OnlyPicks
<1> HIDE DEF t
<1>2. PICK g : Picks(t, g, s, S, Len(s))
  BY <1>1
<1>3. DOMAIN s = 1 .. Len(s) /\ DOMAIN t = 1 .. Len(t)
  BY <1>1, LenProperties
<1>4. ASSUME NEW i \in DOMAIN t PROVE t[i] \in Range(s) \cap S
  BY <1>2, <1>3 DEF Picks, Range
<1>5. ASSUME NEW j \in DOMAIN s, s[j] \in S PROVE s[j] \in Range(t)
  <2>1. PICK i \in 1 .. Len(t) : g[i] = j
    BY <1>2, <1>3, <1>5 DEF Picks
  <2>2. t[i] = s[j]
    BY <1>2, <2>1 DEF Picks
  <2>3. QED
    BY <1>3, <2>2 DEF Range
<1>6. QED
  BY <1>4, <1>5 DEF Range, t

(* Each element comes from a place of its own.                              *)
LEMMA OnlyFrom ==
  ASSUME NEW A, NEW s \in Seq(A), NEW S
  PROVE  LET t == Only(s, S)
         IN  \E g \in [DOMAIN t -> DOMAIN s] :
               IsInjective(g) /\ \A i \in DOMAIN t : t[i] = s[g[i]]
<1> DEFINE t == Only(s, S)
<1>1. t \in Seq(A) /\ \E g : Picks(t, g, s, S, Len(s))
  BY OnlyPicks
<1> HIDE DEF t
<1>2. PICK g : Picks(t, g, s, S, Len(s))
  BY <1>1
<1>3. DOMAIN s = 1 .. Len(s) /\ DOMAIN t = 1 .. Len(t) /\ Len(t) \in Nat /\ Len(s) \in Nat
  BY <1>1, LenProperties
<1>4. g \in [DOMAIN t -> DOMAIN s] /\ \A i \in DOMAIN t : t[i] = s[g[i]]
  BY <1>2, <1>3 DEF Picks
<1>5. ASSUME NEW i \in DOMAIN t, NEW j \in DOMAIN t, g[i] = g[j] PROVE i = j
  <2>1. (i < j => g[i] < g[j]) /\ (j < i => g[j] < g[i])
    BY <1>2, <1>3 DEF Picks
  <2>2. i \in Nat /\ j \in Nat /\ g[i] \in Nat
    BY <1>3, <1>4
  <2>3. QED
    BY <1>5, <2>1, <2>2
<1>6. QED
  BY <1>4, <1>5 DEF IsInjective, t

(* Nothing is twice that was not.                                           *)
LEMMA OnlyOnce ==
  ASSUME NEW A, NEW s \in Seq(A), NEW S, IsInjective(s)
  PROVE  IsInjective(Only(s, S))
<1> DEFINE t == Only(s, S)
<1>1. PICK g \in [DOMAIN t -> DOMAIN s] :
        IsInjective(g) /\ \A i \in DOMAIN t : t[i] = s[g[i]]
  BY OnlyFrom
<1> HIDE DEF t
<1>2. QED
  BY <1>1 DEF IsInjective, t

(* As many as there are.                                                    *)
LEMMA OnlyCounts ==
  ASSUME NEW A, NEW s \in Seq(A), NEW S
  PROVE  LET some == {i \in DOMAIN s : s[i] \in S}
         IN  IsFiniteSet(some) /\ Len(Only(s, S)) = Cardinality(some)
<1> DEFINE t == Only(s, S)
           some == {i \in DOMAIN s : s[i] \in S}
<1>1. t \in Seq(A) /\ \E g : Picks(t, g, s, S, Len(s))
  BY OnlyPicks
<1> HIDE DEF t
<1>2. PICK g : Picks(t, g, s, S, Len(s))
  BY <1>1
<1>3. DOMAIN s = 1 .. Len(s) /\ DOMAIN t = 1 .. Len(t) /\ Len(t) \in Nat /\ Len(s) \in Nat
  BY <1>1, LenProperties
<1>4. g \in [1 .. Len(t) -> some]
  BY <1>2, <1>3 DEF Picks
<1>5. \A i, j \in 1 .. Len(t) : g[i] = g[j] => i = j
  <2> SUFFICES ASSUME NEW i \in 1 .. Len(t), NEW j \in 1 .. Len(t), g[i] = g[j] PROVE i = j
    OBVIOUS
  <2>1. (i < j => g[i] < g[j]) /\ (j < i => g[j] < g[i])
    BY <1>2 DEF Picks
  <2>2. g[i] \in 1 .. Len(s)
    BY <1>2 DEF Picks
  <2>3. i \in Nat /\ j \in Nat /\ g[i] \in Nat
    BY <1>3, <2>2
  <2>4. QED
    BY <2>1, <2>3
<1>6. \A j \in some : \E i \in 1 .. Len(t) : g[i] = j
  BY <1>2, <1>3 DEF Picks
<1> HIDE DEF some
<1>7. g \in Bijection(1 .. Len(t), some)
  BY <1>4, <1>5, <1>6 DEF Bijection, Injection, Surjection, IsInjective
<1> DEFINE k == Len(t)
<1>8. IsFiniteSet(1 .. k) /\ Cardinality(1 .. k) = k
  <2>1. k \in Nat
    BY <1>3
  <2> HIDE DEF k
  <2>2. QED
    BY <2>1, FS_Interval
<1>9. IsFiniteSet(some) /\ Cardinality(some) = Cardinality(1 .. Len(t))
  BY <1>7, <1>8, FS_Bijection DEF ExistsBijection
<1>10. QED
  BY <1>8, <1>9 DEF t, some

(* Nothing is dropped only if everything belongs.                           *)
LEMMA AllOfThem ==
  ASSUME NEW A, NEW s \in Seq(A), NEW S, Len(Only(s, S)) = Len(s)
  PROVE  Range(s) \subseteq S
<1> DEFINE places == DOMAIN s
           some == {i \in places : s[i] \in S}
<1>1. IsFiniteSet(some) /\ Cardinality(some) = Len(s)
  BY OnlyCounts
<1>2. IsFiniteSet(places) /\ Cardinality(places) = Len(s)
  <2> DEFINE n == Len(s)
  <2>1. n \in Nat /\ places = 1 .. n
    BY LenProperties
  <2> HIDE DEF n, places
  <2>2. IsFiniteSet(1 .. n) /\ Cardinality(1 .. n) = n
    BY <2>1, FS_Interval
  <2>3. QED
    BY <2>1, <2>2 DEF n
<1>3. some \in SUBSET places
  OBVIOUS
<1> HIDE DEF some, places
<1>4. places = some
  BY <1>1, <1>2, <1>3, FS_Subset
<1>5. QED
  BY <1>4 DEF some, places, Range

(* The one element that belongs.                                            *)
LEMMA TheOneOfThem ==
  ASSUME NEW A, NEW s \in Seq(A), NEW S, NEW i \in DOMAIN s,
         \A j \in DOMAIN s : s[j] \in S <=> j = i
  PROVE  Only(s, S)[1] = s[i]
<1> DEFINE t == Only(s, S)
<1>1. t \in Seq(A) /\ Range(t) = {s[i]}
  <2>1. Range(s) \cap S = {s[i]}
    BY DEF Range
  <2>2. QED
    BY <2>1, OnlyPicks, OnlyRange
<1> HIDE DEF t
<1>2. DOMAIN t = 1 .. Len(t) /\ Len(t) \in Nat
  BY <1>1, LenProperties
<1>3. DOMAIN t # {}
  BY <1>1 DEF Range
<1>4. 1 \in DOMAIN t
  BY <1>2, <1>3
<1>5. t[1] = s[i]
  BY <1>1, <1>4 DEF Range
<1>6. QED
  BY <1>5 DEF t

(* A set as a sequence.                                                     *)
LEMMA SetToSeqRange ==
  ASSUME NEW S, IsFiniteSet(S)
  PROVE  /\ SetToSeq(S) \in Seq(S) /\ Range(SetToSeq(S)) = S
         /\ IsInjective(SetToSeq(S))
<1> DEFINE n == Cardinality(S)
           f == SetToSeq(S)
<1>1. n \in Nat /\ ExistsBijection(1 .. n, S)
  BY FS_CardinalityType
<1>2. PICK g : g \in [1 .. n -> S] /\ IsInjective(g)
  BY <1>1 DEF ExistsBijection, Bijection, Injection
<1>3. f \in [1 .. n -> S] /\ IsInjective(f)
  BY <1>2 DEF SetToSeq
<1> HIDE DEF f
<1>4. IsFiniteSet(1 .. n) /\ Cardinality(1 .. n) = n
  BY <1>1, FS_Interval
<1> HIDE DEF n
<1>5. f \in Injection(1 .. n, S)
  BY <1>3 DEF Injection
<1>6. Cardinality(1 .. n) = Cardinality(S)
  BY <1>4 DEF n
<1>7. f \in Surjection(1 .. n, S)
  BY <1>5, <1>6, FS_Injection
<1>8. Range(f) = S
  BY <1>3, <1>7 DEF Surjection, Range
<1>9. f \in Seq(S)
  BY <1>1, <1>3, SeqDef DEF n
<1>10. QED
  BY <1>3, <1>8, <1>9 DEF f

(* The last elements of a sequence, as many as there is room for.           *)
LastElements(s, cap) == SubSeq(s, Max({1, Len(s) - cap + 1}), Len(s))

LEMMA LastOf ==
  ASSUME NEW S, NEW s \in Seq(S), NEW cap \in Nat \ {0}
  PROVE  LET kept == LastElements(s, cap)
         IN  /\ kept \in Seq(S)
             /\ \E d \in Nat : \A i \in DOMAIN kept : i + d \in DOMAIN s /\ kept[i] = s[i + d]
             /\ s # <<>> => /\ Len(kept) \in Nat \ {0}
                            /\ kept[Len(kept)] = s[Len(s)]
<1> DEFINE x == Len(s) - cap + 1
           first == Max({1, x})
           kept == SubSeq(s, first, Len(s))
<1>1. Len(s) \in Nat /\ DOMAIN s = 1 .. Len(s) /\ \A i \in 1 .. Len(s) : s[i] \in S
  BY LenProperties, ElementOfSeq
<1>2. first \in Int /\ first >= 1 /\ (Len(s) # 0 => first <= Len(s))
  <2>1. x \in Int /\ x <= Len(s)
    BY <1>1
  <2> HIDE DEF x
  <2>2. \E m \in {1, x} : \A y \in {1, x} : m >= y
    BY <2>1
  <2>3. Max({1, x}) \in {1, x} /\ Max({1, x}) >= 1
    BY <2>2 DEF Max
  <2>4. QED
    BY <1>1, <2>1, <2>3
<1> HIDE DEF first, kept
<1>3. /\ kept \in Seq(S)
      /\ Len(kept) = IF first <= Len(s) THEN Len(s) - first + 1 ELSE 0
      /\ \A i \in 1 .. Len(s) - first + 1 : kept[i] = s[first + i - 1]
  <2>1. \A i \in first .. Len(s) : s[i] \in S
    BY <1>1, <1>2
  <2>2. QED
    BY <1>1, <1>2, <2>1, SubSeqProperties DEF kept
<1>4. DOMAIN kept = 1 .. Len(kept)
  BY <1>3, LenProperties
<1>5. first - 1 \in Nat
  BY <1>2
<1>6. \A i \in DOMAIN kept : i + (first - 1) \in DOMAIN s /\ kept[i] = s[i + (first - 1)]
  BY <1>1, <1>2, <1>3, <1>4
<1>7. s # <<>> => Len(kept) \in Nat \ {0} /\ kept[Len(kept)] = s[Len(s)]
  <2>1. SUFFICES ASSUME s # <<>>
                 PROVE  Len(kept) \in Nat \ {0} /\ kept[Len(kept)] = s[Len(s)]
    OBVIOUS
  <2>2. Len(s) # 0
    BY <1>1, <2>1
  <2> DEFINE n == Len(s)
             m == Len(kept)
  <2>3. n \in Nat /\ first \in 1 .. n /\ m = n - first + 1
    BY <1>1, <1>2, <1>3, <2>2
  <2> HIDE DEF n, m
  <2>4. m \in Nat \ {0} /\ m \in 1 .. n - first + 1 /\ first + m - 1 = n
    BY <2>3
  <2>5. kept[m] = s[n]
    BY <1>3, <2>4 DEF n
  <2>6. QED
    BY <2>4, <2>5 DEF n, m
<1>8. QED
  BY <1>3, <1>5, <1>6, <1>7 DEF kept, first, LastElements

(* How many are dropped.                                                    *)
LEMMA LastAre ==
  ASSUME NEW S, NEW s \in Seq(S), NEW cap \in Nat \ {0}
  PROVE  LET kept == LastElements(s, cap)
         IN  \E d \in Nat : /\ Len(kept) + d = Len(s) /\ (d # 0 => Len(kept) = cap)
                           /\ \A i \in DOMAIN kept : i + d \in DOMAIN s /\ kept[i] = s[i + d]
<1> DEFINE x == Len(s) - cap + 1
           first == Max({1, x})
           n == Len(s)
           kept == SubSeq(s, first, n)
<1>1. n \in Nat /\ DOMAIN s = 1 .. n /\ \A i \in 1 .. n : s[i] \in S
  BY LenProperties, ElementOfSeq
<1>2. first \in Int /\ first >= 1 /\ first <= n + 1 /\ (first = 1 \/ first = x)
  <2>1. x \in Int /\ x <= n
    BY <1>1
  <2> HIDE DEF x
  <2>2. \E m \in {1, x} : \A y \in {1, x} : m >= y
    BY <2>1
  <2>3. Max({1, x}) \in {1, x} /\ Max({1, x}) >= 1
    BY <2>2 DEF Max
  <2>4. QED
    BY <1>1, <2>1, <2>3
<1>3. first = x => first = n - cap + 1
  OBVIOUS
<1> HIDE DEF first, kept, x, n
<1>4. /\ kept \in Seq(S)
      /\ Len(kept) = IF first <= n THEN n - first + 1 ELSE 0
      /\ \A i \in 1 .. n - first + 1 : kept[i] = s[first + i - 1]
  <2>1. \A i \in first .. n : s[i] \in S
    BY <1>1, <1>2
  <2>2. QED
    BY <1>1, <1>2, <2>1, SubSeqProperties DEF kept
<1>5. DOMAIN kept = 1 .. Len(kept) /\ Len(kept) = n - first + 1
  BY <1>1, <1>2, <1>4, LenProperties
<1>6. first - 1 \in Nat /\ Len(kept) + (first - 1) = n /\ (first - 1 # 0 => Len(kept) = cap)
  BY <1>1, <1>2, <1>3, <1>5
<1>7. \A i \in DOMAIN kept : i + (first - 1) \in DOMAIN s /\ kept[i] = s[i + (first - 1)]
  BY <1>1, <1>2, <1>4, <1>5
<1>8. QED
  BY <1>6, <1>7 DEF kept, first, n, x, LastElements

--------------------------------------------------------------------------------
(* Elements that are in a sequence once.                                    *)

OnceIn(s, K) == \A i, j \in DOMAIN s : s[i] \in K /\ s[i] = s[j] => i = j

LEMMA OnceOnly ==
  ASSUME NEW A, NEW s \in Seq(A), NEW S, NEW K, OnceIn(s, K)
  PROVE  OnceIn(Only(s, S), K)
<1> DEFINE t == Only(s, S)
<1>1. PICK g \in [DOMAIN t -> DOMAIN s] :
        IsInjective(g) /\ \A i \in DOMAIN t : t[i] = s[g[i]]
  BY OnlyFrom
<1> HIDE DEF t
<1>2. ASSUME NEW i \in DOMAIN t, NEW j \in DOMAIN t, t[i] \in K, t[i] = t[j] PROVE i = j
  <2>1. g[i] \in DOMAIN s /\ g[j] \in DOMAIN s /\ s[g[i]] \in K /\ s[g[i]] = s[g[j]]
    BY <1>1, <1>2
  <2>2. g[i] = g[j]
    BY <2>1 DEF OnceIn
  <2>3. QED
    BY <1>1, <2>2 DEF IsInjective
<1>3. QED
  BY <1>2 DEF OnceIn, t

LEMMA OnceLast ==
  ASSUME NEW A, NEW s \in Seq(A), NEW cap \in Nat \ {0}, NEW K, OnceIn(s, K)
  PROVE  OnceIn(LastElements(s, cap), K)
<1> DEFINE kept == LastElements(s, cap)
<1>1. /\ kept \in Seq(A)
      /\ \E d \in Nat : \A i \in DOMAIN kept : i + d \in DOMAIN s /\ kept[i] = s[i + d]
  BY LastOf
<1> HIDE DEF kept
<1>2. PICK d \in Nat : \A i \in DOMAIN kept : i + d \in DOMAIN s /\ kept[i] = s[i + d]
  BY <1>1
<1>3. \A i \in DOMAIN kept : i \in Nat
  BY <1>1, LenProperties
<1>4. ASSUME NEW i \in DOMAIN kept, NEW j \in DOMAIN kept, kept[i] \in K, kept[i] = kept[j]
      PROVE  i = j
  <2>1. i + d = j + d
    BY <1>2, <1>4 DEF OnceIn
  <2>2. QED
    BY <1>3, <2>1
<1>5. QED
  BY <1>4 DEF OnceIn, kept

LEMMA OnceJoined ==
  ASSUME NEW A, NEW s \in Seq(A), NEW t \in Seq(A), NEW K, OnceIn(s, K), OnceIn(t, K),
         K \cap Range(s) \cap Range(t) = {}
  PROVE  OnceIn(s \o t, K)
<1> DEFINE u == s \o t
           m == Len(s)
           n == Len(t)
<1>1. /\ u \in Seq(A) /\ Len(u) = m + n
      /\ \A i \in 1 .. m : u[i] = s[i]
      /\ \A i \in 1 .. n : u[m + i] = t[i]
  BY ConcatProperties
<1> HIDE DEF u
<1>2. /\ DOMAIN s = 1 .. m /\ DOMAIN t = 1 .. n /\ DOMAIN u = 1 .. (m + n)
      /\ m \in Nat /\ n \in Nat
  BY <1>1, LenProperties
<1> HIDE DEF m, n
<1>3. \A i \in DOMAIN u : \/ i \in DOMAIN s /\ u[i] = s[i]
                          \/ i - m \in DOMAIN t /\ u[i] = t[i - m]
  <2>1. \A i \in 1 .. (m + n) : i \in 1 .. m \/ (i - m \in 1 .. n /\ i = m + (i - m))
    BY <1>2
  <2>2. ASSUME NEW i \in DOMAIN u
        PROVE  \/ i \in DOMAIN s /\ u[i] = s[i]
               \/ i - m \in DOMAIN t /\ u[i] = t[i - m]
    <3>1. CASE i \in 1 .. m
      BY <1>1, <1>2, <3>1
    <3>2. CASE i - m \in 1 .. n /\ i = m + (i - m)
      BY <1>1, <1>2, <3>2
    <3>3. QED
      BY <1>2, <2>1, <2>2, <3>1, <3>2
  <2>3. QED
    BY <2>2
<1>4. \A x : ~(x \in K /\ x \in Range(s) /\ x \in Range(t))
  OBVIOUS
<1>5. ASSUME NEW i \in DOMAIN u, NEW j \in DOMAIN u, u[i] \in K, u[i] = u[j] PROVE i = j
  <2>1. CASE i \in DOMAIN s /\ u[i] = s[i]
    <3>1. u[i] \in Range(s)
      BY <2>1 DEF Range
    <3>2. ~(j - m \in DOMAIN t /\ u[j] = t[j - m])
      BY <1>4, <1>5, <3>1 DEF Range
    <3>3. j \in DOMAIN s /\ u[j] = s[j]
      BY <1>3, <3>2
    <3>4. QED
      BY <1>5, <2>1, <3>3 DEF OnceIn
  <2>2. CASE i - m \in DOMAIN t /\ u[i] = t[i - m]
    <3>1. u[i] \in Range(t)
      BY <2>2 DEF Range
    <3>2. ~(j \in DOMAIN s /\ u[j] = s[j])
      BY <1>4, <1>5, <3>1 DEF Range
    <3>3. j - m \in DOMAIN t /\ u[j] = t[j - m]
      BY <1>3, <3>2
    <3>4. i - m = j - m
      BY <1>5, <2>2, <3>3 DEF OnceIn
    <3>5. QED
      BY <1>2, <3>4
  <2>3. QED
    BY <1>3, <2>1, <2>2
<1>6. QED
  BY <1>5 DEF OnceIn, u

(* At most one element.                                                     *)
LEMMA OnceAtMost ==
  ASSUME NEW A, NEW condition, NEW x, condition => x \in A, NEW K
  PROVE  LET s == IF condition THEN <<x>> ELSE <<>>
         IN  s \in Seq(A) /\ OnceIn(s, K) /\ Range(s) \subseteq {x}
<1>1. /\ <<>> \in Seq(A) /\ DOMAIN <<>> = {} /\ DOMAIN <<x>> = {1}
      /\ <<x>>[1] = x /\ (x \in A => <<x>> \in Seq(A))
  BY EmptySeq
<1>2. OnceIn(<<>>, K) /\ OnceIn(<<x>>, K) /\ Range(<<>>) = {} /\ Range(<<x>>) = {x}
  BY <1>1 DEF OnceIn, Range
<1>3. QED
  BY <1>1, <1>2
--------------------------------------------------------------------------------
(* A list of lists, put end to end (FlattenSeq).                            *)

(* Element p of t is element h[p] of list g[p], one of the first n of ss,   *)
(* and no other element of t is that one.                                   *)
ComesFrom(t, g, h, ss, n) ==
  /\ g \in [1 .. Len(t) -> 1 .. n] /\ h \in [1 .. Len(t) -> Nat]
  /\ \A p \in 1 .. Len(t) : h[p] \in DOMAIN ss[g[p]] /\ t[p] = ss[g[p]][h[p]]
  /\ \A p, q \in 1 .. Len(t) : g[p] = g[q] /\ h[p] = h[q] => p = q

(* The recursive function behind it, on the first n lists.                  *)
JoinedBy(f, ss, n) ==
  f = [i \in 1 .. n |-> IF i = 1 THEN ss[i] ELSE f[i - 1] \o ss[i]]

LEMMA JoinExists ==
  ASSUME NEW ss, NEW n \in Nat
  PROVE  \E f : JoinedBy(f, ss, n)
<1> DEFINE T == {m \in Nat : \E f : JoinedBy(f, ss, m)}
<1>1. 0 \in T
  <2> DEFINE f == [i \in 1 .. 0 |-> <<>>]
  <2>1. \A i \in 1 .. 0 : FALSE
    OBVIOUS
  <2>2. JoinedBy(f, ss, 0)
    BY <2>1 DEF JoinedBy
  <2>3. QED
    BY <2>2
<1>2. ASSUME NEW m \in Nat, NEW f, JoinedBy(f, ss, m) PROVE \E g : JoinedBy(g, ss, m + 1)
  <2> DEFINE last == m + 1
             g == [i \in 1 .. last |->
                     IF i = last THEN IF i = 1 THEN ss[i] ELSE f[m] \o ss[i] ELSE f[i]]
  <2>1. \A i \in 1 .. m : f[i] = IF i = 1 THEN ss[i] ELSE f[i - 1] \o ss[i]
    BY <1>2 DEF JoinedBy
  <2>2. ASSUME NEW i \in 1 .. last
        PROVE  g[i] = IF i = 1 THEN ss[i] ELSE g[i - 1] \o ss[i]
    <3>1. CASE i = last
      <4>1. i # 1 => i - 1 = m /\ m \in 1 .. last /\ m # last
        BY <3>1
      <4>2. i # 1 => g[i - 1] = f[m]
        BY <4>1
      <4>3. QED
        BY <3>1, <4>2
    <3>2. CASE i # last
      <4>1. i \in 1 .. m /\ (i # 1 => i - 1 \in 1 .. last /\ i - 1 # last)
        BY <3>2
      <4>2. g[i] = f[i] /\ (i # 1 => g[i - 1] = f[i - 1])
        BY <3>2, <4>1
      <4>3. QED
        BY <2>1, <4>1, <4>2
    <3>3. QED
      BY <3>1, <3>2
  <2>3. g = [i \in 1 .. last |-> g[i]]
    OBVIOUS
  <2> HIDE DEF g
  <2>4. JoinedBy(g, ss, m + 1)
    BY <2>2, <2>3 DEF JoinedBy
  <2>5. QED
    BY <2>4
<1>3. ASSUME NEW m \in Nat, m \in T PROVE m + 1 \in T
  <2>1. \E f : JoinedBy(f, ss, m)
    BY <1>3
  <2>2. \E g : JoinedBy(g, ss, m + 1)
    BY <1>2, <2>1
  <2>3. m + 1 \in Nat
    OBVIOUS
  <2>4. QED
    BY <2>2, <2>3
<1>4. n \in T
  <2> HIDE DEF T
  <2>1. QED
    BY <1>1, <1>3, Induction
<1>5. QED
  BY <1>4

(* One more list.                                                           *)
LEMMA ComesOneMore ==
  ASSUME NEW S, NEW ss \in Seq(Seq(S)), NEW m \in Nat, m + 1 <= Len(ss),
         NEW t \in Seq(S), NEW g, NEW h, ComesFrom(t, g, h, ss, m)
  PROVE  /\ t \o ss[m + 1] \in Seq(S)
         /\ \E a, b : ComesFrom(t \o ss[m + 1], a, b, ss, m + 1)
<1> DEFINE last == m + 1
           list == ss[last]
           u == t \o list
           k == Len(t)
           l == Len(list)
           a == [p \in 1 .. (k + l) |-> IF p <= k THEN g[p] ELSE last]
           b == [p \in 1 .. (k + l) |-> IF p <= k THEN h[p] ELSE p - k]
<1>1. list \in Seq(S)
  <2>1. last \in 1 .. Len(ss)
    BY LenProperties
  <2>2. QED
    BY <2>1, ElementOfSeq
<1>2. /\ u \in Seq(S) /\ Len(u) = k + l
      /\ \A p \in 1 .. k : u[p] = t[p]
      /\ \A p \in 1 .. l : u[k + p] = list[p]
  BY <1>1, ConcatProperties
<1>3. k \in Nat /\ l \in Nat /\ DOMAIN list = 1 .. l
  BY <1>1, LenProperties
<1>4. /\ g \in [1 .. k -> 1 .. m] /\ h \in [1 .. k -> Nat]
      /\ \A p \in 1 .. k : h[p] \in DOMAIN ss[g[p]] /\ t[p] = ss[g[p]][h[p]]
      /\ \A p, q \in 1 .. k : g[p] = g[q] /\ h[p] = h[q] => p = q
  BY DEF ComesFrom
<1>5. last \in Nat /\ last \notin 1 .. m /\ 1 .. m \subseteq 1 .. last /\ last \in 1 .. last
  OBVIOUS
<1> DEFINE n == k + l
<1>6. n \in Nat /\ \A p \in 1 .. n : \/ p \in 1 .. k /\ p <= k
                                     \/ p - k \in 1 .. l /\ p = k + (p - k) /\ ~(p <= k)
  BY <1>3
<1> HIDE DEF u, list, last, k, l, n
<1>7. \A p \in 1 .. n : /\ p <= k => a[p] = g[p] /\ b[p] = h[p]
                        /\ ~(p <= k) => a[p] = last /\ b[p] = p - k
  BY DEF n
<1>8. a \in [1 .. n -> 1 .. last] /\ b \in [1 .. n -> Nat]
  <2>1. ASSUME NEW p \in 1 .. n PROVE a[p] \in 1 .. last /\ b[p] \in Nat
    <3>1. CASE p <= k
      <4>1. p \in 1 .. k /\ a[p] = g[p] /\ b[p] = h[p]
        BY <1>6, <1>7, <3>1
      <4>2. QED
        BY <1>4, <1>5, <4>1
    <3>2. CASE ~(p <= k)
      <4>1. p - k \in 1 .. l /\ a[p] = last /\ b[p] = p - k
        BY <1>6, <1>7, <3>2
      <4>2. QED
        BY <1>5, <4>1
    <3>3. QED
      BY <3>1, <3>2
  <2>2. a = [p \in 1 .. n |-> a[p]] /\ b = [p \in 1 .. n |-> b[p]]
    BY DEF n
  <2> HIDE DEF a, b
  <2>3. QED
    BY <2>1, <2>2
<1> HIDE DEF a, b
<1>9. ASSUME NEW p \in 1 .. n
      PROVE  b[p] \in DOMAIN ss[a[p]] /\ u[p] = ss[a[p]][b[p]]
  <2>1. CASE p <= k
    <3>1. p \in 1 .. k
      BY <1>6, <2>1
    <3>2. QED
      BY <1>2, <1>4, <1>7, <2>1, <3>1
  <2>2. CASE ~(p <= k)
    <3>1. p - k \in 1 .. l /\ p = k + (p - k)
      BY <1>6, <2>2
    <3>2. u[p] = list[p - k]
      BY <1>2, <3>1
    <3>3. QED
      BY <1>3, <1>7, <2>2, <3>1, <3>2 DEF list
  <2>3. QED
    BY <2>1, <2>2
<1>10. ASSUME NEW p \in 1 .. n, NEW q \in 1 .. n, a[p] = a[q], b[p] = b[q] PROVE p = q
  <2>1. p <= k <=> q <= k
    <3>1. \A i \in 1 .. n : i <= k => a[i] \in 1 .. m
      BY <1>4, <1>6, <1>7
    <3>2. \A i \in 1 .. n : ~(i <= k) => a[i] = last
      BY <1>7
    <3>3. QED
      BY <1>5, <1>10, <3>1, <3>2
  <2>2. CASE p <= k
    BY <1>4, <1>6, <1>7, <1>10, <2>1, <2>2
  <2>3. CASE ~(p <= k)
    BY <1>3, <1>6, <1>7, <1>10, <2>1, <2>3
  <2>4. QED
    BY <2>2, <2>3
<1>11. Len(u) = n
  BY <1>2 DEF n, k, l
<1>12. ComesFrom(u, a, b, ss, last)
  BY <1>8, <1>9, <1>10, <1>11 DEF ComesFrom
<1>13. QED
  BY <1>2, <1>12 DEF u, list, last

(* Every element of the result has a place of its own in the lists.         *)
LEMMA Flattened ==
  ASSUME NEW S, NEW ss \in Seq(Seq(S))
  PROVE  /\ FlattenSeq(ss) \in Seq(S)
         /\ \E g, h : ComesFrom(FlattenSeq(ss), g, h, ss, Len(ss))
<1> DEFINE n == Len(ss)
           Good(t, m) == t \in Seq(S) /\ \E g, h : ComesFrom(t, g, h, ss, m)
           f == CHOOSE f : f = [i \in 1 .. n |-> IF i = 1 THEN ss[i] ELSE f[i - 1] \o ss[i]]
<1>1. n \in Nat
  BY LenProperties
<1>2. Good(<<>>, 0)
  <2>1. Len(<<>>) = 0 /\ <<>> \in Seq(S) /\ \A p \in 1 .. 0 : FALSE
    BY EmptySeq
  <2> DEFINE none == [p \in 1 .. 0 |-> 0]
  <2>2. none \in [1 .. 0 -> 1 .. 0] /\ none \in [1 .. 0 -> Nat]
    BY <2>1
  <2> HIDE DEF none
  <2>3. ComesFrom(<<>>, none, none, ss, 0)
    BY <2>1, <2>2 DEF ComesFrom
  <2>4. QED
    BY <2>1, <2>3
<1>3. ASSUME NEW m \in Nat, m + 1 <= n, NEW t, Good(t, m) PROVE Good(t \o ss[m + 1], m + 1)
  <2>1. PICK g, h : ComesFrom(t, g, h, ss, m)
    BY <1>3
  <2>2. t \in Seq(S)
    BY <1>3
  <2>3. QED
    BY <1>3, <2>1, <2>2, ComesOneMore
<1>4. CASE n = 0
  <2>1. FlattenSeq(ss) = ss /\ ss = <<>>
    BY <1>4, EmptySeq DEF FlattenSeq
  <2>2. QED
    BY <1>2, <1>4, <2>1
<1>5. CASE n # 0
  <2>1. FlattenSeq(ss) = f[n]
    BY <1>5 DEF FlattenSeq
  <2>2. JoinedBy(f, ss, n)
    <3>1. \E e : JoinedBy(e, ss, n)
      BY <1>1, JoinExists
    <3>2. QED
      BY <3>1 DEF JoinedBy
  <2> HIDE DEF f, Good
  <2>3. \A i \in 1 .. n : f[i] = IF i = 1 THEN ss[i] ELSE f[i - 1] \o ss[i]
    BY <2>2 DEF JoinedBy
  <2> DEFINE T == {m \in Nat : m + 1 <= n => Good(f[m + 1], m + 1)}
  <2>4. 0 \in T
    <3>1. SUFFICES ASSUME 0 + 1 <= n PROVE Good(f[0 + 1], 0 + 1)
      OBVIOUS
    <3>2. 0 + 1 = 1 /\ 1 \in 1 .. n
      BY <1>1, <3>1
    <3>3. f[1] = ss[1]
      BY <2>3, <3>2
    <3>4. ss[1] \in Seq(S)
      BY <3>2, ElementOfSeq
    <3>5. <<>> \o ss[1] = ss[1]
      BY <3>4, ConcatEmptySeq
    <3>6. Good(<<>> \o ss[0 + 1], 0 + 1)
      BY <1>2, <1>3, <3>1
    <3>7. QED
      BY <3>2, <3>3, <3>5, <3>6
  <2>5. ASSUME NEW m \in Nat, m \in T PROVE m + 1 \in T
    <3>1. SUFFICES ASSUME (m + 1) + 1 <= n PROVE Good(f[(m + 1) + 1], (m + 1) + 1)
      OBVIOUS
    <3>2. /\ m + 1 \in Nat /\ m + 1 <= n /\ (m + 1) + 1 \in 1 .. n
          /\ (m + 1) + 1 # 1 /\ ((m + 1) + 1) - 1 = m + 1
      BY <1>1, <3>1
    <3>3. Good(f[m + 1], m + 1)
      BY <2>5, <3>2
    <3>4. Good(f[m + 1] \o ss[(m + 1) + 1], (m + 1) + 1)
      BY <1>3, <3>1, <3>2, <3>3
    <3>5. f[(m + 1) + 1] = f[m + 1] \o ss[(m + 1) + 1]
      BY <2>3, <3>2
    <3>6. QED
      BY <3>4, <3>5
  <2>6. n - 1 \in T
    <3>1. n - 1 \in Nat
      BY <1>1, <1>5
    <3> HIDE DEF T
    <3>2. QED
      BY <2>4, <2>5, <3>1, Induction
  <2>7. Good(f[n], n)
    <3>1. (n - 1) + 1 = n
      BY <1>1
    <3>2. QED
      BY <1>1, <2>6, <3>1
  <2>8. QED
    BY <2>1, <2>7 DEF Good
<1>6. QED
  BY <1>4, <1>5
================================================================================
