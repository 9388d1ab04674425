---------------------------- MODULE SequenceLemmas ----------------------------
(* Sequences that the models compute step by step: the joined parts of a list of
   sequences, a filter of a list.  None of these lemmas is about the system.     *)
EXTENDS Selection, TLAPS, SequenceTheorems, FiniteSetTheorems

LEMMA LeastNumber ==
    ASSUME NEW T, T \subseteq Nat, T # {}
    PROVE  \E n \in T : \A m \in T : n <= m
<1>. DEFINE I == {0..n : n \in T}
<1>1. I \subseteq FiniteSubsetsOf(Nat)
  <2>1. \A n \in T : IsFiniteSet(0..n) /\ 0..n \in SUBSET Nat
    BY FS_Interval
  <2>. QED BY <2>1 DEF FiniteSubsetsOf
<1>2. I # {}
  OBVIOUS
<1>. HIDE DEF I
<1>3. PICK x \in I : \A y \in I : ~(<<y, x>> \in StrictSubsetOrdering(Nat))
  BY <1>1, <1>2, WFMin, FS_StrictSubsetOrderingWellFounded
<1>4. PICK n \in T : x = 0..n
  BY <1>3, Zenon DEF I
<1>5. ASSUME NEW m \in T, m < n
      PROVE FALSE
  <2>1. 0..m \in I
    BY Zenon DEF I
  <2>2. 0..m \in SUBSET Nat /\ 0..n \in SUBSET Nat
    OBVIOUS
  <2>3. 0..m \subseteq 0..n /\ 0..m # 0..n
    <3>1. n \in 0..n /\ n \notin 0..m
      BY <1>5
    <3>. QED BY <3>1, <1>5
  <2>. HIDE DEF I
  <2>4. <<0..m, 0..n>> \in StrictSubsetOrdering(Nat)
    BY <2>2, <2>3 DEF StrictSubsetOrdering
  <2>. QED BY <1>3, <1>4, <2>1, <2>4
<1>. QED BY <1>5

(* Where the elements of sequences stand when these are put one after the other. *)
LEMMA TwoParts ==
    ASSUME NEW S, NEW A \in Seq(S), NEW B \in Seq(S)
    PROVE  /\ Len(A \o B) = Len(A) + Len(B)
           /\ \A i \in 1..Len(A) : (A \o B)[i] = A[i]
           /\ \A i \in Len(A) + 1..Len(A) + Len(B) :
                 (A \o B)[i] = B[i - Len(A)] /\ i - Len(A) \in 1..Len(B)
OBVIOUS

LEMMA ThreeParts ==
    ASSUME NEW S, NEW A \in Seq(S), NEW B \in Seq(S), NEW C \in Seq(S)
    PROVE  /\ Len(A \o B \o C) = Len(A) + Len(B) + Len(C)
           /\ \A i \in 1..Len(A) : (A \o B \o C)[i] = A[i]
           /\ \A i \in Len(A) + 1..Len(A) + Len(B) :
                 (A \o B \o C)[i] = B[i - Len(A)] /\ i - Len(A) \in 1..Len(B)
           /\ \A i \in Len(A) + Len(B) + 1..Len(A) + Len(B) + Len(C) :
                 /\ (A \o B \o C)[i] = C[i - Len(A) - Len(B)]
                 /\ i - Len(A) - Len(B) \in 1..Len(C)
OBVIOUS

(* An element of a list is an element of the list's set. *)
LEMMA ListSet ==
    ASSUME NEW s, IsAList(s)
    PROVE  /\ DOMAIN s = 1..Len(s) /\ Len(s) \in Nat
           /\ \A i \in 1..Len(s) : s[i] \in ToSet(s)
<1>. DEFINE S == ToSet(s)
<1>1. s \in Seq(S)
  BY DEF IsAList
<1>2. \A i \in DOMAIN s : s[i] \in S
  BY DEF ToSet
<1>. HIDE DEF S
<1>3. DOMAIN s = 1..Len(s) /\ Len(s) \in Nat
  BY <1>1
<1>. QED BY <1>2, <1>3 DEF S

(* Upward from 0: what holds of a number if it holds of the one before. *)
LEMMA Upward ==
    ASSUME NEW n \in Nat, NEW T, 0 \in T, \A m \in 1..n : m - 1 \in T => m \in T
    PROVE  \A m \in 0..n : m \in T
<1>. DEFINE U == {m \in 0..n : m \notin T}
<1>1. ASSUME U # {} PROVE FALSE
  <2>1. PICK m \in U : \A k \in U : m <= k
    <3>1. U \subseteq Nat
      OBVIOUS
    <3>. HIDE DEF U
    <3>. QED BY <3>1, <1>1, LeastNumber
  <2>2. m \in 0..n /\ m \notin T
    OBVIOUS
  <2>3. m \in 1..n
    <3>1. m # 0
      BY <2>2
    <3>. QED BY <2>2, <3>1
  <2>4. m - 1 \in 0..n /\ ~(m <= m - 1)
    BY <2>3
  <2>5. m - 1 \in T
    BY <2>1, <2>4
  <2>. QED BY <2>2, <2>3, <2>5
<1>. QED BY <1>1

(* A recursion over the numbers up to n has a solution. *)
Recurses(f, b, step, n) == f[0] = b /\ \A i \in 1..n : f[i] = step[<<i, f[i-1]>>]

LEMMA Recursion ==
    ASSUME NEW n \in Nat, NEW V, NEW b \in V, NEW step \in [(1..n) \X V -> V]
    PROVE  \E f \in [0..n -> V] : Recurses(f, b, step, n)
<1>. DEFINE F == [0..n -> V]
            Upto(f, m) == f[0] = b /\ \A i \in 1..m : f[i] = step[<<i, f[i-1]>>]
            T == {m \in 0..n : ~\E f \in F : Upto(f, m)}
<1>1. ASSUME T # {}
      PROVE  FALSE
  <2>1. PICK m \in T : \A k \in T : m <= k
    <3>1. T \subseteq Nat
      OBVIOUS
    <3>. HIDE DEF T
    <3>. QED BY <3>1, <1>1, LeastNumber
  <2>2. m \in 0..n /\ ~\E f \in F : Upto(f, m)
    BY <2>1
  <2>3. m # 0
    <3>1. [i \in 0..n |-> b] \in F
      OBVIOUS
    <3>2. ASSUME m = 0 PROVE Upto([i \in 0..n |-> b], m)
      BY <3>2
    <3>. HIDE DEF F, Upto
    <3>. QED BY <2>2, <3>1, <3>2
  <2>4. m \in 1..n /\ m - 1 \in 0..n /\ ~(m <= m - 1)
    BY <2>2, <2>3
  <2>5. m - 1 \notin T
    <3>. HIDE DEF T
    <3>. QED BY <2>1, <2>4
  <2>6. PICK f \in F : Upto(f, m - 1)
    BY <2>4, <2>5
  <2>. DEFINE x == step[<<m, f[m-1]>>]
              g == [f EXCEPT ![m] = x]
  <2>7. x \in V
    BY <2>4
  <2>8. g \in F /\ g[m] = x /\ \A i \in 0..n : i # m => g[i] = f[i]
    <3>1. m \in 0..n
      BY <2>2
    <3>. HIDE DEF x
    <3>. QED BY <3>1, <2>7
  <2>9. Upto(g, m)
    <3>1. g[0] = b
      BY <2>3, <2>6, <2>8
    <3>2. ASSUME NEW i \in 1..m
          PROVE  g[i] = step[<<i, g[i-1]>>]
      <4>1. i \in 0..n /\ i - 1 \in 0..n /\ i - 1 # m
        BY <2>4
      <4>2. g[i-1] = f[i-1]
        BY <2>8, <4>1
      <4>3. CASE i = m
        BY <2>8, <4>2, <4>3
      <4>4. CASE i # m
        <5>1. i \in 1..m - 1
          BY <2>4, <4>4
        <5>2. f[i] = step[<<i, f[i-1]>>]
          BY <2>6, <5>1
        <5>3. g[i] = f[i]
          BY <2>8, <4>1, <4>4
        <5>. HIDE DEF g
        <5>. QED BY <4>2, <5>2, <5>3
      <4>. QED BY <4>3, <4>4
    <3>. HIDE DEF g
    <3>. QED BY <3>1, <3>2
  <2>. HIDE DEF g, F, Upto
  <2>. QED BY <2>2, <2>8, <2>9
<1>2. n \in 0..n
  OBVIOUS
<1>3. \E f \in F : Upto(f, n)
  BY <1>1, <1>2
<1>. QED BY <1>3 DEF Recurses

-----------------------------------------------------------------------------
(* r is what lies in `wanted` of the first m elements of s: at says where each of
   its elements stands in s.                                                      *)
KeepsAt(r, s, wanted, m, at) ==
    /\ Len(r) <= m
    /\ at \in [1..Len(r) -> 1..m]
    /\ \A k, l \in 1..Len(r) : k < l => at[k] < at[l]
    /\ \A k \in 1..Len(r) : r[k] = s[at[k]] /\ r[k] \in wanted
    /\ \A i \in 1..m : s[i] \in wanted => \E k \in 1..Len(r) : at[k] = i
Keeps(r, s, wanted, m) == \E at : KeepsAt(r, s, wanted, m, at)

LEMMA SelectNext ==
    ASSUME NEW S, NEW r \in Seq(S), NEW s \in Seq(S), NEW wanted, NEW m \in Nat,
           m + 1 \in 1..Len(s), Keeps(r, s, wanted, m)
    PROVE  /\ s[m + 1] \in wanted => Keeps(Append(r, s[m + 1]), s, wanted, m + 1)
           /\ s[m + 1] \notin wanted => Keeps(r, s, wanted, m + 1)
<1>1. PICK at : KeepsAt(r, s, wanted, m, at)
  BY DEF Keeps
<1>. DEFINE n == Len(r)
<1>0. n \in Nat
  OBVIOUS
<1>2. /\ n \in Nat /\ n <= m /\ at \in [1..n -> 1..m]
      /\ \A k, l \in 1..n : k < l => at[k] < at[l]
      /\ \A k \in 1..n : r[k] = s[at[k]] /\ r[k] \in wanted
      /\ \A i \in 1..m : s[i] \in wanted => \E k \in 1..n : at[k] = i
  BY <1>0, <1>1, Zenon DEF KeepsAt
<1>3. \A i \in 1..m + 1 : i \in 1..m \/ i = m + 1
  OBVIOUS
<1>4. ASSUME s[m + 1] \notin wanted
      PROVE  Keeps(r, s, wanted, m + 1)
  <2>1. at \in [1..n -> 1..m + 1] /\ n <= m + 1
    BY <1>2
  <2>2. KeepsAt(r, s, wanted, m + 1, at)
    BY <1>2, <1>3, <1>4, <2>1 DEF KeepsAt
  <2>. QED BY <2>2 DEF Keeps
<1>5. ASSUME s[m + 1] \in wanted
      PROVE  Keeps(Append(r, s[m + 1]), s, wanted, m + 1)
  <2>. DEFINE q == Append(r, s[m + 1])
              to == [k \in 1..n + 1 |-> IF k = n + 1 THEN m + 1 ELSE at[k]]
  <2>1. s[m + 1] \in S
    OBVIOUS
  <2>2. Len(q) = n + 1 /\ q[n + 1] = s[m + 1] /\ \A k \in 1..n : q[k] = r[k]
    BY <2>1
  <2>. HIDE DEF q, n
  <2>3. /\ \A k \in 1..n : k \in 1..n + 1 /\ k # n + 1
        /\ \A k \in 1..n + 1 : k \in 1..n \/ k = n + 1
        /\ n + 1 \in 1..n + 1
    BY <1>2
  <2>4. to[n + 1] = m + 1 /\ \A k \in 1..n : to[k] = at[k] /\ at[k] \in 1..m
    BY <1>2, <2>3
  <2>5. to \in [1..n + 1 -> 1..m + 1]
    BY <1>2, <2>3
  <2>. HIDE DEF to
  <2>6. ASSUME NEW k \in 1..n + 1, NEW l \in 1..n + 1, k < l PROVE to[k] < to[l]
    <3>1. k \in 1..n
      BY <1>2, <2>6
    <3>2. CASE l \in 1..n
      BY <1>2, <2>4, <2>6, <3>1, <3>2
    <3>3. CASE l = n + 1
      BY <2>4, <3>1, <3>3
    <3>. QED BY <2>3, <3>2, <3>3
  <2>7. ASSUME NEW k \in 1..n + 1 PROVE q[k] = s[to[k]] /\ q[k] \in wanted
    BY <1>2, <1>5, <2>2, <2>3, <2>4
  <2>8. ASSUME NEW i \in 1..m + 1, s[i] \in wanted PROVE \E k \in 1..n + 1 : to[k] = i
    <3>1. CASE i = m + 1
      BY <2>3, <2>4, <3>1
    <3>2. CASE i \in 1..m
      <4>1. PICK k \in 1..n : at[k] = i
        BY <1>2, <2>8, <3>2
      <4>. QED BY <2>3, <2>4, <4>1
    <3>. QED BY <1>3, <3>1, <3>2
  <2>10. Len(q) <= m + 1
    BY <1>2, <2>2
  <2>9. KeepsAt(q, s, wanted, m + 1, to)
    BY <2>2, <2>5, <2>6, <2>7, <2>8, <2>10 DEF KeepsAt
  <2>. QED BY <2>9 DEF Keeps, q
<1>. QED BY <1>4, <1>5

(* The filter of a list keeps what lies in the set, in order, each where it stands. *)
LEMMA FilteredSelects ==
    ASSUME NEW S, NEW s \in Seq(S), NEW wanted
    PROVE  Filtered(s, wanted) \in Seq(S) /\ Keeps(Filtered(s, wanted), s, wanted, Len(s))
<1>. DEFINE n == Len(s)
            step == [x \in (1..n) \X Seq(S) |->
                        IF s[x[1]] \in wanted THEN Append(x[2], s[x[1]]) ELSE x[2]]
            Loop(f) == f = [i \in 0..n |-> IF i = 0 THEN <<>>
                                           ELSE IF s[i] \in wanted THEN Append(f[i-1], s[i])
                                           ELSE f[i-1]]
            f == CHOOSE h : Loop(h)
<1>1. n \in Nat /\ \A i \in 1..n : s[i] \in S
  OBVIOUS
<1>2. \E h : Loop(h)
  <2>1. step \in [(1..n) \X Seq(S) -> Seq(S)]
    <3>. SUFFICES ASSUME NEW x \in (1..n) \X Seq(S)
                  PROVE  (IF s[x[1]] \in wanted THEN Append(x[2], s[x[1]]) ELSE x[2]) \in Seq(S)
      OBVIOUS
    <3>1. s[x[1]] \in S /\ x[2] \in Seq(S)
      BY <1>1
    <3>. QED BY <3>1
  <2>2. PICK h \in [0..n -> Seq(S)] : Recurses(h, <<>>, step, n)
    <3>. DEFINE V == Seq(S)
    <3>1. n \in Nat /\ <<>> \in V /\ step \in [(1..n) \X V -> V]
      BY <1>1, <2>1
    <3>. HIDE DEF step, n, V
    <3>2. \E h \in [0..n -> V] : Recurses(h, <<>>, step, n)
      BY <3>1, Recursion, Zenon
    <3>. QED BY <3>2 DEF V
  <2>3. ASSUME NEW i \in 1..n
        PROVE  h[i] = IF s[i] \in wanted THEN Append(h[i-1], s[i]) ELSE h[i-1]
    <3>1. i - 1 \in 0..n
      BY <1>1
    <3>2. h[i-1] \in Seq(S)
      BY <3>1
    <3>3. <<i, h[i-1]>> \in (1..n) \X Seq(S)
      BY <3>2
    <3>4. h[i] = step[<<i, h[i-1]>>]
      BY <2>2, Zenon DEF Recurses
    <3>. QED BY <3>3, <3>4
  <2>4. h[0] = <<>>
    BY <2>2, Zenon DEF Recurses
  <2>7. h = [i \in 0..n |-> h[i]]
    OBVIOUS
  <2>5. \A i \in 0..n : i = 0 \/ i \in 1..n
    BY <1>1
  <2>. HIDE DEF n
  <2>6. Loop(h)
    BY <2>3, <2>4, <2>5, <2>7
  <2>. QED BY <2>6
<1>3. Loop(f)
  <2>. HIDE DEF Loop
  <2>. QED BY <1>2, Zenon
<1>4. Filtered(s, wanted) = f[n]
  BY Zenon DEF Filtered
<1>. HIDE DEF f
<1>5. /\ f[0] = <<>>
      /\ \A i \in 1..n : f[i] = IF s[i] \in wanted THEN Append(f[i-1], s[i]) ELSE f[i-1]
  <2>1. 0 \in 0..n /\ \A i \in 1..n : i \in 0..n /\ i # 0
    BY <1>1
  <2>. HIDE DEF n
  <2>2. Loop(f)
    BY <1>3
  <2>. QED BY <2>1, <2>2, Zenon
<1>. HIDE DEF Loop
<1>. DEFINE Good(m) == f[m] \in Seq(S) /\ Keeps(f[m], s, wanted, m)
            T == {m \in 0..n : ~Good(m)}
<1>6. T = {}
  <2>. SUFFICES ASSUME T # {} PROVE FALSE
    OBVIOUS
  <2>1. PICK m \in T : \A k \in T : m <= k
    <3>1. T \subseteq Nat
      OBVIOUS
    <3>. HIDE DEF T
    <3>. QED BY <3>1, LeastNumber
  <2>2. m \in 0..n /\ ~Good(m)
    BY <2>1
  <2>3. m # 0
    <3>1. <<>> \in Seq(S) /\ Len(<<>>) = 0 /\ 1..0 = {}
      OBVIOUS
    <3>2. KeepsAt(<<>>, s, wanted, 0, [k \in 1..0 |-> 0])
      BY <3>1 DEF KeepsAt
    <3>. QED BY <1>5, <2>2, <3>1, <3>2 DEF Keeps
  <2>4. m - 1 \in 0..n /\ m \in 1..n /\ ~(m <= m - 1) /\ (m - 1) + 1 = m /\ m - 1 \in Nat
    BY <1>1, <2>2, <2>3
  <2>5. Good(m - 1)
    <3>1. m - 1 \notin T
      <4>. HIDE DEF T
      <4>. QED BY <2>1, <2>4
    <3>. QED BY <2>4, <3>1
  <2>6. /\ s[m] \in wanted => Keeps(Append(f[m-1], s[m]), s, wanted, m)
        /\ s[m] \notin wanted => Keeps(f[m-1], s, wanted, m)
    <3>. DEFINE k == m - 1
    <3>1. /\ k \in Nat /\ k + 1 \in 1..Len(s) /\ k + 1 = m
          /\ f[k] \in Seq(S) /\ Keeps(f[k], s, wanted, k)
      BY <2>4, <2>5
    <3>. HIDE DEF k
    <3>2. /\ s[k + 1] \in wanted => Keeps(Append(f[k], s[k + 1]), s, wanted, k + 1)
          /\ s[k + 1] \notin wanted => Keeps(f[k], s, wanted, k + 1)
      BY <3>1, SelectNext
    <3>. QED BY <3>1, <3>2 DEF k
  <2>7. f[m] \in Seq(S)
    <3>1. s[m] \in S /\ f[m-1] \in Seq(S)
      BY <1>1, <2>4, <2>5
    <3>2. Append(f[m-1], s[m]) \in Seq(S)
      BY <3>1
    <3>. QED BY <1>5, <2>4, <3>1, <3>2
  <2>8. Keeps(f[m], s, wanted, m)
    BY <1>5, <2>4, <2>6
  <2>. QED BY <2>2, <2>7, <2>8
<1>7. Good(n)
  <2>1. n \in 0..n
    BY <1>1
  <2>. QED BY <1>6, <2>1
<1>. QED BY <1>4, <1>7 DEF n

(* What a filter holds, where its order matters to nobody. *)
LEMMA FilteredHolds ==
    ASSUME NEW S, NEW s \in Seq(S), NEW wanted
    PROVE  /\ Filtered(s, wanted) \in Seq(S) /\ Len(Filtered(s, wanted)) <= Len(s)
           /\ \A i \in 1..Len(s) : s[i] \in wanted =>
                 \E k \in 1..Len(Filtered(s, wanted)) : Filtered(s, wanted)[k] = s[i]
           /\ \A k \in 1..Len(Filtered(s, wanted)) :
                 /\ Filtered(s, wanted)[k] \in wanted
                 /\ \E i \in 1..Len(s) : Filtered(s, wanted)[k] = s[i]
<1>. DEFINE r == Filtered(s, wanted)
<1>1. r \in Seq(S) /\ Keeps(r, s, wanted, Len(s))
  BY FilteredSelects
<1>. HIDE DEF r
<1>2. PICK at : KeepsAt(r, s, wanted, Len(s), at)
  BY <1>1 DEF Keeps
<1>7. Len(r) <= Len(s)
  BY <1>2, Zenon DEF KeepsAt
<1>3. /\ \A k \in 1..Len(r) : at[k] \in 1..Len(s) /\ r[k] = s[at[k]] /\ r[k] \in wanted
      /\ \A i \in 1..Len(s) : s[i] \in wanted => \E k \in 1..Len(r) : at[k] = i
  <2>1. at \in [1..Len(r) -> 1..Len(s)]
    BY <1>2 DEF KeepsAt
  <2>2. \A k \in 1..Len(r) : at[k] \in 1..Len(s)
    BY <2>1
  <2>. QED BY <1>2, <2>2, Zenon DEF KeepsAt
<1>4. ASSUME NEW i \in 1..Len(s), s[i] \in wanted
      PROVE  \E k \in 1..Len(r) : r[k] = s[i]
  <2>1. PICK k \in 1..Len(r) : at[k] = i
    BY <1>3, <1>4, Zenon
  <2>2. r[k] = s[i]
    BY <1>3, <2>1, Zenon
  <2>. QED BY <2>2
<1>5. ASSUME NEW k \in 1..Len(r)
      PROVE  r[k] \in wanted /\ \E i \in 1..Len(s) : r[k] = s[i]
  <2>1. at[k] \in 1..Len(s) /\ r[k] = s[at[k]] /\ r[k] \in wanted
    BY <1>3, Zenon
  <2>. QED BY <2>1, Zenon
<1>6. /\ \A i \in 1..Len(s) : s[i] \in wanted => \E k \in 1..Len(r) : r[k] = s[i]
      /\ \A k \in 1..Len(r) : r[k] \in wanted /\ \E i \in 1..Len(s) : r[k] = s[i]
  BY <1>4, <1>5, Zenon
<1>. QED BY <1>1, <1>6, <1>7 DEF r

(* A list and one more element. *)
LEMMA AppendIsAList ==
    ASSUME NEW s, IsAList(s), NEW x
    PROVE  /\ IsAList(Append(s, x)) /\ Len(Append(s, x)) = Len(s) + 1
           /\ \A i \in 1..Len(s) : Append(s, x)[i] = s[i]
           /\ Append(s, x)[Len(s) + 1] = x
           /\ DOMAIN Append(s, x) = 1..Len(s) + 1 /\ DOMAIN s = 1..Len(s) /\ Len(s) \in Nat
<1>. DEFINE S == ToSet(s) \cup {x}
            t == Append(s, x)
<1>1. s \in Seq(ToSet(s))
  BY DEF IsAList
<1>2. s \in Seq(S) /\ x \in S
  BY <1>1
<1>. HIDE DEF S
<1>3. /\ t \in Seq(S) /\ Len(t) = Len(s) + 1 /\ Len(s) \in Nat
      /\ \A i \in 1..Len(s) : t[i] = s[i]
      /\ t[Len(s) + 1] = x /\ DOMAIN t = 1..Len(s) + 1 /\ DOMAIN s = 1..Len(s)
  BY <1>2
<1>. HIDE DEF t
<1>4. \A i \in 1..Len(t) : t[i] \in ToSet(t)
  BY <1>3 DEF ToSet
<1>5. t \in Seq(ToSet(t))
  BY <1>3, <1>4
<1>. QED BY <1>3, <1>5 DEF IsAList, t

LEMMA TailIsAList ==
    ASSUME NEW s, IsAList(s), s # <<>>
    PROVE  /\ IsAList(Tail(s)) /\ Len(Tail(s)) = Len(s) - 1 /\ Len(s) \in Nat /\ 1 \in 1..Len(s)
           /\ \A i \in 1..Len(Tail(s)) : Tail(s)[i] = s[i + 1] /\ i + 1 \in 1..Len(s)
           /\ Head(s) = s[1]
<1>. DEFINE S == ToSet(s)
            t == Tail(s)
<1>1. s \in Seq(S)
  BY DEF IsAList
<1>. HIDE DEF S
<1>2. /\ t \in Seq(S) /\ Len(t) = Len(s) - 1 /\ Len(s) \in Nat /\ 1 \in 1..Len(s)
      /\ \A i \in 1..Len(t) : t[i] = s[i + 1] /\ i + 1 \in 1..Len(s)
      /\ Head(s) = s[1] /\ DOMAIN t = 1..Len(t)
  BY <1>1
<1>. HIDE DEF t
<1>3. \A i \in 1..Len(t) : t[i] \in ToSet(t)
  BY <1>2 DEF ToSet
<1>4. t \in Seq(ToSet(t))
  BY <1>2, <1>3
<1>. QED BY <1>2, <1>4 DEF IsAList, t

(* A function on 1..n is a list. *)
LEMMA FunctionIsAList ==
    ASSUME NEW n \in Nat, NEW f, f = [i \in 1..n |-> f[i]]
    PROVE  IsAList(f) /\ Len(f) = n /\ DOMAIN f = 1..n
<1>1. \A i \in 1..n : f[i] \in ToSet(f)
  BY DEF ToSet
<1>2. f \in [1..n -> ToSet(f)]
  BY <1>1
<1>. QED BY <1>2 DEF IsAList

(* What is left of a list, of which n elements are gone. *)
StillToCome(left, full, n) ==
    /\ IsAList(left) /\ n \in Nat /\ Len(full) = n + Len(left)
    /\ \A i \in 1..Len(left) : left[i] = full[n + i]

LEMMA RestStarts ==
    ASSUME NEW s, IsAList(s)
    PROVE  StillToCome(s, s, 0)
<1>1. Len(s) \in Nat
  BY ListSet
<1>2. 0 \in Nat /\ Len(s) = 0 + Len(s) /\ \A i \in 1..Len(s) : 0 + i = i
  BY <1>1
<1>. QED BY <1>2 DEF StillToCome

LEMMA RestGoesOn ==
    ASSUME NEW s, NEW full, NEW n, StillToCome(s, full, n), s # <<>>
    PROVE  /\ StillToCome(Tail(s), full, n + 1) /\ Head(s) = full[n + 1] /\ n + 1 \in 1..Len(full)
           /\ n \in Nat
<1>1. /\ IsAList(s) /\ n \in Nat /\ Len(full) = n + Len(s)
      /\ \A i \in 1..Len(s) : s[i] = full[n + i]
  BY DEF StillToCome
<1>2. /\ IsAList(Tail(s)) /\ Len(Tail(s)) = Len(s) - 1 /\ Len(s) \in Nat /\ 1 \in 1..Len(s)
      /\ \A i \in 1..Len(Tail(s)) : Tail(s)[i] = s[i + 1] /\ i + 1 \in 1..Len(s)
      /\ Head(s) = s[1]
  BY <1>1, TailIsAList
<1>3. \A i \in 1..Len(Tail(s)) : Tail(s)[i] = full[(n + 1) + i]
  <2>. SUFFICES ASSUME NEW i \in 1..Len(Tail(s)) PROVE Tail(s)[i] = full[(n + 1) + i]
    OBVIOUS
  <2>1. Tail(s)[i] = full[n + (i + 1)]
    BY <1>1, <1>2
  <2>2. n + (i + 1) = (n + 1) + i
    BY <1>1, <1>2
  <2>. QED BY <2>1, <2>2
<1>4. Len(full) = (n + 1) + Len(Tail(s)) /\ n + 1 \in Nat /\ n + 1 \in 1..Len(full)
  BY <1>1, <1>2
<1>5. Head(s) = full[n + 1]
  BY <1>1, <1>2
<1>. QED BY <1>1, <1>2, <1>3, <1>4, <1>5 DEF StillToCome

LEMMA RestEnds ==
    ASSUME NEW s, NEW full, NEW n, StillToCome(s, full, n)
    PROVE  (s = <<>> => Len(full) = n) /\ n \in Nat
<1>1. n \in Nat /\ Len(full) = n + Len(s)
  BY DEF StillToCome
<1>2. s = <<>> => Len(s) = 0
  OBVIOUS
<1>. QED BY <1>1, <1>2

(* A filter of a list that lies in the set is the list. *)
LEMMA FilteredAll ==
    ASSUME NEW s, IsAList(s), NEW wanted, \A i \in 1..Len(s) : s[i] \in wanted
    PROVE  Filtered(s, wanted) = s
<1>. DEFINE S == ToSet(s)
            r == Filtered(s, wanted)
            n == Len(s)
<1>1. s \in Seq(S) /\ r \in Seq(S) /\ Keeps(r, s, wanted, Len(s))
  BY FilteredSelects DEF IsAList
<1>. HIDE DEF S, r
<1>2. PICK at : KeepsAt(r, s, wanted, n, at)
  BY <1>1 DEF Keeps
<1>3. n \in Nat /\ Len(r) \in Nat /\ DOMAIN s = 1..n /\ DOMAIN r = 1..Len(r)
  BY <1>1
<1>4. /\ Len(r) <= n /\ at \in [1..Len(r) -> 1..n]
      /\ \A k, l \in 1..Len(r) : k < l => at[k] < at[l]
      /\ \A k \in 1..Len(r) : r[k] = s[at[k]]
      /\ \A i \in 1..n : \E k \in 1..Len(r) : at[k] = i
  BY <1>2, Zenon DEF KeepsAt
<1>. HIDE DEF n
<1>. DEFINE Wrong == {k \in 1..Len(r) : at[k] # k}
<1>5. Wrong = {}
  <2>. SUFFICES ASSUME Wrong # {} PROVE FALSE
    OBVIOUS
  <2>1. PICK k \in Wrong : \A l \in Wrong : k <= l
    <3>1. Wrong \subseteq Nat
      OBVIOUS
    <3>. HIDE DEF Wrong
    <3>. QED BY <3>1, LeastNumber
  <2>2. k \in 1..Len(r) /\ at[k] # k /\ at[k] \in 1..n
    BY <1>4, <2>1
  <2>3. \A l \in 1..Len(r) : l < k => at[l] = l
    <3>1. \A l \in 1..Len(r) : l \notin Wrong => at[l] = l
      OBVIOUS
    <3>. HIDE DEF Wrong
    <3>. QED BY <1>3, <2>1, <2>2, <3>1
  <2>4. k < at[k]
    <3>. SUFFICES ASSUME at[k] < k PROVE FALSE
      BY <1>3, <2>2
    <3>1. at[k] \in 1..Len(r)
      BY <1>3, <2>2
    <3>2. at[at[k]] = at[k]
      BY <2>3, <3>1
    <3>3. at[at[k]] < at[k]
      BY <1>4, <2>2, <3>1
    <3>. QED BY <1>3, <2>2, <3>2, <3>3
  <2>5. k \in 1..n
    BY <1>3, <2>2, <2>4
  <2>6. PICK l \in 1..Len(r) : at[l] = k
    BY <1>4, <2>5
  <2>7. ~(l < k)
    BY <2>3, <2>6
  <2>8. l # k
    BY <2>2, <2>6
  <2>9. k < l
    BY <1>3, <2>2, <2>7, <2>8
  <2>10. at[k] < at[l]
    BY <1>4, <2>2, <2>9
  <2>. QED BY <1>3, <2>2, <2>4, <2>6, <2>10
<1>6. \A k \in 1..Len(r) : at[k] = k
  BY <1>5
<1>7. Len(r) = n
  <2>. SUFFICES ASSUME Len(r) < n PROVE FALSE
    <3>1. Len(r) <= n /\ Len(r) \in Nat /\ n \in Nat
      BY <1>3, <1>4
    <3>. QED BY <3>1
  <2>1. n \in 1..n /\ n \notin 1..Len(r)
    BY <1>3
  <2>2. PICK k \in 1..Len(r) : at[k] = n
    BY <1>4, <2>1
  <2>. QED BY <1>6, <2>2
<1>8. \A i \in 1..n : r[i] = s[i]
  BY <1>4, <1>6, <1>7
<1>9. r = s
  BY <1>1, <1>7, <1>8 DEF n
<1>. QED BY <1>9 DEF r

(* The filter of a list with its places: each element that lies in the set has one. *)
LEMMA FilteredPlaces ==
    ASSUME NEW s, IsAList(s), NEW wanted
    PROVE  LET r == Filtered(s, wanted)
           IN  \E at \in [1..Len(r) -> 1..Len(s)] :
                   /\ \A k \in 1..Len(r) : r[k] = s[at[k]]
                   /\ \A i \in 1..Len(s) : s[i] \in wanted => \E k \in 1..Len(r) : at[k] = i
<1>. DEFINE r == Filtered(s, wanted)
            S == ToSet(s)
<1>1. s \in Seq(S)
  BY DEF IsAList
<1>. HIDE DEF S
<1>2. Keeps(r, s, wanted, Len(s))
  BY <1>1, FilteredSelects
<1>. HIDE DEF r
<1>3. PICK at : KeepsAt(r, s, wanted, Len(s), at)
  BY <1>2 DEF Keeps
<1>4. /\ at \in [1..Len(r) -> 1..Len(s)]
      /\ \A k \in 1..Len(r) : r[k] = s[at[k]]
      /\ \A i \in 1..Len(s) : s[i] \in wanted => \E k \in 1..Len(r) : at[k] = i
  BY <1>3, Zenon DEF KeepsAt
<1>. QED BY <1>4, Zenon DEF r

-----------------------------------------------------------------------------
(* FlattenSeq joins sequences one after the other: each begins where the ones before
   it end.                                                                           *)

(* The loop of FlattenSeq. *)
Flattens(ss, f) ==
    f = [i \in 1..Len(ss) |-> IF i = 1 THEN ss[i] ELSE f[i-1] \o ss[i]]

LEMMA FlattensAt ==
    ASSUME NEW ss, NEW f, Flattens(ss, f), NEW i \in 1..Len(ss)
    PROVE  f[i] = IF i = 1 THEN ss[i] ELSE f[i-1] \o ss[i]
BY Zenon DEF Flattens

LEMMA FlattenIsOne ==
    ASSUME NEW ss, NEW f, NEW g, Flattens(ss, f), Flattens(ss, g), Len(ss) \in Nat
    PROVE  f = g
<1>1. /\ f = [i \in 1..Len(ss) |-> f[i]]
      /\ g = [i \in 1..Len(ss) |-> g[i]]
  BY DEF Flattens
<1>2. ASSUME \E i \in 1..Len(ss) : f[i] # g[i]
      PROVE FALSE
  <2>. DEFINE T == {i \in 1..Len(ss) : f[i] # g[i]}
  <2>1. T \subseteq Nat /\ T # {}
    BY <1>2
  <2>2. PICK n \in T : \A m \in T : n <= m
    BY <2>1, LeastNumber
  <2>3. n \in 1..Len(ss) /\ f[n] # g[n]
    BY <2>2
  <2>4. n # 1
    BY <2>3, FlattensAt
  <2>5. n - 1 \in 1..Len(ss) /\ ~(n <= n - 1)
    BY <2>3, <2>4
  <2>6. f[n - 1] = g[n - 1]
    BY <2>2, <2>5
  <2>. QED BY <2>3, <2>4, <2>6, FlattensAt
<1>. QED BY <1>1, <1>2

LEMMA FlattenExists ==
    ASSUME NEW S, NEW ss \in Seq(Seq(S))
    PROVE  \E f \in [1..Len(ss) -> Seq(S)] : Flattens(ss, f)
<1>. DEFINE n == Len(ss)
            F == [1..n -> Seq(S)]
            At(f, i) == f[i] = IF i = 1 THEN ss[i] ELSE f[i-1] \o ss[i]
            Upto(f, m) == \A i \in 1..m : At(f, i)
            T == {m \in 0..n : ~\E f \in F : Upto(f, m)}
<1>1. n \in Nat /\ \A i \in 1..n : ss[i] \in Seq(S)
  OBVIOUS
<1>. HIDE DEF n
<1>2. ASSUME T # {}
      PROVE  FALSE
  <2>1. PICK m \in T : \A k \in T : m <= k
    <3>1. T \subseteq Nat
      OBVIOUS
    <3>. HIDE DEF T
    <3>. QED BY <3>1, <1>2, LeastNumber
  <2>2. m \in 0..n /\ ~\E f \in F : Upto(f, m)
    BY <2>1
  <2>3. m # 0
    <3>1. <<>> \in Seq(S)
      OBVIOUS
    <3>2. [i \in 1..n |-> <<>>] \in F
      BY <3>1
    <3>3. ASSUME m = 0 PROVE Upto([i \in 1..n |-> <<>>], m)
      BY <3>3
    <3>. HIDE DEF F, Upto
    <3>. QED BY <2>2, <3>2, <3>3
  <2>4. m \in 1..n /\ m - 1 \in 0..n /\ ~(m <= m - 1)
    BY <2>2, <2>3, <1>1
  <2>5. m - 1 \notin T
    <3>. HIDE DEF T
    <3>. QED BY <2>1, <2>4
  <2>6. PICK f \in F : Upto(f, m - 1)
    BY <2>4, <2>5
  <2>. DEFINE x == IF m = 1 THEN ss[m] ELSE f[m-1] \o ss[m]
              g == [f EXCEPT ![m] = x]
  <2>7. x \in Seq(S)
    <3>1. ss[m] \in Seq(S)
      BY <2>4, <1>1
    <3>2. m # 1 => f[m-1] \in Seq(S)
      BY <2>4
    <3>. QED BY <3>1, <3>2
  <2>8. /\ g \in F /\ g[m] = x
        /\ \A i \in 1..n : i # m => g[i] = f[i]
    <3>. HIDE DEF x
    <3>. QED BY <2>4, <2>7
  <2>9. ASSUME NEW i \in 1..m
        PROVE  At(g, i)
    <3>1. i \in 1..n /\ (i # 1 => i - 1 \in 1..n /\ i - 1 # m)
      BY <2>4, <1>1
    <3>2. i # 1 => g[i-1] = f[i-1]
      BY <2>8, <3>1
    <3>3. CASE i = m
      BY <2>8, <3>2, <3>3
    <3>4. CASE i # m
      <4>1. i \in 1..m - 1
        BY <2>4, <3>4
      <4>2. At(f, i)
        BY <2>6, <4>1
      <4>3. g[i] = f[i]
        BY <2>8, <3>1, <3>4
      <4>. HIDE DEF g
      <4>. QED BY <3>2, <4>2, <4>3
    <3>. QED BY <3>3, <3>4
  <2>. HIDE DEF g, F, At
  <2>. QED BY <2>2, <2>8, <2>9
<1>3. n \in 0..n
  BY <1>1
<1>4. PICK f \in F : Upto(f, n)
  BY <1>2, <1>3
<1>5. f = [i \in 1..n |-> IF i = 1 THEN ss[i] ELSE f[i-1] \o ss[i]]
  <2>1. f = [i \in 1..n |-> f[i]]
    OBVIOUS
  <2>2. \A i \in 1..n : At(f, i)
    BY <1>4
  <2>. QED BY <2>1, <2>2
<1>. QED BY <1>5 DEF Flattens, n

LEMMA FlattenIs ==
    ASSUME NEW S, NEW ss \in Seq(Seq(S)), Len(ss) # 0
    PROVE  \E f \in [1..Len(ss) -> Seq(S)] : Flattens(ss, f) /\ FlattenSeq(ss) = f[Len(ss)]
<1>1. PICK f \in [1..Len(ss) -> Seq(S)] : Flattens(ss, f)
  BY FlattenExists
<1>. DEFINE g == CHOOSE h : Flattens(ss, h)
<1>2. Flattens(ss, g)
  BY <1>1, Zenon
<1>3. Len(ss) \in Nat
  OBVIOUS
<1>4. FlattenSeq(ss) = g[Len(ss)]
  BY Zenon DEF FlattenSeq, Flattens
<1>. HIDE DEF g
<1>5. g = f
  BY <1>1, <1>2, <1>3, FlattenIsOne
<1>. QED BY <1>1, <1>4, <1>5

(* p is the parts 1..m, one after the other; off says where each ends. *)
Joins(p, part, m, off) ==
    /\ off \in [0..m -> Nat] /\ off[0] = 0 /\ off[m] = Len(p)
    /\ \A i \in 1..m : off[i] = off[i-1] + Len(part[i])
    /\ \A i \in 1..m : \A k \in 1..Len(part[i]) : p[off[i-1] + k] = part[i][k]

LEMMA OffsetsGrow ==
    ASSUME NEW m \in Nat, NEW off \in [0..m -> Nat], \A i \in 1..m : off[i-1] <= off[i],
           NEW i \in 0..m, NEW j \in 0..m, i <= j
    PROVE  off[i] <= off[j]
<1>. DEFINE T == {k \in i..m : ~(off[i] <= off[k])}
<1>1. ASSUME T # {}
      PROVE  FALSE
  <2>1. T \subseteq Nat
    OBVIOUS
  <2>2. PICK k \in T : \A l \in T : k <= l
    <3>. HIDE DEF T
    <3>. QED BY <1>1, <2>1, LeastNumber
  <2>3. k \in i..m /\ ~(off[i] <= off[k])
    BY <2>2
  <2>4. k # i
    BY <2>3
  <2>5. k - 1 \in i..m /\ k \in 1..m /\ ~(k <= k - 1)
    BY <2>3, <2>4
  <2>6. k - 1 \notin T
    <3>. HIDE DEF T
    <3>. QED BY <2>2, <2>5
  <2>7. off[i] <= off[k-1] /\ off[k-1] <= off[k]
    BY <2>5, <2>6
  <2>8. off[i] \in Nat /\ off[k-1] \in Nat /\ off[k] \in Nat
    BY <2>5
  <2>. QED BY <2>3, <2>7, <2>8
<1>2. j \in i..m
  OBVIOUS
<1>3. j \notin T
  BY <1>1
<1>. QED BY <1>2, <1>3

LEMMA EndsGrow ==
    ASSUME NEW p, NEW part, NEW m \in Nat, NEW off, Joins(p, part, m, off),
           \A i \in 1..m : Len(part[i]) \in Nat
    PROVE  \A i, j \in 0..m : i <= j => off[i] <= off[j]
<1>1. off \in [0..m -> Nat]
  BY DEF Joins
<1>2. ASSUME NEW k \in 1..m PROVE off[k-1] <= off[k]
  <2>1. off[k] = off[k-1] + Len(part[k]) /\ Len(part[k]) \in Nat
    BY DEF Joins
  <2>2. off[k-1] \in Nat
    BY <1>1
  <2>. QED BY <2>1, <2>2
<1>. QED BY <1>1, <1>2, OffsetsGrow

LEMMA JoinOne ==
    ASSUME NEW S, NEW p \in Seq(S), NEW q \in Seq(S), NEW part, NEW m \in Nat, NEW off,
           Joins(p, part, m, off), \A i \in 1..m : Len(part[i]) \in Nat,
           q = part[m + 1]
    PROVE  \E new : Joins(p \o q, part, m + 1, new)
<1>. DEFINE new == [i \in 0..m + 1 |-> IF i = m + 1 THEN Len(p) + Len(q) ELSE off[i]]
<1>1. /\ off \in [0..m -> Nat] /\ off[0] = 0 /\ off[m] = Len(p)
      /\ \A i \in 1..m : off[i] = off[i-1] + Len(part[i])
      /\ \A i \in 1..m : \A k \in 1..Len(part[i]) : p[off[i-1] + k] = part[i][k]
  BY DEF Joins
<1>2. Len(p) \in Nat /\ Len(q) \in Nat
  OBVIOUS
<1>3. /\ Len(p \o q) = Len(p) + Len(q)
      /\ \A x \in 1..Len(p) : (p \o q)[x] = p[x]
      /\ \A x \in Len(p) + 1..Len(p) + Len(q) : (p \o q)[x] = q[x - Len(p)]
  BY TwoParts
<1>4. /\ new \in [0..m + 1 -> Nat] /\ new[m + 1] = Len(p) + Len(q)
      /\ \A i \in 0..m : new[i] = off[i]
  BY <1>1, <1>2
<1>. DEFINE pq == p \o q
<1>. HIDE DEF new, pq
<1>5. new[0] = 0 /\ new[m + 1] = Len(pq)
  BY <1>1, <1>3, <1>4 DEF pq
<1>6. ASSUME NEW i \in 1..m + 1
      PROVE  /\ new[i] = new[i-1] + Len(part[i])
             /\ \A k \in 1..Len(part[i]) : pq[new[i-1] + k] = part[i][k]
  <2>1. CASE i = m + 1
    <3>1. new[i] = Len(p) + Len(q) /\ new[i-1] = Len(p) /\ part[i] = q
      <4>1. i - 1 = m /\ m \in 0..m
        BY <2>1
      <4>. QED BY <1>1, <1>4, <2>1, <4>1
    <3>2. ASSUME NEW k \in 1..Len(q) PROVE pq[Len(p) + k] = q[k]
      <4>1. Len(p) + k \in Len(p) + 1..Len(p) + Len(q) /\ (Len(p) + k) - Len(p) = k
        BY <1>2
      <4>. QED BY <1>3, <4>1 DEF pq
    <3>. QED BY <3>1, <3>2
  <2>2. CASE i # m + 1
    <3>1. i \in 1..m /\ i \in 0..m /\ i - 1 \in 0..m /\ m \in 0..m /\ i <= m
      BY <2>2
    <3>2. new[i] = off[i] /\ new[i-1] = off[i-1] /\ off[i] = off[i-1] + Len(part[i])
      BY <1>1, <1>4, <3>1
    <3>3. off[i] <= Len(p)
      <4>1. off[i] <= off[m]
        BY <3>1, EndsGrow
      <4>. QED BY <1>1, <4>1
    <3>4. ASSUME NEW k \in 1..Len(part[i]) PROVE pq[off[i-1] + k] = part[i][k]
      <4>1. Len(part[i]) \in Nat /\ off[i-1] \in Nat
        BY <1>1, <3>1
      <4>2. off[i-1] + k \in 1..Len(p)
        BY <1>2, <3>2, <3>3, <4>1
      <4>3. p[off[i-1] + k] = part[i][k]
        BY <1>1, <3>1
      <4>. QED BY <1>3, <4>2, <4>3 DEF pq
    <3>. QED BY <3>2, <3>4
  <2>. QED BY <2>1, <2>2
<1>7. Joins(pq, part, m + 1, new)
  BY <1>4, <1>5, <1>6 DEF Joins
<1>. QED BY <1>7 DEF pq

LEMMA FlattenJoins ==
    ASSUME NEW S, NEW ss \in Seq(Seq(S))
    PROVE  FlattenSeq(ss) \in Seq(S) /\ \E off : Joins(FlattenSeq(ss), ss, Len(ss), off)
<1>. DEFINE n == Len(ss)
<1>1. n \in Nat /\ \A i \in 1..n : ss[i] \in Seq(S) /\ Len(ss[i]) \in Nat
  OBVIOUS
<1>0. <<>> \in Seq(S) /\ Joins(<<>>, ss, 0, [i \in 0..0 |-> 0])
  BY DEF Joins
<1>2. CASE n = 0
  <2>1. FlattenSeq(ss) = <<>>
    BY <1>2 DEF FlattenSeq
  <2>. QED BY <1>0, <1>2, <2>1
<1>3. CASE n # 0
  <2>1. PICK f \in [1..n -> Seq(S)] : Flattens(ss, f) /\ FlattenSeq(ss) = f[n]
    BY <1>3, FlattenIs
  <2>2. \A i \in 1..n : f[i] = IF i = 1 THEN ss[i] ELSE f[i-1] \o ss[i]
    BY <2>1, FlattensAt
  <2>3. \A i \in 1..n : f[i] \in Seq(S)
    OBVIOUS
  <2>. DEFINE Joined(m) == \E off : Joins(f[m], ss, m, off)
              T == {m \in 1..n : ~Joined(m)}
  <2>. HIDE DEF n, Joined
  <2>4. ASSUME T # {}
        PROVE  FALSE
    <3>1. T \subseteq Nat
      OBVIOUS
    <3>2. PICK m \in T : \A l \in T : m <= l
      <4>. HIDE DEF T
      <4>. QED BY <2>4, <3>1, LeastNumber
    <3>3. m \in 1..n /\ ~Joined(m)
      BY <3>2
    <3>4. CASE m = 1
      <4>1. f[1] = ss[1] /\ ss[1] \in Seq(S)
        BY <1>1, <2>2, <3>3, <3>4
      <4>2. \E off : Joins(<<>> \o ss[1], ss, 0 + 1, off)
        <5>1. 0 \in Nat /\ (\A i \in 1..0 : Len(ss[i]) \in Nat) /\ ss[1] = ss[0 + 1]
          OBVIOUS
        <5>. HIDE DEF T
        <5>. QED BY <1>0, <4>1, <5>1, JoinOne
      <4>3. <<>> \o ss[1] = ss[1] /\ 0 + 1 = 1
        BY <4>1
      <4>4. Joined(1)
        BY <4>1, <4>2, <4>3 DEF Joined
      <4>. QED BY <3>3, <3>4, <4>4
    <3>5. CASE m # 1
      <4>1. m - 1 \in 1..n /\ ~(m <= m - 1) /\ (m - 1) + 1 = m /\ m - 1 \in Nat
        BY <1>1, <3>3, <3>5
      <4>2. m - 1 \notin T
        <5>. HIDE DEF T
        <5>. QED BY <3>2, <4>1
      <4>3. Joined(m - 1)
        BY <4>1, <4>2
      <4>4. PICK off : Joins(f[m-1], ss, m - 1, off)
        BY <4>3 DEF Joined
      <4>5. f[m] = f[m-1] \o ss[m] /\ f[m-1] \in Seq(S) /\ ss[m] \in Seq(S)
        BY <1>1, <2>2, <2>3, <3>3, <3>5, <4>1
      <4>6. \A i \in 1..m - 1 : Len(ss[i]) \in Nat
        BY <1>1, <3>3
      <4>7. ss[m] = ss[(m - 1) + 1]
        BY <4>1
      <4>8. \E new : Joins(f[m-1] \o ss[m], ss, (m - 1) + 1, new)
        <5>. HIDE DEF T
        <5>. QED BY <4>1, <4>4, <4>5, <4>6, <4>7, JoinOne
      <4>9. Joined(m)
        BY <4>1, <4>5, <4>8 DEF Joined
      <4>. QED BY <3>3, <4>9
    <3>. QED BY <3>4, <3>5
  <2>5. n \in 1..n
    BY <1>1, <1>3
  <2>6. Joined(n) /\ f[n] \in Seq(S)
    BY <2>3, <2>4, <2>5
  <2>. QED BY <2>1, <2>6 DEF Joined, n
<1>. QED BY <1>2, <1>3

-----------------------------------------------------------------------------
(* Prefixes of a sequence, as the paths above a path. *)
LEMMA PrefixIs ==
    ASSUME NEW S, NEW s \in Seq(S), NEW t \in Seq(S)
    PROVE  /\ Len(s) \in Nat /\ Len(t) \in Nat
           /\ IsPrefix(s, t) <=> Len(s) <= Len(t) /\ \A i \in 1..Len(s) : s[i] = t[i]
<1>1. Len(s) \in Nat /\ Len(t) \in Nat
  OBVIOUS
<1>2. ASSUME IsPrefix(s, t) PROVE Len(s) <= Len(t) /\ \A i \in 1..Len(s) : s[i] = t[i]
  <2>1. Len(s) <= Len(t) /\ SubSeq(s, 1, Len(s)) = SubSeq(t, 1, Len(s))
    BY <1>2 DEF IsPrefix
  <2>2. \A i \in 1..Len(s) : SubSeq(s, 1, Len(s))[i] = s[i] /\ SubSeq(t, 1, Len(s))[i] = t[i]
    BY <1>1, <2>1
  <2>. QED BY <2>1, <2>2
<1>3. ASSUME Len(s) <= Len(t), \A i \in 1..Len(s) : s[i] = t[i] PROVE IsPrefix(s, t)
  <2>1. SubSeq(s, 1, Len(s)) = SubSeq(t, 1, Len(s))
    BY <1>1, <1>3
  <2>. QED BY <1>3, <2>1 DEF IsPrefix
<1>. QED BY <1>1, <1>2, <1>3

LEMMA SameList ==
    ASSUME NEW S, NEW s \in Seq(S), NEW t \in Seq(S), Len(s) = Len(t),
           \A i \in 1..Len(s) : s[i] = t[i]
    PROVE  s = t
OBVIOUS

LEMMA PrefixAll ==
    ASSUME NEW S, NEW s \in Seq(S)
    PROVE  IsPrefix(s, s)
BY PrefixIs

LEMMA PrefixNone ==
    ASSUME NEW S, NEW e \in Seq(S), Len(e) = 0, NEW s \in Seq(S)
    PROVE  IsPrefix(e, s)
<1>1. Len(s) \in Nat /\ 0 <= Len(s)
  OBVIOUS
<1>2. 1..Len(e) = {}
  OBVIOUS
<1>3. Len(e) <= Len(s)
  BY <1>1
<1>4. \A i \in 1..Len(e) : e[i] = s[i]
  BY <1>2
<1>. QED BY <1>3, <1>4, PrefixIs

LEMMA PrefixOn ==
    ASSUME NEW S, NEW a \in Seq(S), NEW b \in Seq(S), NEW c \in Seq(S),
           IsPrefix(a, b), IsPrefix(b, c)
    PROVE  IsPrefix(a, c)
<1>1. /\ Len(a) \in Nat /\ Len(b) \in Nat /\ Len(c) \in Nat
      /\ Len(a) <= Len(b) /\ \A i \in 1..Len(a) : a[i] = b[i]
      /\ Len(b) <= Len(c) /\ \A i \in 1..Len(b) : b[i] = c[i]
  BY PrefixIs
<1>2. Len(a) <= Len(c) /\ \A i \in 1..Len(a) : i \in 1..Len(b)
  BY <1>1
<1>3. \A i \in 1..Len(a) : a[i] = c[i]
  BY <1>1, <1>2
<1>. QED BY <1>2, <1>3, PrefixIs

(* Of two prefixes the shorter is a prefix of the longer. *)
LEMMA PrefixesChain ==
    ASSUME NEW S, NEW a \in Seq(S), NEW b \in Seq(S), NEW c \in Seq(S),
           IsPrefix(a, c), IsPrefix(b, c)
    PROVE  /\ Len(a) <= Len(b) => IsPrefix(a, b)
           /\ Len(b) <= Len(a) => IsPrefix(b, a)
           /\ Len(a) = Len(b) => a = b
<1>1. /\ Len(a) \in Nat /\ Len(b) \in Nat /\ Len(c) \in Nat
      /\ Len(a) <= Len(c) /\ \A i \in 1..Len(a) : a[i] = c[i]
      /\ Len(b) <= Len(c) /\ \A i \in 1..Len(b) : b[i] = c[i]
  BY PrefixIs
<1>2. ASSUME Len(a) <= Len(b) PROVE \A i \in 1..Len(a) : a[i] = b[i]
  BY <1>1, <1>2
<1>3. ASSUME Len(b) <= Len(a) PROVE \A i \in 1..Len(b) : b[i] = a[i]
  BY <1>1, <1>3
<1>. QED BY <1>1, <1>2, <1>3, PrefixIs, SameList

LEMMA PrefixLonger ==
    ASSUME NEW S, NEW a \in Seq(S), NEW b \in Seq(S), IsPrefix(a, b)
    PROVE  /\ Len(a) \in Nat /\ Len(b) \in Nat /\ Len(a) <= Len(b)
           /\ Len(a) = Len(b) => a = b
<1>1. IsPrefix(b, b)
  BY PrefixAll
<1>. QED BY <1>1, PrefixIs, PrefixesChain

(* What is cut off a sequence. *)
LEMMA PrefixCut ==
    ASSUME NEW S, NEW f \in Seq(S), NEW n \in 0..Len(f)
    PROVE  /\ SubSeq(f, 1, n) \in Seq(S) /\ Len(SubSeq(f, 1, n)) = n
           /\ IsPrefix(SubSeq(f, 1, n), f)
<1>. DEFINE s == SubSeq(f, 1, n)
<1>1. /\ s \in Seq(S) /\ Len(s) = n /\ Len(f) \in Nat /\ n <= Len(f)
      /\ \A i \in 1..n : s[i] = f[i]
  OBVIOUS
<1>. HIDE DEF s
<1>2. IsPrefix(s, f)
  BY <1>1, PrefixIs
<1>. QED BY <1>1, <1>2 DEF s

LEMMA PrefixIsCut ==
    ASSUME NEW S, NEW q \in Seq(S), NEW f \in Seq(S), IsPrefix(q, f)
    PROVE  q = SubSeq(f, 1, Len(q)) /\ Len(q) \in 0..Len(f) /\ Len(q) \in Nat /\ Len(f) \in Nat
<1>1. Len(q) \in Nat /\ Len(f) \in Nat /\ Len(q) <= Len(f)
  BY PrefixIs
<1>2. Len(q) \in 0..Len(f)
  BY <1>1
<1>3. /\ SubSeq(f, 1, Len(q)) \in Seq(S) /\ Len(SubSeq(f, 1, Len(q))) = Len(q)
      /\ IsPrefix(SubSeq(f, 1, Len(q)), f)
  BY <1>2, PrefixCut
<1>. DEFINE s == SubSeq(f, 1, Len(q))
<1>. HIDE DEF s
<1>4. s \in Seq(S) /\ Len(s) = Len(q) /\ IsPrefix(s, f)
  BY <1>3 DEF s
<1>5. s = q
  BY <1>4, PrefixesChain
<1>. QED BY <1>1, <1>2, <1>5 DEF s

LEMMA PrefixAndRest ==
    ASSUME NEW S, NEW q \in Seq(S), NEW f \in Seq(S), IsPrefix(q, f)
    PROVE  q \o SubSeq(f, Len(q) + 1, Len(f)) = f
<1>. DEFINE r == SubSeq(f, Len(q) + 1, Len(f))
            t == q \o r
<1>1. /\ Len(q) \in Nat /\ Len(f) \in Nat /\ Len(q) <= Len(f)
      /\ \A i \in 1..Len(q) : q[i] = f[i]
  BY PrefixIs
<1>2. /\ r \in Seq(S) /\ Len(r) = Len(f) - Len(q)
      /\ \A i \in 1..Len(r) : r[i] = f[Len(q) + i]
  BY <1>1
<1>. HIDE DEF r
<1>3. /\ Len(t) = Len(q) + Len(r)
      /\ \A i \in 1..Len(q) : t[i] = q[i]
      /\ \A i \in Len(q) + 1..Len(q) + Len(r) : t[i] = r[i - Len(q)] /\ i - Len(q) \in 1..Len(r)
  BY <1>2, TwoParts
<1>4. t \in Seq(S)
  BY <1>2
<1>. HIDE DEF t
<1>5. ASSUME NEW i \in 1..Len(t) PROVE t[i] = f[i]
  <2>1. CASE i \in 1..Len(q)
    BY <1>1, <1>3, <2>1
  <2>2. CASE i \notin 1..Len(q)
    <3>1. i \in Len(q) + 1..Len(q) + Len(r) /\ Len(q) + (i - Len(q)) = i
      BY <1>1, <1>2, <1>3, <2>2
    <3>2. t[i] = r[i - Len(q)] /\ i - Len(q) \in 1..Len(r)
      BY <1>3, <3>1
    <3>. QED BY <1>2, <3>1, <3>2
  <2>. QED BY <2>1, <2>2
<1>6. Len(t) = Len(f)
  BY <1>1, <1>2, <1>3
<1>7. t = f
  BY <1>4, <1>5, <1>6, SameList
<1>. QED BY <1>7 DEF t, r

(* What is put behind a sequence. *)
LEMMA PrefixOfJoined ==
    ASSUME NEW S, NEW d \in Seq(S), NEW r \in Seq(S)
    PROVE  /\ d \o r \in Seq(S) /\ IsPrefix(d, d \o r) /\ Len(d \o r) = Len(d) + Len(r)
           /\ Len(d) \in Nat /\ Len(r) \in Nat /\ (r # <<>> => d # d \o r)
<1>1. d \o r \in Seq(S) /\ Len(d) \in Nat /\ Len(r) \in Nat /\ (r # <<>> => Len(r) # 0)
  OBVIOUS
<1>2. Len(d \o r) = Len(d) + Len(r) /\ \A i \in 1..Len(d) : (d \o r)[i] = d[i]
  BY TwoParts
<1>3. Len(d) <= Len(d \o r)
  BY <1>1, <1>2
<1>4. IsPrefix(d, d \o r)
  <2>. DEFINE t == d \o r
  <2>1. t \in Seq(S) /\ Len(d) <= Len(t) /\ \A i \in 1..Len(d) : t[i] = d[i]
    BY <1>1, <1>2, <1>3
  <2>. HIDE DEF t
  <2>2. IsPrefix(d, t)
    BY <2>1, PrefixIs
  <2>. QED BY <2>2 DEF t
<1>5. ASSUME r # <<>> PROVE d # d \o r
  <2>1. Len(d \o r) # Len(d)
    BY <1>1, <1>2, <1>5
  <2>. QED BY <2>1
<1>. QED BY <1>1, <1>2, <1>4, <1>5

LEMMA PrefixOfAppended ==
    ASSUME NEW S, NEW d \in Seq(S), NEW x \in S
    PROVE  Append(d, x) \in Seq(S) /\ IsPrefix(d, Append(d, x)) /\ d # Append(d, x)
<1>. DEFINE t == Append(d, x)
<1>1. t \in Seq(S) /\ Len(t) = Len(d) + 1 /\ \A i \in 1..Len(d) : t[i] = d[i]
  OBVIOUS
<1>. HIDE DEF t
<1>2. Len(d) \in Nat
  OBVIOUS
<1>3. IsPrefix(d, t) /\ d # t
  BY <1>1, <1>2, PrefixIs
<1>. QED BY <1>1, <1>3 DEF t

(* The path above a path. *)
LEMMA FrontIs ==
    ASSUME NEW S, NEW d \in Seq(S), d # <<>>
    PROVE  /\ Front(d) \in Seq(S) /\ Len(Front(d)) = Len(d) - 1 /\ Len(d) \in Nat /\ Len(d) > 0
           /\ IsPrefix(Front(d), d) /\ d = Append(Front(d), Last(d)) /\ Last(d) \in S
<1>1. Len(d) \in Nat /\ Len(d) > 0
  OBVIOUS
<1>2. Front(d) = SubSeq(d, 1, Len(d) - 1)
  BY DEF Front
<1>. DEFINE n == Len(d) - 1
<1>3. n \in 0..Len(d) /\ Len(d) \in 1..Len(d)
  BY <1>1
<1>. HIDE DEF n
<1>4. Front(d) \in Seq(S) /\ Len(Front(d)) = n /\ IsPrefix(Front(d), d)
  BY <1>2, <1>3, PrefixCut DEF n
<1>5. Last(d) \in S /\ Last(d) = d[Len(d)]
  BY <1>3 DEF Last
<1>6. \A i \in 1..n : Front(d)[i] = d[i]
  BY <1>4, PrefixIs
<1>. DEFINE t == Append(Front(d), Last(d))
<1>7. t \in Seq(S) /\ Len(t) = n + 1 /\ t[n + 1] = Last(d) /\ \A i \in 1..n : t[i] = Front(d)[i]
  <2>. DEFINE e == Front(d)
              x == Last(d)
  <2>. HIDE DEF e, x
  <2>1. e \in Seq(S) /\ Len(e) = n /\ x \in S
    BY <1>4, <1>5 DEF e, x
  <2>2. /\ Append(e, x) \in Seq(S) /\ Len(Append(e, x)) = n + 1
        /\ Append(e, x)[n + 1] = x /\ \A i \in 1..n : Append(e, x)[i] = e[i]
    BY <2>1
  <2>. QED BY <2>2 DEF e, x
<1>. HIDE DEF t
<1>8. n + 1 = Len(d) /\ \A i \in 1..Len(d) : i = n + 1 \/ i \in 1..n
  BY <1>1 DEF n
<1>9. t = d
  <2>1. \A i \in 1..Len(t) : t[i] = d[i]
    BY <1>5, <1>6, <1>7, <1>8
  <2>. QED BY <1>7, <1>8, <2>1, SameList
<1>. QED BY <1>1, <1>4, <1>5, <1>9 DEF n, t

LEMMA PrefixOfFront ==
    ASSUME NEW S, NEW a \in Seq(S), NEW d \in Seq(S), IsPrefix(a, d), a # d
    PROVE  d # <<>> /\ IsPrefix(a, Front(d))
<1>1. /\ Len(a) \in Nat /\ Len(d) \in Nat /\ Len(a) <= Len(d) /\ Len(a) # Len(d)
      /\ \A i \in 1..Len(a) : a[i] = d[i]
  BY PrefixIs, PrefixLonger
<1>2. d # <<>>
  <2>1. Len(d) > 0
    BY <1>1
  <2>. QED BY <2>1
<1>3. Front(d) \in Seq(S) /\ Len(Front(d)) = Len(d) - 1 /\ IsPrefix(Front(d), d)
  BY <1>2, FrontIs
<1>4. Len(a) <= Len(Front(d))
  BY <1>1, <1>3
<1>. QED BY <1>2, <1>3, <1>4, PrefixesChain

(* What is in an extended list, and in a joined one. *)
LEMMA ToSetAppend ==
    ASSUME NEW S, NEW s \in Seq(S), NEW x \in S
    PROVE  ToSet(Append(s, x)) = ToSet(s) \cup {x}
<1>. DEFINE t == Append(s, x)
            n == Len(s)
<1>1. /\ n \in Nat /\ DOMAIN s = 1..n /\ DOMAIN t = 1..(n + 1)
      /\ t[n + 1] = x /\ \A i \in 1..n : t[i] = s[i]
  OBVIOUS
<1>. HIDE DEF t, n
<1>2. n + 1 \in 1..(n + 1) /\ \A i \in 1..(n + 1) : i \in 1..n \/ i = n + 1
  BY <1>1
<1>3. 1..n \subseteq 1..(n + 1)
  BY <1>1
<1>4. ToSet(t) = ToSet(s) \cup {x}
  BY <1>1, <1>2, <1>3 DEF ToSet
<1>. QED BY <1>4 DEF t

LEMMA ToSetJoined ==
    ASSUME NEW S, NEW a \in Seq(S), NEW b \in Seq(S)
    PROVE  a \o b \in Seq(S) /\ ToSet(a \o b) = ToSet(a) \cup ToSet(b)
<1>. DEFINE t == a \o b
            n == Len(a)
            k == Len(b)
<1>1. /\ n \in Nat /\ k \in Nat /\ DOMAIN a = 1..n /\ DOMAIN b = 1..k /\ DOMAIN t = 1..(n + k)
      /\ \A i \in 1..n : t[i] = a[i]
      /\ t \in Seq(S)
  OBVIOUS
<1>2. \A i \in 1..k : t[n + i] = b[i]
  OBVIOUS
<1>. HIDE DEF t, n, k
<1>3. \A i \in 1..k : n + i \in 1..(n + k)
  BY <1>1
<1>4. 1..n \subseteq 1..(n + k)
  BY <1>1
<1>5. \A i \in 1..(n + k) : i \in 1..n \/ \E j \in 1..k : i = n + j
  <2> TAKE i \in 1..(n + k)
  <2>1. i \in 1..n \/ i - n \in 1..k
    BY <1>1
  <2>2. i = n + (i - n)
    BY <1>1
  <2>. QED BY <2>1, <2>2
<1>6. ASSUME NEW x
      PROVE  x \in ToSet(t) <=> x \in ToSet(a) \cup ToSet(b)
  <2>1. x \in ToSet(t) <=> \E i \in 1..(n + k) : t[i] = x
    BY <1>1 DEF ToSet
  <2>2. x \in ToSet(a) <=> \E i \in 1..n : a[i] = x
    BY <1>1 DEF ToSet
  <2>3. x \in ToSet(b) <=> \E i \in 1..k : b[i] = x
    BY <1>1 DEF ToSet
  <2>4. ASSUME NEW i \in 1..(n + k), t[i] = x
        PROVE  x \in ToSet(a) \cup ToSet(b)
    BY <1>1, <1>2, <1>5, <2>2, <2>3, <2>4
  <2>5. x \in ToSet(a) => x \in ToSet(t)
    BY <1>1, <1>4, <2>1, <2>2
  <2>6. x \in ToSet(b) => x \in ToSet(t)
    BY <1>2, <1>3, <2>1, <2>3
  <2>. QED BY <2>1, <2>4, <2>5, <2>6
<1>7. ToSet(t) = ToSet(a) \cup ToSet(b)
  BY <1>6
<1>. QED BY <1>1, <1>7 DEF t

LEMMA SeqOfMore ==
    ASSUME NEW S, NEW U, S \subseteq U, NEW s \in Seq(S)
    PROVE  s \in Seq(U)
OBVIOUS
=============================================================================
