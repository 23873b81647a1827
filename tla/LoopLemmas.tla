----------------------------- MODULE LoopLemmas -----------------------------
(***************************************************************************)
(* What the loops of the program rest on: a loop that counts up to a first *)
(* match stops at it, and a loop over 1 .. n that carries a value along,   *)
(* which the models write with FoldLeft, passes through the values that    *)
(* its steps give.  A property of numbers is the set of the numbers that   *)
(* have it, the step of a loop a function G on pairs of a value and an     *)
(* index.  At the end, what a sum over a finite set is, in whatever order  *)
(* its elements are added.                                                 *)
(***************************************************************************)
EXTENDS SequencesExt, FiniteSetTheorems, SequenceTheorems, WellFoundedInduction, TLAPS

(* A set of numbers that is not empty has a least one.                     *)
LEMMA LeastNat ==
  ASSUME NEW S \in SUBSET Nat, S # {}
  PROVE  \E i \in S : \A j \in S : i <= j
<1> DEFINE Below == {0 .. i - 1 : i \in S}
<1>1. Below \subseteq FiniteSubsetsOf(Nat)
  <2> SUFFICES ASSUME NEW i \in S PROVE 0 .. i - 1 \in FiniteSubsetsOf(Nat)
    OBVIOUS
  <2>1. IsFiniteSet(0 .. i - 1)
    BY FS_Interval
  <2> QED BY <2>1 DEF FiniteSubsetsOf
<1>2. Below # {}
  OBVIOUS
<1>3. \E x \in Below : \A y \in Below : <<y, x>> \notin StrictSubsetOrdering(Nat)
  <2> HIDE DEF Below
  <2> QED BY <1>1, <1>2, FS_StrictSubsetOrderingWellFounded, WFMin
<1>4. PICK i \in S :
        \A j \in S : <<0 .. j - 1, 0 .. i - 1>> \notin StrictSubsetOrdering(Nat)
  BY <1>3
<1>5. ASSUME NEW j \in S PROVE i <= j
  <2>1. i \in Nat /\ j \in Nat
    OBVIOUS
  <2> SUFFICES ASSUME j < i PROVE FALSE
    BY <2>1
  <2>2. 0 .. j - 1 \subseteq 0 .. i - 1 /\ j \in 0 .. i - 1 /\ j \notin 0 .. j - 1
    BY <2>1
  <2>3. 0 .. j - 1 # 0 .. i - 1
    BY <2>2
  <2>4. 0 .. j - 1 \in SUBSET Nat /\ 0 .. i - 1 \in SUBSET Nat
    BY <2>1
  <2> QED BY <1>4, <2>2, <2>3, <2>4 DEF StrictSubsetOrdering
<1> QED BY <1>5

(* What holds of 0 and of the number after each holds of all: the set P of *)
(* the numbers it holds of is Nat.                                         *)
LEMMA AllNumbers ==
  ASSUME NEW P, 0 \in P, \A k \in Nat : k \in P => k + 1 \in P
  PROVE  \A k \in Nat : k \in P
<1> SUFFICES ASSUME Nat \ P # {} PROVE FALSE
  OBVIOUS
<1>1. PICK i \in Nat \ P : \A j \in Nat \ P : i <= j
  BY LeastNat
<1>2. i \in Nat /\ i # 0 /\ i - 1 \in Nat
  OBVIOUS
<1>3. i - 1 \in P
  BY <1>1, <1>2
<1> QED BY <1>2, <1>3

(* The folds of the library take the highest index off first.              *)
LEMMA HighestOf ==
  ASSUME NEW k \in Nat, NEW s \in SUBSET (1 .. k), k \in s
  PROVE  Max(s) = k
<1>1. k \in s /\ \A y \in s : k >= y
  OBVIOUS
<1>2. Max(s) \in s /\ \A y \in s : Max(s) >= y
  BY <1>1 DEF Max
<1>3. Max(s) \in 1 .. k
  BY <1>2
<1> QED BY <1>1, <1>2, <1>3

(* A fold over 1 .. n from base by the steps G, which stay in a set A: a   *)
(* function on the sets of indices, as the library defines it (IsFold); a  *)
(* function that is one as long as its values are in A (Follows); and the  *)
(* values a loop has after 0 to n of its steps (IsTrace).                  *)
Steps(n, A)  == [A \X (1 .. n) -> A]
Values(n, A) == [SUBSET (1 .. n) -> A]
Trace(n, A)  == [0 .. n -> A]

IsFold(g, n, base, G) ==
  \A s \in SUBSET (1 .. n) :
    g[s] = IF s = {} THEN base ELSE G[<<g[s \ {Max(s)}], Max(s)>>]

Follows(h, n, A, base, G) ==
  /\ h[{}] = base
  /\ \A s \in SUBSET (1 .. n) : s # {} /\ h[s \ {Max(s)}] \in A
                                  => h[s] = G[<<h[s \ {Max(s)}], Max(s)>>]

IsTrace(r, n, base, G) == r[0] = base /\ \A k \in 1 .. n : r[k] = G[<<r[k - 1], k>>]

(* There is such a function.                                               *)
LEMMA FoldExists ==
  ASSUME NEW n \in Nat, NEW A, NEW base \in A, NEW G \in Steps(n, A)
  PROVE  \E g \in Values(n, A) : IsFold(g, n, base, G)
<1> USE DEF Steps, Values
<1> DEFINE Folds(k, g) ==
             /\ g \in [SUBSET (1 .. k) -> A]
             /\ \A s \in SUBSET (1 .. k) :
                  g[s] = IF s = {} THEN base ELSE G[<<g[s \ {Max(s)}], Max(s)>>]
           P == {k \in Nat : k <= n => \E g : Folds(k, g)}
<1>1. 0 \in P
  <2>1. 1 .. 0 = {}
    OBVIOUS
  <2>2. Folds(0, [s \in SUBSET (1 .. 0) |-> base])
    BY <2>1
  <2> QED BY <2>2
<1>2. ASSUME NEW k \in Nat, k \in P PROVE k + 1 \in P
  <2>0. SUFFICES ASSUME k + 1 <= n PROVE \E h : Folds(k + 1, h)
    <3> HIDE DEF Folds
    <3> QED OBVIOUS
  <2>1. PICK g : Folds(k, g)
    <3>1. k <= n
      BY <2>0
    <3> HIDE DEF Folds
    <3> QED BY <1>2, <3>1
  <2>2. \A s \in SUBSET (1 .. k + 1) : s \ {k + 1} \in SUBSET (1 .. k)
    OBVIOUS
  <2> DEFINE h == [s \in SUBSET (1 .. k + 1) |->
                     IF k + 1 \in s THEN G[<<g[s \ {k + 1}], k + 1>>] ELSE g[s]]
  <2>3. h \in [SUBSET (1 .. k + 1) -> A]
    <3> SUFFICES ASSUME NEW s \in SUBSET (1 .. k + 1)
                 PROVE  (IF k + 1 \in s THEN G[<<g[s \ {k + 1}], k + 1>>] ELSE g[s]) \in A
      OBVIOUS
    <3>1. CASE k + 1 \in s
      <4>1. g[s \ {k + 1}] \in A /\ k + 1 \in 1 .. n
        BY <2>0, <2>1, <2>2
      <4> QED BY <3>1, <4>1
    <3>2. CASE k + 1 \notin s
      BY <2>1, <3>2
    <3> QED BY <3>1, <3>2
  <2>4. ASSUME NEW s \in SUBSET (1 .. k + 1)
        PROVE  h[s] = IF s = {} THEN base ELSE G[<<h[s \ {Max(s)}], Max(s)>>]
    <3>1. CASE k + 1 \in s
      <4>1. Max(s) = k + 1
        BY <3>1, HighestOf
      <4>2. s \ {k + 1} \in SUBSET (1 .. k + 1) /\ k + 1 \notin s \ {k + 1}
        OBVIOUS
      <4>3. h[s \ {k + 1}] = g[s \ {k + 1}]
        BY <4>2
      <4>4. h[s] = G[<<g[s \ {k + 1}], k + 1>>]
        BY <3>1
      <4> HIDE DEF h
      <4> QED BY <3>1, <4>1, <4>3, <4>4
    <3>2. CASE k + 1 \notin s
      <4>1. s \in SUBSET (1 .. k) /\ s \ {Max(s)} \in SUBSET (1 .. k + 1) /\ k + 1 \notin s \ {Max(s)}
        BY <2>2, <3>2
      <4>2. h[s] = g[s] /\ h[s \ {Max(s)}] = g[s \ {Max(s)}]
        BY <3>2, <4>1
      <4> HIDE DEF h
      <4> QED BY <2>1, <4>1, <4>2
    <3> QED BY <3>1, <3>2
  <2> HIDE DEF h
  <2> QED BY <2>3, <2>4
<1> HIDE DEF P
<1>3. n \in P
  BY <1>1, <1>2, AllNumbers
<1>4. \E g : Folds(n, g)
  <2> HIDE DEF Folds
  <2> QED BY <1>3 DEF P
<1> QED BY <1>4 DEF IsFold

(* Without its highest index, 1 .. k + 1 is 1 .. k.                        *)
LEMMA Segment ==
  ASSUME NEW k \in Nat
  PROVE  1 .. k + 1 # {} /\ Max(1 .. k + 1) = k + 1 /\ (1 .. k + 1) \ {k + 1} = 1 .. k
<1>1. Max(1 .. k + 1) = k + 1
  BY HighestOf
<1> QED BY <1>1

(* A set of indices that is not empty has a highest one.                   *)
LEMMA HighestIn ==
  ASSUME NEW n \in Nat, NEW s \in SUBSET (1 .. n), s # {}
  PROVE  Max(s) \in s /\ Max(s) \in 1 .. n
<1> DEFINE S == {n - k : k \in s}
<1>1. S \in SUBSET Nat /\ S # {}
  <2>1. \A k \in s : n - k \in Nat
    OBVIOUS
  <2> QED BY <2>1
<1>2. PICK i \in S : \A j \in S : i <= j
  BY <1>1, LeastNat
<1>3. PICK k \in s : i = n - k
  OBVIOUS
<1>4. \A y \in s : n - k <= n - y
  BY <1>2, <1>3
<1>5. \A y \in s : k >= y
  BY <1>4
<1> QED BY <1>5 DEF Max

(* It passes through the values its steps give, one after the other.       *)
LEMMA FoldTrace ==
  ASSUME NEW n \in Nat, NEW A, NEW base \in A, NEW G \in Steps(n, A),
         NEW h, Follows(h, n, A, base, G)
  PROVE  \E r \in Trace(n, A) : IsTrace(r, n, base, G) /\ r[n] = h[1 .. n]
<1> USE DEF Steps, Follows
<1> DEFINE P == {k \in Nat : k <= n => h[1 .. k] \in A}
           r == [k \in 0 .. n |-> h[1 .. k]]
<1>1. \A k \in Nat : k + 1 <= n /\ h[1 .. k] \in A => h[1 .. k + 1] = G[<<h[1 .. k], k + 1>>]
  <2> SUFFICES ASSUME NEW k \in Nat, k + 1 <= n, h[1 .. k] \in A
               PROVE  h[1 .. k + 1] = G[<<h[1 .. k], k + 1>>]
    OBVIOUS
  <2> DEFINE s == 1 .. k + 1
  <2>1. s \in SUBSET (1 .. n) /\ s # {} /\ Max(s) = k + 1 /\ s \ {k + 1} = 1 .. k
    <3>1. s \in SUBSET (1 .. n)
      OBVIOUS
    <3> QED BY <3>1, Segment
  <2> HIDE DEF s
  <2>2. h[s] = G[<<h[1 .. k], k + 1>>]
    BY <2>1
  <2> QED BY <2>2 DEF s
<1>2. 1 .. 0 = {}
  OBVIOUS
<1>3. 0 \in P
  BY <1>2
<1>4. ASSUME NEW k \in Nat, k \in P PROVE k + 1 \in P
  <2> SUFFICES ASSUME k + 1 <= n PROVE h[1 .. k + 1] \in A
    OBVIOUS
  <2>1. h[1 .. k] \in A /\ k + 1 \in 1 .. n
    BY <1>4
  <2> QED BY <1>1, <2>1
<1> HIDE DEF P
<1>5. \A k \in Nat : k \in P
  BY <1>3, <1>4, AllNumbers
<1>6. \A k \in 0 .. n : h[1 .. k] \in A
  BY <1>5 DEF P
<1>7. \A k \in 1 .. n : h[1 .. k] = G[<<h[1 .. k - 1], k>>]
  <2> SUFFICES ASSUME NEW k \in 1 .. n PROVE h[1 .. k] = G[<<h[1 .. k - 1], k>>]
    OBVIOUS
  <2> DEFINE j == k - 1
  <2>1. j \in Nat /\ j + 1 = k /\ j \in 0 .. n /\ j + 1 <= n
    OBVIOUS
  <2> HIDE DEF j
  <2>2. h[1 .. j + 1] = G[<<h[1 .. j], j + 1>>]
    BY <1>1, <1>6, <2>1
  <2> QED BY <2>1, <2>2 DEF j
<1>8. r \in [0 .. n -> A] /\ r[0] = base /\ r[n] = h[1 .. n] /\ \A k \in 1 .. n : r[k] = G[<<r[k - 1], k>>]
  BY <1>2, <1>6, <1>7
<1> QED BY <1>8 DEF Trace, IsTrace

-----------------------------------------------------------------------------
(* A loop over 1 .. n that appends f[k] for the k in P.                    *)
IsFilter(h, n, P, f) ==
  h = [s \in SUBSET (1 .. n) |->
         IF s = {} THEN << >>
         ELSE IF Max(s) \in P THEN Append(h[s \ {Max(s)}], f[Max(s)]) ELSE h[s \ {Max(s)}]]

(* What it makes: all of them, nothing else, in their order, and each once *)
(* if they differ.                                                         *)
Rank(P, k) == Cardinality({l \in P : l < k})

Picks(q, n, E, P, f) ==
  /\ q \in Seq(E) /\ Len(q) \in 0 .. n
  /\ IsFiniteSet(P) /\ Len(q) = Cardinality(P)
  /\ \A j \in 1 .. Len(q) : \E k \in P : q[j] = f[k] /\ Rank(P, k) = j - 1
  /\ \A k \in P : \E j \in 1 .. Len(q) : q[j] = f[k]
  /\ (\A k, l \in P : f[k] = f[l] => k = l) => \A i, j \in 1 .. Len(q) : q[i] = q[j] => i = j

(* One more index, not in P or in P.                                       *)
LEMMA PicksNext ==
  ASSUME NEW n \in Nat, NEW E, NEW P \in SUBSET (1 .. n), NEW f, NEW q,
         Picks(q, n, E, P, f)
  PROVE  /\ Picks(q, n + 1, E, P, f)
         /\ f[n + 1] \in E => Picks(Append(q, f[n + 1]), n + 1, E, P \cup {n + 1}, f)
<1> DEFINE e == f[n + 1]
           p == Append(q, e)
           Q == P \cup {n + 1}
<1>1. q \in Seq(E) /\ Len(q) \in 0 .. n /\ Len(q) \in Nat
  BY DEF Picks
<1>2. Len(q) + 1 \in 0 .. n + 1 /\ Len(q) \in 0 .. n + 1
  BY <1>1
<1>3. Picks(q, n + 1, E, P, f)
  BY <1>2 DEF Picks
<1> SUFFICES ASSUME e \in E PROVE Picks(p, n + 1, E, Q, f)
  BY <1>3
<1>4. /\ p \in Seq(E) /\ Len(p) = Len(q) + 1 /\ p[Len(q) + 1] = e
      /\ \A j \in 1 .. Len(q) : p[j] = q[j]
  BY <1>1, AppendProperties
<1>5. \A j \in 1 .. Len(p) : j \in 1 .. Len(q) \/ j = Len(q) + 1
  BY <1>1, <1>4
<1>6. n + 1 \notin P /\ 1 .. Len(q) \subseteq 1 .. Len(p) /\ Len(q) + 1 \in 1 .. Len(p)
  BY <1>1, <1>4
<1> HIDE DEF p
<1>7. \A j \in 1 .. Len(p) : \E k \in Q : p[j] = f[k] /\ Rank(Q, k) = j - 1
  <2>1. \A k \in P : Rank(Q, k) = Rank(P, k)
    <3>1. \A k \in P : {l \in Q : l < k} = {l \in P : l < k}
      OBVIOUS
    <3> QED BY <3>1 DEF Rank
  <2>2. Rank(Q, n + 1) = Len(q)
    <3>1. \A l \in Q : l < n + 1 <=> l \in P
      OBVIOUS
    <3>2. {l \in Q : l < n + 1} = P
      BY <3>1
    <3> QED BY <3>2 DEF Rank, Picks
  <2>3. \A j \in 1 .. Len(q) : \E k \in Q : p[j] = f[k] /\ Rank(Q, k) = j - 1
    BY <1>4, <2>1 DEF Picks
  <2>4. n + 1 \in Q /\ p[Len(q) + 1] = f[n + 1] /\ Rank(Q, n + 1) = Len(q) + 1 - 1
    BY <1>1, <1>4, <2>2
  <2>5. \A j \in 1 .. Len(p) : j \notin 1 .. Len(q) => j = Len(q) + 1
    BY <1>5
  <2>6. ASSUME NEW j \in 1 .. Len(p) PROVE \E k \in Q : p[j] = f[k] /\ Rank(Q, k) = j - 1
    <3>1. CASE j \in 1 .. Len(q)
      BY <2>3, <3>1
    <3>2. CASE j = Len(q) + 1
      BY <2>4, <3>2
    <3> QED BY <2>5, <3>1, <3>2
  <2> QED BY <2>6
<1>10. IsFiniteSet(Q) /\ Len(p) = Cardinality(Q)
  BY <1>4, <1>6, FS_AddElement DEF Picks
<1>8. \A k \in Q : \E j \in 1 .. Len(p) : p[j] = f[k]
  BY <1>4, <1>6 DEF Picks
<1>9. ASSUME \A k, l \in Q : f[k] = f[l] => k = l
      PROVE  \A i, j \in 1 .. Len(p) : p[i] = p[j] => i = j
  <2>1. \A i, j \in 1 .. Len(q) : q[i] = q[j] => i = j
    BY <1>9 DEF Picks
  <2>2. \A j \in 1 .. Len(q) : q[j] # e
    <3> SUFFICES ASSUME NEW j \in 1 .. Len(q), q[j] = e PROVE FALSE
      OBVIOUS
    <3>1. PICK k \in P : q[j] = f[k]
      BY DEF Picks
    <3> QED BY <1>6, <1>9, <3>1
  <2> QED BY <1>4, <1>5, <2>1, <2>2
<1> QED BY <1>2, <1>4, <1>7, <1>8, <1>9, <1>10 DEF Picks

(* The loop makes what Picks says.                                         *)
LEMMA FilterFold ==
  ASSUME NEW n \in Nat, NEW E, NEW P \in SUBSET (1 .. n), NEW f, \A k \in P : f[k] \in E
  PROVE  /\ \E h : IsFilter(h, n, P, f)
         /\ \A h : IsFilter(h, n, P, f) => Picks(h[1 .. n], n, E, P, f)
<1> DEFINE A    == Seq(E)
           base == << >>
           G    == [p \in A \X (1 .. n) |-> IF p[2] \in P THEN Append(p[1], f[p[2]]) ELSE p[1]]
<1>1. base \in A
  OBVIOUS
<1>2. \A a \in A, k \in 1 .. n : (IF k \in P THEN Append(a, f[k]) ELSE a) \in A
  BY AppendProperties
<1>3. \A a \in A, k \in 1 .. n : G[<<a, k>>] = IF k \in P THEN Append(a, f[k]) ELSE a
  OBVIOUS
<1>4. G \in Steps(n, A)
  BY <1>2 DEF Steps
<1>5. base = << >>
  OBVIOUS
<1> HIDE DEF A, G, base
<1>6. PICK g \in Values(n, A) : IsFold(g, n, base, G)
  BY <1>1, <1>4, FoldExists
<1>7. IsFilter(g, n, P, f)
  <2>1. g \in [SUBSET (1 .. n) -> A]
    BY DEF Values
  <2>2. ASSUME NEW s \in SUBSET (1 .. n)
        PROVE  g[s] = IF s = {} THEN << >>
                      ELSE IF Max(s) \in P THEN Append(g[s \ {Max(s)}], f[Max(s)]) ELSE g[s \ {Max(s)}]
    <3>1. CASE s = {}
      BY <1>5, <1>6, <3>1 DEF IsFold
    <3>2. CASE s # {}
      <4>1. Max(s) \in 1 .. n /\ g[s \ {Max(s)}] \in A
        BY <2>1, <3>2, HighestIn
      <4>2. g[s] = G[<<g[s \ {Max(s)}], Max(s)>>]
        BY <1>6, <3>2 DEF IsFold
      <4> QED BY <1>3, <3>2, <4>1, <4>2
    <3> QED BY <3>1, <3>2
  <2> QED BY <2>1, <2>2 DEF IsFilter
<1>8. ASSUME NEW h, IsFilter(h, n, P, f) PROVE Picks(h[1 .. n], n, E, P, f)
  <2>1. /\ h[{}] = << >>
        /\ \A s \in SUBSET (1 .. n) : s # {} =>
             h[s] = IF Max(s) \in P THEN Append(h[s \ {Max(s)}], f[Max(s)]) ELSE h[s \ {Max(s)}]
    BY <1>8 DEF IsFilter
  <2> DEFINE Upto(k) == P \cap (1 .. k)
             S == {k \in Nat : k <= n => Picks(h[1 .. k], k, E, Upto(k), f)}
  <2>2. 0 \in S
    <3>1. 1 .. 0 = {} /\ Upto(0) = {} /\ << >> \in Seq(E) /\ Len(<< >>) = 0
      OBVIOUS
    <3> HIDE DEF Upto
    <3>2. h[1 .. 0] = << >>
      BY <2>1, <3>1
    <3>3. Picks(<< >>, 0, E, {}, f)
      BY <3>1, FS_EmptySet DEF Picks
    <3> QED BY <3>1, <3>2, <3>3
  <2>3. ASSUME NEW k \in Nat, k \in S PROVE k + 1 \in S
    <3> SUFFICES ASSUME k + 1 <= n PROVE Picks(h[1 .. k + 1], k + 1, E, Upto(k + 1), f)
      OBVIOUS
    <3>1. Picks(h[1 .. k], k, E, Upto(k), f) /\ k + 1 \in 1 .. n
      BY <2>3
    <3> DEFINE s == 1 .. k + 1
    <3>2. s \in SUBSET (1 .. n)
      OBVIOUS
    <3>3. s # {} /\ Max(s) = k + 1 /\ s \ {k + 1} = 1 .. k
      BY Segment
    <3> HIDE DEF s
    <3>4. h[s] = IF k + 1 \in P THEN Append(h[1 .. k], f[k + 1]) ELSE h[1 .. k]
      BY <2>1, <3>2, <3>3
    <3>5. Upto(k) \in SUBSET (1 .. k)
      OBVIOUS
    <3>6. Upto(k + 1) = IF k + 1 \in P THEN Upto(k) \cup {k + 1} ELSE Upto(k)
      OBVIOUS
    <3> HIDE DEF Upto
    <3>7. /\ Picks(h[1 .. k], k + 1, E, Upto(k), f)
          /\ f[k + 1] \in E => Picks(Append(h[1 .. k], f[k + 1]), k + 1, E, Upto(k) \cup {k + 1}, f)
      BY <3>1, <3>5, PicksNext
    <3> QED BY <3>4, <3>6, <3>7 DEF s
  <2> HIDE DEF S
  <2>4. n \in S
    BY <2>2, <2>3, AllNumbers
  <2>5. Upto(n) = P
    OBVIOUS
  <2> HIDE DEF Upto
  <2> QED BY <2>4, <2>5 DEF S
<1> QED BY <1>7, <1>8


-----------------------------------------------------------------------------
(* The sum of the f[x] over a finite set, as the library adds them up: it  *)
(* takes any element off and goes on with the rest.                        *)
TakenOff(s) == CHOOSE x \in s : TRUE

IsSum(h, S, f) ==
  h = [s \in SUBSET S |-> IF s = {} THEN 0 ELSE f[TakenOff(s)] + h[s \ {TakenOff(s)}]]

(* The same with any element taken off first.                              *)
AnyOrder(h, S, f) ==
  /\ h[{}] = 0
  /\ \A s \in SUBSET S : h[s] \in Nat /\ \A x \in s : h[s] = f[x] + h[s \ {x}]

(* What is left, when one is taken off.                                    *)
LEMMA Rest ==
  ASSUME NEW S, IsFiniteSet(S), NEW k \in Nat, NEW s \in SUBSET S, Cardinality(s) = k + 1
  PROVE  /\ s # {} /\ TakenOff(s) \in s
         /\ \A x \in s : s \ {x} \in SUBSET S /\ Cardinality(s \ {x}) = k
<1>1. IsFiniteSet(s)
  BY FS_Subset
<1>2. s # {}
  BY FS_EmptySet
<1>3. TakenOff(s) \in s
  BY <1>2 DEF TakenOff
<1>4. \A x \in s : Cardinality(s \ {x}) = k
  BY <1>1, FS_RemoveElement
<1> QED BY <1>2, <1>3, <1>4

(* There is such a sum.                                                    *)
LEMMA SumExists ==
  ASSUME NEW S, IsFiniteSet(S), NEW f \in [S -> Nat]
  PROVE  \E h : IsSum(h, S, f)
<1> DEFINE Sums(k, h) ==
             /\ h \in [SUBSET S -> Nat]
             /\ \A s \in SUBSET S : Cardinality(s) <= k =>
                  h[s] = IF s = {} THEN 0 ELSE f[TakenOff(s)] + h[s \ {TakenOff(s)}]
           P == {k \in Nat : \E h : Sums(k, h)}
<1>0. \A s \in SUBSET S : Cardinality(s) \in Nat /\ Cardinality(s) <= Cardinality(S)
  BY FS_Subset, FS_CardinalityType
<1>1. 0 \in P
  <2>1. \A s \in SUBSET S : Cardinality(s) <= 0 => s = {}
    BY <1>0, FS_Subset, FS_EmptySet
  <2>2. Sums(0, [s \in SUBSET S |-> 0])
    BY <2>1
  <2> QED BY <2>2
<1>2. ASSUME NEW k \in Nat, k \in P PROVE k + 1 \in P
  <2>1. PICK h : Sums(k, h)
    <3> HIDE DEF Sums
    <3> QED BY <1>2
  <2> DEFINE g == [s \in SUBSET S |-> IF s = {} THEN 0 ELSE f[TakenOff(s)] + h[s \ {TakenOff(s)}]]
  <2>2. \A s \in SUBSET S : s # {} => /\ TakenOff(s) \in s /\ f[TakenOff(s)] \in Nat
                                      /\ s \ {TakenOff(s)} \in SUBSET S /\ h[s \ {TakenOff(s)}] \in Nat
    BY <2>1 DEF TakenOff
  <2>3. g \in [SUBSET S -> Nat]
    <3>1. ASSUME NEW s \in SUBSET S
          PROVE  (IF s = {} THEN 0 ELSE f[TakenOff(s)] + h[s \ {TakenOff(s)}]) \in Nat
      <4>1. CASE s = {}
        BY <4>1
      <4>2. CASE s # {}
        <5>1. f[TakenOff(s)] \in Nat /\ h[s \ {TakenOff(s)}] \in Nat
          BY <2>2, <4>2
        <5> QED BY <4>2, <5>1
      <4> QED BY <4>1, <4>2
    <3> QED BY <3>1
  <2>4. ASSUME NEW s \in SUBSET S, Cardinality(s) <= k + 1, s # {}
        PROVE  g[s] = f[TakenOff(s)] + g[s \ {TakenOff(s)}]
    <3> DEFINE r == s \ {TakenOff(s)}
    <3>0. IsFiniteSet(s) /\ TakenOff(s) \in s
      BY <2>2, <2>4, FS_Subset
    <3>1. r \in SUBSET S /\ Cardinality(r) <= k
      <4>1. Cardinality(r) = Cardinality(s) - 1
        BY <3>0, FS_RemoveElement
      <4> QED BY <1>0, <2>4, <4>1
    <3>2. h[r] = IF r = {} THEN 0 ELSE f[TakenOff(r)] + h[r \ {TakenOff(r)}]
      BY <2>1, <3>1
    <3>3. g[r] = h[r]
      BY <3>1, <3>2
    <3>4. g[s] = f[TakenOff(s)] + h[r]
      BY <2>4
    <3> QED BY <3>3, <3>4
  <2>5. g[{}] = 0
    OBVIOUS
  <2> HIDE DEF g
  <2>6. Sums(k + 1, g)
    BY <2>3, <2>4, <2>5
  <2> HIDE DEF Sums
  <2> QED BY <2>6
<1> HIDE DEF P
<1>3. Cardinality(S) \in P
  BY <1>0, <1>1, <1>2, AllNumbers
<1>4. PICK h : Sums(Cardinality(S), h)
  <2> HIDE DEF Sums
  <2> QED BY <1>3 DEF P
<1>5. IsSum(h, S, f)
  BY <1>0, <1>4 DEF IsSum
<1> QED BY <1>5

(* Whatever is taken off first, the sum is the same.                       *)
LEMMA SumAnyOrder ==
  ASSUME NEW S, IsFiniteSet(S), NEW f \in [S -> Nat], NEW h, IsSum(h, S, f)
  PROVE  AnyOrder(h, S, f)
<1> DEFINE Fine(s) == h[s] \in Nat /\ \A x \in s : h[s] = f[x] + h[s \ {x}]
           P == {k \in Nat : \A s \in SUBSET S : Cardinality(s) <= k => Fine(s)}
<1>0. \A s \in SUBSET S : IsFiniteSet(s) /\ Cardinality(s) \in Nat
  BY FS_Subset, FS_CardinalityType
<1>1. h[{}] = 0 /\ \A s \in SUBSET S : s # {} => h[s] = f[TakenOff(s)] + h[s \ {TakenOff(s)}]
  BY DEF IsSum
<1>2. 0 \in P
  <2>1. \A s \in SUBSET S : Cardinality(s) <= 0 => s = {}
    BY <1>0, FS_EmptySet
  <2>2. Fine({})
    BY <1>1
  <2> HIDE DEF Fine
  <2> QED BY <2>1, <2>2
<1>3. ASSUME NEW k \in Nat, k \in P PROVE k + 1 \in P
  <2> SUFFICES ASSUME NEW s \in SUBSET S, Cardinality(s) = k + 1 PROVE Fine(s)
    <3> HIDE DEF Fine
    <3>1. \A s \in SUBSET S : Cardinality(s) <= k + 1 => Cardinality(s) <= k \/ Cardinality(s) = k + 1
      BY <1>0
    <3> QED BY <1>3, <3>1
  <2> DEFINE c == TakenOff(s)
  <2>1. s # {} /\ c \in s /\ \A x \in s : s \ {x} \in SUBSET S /\ Cardinality(s \ {x}) = k
    BY Rest
  <2>2. \A x \in s : Fine(s \ {x})
    <3> HIDE DEF Fine
    <3> QED BY <1>3, <2>1
  <2>3. h[s] = f[c] + h[s \ {c}]
    BY <1>1, <2>1
  <2> HIDE DEF c
  <2>4. f[c] \in Nat /\ h[s \ {c}] \in Nat
    BY <2>1, <2>2
  <2>5. ASSUME NEW x \in s PROVE h[s] = f[x] + h[s \ {x}]
    <3>1. CASE x = c
      BY <2>3, <3>1
    <3>2. CASE x # c
      <4> DEFINE r == (s \ {c}) \ {x}
      <4>1. x \in s \ {c} /\ c \in s \ {x} /\ r = (s \ {x}) \ {c}
        BY <2>1, <3>2
      <4>2. h[s \ {c}] = f[x] + h[r]
        BY <2>1, <2>2, <4>1
      <4>3. h[s \ {x}] = f[c] + h[(s \ {x}) \ {c}]
        BY <2>2, <4>1
      <4>4. h[s \ {x}] = f[c] + h[r]
        <5> HIDE DEF r
        <5> QED BY <4>1, <4>3
      <4>5. f[x] \in Nat /\ h[s \ {x}] \in Nat
        BY <2>2
      <4>6. h[r] \in Nat
        <5>1. r \in SUBSET S /\ Cardinality(r) <= k
          <6>1. IsFiniteSet(s \ {c}) /\ Cardinality(s \ {c}) = k
            BY <1>0, <2>1
          <6>2. Cardinality(r) = k - 1
            BY <4>1, <6>1, FS_RemoveElement
          <6> QED BY <6>2
        <5>2. Fine(r)
          <6> HIDE DEF Fine, r
          <6> QED BY <1>3, <5>1
        <5> QED BY <5>2
      <4> QED BY <2>3, <2>4, <4>2, <4>4, <4>5, <4>6
    <3> QED BY <3>1, <3>2
  <2>6. h[s] \in Nat
    BY <2>3, <2>4
  <2> QED BY <2>5, <2>6
<1> HIDE DEF P
<1>4. ASSUME NEW s \in SUBSET S PROVE Fine(s)
  <2>1. Cardinality(s) \in P
    BY <1>2, <1>3, AllNumbers, FS_Subset, FS_CardinalityType
  <2> HIDE DEF Fine
  <2> QED BY <2>1 DEF P
<1> QED BY <1>1, <1>4 DEF AnyOrder

(* Two sets that correspond one to one have the same sum.                  *)
LEMMA SumImage ==
  ASSUME NEW S, IsFiniteSet(S), NEW T, NEW b \in Bijection(S, T),
         NEW f \in [S -> Nat], NEW g \in [T -> Nat], \A x \in S : g[b[x]] = f[x],
         NEW h, IsSum(h, S, f), NEW k, IsSum(k, T, g)
  PROVE  h[S] = k[T]
<1> DEFINE Im(s) == {b[x] : x \in s}
           P == {m \in Nat : \A s \in SUBSET S : Cardinality(s) = m => h[s] = k[Im(s)]}
<1>1. /\ \A x \in S : b[x] \in T /\ \A y \in S : b[x] = b[y] => x = y
      /\ \A y \in T : \E x \in S : b[x] = y
  BY DEF Bijection, Injection, Surjection, IsInjective
<1>2. IsFiniteSet(T)
  BY FS_Bijection DEF ExistsBijection
<1>3. /\ h[{}] = 0 /\ \A s \in SUBSET S : \A x \in s : h[s] = f[x] + h[s \ {x}]
      /\ k[{}] = 0 /\ \A t \in SUBSET T : \A y \in t : k[t] = g[y] + k[t \ {y}]
  <2>1. AnyOrder(h, S, f)
    BY SumAnyOrder
  <2>2. AnyOrder(k, T, g)
    BY <1>2, SumAnyOrder
  <2> QED BY <2>1, <2>2 DEF AnyOrder
<1>4. 0 \in P
  <2>1. \A s \in SUBSET S : Cardinality(s) = 0 => s = {} /\ Im(s) = {}
    BY FS_Subset, FS_EmptySet
  <2> QED BY <1>3, <2>1
<1>5. ASSUME NEW m \in Nat, m \in P PROVE m + 1 \in P
  <2> SUFFICES ASSUME NEW s \in SUBSET S, Cardinality(s) = m + 1 PROVE h[s] = k[Im(s)]
    OBVIOUS
  <2>1. PICK x \in s : s \ {x} \in SUBSET S /\ Cardinality(s \ {x}) = m
    BY Rest
  <2>2. h[s \ {x}] = k[Im(s \ {x})]
    <3> HIDE DEF Im
    <3> QED BY <1>5, <2>1
  <2>3. Im(s \ {x}) = Im(s) \ {b[x]} /\ Im(s) \in SUBSET T /\ b[x] \in Im(s)
    BY <1>1
  <2> HIDE DEF Im
  <2>4. k[Im(s)] = g[b[x]] + k[Im(s) \ {b[x]}]
    BY <1>3, <2>3
  <2>5. h[s] = f[x] + h[s \ {x}] /\ g[b[x]] = f[x]
    BY <1>3
  <2> QED BY <2>2, <2>3, <2>4, <2>5
<1> HIDE DEF P
<1>6. Cardinality(S) \in P
  BY <1>4, <1>5, AllNumbers, FS_CardinalityType
<1>7. Im(S) = T
  BY <1>1
<1> HIDE DEF Im
<1> QED BY <1>6, <1>7 DEF P
=============================================================================
