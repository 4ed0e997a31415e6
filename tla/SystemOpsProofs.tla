--------------------------- MODULE SystemOpsProofs ---------------------------
(***************************************************************************)
(* Proofs about SystemOps: for every workload, any number of failures, of  *)
(* outside changes and of replays, and wherever a process is killed.       *)
(***************************************************************************)
EXTENDS SystemOps, FiniteSetTheorems, SequenceTheorems, TLAPS

-----------------------------------------------------------------------------
(* Sequences, as the model uses them.                                      *)

\* A set of natural numbers that is not empty has a least one.
LEMMA LeastOf ==
    ASSUME NEW T \in SUBSET Nat, T # {}
    PROVE  \E x \in T : \A y \in T : x <= y
<1> DEFINE Below == {0..x : x \in T}
           R == StrictSubsetOrdering(Nat)
<1>1. \A x \in T : 0..x \in SUBSET Nat /\ IsFiniteSet(0..x)
  BY FS_Interval
<1>2. Below \subseteq FiniteSubsetsOf(Nat) /\ Below # {}
  BY <1>1 DEF FiniteSubsetsOf
<1>3. PICK B \in Below : \A C \in Below : ~ (<<C, B>> \in R)
  <2>1. IsWellFoundedOn(R, FiniteSubsetsOf(Nat))
    BY FS_StrictSubsetOrderingWellFounded
  <2> HIDE DEF Below, R
  <2> QED BY <1>2, <2>1, WFMin
<1>4. PICK x \in T : B = 0..x
  OBVIOUS
<1>5. ASSUME NEW y \in T, y < x PROVE FALSE
  <2>1. 0..y \subseteq 0..x /\ 0..y # 0..x
    <3>1. x \in 0..x /\ x \notin 0..y
      BY <1>5
    <3>2. \A z \in 0..y : z \in 0..x
      BY <1>5
    <3> QED BY <3>1, <3>2
  <2>2. <<0..y, 0..x>> \in R
    BY <2>1 DEF StrictSubsetOrdering
  <2> QED BY <1>3, <1>4, <2>2
<1> QED BY <1>5

\* What holds at the first index and passes on to the next holds at every one.
LEMMA Climb ==
    ASSUME NEW n \in Nat, NEW T, 1 \in T,
           \A k \in 1..n : k \in T /\ k # n => k + 1 \in T
    PROVE  1..n \subseteq T
<1> DEFINE Bad == (1..n) \ T
<1> SUFFICES ASSUME Bad # {} PROVE FALSE
  OBVIOUS
<1>1. PICK x \in Bad : \A y \in Bad : x <= y
  <2>1. Bad \in SUBSET Nat
    OBVIOUS
  <2> HIDE DEF Bad
  <2> QED BY <2>1, LeastOf
<1>2. x \in 1..n /\ x \notin T /\ x # 1
  OBVIOUS
<1>3. x - 1 \in 1..n /\ x - 1 # n /\ (x - 1) + 1 = x
  BY <1>2
<1>4. x - 1 \in T
  <2>1. ~(x <= x - 1)
    BY <1>2
  <2>2. x - 1 \notin Bad
    BY <1>1, <2>1
  <2> QED BY <2>2, <1>3
<1> QED BY <1>2, <1>3, <1>4

LEMMA GreatestOf ==
    ASSUME NEW n \in Nat, NEW T \in SUBSET (1..n), T # {}
    PROVE  \E x \in T : \A y \in T : y <= x
<1> DEFINE U == {n - x : x \in T}
<1>1. U \in SUBSET Nat /\ U # {}
  <2>1. \A x \in T : x \in Nat /\ x <= n /\ n - x \in Nat
    OBVIOUS
  <2> QED BY <2>1
<1>2. PICK u \in U : \A w \in U : u <= w
  <2> HIDE DEF U
  <2> QED BY <1>1, LeastOf
<1>3. PICK x \in T : u = n - x
  OBVIOUS
<1>4. ASSUME NEW y \in T PROVE y <= x
  <2>1. n - y \in U
    OBVIOUS
  <2>2. n - x <= n - y /\ x \in 1..n /\ y \in 1..n
    BY <1>2, <1>3, <2>1
  <2> QED BY <2>2
<1> QED BY <1>4

\* The place in F of each element of the sequences joined, and of each element
\* of F in those: block i begins after at[i - 1].
Blocks(F, ss, n, at) ==
    /\ at[0] = 0 /\ at[n] = Len(F)
    /\ \A i \in 1..n :
         /\ at[i] = at[i - 1] + Len(ss[i])
         /\ \A b \in 1..Len(ss[i]) : at[i - 1] + b \in 1..Len(F) /\ F[at[i - 1] + b] = ss[i][b]
    /\ \A q \in 1..Len(F) : \E i \in 1..n : \E b \in 1..Len(ss[i]) : q = at[i - 1] + b

LEMMA JoinBlocks ==
    ASSUME NEW S, NEW ss \in Seq(Seq(S)), NEW n \in 1..Len(ss), n # 1,
           NEW F \in Seq(S), NEW at \in [0..(n-1) -> Nat], Blocks(F, ss, n - 1, at)
    PROVE  /\ F \o ss[n] \in Seq(S)
           /\ \E to \in [0..n -> Nat] : Blocks(F \o ss[n], ss, n, to)
<1> DEFINE G == F \o ss[n]
           to == [i \in 0..n |-> IF i = n THEN Len(F) + Len(ss[n]) ELSE at[i]]
<1>1. /\ \A i \in 1..n : ss[i] \in Seq(S) /\ Len(ss[i]) \in Nat
      /\ n \in Nat /\ n - 1 \in 1..n /\ Len(F) \in Nat
  BY ElementOfSeq, LenProperties
<1>2. /\ G \in Seq(S) /\ Len(G) = Len(F) + Len(ss[n])
      /\ \A q \in 1..Len(F) : G[q] = F[q]
      /\ \A b \in 1..Len(ss[n]) : G[Len(F) + b] = ss[n][b]
  <2>1. ss[n] \in Seq(S)
    BY <1>1
  <2>2. /\ G \in Seq(S) /\ Len(G) = Len(F) + Len(ss[n])
        /\ \A q \in 1..(Len(F) + Len(ss[n])) :
              G[q] = IF q <= Len(F) THEN F[q] ELSE ss[n][q - Len(F)]
    BY <2>1, ConcatProperties
  <2> HIDE DEF G
  <2>3. ASSUME NEW q \in 1..Len(F) PROVE G[q] = F[q]
    <3>1. q \in 1..(Len(F) + Len(ss[n])) /\ q <= Len(F)
      BY <1>1
    <3> QED BY <2>2, <3>1
  <2>4. ASSUME NEW b \in 1..Len(ss[n]) PROVE G[Len(F) + b] = ss[n][b]
    <3>1. /\ Len(F) + b \in 1..(Len(F) + Len(ss[n])) /\ ~(Len(F) + b <= Len(F))
          /\ (Len(F) + b) - Len(F) = b
      BY <1>1
    <3> QED BY <2>2, <3>1
  <2> QED BY <2>2, <2>3, <2>4
<1>3. to \in [0..n -> Nat]
  BY <1>1
<1>4. /\ to[0] = 0 /\ to[n] = Len(G) /\ \A i \in 0..(n-1) : to[i] = at[i]
  BY <1>1, <1>2 DEF Blocks
<1>5. at[n - 1] = Len(F)
  BY DEF Blocks
<1> HIDE DEF G, to
<1>6. ASSUME NEW i \in 1..n
      PROVE  /\ to[i] = to[i - 1] + Len(ss[i])
             /\ \A b \in 1..Len(ss[i]) : to[i - 1] + b \in 1..Len(G) /\ G[to[i - 1] + b] = ss[i][b]
  <2>1. CASE i = n
    <3>1. /\ to[n] = Len(F) + Len(ss[n]) /\ to[n - 1] = Len(F)
          /\ Len(F) \in Nat /\ Len(ss[n]) \in Nat
      BY <1>1, <1>2, <1>4, <1>5
    <3>2. ASSUME NEW b \in 1..Len(ss[n])
          PROVE  Len(F) + b \in 1..Len(G) /\ G[Len(F) + b] = ss[n][b]
      <4>1. PICK p, q \in Nat : p = Len(F) /\ q = Len(ss[n])
        BY <3>1
      <4>2. b \in 1..q /\ Len(G) = p + q
        BY <1>2, <4>1
      <4>3. p + b \in 1..p + q
        BY <4>2
      <4> QED BY <1>2, <4>1, <4>2, <4>3
    <3> QED BY <2>1, <3>1, <3>2
  <2>2. CASE i # n
    <3>1. i \in 1..(n-1) /\ i - 1 \in 0..(n-1) /\ i \in 0..(n-1)
      BY <2>2, <1>1
    <3>2. /\ at[i] = at[i - 1] + Len(ss[i])
          /\ \A b \in 1..Len(ss[i]) : at[i - 1] + b \in 1..Len(F) /\ F[at[i - 1] + b] = ss[i][b]
      BY <3>1 DEF Blocks
    <3>3. to[i] = at[i] /\ to[i - 1] = at[i - 1]
      BY <3>1, <1>4
    <3>4. \A q \in 1..Len(F) : q \in 1..Len(G)
      BY <1>1, <1>2
    <3> QED BY <3>2, <3>3, <3>4, <1>2
  <2> QED BY <2>1, <2>2
<1>7. ASSUME NEW q \in 1..Len(G)
      PROVE  \E i \in 1..n : \E b \in 1..Len(ss[i]) : q = to[i - 1] + b
  <2>1. CASE q <= Len(F)
    <3>1. PICK i \in 1..(n-1) : \E b \in 1..Len(ss[i]) : q = at[i - 1] + b
      <4>1. q \in 1..Len(F)
        BY <2>1, <1>1, <1>2
      <4> QED BY <4>1 DEF Blocks
    <3>2. i \in 1..n /\ i - 1 \in 0..(n-1)
      BY <1>1
    <3> QED BY <3>1, <3>2, <1>4
  <2>2. CASE ~(q <= Len(F))
    <3>1. q - Len(F) \in 1..Len(ss[n]) /\ q = Len(F) + (q - Len(F))
      BY <2>2, <1>1, <1>2
    <3>2. n \in 1..n /\ to[n - 1] = Len(F)
      BY <1>1, <1>4, <1>5
    <3> QED BY <3>1, <3>2
  <2> QED BY <2>1, <2>2
<1>8. Blocks(G, ss, n, to)
  BY <1>4, <1>6, <1>7 DEF Blocks
<1> QED BY <1>2, <1>3, <1>8 DEF G

LEMMA Flattened ==
    ASSUME NEW S, NEW ss \in Seq(Seq(S))
    PROVE  /\ FlattenSeq(ss) \in Seq(S)
           /\ \E at \in [0..Len(ss) -> Nat] : Blocks(FlattenSeq(ss), ss, Len(ss), at)
<1> DEFINE n == Len(ss)
<1>0. n \in Nat /\ \A i \in 1..n : ss[i] \in Seq(S)
  BY ElementOfSeq, LenProperties
<1>1. CASE n = 0
  <2>1. FlattenSeq(ss) = ss /\ ss = <<>>
    BY <1>1, EmptySeq DEF FlattenSeq
  <2>2. [i \in 0..n |-> 0] \in [0..n -> Nat] /\ <<>> \in Seq(S) /\ Len(<<>>) = 0
    BY EmptySeq
  <2>3. Blocks(<<>>, ss, n, [i \in 0..n |-> 0])
    BY <1>1, <2>2 DEF Blocks
  <2> QED BY <2>1, <2>2, <2>3
<1>2. CASE n # 0
  <2> DEFINE Step(g, i) == IF i = 1 THEN ss[i] ELSE g[i - 1] \o ss[i]
             flat == CHOOSE g : g = [i \in 1..n |-> Step(g, i)]
  <2>1. FlattenSeq(ss) = flat[n]
    BY <1>2 DEF FlattenSeq
  <2>2. \E g : g = [i \in 1..n |-> Step(g, i)]
    <3> DEFINE T == {k \in 1..n : \E g : /\ g = [i \in 1..k |-> g[i]]
                                         /\ \A i \in 1..k : g[i] = Step(g, i)}
    <3>1. 1 \in T
      <4> DEFINE g == [i \in 1..1 |-> ss[1]]
      <4>1. /\ g = [i \in 1..1 |-> g[i]]
            /\ \A i \in 1..1 : g[i] = Step(g, i)
        OBVIOUS
      <4>2. 1 \in 1..n
        BY <1>0, <1>2
      <4> QED BY <4>1, <4>2
    <3>2. ASSUME NEW k \in 1..n, k \in T, k # n PROVE k + 1 \in T
      <4>1. PICK g : /\ g = [i \in 1..k |-> g[i]]
                     /\ \A i \in 1..k : g[i] = Step(g, i)
        BY <3>2
      <4> DEFINE h == [i \in 1..(k+1) |-> IF i = k + 1 THEN g[k] \o ss[k + 1] ELSE g[i]]
      <4>2. k + 1 \in 1..n /\ k \in Nat
        BY <1>0, <3>2
      <4>3. ASSUME NEW i \in 1..(k+1) PROVE h[i] = Step(h, i)
        <5>1. CASE i = k + 1
          <6>0. k \in 1..(k+1) /\ k + 1 \in 1..(k+1) /\ k # k + 1
            BY <4>2
          <6>1. h[k + 1] = g[k] \o ss[k + 1] /\ h[k] = g[k]
            BY <6>0
          <6>2. k + 1 # 1 /\ (k + 1) - 1 = k
            BY <4>2
          <6> HIDE DEF h
          <6> QED BY <5>1, <6>1, <6>2
        <5>2. CASE i # k + 1
          <6>1. i \in 1..k /\ i - 1 \in 0..(k-1)
            BY <5>2, <4>2
          <6>2. h[i] = g[i] /\ (i # 1 => h[i - 1] = g[i - 1])
            BY <6>1, <4>2
          <6>3. g[i] = Step(g, i)
            BY <4>1, <6>1
          <6> QED BY <6>2, <6>3
        <5> QED BY <5>1, <5>2
      <4>4. h = [i \in 1..(k+1) |-> h[i]]
        OBVIOUS
      <4> HIDE DEF h
      <4> QED BY <4>2, <4>3, <4>4
    <3>3. n \in T
      <4> HIDE DEF T
      <4>1. 1..n \subseteq T
        BY <1>0, <3>1, <3>2, Climb
      <4>2. n \in 1..n
        BY <1>0, <1>2
      <4> QED BY <4>1, <4>2
    <3>4. PICK g : /\ g = [i \in 1..n |-> g[i]]
                   /\ \A i \in 1..n : g[i] = Step(g, i)
      BY <3>3
    <3>5. g = [i \in 1..n |-> Step(g, i)]
      BY <3>4
    <3> QED BY <3>5
  <2>3. flat = [i \in 1..n |-> Step(flat, i)]
    BY <2>2
  <2>4. \A i \in 1..n : flat[i] = IF i = 1 THEN ss[i] ELSE flat[i - 1] \o ss[i]
    BY <2>3
  <2> HIDE DEF flat
  <2> DEFINE Good == {k \in 1..n : /\ flat[k] \in Seq(S)
                                   /\ \E at \in [0..k -> Nat] : Blocks(flat[k], ss, k, at)}
  <2>5. 1 \in Good
    <3>1. 1 \in 1..n /\ flat[1] = ss[1] /\ ss[1] \in Seq(S) /\ Len(ss[1]) \in Nat
      BY <1>0, <1>2, <2>4, LenProperties
    <3> DEFINE at == [i \in 0..1 |-> IF i = 0 THEN 0 ELSE Len(ss[1])]
    <3>2. at \in [0..1 -> Nat] /\ at[0] = 0 /\ at[1] = Len(ss[1])
      BY <3>1
    <3> HIDE DEF at
    <3>3. Blocks(ss[1], ss, 1, at)
      BY <3>1, <3>2 DEF Blocks
    <3> QED BY <3>1, <3>2, <3>3
  <2>6. ASSUME NEW k \in 1..n, k \in Good, k # n PROVE k + 1 \in Good
    <3>1. k + 1 \in 1..n /\ k + 1 # 1 /\ (k + 1) - 1 = k
      BY <1>0, <2>6
    <3>2. PICK at \in [0..k -> Nat] : Blocks(flat[k], ss, k, at)
      BY <2>6
    <3>3. flat[k + 1] = flat[k] \o ss[k + 1] /\ flat[k] \in Seq(S)
      BY <2>4, <2>6, <3>1
    <3>4. /\ flat[k] \o ss[k + 1] \in Seq(S)
          /\ \E to \in [0..(k + 1) -> Nat] : Blocks(flat[k] \o ss[k + 1], ss, k + 1, to)
      <4> DEFINE m == k + 1
      <4>1. m \in 1..Len(ss) /\ m # 1 /\ m - 1 = k
        BY <3>1
      <4> HIDE DEF m
      <4>2. at \in [0..(m-1) -> Nat] /\ Blocks(flat[k], ss, m - 1, at)
        BY <3>2, <4>1
      <4>3. /\ flat[k] \o ss[m] \in Seq(S)
            /\ \E to \in [0..m -> Nat] : Blocks(flat[k] \o ss[m], ss, m, to)
        BY <3>3, <4>1, <4>2, JoinBlocks
      <4> QED BY <4>3 DEF m
    <3> QED BY <3>1, <3>3, <3>4
  <2>7. n \in Good
    <3> HIDE DEF Good
    <3>1. 1..n \subseteq Good
      BY <1>0, <2>5, <2>6, Climb
    <3>2. n \in 1..n
      BY <1>0, <1>2
    <3> QED BY <3>1, <3>2
  <2> QED BY <2>1, <2>7
<1> QED BY <1>1, <1>2

\* What is joined has the elements of the parts, and no other.
LEMMA FlatElements ==
    ASSUME NEW S, NEW n \in Nat, NEW ss, ss = [i \in 1..n |-> ss[i]],
           \A i \in 1..n : ss[i] \in Seq(S)
    PROVE  FlattenSeq(ss) \in Seq(S)
<1>1. ss \in Seq(Seq(S))
  BY IsASeq
<1> QED BY <1>1, Flattened

\* One element less, and the others in their order.
LEMMA RemoveAtIs ==
    ASSUME NEW S, NEW s \in Seq(S), NEW j \in 1..Len(s)
    PROVE  /\ RemoveAt(s, j) \in Seq(S) /\ Len(RemoveAt(s, j)) = Len(s) - 1
           /\ \A k \in 1..(Len(s) - 1) :
                 RemoveAt(s, j)[k] = IF k < j THEN s[k] ELSE s[k + 1]
<1> DEFINE n == Len(s)
           a == SubSeq(s, 1, j - 1)
           b == SubSeq(s, j + 1, n)
<1>1. n \in Nat /\ \A i \in 1..n : s[i] \in S
  BY LenProperties, ElementOfSeq
<1>2. /\ a \in Seq(S) /\ Len(a) = j - 1
      /\ \A k \in 1..(j - 1) : a[k] = s[k]
  <2>1. \A k \in 1..(j - 1) : s[k] \in S
    BY <1>1
  <2>2. /\ SubSeq(s, 1, j - 1) \in Seq(S)
        /\ Len(SubSeq(s, 1, j - 1)) = IF 1 <= j - 1 THEN (j - 1) - 1 + 1 ELSE 0
        /\ \A i \in 1..((j - 1) - 1 + 1) : SubSeq(s, 1, j - 1)[i] = s[1 + i - 1]
    BY <1>1, <2>1, SubSeqProperties
  <2> HIDE DEF a
  <2>3. a = SubSeq(s, 1, j - 1)
    BY DEF a
  <2>4. Len(a) = j - 1
    BY <2>2, <2>3, <1>1
  <2>5. ASSUME NEW k \in 1..(j - 1) PROVE a[k] = s[k]
    <3>1. k \in 1..((j - 1) - 1 + 1) /\ 1 + k - 1 = k
      BY <1>1
    <3> QED BY <2>2, <2>3, <3>1
  <2> QED BY <2>2, <2>3, <2>4, <2>5
<1>3. /\ b \in Seq(S) /\ Len(b) = n - j
      /\ \A k \in 1..(n - j) : b[k] = s[j + k]
  <2>1. \A k \in (j + 1)..n : s[k] \in S
    BY <1>1
  <2>2. /\ SubSeq(s, j + 1, n) \in Seq(S)
        /\ Len(SubSeq(s, j + 1, n)) = IF j + 1 <= n THEN n - (j + 1) + 1 ELSE 0
        /\ \A i \in 1..(n - (j + 1) + 1) : SubSeq(s, j + 1, n)[i] = s[(j + 1) + i - 1]
    BY <1>1, <2>1, SubSeqProperties
  <2> HIDE DEF b, n
  <2>3. b = SubSeq(s, j + 1, n) /\ j \in 1..n
    BY DEF b, n
  <2>4. Len(b) = n - j
    BY <2>2, <2>3, <1>1
  <2>5. ASSUME NEW k \in 1..(n - j) PROVE b[k] = s[j + k]
    <3>1. k \in 1..(n - (j + 1) + 1) /\ (j + 1) + k - 1 = j + k
      BY <1>1, <2>3
    <3> QED BY <2>2, <2>3, <3>1
  <2> QED BY <2>2, <2>3, <2>4, <2>5
<1>4. RemoveAt(s, j) = a \o b
  BY DEF RemoveAt
<1> HIDE DEF a, b, n
<1>5. /\ a \o b \in Seq(S) /\ Len(a \o b) = Len(a) + Len(b)
      /\ \A k \in 1..(Len(a) + Len(b)) :
            (a \o b)[k] = IF k <= Len(a) THEN a[k] ELSE b[k - Len(a)]
  BY <1>2, <1>3, ConcatProperties
<1>6. n = Len(s) /\ j \in 1..n
  BY DEF n
<1>7. Len(a) + Len(b) = n - 1
  <2>1. \A m, i \in Nat : i \in 1..m => (i - 1) + (m - i) = m - 1
    OBVIOUS
  <2>2. n \in Nat /\ j \in Nat /\ j \in 1..n
    BY <1>1, <1>6
  <2> QED BY <2>1, <2>2, <1>2, <1>3
<1>8. ASSUME NEW k \in 1..(n - 1)
      PROVE  (a \o b)[k] = IF k < j THEN s[k] ELSE s[k + 1]
  <2>1. (a \o b)[k] = IF k <= j - 1 THEN a[k] ELSE b[k - (j - 1)]
    BY <1>2, <1>5, <1>7
  <2>2. CASE k < j
    <3>1. k <= j - 1 /\ k \in 1..(j - 1)
      BY <2>2, <1>1, <1>6
    <3> QED BY <2>1, <2>2, <3>1, <1>2
  <2>3. CASE ~(k < j)
    <3>1. ~(k <= j - 1) /\ k - (j - 1) \in 1..(n - j) /\ j + (k - (j - 1)) = k + 1
      BY <2>3, <1>1, <1>6
    <3> QED BY <2>1, <2>3, <3>1, <1>3
  <2> QED BY <2>2, <2>3
<1> QED BY <1>4, <1>5, <1>6, <1>7, <1>8

LEMMA OneElement ==
    ASSUME NEW S, NEW x \in S
    PROVE  <<x>> \in Seq(S) /\ Len(<<x>>) = 1 /\ <<x>>[1] = x
OBVIOUS

-----------------------------------------------------------------------------
(* Types.  A list of DNS servers is a sequence, every other value a name.  *)

Addrs  == {"tun", "isp", "lo"}
Texts  == {"none", "user", "mine", "dead", "local", "twin", "foreign", "torn"}
Vals   == IF kind = "dns" THEN Seq(Addrs) ELSE Texts
States == {"on", "off", "-", "0600", "0644"}
Entry  == [val: Vals, state: States]
Puts   == Entry \cup [val: Vals] \cup [state: States]
Command == [slot: Slots, put: Puts, soft: BOOLEAN]
Record == [slots: {SlotSeq}, target: Vals, prev: [Slots -> Entry], adopted: BOOLEAN]
Stages == {"prepare", "apply", "rollback", "live", "revert", "pass", "over"}

Workload == /\ kind \in Kinds /\ before \in {"fresh", "residue", "elsewhere"}
            /\ enabled \in SUBSET {"wifi", "ethernet"}
            /\ kind = "dns" => enabled # {}

TypeInv ==
    /\ Workload
    /\ world \in [Slots -> Entry] /\ orig \in [Slots -> Entry] /\ target \in Vals
    /\ pend \in Seq(Record) /\ todo \in Seq(Command)
    /\ pc \in Stages /\ who \in {"run", "replay"} /\ job \in Nat
    /\ err \in BOOLEAN /\ added \in BOOLEAN /\ faults \in Nat
    /\ refuses \in BOOLEAN /\ blind \in BOOLEAN /\ lied \in BOOLEAN
    /\ overtaken \in BOOLEAN

LEMMA ServicesTyped ==
    /\ serviceNames \in Seq({"wifi", "ethernet"})
    /\ enabled \in SUBSET {"wifi", "ethernet"} /\ enabled # {} => serviceNames # <<>>
<1> DEFINE ss == [i \in 1..2 |-> IF ServiceOrder[i] \in enabled
                                 THEN <<ServiceOrder[i]>> ELSE <<>>]
           S == {"wifi", "ethernet"}
<1>1. serviceNames = FlattenSeq(ss)
  <2>1. DOMAIN ServiceOrder = 1..2
    BY DEF ServiceOrder
  <2> QED BY <2>1 DEF serviceNames, Those, Each
<1>2. ServiceOrder[1] = "wifi" /\ ServiceOrder[2] = "ethernet"
  BY DEF ServiceOrder
<1>3. \A i \in 1..2 : ss[i] \in Seq(S)
  BY <1>2
<1>4. ss \in Seq(Seq(S)) /\ Len(ss) = 2
  <2>1. ss = [i \in 1..2 |-> ss[i]]
    OBVIOUS
  <2> HIDE DEF ss
  <2> QED BY <1>3, <2>1, IsASeq
<1>5. FlattenSeq(ss) \in Seq(S)
  BY <1>4, Flattened
<1>6. ASSUME enabled \in SUBSET S, enabled # {} PROVE serviceNames # <<>>
  <2>1. PICK i \in 1..2 : Len(ss[i]) = 1
    <3>1. PICK x \in S : x \in enabled
      BY <1>6
    <3>2. PICK i \in 1..2 : ServiceOrder[i] = x
      BY <1>2
    <3>3. ss[i] = <<x>>
      BY <3>1, <3>2
    <3> QED BY <3>3, OneElement
  <2>2. PICK at \in [0..2 -> Nat] : Blocks(FlattenSeq(ss), ss, 2, at)
    BY <1>4, Flattened
  <2>3. at[i - 1] + 1 \in 1..Len(FlattenSeq(ss))
    <3> HIDE DEF ss
    <3>1. 1 \in 1..Len(ss[i])
      BY <2>1
    <3> QED BY <2>2, <3>1 DEF Blocks
  <2>4. Len(<<>>) = 0
    BY EmptySeq
  <2> QED BY <1>1, <2>3, <2>4, <1>5, LenProperties
<1> QED BY <1>1, <1>5, <1>6

LEMMA SlotsTyped ==
    ASSUME Workload
    PROVE  /\ SlotSeq \in Seq(Slots) /\ Len(SlotSeq) \in Nat
           /\ Slots = {SlotSeq[i] : i \in 1..Len(SlotSeq)}
           /\ kind = "dns" => SlotSeq # <<>> /\ Head(SlotSeq) \in Slots
<1> DEFINE Svc == {"wifi", "ethernet"}
<1>1. PICK S : SlotSeq \in Seq(S)
  <2>1. CASE kind \in {"pac", "dns"}
    <3>1. SlotSeq = [i \in DOMAIN serviceNames |-> <<serviceNames[i], kind>>]
      BY <2>1 DEF SlotSeq
    <3>2. DOMAIN serviceNames = 1..Len(serviceNames) /\ Len(serviceNames) \in Nat
          /\ \A i \in 1..Len(serviceNames) : serviceNames[i] \in Svc
      BY ServicesTyped, LenProperties, ElementOfSeq
    <3>3. SlotSeq \in Seq(Svc \X {kind})
      BY <3>1, <3>2, IsASeq
    <3> QED BY <3>3
  <2>2. CASE kind = "web"
    <3> DEFINE ss == [i \in DOMAIN serviceNames |->
                        <<<<serviceNames[i], "web">>, <<serviceNames[i], "secure">>>>]
    <3>1. SlotSeq = FlattenSeq(ss)
      BY <2>2 DEF SlotSeq, Each
    <3>2. DOMAIN serviceNames = 1..Len(serviceNames) /\ Len(serviceNames) \in Nat
          /\ \A i \in 1..Len(serviceNames) : serviceNames[i] \in Svc
      BY ServicesTyped, LenProperties, ElementOfSeq
    <3>3. ss \in Seq(Seq(Svc \X {"web", "secure"}))
      <4>1. \A i \in 1..Len(serviceNames) : ss[i] \in Seq(Svc \X {"web", "secure"})
        BY <3>2
      <4> QED BY <3>2, <4>1, IsASeq
    <3> HIDE DEF ss
    <3> QED BY <3>1, <3>3, Flattened
  <2>3. CASE kind = "env"
    <3>1. SlotSeq = <<<<"launchd", names[1]>>, <<"launchd", names[2]>>>>
      <4>1. DOMAIN names = 1..2
        BY DEF names
      <4>2. SlotSeq = [i \in 1..2 |-> <<"launchd", names[i]>>]
        BY <2>3, <4>1 DEF SlotSeq
      <4> QED BY <4>2
    <3>2. SlotSeq \in Seq({"launchd"} \X {names[1], names[2]})
      BY <3>1
    <3> QED BY <3>2
  <2>4. CASE kind = "pacfile"
    <3>1. SlotSeq = <<<<"disk", "pac">>>>
      BY <2>4 DEF SlotSeq
    <3> QED BY <3>1, OneElement
  <2>5. CASE kind = "route"
    <3>1. SlotSeq = <<<<"kernel", "dst">>>>
      BY <2>5 DEF SlotSeq
    <3> QED BY <3>1, OneElement
  <2>6. CASE kind = "ifconfig"
    <3>1. SlotSeq = <<<<"utun", "address">>>>
      BY <2>6 DEF SlotSeq
    <3> QED BY <3>1, OneElement
  <2> QED BY <2>1, <2>2, <2>3, <2>4, <2>5, <2>6 DEF Workload, Kinds
<1>2. Len(SlotSeq) \in Nat /\ DOMAIN SlotSeq = 1..Len(SlotSeq)
  BY <1>1, LenProperties
<1>3. Slots = {SlotSeq[i] : i \in 1..Len(SlotSeq)}
  BY <1>2 DEF Slots, ToSet
<1>4. SlotSeq \in Seq(Slots)
  <2>1. SlotSeq = [i \in 1..Len(SlotSeq) |-> SlotSeq[i]]
    BY <1>1, <1>2
  <2>2. \A i \in 1..Len(SlotSeq) : SlotSeq[i] \in Slots
    BY <1>3
  <2> QED BY <1>2, <2>1, <2>2, IsASeq
<1>5. ASSUME kind = "dns" PROVE SlotSeq # <<>> /\ Head(SlotSeq) \in Slots
  <2>1. serviceNames # <<>> /\ serviceNames \in Seq(Svc)
    BY <1>5, ServicesTyped DEF Workload
  <2>2. SlotSeq = [i \in 1..Len(serviceNames) |-> <<serviceNames[i], kind>>]
        /\ Len(serviceNames) \in Nat \ {0}
    <3>1. DOMAIN serviceNames = 1..Len(serviceNames) /\ Len(serviceNames) \in Nat
      BY <2>1, LenProperties
    <3>2. Len(serviceNames) # 0
      BY <2>1, EmptySeq
    <3> QED BY <1>5, <3>1, <3>2 DEF SlotSeq
  <2>3. Len(SlotSeq) = Len(serviceNames)
    BY <2>2, <1>2
  <2>4. SlotSeq # <<>>
    BY <2>2, <2>3, EmptySeq
  <2> QED BY <1>4, <2>4, HeadTailProperties
<1> QED BY <1>2, <1>3, <1>4, <1>5

\* Whose machine it is stays as it was, and with it every setting and type.
LEMMA SameMachine ==
    ASSUME UNCHANGED env
    PROVE  /\ SlotSeq' = SlotSeq /\ Slots' = Slots /\ Nothing' = Nothing
           /\ Vals' = Vals /\ Entry' = Entry /\ Command' = Command /\ Record' = Record
           /\ PrimarySlots' = PrimarySlots /\ canAdopt' = canAdopt /\ Workload' = Workload
<1>1. kind' = kind /\ enabled' = enabled /\ before' = before /\ refuses' = refuses
  BY DEF env
<1>2. serviceNames' = serviceNames
  BY <1>1 DEF serviceNames, Those, Each
<1>3. SlotSeq' = SlotSeq
  BY <1>1, <1>2 DEF SlotSeq, Each
<1>4. Slots' = Slots
  BY <1>3 DEF Slots
<1>5. Nothing' = Nothing /\ Vals' = Vals /\ canAdopt' = canAdopt
  BY <1>1 DEF Nothing, Vals, canAdopt
<1>6. Entry' = Entry
  BY <1>5 DEF Entry
<1>7. Command' = Command
  BY <1>4, <1>5, <1>6 DEF Command, Puts
<1>8. Record' = Record
  BY <1>3, <1>4, <1>5, <1>6 DEF Record
<1>9. PrimarySlots' = PrimarySlots
  BY <1>3, <1>4 DEF PrimarySlots
<1> QED BY <1>1, <1>3, <1>4, <1>5, <1>6, <1>7, <1>8, <1>9 DEF Workload

\* The commands that put one setting back.
PartOf(r, s, sees) ==
    CASE kind \in Proxies -> revertCmds(s, r.prev[s])
      [] kind = "dns" -> dnsRevert(s, r.prev[s])
      [] kind = "env" -> envRevert(s, r.prev[s])
      [] kind = "pacfile" -> pacFileRevert(s, r.prev[s])
      [] kind = "route" -> routeRevert(s, sees)
      [] kind = "ifconfig" -> ifconfigRevert(s)

LEMMA NothingTyped == Nothing \in Vals
<1>1. CASE kind = "dns"
  BY <1>1, EmptySeq DEF Nothing, Vals
<1>2. CASE kind # "dns"
  BY <1>2 DEF Nothing, Vals, Texts
<1> QED BY <1>1, <1>2

LEMMA CommandsTyped ==
    ASSUME Workload, NEW s \in Slots
    PROVE  /\ \A v \in Vals : SetValue(s, v) \in Command /\ SetOnly(s, v) \in Command
           /\ \A b \in States : SetState(s, b) \in Command
           /\ \A p \in Entry : [slot |-> s, put |-> p, soft |-> FALSE] \in Command
           /\ Nothing \in Vals /\ Tidy(s) \in Command
<1>1. Nothing \in Vals
  BY NothingTyped
<1> QED BY <1>1 DEF SetValue, SetOnly, SetState, Tidy, Command, Puts, Entry, States

LEMMA PartTyped ==
    ASSUME Workload, NEW s \in Slots, NEW r \in Record, NEW sees \in BOOLEAN
    PROVE  PartOf(r, s, sees) \in Seq(Command)
<1>1. r.prev[s] \in Entry /\ r.prev[s].val \in Vals /\ r.prev[s].state \in States
  BY DEF Record, Entry
<1>2. Nothing \in Vals /\ Tidy(s) \in Command
      /\ \A v \in Vals : SetValue(s, v) \in Command /\ SetOnly(s, v) \in Command
      /\ \A b \in States : SetState(s, b) \in Command
  BY <1>1, CommandsTyped
<1>3. CASE kind \in Proxies
  <2>1. PartOf(r, s, sees) = revertCmds(s, r.prev[s])
    BY <1>3 DEF PartOf, Proxies
  <2>2. SetState(s, "off") \in Command /\ SetValue(s, r.prev[s].val) \in Command
        /\ SetState(s, r.prev[s].state) \in Command
    BY <1>1, <1>2 DEF States
  <2> QED BY <2>1, <2>2, <1>2 DEF revertCmds
<1>4. CASE kind = "dns"
  <2>1. PartOf(r, s, sees) = dnsRevert(s, r.prev[s])
    BY <1>4 DEF PartOf, Proxies
  <2> QED BY <2>1, <1>1, <1>2 DEF dnsRevert
<1>5. CASE kind = "env"
  <2>1. PartOf(r, s, sees) = envRevert(s, r.prev[s])
    BY <1>5 DEF PartOf, Proxies
  <2> QED BY <2>1, <1>1, <1>2 DEF envRevert
<1>6. CASE kind = "pacfile"
  <2>1. PartOf(r, s, sees) = pacFileRevert(s, r.prev[s])
    BY <1>6 DEF PartOf, Proxies
  <2>2. "torn" \in Vals
    BY <1>6 DEF Vals, Texts
  <2>3. SetOnly(s, "torn") \in Command /\ SetOnly(s, r.prev[s].val) \in Command
        /\ SetState(s, r.prev[s].state) \in Command
    BY <1>1, <1>2, <2>2
  <2>4. \A x, y, z \in Command : <<x>> \in Seq(Command) /\ <<x, y, z>> \in Seq(Command)
    OBVIOUS
  <2>5. CASE r.prev[s].val = Nothing
    <3> DEFINE whole == [slot |-> s, put |-> r.prev[s], soft |-> FALSE]
    <3>1. PartOf(r, s, sees) = <<whole>>
      BY <2>1, <2>5 DEF pacFileRevert
    <3>2. whole \in Command
      BY <1>1, CommandsTyped
    <3> HIDE DEF whole
    <3> QED BY <3>1, <3>2, OneElement
  <2>6. CASE r.prev[s].val # Nothing
    <3>1. PartOf(r, s, sees) = <<SetOnly(s, "torn"), SetOnly(s, r.prev[s].val),
                                 SetState(s, r.prev[s].state)>>
      BY <2>1, <2>6 DEF pacFileRevert
    <3> QED BY <3>1, <2>3, <2>4
  <2> QED BY <2>5, <2>6
<1>7. CASE kind = "route"
  <2>1. PartOf(r, s, sees) = routeRevert(s, sees)
    BY <1>7 DEF PartOf, Proxies
  <2>2. SetOnly(s, Nothing) \in Command
    BY <1>2
  <2> QED BY <2>1, <2>2, OneElement DEF routeRevert
<1>8. CASE kind = "ifconfig"
  <2>1. PartOf(r, s, sees) = ifconfigRevert(s)
    BY <1>8 DEF PartOf, Proxies
  <2>2. SetOnly(s, Nothing) \in Command
    BY <1>2
  <2> QED BY <2>1, <2>2, OneElement DEF ifconfigRevert
<1> QED BY <1>3, <1>4, <1>5, <1>6, <1>7, <1>8 DEF Workload, Kinds, Proxies

\* A Revert is those commands, setting by setting.
LEMMA RevertBlocks ==
    ASSUME Workload, NEW r \in Record, NEW sees \in BOOLEAN
    PROVE  LET R == RevertCmds(r, sees)
               Block(s, start) == \A c \in 1..Len(PartOf(r, s, sees)) :
                     start + c \in 1..Len(R) /\ R[start + c] = PartOf(r, s, sees)[c]
           IN  /\ R \in Seq(Command)
               /\ \A q \in 1..Len(R) : \E s \in Slots, start \in Nat :
                     Block(s, start) /\ \E c \in 1..Len(PartOf(r, s, sees)) : q = start + c
               /\ \A s \in Slots : \E start \in Nat : Block(s, start)
               /\ kind = "route" => \E s \in Slots : Len(R) = Len(PartOf(r, s, sees))
<1> DEFINE R == RevertCmds(r, sees)
           n == Len(SlotSeq)
           parts == [i \in DOMAIN r.slots |-> PartOf(r, r.slots[i], sees)]
<1>1. r.slots = SlotSeq
  BY DEF Record
<1>2. n \in Nat /\ DOMAIN SlotSeq = 1..n /\ \A i \in 1..n : SlotSeq[i] \in Slots
  BY SlotsTyped, LenProperties
<1>20. \A s \in Slots : \E i \in 1..n : s = SlotSeq[i]
  BY SlotsTyped
<1>3. R = FlattenSeq(parts)
  BY DEF RevertCmds, Each, PartOf
<1>4. /\ parts = [i \in 1..n |-> PartOf(r, SlotSeq[i], sees)]
      /\ \A i \in 1..n : parts[i] = PartOf(r, SlotSeq[i], sees)
  BY <1>1, <1>2
<1> HIDE DEF parts, n
<1>5. \A i \in 1..n : parts[i] \in Seq(Command)
  BY <1>2, <1>4, PartTyped
<1>6. parts \in Seq(Seq(Command)) /\ Len(parts) = n
  <2>1. parts = [i \in 1..n |-> parts[i]]
    BY <1>4
  <2> QED BY <1>2, <1>5, <2>1, IsASeq
<1>7. PICK at \in [0..n -> Nat] : R \in Seq(Command) /\ Blocks(R, parts, n, at)
  BY <1>3, <1>6, Flattened
<1> HIDE DEF R
<1>8. ASSUME NEW q \in 1..Len(R)
      PROVE  \E s \in Slots, start \in Nat :
                /\ \A c \in 1..Len(PartOf(r, s, sees)) :
                     start + c \in 1..Len(R) /\ R[start + c] = PartOf(r, s, sees)[c]
                /\ \E c \in 1..Len(PartOf(r, s, sees)) : q = start + c
  <2>1. PICK i \in 1..n : \E b \in 1..Len(parts[i]) : q = at[i - 1] + b
    BY <1>7 DEF Blocks
  <2>2. \A b \in 1..Len(parts[i]) : at[i - 1] + b \in 1..Len(R)
                                     /\ R[at[i - 1] + b] = parts[i][b]
    BY <1>7 DEF Blocks
  <2>3. i - 1 \in 0..n /\ at[i - 1] \in Nat
    BY <1>2, <1>7
  <2> QED BY <2>1, <2>2, <2>3, <1>2, <1>4
<1>9. ASSUME NEW s \in Slots
      PROVE  \E start \in Nat : \A c \in 1..Len(PartOf(r, s, sees)) :
                start + c \in 1..Len(R) /\ R[start + c] = PartOf(r, s, sees)[c]
  <2>1. PICK i \in 1..n : s = SlotSeq[i]
    BY <1>20
  <2>2. \A b \in 1..Len(parts[i]) : at[i - 1] + b \in 1..Len(R)
                                     /\ R[at[i - 1] + b] = parts[i][b]
    BY <1>7 DEF Blocks
  <2>3. i - 1 \in 0..n /\ at[i - 1] \in Nat
    BY <1>2, <1>7
  <2> QED BY <2>1, <2>2, <2>3, <1>4
<1>10. ASSUME kind = "route" PROVE \E s \in Slots : Len(R) = Len(PartOf(r, s, sees))
  <2>1. SlotSeq = <<<<"kernel", "dst">>>>
    BY <1>10 DEF SlotSeq
  <2>2. n = 1
    BY <2>1, OneElement DEF n
  <2>3. at[0] = 0 /\ at[1] = Len(R) /\ at[1] = at[0] + Len(parts[1])
    <3>1. 1 \in 1..n /\ 1 - 1 = 0
      BY <2>2
    <3> QED BY <1>7, <2>2, <3>1 DEF Blocks
  <2>4. 1 \in 1..n /\ Len(parts[1]) \in Nat
    <3>1. 1 \in 1..n
      BY <2>2
    <3> QED BY <3>1, <1>5, LenProperties
  <2>5. Len(R) = Len(PartOf(r, SlotSeq[1], sees))
    BY <2>3, <2>4, <1>4
  <2> QED BY <2>4, <2>5, <1>2
<1> QED BY <1>7, <1>8, <1>9, <1>10 DEF R

-----------------------------------------------------------------------------
(* What the operators return.                                              *)

\* A list of ours: the tunnel first, and no loopback resolver.
OwnList == {v \in Seq({"tun", "isp"}) : v # <<>> /\ v[1] = "tun"}

LEMMA UserTyped ==
    ASSUME Workload
    PROVE  UserStart \subseteq Entry
<1>1. CASE kind = "dns"
  <2> DEFINE lists == {<<>>, <<"isp">>, <<"lo">>, <<"lo", "isp">>}
  <2>1. UserStart = {Value(v, "-") : v \in lists}
    BY <1>1 DEF UserStart, Proxies
  <2>2. <<>> \in Seq(Addrs) /\ <<"isp">> \in Seq(Addrs) /\ <<"lo">> \in Seq(Addrs)
        /\ <<"lo", "isp">> \in Seq(Addrs)
    <3>1. \A x, y \in Addrs : <<x>> \in Seq(Addrs) /\ <<x, y>> \in Seq(Addrs)
      OBVIOUS
    <3>2. "isp" \in Addrs /\ "lo" \in Addrs
      BY DEF Addrs
    <3> QED BY <3>1, <3>2, EmptySeq
  <2>3. \A v \in lists : v \in Vals
    BY <1>1, <2>2 DEF Vals
  <2> HIDE DEF lists
  <2>4. \A v \in Vals : Value(v, "-") \in Entry
    BY DEF Value, Entry, States
  <2> QED BY <2>1, <2>3, <2>4
<1>2. CASE kind # "dns"
  BY <1>2 DEF Workload, Kinds, UserStart, Entry, Vals, States, Value, Proxies, Texts
<1> QED BY <1>1, <1>2

LEMMA ListTyped ==
    ASSUME Workload, kind = "dns", NEW w \in [Slots -> Entry]
    PROVE  tunResolverList(w) \in OwnList
<1> DEFINE v == primaryNameservers(w)
           T == {"tun", "isp"}
           own == systemNameservers(w)
<1>1. v \in Seq(Addrs)
  <2>1. w[Head(SlotSeq)].val \in Seq(Addrs)
    BY SlotsTyped DEF Entry, Vals
  <2>2. <<"isp">> \in Seq(Addrs)
    BY OneElement DEF Addrs
  <2> QED BY <2>1, <2>2 DEF primaryNameservers
<1>2. own \in Seq(T)
  <2> DEFINE n == Len(v)
             ss == [i \in 1..n |-> IF v[i] # "lo" THEN <<v[i]>> ELSE <<>>]
  <2> HIDE DEF v
  <2>1. n \in Nat /\ DOMAIN v = 1..n /\ \A i \in 1..n : v[i] \in Addrs
    BY <1>1, LenProperties, ElementOfSeq
  <2>2. own = FlattenSeq(ss)
    BY <2>1 DEF systemNameservers, Those, Each, v
  <2>3. \A i \in 1..n : ss[i] \in Seq(T)
    BY <2>1, EmptySeq, OneElement DEF Addrs
  <2>4. ss = [i \in 1..n |-> ss[i]]
    OBVIOUS
  <2> HIDE DEF ss, n
  <2> QED BY <2>1, <2>2, <2>3, <2>4, FlatElements
<1>3. tunResolverList(w) = <<"tun">> \o own
  BY DEF tunResolverList
<1>4. <<"tun">> \in Seq(T) /\ Len(<<"tun">>) = 1 /\ <<"tun">>[1] = "tun"
  BY OneElement
<1> HIDE DEF own, T
<1>5. /\ <<"tun">> \o own \in Seq(T) /\ Len(<<"tun">> \o own) = 1 + Len(own)
      /\ \A i \in 1..(1 + Len(own)) :
            (<<"tun">> \o own)[i] = IF i <= 1 THEN <<"tun">>[i] ELSE own[i - 1]
  BY <1>2, <1>4, ConcatProperties
<1>6. Len(own) \in Nat /\ 1 \in 1..(1 + Len(own))
  BY <1>2, LenProperties
<1>7. (<<"tun">> \o own)[1] = "tun" /\ <<"tun">> \o own # <<>>
  BY <1>4, <1>5, <1>6, EmptySeq
<1> QED BY <1>3, <1>5, <1>7 DEF OwnList, T

LEMMA OwnListTyped == \A v \in OwnList : v \in Seq(Addrs)
<1>1. ASSUME NEW v \in OwnList PROVE v \in Seq(Addrs)
  <2>1. v \in Seq({"tun", "isp"}) /\ DOMAIN v = 1..Len(v) /\ Len(v) \in Nat
    BY LenProperties DEF OwnList
  <2>2. v = [i \in 1..Len(v) |-> v[i]] /\ \A i \in 1..Len(v) : v[i] \in Addrs
    BY <2>1, ElementOfSeq DEF Addrs
  <2> QED BY <2>1, <2>2, IsASeq
<1> QED BY <1>1

\* A list none of whose elements is left out is the list.
LEMMA AllOfThem ==
    ASSUME NEW S, NEW v \in Seq(S)
    PROVE  FlattenSeq([i \in DOMAIN v |-> <<v[i]>>]) = v
<1> DEFINE n == Len(v)
           ss == [i \in DOMAIN v |-> <<v[i]>>]
           F == FlattenSeq(ss)
<1>1. n \in Nat /\ DOMAIN v = 1..n /\ \A i \in 1..n : v[i] \in S
  BY LenProperties, ElementOfSeq
<1>2. /\ ss = [i \in 1..n |-> ss[i]]
      /\ \A i \in 1..n : ss[i] = <<v[i]>> /\ ss[i] \in Seq(S) /\ Len(ss[i]) = 1
                          /\ ss[i][1] = v[i]
  BY <1>1, OneElement
<1> HIDE DEF ss, n
<1>3. ss \in Seq(Seq(S)) /\ Len(ss) = n
  BY <1>1, <1>2, IsASeq
<1>4. PICK at \in [0..n -> Nat] : F \in Seq(S) /\ Blocks(F, ss, n, at)
  BY <1>3, Flattened
<1> HIDE DEF F
<1>5. /\ at[0] = 0 /\ at[n] = Len(F)
      /\ \A i \in 1..n : /\ at[i] = at[i - 1] + 1
                          /\ at[i - 1] + 1 \in 1..Len(F) /\ F[at[i - 1] + 1] = v[i]
  <2>1. at[0] = 0 /\ at[n] = Len(F)
    BY <1>4 DEF Blocks
  <2>2. ASSUME NEW i \in 1..n
        PROVE  /\ at[i] = at[i - 1] + 1
               /\ at[i - 1] + 1 \in 1..Len(F) /\ F[at[i - 1] + 1] = v[i]
    <3>1. /\ at[i] = at[i - 1] + Len(ss[i])
          /\ \A b \in 1..Len(ss[i]) : at[i - 1] + b \in 1..Len(F)
                                       /\ F[at[i - 1] + b] = ss[i][b]
      BY <1>4 DEF Blocks
    <3>2. Len(ss[i]) = 1 /\ ss[i][1] = v[i] /\ 1 \in 1..Len(ss[i])
      BY <1>2
    <3> QED BY <3>1, <3>2
  <2> QED BY <2>1, <2>2
<1>6. \A i \in 1..n : at[i] = i
  <2> DEFINE T == {i \in 1..n : at[i] = i}
  <2>1. CASE n = 0
    BY <2>1
  <2>2. CASE n # 0
    <3>1. 1 \in T
      BY <1>1, <1>5, <2>2
    <3>2. ASSUME NEW k \in 1..n, k \in T, k # n PROVE k + 1 \in T
      <4>1. k + 1 \in 1..n /\ (k + 1) - 1 = k
        BY <1>1, <3>2
      <4> QED BY <1>5, <3>2, <4>1
    <3> HIDE DEF T
    <3>3. 1..n \subseteq T
      BY <1>1, <3>1, <3>2, Climb
    <3> QED BY <3>3 DEF T
  <2> QED BY <2>1, <2>2
<1>7. Len(F) = n
  <2>1. CASE n = 0
    BY <2>1, <1>5
  <2>2. CASE n # 0
    BY <2>2, <1>1, <1>5, <1>6
  <2> QED BY <2>1, <2>2
<1>8. ASSUME NEW i \in 1..n PROVE F[i] = v[i]
  <2>1. at[i - 1] + 1 = i
    BY <1>1, <1>5, <1>6
  <2> QED BY <1>5, <2>1
<1>9. F = [i \in 1..Len(F) |-> F[i]] /\ v = [i \in 1..n |-> v[i]]
  BY <1>1, <1>4
<1>10. F = v
  BY <1>7, <1>8, <1>9
<1> QED BY <1>10 DEF F, ss

\* What the invariants say of this run's value.
Target == IF kind = "dns" THEN target \in OwnList ELSE target = "mine"

\* The servers a machine has are what dpb notes: a loopback one is left out only
\* when it is in a list of ours.
LEMMA ServersAreKept ==
    ASSUME kind = "dns", Target, NEW v \in Seq(Addrs)
    PROVE  notSelfServers(v) = v
<1>1. "lo" \notin ToSet(target)
  <2>1. target \in Seq({"tun", "isp"}) /\ DOMAIN target = 1..Len(target)
    BY LenProperties DEF Target, OwnList
  <2>2. \A i \in 1..Len(target) : target[i] \in {"tun", "isp"}
    BY <2>1, ElementOfSeq
  <2> QED BY <2>1, <2>2 DEF ToSet
<1>2. notSelfServers(v) = FlattenSeq([i \in DOMAIN v |-> <<v[i]>>])
  <2>1. \A i \in DOMAIN v : ~(Residue /\ v[i] = "lo" /\ v[i] \in ToSet(target))
    BY <1>1
  <2>2. notSelfServers(v) = FlattenSeq([i \in DOMAIN v |->
            IF ~(Residue /\ v[i] = "lo" /\ v[i] \in ToSet(target)) THEN <<v[i]>> ELSE <<>>])
    BY DEF notSelfServers, Those, Each
  <2>3. [i \in DOMAIN v |->
            IF ~(Residue /\ v[i] = "lo" /\ v[i] \in ToSet(target)) THEN <<v[i]>> ELSE <<>>]
        = [i \in DOMAIN v |-> <<v[i]>>]
    BY <2>1
  <2> QED BY <2>2, <2>3
<1> QED BY <1>2, AllOfThem

LEMMA CaptureTyped ==
    ASSUME Workload, Target, NEW w \in Entry
    PROVE  Capture(w) \in Entry
<1>1. w.val \in Vals /\ w.state \in States /\ Nothing \in Vals
  BY NothingTyped DEF Entry
<1>2. CASE kind \in Proxies
  <2>1. Capture(w) = proxyCapture(w)
    BY <1>2 DEF Capture, Proxies
  <2>2. notSelfHost(w.val) \in Vals
    BY <1>1 DEF notSelfHost
  <2> QED BY <2>1, <2>2 DEF proxyCapture, Value, Entry, States
<1>3. CASE kind = "dns"
  <2>1. Capture(w) = Value(notSelfServers(w.val), "-")
    BY <1>3 DEF Capture, Proxies, dnsCapture
  <2>2. notSelfServers(w.val) = w.val
    BY <1>1, <1>3, ServersAreKept DEF Vals
  <2> QED BY <2>1, <2>2, <1>1 DEF Value, Entry, States
<1>4. CASE kind = "env"
  BY <1>1, <1>4 DEF Capture, Proxies, envCapture, Value, Entry, States
<1>5. CASE kind = "pacfile"
  BY <1>1, <1>5 DEF Capture, Proxies, pacFileCapture, Value, Entry, States
<1>6. CASE kind \in {"route", "ifconfig"}
  BY <1>1, <1>6 DEF Capture, Proxies, Value, Entry, States
<1> QED BY <1>2, <1>3, <1>4, <1>5, <1>6 DEF Workload, Kinds, Proxies

LEMMA OverIs ==
    ASSUME NEW put \in Puts, NEW w \in Entry
    PROVE  /\ Over(put, w) \in Entry
           /\ Over(put, w).val = IF "val" \in DOMAIN put THEN put.val ELSE w.val
           /\ Over(put, w).state = IF "state" \in DOMAIN put THEN put.state ELSE w.state
<1>1. "val" \in DOMAIN put => put.val \in Vals
  BY DEF Puts, Entry
<1>2. "state" \in DOMAIN put => put.state \in States
  BY DEF Puts, Entry
<1>3. w.val \in Vals /\ w.state \in States
  BY DEF Entry
<1> QED BY <1>1, <1>2, <1>3 DEF Over, Value, Entry

LEMMA LandsIs ==
    ASSUME NEW c \in Command, world \in [Slots -> Entry]
    PROVE  /\ Lands(c) \in [Slots -> Entry] /\ c.slot \in Slots
           /\ Lands(c)[c.slot].val = IF "val" \in DOMAIN c.put THEN c.put.val
                                     ELSE world[c.slot].val
           /\ Lands(c)[c.slot].state = IF "state" \in DOMAIN c.put THEN c.put.state
                                       ELSE world[c.slot].state
           /\ \A s \in Slots : s # c.slot => Lands(c)[s] = world[s]
<1>1. c.slot \in Slots /\ c.put \in Puts /\ world[c.slot] \in Entry
  BY DEF Command
<1>2. Lands(c) = [world EXCEPT ![c.slot] = Over(c.put, world[c.slot])]
  BY DEF Lands
<1>3. Over(c.put, world[c.slot]) \in Entry
  BY <1>1, OverIs
<1>4. Lands(c)[c.slot] = Over(c.put, world[c.slot])
  BY <1>1, <1>2
<1> QED BY <1>1, <1>2, <1>3, <1>4, OverIs

\* This run's own commands put what it installs, and no other value.
OwnCommand == {c \in Command :
                 /\ "val" \in DOMAIN c.put => c.put.val = target
                 /\ kind \in {"dns", "env", "route", "ifconfig"} => "state" \notin DOMAIN c.put}

LEMMA ApplyTyped ==
    ASSUME Workload, target \in Vals
    PROVE  ApplyCmds \in Seq(OwnCommand)
<1> DEFINE n == Len(SlotSeq)
<1>1. n \in Nat /\ DOMAIN SlotSeq = 1..n /\ \A i \in 1..n : SlotSeq[i] \in Slots
  BY SlotsTyped, LenProperties
<1> HIDE DEF n
<1>2. ASSUME kind \notin Proxies, kind # "pacfile"
      PROVE  ApplyCmds \in Seq(OwnCommand)
  <2> DEFINE ss == [i \in 1..n |-> <<SetOnly(SlotSeq[i], target)>>]
  <2>1. ApplyCmds = FlattenSeq(ss)
    <3>1. kind \in {"dns", "env", "route", "ifconfig"}
      BY <1>2 DEF Workload, Kinds, Proxies
    <3> QED BY <3>1, <1>1, <1>2 DEF ApplyCmds, dnsApply, envApply, routeAdd, Each, Proxies
  <2>2. ASSUME NEW i \in 1..n PROVE ss[i] \in Seq(OwnCommand)
    <3>1. SetOnly(SlotSeq[i], target) \in Command
      BY <1>1, CommandsTyped
    <3>2. SetOnly(SlotSeq[i], target) \in OwnCommand
      BY <3>1 DEF OwnCommand, SetOnly
    <3> QED BY <3>2, OneElement
  <2>3. ss = [i \in 1..n |-> ss[i]]
    OBVIOUS
  <2> HIDE DEF ss
  <2> QED BY <1>1, <2>1, <2>2, <2>3, FlatElements
<1>3. CASE kind = "pacfile"
  <2> DEFINE whole(s) == [slot |-> s, put |-> Value(target, "0644"), soft |-> FALSE]
             ss == [i \in 1..n |-> <<whole(SlotSeq[i])>>]
  <2>1. ApplyCmds = FlattenSeq(ss)
    BY <1>1, <1>3 DEF ApplyCmds, pacFileApply, Each, Proxies
  <2>2. ASSUME NEW i \in 1..n PROVE ss[i] \in Seq(OwnCommand)
    <3>1. Value(target, "0644") \in Entry
      BY DEF Value, Entry, States
    <3>2. whole(SlotSeq[i]) \in Command
      BY <1>1, <3>1, CommandsTyped
    <3>3. whole(SlotSeq[i]) \in OwnCommand
      BY <1>3, <3>2 DEF OwnCommand, Value
    <3> HIDE DEF whole
    <3> QED BY <3>3, OneElement
  <2>3. ss = [i \in 1..n |-> ss[i]]
    OBVIOUS
  <2> HIDE DEF ss
  <2> QED BY <1>1, <2>1, <2>2, <2>3, FlatElements
<1>4. CASE kind \in Proxies
  <2> DEFINE of(svc) == FlattenSeq([i \in 1..n |-> IF SlotSeq[i][1] = svc
                                                   THEN <<SlotSeq[i]>> ELSE <<>>])
             values(svc) == FlattenSeq([i \in 1..Len(of(svc)) |-> <<SetValue(of(svc)[i], target)>>])
             states(svc) == FlattenSeq([i \in 1..Len(of(svc)) |-> <<SetState(of(svc)[i], "on")>>])
             m == Len(serviceNames)
             ss == [k \in 1..m |-> values(serviceNames[k]) \o states(serviceNames[k])]
  <2>1. ASSUME NEW svc PROVE of(svc) \in Seq(Slots)
    <3> DEFINE parts == [i \in 1..n |-> IF SlotSeq[i][1] = svc THEN <<SlotSeq[i]>> ELSE <<>>]
    <3>1. \A i \in 1..n : parts[i] \in Seq(Slots)
      BY <1>1, EmptySeq, OneElement
    <3>2. parts = [i \in 1..n |-> parts[i]]
      OBVIOUS
    <3>3. FlattenSeq(parts) \in Seq(Slots)
      <4> HIDE DEF parts
      <4> QED BY <1>1, <3>1, <3>2, FlatElements
    <3> QED BY <3>3
  <2>2. m \in Nat /\ DOMAIN serviceNames = 1..m
    BY ServicesTyped, LenProperties
  <2>3. ApplyCmds = FlattenSeq(ss)
    <3>1. \A svc : DOMAIN of(svc) = 1..Len(of(svc))
      BY <2>1, LenProperties
    <3>2. \A svc : Those(SlotSeq, LAMBDA s : s[1] = svc) = of(svc)
      BY <1>1 DEF Those, Each
    <3> HIDE DEF of
    <3>3. ApplyCmds = proxyApply
      BY <1>4 DEF ApplyCmds, Proxies
    <3> DEFINE own(svc) == Those(SlotSeq, LAMBDA s : s[1] = svc)
               each(svc) == FlattenSeq([i \in DOMAIN own(svc) |-> <<SetValue(own(svc)[i], target)>>])
                            \o FlattenSeq([i \in DOMAIN own(svc) |-> <<SetState(own(svc)[i], "on")>>])
    <3>4. proxyApply = FlattenSeq([k \in DOMAIN serviceNames |-> each(serviceNames[k])])
      BY DEF proxyApply, Each
    <3>5. \A svc : own(svc) = of(svc)
      BY <3>2
    <3> HIDE DEF own
    <3>6. \A svc : each(svc) = values(svc) \o states(svc)
      BY <3>1, <3>5
    <3> HIDE DEF each, values, states
    <3> QED BY <3>3, <3>4, <3>6, <2>2
  <2> HIDE DEF of
  <2>4. ASSUME NEW svc
        PROVE  values(svc) \in Seq(OwnCommand) /\ states(svc) \in Seq(OwnCommand)
    <3> DEFINE vs == [i \in 1..Len(of(svc)) |-> <<SetValue(of(svc)[i], target)>>]
               bs == [i \in 1..Len(of(svc)) |-> <<SetState(of(svc)[i], "on")>>]
    <3>1. Len(of(svc)) \in Nat /\ \A i \in 1..Len(of(svc)) : of(svc)[i] \in Slots
      BY <2>1, LenProperties, ElementOfSeq
    <3>2. ASSUME NEW i \in 1..Len(of(svc))
          PROVE  vs[i] \in Seq(OwnCommand) /\ bs[i] \in Seq(OwnCommand)
      <4>1. SetValue(of(svc)[i], target) \in Command /\ SetState(of(svc)[i], "on") \in Command
        BY <3>1, CommandsTyped DEF States
      <4>2. SetValue(of(svc)[i], target) \in OwnCommand /\ SetState(of(svc)[i], "on") \in OwnCommand
        BY <4>1, <1>4 DEF OwnCommand, SetValue, SetState, Proxies
      <4> QED BY <4>2, OneElement
    <3>3. vs = [i \in 1..Len(of(svc)) |-> vs[i]] /\ bs = [i \in 1..Len(of(svc)) |-> bs[i]]
      OBVIOUS
    <3>4. FlattenSeq(vs) \in Seq(OwnCommand) /\ FlattenSeq(bs) \in Seq(OwnCommand)
      <4> HIDE DEF vs, bs
      <4> QED BY <3>1, <3>2, <3>3, FlatElements
    <3> QED BY <3>4
  <2> HIDE DEF values, states
  <2>5. \A k \in 1..m : ss[k] \in Seq(OwnCommand)
    BY <2>4, ConcatProperties
  <2>6. ss = [k \in 1..m |-> ss[k]]
    OBVIOUS
  <2> HIDE DEF ss, m
  <2> QED BY <2>2, <2>3, <2>5, <2>6, FlatElements
<1> QED BY <1>2, <1>3, <1>4

-----------------------------------------------------------------------------
(* The invariants.                                                         *)

\* A value dpb installs, wherever it is met.  Over a dead run's DNS change
\* nothing is said of the lists: the record that is closed first may be the older.
Ours(v) ==
    CASE kind \in Proxies \cup {"env"} -> v \in {"mine", "dead"}
      [] kind = "dns" -> before # "residue" /\ \E i \in 1..Len(v) : v[i] = "tun"
      [] OTHER -> v = "mine"

\* Who is at work on what; what was adopted is neither applied nor reverted.
Control ==
    /\ pc \in {"prepare", "apply", "rollback", "live"} => who = "run"
    /\ pc \in {"apply", "rollback", "live"} => pend # <<>>
    /\ pc \in {"apply", "rollback"} => ~pend[Len(pend)].adopted
    /\ pc \in {"revert", "pass"} => job \in 1..Len(pend)
    /\ pc = "revert" => ~pend[job].adopted

\* What a record may say of a setting: nothing of ours is noted as the user's.
Noted(p) == /\ ~Ours(p.val)
            /\ kind \in Proxies => p.state = "off" \/ p.val # Nothing
            /\ kind \in {"dns", "env"} => p.state = "-"
Sound(r) == /\ r.adopted => canAdopt
            /\ canAdopt => r.target = "mine"
            /\ \A s \in Slots : Noted(r.prev[s])
Records == \A i \in 1..Len(pend) : Sound(pend[i])

Users == \A s \in Slots : orig[s] \in UserStart
Plain == kind \in {"dns", "env"} => \A s \in Slots : world[s].state = "-"

\* Before it does anything the run meets the user's settings, or a dead run's
\* record with them.
Fresh == pc = "prepare" =>
            /\ before = "residue" => pend # <<>>
            /\ \A s \in Slots : s \in changed \/ world[s] = orig[s] \/ before = "residue"

\* Where no dead run's change is about, there is one record and one value of ours.
Alone == IF before = "residue" THEN ~lied
         ELSE /\ Len(pend) <= 1 /\ (pc = "prepare" => pend = <<>>)
              /\ \A i \in 1..Len(pend) : pend[i].target = target
              /\ ~canAdopt => \A s \in Slots : Ours(world[s].val) => world[s].val = target

\* What is in force is owed.
Settling == kind = "dns" => before # "residue"
AnyInForce == \E s \in Slots : InForce(s)
Owing == Settling /\ AnyInForce => \E i \in 1..Len(pend) : ~pend[i].adopted
\* An add that is not known to have succeeded has created nothing.
RouteAdd == kind = "route" /\ pc \in {"apply", "rollback"} /\ ~added /\ AnyInForce =>
               \E i \in 1..Len(pend) : i < Len(pend) /\ ~pend[i].adopted

\* What the commands that are left put.
PutsBack(c, r) ==
    /\ kind \in {"dns", "env", "route", "ifconfig"} => "state" \notin DOMAIN c.put
    /\ canAdopt => "val" \in DOMAIN c.put /\ c.put.val = "none"
    /\ ~canAdopt /\ "val" \in DOMAIN c.put =>
          \/ c.put.val = r.prev[c.slot].val
          \/ kind = "pacfile" /\ c.put.val = "torn"
    /\ c.soft => kind \in Proxies /\ r.prev[c.slot].val = Nothing
Puttings ==
    /\ pc = "apply" => \A i \in 1..Len(todo) : todo[i] \in OwnCommand
    /\ pc = "revert" => /\ \A i \in 1..Len(todo) : PutsBack(todo[i], pend[job])
                        /\ kind = "route" => Len(todo) <= 1

\* A Revert that has met no error: every setting is back, or a command that is
\* left will put it back and none after that touches it.
Touches(c, s, f) == c.slot = s /\ f \in DOMAIN c.put
Pending(s, f, x) ==
    \E i \in 1..Len(todo) :
        /\ Touches(todo[i], s, f) /\ todo[i].put[f] = x
        /\ f = "state" => ~todo[i].soft
        /\ \A k \in 1..Len(todo) : k > i => ~Touches(todo[k], s, f)
Quiet(s, f) == \A i \in 1..Len(todo) : ~Touches(todo[i], s, f)
Before(s) == pend[job].prev[s]
Theirs(s) == s \in changed /\ ~Ours(world[s].val)
Kept(s)   == kind \in Proxies /\ Before(s).val = Nothing /\ (refuses \/ faults > 0)
ValueComes(s) ==
    \/ Pending(s, "val", Before(s).val)
    \/ Quiet(s, "val") /\ (world[s].val = Before(s).val \/ Theirs(s) \/ Kept(s))
StateComes(s) ==
    \/ Pending(s, "state", Before(s).state)
    \/ Quiet(s, "state") /\ (world[s].state = Before(s).state \/ Theirs(s))
Sweep == pc = "revert" /\ ~err /\ ~lied /\ ~canAdopt =>
            \A s \in Slots : ValueComes(s) /\ StateComes(s)

\* What the oldest record says, of a setting nobody touched, is what the user had.
Trusted == ~blind /\ ~lied /\ ~overtaken
Excused(s) == s \in changed \/ (orig[s].val = "local" /\ before = "elsewhere")
Captured(p, u) == IF u.state = "off" THEN p.state = "off" /\ p.val \in {u.val, "none"}
                  ELSE p = u
Base == Trusted /\ pend # <<>> /\ ~canAdopt =>
           \A s \in Slots : Excused(s) \/ Captured(pend[1].prev[s], orig[s])
\* A proxy setting holds what the user had, nothing, or what a run installed.
Mixed == kind \in Proxies => \A s \in Slots :
            \/ s \in changed
            \/ /\ world[s].val \in {orig[s].val, "none", "mine", "dead"}
               /\ \A i \in 1..Len(pend) : pend[i].prev[s].val \in {orig[s].val, "none"}

\* A route, an address: the other tunnel's, ours where nothing was, or nothing.
Routes == canAdopt /\ ~blind =>
             \A s \in Slots : \/ world[s] = orig[s]
                              \/ orig[s] = Value("none", "-") /\ world[s] = Value("mine", "-")
Twin == kind = "route" /\ ~blind =>
           \A s \in Slots : orig[s].val = "twin" => \A i \in 1..Len(pend) : pend[i].adopted
Delete == kind = "route" /\ ~blind /\ pc = "revert" /\ todo # <<>> =>
             \A s \in Slots : world[s].val = "mine"

\* With no record left, what the user had is there.
Settled == Trusted /\ pend = <<>> => \A s \in Slots : Excused(s) \/ Restored(s)

Working  == TypeInv /\ Target /\ Control /\ Puttings
Facts    == Records /\ Users /\ Plain /\ Fresh /\ Alone
Payments == Owing /\ RouteAdd /\ Sweep
Returns  == Base /\ Mixed /\ Routes /\ Twin /\ Delete /\ Settled
IInv == Working /\ Facts /\ Payments /\ Returns

-----------------------------------------------------------------------------
(* The steps, by what they do to the settings and to the journal.          *)

Still == UNCHANGED <<world, orig, changed>>
NewRecord(adopted) == [slots |-> SlotSeq, target |-> target,
                       prev |-> [s \in Slots |-> Capture(world[s])],
                       adopted |-> adopted]

\* A record is written.
Writes(adopted) ==
    /\ pc = "prepare" /\ Slots # {} /\ Still
    /\ pend' = Append(pend, NewRecord(adopted))
    /\ IF adopted THEN canAdopt /\ Verify /\ pc' = "live" /\ todo' = <<>>
       ELSE (canAdopt /\ Verify => blind') /\ pc' = "apply" /\ todo' = ApplyCmds
    /\ UNCHANGED <<who, job, err, lied, overtaken, added>>

\* A command is issued.
Issues == Apply \/ ApplyFails \/ Revert

\* The debt of record j is struck off, and why it may be.
Strikes(j) ==
    /\ Still /\ pend' = RemoveAt(pend, j)
    /\ overtaken' = (overtaken \/ j < Len(pend))
    /\ pc' = "over" \/ (pc' = "pass" /\ job' \in 1..(Len(pend) - 1))
    /\ todo' \in {todo, <<>>}
    /\ UNCHANGED <<faults, lied, blind, added>>
    /\ \/ pend[j].adopted
       \/ kind = "route" /\ ~added /\ pc = "rollback" /\ j = Len(pend)
       \/ pc = "revert" /\ job = j /\ todo = <<>> /\ ~err /\ VerifyReverted(pend[j])

\* The Revert of record j begins.
Starts(j, sees) ==
    /\ Still /\ pc' = "revert" /\ job' = j /\ err' = FALSE
    /\ todo' = RevertCmds(pend[j], sees)
    /\ ~pend[j].adopted /\ (sees \/ (kind = "route" /\ blind'))
    /\ UNCHANGED <<pend, lied, overtaken, added>>

\* Neither a setting nor the journal changes.
Rests ==
    /\ Still /\ UNCHANGED <<pend, lied, overtaken, blind, added>>
    /\ todo' \in {todo, <<>>}
    /\ \/ UNCHANGED <<pc, todo, job, err, who, faults>>
       \/ pc' = "over"
       \/ pc' = "pass" /\ job' \in 1..Len(pend)
       \/ pc = "apply" /\ pc' \in {"live", "rollback"} /\ UNCHANGED <<who, todo>>

\* What every step leaves alone, and what only ever grows.
Course ==
    /\ UNCHANGED <<env, target>>
    /\ faults' \in Nat /\ faults <= faults'
    /\ who' \in {"run", "replay"} /\ job' \in Nat /\ err' \in BOOLEAN /\ added' \in BOOLEAN
    /\ blind' \in BOOLEAN /\ lied' \in BOOLEAN /\ overtaken' \in BOOLEAN
    /\ blind => blind'
    /\ lied => lied'
    /\ overtaken => overtaken'

Shape == \/ \E adopted \in BOOLEAN : Writes(adopted)
         \/ Issues
         \/ \E j \in 1..Len(pend) : Strikes(j)
         \/ \E j \in 1..Len(pend), sees \in BOOLEAN : Starts(j, sees)
         \/ Rests
         \/ Vanish \/ Outside

LEMMA StrikeIs ==
    ASSUME NEW j, Strike(j), TypeInv
    PROVE  /\ faults' \in Nat /\ faults <= faults' /\ overtaken' \in BOOLEAN
           /\ overtaken => overtaken'
           /\ \/ UNCHANGED <<pend, overtaken>>
              \/ pend' = RemoveAt(pend, j) /\ overtaken' = (overtaken \/ j < Len(pend))
                 /\ faults' = faults
<1>1. faults' \in Nat /\ faults <= faults'
  BY DEF Strike, Fine, Fault, TypeInv
<1>2. \/ UNCHANGED <<pend, overtaken>>
      \/ pend' = RemoveAt(pend, j) /\ overtaken' = (overtaken \/ j < Len(pend))
         /\ faults' = faults
  BY DEF Strike, Fine
<1>3. overtaken \in BOOLEAN /\ (overtaken \/ j < Len(pend)) \in BOOLEAN
  BY DEF TypeInv
<1>4. overtaken' \in BOOLEAN /\ (overtaken => overtaken')
  BY <1>2, <1>3
<1> QED BY <1>1, <1>2, <1>4

LEMMA StartIs ==
    ASSUME NEW j, NEW w \in {"run", "replay"}, StartRevert(j, w), TypeInv, j \in Nat
    PROVE  /\ faults' \in Nat /\ faults <= faults' /\ blind' \in BOOLEAN /\ (blind => blind')
           /\ who' = w /\ job' = j /\ err' = FALSE /\ pc' = "revert"
           /\ \E sees \in BOOLEAN : /\ todo' = RevertCmds(pend[j], sees)
                                    /\ sees \/ (kind = "route" /\ blind')
<1>1. faults' \in Nat /\ faults <= faults'
  BY DEF StartRevert, Fine, Fault, TypeInv
<1>2. /\ who' = w /\ job' = j /\ err' = FALSE /\ pc' = "revert"
      /\ \E sees \in BOOLEAN : /\ todo' = RevertCmds(pend[j], sees)
                               /\ sees \/ kind = "route"
                               /\ IF sees THEN blind' = blind ELSE blind' = TRUE
  BY DEF StartRevert
<1>3. blind \in BOOLEAN
  BY DEF TypeInv
<1> QED BY <1>1, <1>2, <1>3

\* Whatever macOS makes of a command, nothing changes, or what it was to change.
LEMMA IssueIs ==
    ASSUME NEW c, TypeInv
    PROVE  /\ Works(c) => /\ faults' = faults /\ lied' = lied /\ world' = Lands(c)
                          /\ ~Occupied(c) /\ ~Refused(c)
           /\ Lies(c) => /\ faults' = faults + 1 /\ lied' = TRUE /\ world' = world
                         /\ before # "residue"
           /\ Fails(c) => /\ lied' = lied /\ faults' \in Nat /\ faults <= faults'
                          /\ world' = world \/ (world' = Lands(c) /\ kind # "route")
                          /\ refuses \/ faults' > 0 \/ Occupied(c)
<1>1. Works(c) => /\ faults' = faults /\ lied' = lied /\ world' = Lands(c)
                  /\ ~Occupied(c) /\ ~Refused(c)
  BY DEF Works, Fine
<1>2. Lies(c) => /\ faults' = faults + 1 /\ lied' = TRUE /\ world' = world
                 /\ before # "residue"
  BY DEF Lies, Fault
<1>3. ASSUME Fails(c)
      PROVE  /\ lied' = lied /\ faults' \in Nat /\ faults <= faults'
             /\ world' = world \/ (world' = Lands(c) /\ kind # "route")
             /\ refuses \/ faults' > 0 \/ Occupied(c)
  <2>1. faults \in Nat
    BY DEF TypeInv
  <2>2. CASE (Occupied(c) \/ Refused(c)) /\ Fine /\ world' = world
    BY <1>3, <2>1, <2>2 DEF Fails, Fine, Refused
  <2>3. CASE Fault /\ world' \in {world} \cup
                      (IF Refused(c) \/ kind = "route" THEN {} ELSE {Lands(c)})
    BY <1>3, <2>1, <2>3 DEF Fails, Fault
  <2> QED BY <1>3, <2>2, <2>3 DEF Fails
<1> QED BY <1>1, <1>2, <1>3

LEMMA LastPlace ==
    ASSUME TypeInv, pend # <<>>
    PROVE  /\ Len(pend) \in Nat \ {0} /\ Len(pend) \in 1..Len(pend)
           /\ Last(pend) = pend[Len(pend)]
<1>1. Len(pend) \in Nat /\ Len(pend) # 0
  BY LenProperties, EmptySeq DEF TypeInv
<1> QED BY <1>1 DEF Last

LEMMA StepShape ==
    ASSUME Working, [Next]_vars
    PROVE  Course /\ Shape
<1> USE DEF Course, Shape
<1>0. TypeInv /\ Control /\ Len(pend) \in Nat
  BY LenProperties DEF Working, TypeInv
<1>a. added \in BOOLEAN /\ blind \in BOOLEAN /\ lied \in BOOLEAN /\ overtaken \in BOOLEAN
  BY <1>0 DEF TypeInv
<1>1. CASE Begin
  <2>0. UNCHANGED <<env, target, lied, overtaken, added, who, job, err>> /\ Still
        /\ pc = "prepare"
    BY <1>1 DEF Begin, hist, Still, IsOver
  <2>1. CASE /\ (Slots = {} /\ Fine) \/ Fault
             /\ IsOver /\ UNCHANGED <<pend, blind>>
    <3>1. faults' \in Nat /\ faults <= faults'
      BY <2>1, <1>0 DEF Fine, Fault, TypeInv
    <3> QED BY <2>0, <2>1, <3>1, <1>0 DEF Rests, IsOver, TypeInv
  <2>2. ASSUME Slots # {}, NEW sees \in BOOLEAN, sees \/ kind = "route",
               IF sees THEN Fine /\ UNCHANGED blind ELSE Fault /\ blind' = TRUE,
               pend' = Append(pend, NewRecord(canAdopt /\ sees /\ Verify)),
               pc' = IF canAdopt /\ sees /\ Verify THEN "live" ELSE "apply",
               todo' = IF canAdopt /\ sees /\ Verify THEN <<>> ELSE ApplyCmds
        PROVE  Course /\ Shape
    <3>1. faults' \in Nat /\ faults <= faults'
      BY <2>2, <1>0 DEF Fine, Fault, TypeInv
    <3>2. blind' \in BOOLEAN /\ (blind => blind') /\ (~sees => blind')
      <4>1. blind \in BOOLEAN
        BY <1>0 DEF TypeInv
      <4> QED BY <2>2, <4>1
    <3>3. (canAdopt /\ sees /\ Verify) \in BOOLEAN
      OBVIOUS
    <3>4. Writes(canAdopt /\ sees /\ Verify)
      BY <2>0, <2>2, <3>2 DEF Writes
    <3>5. Course
      BY <2>0, <3>1, <3>2, <1>0 DEF TypeInv
    <3> QED BY <3>3, <3>4, <3>5
  <2> QED BY <1>1, <2>1, <2>2 DEF Begin, NewRecord
<1>2. CASE Apply
  <2>1. faults' \in Nat /\ faults <= faults' /\ lied' \in BOOLEAN /\ (lied => lied')
    <3>1. faults \in Nat /\ lied \in BOOLEAN /\ (Works(Head(todo)) \/ Lies(Head(todo)))
      BY <1>2, <1>0 DEF Apply, TypeInv
    <3>2. lied' = lied \/ lied' = TRUE
      BY <3>1, <1>0, IssueIs
    <3>3. faults' = faults \/ faults' = faults + 1 \/ (faults' \in Nat /\ faults <= faults')
      BY <3>1, <1>0, IssueIs
    <3>4. faults' \in Nat /\ faults <= faults'
      BY <3>1, <3>3
    <3>5. lied' \in BOOLEAN /\ (lied => lied')
      BY <1>a, <3>2
    <3> QED BY <3>4, <3>5
  <2> QED BY <1>2, <2>1, <1>0 DEF Apply, env, hist, TypeInv, Issues
<1>3. CASE ApplyFails
  <2>1. faults' \in Nat /\ faults <= faults' /\ lied' = lied
    BY <1>3, <1>0 DEF ApplyFails, Fails, Fine, Fault, TypeInv
  <2> QED BY <1>3, <2>1, <1>0 DEF ApplyFails, env, hist, TypeInv, Issues
<1>4. CASE RollBack
  <2>0. UNCHANGED <<env, target, lied, added>> /\ Still /\ pc = "rollback" /\ Rollback
    BY <1>4 DEF RollBack, hist, Still
  <2>1. pend # <<>> /\ Len(pend) \in 1..Len(pend) /\ ~pend[Len(pend)].adopted
    BY <1>0, <2>0, LastPlace DEF Control
  <2>2. CASE mutated
    <3>1. StartRevert(Len(pend), "run") /\ UNCHANGED <<pend, overtaken>>
      BY <2>0, <2>2 DEF Rollback
    <3>2. \E sees \in BOOLEAN : Starts(Len(pend), sees)
      BY <3>1, <1>0, <2>0, <2>1, StartIs DEF Starts
    <3>3. Course
      BY <3>1, <1>0, <1>a, <2>0, <2>1, StartIs
    <3> QED BY <2>1, <3>2, <3>3
  <2>3. CASE ~mutated
    <3>1. Strike(Len(pend)) /\ IsOver /\ UNCHANGED blind /\ kind = "route" /\ ~added
      BY <2>0, <2>3 DEF Rollback, mutated
    <3>2. Course
      BY <3>1, <1>0, <2>0, StrikeIs DEF TypeInv, IsOver
    <3>3. CASE pend' = RemoveAt(pend, Len(pend)) /\ faults' = faults
               /\ overtaken' = (overtaken \/ Len(pend) < Len(pend))
      BY <3>1, <3>2, <3>3, <2>0, <2>1 DEF Strikes, IsOver
    <3>4. CASE UNCHANGED <<pend, overtaken>>
      BY <3>1, <3>2, <3>4, <2>0 DEF Rests, IsOver
    <3> QED BY <3>1, <3>3, <3>4, <1>0, StrikeIs
  <2> QED BY <2>2, <2>3
<1>5. CASE Commit
  <2>1. faults' \in Nat /\ faults <= faults'
    BY <1>5, <1>0 DEF Commit, Fine, Fault, TypeInv
  <2>2. Rests
    BY <1>5 DEF Commit, Rests, Still, hist
  <2> QED BY <1>5, <2>1, <2>2, <1>0 DEF Commit, env, TypeInv
<1>6. CASE Stop
  <2>0. UNCHANGED <<env, target, lied, added>> /\ Still /\ pc = "live"
    BY <1>6 DEF Stop, hist, Still
  <2>1. pend # <<>> /\ Len(pend) \in 1..Len(pend) /\ Last(pend) = pend[Len(pend)]
    BY <1>0, <2>0, LastPlace DEF Control
  <2>2. CASE ~pend[Len(pend)].adopted
    <3>1. StartRevert(Len(pend), "run") /\ UNCHANGED <<pend, overtaken>>
      BY <1>6, <2>1, <2>2 DEF Stop
    <3>2. \E sees \in BOOLEAN : Starts(Len(pend), sees)
      BY <3>1, <1>0, <2>0, <2>1, <2>2, StartIs DEF Starts, Still
    <3>3. Course
      BY <3>1, <1>0, <1>a, <2>0, <2>1, StartIs
    <3> QED BY <2>1, <3>2, <3>3
  <2>3. CASE pend[Len(pend)].adopted
    <3>1. Strike(Len(pend)) /\ IsOver /\ UNCHANGED blind
      BY <1>6, <2>1, <2>3 DEF Stop
    <3>2. Course
      BY <3>1, <1>0, <2>0, StrikeIs DEF TypeInv, IsOver
    <3>3. CASE pend' = RemoveAt(pend, Len(pend)) /\ faults' = faults
               /\ overtaken' = (overtaken \/ Len(pend) < Len(pend))
      BY <3>1, <3>2, <3>3, <2>0, <2>1, <2>3 DEF Strikes, IsOver
    <3>4. CASE UNCHANGED <<pend, overtaken>>
      BY <3>1, <3>2, <3>4, <2>0 DEF Rests, IsOver
    <3> QED BY <3>1, <3>3, <3>4, <1>0, StrikeIs
  <2> QED BY <2>2, <2>3
<1>7. CASE Revert
  <2>1. faults' \in Nat /\ faults <= faults' /\ lied' \in BOOLEAN /\ (lied => lied')
    <3>1. faults \in Nat /\ lied \in BOOLEAN
          /\ (Works(Head(todo)) \/ Lies(Head(todo)) \/ Fails(Head(todo)))
      BY <1>7, <1>0 DEF Revert, TypeInv
    <3>2. lied' = lied \/ lied' = TRUE
      BY <3>1, <1>0, IssueIs
    <3>3. faults' = faults \/ faults' = faults + 1 \/ (faults' \in Nat /\ faults <= faults')
      BY <3>1, <1>0, IssueIs
    <3>4. faults' \in Nat /\ faults <= faults'
      BY <3>1, <3>3
    <3>5. lied' \in BOOLEAN /\ (lied => lied')
      BY <1>a, <3>2
    <3> QED BY <3>4, <3>5
  <2> QED BY <1>7, <2>1, <1>0 DEF Revert, env, hist, TypeInv, Issues, canAdopt
<1>8. CASE Close
  <2>0. UNCHANGED <<env, target, lied, added, blind, who, todo, err>> /\ Still
        /\ pc = "revert" /\ todo = <<>> /\ NextRecord
    BY <1>8 DEF Close, hist, Still
  <2>1. job \in 1..Len(pend)
    BY <1>0, <2>0 DEF Control
  <2>2. /\ job' \in Nat
        /\ pc' = "over" \/ (pc' = "pass" /\ job' \in 1..(Len(pend) - 1) /\ job' \in 1..Len(pend))
    BY <1>0, <2>0, <2>1 DEF NextRecord, TypeInv
  <2>3. CASE ~err /\ VerifyReverted(pend[job]) /\ Strike(job)
    <3>1. Course
      BY <2>0, <2>2, <2>3, <1>0, StrikeIs DEF TypeInv
    <3>2. CASE pend' = RemoveAt(pend, job) /\ faults' = faults
               /\ overtaken' = (overtaken \/ job < Len(pend))
      BY <3>1, <3>2, <2>0, <2>1, <2>2, <2>3 DEF Strikes
    <3>3. CASE UNCHANGED <<pend, overtaken>>
      BY <3>1, <3>3, <2>0, <2>2 DEF Rests
    <3> QED BY <2>3, <3>2, <3>3, <1>0, StrikeIs
  <2>4. CASE (err \/ ~VerifyReverted(pend[job])) /\ Fine /\ UNCHANGED <<pend, overtaken>>
    BY <2>0, <2>2, <2>4, <1>0 DEF Fine, Rests, TypeInv
  <2> QED BY <1>8, <2>3, <2>4 DEF Close
<1>9. CASE Replay
  <2>1. Len(pend) \in 1..Len(pend)
    BY <1>9, <1>0, LastPlace DEF Replay
  <2> QED BY <1>9, <2>1, <1>0 DEF Replay, env, hist, TypeInv, Rests, Still
<1>10. CASE Revive
  <2>0. UNCHANGED <<env, target, lied, added>> /\ Still /\ pc = "pass"
    BY <1>10 DEF Revive, hist, Still
  <2>1. job \in 1..Len(pend)
    BY <1>0, <2>0 DEF Control
  <2>2. CASE ~pend[job].adopted
    <3>1. StartRevert(job, "replay") /\ UNCHANGED <<pend, overtaken>> /\ job \in Nat
      BY <1>0, <1>10, <2>1, <2>2 DEF Revive
    <3>2. \E sees \in BOOLEAN : Starts(job, sees)
      BY <3>1, <1>0, <2>0, <2>1, <2>2, StartIs DEF Starts, Still
    <3>3. Course
      BY <3>1, <1>0, <1>a, <2>0, <2>1, StartIs
    <3> QED BY <2>1, <3>2, <3>3
  <2>3. CASE pend[job].adopted
    <3>0. Strike(job) /\ NextRecord /\ UNCHANGED <<blind, who, todo, err>>
      BY <1>10, <2>3 DEF Revive
    <3>1. /\ job' \in Nat
          /\ pc' = "over" \/ (pc' = "pass" /\ job' \in 1..(Len(pend) - 1) /\ job' \in 1..Len(pend))
      BY <1>0, <2>1, <3>0 DEF NextRecord, TypeInv
    <3>2. Course
      BY <3>0, <3>1, <1>0, <2>0, StrikeIs DEF TypeInv
    <3>3. CASE pend' = RemoveAt(pend, job) /\ faults' = faults
               /\ overtaken' = (overtaken \/ job < Len(pend))
      BY <3>0, <3>1, <3>2, <3>3, <2>0, <2>1, <2>3 DEF Strikes
    <3>4. CASE UNCHANGED <<pend, overtaken>>
      BY <3>0, <3>1, <3>2, <3>4, <2>0 DEF Rests
    <3> QED BY <3>0, <3>3, <3>4, <1>0, StrikeIs
  <2> QED BY <2>2, <2>3
<1>11. CASE Kill
  BY <1>11, <1>0 DEF Kill, Fine, Fault, IsOver, env, hist, TypeInv, Rests, Still
<1>12. CASE Vanish
  <2>1. Course
    BY <1>12, <1>0 DEF Vanish, env, hist, TypeInv
  <2> QED BY <1>12, <2>1
<1>13. CASE Outside
  BY <1>13, <1>0 DEF Outside, env, TypeInv
<1>14. CASE UNCHANGED vars
  BY <1>14, <1>0 DEF vars, env, hist, TypeInv, Rests, Still
<1> QED BY <1>1, <1>2, <1>3, <1>4, <1>5, <1>6, <1>7, <1>8, <1>9, <1>10, <1>11, <1>12,
           <1>13, <1>14 DEF Next, RunSteps, RevertSteps

LEMMA AppendIs ==
    ASSUME TypeInv, Target, NEW adopted \in BOOLEAN, Writes(adopted)
    PROVE  /\ NewRecord(adopted) \in Record /\ pend' \in Seq(Record)
           /\ Len(pend) \in Nat /\ Len(pend') = Len(pend) + 1
           /\ \A i \in 1..Len(pend) : pend'[i] = pend[i]
           /\ pend'[Len(pend) + 1] = NewRecord(adopted)
<1>1. NewRecord(adopted) \in Record
  <2>1. \A s \in Slots : Capture(world[s]) \in Entry
    BY CaptureTyped DEF TypeInv
  <2> QED BY <2>1 DEF NewRecord, Record, TypeInv
<1>2. pend' = Append(pend, NewRecord(adopted)) /\ pend \in Seq(Record)
  BY DEF Writes, TypeInv
<1> QED BY <1>1, <1>2, AppendProperties, LenProperties

LEMMA DropIs ==
    ASSUME TypeInv, NEW j \in 1..Len(pend), Strikes(j)
    PROVE  /\ pend' \in Seq(Record) /\ Len(pend) \in Nat /\ Len(pend') = Len(pend) - 1
           /\ \A i \in 1..Len(pend') : pend'[i] = IF i < j THEN pend[i] ELSE pend[i + 1]
           /\ \A i \in 1..Len(pend') : \E k \in 1..Len(pend) : pend'[i] = pend[k]
<1>1. pend' = RemoveAt(pend, j) /\ pend \in Seq(Record) /\ Len(pend) \in Nat
  BY LenProperties DEF Strikes, TypeInv
<1>2. /\ pend' \in Seq(Record) /\ Len(pend') = Len(pend) - 1
      /\ \A i \in 1..Len(pend') : pend'[i] = IF i < j THEN pend[i] ELSE pend[i + 1]
  BY <1>1, RemoveAtIs
<1>3. \A i \in 1..Len(pend') : i \in 1..Len(pend) /\ i + 1 \in 1..Len(pend)
  BY <1>1, <1>2
<1> QED BY <1>1, <1>2, <1>3

LEMMA TodoIs ==
    ASSUME TypeInv, todo # <<>>
    PROVE  /\ Head(todo) = todo[1] /\ Head(todo) \in Command /\ 1 \in 1..Len(todo)
           /\ Tail(todo) \in Seq(Command) /\ Len(Tail(todo)) = Len(todo) - 1
           /\ Len(todo) \in Nat
           /\ \A i \in 1..Len(Tail(todo)) : i + 1 \in 1..Len(todo) /\ Tail(todo)[i] = todo[i + 1]
<1>1. todo \in Seq(Command) /\ Len(todo) \in Nat \ {0}
  BY LenProperties, EmptySeq DEF TypeInv
<1>2. /\ Head(todo) \in Command /\ Tail(todo) \in Seq(Command)
      /\ Len(Tail(todo)) = Len(todo) - 1
      /\ \A i \in 1..Len(Tail(todo)) : Tail(todo)[i] = todo[i + 1]
  BY <1>1, HeadTailProperties
<1>3. Head(todo) = todo[1]
  BY <1>1
<1>4. \A i \in 1..(Len(todo) - 1) : i + 1 \in 1..Len(todo)
  BY <1>1
<1> QED BY <1>1, <1>2, <1>3, <1>4

LEMMA NothingLeft == Len(<<>>) = 0
BY EmptySeq

\* What the commands for one setting are.
LEMMA PartIs ==
    ASSUME Workload, NEW s \in Slots, NEW r \in Record, NEW sees \in BOOLEAN
    PROVE  /\ \A c \in 1..Len(PartOf(r, s, sees)) :
                 PartOf(r, s, sees)[c].slot = s /\ PutsBack(PartOf(r, s, sees)[c], r)
           /\ kind = "route" => Len(PartOf(r, s, sees)) <= 1
<1> DEFINE P == PartOf(r, s, sees)
           p == r.prev[s]
<1>1. CASE kind \in Proxies
  <2>1. P = IF p.val = Nothing THEN <<Tidy(s), SetState(s, "off")>>
            ELSE <<SetValue(s, p.val), SetState(s, p.state)>>
    BY <1>1 DEF PartOf, Proxies, revertCmds
  <2>2. /\ \A v : PutsBack(SetState(s, v), r) /\ SetState(s, v).slot = s
        /\ PutsBack(SetValue(s, p.val), r) /\ SetValue(s, p.val).slot = s
        /\ p.val = Nothing => PutsBack(Tidy(s), r) /\ Tidy(s).slot = s
    BY <1>1 DEF PutsBack, SetState, SetValue, Tidy, Proxies, canAdopt
  <2>3. \A x, y : Len(<<x, y>>) = 2 /\ <<x, y>>[1] = x /\ <<x, y>>[2] = y
    OBVIOUS
  <2> HIDE DEF P, p
  <2>4. CASE p.val = Nothing
    <3>1. P = <<Tidy(s), SetState(s, "off")>>
      BY <2>1, <2>4
    <3>2. Len(P) = 2 /\ P[1] = Tidy(s) /\ P[2] = SetState(s, "off")
      BY <2>3, <3>1
    <3>3. \A c \in 1..2 : P[c].slot = s /\ PutsBack(P[c], r)
      BY <2>2, <2>4, <3>2
    <3> QED BY <1>1, <3>2, <3>3 DEF P, Proxies
  <2>5. CASE p.val # Nothing
    <3>1. P = <<SetValue(s, p.val), SetState(s, p.state)>>
      BY <2>1, <2>5
    <3>2. Len(P) = 2 /\ P[1] = SetValue(s, p.val) /\ P[2] = SetState(s, p.state)
      BY <2>3, <3>1
    <3>3. \A c \in 1..2 : P[c].slot = s /\ PutsBack(P[c], r)
      BY <2>2, <2>5, <3>2
    <3> QED BY <1>1, <3>2, <3>3 DEF P, Proxies
  <2> QED BY <2>4, <2>5
<1>2. CASE kind \in {"dns", "env"}
  <2>1. P = <<SetOnly(s, p.val)>>
    BY <1>2 DEF PartOf, Proxies, dnsRevert, envRevert
  <2>2. PutsBack(SetOnly(s, p.val), r) /\ SetOnly(s, p.val).slot = s
    BY <1>2 DEF PutsBack, SetOnly, canAdopt
  <2>3. Len(P) = 1 /\ P[1] = SetOnly(s, p.val)
    BY <2>1, OneElement
  <2> HIDE DEF P, p
  <2>4. \A c \in 1..1 : c = 1
    OBVIOUS
  <2> QED BY <1>2, <2>2, <2>3, <2>4 DEF P
<1>3. CASE kind = "pacfile"
  <2> DEFINE whole == [slot |-> s, put |-> p, soft |-> FALSE]
  <2>1. P = IF p.val = Nothing THEN <<whole>>
            ELSE <<SetOnly(s, "torn"), SetOnly(s, p.val), SetState(s, p.state)>>
    BY <1>3 DEF PartOf, Proxies, pacFileRevert
  <2>2. /\ PutsBack(SetOnly(s, "torn"), r) /\ SetOnly(s, "torn").slot = s
        /\ PutsBack(SetOnly(s, p.val), r) /\ SetOnly(s, p.val).slot = s
        /\ PutsBack(SetState(s, p.state), r) /\ SetState(s, p.state).slot = s
        /\ PutsBack(whole, r) /\ whole.slot = s
    BY <1>3 DEF PutsBack, SetState, SetOnly, canAdopt
  <2> HIDE DEF P, p, whole
  <2>4. CASE p.val = Nothing
    <3>1. P = <<whole>>
      BY <2>1, <2>4
    <3>2. Len(P) = 1 /\ P[1] = whole
      BY <3>1, OneElement
    <3>3. \A c \in 1..1 : c = 1
      OBVIOUS
    <3> QED BY <1>3, <2>2, <3>2, <3>3 DEF P
  <2>5. CASE p.val # Nothing
    <3>1. P = <<SetOnly(s, "torn"), SetOnly(s, p.val), SetState(s, p.state)>>
      BY <2>1, <2>5
    <3>2. Len(P) = 3 /\ P[1] = SetOnly(s, "torn") /\ P[2] = SetOnly(s, p.val)
          /\ P[3] = SetState(s, p.state)
      BY <3>1
    <3>3. \A c \in 1..3 : P[c].slot = s /\ PutsBack(P[c], r)
      BY <2>2, <3>2
    <3> QED BY <1>3, <3>2, <3>3 DEF P
  <2> QED BY <2>4, <2>5
<1>4. CASE kind \in {"route", "ifconfig"}
  <2>1. P = <<>> \/ P = <<SetOnly(s, Nothing)>>
    BY <1>4 DEF PartOf, Proxies, routeRevert, ifconfigRevert
  <2>2. PutsBack(SetOnly(s, Nothing), r) /\ SetOnly(s, Nothing).slot = s
    BY <1>4 DEF PutsBack, SetOnly, canAdopt, Nothing
  <2>3. Len(<<SetOnly(s, Nothing)>>) = 1 /\ <<SetOnly(s, Nothing)>>[1] = SetOnly(s, Nothing)
    BY OneElement
  <2> HIDE DEF P, p
  <2>4. \A c \in 1..1 : c = 1
    OBVIOUS
  <2>5. CASE P = <<>>
    <3>1. Len(P) = 0
      BY <2>5, NothingLeft
    <3> QED BY <3>1 DEF P
  <2>6. CASE P = <<SetOnly(s, Nothing)>>
    <3>1. Len(P) = 1 /\ P[1] = SetOnly(s, Nothing)
      BY <2>3, <2>6
    <3> QED BY <3>1, <2>2, <2>4 DEF P
  <2> QED BY <2>1, <2>5, <2>6
<1> QED BY <1>1, <1>2, <1>3, <1>4 DEF Workload, Kinds, Proxies

LEMMA RevertPutsBack ==
    ASSUME Workload, NEW r \in Record, NEW sees \in BOOLEAN
    PROVE  LET R == RevertCmds(r, sees)
           IN  /\ R \in Seq(Command) /\ Len(R) \in Nat
               /\ \A q \in 1..Len(R) : PutsBack(R[q], r)
               /\ kind = "route" => Len(R) <= 1
<1> DEFINE R == RevertCmds(r, sees)
<1>1. R \in Seq(Command) /\ Len(R) \in Nat
  BY RevertBlocks, LenProperties
<1> HIDE DEF R
<1>2. ASSUME NEW q \in 1..Len(R) PROVE PutsBack(R[q], r)
  <2>1. PICK s \in Slots, start \in Nat :
           /\ \A c \in 1..Len(PartOf(r, s, sees)) : R[start + c] = PartOf(r, s, sees)[c]
           /\ \E c \in 1..Len(PartOf(r, s, sees)) : q = start + c
    BY RevertBlocks DEF R
  <2> QED BY <2>1, PartIs
<1>3. ASSUME kind = "route" PROVE Len(R) <= 1
  <2>1. PICK s \in Slots : Len(R) = Len(PartOf(r, s, sees))
    BY <1>3, RevertBlocks DEF R
  <2> QED BY <1>3, <2>1, PartIs
<1> QED BY <1>1, <1>2, <1>3 DEF R

-----------------------------------------------------------------------------
(* Types, and who is at work.                                              *)

LEMMA CommandStep ==
    ASSUME TypeInv, Issues
    PROVE  /\ todo # <<>> /\ pc \in {"apply", "revert"}
           /\ UNCHANGED <<orig, changed, pend, job, who, blind, overtaken>>
           /\ world' = world \/ world' = Lands(Head(todo))
           /\ world' \in [Slots -> Entry]
           /\ todo' \in {<<>>, Tail(todo)}
           /\ pc' = "rollback" => pc = "apply" /\ todo' = <<>>
           /\ pc' # "rollback" => pc' = pc
<1>1. /\ todo # <<>> /\ pc \in {"apply", "revert"}
      /\ UNCHANGED <<orig, changed, pend, job, who, blind, overtaken>>
      /\ todo' \in {<<>>, Tail(todo)}
      /\ pc' = "rollback" => pc = "apply" /\ todo' = <<>>
      /\ pc' # "rollback" => pc' = pc
      /\ Works(Head(todo)) \/ Lies(Head(todo)) \/ Fails(Head(todo))
  BY DEF Issues, Apply, ApplyFails, Revert, hist
<1>2. world' = world \/ world' = Lands(Head(todo))
  BY <1>1, IssueIs
<1>3. Head(todo) \in Command /\ world \in [Slots -> Entry]
  BY <1>1, TodoIs DEF TypeInv
<1>4. world' \in [Slots -> Entry]
  BY <1>2, <1>3, LandsIs
<1> QED BY <1>1, <1>2, <1>4

LEMMA OutsideStep ==
    ASSUME TypeInv, Vanish \/ Outside
    PROVE  /\ UNCHANGED <<pend, pc, who, job, todo, err, added, blind, lied, overtaken, faults>>
           /\ world' \in [Slots -> Entry] /\ orig' \in [Slots -> Entry]
<1>1. UNCHANGED <<pend, pc, who, job, todo, err, added, blind, lied, overtaken, faults>>
  BY DEF Vanish, Outside
<1>2. CASE Vanish
  <2>1. PICK s \in Slots : world' = [world EXCEPT ![s].val = "none"]
    BY <1>2 DEF Vanish
  <2>2. "none" \in Vals
    BY <1>2 DEF Vanish, canAdopt, Vals, Texts
  <2>3. orig' = orig
    BY <1>2 DEF Vanish, hist
  <2> QED BY <1>1, <2>1, <2>2, <2>3 DEF TypeInv, Entry
<1>3. CASE Outside
  <2>1. PICK s \in Slots :
         IF canAdopt
         THEN /\ kind = "route" /\ world[s].val = "none"
              /\ world' = [world EXCEPT ![s].val = "foreign"]
              /\ orig' = [orig EXCEPT ![s].val = "foreign"]
         ELSE /\ world' = [world EXCEPT ![s] = UserChoice] /\ orig' = orig
    BY <1>3 DEF Outside
  <2>2. CASE canAdopt
    <3>1. "foreign" \in Vals
      BY <2>2 DEF canAdopt, Vals, Texts
    <3>2. \A w \in Entry : [w EXCEPT !.val = "foreign"] \in Entry
      BY <3>1 DEF Entry
    <3>3. world[s] \in Entry /\ orig[s] \in Entry
          /\ world \in [Slots -> Entry] /\ orig \in [Slots -> Entry]
      BY DEF TypeInv
    <3>4. /\ world' = [world EXCEPT ![s] = [world[s] EXCEPT !.val = "foreign"]]
          /\ orig' = [orig EXCEPT ![s] = [orig[s] EXCEPT !.val = "foreign"]]
      BY <2>1, <2>2
    <3> QED BY <1>1, <3>2, <3>3, <3>4
  <2>3. CASE ~canAdopt
    <3>1. UserChoice \in Entry
      <4>1. <<"isp">> \in Seq(Addrs)
        BY OneElement DEF Addrs
      <4>2. (IF kind = "dns" THEN <<"isp">> ELSE "user") \in Vals
        BY <4>1 DEF Vals, Texts
      <4>3. (CASE kind \in Proxies -> "on" [] kind = "pacfile" -> "0600" [] OTHER -> "-")
               \in States
        BY DEF Proxies, States
      <4> QED BY <4>2, <4>3 DEF UserChoice, Value, Entry
    <3> QED BY <1>1, <2>1, <2>3, <3>1 DEF TypeInv
  <2> QED BY <2>2, <2>3
<1> QED BY <1>2, <1>3

\* TypeInv' needs no more than this of a step.
LEMMA TypeStep ==
    ASSUME TypeInv, Course,
           world' \in [Slots -> Entry], orig' \in [Slots -> Entry],
           pend' \in Seq(Record), todo' \in Seq(Command), pc' \in Stages
    PROVE  TypeInv'
<1>1. /\ Slots' = Slots /\ Entry' = Entry /\ Vals' = Vals /\ Command' = Command
      /\ Record' = Record /\ Workload' = Workload /\ refuses' = refuses
  BY SameMachine DEF Course, env
<1>2. refuses' \in BOOLEAN /\ target' \in Vals' /\ Workload'
  BY <1>1 DEF TypeInv, Course
<1> QED BY <1>1, <1>2 DEF TypeInv, Course, Stages

LEMMA TargetStep ==
    ASSUME Target, Course
    PROVE  Target'
BY DEF Target, Course, env, OwnList

LEMMA TypeKept ==
    ASSUME Working, Course, Shape
    PROVE  TypeInv'
<1>0. /\ TypeInv /\ Target /\ Control
      /\ world \in [Slots -> Entry] /\ orig \in [Slots -> Entry] /\ pend \in Seq(Record)
      /\ todo \in Seq(Command) /\ <<>> \in Seq(Command) /\ pc \in Stages
  BY EmptySeq DEF Working, TypeInv
<1>1. ASSUME NEW adopted \in BOOLEAN, Writes(adopted) PROVE TypeInv'
  <2>1. ApplyCmds \in Seq(Command)
    <3>1. ApplyCmds \in Seq(OwnCommand)
      BY <1>0, ApplyTyped DEF TypeInv
    <3>2. /\ Len(ApplyCmds) \in Nat /\ \A i \in 1..Len(ApplyCmds) : ApplyCmds[i] \in Command
          /\ ApplyCmds = [i \in 1..Len(ApplyCmds) |-> ApplyCmds[i]]
      BY <3>1, LenProperties, ElementOfSeq DEF OwnCommand
    <3> QED BY <3>2, IsASeq
  <2>2. world' = world /\ orig' = orig /\ todo' \in Seq(Command) /\ pc' \in Stages
    BY <1>0, <1>1, <2>1 DEF Writes, Still, Stages
  <2>3. pend' \in Seq(Record)
    BY <1>0, <1>1, AppendIs
  <2> QED BY <1>0, <2>2, <2>3, TypeStep
<1>2. CASE Issues
  <2>1. todo' \in Seq(Command)
    BY <1>0, <1>2, CommandStep, TodoIs
  <2>2. pc' \in Stages /\ pend' = pend /\ orig' = orig /\ world' \in [Slots -> Entry]
    BY <1>0, <1>2, CommandStep DEF Stages
  <2> QED BY <1>0, <2>1, <2>2, TypeStep
<1>3. ASSUME NEW j \in 1..Len(pend), Strikes(j) PROVE TypeInv'
  <2>1. world' = world /\ orig' = orig /\ todo' \in Seq(Command) /\ pc' \in Stages
    BY <1>0, <1>3 DEF Strikes, Still, Stages
  <2>2. pend' \in Seq(Record)
    BY <1>0, <1>3, DropIs
  <2> QED BY <1>0, <2>1, <2>2, TypeStep
<1>4. ASSUME NEW j \in 1..Len(pend), NEW sees \in BOOLEAN, Starts(j, sees) PROVE TypeInv'
  <2>1. pend[j] \in Record /\ Workload
    BY <1>0, ElementOfSeq DEF TypeInv
  <2>2. RevertCmds(pend[j], sees) \in Seq(Command)
    BY <2>1, RevertPutsBack
  <2>3. world' = world /\ orig' = orig /\ todo' \in Seq(Command) /\ pc' \in Stages /\ pend' = pend
    BY <2>2, <1>4 DEF Starts, Still, Stages
  <2> QED BY <1>0, <2>3, TypeStep
<1>5. CASE Rests
  <2>1. world' = world /\ orig' = orig /\ todo' \in Seq(Command) /\ pc' \in Stages /\ pend' = pend
    BY <1>0, <1>5 DEF Rests, Still, Stages
  <2> QED BY <1>0, <2>1, TypeStep
<1>6. CASE Vanish \/ Outside
  <2>1. /\ UNCHANGED <<pend, todo, pc>>
        /\ world' \in [Slots -> Entry] /\ orig' \in [Slots -> Entry]
    BY <1>0, <1>6, OutsideStep
  <2> QED BY <1>0, <2>1, TypeStep
<1> QED BY <1>1, <1>2, <1>3, <1>4, <1>5, <1>6 DEF Shape

LEMMA ControlKept ==
    ASSUME Working, Course, Shape
    PROVE  Control'
<1>0. TypeInv /\ Target /\ Control /\ Len(pend) \in Nat /\ pend \in Seq(Record)
  BY LenProperties DEF Working, TypeInv
<1>1. ASSUME NEW adopted \in BOOLEAN, Writes(adopted) PROVE Control'
  <2>1. /\ Len(pend') = Len(pend) + 1 /\ pend'[Len(pend) + 1] = NewRecord(adopted)
        /\ pend' \in Seq(Record)
    BY <1>0, <1>1, AppendIs
  <2>2. pend' # <<>>
    BY <2>1, <1>0, NothingLeft
  <2>3. NewRecord(adopted).adopted = adopted
    BY DEF NewRecord
  <2>4. /\ pc = "prepare" /\ who' = who /\ pc' \in {"live", "apply"}
        /\ pc' = "apply" => ~adopted
    BY <1>1 DEF Writes
  <2> QED BY <1>0, <2>1, <2>2, <2>3, <2>4 DEF Control
<1>2. CASE Issues
  BY <1>0, <1>2, CommandStep DEF Control
<1>3. ASSUME NEW j \in 1..Len(pend), Strikes(j) PROVE Control'
  <2>1. Len(pend') = Len(pend) - 1
    BY <1>0, <1>3, DropIs
  <2> QED BY <1>0, <1>3, <2>1 DEF Control, Strikes
<1>4. ASSUME NEW j \in 1..Len(pend), NEW sees \in BOOLEAN, Starts(j, sees) PROVE Control'
  BY <1>4 DEF Control, Starts
<1>5. CASE Rests
  BY <1>0, <1>5 DEF Control, Rests
<1>6. CASE Vanish \/ Outside
  <2>1. UNCHANGED <<pend, pc, who, job>>
    BY <1>0, <1>6, OutsideStep
  <2> QED BY <1>0, <2>1 DEF Control
<1> QED BY <1>1, <1>2, <1>3, <1>4, <1>5, <1>6 DEF Shape

LEMMA PuttingsKept ==
    ASSUME Working, Course, Shape
    PROVE  Puttings'
<1>0. TypeInv /\ Target /\ Control /\ Puttings /\ Workload /\ pend \in Seq(Record)
  BY DEF Working, TypeInv
<1>a. OwnCommand' = OwnCommand
  BY SameMachine DEF OwnCommand, Course, env
<1>b. \A c, r : PutsBack(c, r)' = PutsBack(c, r)
  BY SameMachine DEF PutsBack, Course, env
<1>c. kind' = kind
  BY DEF Course, env
<1>1. ASSUME NEW adopted \in BOOLEAN, Writes(adopted) PROVE Puttings'
  <2>1. ApplyCmds \in Seq(OwnCommand)
    BY <1>0, ApplyTyped DEF TypeInv
  <2>2. \A i \in 1..Len(ApplyCmds) : ApplyCmds[i] \in OwnCommand
    BY <2>1, ElementOfSeq
  <2> QED BY <1>1, <1>a, <2>2 DEF Puttings, Writes
<1>2. CASE Issues
  <2>1. /\ todo # <<>> /\ todo' \in {<<>>, Tail(todo)} /\ pend' = pend /\ job' = job
        /\ pc' \in {"apply", "revert"} => pc' = pc
    BY <1>0, <1>2, CommandStep
  <2>2. /\ Len(Tail(todo)) = Len(todo) - 1 /\ Len(todo) \in Nat
        /\ \A i \in 1..Len(Tail(todo)) : i + 1 \in 1..Len(todo) /\ Tail(todo)[i] = todo[i + 1]
    BY <1>0, <2>1, TodoIs
  <2>3. CASE todo' = <<>>
    BY <1>a, <1>b, <1>c, <2>3, NothingLeft DEF Puttings
  <2>4. CASE todo' = Tail(todo)
    <3>1. pc' = "apply" => \A i \in 1..Len(todo') : todo'[i] \in OwnCommand
      BY <1>0, <2>1, <2>2, <2>4 DEF Puttings
    <3>2. pc' = "revert" => /\ \A i \in 1..Len(todo') : PutsBack(todo'[i], pend[job])
                            /\ kind = "route" => Len(todo') <= 1
      BY <1>0, <2>1, <2>2, <2>4 DEF Puttings
    <3> QED BY <1>a, <1>b, <1>c, <2>1, <3>1, <3>2 DEF Puttings
  <2> QED BY <2>1, <2>3, <2>4
<1>3. ASSUME NEW j \in 1..Len(pend), Strikes(j) PROVE Puttings'
  BY <1>3 DEF Puttings, Strikes
<1>4. ASSUME NEW j \in 1..Len(pend), NEW sees \in BOOLEAN, Starts(j, sees) PROVE Puttings'
  <2>1. pend[j] \in Record
    BY <1>0, ElementOfSeq
  <2> DEFINE R == RevertCmds(pend[j], sees)
  <2>2. (\A q \in 1..Len(R) : PutsBack(R[q], pend[j])) /\ (kind = "route" => Len(R) <= 1)
    BY <1>0, <2>1, RevertPutsBack
  <2>3. todo' = R /\ pend' = pend /\ job' = j /\ pc' = "revert"
    BY <1>4 DEF Starts
  <2> HIDE DEF R
  <2> QED BY <1>b, <1>c, <2>2, <2>3 DEF Puttings
<1>5. CASE Rests
  <2>1. /\ pend' = pend
        /\ pc' \in {"apply", "revert"} => UNCHANGED <<pc, todo, job>>
    BY <1>5 DEF Rests
  <2> QED BY <1>0, <1>a, <1>b, <1>c, <2>1 DEF Puttings
<1>6. CASE Vanish \/ Outside
  <2>1. UNCHANGED <<pend, pc, todo, job>>
    BY <1>0, <1>6, OutsideStep
  <2> QED BY <1>0, <1>a, <1>b, <1>c, <2>1 DEF Puttings
<1> QED BY <1>1, <1>2, <1>3, <1>4, <1>5, <1>6 DEF Shape

LEMMA WorkingKept ==
    ASSUME Working, [Next]_vars
    PROVE  Working'
BY StepShape, TypeKept, TargetStep, ControlKept, PuttingsKept DEF Working

-----------------------------------------------------------------------------
(* One record, one setting.                                                *)

\* A record of the journal was there before, or has just been written.
LEMMA JournalIs ==
    ASSUME Working, Course, Shape, NEW i \in 1..Len(pend')
    PROVE  \/ \E k \in 1..Len(pend) : pend'[i] = pend[k]
           \/ \E adopted \in BOOLEAN : Writes(adopted) /\ pend'[i] = NewRecord(adopted)
<1>0. TypeInv /\ Target /\ Len(pend) \in Nat
  BY LenProperties DEF Working, TypeInv
<1>1. ASSUME NEW adopted \in BOOLEAN, Writes(adopted)
      PROVE  (\E k \in 1..Len(pend) : pend'[i] = pend[k]) \/ pend'[i] = NewRecord(adopted)
  <2>1. /\ Len(pend') = Len(pend) + 1 /\ pend'[Len(pend) + 1] = NewRecord(adopted)
        /\ \A k \in 1..Len(pend) : pend'[k] = pend[k]
    BY <1>0, <1>1, AppendIs
  <2>2. i \in 1..Len(pend) \/ i = Len(pend) + 1
    BY <1>0, <2>1
  <2> QED BY <2>1, <2>2
<1>2. ASSUME NEW j \in 1..Len(pend), Strikes(j)
      PROVE  \E k \in 1..Len(pend) : pend'[i] = pend[k]
  BY <1>0, <1>2, DropIs
<1>3. ASSUME Issues \/ Rests \/ Vanish \/ Outside
                \/ \E j \in 1..Len(pend), sees \in BOOLEAN : Starts(j, sees)
      PROVE  pend' = pend
  BY <1>0, <1>3, CommandStep, OutsideStep DEF Rests, Starts
<1> QED BY <1>1, <1>2, <1>3 DEF Shape

\* What a step may do to one setting: nothing, a command to it, the end of the
\* tunnel, another tunnel, the user.
Untouched(s) == world'[s] = world[s] /\ orig'[s] = orig[s]
Commanded(s) ==
    /\ Issues /\ pc \in {"apply", "revert"} /\ todo # <<>>
    /\ world' = Lands(todo[1]) /\ todo[1] \in Command /\ 1 \in 1..Len(todo)
    /\ todo[1].slot = s /\ orig'[s] = orig[s]
    /\ world'[s].val = IF "val" \in DOMAIN todo[1].put THEN todo[1].put.val ELSE world[s].val
    /\ world'[s].state = IF "state" \in DOMAIN todo[1].put THEN todo[1].put.state
                         ELSE world[s].state
Vanished(s) == /\ canAdopt /\ pc = "over" /\ world[s].val = "mine" /\ orig'[s] = orig[s]
               /\ world'[s].val = "none" /\ world'[s].state = world[s].state
Overrun(s) == /\ kind = "route" /\ world[s].val = "none"
              /\ world'[s] = [world[s] EXCEPT !.val = "foreign"]
              /\ orig'[s] = [orig[s] EXCEPT !.val = "foreign"]
Chosen(s) == ~canAdopt /\ world'[s] = UserChoice /\ s \in changed' /\ orig'[s] = orig[s]

LEMMA SettingIs ==
    ASSUME Working, Course, Shape, NEW s \in Slots
    PROVE  /\ Untouched(s) \/ Commanded(s) \/ Vanished(s) \/ Overrun(s) \/ Chosen(s)
           /\ s \in changed => s \in changed'
           /\ s \in changed' => s \in changed \/ Chosen(s)
<1>0. TypeInv /\ Target /\ world \in [Slots -> Entry] /\ orig \in [Slots -> Entry]
  BY DEF Working, TypeInv
<1>1. ASSUME Still PROVE Untouched(s) /\ changed' = changed
  BY <1>1 DEF Still, Untouched
<1>2. ASSUME Issues
      PROVE  (Untouched(s) \/ Commanded(s)) /\ changed' = changed
  <2>1. /\ todo # <<>> /\ pc \in {"apply", "revert"} /\ orig' = orig /\ changed' = changed
        /\ world' = world \/ world' = Lands(Head(todo))
    BY <1>0, <1>2, CommandStep
  <2>2. Head(todo) = todo[1] /\ todo[1] \in Command /\ 1 \in 1..Len(todo)
    BY <1>0, <2>1, TodoIs
  <2>3. CASE world' = world
    BY <2>1, <2>3 DEF Untouched
  <2>4. CASE world' = Lands(todo[1])
    <3>1. /\ Lands(todo[1])[todo[1].slot].val = IF "val" \in DOMAIN todo[1].put
                                               THEN todo[1].put.val
                                               ELSE world[todo[1].slot].val
          /\ Lands(todo[1])[todo[1].slot].state = IF "state" \in DOMAIN todo[1].put
                                                 THEN todo[1].put.state
                                                 ELSE world[todo[1].slot].state
          /\ s # todo[1].slot => Lands(todo[1])[s] = world[s]
      BY <1>0, <2>2, LandsIs
    <3> QED BY <1>2, <2>1, <2>2, <2>4, <3>1 DEF Untouched, Commanded
  <2> QED BY <2>1, <2>2, <2>3, <2>4
<1>3. ASSUME Vanish PROVE (Untouched(s) \/ Vanished(s)) /\ changed' = changed
  <2>1. PICK t \in Slots : /\ world[t].val = "mine"
                           /\ world' = [world EXCEPT ![t].val = "none"]
    BY <1>3 DEF Vanish
  <2>2. orig' = orig /\ changed' = changed /\ canAdopt /\ pc = "over"
    BY <1>3 DEF Vanish, hist
  <2>3. CASE s = t
    <3>1. world[s] \in Entry
      BY <1>0
    <3>2. world'[s] = [world[s] EXCEPT !.val = "none"]
      BY <1>0, <2>1, <2>3
    <3>3. world'[s].val = "none" /\ world'[s].state = world[s].state
      BY <3>1, <3>2 DEF Entry
    <3> QED BY <2>1, <2>2, <2>3, <3>3 DEF Vanished
  <2>4. CASE s # t
    BY <1>0, <2>1, <2>2, <2>4 DEF Untouched
  <2> QED BY <2>2, <2>3, <2>4
<1>4. ASSUME Outside
      PROVE  /\ Untouched(s) \/ Overrun(s) \/ Chosen(s)
             /\ s \in changed => s \in changed'
             /\ s \in changed' => s \in changed \/ Chosen(s)
  <2>1. PICK t \in Slots :
         IF canAdopt
         THEN /\ kind = "route" /\ world[t].val = "none"
              /\ world' = [world EXCEPT ![t].val = "foreign"]
              /\ orig' = [orig EXCEPT ![t].val = "foreign"]
              /\ changed' = changed
         ELSE /\ world' = [world EXCEPT ![t] = UserChoice]
              /\ changed' = changed \cup {t}
              /\ orig' = orig
    BY <1>4 DEF Outside
  <2>2. CASE s # t
    BY <1>0, <2>1, <2>2 DEF Untouched
  <2>3. CASE s = t
    BY <1>0, <2>1, <2>3 DEF Overrun, Chosen
  <2> QED BY <2>2, <2>3
<1> QED BY <1>1, <1>2, <1>3, <1>4 DEF Shape, Writes, Strikes, Starts, Rests

\* The user chooses nothing of ours.
LEMMA ChoiceIs ==
    ASSUME Workload, ~canAdopt
    PROVE  /\ ~Ours(UserChoice.val) /\ (kind \in {"dns", "env"} => UserChoice.state = "-")
           /\ UserChoice.val = IF kind = "dns" THEN <<"isp">> ELSE "user"
<1>1. UserChoice.val = IF kind = "dns" THEN <<"isp">> ELSE "user"
  BY DEF UserChoice, Value
<1>2. kind \in {"dns", "env"} => UserChoice.state = "-"
  BY DEF UserChoice, Value, Proxies
<1>3. Len(<<"isp">>) = 1 /\ <<"isp">>[1] = "isp" /\ \A i \in 1..1 : i = 1
  BY OneElement
<1>4. ~Ours(UserChoice.val)
  <2>1. CASE kind = "dns"
    BY <1>1, <1>3, <2>1 DEF Ours, Proxies
  <2>2. CASE kind # "dns"
    BY <1>1, <2>2 DEF Ours, Proxies
  <2> QED BY <2>1, <2>2
<1> QED BY <1>1, <1>2, <1>4

\* What these say of a value or a record is the same in every state of a life.
LEMMA SameSense ==
    ASSUME Course
    PROVE  /\ \A v : Ours(v)' = Ours(v)
           /\ \A r : Noted(r)' = Noted(r)
           /\ \A r : Sound(r)' = Sound(r)
           /\ UserStart' = UserStart
           /\ kind' = kind /\ before' = before /\ canAdopt' = canAdopt /\ Slots' = Slots
           /\ target' = target
<1>1. kind' = kind /\ before' = before /\ canAdopt' = canAdopt /\ Slots' = Slots
      /\ Nothing' = Nothing /\ target' = target
  BY SameMachine DEF Course, env
<1>2. \A v : Ours(v)' = Ours(v)
  BY <1>1 DEF Ours
<1>3. \A r : Noted(r)' = Noted(r)
  BY <1>1, <1>2 DEF Noted
<1>4. \A r : Sound(r)' = Sound(r)
  BY <1>1, <1>3 DEF Sound
<1>5. UserStart' = UserStart
  BY <1>1 DEF UserStart
<1> QED BY <1>1, <1>2, <1>3, <1>4, <1>5

-----------------------------------------------------------------------------
(* What the records say, and what the run starts from.                     *)

\* A list of ours on a service is in force.
LEMMA OwnListInForce ==
    ASSUME TypeInv, kind = "dns", NEW s \in Slots, world[s].val \in OwnList
    PROVE  InForce(s)
<1>1. world[s].val # <<>> /\ world[s].val[1] = "tun" /\ world[s].val \in Seq({"tun", "isp"})
  BY DEF OwnList
<1>2. Head(world[s].val) = "tun"
  BY <1>1
<1> QED BY <1>1, <1>2 DEF InForce, Proxies

LEMMA CaptureIsSound ==
    ASSUME Working, Facts, Owing, pc = "prepare", NEW s \in Slots
    PROVE  Noted(Capture(world[s]))
<1> DEFINE w == world[s]
<1>0. TypeInv /\ Target /\ Workload /\ w \in Entry /\ Records /\ Plain /\ Fresh /\ Alone
  BY DEF Working, Facts, TypeInv
<1>1. ASSUME kind \in Proxies \cup {"env"}, Ours(w.val)
      PROVE  notSelfHost(w.val) = "none"
  <2>1. w.val \in {"mine", "dead"} /\ target = "mine" /\ Nothing = "none" /\ ~canAdopt
    BY <1>0, <1>1 DEF Ours, Target, Nothing, Proxies, canAdopt
  <2>2. CASE before = "residue"
    <3>1. Residue
      BY <1>0, <2>2 DEF Fresh, Residue
    <3> QED BY <2>1, <3>1 DEF notSelfHost, LoopbackVals
  <2>3. CASE before # "residue"
    BY <1>0, <1>1, <2>1, <2>3 DEF Alone, notSelfHost
  <2> QED BY <2>2, <2>3
<1>2. CASE kind \in Proxies
  <2>1. Capture(w) = proxyCapture(w) /\ Nothing = "none"
    BY <1>2 DEF Capture, Proxies, Nothing
  <2>2. /\ Capture(w).val = notSelfHost(w.val)
        /\ Capture(w).state = IF w.state = "on" /\ notSelfHost(w.val) # Nothing THEN "on" ELSE "off"
    BY <2>1 DEF proxyCapture, Value
  <2>3. notSelfHost(w.val) = w.val \/ notSelfHost(w.val) = "none"
    BY <2>1 DEF notSelfHost
  <2>4. ~Ours("none")
    BY <1>2 DEF Ours, Proxies
  <2>5. ~Ours(Capture(w).val)
    BY <1>1, <1>2, <2>2, <2>3, <2>4
  <2> QED BY <1>2, <2>1, <2>2, <2>5 DEF Noted, Proxies
<1>3. CASE kind = "env"
  <2>1. Capture(w) = IF notSelfHost(w.val) = "none" THEN Value("none", "-") ELSE w
    BY <1>3 DEF Capture, Proxies, envCapture, isSelfValue, Nothing
  <2>2. ~Ours("none")
    BY <1>3 DEF Ours
  <2>3. w.state = "-"
    BY <1>0, <1>3 DEF Plain
  <2> HIDE DEF w
  <2>4. CASE notSelfHost(w.val) = "none"
    <3>1. Capture(w).val = "none" /\ Capture(w).state = "-"
      BY <2>1, <2>4 DEF Value
    <3> QED BY <1>3, <2>2, <3>1 DEF Noted, Proxies, w
  <2>5. CASE notSelfHost(w.val) # "none"
    <3>1. Capture(w) = w /\ ~Ours(w.val)
      BY <1>1, <1>3, <2>1, <2>5
    <3> QED BY <1>3, <2>3, <3>1 DEF Noted, Proxies, w
  <2> QED BY <2>4, <2>5
<1>4. CASE kind = "dns"
  <2>1. w.val \in Seq(Addrs) /\ w.state = "-"
    BY <1>0, <1>4 DEF Entry, Vals, Plain
  <2>2. Capture(w).val = w.val /\ Capture(w).state = "-"
    BY <1>0, <1>4, <2>1, ServersAreKept DEF Capture, Proxies, dnsCapture, Value
  <2>3. ASSUME Ours(w.val) PROVE FALSE
    <3>1. before # "residue" /\ Settling
      BY <1>4, <2>3 DEF Ours, Proxies, Settling
    <3>2. w.val = target /\ pend = <<>>
      BY <1>0, <1>4, <2>3, <3>1 DEF Alone, canAdopt
    <3>3. InForce(s)
      BY <1>0, <1>4, <3>2, OwnListInForce DEF Target
    <3>4. Len(pend) = 0
      BY <3>2, NothingLeft
    <3> QED BY <3>1, <3>3, <3>4 DEF Owing, AnyInForce
  <2> QED BY <1>4, <2>2, <2>3 DEF Noted, Proxies
<1>5. CASE kind = "pacfile"
  <2>1. Capture(w) = IF w.val = "mine" THEN Value("none", "-") ELSE w
    BY <1>0, <1>5 DEF Capture, Proxies, pacFileCapture, Nothing, Target
  <2>2. \A v : Ours(v) <=> v = "mine"
    BY <1>5 DEF Ours, Proxies
  <2> QED BY <1>5, <2>1, <2>2 DEF Noted, Proxies, Value
<1>6. CASE kind \in {"route", "ifconfig"}
  <2>1. Capture(w) = Value("none", "-")
    BY <1>6 DEF Capture, Proxies, Nothing
  <2>2. \A v : Ours(v) <=> v = "mine"
    BY <1>6 DEF Ours, Proxies
  <2> QED BY <1>6, <2>1, <2>2 DEF Noted, Proxies, Value
<1> QED BY <1>0, <1>2, <1>3, <1>4, <1>5, <1>6 DEF Workload, Kinds, Proxies

LEMMA RecordsKept ==
    ASSUME Working, Facts, Owing, Course, Shape
    PROVE  Records'
<1>0. Records /\ Target
  BY DEF Facts, Working
<1>1. ASSUME NEW adopted \in BOOLEAN, Writes(adopted) PROVE Sound(NewRecord(adopted))
  <2>1. pc = "prepare" /\ (adopted => canAdopt)
    BY <1>1 DEF Writes
  <2>2. /\ NewRecord(adopted).adopted = adopted /\ NewRecord(adopted).target = target
        /\ \A s \in Slots : NewRecord(adopted).prev[s] = Capture(world[s])
    BY DEF NewRecord
  <2>3. \A s \in Slots : Noted(Capture(world[s]))
    BY <2>1, CaptureIsSound
  <2>4. canAdopt => target = "mine"
    BY <1>0 DEF Target, canAdopt
  <2> QED BY <2>1, <2>2, <2>3, <2>4 DEF Sound
<1>2. ASSUME NEW i \in 1..Len(pend') PROVE Sound(pend'[i])
  BY <1>0, <1>1, JournalIs DEF Records
<1>3. \A r : Sound(r)' = Sound(r)
  BY SameSense
<1> QED BY <1>2, <1>3 DEF Records

LEMMA UsersKept ==
    ASSUME Working, Facts, Course, Shape
    PROVE  Users'
<1>1. ASSUME NEW s \in Slots PROVE orig'[s] \in UserStart
  <2>1. orig[s] \in UserStart
    BY DEF Facts, Users
  <2>2. orig'[s] = orig[s] \/ Overrun(s)
    BY SettingIs DEF Untouched, Commanded, Vanished, Chosen
  <2>3. ASSUME Overrun(s) PROVE orig'[s] \in UserStart
    <3>1. kind = "route" /\ orig'[s] = [orig[s] EXCEPT !.val = "foreign"]
      BY <2>3 DEF Overrun
    <3>2. UserStart = {Value(v, "-") : v \in {"none", "foreign", "twin"}}
      BY <3>1 DEF UserStart, Proxies
    <3>3. orig'[s] = Value("foreign", "-")
      BY <2>1, <3>1, <3>2 DEF Value
    <3> QED BY <3>2, <3>3
  <2> QED BY <2>1, <2>2, <2>3
<1> QED BY <1>1, SameSense DEF Users

\* What a command puts, when it puts a value.
LEMMA ValuePut ==
    ASSUME Working, Records, NEW s \in Slots, Commanded(s), "val" \in DOMAIN todo[1].put
    PROVE  /\ pc = "apply" => world'[s].val = target
           /\ pc = "revert" /\ canAdopt => world'[s].val = "none"
           /\ pc = "revert" /\ ~canAdopt =>
                 /\ ~Ours(world'[s].val)
                 /\ world'[s].val = pend[job].prev[s].val
                    \/ (kind = "pacfile" /\ world'[s].val = "torn")
<1>1. world'[s].val = todo[1].put.val /\ 1 \in 1..Len(todo) /\ todo[1].slot = s
  BY DEF Commanded
<1>2. pc = "apply" => world'[s].val = target
  BY <1>1 DEF Working, Puttings, OwnCommand
<1>3. ASSUME pc = "revert"
      PROVE  PutsBack(todo[1], pend[job]) /\ job \in 1..Len(pend)
  BY <1>1, <1>3 DEF Working, Puttings, Control
<1>4. ASSUME pc = "revert", ~canAdopt
      PROVE  /\ ~Ours(world'[s].val)
             /\ world'[s].val = pend[job].prev[s].val
                \/ (kind = "pacfile" /\ world'[s].val = "torn")
  <2>1. world'[s].val = pend[job].prev[s].val
        \/ (kind = "pacfile" /\ world'[s].val = "torn")
    BY <1>1, <1>3, <1>4 DEF PutsBack
  <2>2. ~Ours(pend[job].prev[s].val)
    BY <1>3, <1>4 DEF Records, Sound, Noted
  <2>3. kind = "pacfile" => ~Ours("torn")
    BY DEF Ours, Proxies
  <2> QED BY <2>1, <2>2, <2>3
<1>5. pc = "revert" /\ canAdopt => world'[s].val = "none"
  BY <1>1, <1>3 DEF PutsBack
<1> QED BY <1>2, <1>4, <1>5

\* Only a setting that has a switch of its own has its switch put.
LEMMA StatePut ==
    ASSUME Working, NEW s \in Slots, Commanded(s),
           kind \in {"dns", "env", "route", "ifconfig"}
    PROVE  world'[s].state = world[s].state
<1>1. 1 \in 1..Len(todo) /\ pc \in {"apply", "revert"}
      /\ world'[s].state = IF "state" \in DOMAIN todo[1].put THEN todo[1].put.state
                           ELSE world[s].state
  BY DEF Commanded
<1>2. "state" \notin DOMAIN todo[1].put
  BY <1>1 DEF Working, Puttings, OwnCommand, PutsBack
<1> QED BY <1>1, <1>2

LEMMA PlainKept ==
    ASSUME Working, Facts, Course, Shape
    PROVE  Plain'
<1>1. ASSUME kind \in {"dns", "env"}, NEW s \in Slots PROVE world'[s].state = "-"
  <2>1. world[s].state = "-" /\ Workload
    BY <1>1 DEF Facts, Plain, Working, TypeInv
  <2>2. CASE Untouched(s)
    BY <2>1, <2>2 DEF Untouched
  <2>3. CASE Commanded(s)
    BY <1>1, <2>1, <2>3, StatePut
  <2>4. CASE Chosen(s)
    BY <1>1, <2>1, <2>4, ChoiceIs DEF Chosen
  <2>5. ~Vanished(s) /\ ~Overrun(s)
    BY <1>1 DEF Vanished, Overrun, canAdopt
  <2> QED BY <2>2, <2>3, <2>4, <2>5, SettingIs
<1> QED BY <1>1, SameSense DEF Plain

LEMMA PrepareIs ==
    ASSUME Working, Course, Shape, pc' = "prepare"
    PROVE  pc = "prepare" /\ pend' = pend /\ (Still \/ Outside)
<1>1. TypeInv
  BY DEF Working
<1>2. ~Issues /\ ~Vanish
  BY <1>1, CommandStep DEF Vanish
<1>3. ~(\E adopted \in BOOLEAN : Writes(adopted)) /\ ~(\E j \in 1..Len(pend) : Strikes(j))
      /\ ~(\E j \in 1..Len(pend), sees \in BOOLEAN : Starts(j, sees))
  BY DEF Writes, Strikes, Starts
<1>4. CASE Rests
  BY <1>4 DEF Rests
<1>5. CASE Outside
  BY <1>1, <1>5, OutsideStep
<1> QED BY <1>2, <1>3, <1>4, <1>5 DEF Shape

LEMMA FreshKept ==
    ASSUME Working, Facts, Course, Shape
    PROVE  Fresh'
<1> SUFFICES ASSUME pc' = "prepare"
             PROVE  /\ before = "residue" => pend' # <<>>
                    /\ \A s \in Slots : s \in changed' \/ world'[s] = orig'[s] \/ before = "residue"
  BY SameSense DEF Fresh
<1>1. Fresh /\ pc = "prepare" /\ pend' = pend
  BY PrepareIs DEF Facts
<1>2. ASSUME NEW s \in Slots
      PROVE  s \in changed' \/ world'[s] = orig'[s] \/ before = "residue"
  <2>1. s \in changed \/ world[s] = orig[s] \/ before = "residue"
    BY <1>1 DEF Fresh
  <2>2. ~Commanded(s) /\ ~Vanished(s)
    BY <1>1 DEF Commanded, Vanished
  <2>3. Untouched(s) \/ Overrun(s) \/ Chosen(s)
    BY <2>2, SettingIs
  <2>4. CASE s \in changed
    BY <2>4, SettingIs
  <2>5. CASE world[s] = orig[s]
    BY <2>3, <2>5 DEF Untouched, Overrun, Chosen
  <2> QED BY <2>1, <2>4, <2>5
<1> QED BY <1>1, <1>2 DEF Fresh

LEMMA LiedKept ==
    ASSUME Working, Course, Shape, before = "residue"
    PROVE  lied' = lied
<1>1. TypeInv
  BY DEF Working
<1>2. CASE Issues
  BY <1>1, <1>2, IssueIs DEF Issues, Apply, ApplyFails, Revert
<1>3. CASE Vanish \/ Outside
  BY <1>1, <1>3, OutsideStep
<1> QED BY <1>2, <1>3 DEF Shape, Writes, Strikes, Starts, Rests

LEMMA AloneKept ==
    ASSUME Working, Facts, Owing, Course, Shape
    PROVE  Alone'
<1>0. TypeInv /\ Target /\ Alone /\ Records /\ Workload /\ Len(pend) \in Nat
  BY LenProperties DEF Working, Facts, TypeInv
<1>1. CASE before = "residue"
  BY <1>0, <1>1, LiedKept, SameSense DEF Alone
<1>2. CASE before # "residue"
  <2>1. Len(pend') <= 1
    <3>1. ASSUME NEW adopted \in BOOLEAN, Writes(adopted) PROVE Len(pend') <= 1
      <4>1. pend = <<>>
        BY <1>0, <1>2, <3>1 DEF Alone, Writes
      <4>2. Len(pend) = 0 /\ Len(pend') = Len(pend) + 1
        BY <1>0, <3>1, <4>1, AppendIs, NothingLeft
      <4> QED BY <4>2
    <3>2. ASSUME NEW j \in 1..Len(pend), Strikes(j) PROVE Len(pend') <= 1
      BY <1>0, <1>2, <3>2, DropIs DEF Alone
    <3>3. ASSUME Issues \/ Rests \/ Vanish \/ Outside
                    \/ \E j \in 1..Len(pend), sees \in BOOLEAN : Starts(j, sees)
          PROVE  pend' = pend
      BY <1>0, <3>3, CommandStep, OutsideStep DEF Rests, Starts
    <3> QED BY <1>0, <1>2, <3>1, <3>2, <3>3 DEF Shape, Alone
  <2>2. pc' = "prepare" => pend' = <<>>
    BY <1>0, <1>2, PrepareIs DEF Alone
  <2>3. ASSUME NEW i \in 1..Len(pend') PROVE pend'[i].target = target
    <3>1. \A adopted : NewRecord(adopted).target = target
      BY DEF NewRecord
    <3> QED BY <1>0, <1>2, <3>1, JournalIs DEF Alone
  <2>4. ASSUME ~canAdopt, NEW s \in Slots, Ours(world'[s].val) PROVE world'[s].val = target
    <3>1. Ours(world[s].val) => world[s].val = target
      BY <1>0, <1>2, <2>4 DEF Alone
    <3>2. CASE Untouched(s)
      BY <2>4, <3>1, <3>2 DEF Untouched
    <3>3. CASE Commanded(s)
      <4>1. CASE "val" \in DOMAIN todo[1].put
        BY <1>0, <2>4, <3>3, <4>1, ValuePut DEF Commanded
      <4>2. CASE "val" \notin DOMAIN todo[1].put
        <5>1. world'[s].val = world[s].val
          BY <3>3, <4>2 DEF Commanded
        <5> QED BY <2>4, <3>1, <5>1
      <4> QED BY <4>1, <4>2
    <3>4. CASE Chosen(s)
      BY <1>0, <2>4, <3>4, ChoiceIs DEF Chosen
    <3>5. ~Vanished(s) /\ ~Overrun(s)
      BY <2>4 DEF Vanished, Overrun, canAdopt
    <3> QED BY <3>2, <3>3, <3>4, <3>5, SettingIs
  <2> QED BY <1>2, <2>1, <2>2, <2>3, <2>4, SameSense DEF Alone
<1> QED BY <1>1, <1>2

LEMMA FactsKept ==
    ASSUME Working, Facts, Owing, [Next]_vars
    PROVE  Facts'
BY StepShape, RecordsKept, UsersKept, PlainKept, FreshKept, AloneKept DEF Facts

-----------------------------------------------------------------------------
(* What is in force is owed.                                               *)

\* What is in force is ours.
LEMMA ForceIsOurs ==
    ASSUME TypeInv, Settling, NEW s \in Slots, InForce(s)
    PROVE  Ours(world[s].val)
<1>1. CASE kind = "dns"
  <2>1. world[s].val \in Seq(Addrs) /\ before # "residue"
        /\ world[s].val # <<>> /\ Head(world[s].val) = "tun"
    BY <1>1 DEF TypeInv, Entry, Vals, Settling, InForce, Proxies
  <2>2. Len(world[s].val) \in Nat \ {0} /\ world[s].val[1] = "tun"
    BY <2>1, EmptySeq
  <2>3. 1 \in 1..Len(world[s].val)
    BY <2>2
  <2> QED BY <1>1, <2>1, <2>2, <2>3 DEF Ours, Proxies
<1>2. CASE kind # "dns"
  BY <1>2 DEF InForce, Ours, Proxies
<1> QED BY <1>1, <1>2

\* Neither the user nor another tunnel, nor the end of one, puts anything in force.
LEMMA NoForceFromOutside ==
    ASSUME Working, Course, Shape, NEW s \in Slots, InForce(s)',
           Untouched(s) \/ Vanished(s) \/ Overrun(s) \/ Chosen(s)
    PROVE  InForce(s)
<1>0. Workload /\ kind' = kind
  BY SameSense DEF Working, TypeInv
<1>1. CASE Untouched(s)
  BY <1>0, <1>1 DEF Untouched, InForce
<1>2. CASE Vanished(s)
  BY <1>0, <1>2 DEF Vanished, InForce, canAdopt, Proxies
<1>3. CASE Overrun(s)
  <2>1. world'[s].val = "foreign" \/ world'[s].val = world[s].val
    BY <1>3 DEF Overrun
  <2> QED BY <1>0, <1>3, <2>1 DEF Overrun, InForce, Proxies
<1>4. CASE Chosen(s)
  <2>1. world'[s].val = IF kind = "dns" THEN <<"isp">> ELSE "user"
    BY <1>0, <1>4, ChoiceIs DEF Chosen
  <2>2. Head(<<"isp">>) = "isp"
    OBVIOUS
  <2> QED BY <1>0, <1>4, <2>1, <2>2 DEF InForce, Proxies, Chosen, canAdopt, Workload, Kinds
<1> QED BY <1>1, <1>2, <1>3, <1>4

\* A Revert that finds its record's setting gone, and nothing else the matter,
\* has left nothing in force.
LEMMA ClosedIsClear ==
    ASSUME Working, Facts, Sweep, Settling,
           pc = "revert", todo = <<>>, ~err, VerifyReverted(pend[job])
    PROVE  ~AnyInForce
<1> SUFFICES ASSUME NEW s \in Slots, InForce(s) PROVE FALSE
  BY DEF AnyInForce
<1>0. /\ TypeInv /\ Workload /\ Target /\ Records /\ Alone /\ job \in 1..Len(pend)
      /\ pend[job] \in Record /\ world[s] \in Entry
  BY ElementOfSeq DEF Working, Facts, TypeInv, Control
<1>1. pend[job].slots = SlotSeq /\ ToSet(pend[job].slots) = Slots
  BY <1>0 DEF Record, Slots
<1>2. Ours(world[s].val)
  BY <1>0, ForceIsOurs
<1>3. CASE canAdopt
  <2>1. pend[job].target = "mine" /\ world[s].val = "mine"
    BY <1>0, <1>2, <1>3 DEF Records, Sound, Ours, canAdopt, Proxies
  <2> QED BY <1>1, <1>3, <2>1 DEF VerifyReverted, canAdopt, Proxies, routeVerifyReverted,
                                  ifconfigVerifyReverted, matchRoute
<1>4. CASE ~canAdopt /\ lied
  <2>1. before # "residue"
    BY <1>0, <1>4 DEF Alone
  <2>2. world[s].val = target /\ pend[job].target = target
    BY <1>0, <1>2, <1>4, <2>1 DEF Alone
  <2>3. CASE kind \in Proxies
    <3>1. world[s] = Value(target, "on")
      BY <1>0, <2>2, <2>3 DEF InForce, Value, Entry, Proxies
    <3> QED BY <1>1, <2>2, <2>3, <3>1 DEF VerifyReverted, Proxies, proxyVerifyReverted, checkProxyPair
  <2>4. CASE kind = "dns"
    <3>1. ~IsPrefix(target, world[s].val)
      BY <1>1, <2>2, <2>4 DEF VerifyReverted, Proxies, dnsVerifyReverted
    <3>2. Len(target) \in Nat
      BY <2>4, LenProperties DEF Working, Target, OwnList
    <3> QED BY <2>2, <3>1, <3>2 DEF IsPrefix
  <2>5. CASE kind \in {"env", "pacfile"}
    BY <1>1, <2>2, <2>5 DEF VerifyReverted, Proxies, envVerifyReverted, pacFileVerifyReverted
  <2> QED BY <1>0, <1>4, <2>3, <2>4, <2>5 DEF Workload, Kinds, Proxies, canAdopt
<1>5. CASE ~canAdopt /\ ~lied
  <2>1. ValueComes(s) /\ StateComes(s)
    BY <1>5 DEF Sweep
  <2>2. \A f, x : ~Pending(s, f, x)
    BY NothingLeft DEF Pending
  <2>3. world[s].val = Before(s).val \/ Theirs(s) \/ Kept(s)
    BY <2>1, <2>2 DEF ValueComes
  <2>4. world[s].state = Before(s).state \/ Theirs(s)
    BY <2>1, <2>2 DEF StateComes
  <2>5. ~Theirs(s)
    BY <1>2 DEF Theirs
  <2>6. Noted(Before(s))
    BY <1>0 DEF Records, Sound, Before
  <2>7. world[s].val # Before(s).val
    BY <1>2, <2>6 DEF Noted
  <2>8. kind \in Proxies /\ Before(s).val = Nothing
    BY <2>3, <2>5, <2>7 DEF Kept
  <2>9. world[s].state = "off"
    BY <2>4, <2>5, <2>6, <2>8 DEF Noted
  <2> QED BY <2>8, <2>9 DEF InForce, Proxies
<1> QED BY <1>3, <1>4, <1>5

LEMMA OwingKept ==
    ASSUME Working, Facts, Payments, Course, Shape
    PROVE  Owing'
<1>0. TypeInv /\ Owing /\ RouteAdd /\ Sweep /\ Control /\ Len(pend) \in Nat /\ Target
  BY LenProperties DEF Working, Payments, TypeInv
<1>a. Settling' = Settling /\ Slots' = Slots
  BY SameSense DEF Settling
<1> SUFFICES ASSUME Settling, AnyInForce' PROVE \E i \in 1..Len(pend') : ~pend'[i].adopted
  BY <1>a DEF Owing
<1>1. PICK s \in Slots : InForce(s)'
  BY <1>a DEF AnyInForce
<1>2. ASSUME NEW adopted \in BOOLEAN, Writes(adopted)
      PROVE  \E i \in 1..Len(pend') : ~pend'[i].adopted
  <2>1. InForce(s)
    BY <1>1, <1>2, NoForceFromOutside DEF Writes, Still, Untouched
  <2>2. PICK i \in 1..Len(pend) : ~pend[i].adopted
    BY <1>0, <2>1 DEF Owing, AnyInForce
  <2>3. i \in 1..Len(pend') /\ pend'[i] = pend[i]
    BY <1>0, <1>2, AppendIs
  <2> QED BY <2>2, <2>3
<1>3. CASE Issues
  <2>1. pc \in {"apply", "revert"} /\ pend' = pend
    BY <1>0, <1>3, CommandStep
  <2>2. CASE pc = "apply"
    <3>1. Len(pend) \in 1..Len(pend)
      BY <1>0, <2>2, LastPlace DEF Control
    <3> QED BY <1>0, <2>1, <2>2, <3>1 DEF Control
  <2>3. CASE pc = "revert"
    BY <1>0, <2>1, <2>3 DEF Control
  <2> QED BY <2>1, <2>2, <2>3
<1>4. ASSUME NEW j \in 1..Len(pend), Strikes(j)
      PROVE  \E i \in 1..Len(pend') : ~pend'[i].adopted
  <2>1. AnyInForce
    BY <1>1, <1>4, NoForceFromOutside DEF Strikes, Still, Untouched, AnyInForce
  <2>2. PICK k \in 1..Len(pend) : ~pend[k].adopted /\ k # j
    <3>1. CASE pend[j].adopted
      BY <1>0, <2>1, <3>1 DEF Owing
    <3>2. CASE kind = "route" /\ ~added /\ pc = "rollback" /\ j = Len(pend)
      BY <1>0, <2>1, <3>2 DEF RouteAdd
    <3>3. CASE pc = "revert" /\ job = j /\ todo = <<>> /\ ~err /\ VerifyReverted(pend[j])
      BY <1>0, <2>1, <3>3, ClosedIsClear
    <3> QED BY <1>4, <3>1, <3>2, <3>3 DEF Strikes
  <2>3. /\ Len(pend') = Len(pend) - 1
        /\ \A i \in 1..Len(pend') : pend'[i] = IF i < j THEN pend[i] ELSE pend[i + 1]
    BY <1>0, <1>4, DropIs
  <2>4. CASE k < j
    <3>1. k \in 1..Len(pend') /\ pend'[k] = pend[k]
      BY <1>0, <2>3, <2>4
    <3> QED BY <2>2, <3>1
  <2>5. CASE ~(k < j)
    <3>1. k - 1 \in 1..Len(pend') /\ ~(k - 1 < j) /\ (k - 1) + 1 = k
      BY <1>0, <2>2, <2>3, <2>5
    <3> QED BY <2>2, <2>3, <3>1
  <2> QED BY <2>4, <2>5
<1>5. ASSUME ~Issues,
             Rests \/ Vanish \/ Outside
             \/ \E j \in 1..Len(pend), sees \in BOOLEAN : Starts(j, sees)
      PROVE  \E i \in 1..Len(pend') : ~pend'[i].adopted
  <2>1. pend' = pend
    BY <1>0, <1>5, OutsideStep DEF Rests, Starts
  <2>2. ~Commanded(s)
    BY <1>5 DEF Commanded
  <2>3. InForce(s)
    BY <1>1, <2>2, SettingIs, NoForceFromOutside
  <2> QED BY <1>0, <2>1, <2>3 DEF Owing, AnyInForce
<1> QED BY <1>2, <1>3, <1>4, <1>5 DEF Shape

LEMMA RouteAddKept ==
    ASSUME Working, Facts, Payments, Course, Shape
    PROVE  RouteAdd'
<1>0. TypeInv /\ Owing /\ RouteAdd /\ Control /\ Len(pend) \in Nat /\ Target
  BY LenProperties DEF Working, Payments, TypeInv
<1>a. kind' = kind /\ Slots' = Slots
  BY SameSense
<1> SUFFICES ASSUME kind = "route", pc' \in {"apply", "rollback"}, ~added', AnyInForce'
             PROVE  \E i \in 1..Len(pend') : i < Len(pend') /\ ~pend'[i].adopted
  BY <1>a DEF RouteAdd
<1>1. PICK s \in Slots : InForce(s)'
  BY <1>a DEF AnyInForce
<1>2. ASSUME NEW adopted \in BOOLEAN, Writes(adopted)
      PROVE  \E i \in 1..Len(pend') : i < Len(pend') /\ ~pend'[i].adopted
  <2>1. AnyInForce
    BY <1>1, <1>2, NoForceFromOutside DEF Writes, Still, Untouched, AnyInForce
  <2>2. PICK i \in 1..Len(pend) : ~pend[i].adopted
    BY <1>0, <2>1 DEF Owing, Settling
  <2>3. i \in 1..Len(pend') /\ i < Len(pend') /\ pend'[i] = pend[i]
    BY <1>0, <1>2, AppendIs
  <2> QED BY <2>2, <2>3
<1>3. CASE Issues
  <2>1. CASE Apply
    BY <2>1 DEF Apply
  <2>2. CASE ApplyFails
    <3>1. world' = world /\ pc = "apply" /\ added' = added /\ pend' = pend
      BY <1>0, <2>2, IssueIs DEF ApplyFails, Fails
    <3>2. InForce(s)
      BY <1>1, <1>a, <3>1 DEF InForce
    <3> QED BY <1>0, <3>1, <3>2 DEF RouteAdd, AnyInForce
  <2>3. CASE Revert
    BY <2>3 DEF Revert
  <2> QED BY <1>3, <2>1, <2>2, <2>3 DEF Issues
<1>4. ASSUME Rests \/ Vanish \/ Outside
      PROVE  \E i \in 1..Len(pend') : i < Len(pend') /\ ~pend'[i].adopted
  <2>1. pend' = pend /\ added' = added /\ pc \in {"apply", "rollback"}
    BY <1>0, <1>4, OutsideStep DEF Rests
  <2>2. CASE Issues
    BY <1>3, <2>2
  <2>3. CASE ~Issues
    <3>1. ~Commanded(s)
      BY <2>3 DEF Commanded
    <3>2. InForce(s)
      BY <1>1, <3>1, SettingIs, NoForceFromOutside
    <3> QED BY <1>0, <2>1, <3>2 DEF RouteAdd, AnyInForce
  <2> QED BY <2>2, <2>3
<1>5. /\ ~\E j \in 1..Len(pend) : Strikes(j)
      /\ ~\E j \in 1..Len(pend), sees \in BOOLEAN : Starts(j, sees)
  BY DEF Strikes, Starts
<1> QED BY <1>2, <1>3, <1>4, <1>5 DEF Shape

\* The last command of a Revert that touches a setting puts back what the record
\* says.
LEMMA PartCovers ==
    ASSUME Workload, NEW s \in Slots, NEW r \in Record, Sound(r), NEW sees \in BOOLEAN, ~canAdopt,
           NEW f \in {"val", "state"}, kind \in {"dns", "env"} => f = "val"
    PROVE  LET P == PartOf(r, s, sees)
           IN  /\ \E c \in 1..Len(P) : f \in DOMAIN P[c].put
               /\ \A c \in 1..Len(P) :
                    f \in DOMAIN P[c].put
                    /\ (\A d \in 1..Len(P) : d > c => f \notin DOMAIN P[d].put)
                    => P[c].put[f] = r.prev[s][f] /\ (f = "state" => ~P[c].soft)
<1> DEFINE P == PartOf(r, s, sees)
           p == r.prev[s]
<1>0. Noted(p) /\ p["val"] = p.val /\ p["state"] = p.state
  BY DEF Sound
<1>1. CASE kind \in Proxies
  <2>1. P = IF p.val = Nothing THEN <<Tidy(s), SetState(s, "off")>>
            ELSE <<SetValue(s, p.val), SetState(s, p.state)>>
    BY <1>1 DEF PartOf, Proxies, revertCmds
  <2>2. p.val = Nothing => p.state = "off"
    BY <1>0, <1>1 DEF Noted
  <2>3. \A x, y : Len(<<x, y>>) = 2 /\ <<x, y>>[1] = x /\ <<x, y>>[2] = y
    OBVIOUS
  <2>4. /\ DOMAIN SetState(s, p.state).put = {"state"} /\ ~SetState(s, p.state).soft
        /\ SetState(s, p.state).put["state"] = p.state
        /\ DOMAIN SetValue(s, p.val).put = {"val", "state"}
        /\ SetValue(s, p.val).put["val"] = p.val
        /\ DOMAIN Tidy(s).put = {"val", "state"} /\ Tidy(s).put["val"] = Nothing
    BY DEF SetState, SetValue, Tidy
  <2> HIDE DEF P, p
  <2>5. PICK x \in {Tidy(s), SetValue(s, p.val)} :
          /\ P = <<x, SetState(s, p.state)>> /\ DOMAIN x.put = {"val", "state"}
          /\ x.put["val"] = p.val
    BY <2>1, <2>2, <2>4
  <2>6. Len(P) = 2 /\ P[1] = x /\ P[2] = SetState(s, p.state)
    BY <2>3, <2>5
  <2>7. \A c \in 1..2 : c = 1 \/ c = 2
    OBVIOUS
  <2>8. CASE f = "val"
    <3>1. f \in DOMAIN P[1].put /\ P[1].put[f] = p["val"]
      BY <1>0, <2>5, <2>6, <2>8
    <3>2. f \notin DOMAIN P[2].put
      BY <2>4, <2>6, <2>8
    <3>3. \A c \in 1..2 : f \in DOMAIN P[c].put => P[c].put[f] = p[f]
      BY <2>7, <2>8, <3>1, <3>2
    <3> QED BY <2>6, <2>8, <3>1, <3>3 DEF P, p
  <2>9. CASE f = "state"
    <3>1. \A c \in 1..2 : f \in DOMAIN P[c].put
      BY <2>4, <2>5, <2>6, <2>7, <2>9
    <3>2. 2 \in 1..2 /\ 2 > 1
      OBVIOUS
    <3> QED BY <1>0, <2>4, <2>6, <2>7, <2>9, <3>1, <3>2 DEF P, p
  <2> QED BY <2>8, <2>9
<1>2. CASE kind \in {"dns", "env"}
  <2>1. P = <<SetOnly(s, p.val)>>
    BY <1>2 DEF PartOf, Proxies, dnsRevert, envRevert
  <2>2. DOMAIN SetOnly(s, p.val).put = {"val"} /\ SetOnly(s, p.val).put["val"] = p.val
    BY DEF SetOnly
  <2> HIDE DEF P, p
  <2>3. Len(P) = 1 /\ P[1] = SetOnly(s, p.val) /\ \A c \in 1..1 : c = 1
    BY <2>1, OneElement
  <2> QED BY <1>0, <1>2, <2>2, <2>3 DEF P, p
<1>3. CASE kind = "pacfile"
  <2> DEFINE whole == [slot |-> s, put |-> p, soft |-> FALSE]
  <2>1. P = IF p.val = Nothing THEN <<whole>>
            ELSE <<SetOnly(s, "torn"), SetOnly(s, p.val), SetState(s, p.state)>>
    BY <1>3 DEF PartOf, Proxies, pacFileRevert
  <2>2. p \in Entry
    BY DEF Record
  <2>3. /\ DOMAIN SetState(s, p.state).put = {"state"} /\ ~SetState(s, p.state).soft
        /\ SetState(s, p.state).put["state"] = p.state
        /\ DOMAIN SetOnly(s, "torn").put = {"val"}
        /\ DOMAIN SetOnly(s, p.val).put = {"val"} /\ SetOnly(s, p.val).put["val"] = p.val
        /\ DOMAIN whole.put = {"val", "state"} /\ whole.put = p /\ ~whole.soft
    BY <2>2 DEF SetState, SetOnly, Entry
  <2> HIDE DEF P, p, whole
  <2>4. CASE p.val = Nothing
    <3>1. P = <<whole>>
      BY <2>1, <2>4
    <3>2. Len(P) = 1 /\ P[1] = whole /\ \A c \in 1..1 : c = 1
      BY <3>1, OneElement
    <3> QED BY <1>0, <2>3, <3>2 DEF P, p
  <2>5. CASE p.val # Nothing
    <3>1. P = <<SetOnly(s, "torn"), SetOnly(s, p.val), SetState(s, p.state)>>
      BY <2>1, <2>5
    <3>2. Len(P) = 3 /\ P[1] = SetOnly(s, "torn") /\ P[2] = SetOnly(s, p.val)
          /\ P[3] = SetState(s, p.state)
      BY <3>1
    <3>3. /\ \A c \in 1..3 : c = 1 \/ c = 2 \/ c = 3
          /\ 2 \in 1..3 /\ 3 \in 1..3 /\ 2 > 1 /\ 3 > 2 /\ 3 > 1
      OBVIOUS
    <3>4. CASE f = "val"
      <4>1. f \in DOMAIN P[2].put /\ P[2].put[f] = p.val /\ f \notin DOMAIN P[3].put
        BY <2>3, <3>2, <3>4
      <4> QED BY <1>0, <3>2, <3>3, <3>4, <4>1 DEF P, p
    <3>5. CASE f = "state"
      <4>1. f \in DOMAIN P[3].put /\ P[3].put[f] = p.state /\ ~P[3].soft
            /\ f \notin DOMAIN P[1].put /\ f \notin DOMAIN P[2].put
        BY <2>3, <3>2, <3>5
      <4> QED BY <1>0, <3>2, <3>3, <3>5, <4>1 DEF P, p
    <3> QED BY <3>4, <3>5
  <2> QED BY <2>4, <2>5
<1> QED BY <1>1, <1>2, <1>3 DEF Workload, Kinds, Proxies, canAdopt

LEMMA RevertCovers ==
    ASSUME Workload, NEW s \in Slots, NEW r \in Record, Sound(r), NEW sees \in BOOLEAN, ~canAdopt,
           NEW f \in {"val", "state"}, kind \in {"dns", "env"} => f = "val"
    PROVE  LET R == RevertCmds(r, sees)
           IN  \E q \in 1..Len(R) :
                  /\ Touches(R[q], s, f) /\ R[q].put[f] = r.prev[s][f]
                  /\ f = "state" => ~R[q].soft
                  /\ \A k \in 1..Len(R) : k > q => ~Touches(R[k], s, f)
<1> DEFINE R == RevertCmds(r, sees)
           Q == {q \in 1..Len(R) : Touches(R[q], s, f)}
           P(t) == PartOf(r, t, sees)
<1>1. Len(R) \in Nat
  BY RevertPutsBack
<1>2. \A t \in Slots : \A c \in 1..Len(P(t)) : P(t)[c].slot = t
  BY PartIs
<1>3. \A t \in Slots : Len(P(t)) \in Nat
  BY PartTyped, LenProperties
<1>4. \E start \in Nat : \A c \in 1..Len(P(s)) :
         start + c \in 1..Len(R) /\ R[start + c] = P(s)[c]
  <2>1. \A t \in Slots : \E start \in Nat : \A c \in 1..Len(P(t)) :
           start + c \in 1..Len(R) /\ R[start + c] = P(t)[c]
    BY RevertBlocks
  <2> QED BY <2>1
<1>5. \A q \in 1..Len(R) : \E t \in Slots, start \in Nat :
         /\ \A c \in 1..Len(P(t)) : start + c \in 1..Len(R) /\ R[start + c] = P(t)[c]
         /\ \E c \in 1..Len(P(t)) : q = start + c
  BY RevertBlocks
<1>6. /\ \E c \in 1..Len(P(s)) : f \in DOMAIN P(s)[c].put
      /\ \A c \in 1..Len(P(s)) :
            f \in DOMAIN P(s)[c].put
            /\ (\A d \in 1..Len(P(s)) : d > c => f \notin DOMAIN P(s)[d].put)
            => P(s)[c].put[f] = r.prev[s][f] /\ (f = "state" => ~P(s)[c].soft)
  BY PartCovers
<1> HIDE DEF R, P
<1>7. Q # {} /\ Q \in SUBSET (1..Len(R))
  <2>1. PICK start \in Nat : \A c \in 1..Len(P(s)) :
           start + c \in 1..Len(R) /\ R[start + c] = P(s)[c]
    BY <1>4
  <2>2. PICK c \in 1..Len(P(s)) : f \in DOMAIN P(s)[c].put
    BY <1>6
  <2>3. start + c \in Q
    BY <1>2, <2>1, <2>2 DEF Touches
  <2> QED BY <2>3
<1>8. PICK q \in Q : \A k \in Q : k <= q
  <2> HIDE DEF Q
  <2> QED BY <1>1, <1>7, GreatestOf
<1>9. q \in 1..Len(R) /\ Touches(R[q], s, f)
  OBVIOUS
<1>10. ASSUME NEW k \in 1..Len(R), k > q PROVE ~Touches(R[k], s, f)
  <2>1. ~(k <= q)
    BY <1>1, <1>9, <1>10
  <2> QED BY <1>8, <2>1
<1>11. PICK t \in Slots, start \in Nat :
         /\ \A c \in 1..Len(P(t)) : start + c \in 1..Len(R) /\ R[start + c] = P(t)[c]
         /\ \E c \in 1..Len(P(t)) : q = start + c
  BY <1>5, <1>9
<1>12. PICK c \in 1..Len(P(t)) : q = start + c
  BY <1>11
<1>13. R[q] = P(t)[c] /\ t = s
  BY <1>2, <1>9, <1>11, <1>12 DEF Touches
<1>14. ASSUME NEW d \in 1..Len(P(s)), d > c PROVE f \notin DOMAIN P(s)[d].put
  <2>1. start + d \in 1..Len(R) /\ start + d > q /\ R[start + d] = P(s)[d]
    BY <1>3, <1>11, <1>12, <1>13, <1>14
  <2>2. ~Touches(R[start + d], s, f) /\ P(s)[d].slot = s
    BY <1>2, <1>10, <2>1
  <2> QED BY <2>1, <2>2 DEF Touches
<1>15. R[q].put[f] = r.prev[s][f] /\ (f = "state" => ~R[q].soft)
  BY <1>6, <1>9, <1>13, <1>14 DEF Touches
<1> QED BY <1>9, <1>10, <1>15 DEF R

\* A command less to issue.
LEMMA PendingShift ==
    ASSUME TypeInv, todo # <<>>, todo' = Tail(todo), NEW s, NEW f, NEW x, Pending(s, f, x)
    PROVE  \/ Pending(s, f, x)'
           \/ /\ Touches(todo[1], s, f) /\ todo[1].put[f] = x
              /\ f = "state" => ~todo[1].soft
              /\ Quiet(s, f)'
<1>1. /\ Len(todo') = Len(todo) - 1 /\ Len(todo) \in Nat
      /\ \A i \in 1..Len(todo') : i + 1 \in 1..Len(todo) /\ todo'[i] = todo[i + 1]
  BY TodoIs
<1>2. PICK i \in 1..Len(todo) :
        /\ Touches(todo[i], s, f) /\ todo[i].put[f] = x
        /\ f = "state" => ~todo[i].soft
        /\ \A k \in 1..Len(todo) : k > i => ~Touches(todo[k], s, f)
  BY DEF Pending
<1>3. CASE i = 1
  <2>1. \A k \in 1..Len(todo') : ~Touches(todo'[k], s, f)
    <3>1. \A k \in 1..Len(todo') : k + 1 > 1
      BY <1>1
    <3> QED BY <1>1, <1>2, <1>3, <3>1
  <2> QED BY <1>2, <1>3, <2>1 DEF Quiet
<1>4. CASE i # 1
  <2>1. i - 1 \in 1..Len(todo') /\ (i - 1) + 1 = i
    BY <1>1, <1>4
  <2>2. \A k \in 1..Len(todo') : k > i - 1 => ~Touches(todo'[k], s, f)
    <3>1. \A k \in 1..Len(todo') : k > i - 1 => k + 1 > i
      BY <1>1
    <3> QED BY <1>1, <1>2, <3>1
  <2>3. todo'[i - 1] = todo[i]
    BY <1>1, <2>1
  <2>4. \E q \in 1..Len(todo') :
          /\ Touches(todo'[q], s, f) /\ todo'[q].put[f] = x
          /\ f = "state" => ~todo'[q].soft
          /\ \A k \in 1..Len(todo') : k > q => ~Touches(todo'[k], s, f)
    <3>1. PICK q \in 1..Len(todo') : q = i - 1
      BY <2>1
    <3> QED BY <1>2, <2>2, <2>3, <3>1
  <2>5. Pending(s, f, x)'
    BY <2>4 DEF Pending, Touches
  <2> QED BY <2>5
<1> QED BY <1>3, <1>4

LEMMA QuietShift ==
    ASSUME TypeInv, todo # <<>>, todo' = Tail(todo), NEW s, NEW f, Quiet(s, f)
    PROVE  Quiet(s, f)' /\ ~Touches(todo[1], s, f)
<1>1. /\ Len(todo') = Len(todo) - 1 /\ Len(todo) \in Nat /\ 1 \in 1..Len(todo)
      /\ \A i \in 1..Len(todo') : i + 1 \in 1..Len(todo) /\ todo'[i] = todo[i + 1]
  BY TodoIs
<1> QED BY <1>1 DEF Quiet

\* A Revert begins with every setting still to be put back.
LEMMA SweepStarts ==
    ASSUME Working, Facts, Course, NEW j \in 1..Len(pend), NEW sees \in BOOLEAN,
           Starts(j, sees), ~canAdopt, NEW s \in Slots
    PROVE  ValueComes(s)' /\ StateComes(s)'
<1> DEFINE r == pend[j]
           R == RevertCmds(r, sees)
<1>0. /\ Workload /\ r \in Record /\ Sound(r) /\ Noted(r.prev[s])
      /\ r.prev[s]["val"] = r.prev[s].val /\ r.prev[s]["state"] = r.prev[s].state
  BY ElementOfSeq DEF Working, Facts, TypeInv, Records, Sound
<1>1. todo' = R /\ world' = world /\ Before(s)' = r.prev[s] /\ changed' = changed
  BY DEF Starts, Still, Before
<1>2. \E q \in 1..Len(R) :
        /\ Touches(R[q], s, "val") /\ R[q].put["val"] = r.prev[s].val
        /\ \A k \in 1..Len(R) : k > q => ~Touches(R[k], s, "val")
  BY <1>0, RevertCovers
<1>3. CASE kind \notin {"dns", "env"}
  <2>1. \E q \in 1..Len(R) :
          /\ Touches(R[q], s, "state") /\ R[q].put["state"] = r.prev[s].state /\ ~R[q].soft
          /\ \A k \in 1..Len(R) : k > q => ~Touches(R[k], s, "state")
    BY <1>0, <1>3, RevertCovers
  <2> HIDE DEF R, r
  <2> QED BY <1>1, <1>2, <2>1 DEF ValueComes, StateComes, Pending
<1>4. CASE kind \in {"dns", "env"}
  <2>1. \A q \in 1..Len(R) : PutsBack(R[q], r)
    BY <1>0, RevertPutsBack
  <2>2. \A q \in 1..Len(R) : ~Touches(R[q], s, "state")
    BY <1>4, <2>1 DEF PutsBack, Touches
  <2>3. world'[s].state = r.prev[s].state
    BY <1>0, <1>1, <1>4 DEF Facts, Plain, Noted
  <2> HIDE DEF R, r
  <2> QED BY <1>1, <1>2, <2>2, <2>3 DEF ValueComes, StateComes, Pending, Quiet
<1> QED BY <1>3, <1>4

LEMMA SweepWorks ==
    ASSUME Working, Facts, Payments, Course, Shape, Revert, Works(todo[1]), todo' = Tail(todo),
           ~err, ~lied, ~canAdopt, NEW s \in Slots
    PROVE  ValueComes(s)' /\ StateComes(s)'
<1> DEFINE c == todo[1]
<1>0. /\ TypeInv /\ todo # <<>> /\ pc = "revert" /\ job' = job /\ pend' = pend
      /\ job \in 1..Len(pend) /\ Records /\ changed' = changed
  BY DEF Working, Facts, Revert, Control, hist
<1>1. ValueComes(s) /\ StateComes(s) /\ Before(s)' = Before(s)
  BY <1>0 DEF Payments, Sweep, Before
<1>2. /\ c \in Command /\ world' = Lands(c) /\ Issues
      /\ faults' = faults /\ kind' = kind /\ Nothing' = Nothing /\ refuses' = refuses
  BY <1>0, TodoIs, IssueIs, SameMachine DEF Issues, Course, env
<1>3. /\ c.slot = s /\ "val" \in DOMAIN c.put => world'[s].val = c.put.val
      /\ ~(c.slot = s /\ "val" \in DOMAIN c.put) => world'[s].val = world[s].val
      /\ c.slot = s /\ "state" \in DOMAIN c.put => world'[s].state = c.put.state
      /\ ~(c.slot = s /\ "state" \in DOMAIN c.put) => world'[s].state = world[s].state
  BY <1>0, <1>2, LandsIs DEF TypeInv
<1>4. Theirs(s) => Theirs(s)'
  <2>1. ~Ours(world[s].val) => ~Ours(world'[s].val)
    <3>1. CASE c.slot = s /\ "val" \in DOMAIN c.put
      <4>1. PutsBack(c, pend[job])
        BY <1>0, TodoIs DEF Working, Puttings
      <4>2. c.put.val = pend[job].prev[s].val \/ (kind = "pacfile" /\ c.put.val = "torn")
        BY <3>1, <4>1 DEF PutsBack
      <4>3. ~Ours(pend[job].prev[s].val) /\ (kind = "pacfile" => ~Ours("torn"))
        BY <1>0 DEF Records, Sound, Noted, Ours, Proxies
      <4> QED BY <1>3, <3>1, <4>2, <4>3
    <3>2. CASE ~(c.slot = s /\ "val" \in DOMAIN c.put)
      BY <1>3, <3>2
    <3> QED BY <3>1, <3>2
  <2> QED BY <1>0, <2>1, SameSense DEF Theirs
<1>5. ValueComes(s)'
  <2>1. PICK v : v = Before(s).val
    OBVIOUS
  <2>2. CASE Pending(s, "val", v)
    <3>1. \/ Pending(s, "val", v)'
          \/ Touches(c, s, "val") /\ c.put["val"] = v /\ Quiet(s, "val")'
      BY <1>0, <2>2, PendingShift
    <3>2. Touches(c, s, "val") /\ c.put["val"] = v => world'[s].val = v
      BY <1>3 DEF Touches
    <3> QED BY <1>1, <2>1, <3>1, <3>2 DEF ValueComes, Pending
  <2>3. CASE Quiet(s, "val") /\ (world[s].val = v \/ Theirs(s) \/ Kept(s))
    <3>1. Quiet(s, "val")' /\ ~Touches(c, s, "val")
      BY <1>0, <2>3, QuietShift
    <3>2. world'[s].val = world[s].val
      BY <1>3, <3>1 DEF Touches
    <3>3. Kept(s) => Kept(s)'
      BY <1>1, <1>2 DEF Kept
    <3> QED BY <1>1, <1>4, <2>1, <2>3, <3>1, <3>2, <3>3 DEF ValueComes
  <2> QED BY <1>1, <2>1, <2>2, <2>3 DEF ValueComes
<1>6. StateComes(s)'
  <2>1. PICK v : v = Before(s).state
    OBVIOUS
  <2>2. CASE Pending(s, "state", v)
    <3>1. \/ Pending(s, "state", v)'
          \/ Touches(c, s, "state") /\ c.put["state"] = v /\ Quiet(s, "state")'
      BY <1>0, <2>2, PendingShift
    <3>2. Touches(c, s, "state") /\ c.put["state"] = v => world'[s].state = v
      BY <1>3 DEF Touches
    <3> QED BY <1>1, <2>1, <3>1, <3>2 DEF StateComes, Pending
  <2>3. CASE Quiet(s, "state") /\ (world[s].state = v \/ Theirs(s))
    <3>1. Quiet(s, "state")' /\ ~Touches(c, s, "state")
      BY <1>0, <2>3, QuietShift
    <3>2. world'[s].state = world[s].state
      BY <1>3, <3>1 DEF Touches
    <3> QED BY <1>1, <1>4, <2>1, <2>3, <3>1, <3>2 DEF StateComes
  <2> QED BY <1>1, <2>1, <2>2, <2>3 DEF StateComes
<1> QED BY <1>5, <1>6

\* A tidying command that is refused leaves a value behind, and its switch to the
\* next.
LEMMA SweepTidies ==
    ASSUME Working, Facts, Payments, Course, Shape, Revert, Fails(todo[1]), todo[1].soft,
           todo' = Tail(todo), ~err, ~lied, ~canAdopt, NEW s \in Slots
    PROVE  ValueComes(s)' /\ StateComes(s)'
<1> DEFINE c == todo[1]
<1>0. /\ TypeInv /\ todo # <<>> /\ pc = "revert" /\ job' = job /\ pend' = pend
      /\ job \in 1..Len(pend) /\ Records /\ changed' = changed
  BY DEF Working, Facts, Revert, Control, hist
<1>1. ValueComes(s) /\ StateComes(s) /\ Before(s)' = Before(s)
  BY <1>0 DEF Payments, Sweep, Before
<1>2. /\ c \in Command /\ (world' = world \/ world' = Lands(c))
      /\ faults <= faults' /\ faults \in Nat /\ faults' \in Nat
      /\ kind' = kind /\ Nothing' = Nothing /\ refuses' = refuses
      /\ refuses \/ faults' > 0
  <2>1. ~Occupied(c)
    BY <1>0 DEF Occupied
  <2>2. c \in Command
    BY <1>0, TodoIs
  <2>3. (world' = world \/ world' = Lands(c)) /\ (refuses \/ faults' > 0)
    BY <1>0, <2>1, IssueIs
  <2>4. kind' = kind /\ Nothing' = Nothing /\ refuses' = refuses
    BY SameMachine DEF Course, env
  <2>5. faults <= faults' /\ faults \in Nat /\ faults' \in Nat
    BY <1>0 DEF Course, TypeInv
  <2> QED BY <2>2, <2>3, <2>4, <2>5
<1>3. /\ ~(c.slot = s /\ "val" \in DOMAIN c.put) => world'[s].val = world[s].val
      /\ ~(c.slot = s /\ "state" \in DOMAIN c.put) => world'[s].state = world[s].state
  BY <1>0, <1>2, LandsIs DEF TypeInv
<1>4. c.slot = s => kind \in Proxies /\ Before(s).val = Nothing
  <2>1. PutsBack(c, pend[job])
    BY <1>0, TodoIs DEF Working, Puttings
  <2> QED BY <2>1 DEF PutsBack, Before
<1>5. Theirs(s) => Theirs(s)'
  <2>1. ~Ours(world[s].val) => ~Ours(world'[s].val)
    <3>1. CASE c.slot = s /\ "val" \in DOMAIN c.put /\ world' = Lands(c)
      <4>1. PutsBack(c, pend[job])
        BY <1>0, TodoIs DEF Working, Puttings
      <4>2. c.put.val = pend[job].prev[s].val \/ (kind = "pacfile" /\ c.put.val = "torn")
        BY <3>1, <4>1 DEF PutsBack
      <4>3. ~Ours(pend[job].prev[s].val) /\ (kind = "pacfile" => ~Ours("torn"))
        BY <1>0 DEF Records, Sound, Noted, Ours, Proxies
      <4>4. world'[s].val = c.put.val
        BY <1>0, <1>2, <3>1, LandsIs DEF TypeInv
      <4> QED BY <3>1, <4>2, <4>3, <4>4
    <3>2. CASE ~(c.slot = s /\ "val" \in DOMAIN c.put) \/ world' = world
      BY <1>3, <3>2
    <3> QED BY <1>2, <3>1, <3>2
  <2> QED BY <1>0, <2>1, SameSense DEF Theirs
<1>6. ValueComes(s)'
  <2>1. PICK v : v = Before(s).val
    OBVIOUS
  <2>2. CASE Pending(s, "val", v)
    <3>1. \/ Pending(s, "val", v)'
          \/ Touches(c, s, "val") /\ Quiet(s, "val")'
      BY <1>0, <2>2, PendingShift
    <3>2. Touches(c, s, "val") => Kept(s)'
      BY <1>1, <1>2, <1>4 DEF Touches, Kept, Proxies
    <3> QED BY <1>1, <2>1, <3>1, <3>2 DEF ValueComes, Pending
  <2>3. CASE Quiet(s, "val") /\ (world[s].val = v \/ Theirs(s) \/ Kept(s))
    <3>1. Quiet(s, "val")' /\ ~Touches(c, s, "val")
      BY <1>0, <2>3, QuietShift
    <3>2. world'[s].val = world[s].val
      BY <1>3, <3>1 DEF Touches
    <3>3. Kept(s) => Kept(s)'
      BY <1>1, <1>2 DEF Kept, Proxies
    <3> QED BY <1>1, <1>5, <2>1, <2>3, <3>1, <3>2, <3>3 DEF ValueComes
  <2> QED BY <1>1, <2>1, <2>2, <2>3 DEF ValueComes
<1>7. StateComes(s)'
  <2>1. PICK v : v = Before(s).state
    OBVIOUS
  <2>2. CASE Pending(s, "state", v)
    <3>1. Pending(s, "state", v)'
      BY <1>0, <2>2, PendingShift
    <3> QED BY <1>1, <2>1, <3>1 DEF StateComes, Pending
  <2>3. CASE Quiet(s, "state") /\ (world[s].state = v \/ Theirs(s))
    <3>1. Quiet(s, "state")' /\ ~Touches(c, s, "state")
      BY <1>0, <2>3, QuietShift
    <3>2. world'[s].state = world[s].state
      BY <1>3, <3>1 DEF Touches
    <3> QED BY <1>1, <1>5, <2>1, <2>3, <3>1, <3>2 DEF StateComes
  <2> QED BY <1>1, <2>1, <2>2, <2>3 DEF StateComes
<1> QED BY <1>6, <1>7

LEMMA SweepKept ==
    ASSUME Working, Facts, Payments, Course, Shape
    PROVE  Sweep'
<1>0. TypeInv /\ Sweep /\ Len(pend) \in Nat
  BY LenProperties DEF Working, Payments, TypeInv
<1>a. canAdopt' = canAdopt /\ Slots' = Slots /\ Nothing' = Nothing /\ kind' = kind
      /\ refuses' = refuses
  BY SameMachine DEF Course, env
<1> SUFFICES ASSUME pc' = "revert", ~err', ~lied', ~canAdopt, NEW s \in Slots
             PROVE  ValueComes(s)' /\ StateComes(s)'
  BY <1>a DEF Sweep
<1>b. ~lied
  <2>1. lied => lied'
    BY DEF Course
  <2> QED BY <2>1
<1>1. CASE \E j \in 1..Len(pend), sees \in BOOLEAN : Starts(j, sees)
  BY <1>1, SweepStarts
<1>2. CASE Issues
  <2>1. Revert /\ todo # <<>> /\ Head(todo) = todo[1]
    BY <1>0, <1>2, TodoIs DEF Issues, Apply, ApplyFails, Revert
  <2>2. CASE (Works(todo[1]) \/ Lies(todo[1])) /\ todo' = Tail(todo) /\ UNCHANGED err
    <3>1. ~Lies(todo[1])
      BY <1>0, IssueIs
    <3> QED BY <1>b, <2>1, <2>2, <3>1, SweepWorks
  <2>3. CASE /\ Fails(todo[1])
             /\ todo' = IF kind = "pacfile" THEN <<>> ELSE Tail(todo)
             /\ err' = (err \/ (~todo[1].soft /\ ~canAdopt))
    <3>1. ~err /\ todo[1].soft
      BY <2>3
    <3>2. kind # "pacfile"
      <4>1. PutsBack(todo[1], pend[job])
        BY <1>0, <2>1, TodoIs DEF Revert, Working, Puttings
      <4> QED BY <3>1, <4>1 DEF PutsBack, Proxies
    <3> QED BY <1>b, <2>1, <2>3, <3>1, <3>2, SweepTidies
  <2> QED BY <2>1, <2>2, <2>3 DEF Revert
<1>3. CASE Rests
  <2>1. UNCHANGED <<world, changed, pend, pc, todo, job, err, faults>>
    BY <1>3 DEF Rests, Still
  <2>2. ValueComes(s) /\ StateComes(s)
    BY <1>0, <1>b, <2>1 DEF Sweep
  <2> QED BY <1>a, <2>1, <2>2, SameSense DEF ValueComes, StateComes, Pending, Quiet, Before,
                                            Theirs, Kept
<1>4. CASE Outside
  <2>1. UNCHANGED <<pend, pc, todo, job, err, faults>>
    BY <1>0, <1>4, OutsideStep
  <2>2. ValueComes(s) /\ StateComes(s)
    BY <1>0, <1>b, <2>1 DEF Sweep
  <2>3. CASE Issues
    BY <1>2, <2>3
  <2>4. CASE Untouched(s)
    <3>1. world'[s] = world[s] /\ (s \in changed => s \in changed')
      BY <2>4, SettingIs DEF Untouched
    <3> QED BY <1>a, <2>1, <2>2, <3>1, SameSense DEF ValueComes, StateComes, Pending, Quiet,
                                                  Before, Theirs, Kept
  <2>5. CASE Chosen(s)
    <3>1. Theirs(s)'
      BY <2>5, ChoiceIs, SameSense DEF Chosen, Theirs, Working, TypeInv
    <3> QED BY <1>a, <2>1, <2>2, <3>1 DEF ValueComes, StateComes, Pending, Quiet, Before
  <2>6. ~Vanished(s) /\ ~Overrun(s)
    BY DEF Vanished, Overrun, canAdopt
  <2> QED BY <2>3, <2>4, <2>5, <2>6, SettingIs DEF Commanded
<1>5. ~Vanish /\ ~(\E adopted \in BOOLEAN : Writes(adopted))
      /\ ~(\E j \in 1..Len(pend) : Strikes(j))
  BY DEF Vanish, Writes, Strikes
<1> QED BY <1>1, <1>2, <1>3, <1>4, <1>5 DEF Shape

LEMMA PaymentsKept ==
    ASSUME Working, Facts, Payments, [Next]_vars
    PROVE  Payments'
BY StepShape, OwingKept, RouteAddKept, SweepKept DEF Payments

-----------------------------------------------------------------------------
(* What the user had is what the user gets.                                *)

LEMMA TrustGoes ==
    ASSUME Course, Working, Trusted'
    PROVE  Trusted
<1>1. /\ blind => blind'
      /\ lied => lied'
      /\ overtaken => overtaken'
  BY DEF Course
<1> QED BY <1>1 DEF Trusted

\* What an Op of a run that found no record notes of a setting the user had.
LEMMA CaptureOfUser ==
    ASSUME Working, ~canAdopt, pend = <<>>, NEW u \in UserStart
    PROVE  Captured(Capture(u), u) \/ (u.val = "local" /\ before = "elsewhere")
<1>0. Workload /\ Target /\ u \in Entry
  BY UserTyped DEF Working, TypeInv
<1>1. CASE kind \in Proxies
  <2>1. u \in {Value("none", "off"), Value("user", "on"), Value("user", "off"),
               Value("local", "on"), Value("mine", "off")}
    BY <1>1 DEF UserStart, Proxies
  <2>2. /\ Capture(u).val = notSelfHost(u.val)
        /\ Capture(u).state = IF u.state = "on" /\ notSelfHost(u.val) # "none" THEN "on" ELSE "off"
        /\ Capture(u) = Value(Capture(u).val, Capture(u).state)
    BY <1>1 DEF Capture, Proxies, proxyCapture, Value, Nothing
  <2>3. /\ target = "mine"
        /\ \A v : notSelfHost(v) = IF v = "mine" \/ (before = "elsewhere" /\ v \in LoopbackVals)
                                  THEN "none" ELSE v
    BY <1>0, <1>1 DEF Target, notSelfHost, Residue, Nothing, Proxies
  <2>4. CASE u.state = "off"
    BY <2>2, <2>3, <2>4 DEF Captured
  <2>5. CASE u = Value("user", "on")
    <3>1. u.val = "user" /\ u.state = "on" /\ notSelfHost("user") = "user"
      BY <2>3, <2>5 DEF Value, LoopbackVals
    <3> QED BY <2>2, <2>5, <3>1 DEF Captured
  <2>6. CASE u = Value("local", "on")
    <3>1. u.val = "local" /\ u.state = "on"
      BY <2>6 DEF Value
    <3>2. CASE before # "elsewhere"
      <4>1. notSelfHost("local") = "local"
        BY <2>3, <3>2
      <4> QED BY <2>2, <2>6, <3>1, <4>1 DEF Captured
    <3> QED BY <3>1, <3>2
  <2> QED BY <2>1, <2>4, <2>5, <2>6 DEF Value
<1>2. CASE kind = "dns"
  <2>1. PICK v : u = Value(v, "-")
    BY <1>2 DEF UserStart, Proxies
  <2>2. u.val = v /\ u.state = "-"
    BY <2>1 DEF Value
  <2>3. v \in Seq(Addrs)
    BY <1>0, <1>2, <2>2 DEF Entry, Vals
  <2>4. Capture(u) = u
    BY <1>0, <1>2, <2>1, <2>2, <2>3, ServersAreKept DEF Capture, Proxies, dnsCapture
  <2> QED BY <2>2, <2>4 DEF Captured
<1>3. CASE kind = "env"
  <2>1. PICK v \in {"none", "user", "local"} : u = Value(v, "-")
    BY <1>3 DEF UserStart, Proxies
  <2>2. u.val = v /\ u.state = "-" /\ target = "mine"
    BY <1>0, <1>3, <2>1 DEF Value, Target
  <2>3. Capture(u) = IF notSelfHost(v) = "none" THEN Value("none", "-") ELSE u
    BY <1>3, <2>2 DEF Capture, Proxies, envCapture, isSelfValue, Nothing
  <2>4. CASE v # "local" \/ before # "elsewhere"
    <3>1. notSelfHost(v) = v
      BY <1>3, <2>2, <2>4 DEF notSelfHost, Residue, LoopbackVals
    <3>2. Capture(u) = u
      BY <2>1, <2>3, <3>1
    <3> QED BY <2>2, <3>2 DEF Captured
  <2> QED BY <2>2, <2>4
<1>4. CASE kind = "pacfile"
  <2>1. u \in {Value("none", "-"), Value("user", "0600")} /\ target = "mine"
    BY <1>0, <1>4 DEF UserStart, Proxies, Target
  <2>2. u.val # "mine" /\ u.state # "off"
    BY <2>1 DEF Value
  <2>3. Capture(u) = u
    BY <1>4, <2>1, <2>2 DEF Capture, Proxies, pacFileCapture
  <2> QED BY <2>2, <2>3 DEF Captured
<1> QED BY <1>0, <1>1, <1>2, <1>3, <1>4 DEF Workload, Kinds, Proxies, canAdopt

LEMMA BaseKept ==
    ASSUME Working, Facts, Returns, Course, Shape
    PROVE  Base'
<1>0. TypeInv /\ Target /\ Base /\ Fresh /\ Users /\ Len(pend) \in Nat /\ pend \in Seq(Record)
  BY LenProperties DEF Working, Facts, Returns, TypeInv
<1> SUFFICES ASSUME Trusted', pend' # <<>>, ~canAdopt, NEW s \in Slots
             PROVE  Excused(s)' \/ Captured(pend'[1].prev[s], orig'[s])
  BY SameSense DEF Base, Captured
<1>1. Trusted /\ orig'[s] = orig[s] /\ (s \in changed => s \in changed') /\ before' = before
  BY TrustGoes, SettingIs, SameSense DEF Untouched, Commanded, Vanished, Overrun, Chosen, canAdopt
<1>2. Excused(s) => Excused(s)'
  BY <1>1 DEF Excused
<1>3. ASSUME pend # <<>>, pend'[1] = pend[1]
      PROVE  Excused(s)' \/ Captured(pend'[1].prev[s], orig'[s])
  BY <1>0, <1>1, <1>2, <1>3 DEF Base
<1>4. ASSUME NEW adopted \in BOOLEAN, Writes(adopted)
      PROVE  Excused(s)' \/ Captured(pend'[1].prev[s], orig'[s])
  <2>1. CASE pend # <<>>
    <3>1. 1 \in 1..Len(pend)
      BY <1>0, <2>1, LastPlace
    <3> QED BY <1>0, <1>3, <1>4, <2>1, <3>1, AppendIs
  <2>2. CASE pend = <<>>
    <3>1. pend'[1] = NewRecord(adopted)
      BY <1>0, <1>4, <2>2, AppendIs, NothingLeft
    <3>2. pend'[1].prev[s] = Capture(world[s])
      BY <3>1 DEF NewRecord
    <3>3. s \in changed \/ world[s] = orig[s]
      BY <1>0, <1>4, <2>2 DEF Fresh, Writes
    <3>4. CASE s \in changed
      BY <1>1, <3>4 DEF Excused
    <3>5. CASE world[s] = orig[s]
      <4>1. orig[s] \in UserStart
        BY <1>0 DEF Users
      <4>2. Captured(Capture(orig[s]), orig[s]) \/ (orig[s].val = "local" /\ before = "elsewhere")
        BY <2>2, <4>1, CaptureOfUser
      <4> QED BY <1>1, <3>2, <3>5, <4>2 DEF Excused
    <3> QED BY <3>3, <3>4, <3>5
  <2> QED BY <2>1, <2>2
<1>5. ASSUME NEW j \in 1..Len(pend), Strikes(j)
      PROVE  Excused(s)' \/ Captured(pend'[1].prev[s], orig'[s])
  <2>1. ~(j < Len(pend))
    BY <1>5 DEF Trusted, Strikes
  <2>2. /\ pend' \in Seq(Record) /\ Len(pend') = Len(pend) - 1
        /\ \A i \in 1..Len(pend') : pend'[i] = IF i < j THEN pend[i] ELSE pend[i + 1]
    BY <1>0, <1>5, DropIs
  <2>3. Len(pend') # 0
    BY <2>2, EmptySeq
  <2>4. 1 \in 1..Len(pend') /\ 1 < j
    BY <1>0, <2>1, <2>2, <2>3
  <2>5. pend # <<>>
    BY <1>0, <1>5, NothingLeft
  <2> QED BY <1>3, <2>2, <2>4, <2>5
<1>6. ASSUME pend' = pend
      PROVE  Excused(s)' \/ Captured(pend'[1].prev[s], orig'[s])
  BY <1>3, <1>6
<1>7. Issues \/ Rests \/ Vanish \/ Outside
         \/ (\E j \in 1..Len(pend), sees \in BOOLEAN : Starts(j, sees)) => pend' = pend
  BY <1>0, CommandStep, OutsideStep DEF Rests, Starts
<1> QED BY <1>4, <1>5, <1>6, <1>7 DEF Shape

LEMMA MixedKept ==
    ASSUME Working, Facts, Owing, Returns, Course, Shape
    PROVE  Mixed'
<1>0. TypeInv /\ Target /\ Control /\ Mixed /\ Records
  BY DEF Working, Facts, Returns
<1> SUFFICES ASSUME kind \in Proxies, NEW s \in Slots, s \notin changed'
             PROVE  /\ world'[s].val \in {orig'[s].val, "none", "mine", "dead"}
                    /\ \A i \in 1..Len(pend') : pend'[i].prev[s].val \in {orig'[s].val, "none"}
  BY SameSense DEF Mixed
<1>1. /\ s \notin changed /\ (Untouched(s) \/ Commanded(s)) /\ orig'[s] = orig[s]
      /\ ~canAdopt /\ kind # "pacfile" /\ target = "mine" /\ Nothing = "none"
  <2>1. ~canAdopt /\ kind # "pacfile" /\ target = "mine" /\ kind # "route" /\ Nothing = "none"
    BY <1>0 DEF canAdopt, Proxies, Target, Nothing
  <2> QED BY <2>1, SettingIs DEF Untouched, Commanded, Vanished, Overrun, Chosen
<1>2. /\ world[s].val \in {orig[s].val, "none", "mine", "dead"}
      /\ \A i \in 1..Len(pend) : pend[i].prev[s].val \in {orig[s].val, "none"}
  BY <1>0, <1>1 DEF Mixed
<1>3. world'[s].val \in {orig[s].val, "none", "mine", "dead"}
  <2>1. CASE Untouched(s)
    BY <1>2, <2>1 DEF Untouched
  <2>2. CASE Commanded(s)
    <3>1. CASE "val" \notin DOMAIN todo[1].put
      BY <1>2, <2>2, <3>1 DEF Commanded
    <3>2. CASE "val" \in DOMAIN todo[1].put
      <4>1. pc = "apply" => world'[s].val = target
        BY <1>0, <2>2, <3>2, ValuePut
      <4>2. pc = "revert" => world'[s].val = pend[job].prev[s].val /\ job \in 1..Len(pend)
        BY <1>0, <1>1, <2>2, <3>2, ValuePut DEF Control
      <4>3. pc \in {"apply", "revert"}
        BY <2>2 DEF Commanded
      <4> QED BY <1>1, <1>2, <4>1, <4>2, <4>3
    <3> QED BY <3>1, <3>2
  <2> QED BY <1>1, <2>1, <2>2
<1>4. ASSUME NEW i \in 1..Len(pend') PROVE pend'[i].prev[s].val \in {orig[s].val, "none"}
  <2>1. CASE \E k \in 1..Len(pend) : pend'[i] = pend[k]
    BY <1>2, <2>1
  <2>2. ASSUME NEW adopted \in BOOLEAN, Writes(adopted), pend'[i] = NewRecord(adopted)
        PROVE  pend'[i].prev[s].val \in {orig[s].val, "none"}
    <3>1. pend'[i].prev[s] = Capture(world[s]) /\ pc = "prepare"
      BY <2>2 DEF NewRecord, Writes
    <3>2. Capture(world[s]).val = notSelfHost(world[s].val)
      BY DEF Capture, Proxies, proxyCapture, Value
    <3>3. notSelfHost(world[s].val) \in {world[s].val, "none"}
      BY <1>1 DEF notSelfHost
    <3>4. Capture(world[s]).val \notin {"mine", "dead"}
      <4>1. Noted(Capture(world[s]))
        BY <3>1, CaptureIsSound
      <4>2. \A v : Ours(v) <=> v \in {"mine", "dead"}
        BY DEF Ours, Proxies
      <4> QED BY <4>1, <4>2 DEF Noted
    <3> QED BY <1>2, <3>1, <3>2, <3>3, <3>4
  <2> QED BY <2>1, <2>2, JournalIs
<1> QED BY <1>1, <1>3, <1>4

LEMMA EntryIs ==
    ASSUME NEW e \in Entry, NEW v, NEW t, e.val = v, e.state = t
    PROVE  e = Value(v, t)
BY DEF Entry, Value

\* There is one route.
LEMMA OneRoute ==
    ASSUME kind = "route"
    PROVE  Slots = {<<"kernel", "dst">>}
<1>1. SlotSeq = <<<<"kernel", "dst">>>>
  BY DEF SlotSeq, Proxies
<1> QED BY <1>1 DEF Slots, ToSet

\* An add finds the route free, or does nothing.
LEMMA RouteWasFree ==
    ASSUME Working, NEW s \in Slots, Commanded(s), kind = "route", pc = "apply"
    PROVE  world' = world \/ world[s].val = "none"
<1>1. TypeInv /\ (Apply \/ ApplyFails \/ Revert)
  BY DEF Working, Commanded, Issues
<1>2. Head(todo) = todo[1] /\ todo[1].slot = s
  BY TodoIs DEF Commanded, Working
<1>3. Works(todo[1]) \/ Lies(todo[1]) \/ Fails(todo[1])
  BY <1>1, <1>2 DEF Apply, ApplyFails, Revert
<1>4. Works(todo[1]) => world[s].val = "none"
  BY <1>2 DEF Works, Occupied, Nothing
<1>5. Lies(todo[1]) \/ Fails(todo[1]) => world' = world
  BY IssueIs DEF Working
<1> QED BY <1>3, <1>4, <1>5

LEMMA RoutesKept ==
    ASSUME Working, Facts, Returns, Course, Shape
    PROVE  Routes'
<1>0. TypeInv /\ Target /\ Users /\ Records /\ Routes /\ Delete /\ TypeInv'
  BY TypeKept DEF Working, Facts, Returns
<1> SUFFICES ASSUME canAdopt, ~blind', NEW s \in Slots
             PROVE  \/ world'[s] = orig'[s]
                    \/ orig'[s] = Value("none", "-") /\ world'[s] = Value("mine", "-")
  BY SameSense DEF Routes, Value
<1>1. ~blind /\ kind \in {"route", "ifconfig"} /\ target = "mine"
  BY <1>0 DEF Course, canAdopt, Target
<1>2. world[s] \in Entry /\ orig[s] \in Entry /\ world'[s] \in Entry
  <2>1. Slots' = Slots /\ Entry' = Entry
    BY SameMachine DEF Course
  <2> QED BY <1>0, <2>1 DEF TypeInv
<1>3. orig[s] \in {Value(v, "-") : v \in {"none", "foreign", "twin"}}
      /\ (kind = "ifconfig" => orig[s] = Value("none", "-"))
  BY <1>0, <1>1 DEF Users, UserStart, Proxies
<1>4. orig[s].state = "-" /\ orig[s].val # "mine"
  BY <1>3 DEF Value
<1>5. \/ world[s] = orig[s]
      \/ orig[s] = Value("none", "-") /\ world[s] = Value("mine", "-")
  BY <1>0, <1>1 DEF Routes
<1>6. world[s].state = "-"
  BY <1>4, <1>5 DEF Value
<1>7. world[s].val = "mine" => orig[s] = Value("none", "-")
  BY <1>4, <1>5
<1>8. world[s].val = "none" => orig[s] = Value("none", "-") /\ world[s] = orig[s]
  <2>1. Value("mine", "-").val = "mine"
    BY DEF Value
  <2>2. world[s].val = "none" => world[s] = orig[s]
    BY <1>5, <2>1
  <2> QED BY <1>2, <1>6, <2>2, EntryIs
<1>9. CASE Untouched(s)
  BY <1>5, <1>9 DEF Untouched
<1>10. CASE Vanished(s)
  <2>1. world'[s] = Value("none", "-")
    BY <1>2, <1>6, <1>10, EntryIs DEF Vanished
  <2> QED BY <1>7, <1>10, <2>1 DEF Vanished
<1>11. CASE Overrun(s)
  BY <1>8, <1>11 DEF Overrun
<1>12. CASE Commanded(s)
  <2>1. world'[s].state = "-" /\ orig'[s] = orig[s]
    BY <1>1, <1>6, <1>12, StatePut DEF Commanded
  <2>2. world'[s] = Value(world'[s].val, "-") /\ world[s] = Value(world[s].val, "-")
    BY <1>2, <1>6, <2>1, EntryIs
  <2>3. CASE "val" \notin DOMAIN todo[1].put
    <3>1. world'[s].val = world[s].val
      BY <1>12, <2>3 DEF Commanded
    <3> QED BY <1>5, <2>1, <2>2, <3>1
  <2>4. CASE "val" \in DOMAIN todo[1].put /\ pc = "revert"
    <3>1. world'[s].val = "none"
      BY <1>0, <1>12, <2>4, ValuePut
    <3>2. kind = "route" => world[s].val = "mine"
      BY <1>0, <1>1, <1>12, <2>4 DEF Delete, Commanded
    <3>3. orig[s] = Value("none", "-")
      BY <1>1, <1>3, <1>7, <3>2
    <3> QED BY <2>1, <2>2, <3>1, <3>3
  <2>5. CASE "val" \in DOMAIN todo[1].put /\ pc = "apply"
    <3>1. world'[s].val = "mine"
      BY <1>0, <1>1, <1>12, <2>5, ValuePut
    <3>2. kind = "route" => world' = world \/ world[s].val = "none"
      BY <1>12, <2>5, RouteWasFree
    <3>3. CASE kind = "route" /\ world' = world
      BY <1>5, <2>1, <3>3
    <3>4. CASE kind = "ifconfig" \/ world[s].val = "none"
      <4>1. orig[s] = Value("none", "-")
        BY <1>3, <1>8, <3>4
      <4> QED BY <2>1, <2>2, <3>1, <4>1
    <3> QED BY <1>1, <3>2, <3>3, <3>4
  <2> QED BY <1>12, <2>3, <2>4, <2>5 DEF Commanded
<1> QED BY <1>9, <1>10, <1>11, <1>12, SettingIs DEF Chosen

LEMMA TwinKept ==
    ASSUME Working, Facts, Returns, Course, Shape
    PROVE  Twin'
<1>0. TypeInv /\ Target /\ Routes /\ Twin
  BY DEF Working, Returns
<1> SUFFICES ASSUME kind = "route", ~blind', NEW s \in Slots, orig'[s].val = "twin",
                    NEW i \in 1..Len(pend')
             PROVE  pend'[i].adopted
  BY SameSense DEF Twin
<1>1. ~blind /\ orig[s] \in Entry
  BY <1>0 DEF Course, TypeInv
<1>2. orig[s].val = "twin"
  <2>1. CASE Overrun(s)
    <3>1. orig'[s].val = "foreign"
      BY <1>1, <2>1 DEF Overrun, Entry
    <3> QED BY <3>1
  <2> QED BY <2>1, SettingIs DEF Untouched, Commanded, Vanished, Chosen
<1>3. ASSUME NEW k \in 1..Len(pend), pend'[i] = pend[k] PROVE pend'[i].adopted
  BY <1>0, <1>1, <1>2, <1>3 DEF Twin
<1>4. ASSUME NEW adopted \in BOOLEAN, Writes(adopted), pend'[i] = NewRecord(adopted)
      PROVE  pend'[i].adopted
  <2>1. world[s] = orig[s]
    BY <1>0, <1>1, <1>2 DEF Routes, canAdopt, Value
  <2>2. Verify
    <3>1. \A t \in Slots : t = s
      BY OneRoute
    <3>2. \A t \in Slots : matchRoute(world[t])
      BY <1>2, <2>1, <3>1 DEF matchRoute
    <3> QED BY <3>2 DEF Verify, routeVerify, Proxies
  <2>3. adopted = TRUE
    BY <1>4, <2>2 DEF Writes, canAdopt
  <2>4. NewRecord(adopted).adopted = adopted
    BY DEF NewRecord
  <2> QED BY <1>4, <2>3, <2>4
<1> QED BY <1>3, <1>4, JournalIs

LEMMA DeleteKept ==
    ASSUME Working, Facts, Returns, Course, Shape
    PROVE  Delete'
<1>0. TypeInv /\ Control /\ Puttings /\ Routes /\ Twin /\ Delete
  BY DEF Working, Returns
<1> SUFFICES ASSUME kind = "route", ~blind', pc' = "revert", todo' # <<>>, NEW s \in Slots
             PROVE  world'[s].val = "mine"
  BY SameSense DEF Delete
<1>1. ~blind
  BY DEF Course
<1>2. ~\E adopted \in BOOLEAN : Writes(adopted)
  BY DEF Writes
<1>3. ~\E j \in 1..Len(pend) : Strikes(j)
  BY DEF Strikes
<1>4. ASSUME Issues PROVE FALSE
  <2>1. todo # <<>> /\ todo' = Tail(todo) /\ pc = "revert"
    BY <1>0, <1>4, CommandStep
  <2>2. Len(todo) <= 1
    BY <1>0, <2>1 DEF Puttings
  <2>3. Tail(todo) \in Seq(Command) /\ Len(Tail(todo)) = Len(todo) - 1 /\ Len(todo) \in Nat
        /\ 1 \in 1..Len(todo)
    BY <1>0, <2>1, TodoIs
  <2>4. Len(Tail(todo)) = 0
    BY <2>2, <2>3
  <2> QED BY <2>1, <2>3, <2>4, EmptySeq
<1>5. ASSUME NEW j \in 1..Len(pend), NEW sees \in BOOLEAN, Starts(j, sees)
      PROVE  world'[s].val = "mine"
  <2> DEFINE R == RevertCmds(pend[j], sees)
  <2>1. todo' = R /\ sees /\ ~pend[j].adopted /\ world' = world
    BY <1>5 DEF Starts, Still
  <2>2. pend[j] \in Record /\ Workload
    BY <1>0, ElementOfSeq DEF TypeInv
  <2>3. R \in Seq(Command)
    BY <2>2, RevertPutsBack
  <2>4. PICK t \in Slots : Len(R) = Len(PartOf(pend[j], t, sees))
    BY <2>2, RevertBlocks
  <2> HIDE DEF R
  <2>5. Len(R) # 0
    BY <2>1, <2>3, EmptySeq
  <2>6. PartOf(pend[j], t, sees) = routeRevert(t, sees)
    BY DEF PartOf, Proxies
  <2>7. matchRoute(world[t])
    BY <2>1, <2>4, <2>5, <2>6, NothingLeft DEF routeRevert
  <2>8. t = s
    BY OneRoute
  <2>9. world[s].val # "twin"
    <3>1. world[s].val = "twin" => orig[s].val = "twin"
      BY <1>0, <1>1 DEF Routes, canAdopt, Value
    <3> QED BY <1>0, <1>1, <2>1, <3>1 DEF Twin
  <2> QED BY <2>1, <2>7, <2>8, <2>9 DEF matchRoute
<1>6. CASE Rests
  <2>1. pc = "revert" /\ todo # <<>> /\ world' = world
    BY <1>6 DEF Rests, Still
  <2> QED BY <1>0, <1>1, <2>1 DEF Delete
<1>7. CASE Vanish \/ Outside
  <2>1. pc = "revert" /\ todo # <<>>
    BY <1>0, <1>7, OutsideStep
  <2>2. world[s].val = "mine"
    BY <1>0, <1>1, <2>1 DEF Delete
  <2>3. Untouched(s)
    BY <1>4, <2>1, <2>2, SettingIs DEF Commanded, Vanished, Overrun, Chosen, canAdopt
  <2> QED BY <2>2, <2>3 DEF Untouched
<1> QED BY <1>2, <1>3, <1>4, <1>5, <1>6, <1>7 DEF Shape

LEMMA NoneLeft ==
    ASSUME TypeInv, pend = <<>>
    PROVE  Len(pend) = 0 /\ ~\E i \in 1..Len(pend) : TRUE
<1>1. Len(pend) = 0
  BY NothingLeft
<1> QED BY <1>1

LEMMA RestoredWhenSame ==
    ASSUME NEW s \in Slots, world[s] = orig[s]
    PROVE  Restored(s)
BY DEF Restored

\* The tunnel's route or address is in force.
LEMMA TunnelInForce ==
    ASSUME canAdopt, NEW s \in Slots, world[s].val = "mine"
    PROVE  AnyInForce /\ Settling
<1>1. InForce(s) /\ Settling
  BY DEF InForce, Settling, canAdopt, Proxies
<1> QED BY <1>1 DEF AnyInForce

\* What the last Revert of the oldest record leaves is what the user had.
LEMMA SweptIsRestored ==
    ASSUME Working, Facts, Payments, Returns, Trusted, ~canAdopt, NEW s \in Slots,
           pc = "revert", job = 1, todo = <<>>, ~err
    PROVE  Excused(s) \/ Restored(s)
<1>0. /\ TypeInv /\ Control /\ Records /\ Base /\ Mixed /\ Sweep /\ Workload
      /\ world[s] \in Entry /\ orig[s] \in Entry
  BY DEF Working, Facts, Payments, Returns, TypeInv
<1>1. 1 \in 1..Len(pend) /\ pend # <<>>
  BY <1>0, NoneLeft DEF Control
<1>2. Before(s) = pend[1].prev[s] /\ Noted(Before(s))
  BY <1>0, <1>1 DEF Before, Records, Sound
<1> SUFFICES ASSUME ~Excused(s) PROVE Restored(s)
  OBVIOUS
<1>3. s \notin changed /\ ~Theirs(s)
  BY DEF Excused, Theirs
<1>4. Captured(Before(s), orig[s])
  BY <1>0, <1>1, <1>2 DEF Base
<1>5. ValueComes(s) /\ StateComes(s)
  BY <1>0 DEF Sweep, Trusted
<1>6. \A f, x : ~Pending(s, f, x)
  BY NothingLeft DEF Pending
<1>7. world[s].val = Before(s).val \/ Kept(s)
  BY <1>3, <1>5, <1>6 DEF ValueComes
<1>8. world[s].state = Before(s).state
  BY <1>3, <1>5, <1>6 DEF StateComes
<1>9. CASE orig[s].state = "off"
  <2>1. Before(s).state = "off" /\ Before(s).val \in {orig[s].val, "none"}
    BY <1>4, <1>9 DEF Captured
  <2>2. CASE world[s].val = Before(s).val
    BY <1>8, <1>9, <2>1, <2>2 DEF Restored
  <2>3. CASE Kept(s)
    <3>1. kind \in Proxies /\ (refuses \/ faults > 0)
      BY <2>3 DEF Kept
    <3>2. world[s].val \in {orig[s].val, "none", "mine", "dead"}
      BY <1>0, <1>3, <3>1 DEF Mixed
    <3> QED BY <1>8, <1>9, <2>1, <3>1, <3>2 DEF Restored
  <2> QED BY <1>7, <2>2, <2>3
<1>10. CASE orig[s].state # "off"
  <2>1. Before(s) = orig[s]
    BY <1>4, <1>10 DEF Captured
  <2>2. ~Kept(s)
    BY <1>2, <1>10, <2>1 DEF Kept, Noted
  <2>3. world[s].val = orig[s].val /\ world[s].state = orig[s].state
    BY <1>7, <1>8, <2>1, <2>2
  <2>4. world[s] = orig[s]
    BY <1>0, <2>3 DEF Entry
  <2> QED BY <2>4, RestoredWhenSame
<1> QED BY <1>9, <1>10

\* What was settled stays so until a record is written again.
LEMMA SettledStays ==
    ASSUME Working, Facts, Payments, Returns, Course, Shape, Trusted', pend = <<>>,
           pend' = <<>>, NEW s \in Slots
    PROVE  Excused(s)' \/ Restored(s)'
<1>0. TypeInv /\ Control /\ Routes /\ Settled /\ Owing
  BY DEF Working, Payments, Returns
<1>1. Trusted /\ ~\E i \in 1..Len(pend) : TRUE
  BY <1>0, TrustGoes, NoneLeft
<1>2. kind' = kind /\ before' = before /\ refuses' = refuses /\ (s \in changed => s \in changed')
      /\ (faults > 0 => faults' > 0)
  <2>1. faults \in Nat /\ faults' \in Nat /\ faults <= faults'
    BY <1>0 DEF TypeInv, Course
  <2> QED BY <2>1, SettingIs DEF Course, env
<1>3. Excused(s) \/ Restored(s)
  BY <1>1 , <1>0 DEF Settled
<1>4. ~Commanded(s)
  <2>1. ~Issues
    <3>1. Issues => pc = "apply" \/ pc = "revert"
      BY <1>0, CommandStep
    <3> QED BY <1>0, <1>1, <3>1 DEF Control
  <2> QED BY <2>1 DEF Commanded
<1>5. CASE Untouched(s)
  BY <1>2, <1>3, <1>5 DEF Untouched, Excused, Restored
<1>6. CASE Vanished(s)
  <2>1. AnyInForce /\ Settling
    BY <1>6, TunnelInForce DEF Vanished
  <2> QED BY <1>0, <1>1, <2>1 DEF Owing
<1>7. CASE Overrun(s)
  <2>1. world[s] = orig[s]
    BY <1>0, <1>1, <1>7 DEF Overrun, Routes, Trusted, canAdopt, Value
  <2>2. world'[s] = orig'[s]
    BY <1>7, <2>1 DEF Overrun
  <2> QED BY <2>2 DEF Restored
<1>8. CASE Chosen(s)
  BY <1>8 DEF Chosen, Excused
<1> QED BY <1>4, <1>5, <1>6, <1>7, <1>8, SettingIs

LEMMA SettledKept ==
    ASSUME Working, Facts, Payments, Returns, Course, Shape
    PROVE  Settled'
<1>0. TypeInv /\ Control /\ Routes /\ Records /\ Len(pend) \in Nat /\ Target
  BY LenProperties DEF Working, Facts, Returns, TypeInv
<1> SUFFICES ASSUME Trusted', pend' = <<>>, NEW s \in Slots
             PROVE  Excused(s)' \/ Restored(s)'
  BY SameSense DEF Settled
<1>1. Trusted
  BY TrustGoes
<1>2. ASSUME pend # <<>> PROVE Excused(s)' \/ Restored(s)'
  <2>1. ~\E adopted \in BOOLEAN : Writes(adopted)
    BY <1>0, AppendIs, NothingLeft
  <2>2. PICK j \in 1..Len(pend) : Strikes(j)
    BY <1>0, <1>2, <2>1, CommandStep, OutsideStep DEF Shape, Rests, Starts
  <2>3. Len(pend) = 1 /\ j = 1
    <3>1. Len(pend') = Len(pend) - 1 /\ Len(pend') = 0
      BY <1>0, <2>2, DropIs, NothingLeft
    <3>2. Len(pend) = 1
      BY <1>0, <3>1
    <3>3. j \in 1..Len(pend)
      OBVIOUS
    <3>4. j \in 1..1
      BY <3>2, <3>3
    <3> QED BY <3>2, <3>4
  <2>4. /\ UNCHANGED <<world, orig, changed, faults, blind, lied>>
        /\ kind' = kind /\ before' = before /\ refuses' = refuses
    BY <2>2 DEF Strikes, Still, Course, env
  <2>5. Excused(s) \/ Restored(s)
    <3>1. CASE canAdopt
      <4>1. ~AnyInForce
        <5>1. ~AnyInForce' \/ ~Settling'
          <6>1. Owing' /\ Len(pend') = 0
            BY OwingKept, NothingLeft
          <6> QED BY <6>1 DEF Owing
        <5>2. AnyInForce' = AnyInForce /\ Settling' = Settling
          <6>1. Slots' = Slots /\ \A t : InForce(t)' = InForce(t)
            BY <2>4, SameSense DEF InForce
          <6> QED BY <2>4, <6>1 DEF AnyInForce, Settling
        <5>3. Settling
          BY <3>1 DEF Settling, canAdopt
        <5> QED BY <5>1, <5>2, <5>3
      <4>2. world[s].val # "mine"
        BY <3>1, <4>1, TunnelInForce
      <4>3. world[s] = orig[s]
        BY <1>0, <1>1, <3>1, <4>2 DEF Routes, Trusted, Value
      <4> QED BY <4>3, RestoredWhenSame
    <3>2. CASE ~canAdopt
      <4>1. ~pend[j].adopted /\ kind # "route"
        BY <1>0, <3>2 DEF Records, Sound, canAdopt
      <4>2. pc = "revert" /\ job = j /\ todo = <<>> /\ ~err
        BY <2>2, <4>1 DEF Strikes
      <4> QED BY <1>1, <2>3, <3>2, <4>2, SweptIsRestored
    <3> QED BY <3>1, <3>2
  <2>6. Excused(s)' = Excused(s) /\ Restored(s)' = Restored(s)
    BY <2>4 DEF Excused, Restored
  <2> QED BY <2>5, <2>6
<1> QED BY <1>2, SettledStays

LEMMA ReturnsKept ==
    ASSUME Working, Facts, Payments, Returns, [Next]_vars
    PROVE  Returns'
<1>1. Course /\ Shape /\ Owing
  BY StepShape DEF Payments
<1>2. Base' /\ Mixed' /\ Routes' /\ Twin' /\ Delete' /\ Settled'
  BY <1>1, BaseKept, MixedKept, RoutesKept, TwinKept, DeleteKept, SettledKept
<1> QED BY <1>2 DEF Returns

-----------------------------------------------------------------------------
(* Where a life begins.                                                    *)

\* What the user had holds nothing of ours that is on.
LEMMA StartIsTheUsers ==
    ASSUME Workload, NEW u \in UserStart
    PROVE  /\ u \in Entry
           /\ Ours(u.val) => before = "fresh" /\ kind \in Proxies /\ u = Value("mine", "off")
           /\ kind = "dns" => ~\E i \in 1..Len(u.val) : u.val[i] = "tun"
           /\ kind \in {"dns", "env"} => u.state = "-"
           /\ canAdopt => u.state = "-" /\ u.val \in {"none", "foreign", "twin"}
           /\ kind = "ifconfig" => u = Value("none", "-")
           /\ before # "fresh" => Noted(u)
<1>1. u \in Entry
  BY UserTyped
<1>2. CASE kind \in Proxies
  <2>1. \/ u \in {Value("none", "off"), Value("user", "on"), Value("user", "off"),
                  Value("local", "on")}
        \/ before = "fresh" /\ u = Value("mine", "off")
    BY <1>2 DEF UserStart, Proxies
  <2>2. \A v : Ours(v) <=> v \in {"mine", "dead"}
    BY <1>2 DEF Ours, Proxies
  <2>3. /\ Ours(u.val) => before = "fresh" /\ u = Value("mine", "off")
        /\ (u.state = "off" \/ u.val # "none")
    BY <2>1, <2>2 DEF Value
  <2>4. before # "fresh" => Noted(u)
    BY <1>2, <2>3 DEF Noted, Nothing, Proxies
  <2> QED BY <1>1, <1>2, <2>3, <2>4 DEF Proxies, canAdopt
<1>3. CASE kind = "dns"
  <2>1. PICK v \in {<<>>, <<"isp">>, <<"lo">>, <<"lo", "isp">>} : u = Value(v, "-")
    BY <1>3 DEF UserStart, Proxies
  <2>2. u.val = v /\ u.state = "-"
    BY <2>1 DEF Value
  <2>3. ~\E i \in 1..Len(v) : v[i] = "tun"
    <3>1. CASE v = <<>>
      BY <3>1, NothingLeft
    <3>2. CASE v \in {<<"isp">>, <<"lo">>}
      <4>1. \A x : Len(<<x>>) = 1 /\ <<x>>[1] = x
        OBVIOUS
      <4>2. \A i \in 1..1 : i = 1
        OBVIOUS
      <4> QED BY <3>2, <4>1, <4>2
    <3>3. CASE v = <<"lo", "isp">>
      <4>1. Len(v) = 2 /\ v[1] = "lo" /\ v[2] = "isp"
        BY <3>3
      <4>2. \A i \in 1..2 : i = 1 \/ i = 2
        OBVIOUS
      <4> QED BY <4>1, <4>2
    <3> QED BY <3>1, <3>2, <3>3
  <2> QED BY <1>1, <1>3, <2>2, <2>3 DEF Ours, Noted, Proxies, canAdopt
<1>4. CASE kind \notin Proxies \cup {"dns"}
  <2>1. CASE kind = "env"
    <3>1. PICK v \in {"none", "user", "local"} : u = Value(v, "-")
      BY <2>1 DEF UserStart, Proxies
    <3>2. u.val = v /\ u.state = "-"
      BY <3>1 DEF Value
    <3> QED BY <1>1, <2>1, <3>2 DEF Ours, Noted, Proxies, canAdopt
  <2>2. CASE kind = "pacfile"
    <3>1. u \in {Value("none", "-"), Value("user", "0600")}
      BY <2>2 DEF UserStart, Proxies
    <3>2. u.val \in {"none", "user"}
      BY <3>1 DEF Value
    <3> QED BY <1>1, <2>2, <3>2 DEF Ours, Noted, Proxies, canAdopt
  <2>3. CASE kind = "route"
    <3>1. PICK v \in {"none", "foreign", "twin"} : u = Value(v, "-")
      BY <2>3 DEF UserStart, Proxies
    <3>2. u.val = v /\ u.state = "-"
      BY <3>1 DEF Value
    <3> QED BY <1>1, <2>3, <3>2 DEF Ours, Noted, Proxies, canAdopt
  <2>4. CASE kind = "ifconfig"
    <3>1. u = Value("none", "-")
      BY <2>4 DEF UserStart, Proxies
    <3>2. u.val = "none" /\ u.state = "-"
      BY <3>1 DEF Value
    <3> QED BY <1>1, <2>4, <3>1, <3>2 DEF Ours, Noted, Proxies, canAdopt
  <2> QED BY <1>4, <2>1, <2>2, <2>3, <2>4 DEF Workload, Kinds, Proxies
<1> QED BY <1>2, <1>3, <1>4

\* A dead run's record, and what it left in place, where it left anything.
LEMMA DeadRun ==
    ASSUME Workload, before = "residue", Users, orig \in [Slots -> Entry],
           NEW d \in DeadTargets, NEW s \in Slots
    PROVE  /\ d \in Vals /\ Installed(d) \in Entry /\ orig[s].val # d
           /\ DeadRecord(d) \in Record /\ DeadRecord(d).prev[s] = IF canAdopt THEN Value("none", "-") ELSE orig[s]
           /\ kind = "dns" => d \in OwnList
           /\ kind # "dns" => d \in {"mine", "dead"}
           /\ canAdopt => d = "mine"
           /\ Installed(d).val = d /\ (kind \in {"dns", "env"} \/ canAdopt => Installed(d).state = "-")
           /\ Sound(DeadRecord(d))
<1>0. \A t \in Slots : orig[t] \in UserStart
  BY DEF Users
<1>1. kind = "dns" => d \in OwnList
  BY ListTyped DEF DeadTargets
<1>2. kind # "dns" => d \in {"mine", "dead"}
  BY DEF DeadTargets
<1>3. canAdopt => d = "mine"
  BY DEF DeadTargets, canAdopt
<1>4. d \in Vals
  BY <1>1, <1>2, OwnListTyped DEF Vals, Texts
<1>5. /\ Installed(d).val = d
      /\ kind \in {"dns", "env"} \/ canAdopt => Installed(d).state = "-"
      /\ Installed(d) \in Entry
  BY <1>4 DEF Installed, Value, Entry, States, Proxies, canAdopt
<1>6. ASSUME NEW t \in Slots PROVE orig[t].val # d
  <2>1. CASE kind = "dns"
    <3>1. d \in Seq({"tun", "isp"}) /\ d # <<>> /\ d[1] = "tun"
      BY <1>1, <2>1 DEF OwnList
    <3>2. 1 \in 1..Len(d)
      <4>1. Len(d) \in Nat /\ Len(d) # 0
        BY <3>1, EmptySeq, LenProperties
      <4> QED BY <4>1
    <3> QED BY <1>0, <2>1, <3>1, <3>2, StartIsTheUsers
  <2>2. CASE kind # "dns"
    <3>1. kind \in Proxies \cup {"env"} => Ours(d)
      BY <1>2, <2>2 DEF Ours
    <3>2. CASE kind \in Proxies \cup {"env"}
      BY <1>0, <3>1, <3>2, StartIsTheUsers
    <3>3. CASE kind = "pacfile"
      <4>1. orig[t] \in {Value("none", "-"), Value("user", "0600")}
        BY <1>0, <3>3 DEF UserStart, Proxies
      <4> QED BY <1>2, <2>2, <4>1 DEF Value
    <3>4. CASE canAdopt
      BY <1>0, <1>2, <2>2, <3>4, StartIsTheUsers
    <3> QED BY <2>2, <3>2, <3>3, <3>4 DEF Workload, Kinds, Proxies, canAdopt
  <2> QED BY <2>1, <2>2
<1>7. /\ DeadRecord(d).prev = [t \in Slots |-> IF canAdopt THEN Value(Nothing, "-") ELSE orig[t]]
      /\ DeadRecord(d).slots = SlotSeq /\ DeadRecord(d).target = d
      /\ DeadRecord(d).adopted = (kind = "route" /\ \E t \in Slots : orig[t].val = "twin")
  BY <1>6 DEF DeadRecord
<1>8. canAdopt => Nothing = "none" /\ Value("none", "-") \in Entry
  BY DEF canAdopt, Nothing, Value, Entry, Vals, Texts, States
<1>9. \A t \in Slots : DeadRecord(d).prev[t] = IF canAdopt THEN Value("none", "-") ELSE orig[t]
  BY <1>7, <1>8
<1>10. DeadRecord(d) \in Record
  <2>1. DeadRecord(d) = [slots |-> SlotSeq, target |-> d,
                         prev |-> [t \in Slots |-> IF canAdopt THEN Value(Nothing, "-") ELSE orig[t]],
                         adopted |-> kind = "route" /\ \E t \in Slots : orig[t].val = "twin"]
    BY <1>6 DEF DeadRecord
  <2>2. [t \in Slots |-> IF canAdopt THEN Value(Nothing, "-") ELSE orig[t]] \in [Slots -> Entry]
    BY <1>8
  <2> QED BY <1>4, <2>1, <2>2 DEF Record
<1>11. Sound(DeadRecord(d))
  <2>1. DeadRecord(d).adopted => canAdopt
    BY <1>7 DEF canAdopt
  <2>2. ASSUME NEW t \in Slots PROVE Noted(DeadRecord(d).prev[t])
    <3>1. CASE canAdopt
      <4>1. ~Ours("none")
        BY <3>1 DEF Ours, canAdopt, Proxies
      <4> QED BY <1>9, <3>1, <4>1 DEF Noted, Value, canAdopt, Proxies
    <3>2. CASE ~canAdopt
      BY <1>0, <1>9, <3>2, StartIsTheUsers
    <3> QED BY <3>1, <3>2
  <2> QED BY <1>3, <1>7, <2>1, <2>2 DEF Sound
<1> QED BY <1>1, <1>2, <1>3, <1>4, <1>5, <1>6, <1>9, <1>10, <1>11

\* What a dead run may have left on the machine.
LeftBehind(d, hit) ==
    /\ \A s \in hit : kind # "route" \/ orig[s].val = "none"
    /\ world = [s \in Slots |-> IF s \in hit THEN Installed(d) ELSE orig[s]]
    /\ pend = <<DeadRecord(d)>>

LEMMA Beginnings ==
    ASSUME Init
    PROVE  /\ Workload /\ Users /\ orig \in [Slots -> Entry]
           /\ IF before = "residue"
              THEN \E d \in DeadTargets, hit \in SUBSET Slots : LeftBehind(d, hit)
              ELSE world = orig /\ pend = <<>>
<1>1. Workload
  <2>1. PICK w \in Workloads : kind = w[1] /\ before = w[2] /\ enabled = w[3]
    BY DEF Init
  <2>2. /\ w \in Kinds \X {"fresh", "residue", "elsewhere"} \X SUBSET {"wifi", "ethernet"}
        /\ w[1] = "dns" => w[3] # {}
    BY WorkloadsKnown
  <2>3. w[1] \in Kinds /\ w[2] \in {"fresh", "residue", "elsewhere"}
        /\ w[3] \in SUBSET {"wifi", "ethernet"}
    BY <2>2
  <2> QED BY <2>1, <2>2, <2>3 DEF Workload
<1>2. Users /\ orig \in [Slots -> Entry]
  <2>1. PICK u \in UserStart, v \in UserStart :
           orig = [s \in Slots |-> IF s \in PrimarySlots THEN u ELSE v]
    BY DEF Init
  <2>2. UserStart \subseteq Entry
    BY <1>1, UserTyped
  <2> QED BY <2>1, <2>2 DEF Users
<1>3. IF before = "residue"
      THEN \E d \in DeadTargets, hit \in SUBSET Slots : LeftBehind(d, hit)
      ELSE world = orig /\ pend = <<>>
  BY DEF Init, LeftBehind
<1> QED BY <1>1, <1>2, <1>3

\* The machine and the journal a life begins with are well-formed.
LEMMA InitWorking ==
    ASSUME Init
    PROVE  Working
<1>1. Workload /\ Users /\ orig \in [Slots -> Entry]
  BY Beginnings
<1>2. world \in [Slots -> Entry] /\ pend \in Seq(Record)
  <2>1. CASE before = "residue"
    <3>1. PICK d \in DeadTargets, hit \in SUBSET Slots : LeftBehind(d, hit)
      BY <2>1, Beginnings
    <3>2. world \in [Slots -> Entry]
      BY <1>1, <2>1, <3>1, DeadRun DEF LeftBehind
    <3>3. CASE Slots # {}
      <4>1. DeadRecord(d) \in Record
        BY <1>1, <2>1, <3>3, DeadRun
      <4> QED BY <3>1, <3>2, <4>1, OneElement DEF LeftBehind
    <3>4. CASE Slots = {}
      <4>1. kind # "dns"
        BY <1>1, <3>4, SlotsTyped
      <4>2. d \in Vals /\ DeadRecord(d).slots = SlotSeq
        BY <4>1 DEF DeadTargets, Vals, Texts, DeadRecord
      <4>3. DeadRecord(d) \in Record
        <5>1. [s \in Slots |-> IF canAdopt THEN Value(Nothing, "-")
                               ELSE IF orig[s].val = d THEN Value(Nothing, "off")
                               ELSE orig[s]] \in [Slots -> Entry]
          BY <3>4
        <5> QED BY <4>2, <5>1 DEF DeadRecord, Record
      <4> QED BY <3>1, <3>2, <4>3, OneElement DEF LeftBehind
    <3> QED BY <3>3, <3>4
  <2>2. CASE before # "residue"
    BY <1>1, <2>2, Beginnings, EmptySeq
  <2> QED BY <2>1, <2>2
<1>3. Target /\ target \in Vals
  <2>1. target = IF kind = "dns" THEN tunResolverList(world) ELSE "mine"
    BY DEF Init
  <2>2. CASE kind = "dns"
    BY <1>1, <1>2, <2>1, <2>2, ListTyped, OwnListTyped DEF Target, Vals
  <2>3. CASE kind # "dns"
    BY <2>1, <2>3 DEF Target, Vals, Texts
  <2> QED BY <2>2, <2>3
<1>4. /\ pc = "prepare" /\ who = "run" /\ job = 0 /\ todo = <<>>
      /\ err = FALSE /\ added = FALSE /\ faults = 0
      /\ blind = FALSE /\ lied = FALSE /\ overtaken = FALSE
  BY DEF Init
<1>5. refuses \in BOOLEAN
  BY DEF Init
<1>6. TypeInv
  BY <1>1, <1>2, <1>3, <1>4, <1>5, EmptySeq DEF TypeInv, Stages
<1>7. Control /\ Puttings
  BY <1>4 DEF Control, Puttings
<1> QED BY <1>3, <1>6, <1>7 DEF Working

LEMMA InitFacts ==
    ASSUME Init
    PROVE  Facts
<1>1. Workload /\ Users /\ orig \in [Slots -> Entry] /\ pc = "prepare" /\ lied = FALSE
      /\ \A s \in Slots : orig[s] \in UserStart
  BY Beginnings DEF Init, Users
<1>2. CASE before = "residue"
  <2>1. PICK d \in DeadTargets, hit \in SUBSET Slots : LeftBehind(d, hit)
    BY <1>2, Beginnings
  <2>2. Len(pend) = 1 /\ pend[1] = DeadRecord(d) /\ pend # <<>>
    BY <2>1, OneElement DEF LeftBehind
  <2>3. Sound(DeadRecord(d))
    <3>1. CASE Slots = {}
      <4>1. kind # "route" /\ (canAdopt => d = "mine")
        BY <3>1, OneRoute DEF DeadTargets, canAdopt
      <4>2. DeadRecord(d).adopted = FALSE /\ DeadRecord(d).target = d
        BY <4>1 DEF DeadRecord
      <4> QED BY <3>1, <4>1, <4>2 DEF Sound
    <3>2. CASE Slots # {}
      BY <1>1, <1>2, <3>2, DeadRun
    <3> QED BY <3>1, <3>2
  <2>4. Records
    BY <2>2, <2>3 DEF Records
  <2>5. Plain
    <3>1. ASSUME kind \in {"dns", "env"}, NEW s \in Slots PROVE world[s].state = "-"
      <4>1. orig[s].state = "-" /\ Installed(d).state = "-"
        BY <1>1, <1>2, <3>1, StartIsTheUsers, DeadRun
      <4> QED BY <2>1, <4>1 DEF LeftBehind
    <3> QED BY <3>1 DEF Plain
  <2> QED BY <1>1, <1>2, <2>2, <2>4, <2>5 DEF Facts, Fresh, Alone
<1>3. CASE before # "residue"
  <2>1. world = orig /\ pend = <<>> /\ Len(pend) = 0
    BY <1>3, Beginnings, NothingLeft
  <2>2. Records /\ Plain
    BY <1>1, <2>1, StartIsTheUsers DEF Records, Plain
  <2>3. Alone
    <3>1. ASSUME NEW s \in Slots, Ours(world[s].val) PROVE world[s].val = target
      <4>1. kind \in Proxies /\ world[s] = Value("mine", "off")
        BY <1>1, <2>1, <3>1, StartIsTheUsers
      <4>2. target = "mine"
        BY <4>1, InitWorking DEF Working, Target, Proxies
      <4> QED BY <4>1, <4>2 DEF Value
    <3> QED BY <1>3, <2>1, <3>1 DEF Alone
  <2> QED BY <1>1, <1>3, <2>1, <2>2, <2>3 DEF Facts, Fresh
<1> QED BY <1>2, <1>3

LEMMA InitPayments ==
    ASSUME Init
    PROVE  Payments
<1>0. /\ Workload /\ Users /\ orig \in [Slots -> Entry] /\ pc = "prepare" /\ TypeInv
      /\ \A s \in Slots : orig[s] \in UserStart
  BY Beginnings, InitWorking DEF Init, Users, Working
<1>1. RouteAdd /\ Sweep
  BY <1>0 DEF RouteAdd, Sweep
<1>2. ASSUME Settling, NEW s \in Slots, InForce(s)
      PROVE  \E i \in 1..Len(pend) : ~pend[i].adopted
  <2>1. Ours(world[s].val)
    BY <1>0, <1>2, ForceIsOurs
  <2>2. CASE before # "residue"
    <3>1. kind \in Proxies /\ world[s] = Value("mine", "off")
      BY <1>0, <2>1, <2>2, Beginnings, StartIsTheUsers
    <3> QED BY <1>2, <3>1 DEF InForce, Value, Proxies
  <2>3. CASE before = "residue"
    <3>1. PICK d \in DeadTargets, hit \in SUBSET Slots : LeftBehind(d, hit)
      BY <2>3, Beginnings
    <3>2. Len(pend) = 1 /\ pend[1] = DeadRecord(d)
      BY <3>1, OneElement DEF LeftBehind
    <3>3. ~DeadRecord(d).adopted
      <4>1. DeadRecord(d).adopted = (kind = "route" /\ \E t \in Slots : orig[t].val = "twin")
        BY DEF DeadRecord
      <4>2. CASE kind = "route"
        <5>1. s \in hit
          <6>1. orig[s].val # "mine" /\ world[s].val = "mine"
            BY <1>0, <2>1, <4>2, StartIsTheUsers DEF canAdopt, Ours, Proxies
          <6> QED BY <3>1, <6>1 DEF LeftBehind
        <5>2. orig[s].val = "none"
          BY <3>1, <4>2, <5>1 DEF LeftBehind
        <5>3. \A t \in Slots : t = s
          BY <4>2, OneRoute
        <5> QED BY <4>1, <5>2, <5>3
      <4> QED BY <4>1, <4>2
    <3>4. 1 \in 1..Len(pend)
      BY <3>2
    <3> QED BY <3>2, <3>3, <3>4
  <2> QED BY <2>2, <2>3
<1> QED BY <1>1, <1>2 DEF Payments, Owing, AnyInForce

LEMMA InitReturns ==
    ASSUME Init
    PROVE  Returns
<1>0. /\ Workload /\ Users /\ orig \in [Slots -> Entry] /\ pc = "prepare"
      /\ \A s \in Slots : orig[s] \in UserStart
  BY Beginnings DEF Init, Users
<1>1. Delete
  BY <1>0 DEF Delete
<1>2. CASE before = "residue"
  <2>1. PICK d \in DeadTargets, hit \in SUBSET Slots : LeftBehind(d, hit)
    BY <1>2, Beginnings
  <2>2. Len(pend) = 1 /\ pend[1] = DeadRecord(d) /\ pend # <<>>
    BY <2>1, OneElement DEF LeftBehind
  <2>3. ASSUME NEW s \in Slots
        PROVE  /\ DeadRecord(d).prev[s] = IF canAdopt THEN Value("none", "-") ELSE orig[s]
               /\ world[s] = orig[s] \/ (world[s] = Installed(d) /\ s \in hit)
               /\ Installed(d).val = d /\ (kind # "dns" => d \in {"mine", "dead"})
               /\ canAdopt => Installed(d) = Value("mine", "-")
    <3>1. /\ DeadRecord(d).prev[s] = IF canAdopt THEN Value("none", "-") ELSE orig[s]
          /\ Installed(d).val = d /\ (kind # "dns" => d \in {"mine", "dead"})
          /\ Installed(d) \in Entry /\ (canAdopt => Installed(d).state = "-" /\ d = "mine")
      BY <1>0, <1>2, DeadRun
    <3>2. world[s] = orig[s] \/ (world[s] = Installed(d) /\ s \in hit)
      BY <2>1 DEF LeftBehind
    <3> QED BY <3>1, <3>2, EntryIs
  <2>4. Base /\ Settled
    <3>1. \A u : Captured(u, u)
      BY DEF Captured
    <3> QED BY <2>2, <2>3, <3>1 DEF Base, Settled
  <2>5. Mixed
    <3>1. ASSUME kind \in Proxies, NEW s \in Slots
          PROVE  /\ world[s].val \in {orig[s].val, "none", "mine", "dead"}
                 /\ \A i \in 1..Len(pend) : pend[i].prev[s].val \in {orig[s].val, "none"}
      <4>1. ~canAdopt /\ kind # "dns"
        BY <3>1 DEF canAdopt, Proxies
      <4>2. \A i \in 1..Len(pend) : pend[i] = DeadRecord(d)
        BY <2>2
      <4> QED BY <2>3, <4>1, <4>2
    <3> QED BY <3>1 DEF Mixed
  <2>6. Routes
    <3>1. ASSUME canAdopt, NEW s \in Slots, s \in hit PROVE orig[s] = Value("none", "-")
      <4>1. /\ orig[s].state = "-" /\ orig[s] \in Entry
            /\ kind = "ifconfig" => orig[s] = Value("none", "-")
        BY <1>0, <3>1, StartIsTheUsers
      <4>2. kind = "route" => orig[s].val = "none"
        BY <2>1, <3>1 DEF LeftBehind
      <4> QED BY <3>1, <4>1, <4>2, EntryIs DEF canAdopt
    <3> QED BY <2>3, <3>1 DEF Routes
  <2>7. Twin
    <3>1. DeadRecord(d).adopted = (kind = "route" /\ \E t \in Slots : orig[t].val = "twin")
      BY DEF DeadRecord
    <3>2. \A i \in 1..Len(pend) : pend[i] = DeadRecord(d)
      BY <2>2
    <3> QED BY <3>1, <3>2 DEF Twin
  <2> QED BY <1>1, <2>4, <2>5, <2>6, <2>7 DEF Returns
<1>3. CASE before # "residue"
  <2>1. world = orig /\ pend = <<>> /\ Len(pend) = 0
    BY <1>3, Beginnings, NothingLeft
  <2>2. \A s \in Slots : Restored(s)
    BY <2>1, RestoredWhenSame
  <2> QED BY <1>1, <2>1, <2>2 DEF Returns, Base, Settled, Mixed, Routes, Twin
<1> QED BY <1>2, <1>3

-----------------------------------------------------------------------------
(* The theorems.                                                           *)

LEMMA Invariance == Spec => []IInv
<1>1. Init => IInv
  BY InitWorking, InitFacts, InitPayments, InitReturns DEF IInv
<1>2. IInv /\ [Next]_vars => IInv'
  BY WorkingKept, FactsKept, PaymentsKept, ReturnsKept DEF IInv, Payments
<1> QED BY <1>1, <1>2, PTL DEF Spec

\* The machine, the journal and the commands of an Op keep their shape: every
\* setting holds a value of its kind, every record is one an Op wrote, and every
\* command is one of this Op's (netstate/op_*.go).
THEOREM TypeCorrect == Spec => []TypeInv
<1>1. IInv => TypeInv
  BY DEF IInv, Working
<1> QED BY <1>1, Invariance, PTL

\* Whatever was interrupted, refused or believed by mistake, once the last record
\* is closed what the user had is what the user has, with the exceptions the code
\* makes (op_*.go Revert and VerifyReverted, manager.go:334-391).
THEOREM UserGetsBack == Spec => []UserGetsThemBack
<1>1. IInv => UserGetsThemBack
  BY DEF IInv, Returns, Settled, Trusted, Excused, UserGetsThemBack
<1> QED BY <1>1, Invariance, PTL

-----------------------------------------------------------------------------
(* The Op keeps the promise of Restoration.                                *)

\* A record is written or struck off over a machine that does not change.
LEMMA SettlesOnly ==
    ASSUME Working, Course, Shape, (pend # <<>>)' # (pend # <<>>)
    PROVE  world' = world
<1>1. CASE Issues \/ Rests \/ Vanish \/ Outside
             \/ \E j \in 1..Len(pend), sees \in BOOLEAN : Starts(j, sees)
  <2>1. pend' = pend
    BY <1>1, CommandStep, OutsideStep DEF Rests, Starts, Working
  <2> QED BY <2>1
<1>2. CASE (\E adopted \in BOOLEAN : Writes(adopted)) \/ \E j \in 1..Len(pend) : Strikes(j)
  BY <1>2 DEF Writes, Strikes, Still
<1> QED BY <1>1, <1>2 DEF Shape

LEMMA PromiseKept ==
    ASSUME IInv, Settling, [Next]_vars
    PROVE  [Abstract!Next]_<<pend # <<>>, \E s \in Slots : InForce(s)>>
<1>0. /\ Working /\ Facts /\ Payments /\ Returns /\ Course /\ Shape /\ Owing
      /\ Owing' /\ Settling' /\ Settling
  <2>1. Working /\ Facts /\ Payments /\ Returns /\ Course /\ Shape /\ Owing
    BY StepShape DEF IInv, Payments
  <2>2. Settling' = Settling
    BY <2>1, SameSense DEF Settling
  <2> QED BY <2>1, <2>2, OwingKept
<1>1. AnyInForce => pend # <<>>
  BY <1>0, NoneLeft DEF Owing, Working
<1>2. AnyInForce' => (pend # <<>>)'
  <2>1. pend' = <<>> => Len(pend') = 0
    BY NothingLeft
  <2> QED BY <1>0, <2>1 DEF Owing
<1>3. world' = world => AnyInForce' = AnyInForce
  <2>1. kind' = kind /\ Slots' = Slots
    BY <1>0, SameSense
  <2> QED BY <2>1 DEF AnyInForce, InForce
<1>4. (pend # <<>>)' # (pend # <<>>) => AnyInForce' = AnyInForce
  BY <1>0, <1>3, SettlesOnly
<1>5. CASE pend = <<>> /\ pend' # <<>>
  <2>1. Abstract!Promise
    BY <1>4, <1>5 DEF Abstract!Promise, AnyInForce
  <2> QED BY <2>1 DEF Abstract!Next
<1>6. CASE pend # <<>> /\ pend' # <<>>
  <2>1. Abstract!Change
    BY <1>6 DEF Abstract!Change
  <2> QED BY <2>1 DEF Abstract!Next
<1>7. CASE pend # <<>> /\ pend' = <<>>
  <2>1. ~AnyInForce' /\ ~AnyInForce
    BY <1>2, <1>4, <1>7
  <2>2. Abstract!Settle
    BY <1>7, <2>1 DEF Abstract!Settle, AnyInForce
  <2> QED BY <2>2 DEF Abstract!Next
<1>8. CASE pend = <<>> /\ pend' = <<>>
  <2>1. ~AnyInForce' /\ ~AnyInForce
    BY <1>1, <1>2, <1>8
  <2> QED BY <1>8, <2>1 DEF AnyInForce
<1> QED BY <1>5, <1>6, <1>7, <1>8

\* Something of dpb's is in force only while a record of it is outstanding, and
\* the last record is closed only when nothing of it is left, however the run, the
\* replays and the commands fail (manager.go:240-268, op_*.go VerifyReverted).
\* Not over the residue of a dead run's DNS change: there the run's own list may
\* be noted as what the user had, and the younger record be closed first.
THEOREM ImplementsRestoration ==
    ASSUME \A w \in Workloads : ~(w[1] = "dns" /\ w[2] = "residue")
    PROVE  Spec => Promised
<1>1. Init => IInv /\ Settling
  <2>1. Init => IInv
    BY InitWorking, InitFacts, InitPayments, InitReturns DEF IInv
  <2>2. Init => Settling
    BY DEF Init, Settling
  <2> QED BY <2>1, <2>2
<1>2. IInv /\ Settling /\ [Next]_vars => (IInv /\ Settling)'
  <2>1. IInv /\ [Next]_vars => IInv' /\ Course
    BY WorkingKept, FactsKept, PaymentsKept, ReturnsKept, StepShape DEF IInv, Payments
  <2>2. Course => Settling' = Settling
    BY SameSense DEF Settling
  <2> QED BY <2>1, <2>2
<1>3. Init => Abstract!Init
  <2>1. Init => Owing /\ TypeInv
    BY InitPayments, InitWorking DEF Payments, Working
  <2>2. Init => Settling
    BY DEF Init, Settling
  <2>3. Init => (AnyInForce => pend # <<>>)
    BY <2>1, <2>2, NoneLeft DEF Owing
  <2> QED BY <2>3 DEF Abstract!Init, AnyInForce
<1>4. IInv /\ Settling /\ [Next]_vars
         => [Abstract!Next]_<<pend # <<>>, \E s \in Slots : InForce(s)>>
  BY PromiseKept
<1> QED BY <1>1, <1>2, <1>3, <1>4, PTL DEF Spec, Promised, Abstract!Spec

=============================================================================
