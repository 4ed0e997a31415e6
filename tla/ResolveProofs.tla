--------------------------- MODULE ResolveProofs ----------------------------
(***************************************************************************)
(* Proofs about Resolve for any number of concurrent questions, any chain  *)
(* of resolvers, any networks and censors.                                 *)
EXTENDS Resolve, FiniteSetTheorems, SequenceTheorems, TLAPS

Walk == [pc: Steps, q: Questions \cup {None}, nat64: BOOLEAN, i: Nat \ {0},
         only: BOOLEAN, trunc: Answer \cup {None}, left: Nat, try: Nat,
         ans: Answer \cup {None}, from: Nets \cup {None}, tried: SUBSET Nat, gone: BOOLEAN]

Judging == {"check", "learn", "recheck", "mark", "flush"}
Walking == Judging \cup {"rung", "sent"}

\* Not known to be a lie: without an address, or past the sinkhole list.
Clean == {r \in Answer : r.addr # None => ~IsSinkhole(r.addr)}
Entry == {e \in [addr: Addrs \cup {None}, from: Nets \cup {None}] :
            e.addr # None => ~IsSinkhole(e.addr)}

AskedFor(w) == IF w.nat64 THEN NatProbe ELSE w.q[1]

Typed(a, w) ==
    /\ w \in Walk
    /\ w.pc # "idle" => w.q \in Questions
    /\ a \in work.timed => w.try <= w.left
    /\ w.pc \in {"decide", "lock"} => w.try = 0

\* What the detector has made sure of by the time a walk is at this step.
Judged(w) ==
    /\ w.pc \in Judging => w.ans \in [addr: Addrs, trunc: BOOLEAN]
    /\ w.pc \in {"learn", "recheck"} => ~IsSinkhole(w.ans.addr)
    /\ w.pc \in {"put", "probed"} => w.ans \in Clean \cup {None}
    /\ w.pc = "put" => w.ans \in Clean
    /\ w.trunc \in Clean \cup {None}

\* The rungs a walk has still to ask, from the i-th on.
Ahead(w, i) == Cardinality({j \in i..Len(Rungs) : Eligible(w, j)})
NextRung(w) == IF w.pc = "rung" THEN w.i ELSE w.i + 1
AllAsked(w) == w.gone \/ \A j \in DOMAIN Rungs : Plain(j) \/ j \in w.tried

\* A walk's share: what is behind it was asked, and there is a second for
\* each rung ahead of it.
Granted(w) == w.q \in Questions /\ w.q[2] = "A" /\ Deadline >= Len(Rungs)
Shared(a, w) ==
    Granted(w) =>
      /\ ~w.nat64 /\ w.pc \notin {"decide", "lock", "probed"}
      /\ w.pc = "cache" =>
           w.i = 1 /\ ~w.only /\ (a \in work.timed => w.left - w.try >= Ahead(w, 1))
      /\ w.pc \in Walking /\ w.only => AllAsked(w)
      /\ w.pc \in Walking =>
           w.gone \/ \A j \in DOMAIN Rungs : j < NextRung(w) => Plain(j) \/ j \in w.tried
      /\ w.pc \in Walking /\ ~w.only /\ a \in work.timed =>
           w.left - w.try >= Ahead(w, NextRung(w))
      /\ w.pc = "done" /\ w.ans = None => AllAsked(w)

WalkOK(a, w) == Typed(a, w) /\ Judged(w) /\ Shared(a, w)

CacheOK == cache \in [Questions -> Entry \cup {None}]

IInv ==
    /\ work \in Workloads /\ net \in Nets
    /\ CacheOK
    /\ ask \in [Asks -> Walk]
    /\ \A a \in Asks : WalkOK(a, ask[a])

\* Who was let through was counted, and fewer than the quorum were; whoever is
\* about to be let through is counted already.
Counted ==
    /\ sets \in [Addrs -> SUBSET Probes] /\ passed \in [Addrs -> SUBSET Probes]
    /\ \A x \in Addrs : /\ passed[x] \subseteq sets[x]
                        /\ IsFiniteSet(sets[x])
                        /\ Cardinality(passed[x]) < Quorum
    /\ \A a \in Asks : ask[a].pc = "recheck" /\ AskedFor(ask[a]) \in Probes
                         => AskedFor(ask[a]) \in sets[ask[a].ans.addr]

\* The detector has room for one more answer (uniformCap).
Room == Cardinality({x \in Addrs : sets[x] # {}}) < SetCap

-----------------------------------------------------------------------------
(* Counting rungs and dividing time.                                       *)

(* One rung fewer is never more than a walk's product less one.             *)
LEMMA TimesOneLess ==
    ASSUME NEW r \in Nat \ {0}, NEW q \in Nat \ {0}
    PROVE  r * q >= q + (r - 1)
<1>1. r * q = (r - 1) * (q - 1) + q + (r - 1)
  BY SMT
<1>2. (r - 1) * (q - 1) \in Nat
  <2>1. \A x, y \in Nat : x * y \in Nat
    BY SMT
  <2> QED
    BY <2>1, SMT
<1> QED
  BY <1>1, <1>2, SMT

(* A second for each of r rungs leaves, after one share is spent, a second  *)
(* for each of the others.                                                 *)
LEMMA ShareLeaves ==
    ASSUME NEW l \in Nat, NEW r \in Nat \ {0}, l >= r
    PROVE  l \div r \in Nat \ {0} /\ l \div r <= l /\ l - (l \div r) >= r - 1
<1> DEFINE q == l \div r
<1>1. q \in Nat /\ l = r * q + (l % r) /\ l % r \in 0..(r - 1)
  BY SMT
<1>2. q \in Nat \ {0}
  <2>1. SUFFICES ASSUME q = 0 PROVE FALSE
    BY <1>1
  <2>2. r * q = 0
    BY <2>1
  <2> QED
    BY <2>2, <1>1
<1>3. r * q >= q + (r - 1)
  BY <1>2, TimesOneLess
<1> QED
  BY <1>1, <1>2, <1>3, SMT

(* rungBudget never gives more than there is, and gives something while     *)
(* there is a second for each rung left.                                    *)
LEMMA BudgetShares ==
    ASSUME NEW l \in Nat, NEW r \in Nat \ {0}
    PROVE  /\ rungBudget(l, r) \in Nat /\ rungBudget(l, r) <= l
           /\ l >= r => rungBudget(l, r) > 0 /\ l - rungBudget(l, r) >= r - 1
<1>1. PerTry \in Nat \ {0}
  BY BudgetType
<1>2. l \div r \in Nat /\ l \div r <= l
  <2>1. l \div r \in Nat /\ l = r * (l \div r) + (l % r) /\ l % r \in 0..(r - 1)
    BY SMT
  <2>2. \A q \in Nat \ {0} : r * q >= q + (r - 1)
    BY TimesOneLess
  <2> QED
    BY <2>1, <2>2, SMT
<1>3. l >= r => l \div r \in Nat \ {0} /\ l - (l \div r) >= r - 1
  BY ShareLeaves
<1>4. rungBudget(l, r) = IF l = 0 THEN 0
                         ELSE IF l \div r < PerTry THEN l \div r ELSE PerTry
  BY DEF rungBudget
<1> QED
  BY <1>1, <1>2, <1>3, <1>4, SMT

(* The rungs ahead are counted down by asking one, and not by passing over  *)
(* one; none is left beyond the last.                                       *)
LEMMA AheadCounts ==
    ASSUME NEW w, NEW i \in Nat \ {0}
    PROVE  /\ Ahead(w, i) \in Nat
           /\ i > Len(Rungs) => Ahead(w, i) = 0
           /\ Ahead(w, i) = 0 => \A j \in i..Len(Rungs) : ~Eligible(w, j)
           /\ i <= Len(Rungs) /\ Eligible(w, i) => Ahead(w, i) = Ahead(w, i + 1) + 1
           /\ ~Eligible(w, i) => Ahead(w, i) = Ahead(w, i + 1)
<1> DEFINE S(k) == {j \in k..Len(Rungs) : Eligible(w, j)}
<1>1. Len(Rungs) \in Nat
  BY ChainType, LenProperties
<1>2. \A k \in Nat : IsFiniteSet(S(k)) /\ Cardinality(S(k)) \in Nat
  <2> SUFFICES ASSUME NEW k \in Nat PROVE IsFiniteSet(S(k)) /\ Cardinality(S(k)) \in Nat
    OBVIOUS
  <2>1. IsFiniteSet(k..Len(Rungs))
    BY <1>1, FS_Interval
  <2>2. S(k) \in SUBSET (k..Len(Rungs))
    OBVIOUS
  <2>3. IsFiniteSet(S(k))
    BY <2>1, <2>2, FS_Subset
  <2> QED
    BY <2>3, FS_CardinalityType
<1>3. i > Len(Rungs) => S(i) = {}
  BY <1>1
<1>4. i <= Len(Rungs) /\ Eligible(w, i) => S(i) = S(i + 1) \cup {i} /\ i \notin S(i + 1)
  BY <1>1
<1>5. ~Eligible(w, i) => S(i) = S(i + 1)
  BY <1>1
<1>6. i <= Len(Rungs) /\ Eligible(w, i) => Cardinality(S(i)) = Cardinality(S(i + 1)) + 1
  <2>1. IsFiniteSet(S(i + 1)) /\ Cardinality(S(i + 1)) \in Nat
    BY <1>2
  <2> HIDE DEF S
  <2>2. i \notin S(i + 1) => Cardinality(S(i + 1) \cup {i}) = Cardinality(S(i + 1)) + 1
    BY <2>1, FS_AddElement
  <2> QED
    BY <1>4, <2>2
<1>7. Cardinality(S(i)) = 0 <=> S(i) = {}
  BY <1>2, FS_EmptySet
<1>8. \A k \in Nat : Ahead(w, k) = Cardinality(S(k))
  BY DEF Ahead
<1>9. i > Len(Rungs) => Ahead(w, i) = 0
  BY <1>3, <1>7, <1>8
<1>10. Ahead(w, i) = 0 => \A j \in i..Len(Rungs) : ~Eligible(w, j)
  BY <1>7, <1>8
<1> HIDE DEF S
<1> QED
  BY <1>2, <1>5, <1>6, <1>8, <1>9, <1>10

(* With fewer rungs to choose from, fewer are ahead.                        *)
LEMMA AheadShrinks ==
    ASSUME NEW w, NEW v, NEW i \in Nat \ {0},
           \A j \in Nat : Eligible(v, j) => Eligible(w, j)
    PROVE  Ahead(v, i) <= Ahead(w, i)
<1> DEFINE S(u) == {j \in i..Len(Rungs) : Eligible(u, j)}
<1>1. Len(Rungs) \in Nat
  BY ChainType, LenProperties
<1>2. S(v) \in SUBSET S(w) /\ S(w) \in SUBSET (i..Len(Rungs))
  BY <1>1
<1>3. IsFiniteSet(S(w))
  <2>1. IsFiniteSet(i..Len(Rungs))
    BY <1>1, FS_Interval
  <2> HIDE DEF S
  <2> QED
    BY <1>2, <2>1, FS_Subset
<1>4. Cardinality(S(v)) <= Cardinality(S(w))
  BY <1>2, <1>3, FS_Subset
<1> QED
  BY <1>4 DEF Ahead

(* A walk that begins has at most all the rungs ahead of it.                *)
LEMMA AheadAtFirst == ASSUME NEW w PROVE Ahead(w, 1) <= Len(Rungs)
<1>1. Len(Rungs) \in Nat
  BY ChainType, LenProperties
<1>2. {j \in 1..Len(Rungs) : Eligible(w, j)} \in SUBSET (1..Len(Rungs))
  OBVIOUS
<1>3. IsFiniteSet(1..Len(Rungs)) /\ Cardinality(1..Len(Rungs)) = Len(Rungs)
  <2>1. PICK n \in Nat : n = Len(Rungs)
    BY <1>1
  <2>2. IsFiniteSet(1..n) /\ Cardinality(1..n) = IF 1 > n THEN 0 ELSE n - 1 + 1
    BY FS_Interval
  <2>3. (IF 1 > n THEN 0 ELSE n - 1 + 1) = n
    OBVIOUS
  <2> QED BY <2>1, <2>2, <2>3
<1> QED
  BY <1>2, <1>3, FS_Subset DEF Ahead

-----------------------------------------------------------------------------
(* One question moves.                                                     *)

(* What a resolver says is an answer.                                      *)
LEMMA AnswersOnly ==
    ASSUME NEW n, NEW i, NEW q \in Questions \cup {<<NatProbe, "AAAA">>}
    PROVE  Says(n, i, q) \subseteq Answer
<1>1. Truth(n, q) \subseteq Addrs \cup {None}
  <2>1. q[1] # NatProbe => Honest(q[1], q[2]) \in Addrs
    BY QuestionsType DEF Addrs
  <2> QED
    BY <2>1 DEF Truth, Addrs
<1>2. Censor(n, q) \subseteq Addrs
  <2> SUFFICES ASSUME NEW lie \in Lies[q], q \in Questions
               PROVE  <<lie, NatProbe, q[2]>> \in Addrs
    BY DEF Censor
  <2>1. lie \in {"sinkhole", "uniform"} /\ q[2] \in Types
    BY LiesType, QuestionsType
  <2>2. lie = "sinkhole" => <<lie, NatProbe, q[2]>> = Sinkhole(q[2])
    BY DEF Sinkhole
  <2>3. lie = "uniform" => <<lie, NatProbe, q[2]>> = Uniform(q[2])
    BY DEF Uniform
  <2> QED
    BY <2>1, <2>2, <2>3 DEF Addrs
<1> QED
  BY <1>1, <1>2 DEF Says, Answer

(* A step of one question that leaves the network and a clean cache keeps    *)
(* the invariant if its walk is as it should be afterwards.                  *)
LEMMA OneMoves ==
    ASSUME IInv, NEW a \in Asks, NEW w, ask' = [ask EXCEPT ![a] = w], WalkOK(a, w),
           UNCHANGED <<work, net>>, CacheOK'
    PROVE  IInv'
<1>1. ask' \in [Asks -> Walk]
  BY DEF IInv, WalkOK, Typed
<1>2. ASSUME NEW b \in Asks PROVE WalkOK(b, ask[b])'
  <2>1. WalkOK(b, ask'[b])
    BY DEF IInv
  <2> QED
    BY <2>1 DEF WalkOK, Typed, Judged, Shared, Granted
<1> QED
  BY <1>1, <1>2 DEF IInv

\* A walk is the record of its fields, and each is of its type.
Written(w) ==
    w = [pc |-> w.pc, q |-> w.q, nat64 |-> w.nat64, i |-> w.i, only |-> w.only,
         trunc |-> w.trunc, left |-> w.left, try |-> w.try, ans |-> w.ans,
         from |-> w.from, tried |-> w.tried, gone |-> w.gone]
Fields(w) ==
    /\ w.pc \in Steps /\ w.q \in Questions \cup {None} /\ w.nat64 \in BOOLEAN
    /\ w.i \in Nat \ {0} /\ w.only \in BOOLEAN /\ w.trunc \in Answer \cup {None}
    /\ w.left \in Nat /\ w.try \in Nat /\ w.ans \in Answer \cup {None}
    /\ w.from \in Nets \cup {None} /\ w.tried \in SUBSET Nat /\ w.gone \in BOOLEAN

(* A walk is its fields.                                                   *)
LEMMA WalkIs ==
    ASSUME NEW w
    PROVE  w \in Walk <=> Written(w) /\ Fields(w)
<1>1. Written(w) /\ Fields(w) => w \in Walk
  BY SMTT(60) DEF Walk, Fields, Written
<1>2. w \in Walk => Written(w)
  BY DEF Walk, Written
<1>3. w \in Walk => Fields(w)
  BY DEF Walk, Fields
<1> QED
  BY <1>1, <1>2, <1>3

(* What every walk of the invariant has.                                   *)
LEMMA Mine ==
    ASSUME IInv, NEW a \in Asks
    PROVE  /\ ask[a] \in Walk /\ Written(ask[a]) /\ Fields(ask[a])
           /\ WalkOK(a, ask[a]) /\ ask \in [Asks -> Walk]
BY WalkIs DEF IInv

(* A walk keeps what was asked when only its step changes among those that  *)
(* judge.                                                                   *)
LEMMA StepsOn ==
    ASSUME IInv, NEW a \in Asks, NEW step \in Judging, ask[a].pc \in Judging, To(a, step),
           step \in {"learn", "recheck"} => ~IsSinkhole(ask[a].ans.addr)
    PROVE  \E w \in Walk : ask' = [ask EXCEPT ![a] = w] /\ WalkOK(a, w)
<1> DEFINE v == ask[a]
           w == [v EXCEPT !.pc = step]
<1>1. /\ v \in Walk /\ Written(v) /\ Fields(v)
      /\ WalkOK(a, v) /\ ask \in [Asks -> Walk]
  BY Mine
<1>2. ask' = [ask EXCEPT ![a] = w]
  BY <1>1 DEF To
<1>3. /\ w \in Walk /\ w.pc = step
      /\ w.q = v.q /\ w.nat64 = v.nat64 /\ w.i = v.i /\ w.only = v.only
      /\ w.trunc = v.trunc /\ w.left = v.left /\ w.try = v.try /\ w.ans = v.ans
      /\ w.tried = v.tried /\ w.gone = v.gone
  BY <1>1 DEF Walk, Judging, Steps
<1> HIDE DEF w
<1>4. Typed(a, w)
  BY <1>1, <1>3 DEF WalkOK, Typed, Judging
<1>5. Judged(w)
  BY <1>1, <1>3 DEF WalkOK, Judged, Judging
<1>6. Shared(a, w)
  <2>1. NextRung(w) = NextRung(v) /\ (AllAsked(w) <=> AllAsked(v))
        /\ \A i : Ahead(w, i) = Ahead(v, i)
    BY <1>3 DEF NextRung, AllAsked, Ahead, Eligible, Judging
  <2> QED
    BY <1>1, <1>3, <2>1 DEF WalkOK, Shared, Granted, Judging, Walking
<1> QED
  BY <1>2, <1>3, <1>4, <1>5, <1>6 DEF WalkOK

(* A question that ends well needs no rung; one that fails has asked them.  *)
LEMMA AnsweredEnds ==
    ASSUME IInv, NEW a \in Asks, NEW ans \in Answer \cup {None}, Answered(a, ans),
           ask[a].q \in Questions,
           ans = None /\ Granted(ask[a]) => AllAsked(ask[a])
    PROVE  \E w \in Walk : ask' = [ask EXCEPT ![a] = w] /\ WalkOK(a, w)
<1> DEFINE v == ask[a]
<1>0. PICK w : w = [Idle EXCEPT !.pc = "done", !.q = v.q, !.ans = ans, !.gone = v.gone,
                     !.tried = IF ans = None THEN v.tried ELSE {}]
  OBVIOUS
<1>1. /\ v \in Walk /\ Written(v) /\ Fields(v)
      /\ WalkOK(a, v) /\ ask \in [Asks -> Walk]
  BY Mine
<1>2. ask' = [ask EXCEPT ![a] = w]
  BY <1>0 DEF Answered
<1>3. /\ w.pc = "done" /\ w.q = v.q /\ w.nat64 = FALSE /\ w.i = 1 /\ w.only = FALSE
      /\ w.trunc = None /\ w.left = 0 /\ w.try = 0 /\ w.ans = ans /\ w.from = None
      /\ w.gone = v.gone /\ w.tried = IF ans = None THEN v.tried ELSE {}
  BY <1>0 DEF Idle
<1>r. Written(w)
  BY <1>0 DEF Idle, Written
<1>w. w \in Walk
  <2>1. Fields(w)
    <3>1. w.i \in Nat \ {0} /\ w.left \in Nat /\ w.try \in Nat
      BY <1>3
    <3>2. w.tried \in SUBSET Nat /\ w.q \in Questions \cup {None} /\ w.pc \in Steps
          /\ w.gone \in BOOLEAN
      BY <1>1, <1>3 DEF Fields, Steps
    <3> QED
      BY <1>3, <3>1, <3>2, Zenon DEF Fields
  <2> QED
    BY <1>r, <2>1, WalkIs
<1>4. Typed(a, w)
  BY <1>1, <1>3, <1>w DEF Typed
<1>5. Judged(w)
  BY <1>3 DEF Judged, Judging
<1>6. Shared(a, w)
  BY <1>3 DEF Shared, Granted, AllAsked, Walking, Judging
<1> QED
  BY <1>2, <1>w, <1>4, <1>5, <1>6 DEF WalkOK

(* A walk that ends, answered or not, is delivered as it should be.          *)
LEMMA DeliverEnds ==
    ASSUME IInv, NEW a \in Asks, NEW ans \in Clean \cup {None}, Deliver(a, ans),
           ask[a].pc = "rung",
           Granted(ask[a]) => AllAsked(ask[a])
    PROVE  \E w \in Walk : ask' = [ask EXCEPT ![a] = w] /\ WalkOK(a, w)
<1> DEFINE v == ask[a]
<1>1. /\ v \in Walk /\ Written(v) /\ Fields(v)
      /\ WalkOK(a, v) /\ ask \in [Asks -> Walk]
  BY Mine
<1>2. ans \in Answer \cup {None} /\ v.q \in Questions
  BY <1>1 DEF Clean, WalkOK, Typed
<1>3. CASE ~v.nat64 /\ ans = None
  BY <1>2, <1>3, AnsweredEnds DEF Deliver
<1>4. CASE v.nat64 \/ ans # None
  <2> DEFINE w == [v EXCEPT !.pc = IF v.nat64 THEN "probed" ELSE "put", !.ans = ans]
  <2>1. ask' = [ask EXCEPT ![a] = w]
    BY <1>1, <1>4 DEF Deliver
  <2>2. /\ w \in Walk /\ w.pc = (IF v.nat64 THEN "probed" ELSE "put") /\ w.q = v.q
        /\ w.trunc = v.trunc /\ w.left = v.left /\ w.try = v.try /\ w.ans = ans
        /\ w.nat64 = v.nat64
    BY <1>1, <1>2 DEF Walk, Steps
  <2> HIDE DEF w
  <2>3. Typed(a, w)
    BY <1>1, <2>2 DEF Typed, WalkOK
  <2>4. Judged(w)
    BY <1>1, <1>4, <2>2 DEF WalkOK, Judged, Judging
  <2>5. Shared(a, w)
    BY <1>1, <2>2 DEF WalkOK, Shared, Granted, Walking, Judging
  <2> QED
    BY <2>1, <2>2, <2>3, <2>4, <2>5 DEF WalkOK
<1> QED
  BY <1>3, <1>4

(* A walk that is over has asked every rung it owed; then it is delivered,  *)
(* or goes once more over the encrypted rungs.                              *)
LEMMA WalkOverEnds ==
    ASSUME IInv, NEW a \in Asks, WalkOver(a), ask[a].pc = "rung",
           Granted(ask[a]) => AllAsked(ask[a])
    PROVE  \E w \in Walk : ask' = [ask EXCEPT ![a] = w] /\ WalkOK(a, w)
<1> DEFINE v == ask[a]
<1>1. /\ v \in Walk /\ Written(v) /\ Fields(v)
      /\ WalkOK(a, v) /\ ask \in [Asks -> Walk]
  BY Mine
<1>2. CASE v.trunc # None /\ HasEncrypted /\ ~v.only
  <2>0. PICK w : w = [v EXCEPT !.only = TRUE, !.i = 1]
    OBVIOUS
  <2>1. ask' = [ask EXCEPT ![a] = w]
    BY <1>1, <1>2, <2>0 DEF WalkOver
  <2>2. /\ w.pc = v.pc /\ w.q = v.q /\ w.nat64 = v.nat64 /\ w.i = 1 /\ w.only = TRUE
        /\ w.trunc = v.trunc /\ w.left = v.left /\ w.try = v.try /\ w.ans = v.ans
        /\ w.from = v.from /\ w.gone = v.gone /\ w.tried = v.tried
    BY <1>1, <2>0 DEF Written
  <2>r. Written(w)
    BY <1>1, <2>0 DEF Written
  <2>w. w \in Walk
    <3>1. Fields(w)
      <4>1. 1 \in Nat \ {0}
        OBVIOUS
      <4> QED
        BY <1>1, <2>2, <4>1, Zenon DEF Fields
    <3> QED
      BY <2>r, <3>1, WalkIs
  <2>3. Typed(a, w)
    BY <1>1, <2>2, <2>w DEF Typed, WalkOK
  <2>4. Judged(w)
    BY <1>1, <2>2 DEF WalkOK, Judged
  <2>5. Shared(a, w)
    BY <1>1, <2>2 DEF WalkOK, Shared, Granted, AllAsked, Walking, Judging, NextRung
  <2> QED
    BY <2>1, <2>w, <2>3, <2>4, <2>5 DEF WalkOK
<1>3. CASE ~(v.trunc # None /\ HasEncrypted /\ ~v.only)
  <2>1. Deliver(a, v.trunc) /\ v.trunc \in Clean \cup {None}
    BY <1>1, <1>3 DEF WalkOver, WalkOK, Judged
  <2> QED
    BY <2>1, DeliverEnds
<1> QED
  BY <1>2, <1>3

-----------------------------------------------------------------------------
(* A try and its outcome.                                                  *)

(* What a try cost is no more than the walk had.                            *)
LEMMA Affordable ==
    ASSUME IInv, NEW a \in Asks, NEW d \in Spent(a)
    PROVE  /\ d \in Nat /\ ask[a].left - d \in Nat
           /\ a \in work.timed => d <= ask[a].try
           /\ a \notin work.timed => d = 0
<1>1. ask[a] \in Walk /\ (a \in work.timed => ask[a].try <= ask[a].left)
  BY DEF IInv, WalkOK, Typed
<1>2. ask[a].try \in Nat /\ ask[a].left \in Nat
  BY <1>1 DEF Walk
<1> QED
  BY <1>1, <1>2 DEF Spent

(* A resolver that failed leaves the next one its share.                    *)
LEMMA FailMoves ==
    ASSUME IInv, NEW a \in Asks, Fail(a)
    PROVE  \E w \in Walk : ask' = [ask EXCEPT ![a] = w] /\ WalkOK(a, w)
<1> DEFINE v == ask[a]
<1>1. /\ v \in Walk /\ Written(v) /\ Fields(v)
      /\ WalkOK(a, v) /\ ask \in [Asks -> Walk]
  BY Mine
<1>2. PICK d \in Spent(a) :
        ask' = [ask EXCEPT ![a].pc = "rung", ![a].i = @ + 1, ![a].left = @ - d,
                  ![a].try = 0, ![a].from = None]
  BY DEF Fail
<1>3. v.pc = "sent" /\ d \in Nat /\ v.left - d \in Nat
      /\ (a \in work.timed => d <= v.try)
  BY Affordable DEF Fail
<1>4. \E w \in Walk : ask' = [ask EXCEPT ![a] = w] /\ WalkOK(a, w)
  <2>0. PICK w : w = [v EXCEPT !.pc = "rung", !.i = v.i + 1, !.left = v.left - d,
                       !.try = 0, !.from = None]
    OBVIOUS
  <2>1. ask' = [ask EXCEPT ![a] = w]
    BY <1>1, <1>2, <2>0 DEF Walk
  <2>2. /\ w.pc = "rung" /\ w.q = v.q /\ w.nat64 = v.nat64 /\ w.i = v.i + 1
        /\ w.only = v.only /\ w.trunc = v.trunc /\ w.left = v.left - d /\ w.try = 0
        /\ w.ans = v.ans /\ w.from = None /\ w.tried = v.tried /\ w.gone = v.gone
    BY <1>1, <2>0 DEF Written
  <2>3. w \in Walk
    <3>1. Written(w)
      BY <1>1, <2>0 DEF Written
    <3>2. "rung" \in Steps /\ v.i + 1 \in Nat \ {0} /\ v.left - d \in Nat /\ 0 \in Nat
      BY <1>1, <1>3 DEF Steps, Fields
    <3>3. Fields(w)
      BY <1>1, <2>2, <3>2, Zenon DEF Fields
    <3> QED
      BY <3>1, <3>3, WalkIs
  <2>4. Typed(a, w)
    BY <1>1, <1>3, <2>2, <2>3 DEF Typed, WalkOK
  <2>5. Judged(w)
    BY <1>1, <1>3, <2>2 DEF WalkOK, Judged, Judging
  <2>6. Shared(a, w)
    <3>1. NextRung(w) = NextRung(v) /\ (AllAsked(w) <=> AllAsked(v))
          /\ \A i : Ahead(w, i) = Ahead(v, i)
      BY <1>1, <1>3, <2>2 DEF NextRung, AllAsked, Ahead, Eligible
    <3>2. a \in work.timed => w.left - w.try >= v.left - v.try
      BY <1>1, <1>3, <2>2 DEF Fields
    <3>3. Ahead(v, NextRung(v)) \in Nat
      BY <1>1, AheadCounts DEF NextRung, Fields
    <3> QED
      BY <1>1, <1>3, <2>2, <3>1, <3>2, <3>3
      DEF WalkOK, Shared, Granted, Judging, Walking, Fields
  <2> QED
    BY <2>1, <2>3, <2>4, <2>5, <2>6 DEF WalkOK
<1> QED
  BY <1>4

(* An answer that is accepted is kept as a last resort, handed to the probe, *)
(* or on its way to the cache.                                              *)
LEMMA AcceptMoves ==
    ASSUME IInv, NEW a \in Asks, NEW ans \in Clean, NEW d \in Nat,
           ask[a].left - d \in Nat, a \in work.timed => d <= ask[a].try,
           ask[a].pc \in {"sent", "recheck"}, Accept(a, ans, d)
    PROVE  \E w \in Walk : ask' = [ask EXCEPT ![a] = w] /\ WalkOK(a, w)
<1> DEFINE v == ask[a]
<1>1. /\ v \in Walk /\ Written(v) /\ Fields(v)
      /\ WalkOK(a, v) /\ ask \in [Asks -> Walk]
  BY Mine
<1>2. v.pc \in {"sent", "recheck"} /\ ans \in Answer /\ v.left - d \in Nat
      /\ (a \in work.timed => d <= v.try)
  BY DEF Clean
<1>3. CASE ans.trunc /\ Plain(v.i)
  <2>0. PICK w : w = [v EXCEPT !.pc = "rung", !.i = v.i + 1, !.trunc = ans,
                       !.left = v.left - d, !.try = 0, !.ans = None, !.from = None]
    OBVIOUS
  <2>1. ask' = [ask EXCEPT ![a] = w]
    BY <1>1, <1>3, <2>0 DEF Walk, Accept
  <2>2. /\ w.pc = "rung" /\ w.q = v.q /\ w.nat64 = v.nat64 /\ w.i = v.i + 1
        /\ w.only = v.only /\ w.trunc = ans /\ w.left = v.left - d /\ w.try = 0
        /\ w.ans = None /\ w.from = None /\ w.tried = v.tried /\ w.gone = v.gone
    BY <1>1, <2>0 DEF Written
  <2>3. w \in Walk
    <3>1. Written(w)
      BY <1>1, <2>0 DEF Written
    <3>2. "rung" \in Steps /\ v.i + 1 \in Nat \ {0} /\ v.left - d \in Nat /\ 0 \in Nat
           /\ ans \in Answer \cup {None} /\ None \in Answer \cup {None}
      BY <1>1, <1>2 DEF Steps, Fields
    <3>3. Fields(w)
      BY <1>1, <2>2, <3>2, Zenon DEF Fields
    <3> QED
      BY <3>1, <3>3, WalkIs
  <2>4. Typed(a, w)
    BY <1>1, <1>2, <2>2, <2>3 DEF Typed, WalkOK
  <2>5. Judged(w)
    BY <1>1, <1>2, <2>2 DEF WalkOK, Judged, Judging
  <2>6. Shared(a, w)
    <3>1. NextRung(w) = NextRung(v) /\ (AllAsked(w) <=> AllAsked(v))
      BY <1>1, <1>2, <2>2 DEF NextRung, AllAsked
    <3>2. a \in work.timed => w.left - w.try >= v.left - v.try
      BY <1>1, <1>2, <2>2 DEF Fields
    <3>3. NextRung(v) \in Nat \ {0}
      BY <1>1, <1>2 DEF NextRung, Fields
    <3>4. \A j \in Nat : Eligible(w, j) => Eligible(v, j)
      BY <1>2, <2>2, NoneIsNoAnswer DEF Eligible
    <3>5. Ahead(v, NextRung(v)) \in Nat /\ Ahead(w, NextRung(v)) \in Nat
          /\ Ahead(w, NextRung(v)) <= Ahead(v, NextRung(v))
      BY <3>3, <3>4, AheadCounts, AheadShrinks
    <3> QED
      BY <1>1, <1>2, <2>2, <3>1, <3>2, <3>5
      DEF WalkOK, Shared, Granted, Judging, Walking, Fields
  <2> QED
    BY <2>1, <2>3, <2>4, <2>5, <2>6 DEF WalkOK
<1>4. CASE ~(ans.trunc /\ Plain(v.i)) /\ v.nat64
  <2>0. PICK w : w = [v EXCEPT !.pc = "probed", !.ans = ans, !.left = v.left - d, !.try = 0]
    OBVIOUS
  <2>1. ask' = [ask EXCEPT ![a] = w]
    BY <1>1, <1>4, <2>0 DEF Walk, Accept
  <2>2. /\ w.pc = "probed" /\ w.q = v.q /\ w.nat64 = v.nat64 /\ w.i = v.i
        /\ w.only = v.only /\ w.trunc = v.trunc /\ w.left = v.left - d /\ w.try = 0
        /\ w.ans = ans /\ w.from = v.from /\ w.tried = v.tried /\ w.gone = v.gone
    BY <1>1, <2>0 DEF Written
  <2>3. w \in Walk
    <3>1. Written(w)
      BY <1>1, <2>0 DEF Written
    <3>2. "probed" \in Steps /\ v.left - d \in Nat /\ 0 \in Nat /\ ans \in Answer \cup {None}
      BY <1>1, <1>2 DEF Steps, Fields
    <3>3. Fields(w)
      BY <1>1, <2>2, <3>2, Zenon DEF Fields
    <3> QED
      BY <3>1, <3>3, WalkIs
  <2>4. Typed(a, w)
    BY <1>1, <1>2, <2>2, <2>3 DEF Typed, WalkOK
  <2>5. Judged(w)
    BY <1>1, <1>2, <2>2 DEF WalkOK, Judged, Judging
  <2>6. Shared(a, w)
    BY <1>1, <1>2, <1>4, <2>2 DEF WalkOK, Shared, Granted, Walking, Judging
  <2> QED
    BY <2>1, <2>3, <2>4, <2>5, <2>6 DEF WalkOK
<1>5. CASE ~(ans.trunc /\ Plain(v.i)) /\ ~v.nat64
  <2>0. PICK w : w = [v EXCEPT !.pc = "put", !.ans = ans, !.left = 0, !.try = 0]
    OBVIOUS
  <2>1. ask' = [ask EXCEPT ![a] = w]
    BY <1>1, <1>5, <2>0 DEF Walk, Accept
  <2>2. /\ w.pc = "put" /\ w.q = v.q /\ w.nat64 = v.nat64 /\ w.i = v.i
        /\ w.only = v.only /\ w.trunc = v.trunc /\ w.left = 0 /\ w.try = 0
        /\ w.ans = ans /\ w.from = v.from /\ w.tried = v.tried /\ w.gone = v.gone
    BY <1>1, <2>0 DEF Written
  <2>3. w \in Walk
    <3>1. Written(w)
      BY <1>1, <2>0 DEF Written
    <3>2. "put" \in Steps /\ 0 \in Nat /\ ans \in Answer \cup {None}
      BY <1>1, <1>2 DEF Steps, Fields
    <3>3. Fields(w)
      BY <1>1, <2>2, <3>2, Zenon DEF Fields
    <3> QED
      BY <3>1, <3>3, WalkIs
  <2>4. Typed(a, w)
    BY <1>1, <1>2, <2>2, <2>3 DEF Typed, WalkOK
  <2>5. Judged(w)
    BY <1>1, <1>2, <2>2 DEF WalkOK, Judged, Judging
  <2>6. Shared(a, w)
    <3>1. w.pc \notin Walking
      BY <2>2 DEF Walking, Judging
    <3> QED
      BY <1>1, <1>2, <2>2, <3>1 DEF WalkOK, Shared, Granted, Walking, Judging
  <2> QED
    BY <2>1, <2>3, <2>4, <2>5, <2>6 DEF WalkOK
<1> QED
  BY <1>3, <1>4, <1>5

(* An answer without an address is accepted; any other is to be judged.     *)
LEMMA ReceiveMoves ==
    ASSUME IInv, NEW a \in Asks, Receive(a)
    PROVE  \E w \in Walk : ask' = [ask EXCEPT ![a] = w] /\ WalkOK(a, w)
<1> DEFINE v == ask[a]
<1>1. /\ v \in Walk /\ Written(v) /\ Fields(v)
      /\ WalkOK(a, v) /\ ask \in [Asks -> Walk]
  BY Mine
<1> DEFINE asked == IF v.nat64 THEN <<NatProbe, "AAAA">> ELSE v.q
<1>2. PICK d \in Spent(a), ans \in Says(v.from, v.i, asked) :
         \/ ans.addr = None /\ Accept(a, ans, d)
         \/ ans.addr # None
            /\ ask' = [ask EXCEPT ![a].pc = "check", ![a].ans = ans, ![a].left = @ - d, ![a].try = 0]
  BY DEF Receive
<1>3. v.pc = "sent" /\ d \in Nat /\ v.left - d \in Nat
      /\ (a \in work.timed => d <= v.try)
  BY Affordable DEF Receive
<1>4. ans \in Answer
  <2>1. asked \in Questions \cup {<<NatProbe, "AAAA">>}
    BY <1>1, <1>3 DEF WalkOK, Typed
  <2> HIDE DEF asked
  <2> QED
    BY <1>2, <2>1, AnswersOnly
<1>5. CASE ans.addr = None /\ Accept(a, ans, d)
  <2>1. ans \in Clean
    BY <1>4, <1>5 DEF Clean
  <2> QED
    BY <1>3, <1>5, <2>1, AcceptMoves
<1>6. CASE ans.addr # None
           /\ ask' = [ask EXCEPT ![a].pc = "check", ![a].ans = ans, ![a].left = @ - d, ![a].try = 0]
  <2>0. PICK w : w = [v EXCEPT !.pc = "check", !.ans = ans, !.left = v.left - d, !.try = 0]
    OBVIOUS
  <2>1. ask' = [ask EXCEPT ![a] = w]
    BY <1>1, <1>6, <2>0 DEF Walk
  <2>2. /\ w.pc = "check" /\ w.q = v.q /\ w.nat64 = v.nat64 /\ w.i = v.i
        /\ w.only = v.only /\ w.trunc = v.trunc /\ w.left = v.left - d /\ w.try = 0
        /\ w.ans = ans /\ w.from = v.from /\ w.tried = v.tried /\ w.gone = v.gone
    BY <1>1, <2>0 DEF Written
  <2>3. w \in Walk
    <3>1. Written(w)
      BY <1>1, <2>0 DEF Written
    <3>2. "check" \in Steps /\ v.left - d \in Nat /\ 0 \in Nat /\ ans \in Answer \cup {None}
      BY <1>1, <1>3, <1>4 DEF Steps, Fields
    <3>3. Fields(w)
      BY <1>1, <2>2, <3>2, Zenon DEF Fields
    <3> QED
      BY <3>1, <3>3, WalkIs
  <2>4. Typed(a, w)
    BY <1>1, <1>3, <2>2, <2>3 DEF Typed, WalkOK
  <2>5. Judged(w)
    BY <1>1, <1>3, <1>4, <1>6, <2>2 DEF WalkOK, Judged, Judging, Answer
  <2>6. Shared(a, w)
    <3>1. NextRung(w) = NextRung(v) /\ (AllAsked(w) <=> AllAsked(v))
          /\ \A i : Ahead(w, i) = Ahead(v, i)
      BY <1>1, <1>3, <2>2 DEF NextRung, AllAsked, Ahead, Eligible
    <3>2. a \in work.timed => w.left - w.try >= v.left - v.try
      BY <1>1, <1>3, <2>2 DEF Fields
    <3>3. Ahead(v, NextRung(v)) \in Nat
      BY <1>1, AheadCounts DEF NextRung, Fields
    <3> QED
      BY <1>1, <1>3, <2>2, <3>1, <3>2, <3>3
      DEF WalkOK, Shared, Granted, Judging, Walking, Fields
  <2> QED
    BY <2>1, <2>3, <2>4, <2>5, <2>6 DEF WalkOK
<1> QED
  BY <1>2, <1>5, <1>6

(* A condemned answer leaves the next resolver its share.                   *)
LEMMA CondemnMoves ==
    ASSUME IInv, NEW a \in Asks, ask[a].pc \in {"mark", "flush"}, Condemn(a)
    PROVE  \E w \in Walk : ask' = [ask EXCEPT ![a] = w] /\ WalkOK(a, w)
<1> DEFINE v == ask[a]
<1>1. /\ v \in Walk /\ Written(v) /\ Fields(v)
      /\ WalkOK(a, v) /\ ask \in [Asks -> Walk]
  BY Mine
<1>2. v.pc \in {"mark", "flush"}
  OBVIOUS
<1>3. PICK w : w = [v EXCEPT !.pc = "rung", !.i = v.i + 1, !.ans = None, !.from = None]
  OBVIOUS
<1>4. ask' = [ask EXCEPT ![a] = w]
  BY <1>1, <1>3 DEF Walk, Condemn
<1>5. /\ w.pc = "rung" /\ w.q = v.q /\ w.nat64 = v.nat64 /\ w.i = v.i + 1
      /\ w.only = v.only /\ w.trunc = v.trunc /\ w.left = v.left /\ w.try = v.try
      /\ w.ans = None /\ w.from = None /\ w.tried = v.tried /\ w.gone = v.gone
  BY <1>1, <1>3 DEF Written
<1>6. w \in Walk
  <2>1. Written(w)
    BY <1>1, <1>3 DEF Written
  <2>2. "rung" \in Steps /\ v.i + 1 \in Nat \ {0}
    BY <1>1, <1>2 DEF Steps, Fields
  <2>3. Fields(w)
    BY <1>1, <1>5, <2>2, Zenon DEF Fields
  <2> QED
    BY <2>1, <2>3, WalkIs
<1>7. Typed(a, w)
  BY <1>1, <1>2, <1>5, <1>6 DEF Typed, WalkOK
<1>8. Judged(w)
  BY <1>1, <1>2, <1>5 DEF WalkOK, Judged, Judging
<1>9. Shared(a, w)
  <2>1. NextRung(w) = NextRung(v) /\ (AllAsked(w) <=> AllAsked(v))
        /\ \A i : Ahead(w, i) = Ahead(v, i)
    BY <1>1, <1>2, <1>5 DEF NextRung, AllAsked, Ahead, Eligible
  <2> QED
    BY <1>1, <1>2, <1>5, <2>1
    DEF WalkOK, Shared, Granted, Judging, Walking, Fields
<1> QED
  BY <1>4, <1>6, <1>7, <1>8, <1>9 DEF WalkOK

(* A walk that stops because no rung, no caller or no time is left has       *)
(* asked what it owed.                                                      *)
LEMMA NothingOwed ==
    ASSUME IInv, NEW a \in Asks, ask[a].pc = "rung", Granted(ask[a]),
           \/ ask[a].i > Len(Rungs) \/ CtxDone(a)
           \/ /\ a \in work.timed /\ ask[a].i <= Len(Rungs) /\ Eligible(ask[a], ask[a].i)
              /\ rungBudget(ask[a].left, Ahead(ask[a], ask[a].i)) <= 0
    PROVE  AllAsked(ask[a])
<1> DEFINE v == ask[a]
<1>1. /\ v \in Walk /\ Written(v) /\ Fields(v)
      /\ WalkOK(a, v) /\ ask \in [Asks -> Walk]
  BY Mine
<1>2. SUFFICES ASSUME ~v.gone, ~v.only
               PROVE  \A j \in DOMAIN Rungs : Plain(j) \/ j \in v.tried
  BY <1>1 DEF AllAsked, WalkOK, Shared, Walking
<1>3. /\ v.i \in Nat \ {0} /\ v.left \in Nat /\ v.try \in Nat
      /\ \A j \in DOMAIN Rungs : j < v.i => Plain(j) \/ j \in v.tried
      /\ a \in work.timed => v.left - v.try >= Ahead(v, v.i)
  BY <1>1, <1>2 DEF Fields, WalkOK, Shared, Walking, NextRung
<1>4. Len(Rungs) \in Nat /\ DOMAIN Rungs = 1..Len(Rungs)
  BY ChainType, LenProperties
<1>5. CASE v.i > Len(Rungs)
  BY <1>3, <1>4, <1>5
<1>6. ASSUME a \in work.timed, Ahead(v, v.i) = 0
      PROVE  \A j \in DOMAIN Rungs : Plain(j) \/ j \in v.tried
  <2>1. \A j \in v.i..Len(Rungs) : Plain(j)
    BY <1>2, <1>3, <1>6, AheadCounts DEF Eligible
  <2> QED
    BY <1>3, <1>4, <2>1
<1>7. Ahead(v, v.i) \in Nat
  BY <1>3, AheadCounts
<1>8. CASE CtxDone(a)
  <2>1. a \in work.timed /\ v.left = 0
    BY <1>2, <1>8 DEF CtxDone
  <2>2. Ahead(v, v.i) = 0
    BY <1>3, <1>7, <2>1
  <2> QED
    BY <1>6, <2>1, <2>2
<1>9. CASE /\ a \in work.timed /\ v.i <= Len(Rungs) /\ Eligible(v, v.i)
           /\ rungBudget(v.left, Ahead(v, v.i)) <= 0
  <2>1. Ahead(v, v.i) \in Nat \ {0} /\ v.left >= Ahead(v, v.i)
    <3>1. Ahead(v, v.i) = Ahead(v, v.i + 1) + 1 /\ Ahead(v, v.i + 1) \in Nat
      BY <1>3, <1>9, AheadCounts
    <3> QED
      BY <1>3, <1>7, <1>9, <3>1
  <2>2. rungBudget(v.left, Ahead(v, v.i)) \in Nat /\ rungBudget(v.left, Ahead(v, v.i)) > 0
    BY <1>3, <2>1, BudgetShares
  <2> QED
    BY <1>9, <2>2
<1> QED
  BY <1>5, <1>8, <1>9

(* One turn of the loop keeps every rung's share.                           *)
LEMMA RungMoves ==
    ASSUME IInv, NEW a \in Asks, Rung(a)
    PROVE  \E w \in Walk : ask' = [ask EXCEPT ![a] = w] /\ WalkOK(a, w)
<1> DEFINE v == ask[a]
<1>1. /\ v \in Walk /\ Written(v) /\ Fields(v)
      /\ WalkOK(a, v) /\ ask \in [Asks -> Walk]
  BY Mine
<1> DEFINE budget == IF a \in work.timed THEN rungBudget(v.left, Ahead(v, v.i)) ELSE PerTry
<1>2. v.pc = "rung" /\ PerTry \in Nat \ {0} /\ net \in Nets
  BY BudgetType DEF Rung, IInv
<1>3. \/ (v.i > Len(Rungs) \/ CtxDone(a)) /\ WalkOver(a)
      \/ ask' = [ask EXCEPT ![a].gone = TRUE]
      \/ /\ v.i <= Len(Rungs) /\ ~CtxDone(a)
         /\ \/ ~Eligible(v, v.i) /\ ask' = [ask EXCEPT ![a].i = @ + 1]
            \/ Eligible(v, v.i) /\ budget <= 0 /\ WalkOver(a)
            \/ /\ Eligible(v, v.i) /\ budget > 0
               /\ ask' = [ask EXCEPT ![a].pc = "sent", ![a].try = budget,
                           ![a].from = net, ![a].tried = @ \cup {v.i}]
  BY Zenon DEF Rung, Ahead
<1> HIDE DEF budget
<1>4. CASE (v.i > Len(Rungs) \/ CtxDone(a)) /\ WalkOver(a)
  BY <1>2, <1>4, NothingOwed, WalkOverEnds
<1>5. CASE ask' = [ask EXCEPT ![a].gone = TRUE]
  <2>0. PICK w : w = [v EXCEPT !.gone = TRUE]
    OBVIOUS
  <2>1. ask' = [ask EXCEPT ![a] = w]
    BY <1>1, <1>5, <2>0 DEF Walk
  <2>2. /\ w.pc = v.pc /\ w.q = v.q /\ w.nat64 = v.nat64 /\ w.i = v.i
        /\ w.only = v.only /\ w.trunc = v.trunc /\ w.left = v.left /\ w.try = v.try
        /\ w.ans = v.ans /\ w.from = v.from /\ w.tried = v.tried /\ w.gone = TRUE
    BY <1>1, <2>0 DEF Written
  <2>3. w \in Walk
    <3>1. Written(w)
      BY <1>1, <2>0 DEF Written
    <3>2. TRUE \in BOOLEAN
      OBVIOUS
    <3>3. Fields(w)
      BY <1>1, <2>2, <3>2, Zenon DEF Fields
    <3> QED
      BY <3>1, <3>3, WalkIs
  <2>4. Typed(a, w)
    BY <1>1, <1>2, <2>2, <2>3 DEF Typed, WalkOK
  <2>5. Judged(w)
    BY <1>1, <1>2, <2>2 DEF WalkOK, Judged, Judging
  <2>6. Shared(a, w)
    <3>1. NextRung(w) = NextRung(v) /\ AllAsked(w) /\ \A i : Ahead(w, i) = Ahead(v, i)
      BY <1>1, <1>2, <2>2 DEF NextRung, AllAsked, Ahead, Eligible
    <3> QED
      BY <1>1, <1>2, <2>2, <3>1 DEF WalkOK, Shared, Granted, Judging, Walking
  <2> QED
    BY <2>1, <2>3, <2>4, <2>5, <2>6 DEF WalkOK
<1>6. CASE /\ v.i <= Len(Rungs) /\ ~Eligible(v, v.i)
           /\ ask' = [ask EXCEPT ![a].i = @ + 1]
  <2>0. PICK w : w = [v EXCEPT !.i = v.i + 1]
    OBVIOUS
  <2>1. ask' = [ask EXCEPT ![a] = w]
    BY <1>1, <1>6, <2>0 DEF Walk
  <2>2. /\ w.pc = v.pc /\ w.q = v.q /\ w.nat64 = v.nat64 /\ w.i = v.i + 1
        /\ w.only = v.only /\ w.trunc = v.trunc /\ w.left = v.left /\ w.try = v.try
        /\ w.ans = v.ans /\ w.from = v.from /\ w.tried = v.tried /\ w.gone = v.gone
    BY <1>1, <2>0 DEF Written
  <2>3. w \in Walk
    <3>1. Written(w)
      BY <1>1, <2>0 DEF Written
    <3>2. v.i + 1 \in Nat \ {0}
      BY <1>1 DEF Fields
    <3>3. Fields(w)
      BY <1>1, <2>2, <3>2, Zenon DEF Fields
    <3> QED
      BY <3>1, <3>3, WalkIs
  <2>4. Typed(a, w)
    BY <1>1, <1>2, <2>2, <2>3 DEF Typed, WalkOK
  <2>5. Judged(w)
    BY <1>1, <1>2, <2>2 DEF WalkOK, Judged, Judging
  <2>6. Shared(a, w)
    <3>1. NextRung(w) = v.i + 1 /\ NextRung(v) = v.i /\ (AllAsked(w) <=> AllAsked(v))
          /\ Ahead(w, v.i + 1) = Ahead(v, v.i + 1)
      BY <1>1, <1>2, <2>2 DEF NextRung, AllAsked, Ahead, Eligible
    <3>2. Ahead(v, v.i) = Ahead(v, v.i + 1)
      BY <1>1, <1>6, AheadCounts DEF Fields
    <3>3. ~v.only => Plain(v.i)
      BY <1>6 DEF Eligible
    <3>4. \A j \in DOMAIN Rungs : j < v.i + 1 => j < v.i \/ j = v.i
      <4>1. DOMAIN Rungs = 1..Len(Rungs) /\ Len(Rungs) \in Nat
        BY ChainType, LenProperties
      <4> QED
        BY <1>1, <4>1 DEF Fields
    <3> QED
      BY <1>1, <1>2, <2>2, <3>1, <3>2, <3>3, <3>4
      DEF WalkOK, Shared, Granted, Judging, Walking, AllAsked
  <2> QED
    BY <2>1, <2>3, <2>4, <2>5, <2>6 DEF WalkOK
<1>7. CASE v.i <= Len(Rungs) /\ Eligible(v, v.i) /\ budget <= 0 /\ WalkOver(a)
  <2>1. a \in work.timed /\ rungBudget(v.left, Ahead(v, v.i)) <= 0
    BY <1>2, <1>7 DEF budget
  <2> QED
    BY <1>2, <1>7, <2>1, NothingOwed, WalkOverEnds
<1>8. CASE /\ v.i <= Len(Rungs) /\ Eligible(v, v.i) /\ budget > 0
           /\ ask' = [ask EXCEPT ![a].pc = "sent", ![a].try = budget,
                       ![a].from = net, ![a].tried = @ \cup {v.i}]
  <2>a. /\ v.i \in Nat \ {0} /\ v.left \in Nat /\ v.try \in Nat
        /\ Ahead(v, v.i) = Ahead(v, v.i + 1) + 1 /\ Ahead(v, v.i + 1) \in Nat
    BY <1>1, <1>8, AheadCounts DEF Fields
  <2>b. /\ budget \in Nat
        /\ a \in work.timed => budget <= v.left
        /\ a \in work.timed /\ v.left >= Ahead(v, v.i) => v.left - budget >= Ahead(v, v.i + 1)
    <3>1. Ahead(v, v.i) \in Nat \ {0} /\ Ahead(v, v.i) - 1 = Ahead(v, v.i + 1)
      BY <2>a
    <3> QED
      BY <1>2, <2>a, <3>1, BudgetShares DEF budget
  <2>0. PICK w : w = [v EXCEPT !.pc = "sent", !.try = budget, !.from = net,
                       !.tried = v.tried \cup {v.i}]
    OBVIOUS
  <2>1. ask' = [ask EXCEPT ![a] = w]
    BY <1>1, <1>8, <2>0 DEF Walk
  <2>2. /\ w.pc = "sent" /\ w.q = v.q /\ w.nat64 = v.nat64 /\ w.i = v.i
        /\ w.only = v.only /\ w.trunc = v.trunc /\ w.left = v.left /\ w.try = budget
        /\ w.ans = v.ans /\ w.from = net /\ w.tried = v.tried \cup {v.i} /\ w.gone = v.gone
    BY <1>1, <2>0 DEF Written
  <2>3. w \in Walk
    <3>1. Written(w)
      BY <1>1, <2>0 DEF Written
    <3>2. "sent" \in Steps /\ budget \in Nat /\ net \in Nets \cup {None}
           /\ v.tried \cup {v.i} \in SUBSET Nat
      BY <1>1, <1>2, <2>a, <2>b DEF Fields, Steps
    <3>3. Fields(w)
      BY <1>1, <2>2, <3>2, Zenon DEF Fields
    <3> QED
      BY <3>1, <3>3, WalkIs
  <2>4. Typed(a, w)
    BY <1>1, <1>2, <2>b, <2>2, <2>3 DEF Typed, WalkOK
  <2>5. Judged(w)
    BY <1>1, <1>2, <2>2 DEF WalkOK, Judged, Judging
  <2>6. Shared(a, w)
    <3>1. NextRung(w) = v.i + 1 /\ NextRung(v) = v.i /\ (AllAsked(v) => AllAsked(w))
          /\ Ahead(w, v.i + 1) = Ahead(v, v.i + 1)
      BY <1>1, <1>2, <2>2 DEF NextRung, AllAsked, Ahead, Eligible
    <3>2. \A j \in DOMAIN Rungs : j < v.i + 1 => j < v.i \/ j = v.i
      <4>1. DOMAIN Rungs = 1..Len(Rungs) /\ Len(Rungs) \in Nat
        BY ChainType, LenProperties
      <4> QED
        BY <2>a, <4>1
    <3>3. a \in work.timed /\ v.left - v.try >= Ahead(v, v.i) => w.left - w.try >= Ahead(v, v.i + 1)
      BY <2>a, <2>b, <2>2
    <3> QED
      BY <1>1, <1>2, <2>2, <3>1, <3>2, <3>3
      DEF WalkOK, Shared, Granted, Judging, Walking
  <2> QED
    BY <2>1, <2>3, <2>4, <2>5, <2>6 DEF WalkOK
<1> QED
  BY <1>3, <1>4, <1>5, <1>6, <1>7, <1>8

-----------------------------------------------------------------------------
(* The question around its walk.                                            *)

(* A new question has the whole deadline, a second for each rung.           *)
LEMMA AskMoves ==
    ASSUME IInv, NEW a \in Asks, NEW q \in Questions, Ask(a, q)
    PROVE  \E w \in Walk : ask' = [ask EXCEPT ![a] = w] /\ WalkOK(a, w)
<1> DEFINE v == ask[a]
<1>1. /\ v \in Walk /\ Written(v) /\ Fields(v)
      /\ WalkOK(a, v) /\ ask \in [Asks -> Walk]
  BY Mine
<1>2. Deadline \in Nat
  BY BudgetType
<1>3. PICK w : w = [Idle EXCEPT !.q = q, !.pc = IF q[2] = "AAAA" THEN "decide" ELSE "cache",
                     !.left = IF a \in work.timed THEN Deadline ELSE 0]
  OBVIOUS
<1>4. ask' = [ask EXCEPT ![a] = w]
  BY <1>3 DEF Ask
<1>5. /\ w.pc = (IF q[2] = "AAAA" THEN "decide" ELSE "cache") /\ w.q = q /\ w.nat64 = FALSE
      /\ w.i = 1 /\ w.only = FALSE /\ w.trunc = None /\ w.try = 0 /\ w.ans = None
      /\ w.left = (IF a \in work.timed THEN Deadline ELSE 0)
      /\ w.from = None /\ w.tried = {} /\ w.gone = FALSE
  BY <1>3 DEF Idle
<1>6. w \in Walk
  <2>1. Written(w)
    BY <1>3 DEF Idle, Written
  <2>2. w.pc \in Steps /\ w.left \in Nat /\ 0 \in Nat /\ 1 \in Nat \ {0} /\ {} \in SUBSET Nat
    BY <1>2, <1>5 DEF Steps
  <2>3. Fields(w)
    BY <1>5, <2>2, Zenon DEF Fields
  <2> QED
    BY <2>1, <2>3, WalkIs
<1>7. Typed(a, w)
  BY <1>2, <1>5, <1>6 DEF Typed
<1>8. Judged(w)
  BY <1>5 DEF Judged, Judging
<1>9. Shared(a, w)
  <2>1. Ahead(w, 1) \in Nat /\ Ahead(w, 1) <= Len(Rungs)
    BY AheadCounts, AheadAtFirst
  <2>2. Len(Rungs) \in Nat
    BY ChainType, LenProperties
  <2> QED
    BY <1>2, <1>5, <2>1, <2>2 DEF Shared, Granted, Walking, Judging
<1> QED
  BY <1>4, <1>6, <1>7, <1>8, <1>9 DEF WalkOK

(* A question of an IPv4 address is never a matter of policy.               *)
LEMMA PolicyMoves ==
    ASSUME IInv, NEW a \in Asks, NEW step \in {"lock", "cache"},
           ask[a].pc \in {"decide", "lock"}, To(a, step)
    PROVE  \E w \in Walk : ask' = [ask EXCEPT ![a] = w] /\ WalkOK(a, w)
<1> DEFINE v == ask[a]
<1>1. /\ v \in Walk /\ Written(v) /\ Fields(v)
      /\ WalkOK(a, v) /\ ask \in [Asks -> Walk]
  BY Mine
<1>2. step \in {"lock", "cache"} /\ v.pc \in {"decide", "lock"}
  OBVIOUS
<1>3. PICK w : w = [v EXCEPT !.pc = step]
  OBVIOUS
<1>4. ask' = [ask EXCEPT ![a] = w]
  BY <1>1, <1>3 DEF Walk, To
<1>5. /\ w.pc = step /\ w.q = v.q /\ w.nat64 = v.nat64 /\ w.i = v.i
      /\ w.only = v.only /\ w.trunc = v.trunc /\ w.left = v.left /\ w.try = v.try
      /\ w.ans = v.ans /\ w.from = v.from /\ w.tried = v.tried /\ w.gone = v.gone
  BY <1>1, <1>3 DEF Written
<1>6. w \in Walk
  <2>1. Written(w)
    BY <1>1, <1>3 DEF Written
  <2>2. step \in Steps
    BY <1>2 DEF Steps
  <2>3. Fields(w)
    BY <1>1, <1>5, <2>2, Zenon DEF Fields
  <2> QED
    BY <2>1, <2>3, WalkIs
<1>7. Typed(a, w)
  BY <1>1, <1>2, <1>5, <1>6 DEF Typed, WalkOK
<1>8. Judged(w)
  BY <1>1, <1>2, <1>5 DEF WalkOK, Judged, Judging
<1>9. Shared(a, w)
  BY <1>1, <1>2, <1>5 DEF WalkOK, Shared, Granted, Walking, Judging
<1> QED
  BY <1>4, <1>6, <1>7, <1>8, <1>9 DEF WalkOK

(* The NAT64 probe begins, and its outcome is taken.                        *)
LEMMA StartProbeMoves ==
    ASSUME IInv, NEW a \in Asks, StartProbe(a)
    PROVE  \E w \in Walk : ask' = [ask EXCEPT ![a] = w] /\ WalkOK(a, w)
<1> DEFINE v == ask[a]
<1>1. /\ v \in Walk /\ Written(v) /\ Fields(v)
      /\ WalkOK(a, v) /\ ask \in [Asks -> Walk]
  BY Mine
<1>2. PICK waited \in {0, v.left} :
        ask' = [ask EXCEPT ![a].pc = "rung", ![a].nat64 = TRUE, ![a].left = @ - waited]
  BY DEF StartProbe
<1>a. v.pc = "lock"
  BY DEF StartProbe
<1>b. CASE ~Granted(v)
  <2>0. PICK w : w = [v EXCEPT !.pc = "rung", !.nat64 = TRUE, !.left = v.left - waited]
    OBVIOUS
  <2>1. ask' = [ask EXCEPT ![a] = w]
    BY <1>1, <1>2, <2>0 DEF Walk
  <2>2. /\ w.pc = "rung" /\ w.q = v.q /\ w.nat64 = TRUE /\ w.i = v.i
        /\ w.only = v.only /\ w.trunc = v.trunc /\ w.left = v.left - waited /\ w.try = v.try
        /\ w.ans = v.ans /\ w.from = v.from /\ w.tried = v.tried /\ w.gone = v.gone
    BY <1>1, <2>0 DEF Written
  <2>3. w \in Walk
    <3>1. Written(w)
      BY <1>1, <2>0 DEF Written
    <3>2. "rung" \in Steps /\ v.left - waited \in Nat
      BY <1>1, <1>2 DEF Steps, Fields
    <3>3. Fields(w)
      BY <1>1, <2>2, <3>2, Zenon DEF Fields
    <3> QED
      BY <3>1, <3>3, WalkIs
  <2>4. Typed(a, w)
    BY <1>1, <1>2, <1>a, <2>2, <2>3 DEF Typed, WalkOK, Fields
  <2>5. Judged(w)
    BY <1>1, <1>a, <2>2 DEF WalkOK, Judged, Judging
  <2>6. Shared(a, w)
    BY <1>b, <2>2 DEF Shared, Granted
  <2> QED
    BY <2>1, <2>3, <2>4, <2>5, <2>6 DEF WalkOK
<1>c. ~Granted(v)
  BY <1>1, <1>a DEF WalkOK, Shared
<1> QED
  BY <1>b, <1>c

(* "No record" is an answer.                                                *)
LEMMA NoRecordAnswers == NoRecord \in Answer /\ NoRecord # None
<1>1. NoRecord \in Answer
  BY DEF NoRecord, Answer
<1> QED
  BY <1>1, NoneIsNoAnswer

(* The memo, or the probe's end, lets the question go on or answers it.      *)
LEMMA MemoMoves ==
    ASSUME IInv, NEW a \in Asks, Memo(a)
    PROVE  \E w \in Walk : ask' = [ask EXCEPT ![a] = w] /\ WalkOK(a, w)
<1>1. ask[a].pc = "lock" /\ (To(a, "cache") \/ Answered(a, NoRecord))
  BY DEF Memo
<1>2. NoRecord \in Answer /\ NoRecord # None /\ ask[a].q \in Questions
  BY <1>1, Mine, NoRecordAnswers DEF WalkOK, Typed
<1> QED
  BY <1>1, <1>2, PolicyMoves, AnsweredEnds

LEMMA ProbedMoves ==
    ASSUME IInv, NEW a \in Asks, Probed(a)
    PROVE  \E w \in Walk : ask' = [ask EXCEPT ![a] = w] /\ WalkOK(a, w)
<1> DEFINE v == ask[a]
<1>1. /\ v \in Walk /\ Written(v) /\ Fields(v)
      /\ WalkOK(a, v) /\ ask \in [Asks -> Walk]
  BY Mine
<1>2. NoRecord \in Answer /\ NoRecord # None /\ v.q \in Questions /\ v.pc = "probed"
  BY <1>1, NoRecordAnswers DEF WalkOK, Typed, Probed
<1>3. CASE Answered(a, NoRecord)
  BY <1>2, <1>3, AnsweredEnds
<1>4. CASE ask' = [ask EXCEPT ![a] = [Idle EXCEPT !.pc = "cache", !.q = v.q,
                                       !.left = v.left, !.gone = v.gone]]
  <2>0. PICK w : w = [Idle EXCEPT !.pc = "cache", !.q = v.q, !.left = v.left, !.gone = v.gone]
    OBVIOUS
  <2>1. ask' = [ask EXCEPT ![a] = w]
    BY <1>4, <2>0
  <2>2. /\ w.pc = "cache" /\ w.q = v.q /\ w.nat64 = FALSE /\ w.i = 1 /\ w.only = FALSE
        /\ w.trunc = None /\ w.left = v.left /\ w.try = 0 /\ w.ans = None
        /\ w.from = None /\ w.tried = {} /\ w.gone = v.gone
    BY <2>0 DEF Idle
  <2>3. w \in Walk
    <3>1. Written(w)
      BY <2>0 DEF Idle, Written
    <3>2. "cache" \in Steps /\ 0 \in Nat /\ 1 \in Nat \ {0} /\ {} \in SUBSET Nat
      BY DEF Steps
    <3>3. Fields(w)
      BY <1>1, <2>2, <3>2, Zenon DEF Fields
    <3> QED
      BY <3>1, <3>3, WalkIs
  <2>4. Typed(a, w)
    BY <1>1, <1>2, <2>2, <2>3 DEF Typed, Fields
  <2>5. Judged(w)
    BY <2>2 DEF Judged, Judging
  <2>6. Shared(a, w)
    BY <1>1, <1>2, <2>2 DEF WalkOK, Shared, Granted
  <2> QED
    BY <2>1, <2>3, <2>4, <2>5, <2>6 DEF WalkOK
<1> QED
  BY <1>3, <1>4 DEF Probed

(* A cached answer is served; without one the walk begins with its share.   *)
LEMMA CacheGetMoves ==
    ASSUME IInv, NEW a \in Asks, CacheGet(a)
    PROVE  \E w \in Walk : ask' = [ask EXCEPT ![a] = w] /\ WalkOK(a, w)
<1> DEFINE v == ask[a]
<1>1. /\ v \in Walk /\ Written(v) /\ Fields(v)
      /\ WalkOK(a, v) /\ ask \in [Asks -> Walk]
  BY Mine
<1>2. v.pc = "cache" /\ v.q \in Questions /\ cache[v.q] \in Entry \cup {None}
  BY <1>1 DEF CacheGet, WalkOK, Typed, IInv, CacheOK
<1>3. CASE cache[v.q] # None
  <2> DEFINE ans == [addr |-> cache[v.q].addr, trunc |-> FALSE]
  <2>1. Answered(a, ans)
    BY <1>3 DEF CacheGet
  <2>2. ans \in Answer
    BY <1>2, <1>3 DEF Entry, Answer
  <2> HIDE DEF ans
  <2> QED
    BY <1>2, <2>1, <2>2, NoneIsNoAnswer, AnsweredEnds
<1>4. CASE cache[v.q] = None
  <2>0. PICK w : w = [v EXCEPT !.pc = "rung"]
    OBVIOUS
  <2>1. ask' = [ask EXCEPT ![a] = w]
    BY <1>1, <1>4, <2>0 DEF Walk, CacheGet, To
  <2>2. /\ w.pc = "rung" /\ w.q = v.q /\ w.nat64 = v.nat64 /\ w.i = v.i
        /\ w.only = v.only /\ w.trunc = v.trunc /\ w.left = v.left /\ w.try = v.try
        /\ w.ans = v.ans /\ w.from = v.from /\ w.tried = v.tried /\ w.gone = v.gone
    BY <1>1, <2>0 DEF Written
  <2>3. w \in Walk
    <3>1. Written(w)
      BY <1>1, <2>0 DEF Written
    <3>2. "rung" \in Steps
      BY DEF Steps
    <3>3. Fields(w)
      BY <1>1, <2>2, <3>2, Zenon DEF Fields
    <3> QED
      BY <3>1, <3>3, WalkIs
  <2>4. Typed(a, w)
    BY <1>1, <1>2, <2>2, <2>3 DEF Typed, WalkOK
  <2>5. Judged(w)
    BY <1>1, <1>2, <2>2 DEF WalkOK, Judged, Judging
  <2>6. Shared(a, w)
    <3>1. NextRung(w) = v.i /\ Ahead(w, 1) = Ahead(v, 1)
      BY <1>1, <1>2, <2>2 DEF NextRung, Ahead, Eligible
    <3>2. \A j \in DOMAIN Rungs : ~(j < 1)
      <4>1. DOMAIN Rungs = 1..Len(Rungs)
        BY ChainType, LenProperties
      <4> QED
        BY <4>1
    <3> QED
      BY <1>1, <1>2, <2>2, <3>1, <3>2 DEF WalkOK, Shared, Granted, Walking, Judging
  <2> QED
    BY <2>1, <2>3, <2>4, <2>5, <2>6 DEF WalkOK
<1> QED
  BY <1>3, <1>4

(* A goroutine without a question is as it should be.                       *)
LEMMA IdleIsOK == ASSUME NEW a PROVE WalkOK(a, Idle)
<1>1. Idle \in Walk
  <2>1. Idle.pc = "idle" /\ Idle.q = None /\ Idle.nat64 = FALSE /\ Idle.i = 1 /\ Idle.only = FALSE
        /\ Idle.trunc = None /\ Idle.left = 0 /\ Idle.try = 0 /\ Idle.ans = None
        /\ Idle.from = None /\ Idle.tried = {} /\ Idle.gone = FALSE
    BY DEF Idle
  <2>2. "idle" \in Steps /\ 0 \in Nat /\ 1 \in Nat \ {0} /\ {} \in SUBSET Nat
    BY DEF Steps
  <2>3. Fields(Idle)
    BY <2>1, <2>2, Zenon DEF Fields
  <2>4. Written(Idle)
    BY DEF Idle, Written
  <2> QED
    BY <2>3, <2>4, WalkIs
<1>2. WalkOK(a, Idle)
  BY <1>1 DEF WalkOK, Typed, Judged, Shared, Idle, Walking, Judging
<1> QED
  BY <1>2

(* The end of a question is forgotten.                                      *)
LEMMA ReturnMoves ==
    ASSUME IInv, NEW a \in Asks, Return(a)
    PROVE  \E w \in Walk : ask' = [ask EXCEPT ![a] = w] /\ WalkOK(a, w)
BY IdleIsOK DEF Return, WalkOK, Typed

-----------------------------------------------------------------------------
(* Every step.                                                             *)

(* What a question puts in the cache is clean, whatever makes room for it.   *)
LEMMA CachePutKeepsCache ==
    ASSUME IInv, NEW a \in Asks, CachePut(a)
    PROVE  CacheOK'
<1> DEFINE v == ask[a]
<1>1. cache \in [Questions -> Entry \cup {None}]
  BY DEF IInv, CacheOK
<1>2. v \in Walk /\ v.pc = "put" /\ v.q \in Questions /\ v.ans \in Clean
      /\ v.from \in Nets \cup {None}
  BY Mine DEF CachePut, WalkOK, Typed, Judged, Fields
<1>3. CASE cache' = cache
  BY <1>1, <1>3 DEF CacheOK
<1>4. CASE \E kept \in Evicted :
             cache' = [kept EXCEPT ![v.q] = [addr |-> v.ans.addr, from |-> v.from]]
  <2>1. PICK kept \in Evicted :
          cache' = [kept EXCEPT ![v.q] = [addr |-> v.ans.addr, from |-> v.from]]
    BY <1>4
  <2>2. kept \in [Questions -> Entry \cup {None}]
    BY <1>1 DEF Evicted
  <2>3. [addr |-> v.ans.addr, from |-> v.from] \in Entry
    BY <1>2 DEF Clean, Answer, Entry
  <2> QED
    BY <2>1, <2>2, <2>3 DEF CacheOK
<1> QED
  BY <1>3, <1>4 DEF CachePut

(* Every step of a question is a move of its walk.                          *)
LEMMA StepMoves ==
    ASSUME IInv, NEW a \in Asks, Step(a)
    PROVE  \E w \in Walk : ask' = [ask EXCEPT ![a] = w] /\ WalkOK(a, w)
<1>1. CASE Decide(a)
  <2>1. ask[a].pc = "decide" /\ (To(a, "lock") \/ To(a, "cache"))
    BY <1>1 DEF Decide
  <2> QED
    BY <2>1, PolicyMoves
<1>2. CASE Memo(a)
  BY <1>2, MemoMoves
<1>3. CASE StartProbe(a)
  BY <1>3, StartProbeMoves
<1>4. CASE Probed(a)
  BY <1>4, ProbedMoves
<1>5. CASE CacheGet(a)
  BY <1>5, CacheGetMoves
<1>6. CASE Rung(a)
  BY <1>6, RungMoves
<1>7. CASE Fail(a)
  BY <1>7, FailMoves
<1>8. CASE Receive(a)
  BY <1>8, ReceiveMoves
<1>9. CASE Check(a)
  <2>1. /\ ask[a].pc = "check"
        /\ \/ To(a, "mark")
           \/ ~IsSinkhole(ask[a].ans.addr) /\ To(a, "learn")
    BY <1>9 DEF Check
  <2> QED
    BY <2>1, StepsOn DEF Judging
<1>10. CASE Learn(a)
  <2>1. /\ ask[a].pc = "learn" /\ To(a, "recheck") /\ ~IsSinkhole(ask[a].ans.addr)
    BY <1>10, Mine DEF Learn, WalkOK, Judged
  <2> QED
    BY <2>1, StepsOn DEF Judging
<1>11. CASE Recheck(a)
  <2>1. ask[a].pc = "recheck"
    BY <1>11 DEF Recheck
  <2>2. CASE To(a, "mark")
    BY <2>1, <2>2, StepsOn DEF Judging
  <2>3. CASE Accept(a, ask[a].ans, 0)
    <3>1. /\ ask[a].ans \in [addr: Addrs, trunc: BOOLEAN] /\ ~IsSinkhole(ask[a].ans.addr)
          /\ ask[a].left \in Nat /\ ask[a].try \in Nat
      BY <2>1, Mine DEF WalkOK, Judged, Judging, Fields
    <3>2. ask[a].ans \in Clean /\ 0 \in Nat /\ ask[a].left - 0 \in Nat /\ 0 <= ask[a].try
      BY <3>1 DEF Clean, Answer
    <3> QED
      BY <2>1, <2>3, <3>2, AcceptMoves
  <2> QED
    BY <1>11, <2>2, <2>3 DEF Recheck, Pass
<1>12. CASE Mark(a)
  <2>1. ask[a].pc = "mark" /\ (To(a, "flush") \/ Condemn(a))
    BY <1>12 DEF Mark
  <2> QED
    BY <2>1, StepsOn, CondemnMoves DEF Judging
<1>13. CASE PoisonFlush(a)
  <2>1. ask[a].pc = "flush" /\ Condemn(a)
    BY <1>13 DEF PoisonFlush
  <2> QED
    BY <2>1, CondemnMoves
<1>14. CASE CachePut(a)
  <2>1. /\ Answered(a, ask[a].ans) /\ ask[a].q \in Questions
        /\ ask[a].ans \in Answer /\ ask[a].ans # None
    BY <1>14, Mine, NoneIsNoAnswer DEF CachePut, WalkOK, Typed, Judged, Clean
  <2> QED
    BY <2>1, AnsweredEnds
<1>15. CASE Return(a)
  BY <1>15, ReturnMoves
<1> QED
  BY <1>1, <1>2, <1>3, <1>4, <1>5, <1>6, <1>7, <1>8, <1>9, <1>10, <1>11, <1>12, <1>13,
     <1>14, <1>15 DEF Step

(* Every step keeps the invariant.                                          *)
LEMMA StepKeepsInvariant == IInv /\ [Next]_vars => IInv'
<1> SUFFICES ASSUME IInv, [Next]_vars PROVE IInv'
  OBVIOUS
<1>1. cache \in [Questions -> Entry \cup {None}] /\ work \in Workloads /\ net \in Nets
  BY DEF IInv, CacheOK
<1>2. CASE UNCHANGED vars
  BY <1>2 DEF IInv, CacheOK, WalkOK, Typed, Judged, Shared, vars, mem
<1>3. ASSUME NEW a \in Asks, NEW q \in Questions, Ask(a, q) PROVE IInv'
  <2>1. UNCHANGED <<work, net>> /\ CacheOK'
    BY <1>1, <1>3 DEF Ask, mem, CacheOK
  <2> QED
    BY <1>3, <2>1, AskMoves, OneMoves
<1>4. ASSUME NEW a \in Asks, Step(a) PROVE IInv'
  <2>1. UNCHANGED <<work, net>>
    BY <1>4 DEF Step, Decide, Memo, StartProbe, Probed, CacheGet, Rung, Fail, Receive, Check,
                Learn, Recheck, Mark, PoisonFlush, CachePut, Return, mem
  <2>2. CacheOK'
    <3>1. CASE CachePut(a)
      BY <3>1, CachePutKeepsCache
    <3>2. CASE PoisonFlush(a)
      BY <3>2 DEF PoisonFlush, Emptied, CacheOK
    <3>3. CASE ~CachePut(a) /\ ~PoisonFlush(a)
      <4>1. cache' = cache
        BY <1>4, <3>3 DEF Step, Decide, Memo, StartProbe, Probed, CacheGet, Rung, Fail, Receive,
                          Check, Learn, Recheck, Mark, Return, mem
      <4> QED
        BY <1>1, <4>1 DEF CacheOK
    <3> QED
      BY <3>1, <3>2, <3>3
  <2> QED
    BY <1>4, <2>1, <2>2, StepMoves, OneMoves
<1>5. CASE \/ \E n \in Nets : Move(n)
           \/ Quiesce
           \/ \E q \in Questions : Expire(q)
           \/ \E x \in Addrs : ExpireSet(x)
           \/ ExpireNat
  <2>1. UNCHANGED <<work, ask>> /\ net' \in Nets
    BY <1>1, <1>5 DEF Move, Quiesce, Expire, ExpireSet, ExpireNat, mem
  <2>2. CacheOK'
    BY <1>1, <1>5 DEF Move, Quiesce, Expire, ExpireSet, ExpireNat, mem, CacheOK, Emptied
  <2>3. \A a \in Asks : WalkOK(a, ask[a])'
    BY <2>1 DEF IInv, WalkOK, Typed, Judged, Shared
  <2> QED
    BY <1>1, <2>1, <2>2, <2>3 DEF IInv
<1> QED
  BY <1>2, <1>3, <1>4, <1>5 DEF Next

(* The first state is as it should be.                                      *)
LEMMA InitIsOK == Init => IInv
<1> SUFFICES ASSUME Init PROVE IInv
  OBVIOUS
<1>1. work \in Workloads /\ net \in Nets
  BY StartType DEF Init
<1>2. CacheOK
  BY DEF Init, CacheOK
<1>3. \A a \in Asks : ask[a] = Idle
  BY DEF Init
<1>4. \A a \in Asks : WalkOK(a, ask[a])
  BY <1>3, IdleIsOK
<1>5. ask \in [Asks -> Walk]
  <2>1. \A a \in Asks : Idle \in Walk
    BY IdleIsOK DEF WalkOK, Typed
  <2> HIDE DEF Idle
  <2> QED
    BY <2>1 DEF Init
<1> QED
  BY <1>1, <1>2, <1>4, <1>5 DEF IInv

LEMMA Inductive == Spec => []IInv
BY InitIsOK, StepKeepsInvariant, PTL DEF Spec

(* A question that fails although its caller waited, and whose walk had a    *)
(* second for each resolver, was put to every encrypted one: the shares of   *)
(* rungBudget never let silence on the first rungs eat those of the later    *)
(* ones, whatever the rungs cost (resolve/chain.go walk, rungBudget).        *)
THEOREM NoRungIsStarved == Spec => []EveryEncryptedRungAsked
<1>1. IInv => EveryEncryptedRungAsked
  BY DEF IInv, WalkOK, Typed, Shared, Granted, AllAsked, EveryEncryptedRungAsked
<1> QED
  BY <1>1, Inductive, PTL

(* No answer with the address of a known sinkhole is ever in the cache, by    *)
(* whichever rung, network or order of questions it came                     *)
(* (resolve/chain.go walk, resolve/poison.go Check).                         *)
THEOREM NoSinkholeIsCached ==
  Spec => [](\A q \in Questions : cache[q] # None /\ cache[q].addr # None
                => cache[q].addr[1] # "sinkhole")
<1>1. IInv => \A q \in Questions : cache[q] # None /\ cache[q].addr # None
                => cache[q].addr[1] # "sinkhole"
  BY DEF IInv, CacheOK, Entry, IsSinkhole
<1> QED
  BY <1>1, Inductive, PTL

-----------------------------------------------------------------------------
(* Counting the names of an answer.                                         *)

(* Who is not at its second check does not disturb the count.                *)
LEMMA CountStands ==
    ASSUME Counted, UNCHANGED <<sets, passed>>,
           \A a \in Asks : ask'[a].pc = "recheck" => ask'[a] = ask[a]
    PROVE  Counted'
BY DEF Counted, AskedFor

(* Only learning leads to the second check.                                  *)
LEMMA OnlyLearnRechecks ==
    ASSUME IInv, NEW a \in Asks, Step(a), ~Learn(a)
    PROVE  ask'[a].pc # "recheck" /\ \A b \in Asks \ {a} : ask'[b] = ask[b]
<1>1. ask[a] \in Walk /\ Written(ask[a]) /\ ask \in [Asks -> Walk]
  BY Mine
<1>2. \A b \in Asks \ {a} : ask'[b] = ask[b]
  BY <1>1, StepMoves
<1> SUFFICES ask'[a].pc # "recheck"
  BY <1>2
<1>3. \A step : To(a, step) => ask'[a].pc = step
  BY <1>1 DEF To, Walk
<1>4. \A ans : Answered(a, ans) => ask'[a].pc = "done"
  BY <1>1 DEF Answered, Idle
<1>5. ASSUME NEW ans, NEW d, Accept(a, ans, d) PROVE ask'[a].pc \in {"rung", "probed", "put"}
  BY <1>1, <1>5 DEF Accept, Walk
<1>6. ASSUME ask[a].pc = "rung", WalkOver(a) PROVE ask'[a].pc \in {"rung", "probed", "done", "put"}
  BY <1>1, <1>4, <1>6 DEF WalkOver, Deliver, Walk
<1>7. CASE Decide(a) \/ Memo(a) \/ CacheGet(a) \/ CachePut(a) \/ Check(a)
  BY <1>3, <1>4, <1>7 DEF Decide, Memo, CacheGet, CachePut, Check
<1>8. CASE StartProbe(a)
  BY <1>1, <1>8 DEF StartProbe, Walk
<1>9. CASE Probed(a)
  BY <1>1, <1>4, <1>9 DEF Probed, Idle
<1>10. CASE Rung(a)
  <2>1. ask[a].pc = "rung"
    BY <1>10 DEF Rung
  <2>2. \/ WalkOver(a)
        \/ ask' = [ask EXCEPT ![a].gone = TRUE]
        \/ ask' = [ask EXCEPT ![a].i = @ + 1]
        \/ \E budget : ask' = [ask EXCEPT ![a].pc = "sent", ![a].try = budget,
                                 ![a].from = net, ![a].tried = @ \cup {ask[a].i}]
    BY <1>10, Zenon DEF Rung
  <2>3. CASE WalkOver(a)
    BY <1>6, <2>1, <2>3
  <2>4. CASE \/ ask' = [ask EXCEPT ![a].gone = TRUE] \/ ask' = [ask EXCEPT ![a].i = @ + 1]
    BY <1>1, <2>1, <2>4 DEF Written
  <2>5. ASSUME NEW budget,
               ask' = [ask EXCEPT ![a].pc = "sent", ![a].try = budget,
                         ![a].from = net, ![a].tried = @ \cup {ask[a].i}]
        PROVE  ask'[a].pc = "sent"
    BY <1>1, <2>5 DEF Walk
  <2> QED
    BY <2>2, <2>3, <2>4, <2>5
<1>11. CASE Fail(a)
  BY <1>1, <1>11 DEF Fail, Walk
<1>12. CASE Receive(a)
  BY <1>1, <1>5, <1>12 DEF Receive, Walk
<1>13. CASE Recheck(a)
  <2>1. To(a, "mark") \/ Accept(a, ask[a].ans, 0)
    BY <1>13 DEF Recheck, Pass
  <2> QED
    BY <1>3, <1>5, <2>1
<1>14. CASE Mark(a) \/ PoisonFlush(a)
  <2>1. Condemn(a) => ask'[a].pc = "rung"
    BY <1>1 DEF Condemn, Walk
  <2> QED
    BY <1>3, <1>14, <2>1 DEF Mark, PoisonFlush
<1>15. CASE Return(a)
  BY <1>1, <1>15 DEF Return, Idle
<1> QED
  BY <1>7, <1>8, <1>9, <1>10, <1>11, <1>12, <1>13, <1>14, <1>15 DEF Step

(* A name is counted before its answer is let through, while there is room.  *)
LEMMA LearnCounts ==
    ASSUME IInv, Counted, Room, NEW a \in Asks, Learn(a)
    PROVE  Counted'
<1> DEFINE v == ask[a]
           x == v.ans.addr
           name == AskedFor(v)
<1>1. /\ v \in Walk /\ WalkOK(a, v) /\ ask \in [Asks -> Walk] /\ Written(v)
      /\ x \in Addrs /\ v.pc = "learn"
  BY Mine DEF Learn, WalkOK, Judged, Judging
<1>2. /\ sets \in [Addrs -> SUBSET Probes] /\ passed \in [Addrs -> SUBSET Probes]
      /\ \A y \in Addrs : /\ passed[y] \subseteq sets[y] /\ IsFiniteSet(sets[y])
                          /\ Cardinality(passed[y]) < Quorum
  BY DEF Counted
<1>3. sets' = IF name \in Probes THEN [sets EXCEPT ![x] = @ \cup {name}] ELSE sets
  BY DEF Learn, Room, NameOf, AskedFor
<1>4. passed' = passed /\ To(a, "recheck")
  BY DEF Learn
<1>5. /\ \A b \in Asks \ {a} : ask'[b] = ask[b]
      /\ ask'[a].ans = v.ans /\ ask'[a].nat64 = v.nat64 /\ ask'[a].q = v.q
  BY <1>1, <1>4 DEF To, Walk
<1> HIDE DEF name, x
<1>6. /\ sets' \in [Addrs -> SUBSET Probes]
      /\ \A y \in Addrs : sets[y] \subseteq sets'[y] /\ IsFiniteSet(sets'[y])
      /\ name \in Probes => name \in sets'[x]
  <2>1. CASE name \notin Probes
    BY <1>2, <1>3, <2>1
  <2>2. CASE name \in Probes
    <3>1. IsFiniteSet(sets[x] \cup {name})
      BY <1>1, <1>2, FS_AddElement
    <3>2. \A y \in Addrs : sets'[y] = IF y = x THEN sets[x] \cup {name} ELSE sets[y]
      BY <1>1, <1>2, <1>3, <2>2
    <3>3. sets' \in [Addrs -> SUBSET Probes]
      BY <1>1, <1>2, <1>3, <2>2
    <3> QED
      BY <1>1, <1>2, <3>1, <3>2, <3>3
  <2> QED
    BY <2>1, <2>2
<1>7. AskedFor(ask'[a]) = name /\ ask'[a].ans.addr = x
  BY <1>5 DEF name, x, AskedFor
<1>8. \A b \in Asks : ask'[b].pc = "recheck" /\ AskedFor(ask'[b]) \in Probes
                        => AskedFor(ask'[b]) \in sets'[ask'[b].ans.addr]
  <2> SUFFICES ASSUME NEW b \in Asks, ask'[b].pc = "recheck", AskedFor(ask'[b]) \in Probes
               PROVE  AskedFor(ask'[b]) \in sets'[ask'[b].ans.addr]
    OBVIOUS
  <2>1. CASE b = a
    BY <1>6, <1>7, <2>1
  <2>2. CASE b # a
    <3>1. ask'[b] = ask[b] /\ ask[b].ans.addr \in Addrs
      BY <1>5, <2>2, Mine DEF WalkOK, Judged, Judging
    <3>2. AskedFor(ask[b]) \in sets[ask[b].ans.addr]
      BY <3>1 DEF Counted
    <3> QED
      BY <1>6, <3>1, <3>2
  <2> QED
    BY <2>1, <2>2
<1>9. \A b \in Asks : AskedFor(ask[b])' = AskedFor(ask'[b])
  BY DEF AskedFor
<1> QED
  BY <1>2, <1>4, <1>6, <1>8, <1>9 DEF Counted

(* The second check lets through fewer names than condemn.                   *)
LEMMA RecheckCounts ==
    ASSUME IInv, Counted, NEW a \in Asks, Recheck(a)
    PROVE  Counted'
<1> DEFINE x == ask[a].ans.addr
           more == AskedFor(ask[a])
<1>1. ask[a].pc = "recheck" /\ x \in Addrs /\ UNCHANGED sets
  BY Mine DEF Recheck, WalkOK, Judged, Judging, mem
<1>2. \A b \in Asks : ask'[b].pc = "recheck" => ask'[b] = ask[b]
  <2>1. ~Learn(a) /\ Step(a)
    BY <1>1 DEF Learn, Step
  <2> QED
    BY <2>1, OnlyLearnRechecks
<1>3. CASE UNCHANGED passed
  BY <1>1, <1>2, <1>3, CountStands
<1>4. CASE ~Condemned(x) /\ passed' = [passed EXCEPT ![x] = @ \cup ({more} \cap Probes)]
  <2>1. more \in Probes => more \in sets[x]
    BY <1>1 DEF Counted
  <2>2. /\ passed \in [Addrs -> SUBSET Probes] /\ sets \in [Addrs -> SUBSET Probes]
        /\ passed[x] \subseteq sets[x] /\ IsFiniteSet(sets[x])
    BY <1>1 DEF Counted
  <2> HIDE DEF x, more
  <2>3. passed[x] \cup ({more} \cap Probes) \in SUBSET sets[x]
    BY <2>1, <2>2
  <2>4. Cardinality(passed[x] \cup ({more} \cap Probes)) < Quorum
    <3>1. Cardinality(sets[x]) \in Nat /\ IsFiniteSet(passed[x] \cup ({more} \cap Probes))
      BY <2>2, <2>3, FS_CardinalityType, FS_Subset
    <3>2. Cardinality(passed[x] \cup ({more} \cap Probes)) <= Cardinality(sets[x])
      BY <2>2, <2>3, FS_Subset
    <3>3. Cardinality(passed[x] \cup ({more} \cap Probes)) \in Nat
      BY <3>1, FS_CardinalityType
    <3> QED
      BY <1>4, <3>1, <3>2, <3>3, QuorumType DEF Condemned
  <2>5. passed' \in [Addrs -> SUBSET Probes]
    BY <1>1, <1>4, <2>2
  <2>6. \A y \in Addrs : passed'[y] = IF y = x THEN passed[x] \cup ({more} \cap Probes) ELSE passed[y]
    BY <1>1, <1>4, <2>2
  <2>7. \A y \in Addrs : /\ passed'[y] \subseteq sets[y] /\ IsFiniteSet(sets[y])
                         /\ Cardinality(passed'[y]) < Quorum
    BY <2>3, <2>4, <2>6 DEF Counted
  <2>8. \A b \in Asks : ask'[b].pc = "recheck" /\ AskedFor(ask'[b]) \in Probes
                          => AskedFor(ask'[b]) \in sets[ask'[b].ans.addr]
    BY <1>2 DEF Counted
  <2>9. \A b \in Asks : AskedFor(ask[b])' = AskedFor(ask'[b])
    BY DEF AskedFor
  <2> QED
    BY <1>1, <2>2, <2>5, <2>7, <2>8, <2>9 DEF Counted
<1> QED
  BY <1>3, <1>4 DEF Recheck, Pass, NameOf, AskedFor

(* A set that expires takes its count with it, and nobody was relying on it. *)
LEMMA ExpiryCounts ==
    ASSUME IInv, Counted, NEW x \in Addrs, ExpireSet(x)
    PROVE  Counted'
<1>1. /\ sets \in [Addrs -> SUBSET Probes] /\ passed \in [Addrs -> SUBSET Probes]
      /\ sets' = [sets EXCEPT ![x] = {}] /\ passed' = [passed EXCEPT ![x] = {}]
      /\ ask' = ask
      /\ \A a \in Asks : ~(ask[a].pc = "recheck" /\ ask[a].ans.addr = x)
  BY DEF Counted, ExpireSet
<1>2. IsFiniteSet({}) /\ Cardinality({}) < Quorum
  BY FS_EmptySet, QuorumType
<1>3. \A y \in Addrs : /\ sets'[y] = (IF y = x THEN {} ELSE sets[y])
                       /\ passed'[y] = (IF y = x THEN {} ELSE passed[y])
  BY <1>1
<1>4. sets' \in [Addrs -> SUBSET Probes] /\ passed' \in [Addrs -> SUBSET Probes]
  BY <1>1
<1>5. \A y \in Addrs : /\ passed'[y] \subseteq sets'[y] /\ IsFiniteSet(sets'[y])
                       /\ Cardinality(passed'[y]) < Quorum
  BY <1>2, <1>3 DEF Counted
<1>6. \A a \in Asks : ask[a].pc = "recheck" /\ AskedFor(ask[a]) \in Probes
                        => AskedFor(ask[a]) \in sets'[ask[a].ans.addr]
  BY <1>1, <1>3, Mine DEF Counted, WalkOK, Judged, Judging
<1>7. \A b \in Asks : AskedFor(ask[b])' = AskedFor(ask[b])
  BY <1>1 DEF AskedFor
<1> QED
  BY <1>1, <1>4, <1>5, <1>6, <1>7 DEF Counted

(* While the detector has room, every step keeps the count.                  *)
LEMMA StepKeepsCount == IInv /\ Counted /\ Room /\ [Next]_vars => Counted'
<1> SUFFICES ASSUME IInv, Counted, Room, [Next]_vars PROVE Counted'
  OBVIOUS
<1>1. ASSUME NEW a \in Asks, Step(a), ~Learn(a), ~Recheck(a) PROVE Counted'
  <2>1. UNCHANGED <<sets, passed>>
    BY <1>1 DEF Step, Decide, Memo, StartProbe, Probed, CacheGet, Rung, Fail, Receive, Check,
                Mark, PoisonFlush, CachePut, Return, mem
  <2>2. \A b \in Asks : ask'[b].pc = "recheck" => ask'[b] = ask[b]
    BY <1>1, OnlyLearnRechecks
  <2> QED
    BY <2>1, <2>2, CountStands
<1>2. ASSUME NEW a \in Asks, NEW q \in Questions, Ask(a, q) PROVE Counted'
  <2>1. UNCHANGED <<sets, passed>>
    BY <1>2 DEF Ask, mem
  <2>2. ask'[a].pc \in {"decide", "cache"} /\ \A b \in Asks \ {a} : ask'[b] = ask[b]
    <3>1. ask \in [Asks -> Walk]
      BY Mine
    <3> QED
      BY <1>2, <3>1 DEF Ask, Idle
  <2> QED
    BY <2>1, <2>2, CountStands
<1>3. CASE \/ \E n \in Nets : Move(n)
           \/ Quiesce
           \/ \E q \in Questions : Expire(q)
           \/ ExpireNat
  <2>1. UNCHANGED <<sets, passed, ask>>
    BY <1>3 DEF Move, Quiesce, Expire, ExpireNat, mem
  <2> QED
    BY <2>1, CountStands
<1>6. CASE UNCHANGED vars
  BY <1>6, CountStands DEF vars, mem
<1>4. ASSUME NEW a \in Asks, Step(a) PROVE Counted'
  BY <1>1, <1>4, LearnCounts, RecheckCounts
<1>5. ASSUME NEW x \in Addrs, ExpireSet(x) PROVE Counted'
  BY <1>5, ExpiryCounts
<1> QED
  BY <1>2, <1>3, <1>4, <1>5, <1>6 DEF Next

(* However questions overlap between the detector's check, its count and     *)
(* its second check, fewer blocked names than the quorum get the same answer *)
(* through while the detector remembers it, and no known sinkhole does, as   *)
(* long as the detector's map is not full (resolve/poison.go Learn, with     *)
(* uniformCap; resolve/chain.go walk).                                       *)
THEOREM PoisonIsCounted == Spec /\ []Room => []PoisonStaysOut
<1>1. Init => Counted
  <2> SUFFICES ASSUME Init PROVE Counted
    OBVIOUS
  <2>1. IsFiniteSet({}) /\ Cardinality({}) < Quorum
    BY FS_EmptySet, QuorumType
  <2> QED
    BY <2>1 DEF Init, Counted, Idle
<1>2. IInv /\ Counted => PoisonStaysOut
  BY DEF IInv, Counted, CacheOK, Entry, IsSinkhole, PoisonStaysOut
<1>3. IInv /\ Counted /\ Room /\ [Next]_vars => Counted'
  BY StepKeepsCount
<1> QED
  BY <1>1, <1>2, <1>3, Inductive, PTL DEF Spec

(* A detector with a set for every answer there can be always has room.      *)
COROLLARY PoisonStaysOutWithRoom ==
    ASSUME IsFiniteSet(Addrs), Cardinality(Addrs) < SetCap
    PROVE  Spec => []PoisonStaysOut
<1>1. Room
  <2>1. {x \in Addrs : sets[x] # {}} \in SUBSET Addrs
    OBVIOUS
  <2>2. /\ IsFiniteSet({x \in Addrs : sets[x] # {}})
        /\ Cardinality({x \in Addrs : sets[x] # {}}) <= Cardinality(Addrs)
    BY <2>1, FS_Subset
  <2>3. Cardinality({x \in Addrs : sets[x] # {}}) \in Nat /\ Cardinality(Addrs) \in Nat
    BY <2>2, FS_CardinalityType
  <2> QED
    BY <2>2, <2>3, CapsAreNat DEF Room
<1>2. []Room
  BY <1>1, PTL
<1> QED
  BY <1>2, PoisonIsCounted, PTL
=============================================================================
