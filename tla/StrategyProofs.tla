--------------------------- MODULE StrategyProofs ---------------------------
(***************************************************************************)
(* Proofs about strategies.  Ladder: which one a connection is tried with  *)
(* and what is learned from it, for every set of connections, networks,    *)
(* specs and kinds of message, every configured ladder and every bound.    *)
(* Tune: which one a measurement of the line finds and writes down, for    *)
(* every set of measurements and of strategies.  Emission: what a strategy *)
(* makes of a first message and what reaches the wire, for every message,  *)
(* list of operations and budget.                                          *)
(***************************************************************************)
EXTENDS Ladder, Tune, Emission, FiniteSetTheorems, SequenceTheorems, TLAPS

Steps == {"idle", "ready", "wait", "walk", "won", "rejected", "lost", "ret"}
Outs  == {"none", "relayed", "handed", "live", "rejected", "failed", "cancelled"}

Connection ==
    [pc: Steps, kind: Kinds, v: Verdict, key: Nets, mode: {"own", "lead", "follow"},
     rungs: Seq(Specs), i: Nat \ {0}, dialled: Nat, first: Specs \cup {NoSpec},
     spec: Specs \cup {NoSpec}, out: Outs]

TypeInv ==
    /\ rule \in {"none", "include", "bypass"}
    /\ net \in Nets
    /\ store \in [Nets -> Verdict]
    /\ calls \in [Nets -> Conns \cup {NoConn}]
    /\ conn \in [Conns -> Connection]
    /\ visits \in Nat /\ roams \in Nat
    /\ earned \subseteq Specs

\* A learned verdict rests on an answer.
Sound(v, e) == v.src \in Learned => v.spec \in e

\* What a connection's walk knows, e being the specs answered so far.
WalkOK(k, e) ==
    /\ k.pc \in {"idle", "ready", "wait"} => k.first = NoSpec /\ k.i = 1
    /\ k.rungs # <<>> => k.rungs[1] \in {Plain} \cup e
    /\ k.pc = "walk" => k.rungs # <<>>
    \* until the first dial, the rungs left behind were passed over
    /\ k.pc = "walk" /\ k.first = NoSpec /\ k.i > 1 =>
          k.rungs[1] \notin Applies[k.kind]
    /\ k.first \notin {NoSpec, Plain} \cup e => k.rungs[1] \in e \ Applies[k.kind]
    \* a ladder that begins with plain has it at once after a cached winner
    /\ BaseLadder[1] = Plain =>
          /\ k.rungs # <<>> /\ k.rungs[1] # Plain => Len(k.rungs) > 1 /\ k.rungs[2] = Plain
          /\ k.pc = "walk" /\ k.first = NoSpec => k.i <= 2
          /\ k.first \in {NoSpec, Plain} \cup e

\* What it holds besides: its verdict, its winning spec, its socket.
EndsOK(k, e) ==
    /\ Sound(k.v, e)
    /\ k.pc = "won" => k.spec \in e
    /\ k.out = "handed" => k.pc = "ret" /\ k.spec \notin Risky

ConnOK(k, e) == WalkOK(k, e) /\ EndsOK(k, e)

IInv ==
    /\ TypeInv
    /\ LearnedFromEvidence
    /\ \A c \in Conns : ConnOK(conn[c], earned)
-----------------------------------------------------------------------------
(* The rungs of a verdict.                                                  *)

(* Taking a rung out of the configured ladder leaves a ladder.              *)
LEMMA WithoutType == \A s : Without(s) \in Seq(Specs)
<1> SUFFICES ASSUME NEW s PROVE Without(s) \in Seq(Specs)
  OBVIOUS
<1>1. CASE \E p \in DOMAIN BaseLadder : BaseLadder[p] = s
  <2> DEFINE p == CHOOSE p \in DOMAIN BaseLadder : BaseLadder[p] = s
  <2>1. p \in 1 .. Len(BaseLadder)
    BY <1>1, LadderAssumption
  <2>2. Without(s) = SubSeq(BaseLadder, 1, p - 1)
                        \o SubSeq(BaseLadder, p + 1, Len(BaseLadder))
    BY <1>1 DEF Without
  <2> HIDE DEF p
  <2>3. /\ SubSeq(BaseLadder, 1, p - 1) \in Seq(Specs)
        /\ SubSeq(BaseLadder, p + 1, Len(BaseLadder)) \in Seq(Specs)
    BY <2>1, LadderAssumption
  <2> QED
    BY <2>2, <2>3
<1>2. CASE ~\E p \in DOMAIN BaseLadder : BaseLadder[p] = s
  BY <1>2, LadderAssumption DEF Without
<1> QED
  BY <1>1, <1>2

(* A ladder that begins with plain still does without any other rung.       *)
LEMMA WithoutHead ==
  ASSUME BaseLadder[1] = Plain, NEW s, s # Plain
  PROVE  Len(Without(s)) > 0 /\ Without(s)[1] = Plain
<1>1. CASE \E p \in DOMAIN BaseLadder : BaseLadder[p] = s
  <2> DEFINE p == CHOOSE p \in DOMAIN BaseLadder : BaseLadder[p] = s
  <2>1. p \in 2 .. Len(BaseLadder)
    <3>1. p \in 1 .. Len(BaseLadder) /\ BaseLadder[p] = s
      BY <1>1, LadderAssumption
    <3> QED
      BY <3>1, LadderAssumption
  <2>2. Without(s) = SubSeq(BaseLadder, 1, p - 1)
                        \o SubSeq(BaseLadder, p + 1, Len(BaseLadder))
    BY <1>1 DEF Without
  <2> HIDE DEF p
  <2> DEFINE front == SubSeq(BaseLadder, 1, p - 1)
             back  == SubSeq(BaseLadder, p + 1, Len(BaseLadder))
  <2>3. /\ front \in Seq(Specs) /\ back \in Seq(Specs)
        /\ Len(front) = p - 1 /\ front[1] = Plain /\ Len(back) \in Nat
    BY <2>1, LadderAssumption
  <2> HIDE DEF front, back
  <2>4. Len(front \o back) = Len(front) + Len(back) /\ (front \o back)[1] = Plain
    BY <2>1, <2>3
  <2> QED
    BY <2>1, <2>2, <2>3, <2>4 DEF front, back
<1>2. CASE ~\E p \in DOMAIN BaseLadder : BaseLadder[p] = s
  BY <1>2, LadderAssumption DEF Without
<1> QED
  BY <1>1, <1>2

(* A walk begins with plain, or with the verdict's own desync spec.         *)
LEMMA RungsHead ==
  ASSUME NEW v \in Verdict
  PROVE  /\ Rungs(v) \in Seq(Specs) /\ Rungs(v) # <<>>
         /\ Rungs(v)[1] = IF v.src = "desync" THEN v.spec ELSE Plain
         /\ BaseLadder[1] = Plain /\ Rungs(v)[1] # Plain =>
               Len(Rungs(v)) > 1 /\ Rungs(v)[2] = Plain
<1> DEFINE head == IF v.src = "desync" THEN v.spec ELSE Plain
<1>1. head \in Specs
  BY LadderAssumption DEF Verdict
<1>2. CASE v.src = "bypass"
  BY <1>1, <1>2 DEF Rungs
<1>3. CASE v.src # "bypass"
  <2>1. Rungs(v) = <<head>> \o Without(head)
    BY <1>3 DEF Rungs
  <2> HIDE DEF head
  <2>2. <<head>> \in Seq(Specs) /\ Len(<<head>>) = 1 /\ <<head>>[1] = head
    BY <1>1
  <2>3. Rungs(v) \in Seq(Specs) /\ Len(Rungs(v)) = 1 + Len(Without(head))
    BY <2>1, <2>2, WithoutType
  <2>4. Rungs(v)[1] = head
    BY <2>1, <2>2, WithoutType
  <2>5. Len(Without(head)) \in Nat
    BY WithoutType
  <2>6. Rungs(v) # <<>>
    BY <2>3, <2>5
  <2>7. ASSUME BaseLadder[1] = Plain, head # Plain
        PROVE  Len(Rungs(v)) > 1 /\ Rungs(v)[2] = Plain
    <3>1. Len(Without(head)) > 0 /\ Without(head)[1] = Plain
      BY <2>7, WithoutHead
    <3> QED
      BY <2>1, <2>2, <2>3, <2>5, <3>1, WithoutType
  <2> QED
    BY <2>3, <2>4, <2>6, <2>7 DEF head
<1> QED
  BY <1>2, <1>3

-----------------------------------------------------------------------------
(* Evidence only grows, and a step of one connection concerns no other.     *)

LEMMA MoreEvidence ==
  ASSUME NEW k, NEW e, NEW f, e \subseteq f, ConnOK(k, e) PROVE ConnOK(k, f)
BY DEF ConnOK, WalkOK, EndsOK, Sound

\* Everything of IInv but the connections, after a step.
RestOK ==
    /\ rule \in {"none", "include", "bypass"} /\ net \in Nets
    /\ store \in [Nets -> Verdict] /\ calls \in [Nets -> Conns \cup {NoConn}]
    /\ visits \in Nat /\ roams \in Nat /\ earned \subseteq Specs
    /\ LearnedFromEvidence

LEMMA OneSteps ==
  ASSUME IInv, RestOK', earned \subseteq earned',
         NEW c \in Conns, NEW k \in Connection, ConnOK(k, earned'),
         conn' = [conn EXCEPT ![c] = k]
  PROVE  IInv'
<1>1. conn' \in [Conns -> Connection]
  BY DEF IInv, TypeInv
<1>2. ASSUME NEW w \in Conns PROVE ConnOK(conn'[w], earned')
  <2>1. CASE w = c
    BY <2>1 DEF IInv, TypeInv
  <2>2. CASE w # c
    <3>1. conn'[w] = conn[w] /\ ConnOK(conn[w], earned)
      BY <2>2 DEF IInv, TypeInv
    <3> QED
      BY <3>1, MoreEvidence
  <2> QED
    BY <2>1, <2>2
<1> QED
  BY <1>1, <1>2 DEF IInv, TypeInv, RestOK

LEMMA NothingElse ==
  ASSUME IInv, UNCHANGED <<rule, net, store, calls, visits, roams, earned>>
  PROVE  RestOK' /\ earned \subseteq earned'
BY DEF IInv, TypeInv, RestOK, LearnedFromEvidence

LEMMA BecomesOK ==
  ASSUME IInv, NEW c \in Conns, NEW k \in Connection, ConnOK(k, earned), Becomes(c, k)
  PROVE  IInv'
<1>1. RestOK' /\ earned' = earned
  BY NothingElse DEF Becomes
<1>2. conn' = [conn EXCEPT ![c] = k]
  BY DEF Becomes
<1> QED
  BY <1>1, <1>2, OneSteps

LEMMA Known ==
  ASSUME IInv, NEW c \in Conns
  PROVE  conn[c] \in Connection /\ ConnOK(conn[c], earned)
BY DEF IInv, TypeInv
-----------------------------------------------------------------------------
(* The walk.                                                                *)

(* The rung a connection can send is one, applies, and on the first dial is *)
(* plain or earned -- or the earned one could not be applied.               *)
LEMMA RungOK ==
  ASSUME IInv, NEW c \in Conns, CanSend(c)
  PROVE  /\ conn[c].pc = "walk" /\ Rung(c) \in Specs
         /\ conn[c].first = NoSpec /\ Rung(c) \notin {Plain} \cup earned
              => conn[c].rungs[1] \in earned \ Applies[conn[c].kind]
         /\ BaseLadder[1] = Plain /\ conn[c].first = NoSpec => Rung(c) \in {Plain} \cup earned
<1> USE Known
<1>1. /\ conn[c] \in Connection /\ ConnOK(conn[c], earned)
      /\ conn[c].pc = "walk" /\ conn[c].i <= Len(conn[c].rungs)
  BY DEF CanSend, CanTry, At
<1>2. Rung(c) \in Specs
  BY <1>1 DEF Rung, Connection
<1>3. CASE conn[c].i = 1
  BY <1>1, <1>2, <1>3 DEF Rung, ConnOK, WalkOK
<1>4. CASE conn[c].i # 1
  <2>1. conn[c].i > 1
    BY <1>1, <1>4 DEF Connection
  <2>2. conn[c].first = NoSpec => conn[c].rungs[1] \notin Applies[conn[c].kind]
    BY <1>1, <2>1 DEF ConnOK, WalkOK
  <2>3. conn[c].rungs[1] \in {Plain} \cup earned
    BY <1>1 DEF ConnOK, WalkOK
  <2>4. Plain \in Applies[conn[c].kind]
    BY <1>1, LadderAssumption DEF Connection
  <2>5. ASSUME BaseLadder[1] = Plain, conn[c].first = NoSpec PROVE Rung(c) = Plain
    <3>1. conn[c].i = 2
      BY <1>1, <2>1, <2>5 DEF ConnOK, WalkOK, Connection
    <3>2. conn[c].rungs[1] # Plain
      BY <2>2, <2>4, <2>5
    <3> QED
      BY <1>1, <2>5, <3>1, <3>2 DEF ConnOK, WalkOK, Rung
  <2> QED
    BY <1>1, <1>2, <2>2, <2>3, <2>4, <2>5
<1> QED
  BY <1>1, <1>2, <1>3, <1>4

(* A dial leaves the walk in order, with a first spec.                      *)
LEMMA DialledOK ==
  ASSUME IInv, NEW c \in Conns, CanSend(c)
  PROVE  /\ Dialled(c) \in Connection /\ ConnOK(Dialled(c), earned)
         /\ Dialled(c).first \in Specs /\ Dialled(c).pc = "walk"
         /\ Dialled(c).out # "handed" /\ Dialled(c).rungs = conn[c].rungs
         /\ Dialled(c).v = conn[c].v /\ Dialled(c).kind = conn[c].kind
<1>1. conn[c] \in Connection /\ ConnOK(conn[c], earned)
  BY Known
<1>2. Dialled(c) \in Connection
  <2> DEFINE f == IF conn[c].first = NoSpec THEN Rung(c) ELSE conn[c].first
  <2>1. f \in Specs \cup {NoSpec} /\ conn[c].dialled + 1 \in Nat
    BY <1>1, RungOK DEF Connection
  <2>2. Dialled(c) = [conn[c] EXCEPT !.dialled = conn[c].dialled + 1, !.first = f]
    BY DEF Dialled
  <2> HIDE DEF f
  <2> QED
    BY <1>1, <2>1, <2>2 DEF Connection
<1>3. Dialled(c).first = IF conn[c].first = NoSpec THEN Rung(c) ELSE conn[c].first
  BY <1>1 DEF Dialled, Connection
<1>4. Dialled(c).first \in Specs
  BY <1>1, <1>3, RungOK DEF Connection
<1>5. /\ Dialled(c).pc = conn[c].pc /\ Dialled(c).out = conn[c].out
      /\ Dialled(c).rungs = conn[c].rungs /\ Dialled(c).v = conn[c].v
      /\ Dialled(c).kind = conn[c].kind /\ Dialled(c).i = conn[c].i
      /\ Dialled(c).spec = conn[c].spec
  BY <1>1 DEF Dialled, Connection
<1>6. conn[c].pc = "walk" /\ NoSpec \notin Specs
  BY RungOK, LadderAssumption
<1>7. WalkOK(Dialled(c), earned)
  BY <1>1, <1>3, <1>4, <1>5, <1>6, RungOK DEF ConnOK, WalkOK
<1>8. EndsOK(Dialled(c), earned) /\ Dialled(c).out # "handed"
  BY <1>1, <1>5, <1>6 DEF ConnOK, EndsOK
<1> QED
  BY <1>2, <1>4, <1>5, <1>6, <1>7, <1>8 DEF ConnOK

(* A walk that has dialled may stop, with what it found.                    *)
Stopped(d, x) ==
  /\ x.pc \in {"lost", "rejected", "won", "ret"} /\ x.kind = d.kind /\ x.v = d.v
  /\ x.rungs = d.rungs /\ x.first = d.first /\ (x.pc = "won" => x.spec \in earned)
  /\ x.out = "handed" => x.pc = "ret" /\ x.spec \notin Risky

LEMMA StoppedOK ==
  ASSUME NEW d, ConnOK(d, earned), d.first # NoSpec, NEW x, Stopped(d, x)
  PROVE  ConnOK(x, earned)
<1>1. WalkOK(x, earned)
  BY DEF ConnOK, WalkOK, Stopped
<1>2. EndsOK(x, earned)
  BY DEF ConnOK, EndsOK, Stopped
<1> QED BY <1>1, <1>2 DEF ConnOK

(* A walk that has dialled goes on, ends lost, or ends with a socket.       *)
LEMMA AfterDial ==
  ASSUME NEW d \in Connection, ConnOK(d, earned), d.first \in Specs, d.pc = "walk"
  PROVE  /\ NextRung(d) \in Connection /\ ConnOK(NextRung(d), earned)
         /\ [d EXCEPT !.pc = "lost"] \in Connection
         /\ ConnOK([d EXCEPT !.pc = "lost"], earned)
         /\ \A s \in Specs :
              /\ [d EXCEPT !.pc = "rejected", !.spec = s] \in Connection
              /\ ConnOK([d EXCEPT !.pc = "rejected", !.spec = s], earned)
              /\ [d EXCEPT !.pc = "won", !.spec = s] \in Connection
              /\ s \in earned => ConnOK([d EXCEPT !.pc = "won", !.spec = s], earned)
         /\ \A s \in Specs \ Risky :
              /\ [d EXCEPT !.pc = "ret", !.out = "handed", !.spec = s] \in Connection
              /\ ConnOK([d EXCEPT !.pc = "ret", !.out = "handed", !.spec = s], earned)
<1>1. d.first # NoSpec /\ d.out # "handed"
  BY LadderAssumption DEF ConnOK, EndsOK
<1>2. NextRung(d) \in Connection /\ ConnOK(NextRung(d), earned)
  <2>1. PICK x : x = NextRung(d)
    OBVIOUS
  <2>2. /\ x \in Connection /\ x.pc = "walk" /\ x.out = d.out /\ x.kind = d.kind
        /\ x.v = d.v /\ x.rungs = d.rungs /\ x.first = d.first
    BY <2>1 DEF NextRung, Connection
  <2>3. WalkOK(x, earned)
    BY <1>1, <2>2 DEF ConnOK, WalkOK
  <2>4. EndsOK(x, earned)
    BY <1>1, <2>2 DEF ConnOK, EndsOK
  <2> QED BY <2>1, <2>2, <2>3, <2>4 DEF ConnOK
<1>3. /\ [d EXCEPT !.pc = "lost"] \in Connection
      /\ ConnOK([d EXCEPT !.pc = "lost"], earned)
  <2>1. PICK x : x = [d EXCEPT !.pc = "lost"]
    OBVIOUS
  <2>2. /\ x \in Connection /\ x.pc = "lost" /\ x.out = d.out /\ x.kind = d.kind
        /\ x.v = d.v /\ x.rungs = d.rungs /\ x.first = d.first
    BY <2>1 DEF Connection, Steps
  <2>3. Stopped(d, x)
    BY <1>1, <2>2 DEF Stopped
  <2>4. ConnOK(x, earned)
    BY <1>1, <2>3, StoppedOK
  <2> QED BY <2>1, <2>2, <2>4
<1>4. ASSUME NEW s \in Specs, NEW goes \in {"rejected", "won"}, goes = "won" => s \in earned
      PROVE  ConnOK([d EXCEPT !.pc = goes, !.spec = s], earned)
  <2>1. PICK x : x = [d EXCEPT !.pc = goes, !.spec = s]
    OBVIOUS
  <2>2. /\ x.pc = goes /\ x.spec = s /\ x.out = d.out /\ x.kind = d.kind
        /\ x.v = d.v /\ x.rungs = d.rungs /\ x.first = d.first
    BY <2>1 DEF Connection
  <2>3. Stopped(d, x)
    BY <1>1, <1>4, <2>2 DEF Stopped
  <2>4. ConnOK(x, earned)
    BY <1>1, <2>3, StoppedOK
  <2> QED BY <2>1, <2>4
<1>5. ASSUME NEW s \in Specs, NEW goes \in {"rejected", "won"}
      PROVE  [d EXCEPT !.pc = goes, !.spec = s] \in Connection
  BY DEF Connection, Steps
<1>6. ASSUME NEW s \in Specs \ Risky
      PROVE  /\ [d EXCEPT !.pc = "ret", !.out = "handed", !.spec = s] \in Connection
             /\ ConnOK([d EXCEPT !.pc = "ret", !.out = "handed", !.spec = s], earned)
  <2>1. PICK x : x = [d EXCEPT !.pc = "ret", !.out = "handed", !.spec = s]
    OBVIOUS
  <2>2. x \in Connection
    BY <2>1 DEF Connection, Steps, Outs
  <2>3. /\ x.pc = "ret" /\ x.spec = s /\ x.kind = d.kind
        /\ x.v = d.v /\ x.rungs = d.rungs /\ x.first = d.first
    BY <2>1 DEF Connection
  <2>4. Stopped(d, x)
    BY <2>3 DEF Stopped
  <2>5. ConnOK(x, earned)
    BY <1>1, <2>4, StoppedOK
  <2> QED BY <2>1, <2>2, <2>5
<1> QED
  BY <1>2, <1>3, <1>4, <1>5, <1>6

(* A connection that has not dialled yet may start a walk.                  *)
LEMMA WalkingOK ==
  ASSUME NEW k \in Connection, NEW v \in Verdict, NEW mode \in {"own", "lead", "follow"},
         ConnOK(k, earned), Sound(v, earned), k.pc \in {"ready", "wait"}
  PROVE  Walking(k, v, mode) \in Connection /\ ConnOK(Walking(k, v, mode), earned)
<1>1. /\ k.first = NoSpec /\ k.i = 1 /\ k.out # "handed"
  BY DEF ConnOK, WalkOK, EndsOK
<1>2. /\ Rungs(v) \in Seq(Specs) /\ Rungs(v) # <<>>
      /\ Rungs(v)[1] \in {Plain} \cup earned
      /\ BaseLadder[1] = Plain /\ Rungs(v)[1] # Plain =>
            Len(Rungs(v)) > 1 /\ Rungs(v)[2] = Plain
  BY RungsHead DEF Sound, Learned
<1>3. Walking(k, v, mode) \in Connection
  BY <1>2 DEF Walking, Connection, Steps
<1>4. /\ Walking(k, v, mode).pc = "walk" /\ Walking(k, v, mode).first = NoSpec
      /\ Walking(k, v, mode).i = 1 /\ Walking(k, v, mode).out # "handed"
      /\ Walking(k, v, mode).v = v /\ Walking(k, v, mode).rungs = Rungs(v)
  BY <1>1 DEF Walking, Connection
<1> QED
  BY <1>2, <1>3, <1>4 DEF ConnOK, WalkOK, EndsOK

-----------------------------------------------------------------------------
(* One lemma per action.                                                    *)

LEMMA IdleOK == Idle \in Connection /\ ConnOK(Idle, earned)
<1>1. Watch \in Verdict /\ "default" \notin Learned
  BY LadderAssumption DEF Watch, Verdict, Sources, Learned
<1>2. (CHOOSE k \in Kinds : TRUE) \in Kinds /\ (CHOOSE n \in Nets : TRUE) \in Nets
  BY LadderAssumption
<1>3. Idle \in Connection
  BY <1>1, <1>2 DEF Idle, Connection, Steps, Outs
<1>4. Watch.src \notin Learned
  BY <1>1 DEF Watch
<1> QED
  BY <1>3, <1>4 DEF Idle, ConnOK, WalkOK, EndsOK, Sound

LEMMA LearnedForOK ==
  ASSUME NEW s \in Specs
  PROVE  LearnedFor(s) \in Verdict /\ LearnedFor(s).spec = s
BY DEF LearnedFor, Verdict, Sources, Learned

LEMMA InitOK == Init => IInv
<1> SUFFICES ASSUME Init PROVE IInv
  OBVIOUS
<1>1. Watch \in Verdict /\ Watch.src \notin Learned
  BY LadderAssumption DEF Watch, Verdict, Sources, Learned
<1>2. store \in [Nets -> Verdict]
  BY <1>1, LearnedForOK, LadderAssumption DEF Init
<1>3. ASSUME NEW n \in Nets PROVE store[n].spec \in Specs
  BY <1>2 DEF Verdict
<1>4. earned \subseteq Specs
  BY <1>3 DEF Init
<1>5. TypeInv
  BY <1>2, <1>4, IdleOK, LadderAssumption DEF Init, TypeInv
<1>6. LearnedFromEvidence
  BY <1>1 DEF Init, LearnedFromEvidence
<1>7. \A c \in Conns : ConnOK(conn[c], earned)
  BY IdleOK DEF Init
<1> QED
  BY <1>5, <1>6, <1>7 DEF IInv

LEMMA LookupOK == ASSUME IInv, NEW c \in Conns, Lookup(c) PROVE IInv'
<1>1. ForName(net) \in Verdict /\ Sound(ForName(net), earned)
  BY LadderAssumption
  DEF ForName, IInv, TypeInv, LearnedFromEvidence, Sound, Watch, Verdict, Sources, Learned
<1>2. PICK k \in Kinds :
        conn' = [conn EXCEPT ![c] =
           [Idle EXCEPT !.kind = k, !.v = ForName(net),
                        !.pc = IF Judged(ForName(net)) THEN "ready" ELSE "ret",
                        !.out = IF Judged(ForName(net)) THEN "none" ELSE "relayed"]]
  BY DEF Lookup
<1> DEFINE new == [Idle EXCEPT !.kind = k, !.v = ForName(net),
                        !.pc = IF Judged(ForName(net)) THEN "ready" ELSE "ret",
                        !.out = IF Judged(ForName(net)) THEN "none" ELSE "relayed"]
<1>3. new \in Connection
  BY <1>1, <1>2, IdleOK DEF Connection, Steps, Outs
<1>4. ConnOK(new, earned)
  BY <1>1, IdleOK DEF Connection, ConnOK, WalkOK, EndsOK, Idle
<1>5. RestOK' /\ earned' = earned
  BY DEF Lookup, IInv, TypeInv, RestOK, LearnedFromEvidence
<1> HIDE DEF new
<1> QED
  BY <1>2, <1>3, <1>4, <1>5, OneSteps DEF new

LEMMA LeadOK == ASSUME IInv, NEW c \in Conns, Lead(c) PROVE IInv'
<1> DEFINE k == [conn[c] EXCEPT !.key = net]
<1>1. conn[c] \in Connection /\ ConnOK(conn[c], earned) /\ conn[c].pc = "ready"
  BY Known DEF Lead, At
<1>2. k \in Connection /\ k.v = conn[c].v /\ k.pc = "ready"
  BY <1>1 DEF Connection, IInv, TypeInv
<1>3. ConnOK(k, earned)
  BY <1>1 DEF ConnOK, WalkOK, EndsOK, Connection
<1>4. k.v \in Verdict /\ Sound(k.v, earned)
  BY <1>2, <1>3 DEF Connection, ConnOK, EndsOK
<1>5. conn' = [conn EXCEPT ![c] = Walking(k, k.v, "lead")]
  BY <1>2 DEF Lead, IInv, TypeInv
<1> HIDE DEF k
<1>6. Walking(k, k.v, "lead") \in Connection /\ ConnOK(Walking(k, k.v, "lead"), earned)
  BY <1>2, <1>3, <1>4, WalkingOK
<1>7. RestOK' /\ earned' = earned
  BY DEF Lead, IInv, TypeInv, RestOK, LearnedFromEvidence
<1> QED
  BY <1>5, <1>6, <1>7, OneSteps

LEMMA WaitOK == ASSUME IInv, NEW c \in Conns, Wait(c) PROVE IInv'
<1> DEFINE k == [conn[c] EXCEPT !.pc = "wait", !.key = net]
<1>1. conn[c] \in Connection /\ ConnOK(conn[c], earned) /\ conn[c].pc = "ready"
  BY Known DEF Wait, At
<1>2. k \in Connection
  BY <1>1 DEF Connection, Steps, IInv, TypeInv
<1>3. ConnOK(k, earned)
  BY <1>1 DEF ConnOK, WalkOK, EndsOK, Connection
<1>4. Becomes(c, k)
  BY DEF Wait
<1> QED
  BY <1>2, <1>3, <1>4, BecomesOK

LEMMA PassOverOK == ASSUME IInv, NEW c \in Conns, PassOver(c) PROVE IInv'
<1> DEFINE k == NextRung(conn[c])
<1>1. /\ conn[c] \in Connection /\ ConnOK(conn[c], earned) /\ conn[c].pc = "walk"
      /\ Rung(c) \notin Applies[conn[c].kind]
  BY Known DEF PassOver, CanTry, CanSend, At
<1>2. k \in Connection
  BY <1>1 DEF NextRung, Connection
<1>3. ConnOK(k, earned)
  <2>1. k.pc = "walk" /\ k.first = NoSpec => k.rungs[1] \notin Applies[k.kind]
    <3>1. CASE conn[c].i = 1
      BY <1>1, <3>1 DEF NextRung, Rung, Connection
    <3>2. CASE conn[c].i # 1
      BY <1>1, <3>2 DEF NextRung, Connection, ConnOK, WalkOK
    <3> QED
      BY <3>1, <3>2
  <2>2. BaseLadder[1] = Plain /\ k.first = NoSpec => k.i <= 2
    <3> SUFFICES ASSUME BaseLadder[1] = Plain, conn[c].first = NoSpec, conn[c].i # 1
                 PROVE  FALSE
      BY <1>1 DEF NextRung, Connection
    <3>1. conn[c].i = 2 /\ conn[c].rungs[1] # Plain
      BY <1>1, LadderAssumption DEF ConnOK, WalkOK, Connection
    <3>2. Rung(c) = Plain
      BY <1>1, <3>1 DEF ConnOK, WalkOK, Rung
    <3> QED
      BY <1>1, <3>2, LadderAssumption DEF Connection
  <2> QED
    BY <1>1, <2>1, <2>2 DEF NextRung, Connection, ConnOK, WalkOK, EndsOK
<1>4. Becomes(c, k)
  BY DEF PassOver
<1> QED
  BY <1>2, <1>3, <1>4, BecomesOK

(* A dial that failed, a rung that could not be emitted, a torn write, a    *)
(* reset, a silence: nothing is answered and nothing learned.               *)
LEMMA DialOnly ==
  ASSUME IInv, NEW c \in Conns,
         DialFails(c) \/ CannotEmit(c) \/ TornWrite(c) \/ Reset(c) \/ Silence(c)
         \/ Reject(c)
  PROVE  IInv'
<1> DEFINE d == Dialled(c)
<1>1. CanSend(c)
  BY DEF DialFails, CannotEmit, TornWrite, Reset, Silence, Reject
<1>2. /\ d \in Connection /\ ConnOK(d, earned) /\ d.first \in Specs /\ d.pc = "walk"
      /\ Rung(c) \in Specs
  BY <1>1, DialledOK, RungOK
<1>3. \/ Becomes(c, NextRung(d))
      \/ Becomes(c, [d EXCEPT !.pc = "lost"])
      \/ Becomes(c, [d EXCEPT !.pc = "rejected", !.spec = Rung(c)])
      \/ /\ Rung(c) \notin Risky
         /\ Becomes(c, [d EXCEPT !.pc = "ret", !.out = "handed", !.spec = Rung(c)])
  BY DEF DialFails, CannotEmit, TornWrite, Reset, Silence, Reject, RetryOn, SafeToHandOver
<1> HIDE DEF d
<1> QED
  BY <1>2, <1>3, AfterDial, BecomesOK

LEMMA AnswerOK == ASSUME IInv, NEW c \in Conns, Answer(c) PROVE IInv'
<1> DEFINE d == Dialled(c)
           k == [d EXCEPT !.pc = "won", !.spec = Rung(c)]
<1>1. /\ d \in Connection /\ ConnOK(d, earned) /\ d.first \in Specs /\ d.pc = "walk"
      /\ Rung(c) \in Specs
  BY DialledOK, RungOK DEF Answer
<1>2. earned' = earned \cup {Rung(c)} /\ conn' = [conn EXCEPT ![c] = k]
  BY DEF Answer
<1> HIDE DEF d
<1>3. RestOK' /\ earned \subseteq earned'
  BY <1>1, <1>2 DEF Answer, IInv, TypeInv, RestOK, LearnedFromEvidence
<1>4. d.first # NoSpec
  BY <1>1, LadderAssumption
<1>5. k \in Connection
  BY <1>1 DEF Connection, Steps
<1>6. ConnOK(k, earned')
  <2>1. ConnOK(d, earned')
    BY <1>1, <1>3, MoreEvidence
  <2> QED
    BY <1>1, <1>2, <1>4, <2>1 DEF Connection, ConnOK, WalkOK, EndsOK
<1> HIDE DEF k
<1> QED
  BY <1>2, <1>3, <1>5, <1>6, OneSteps

LEMMA ExhaustOK == ASSUME IInv, NEW c \in Conns, Exhaust(c) PROVE IInv'
<1> DEFINE k == [conn[c] EXCEPT !.pc = "lost"]
<1>1. conn[c] \in Connection /\ ConnOK(conn[c], earned) /\ conn[c].pc = "walk"
  BY Known DEF Exhaust, At
<1>2. k \in Connection /\ ConnOK(k, earned)
  BY <1>1 DEF Connection, Steps, ConnOK, WalkOK, EndsOK
<1> QED
  BY <1>2, BecomesOK DEF Exhaust

LEMMA CancelOK == ASSUME IInv, NEW c \in Conns, Cancel(c) PROVE IInv'
<1> DEFINE k == [conn[c] EXCEPT !.pc = "ret", !.out = "cancelled"]
<1>1. /\ conn[c] \in Connection /\ ConnOK(conn[c], earned)
      /\ conn[c].pc \in {"walk", "lost"}
  BY Known DEF Cancel, At
<1>2. k \in Connection
  BY <1>1 DEF Connection, Steps, Outs
<1>3. WalkOK(k, earned)
  BY <1>1 DEF Connection, ConnOK, WalkOK
<1>4. EndsOK(k, earned)
  BY <1>1 DEF Connection, ConnOK, EndsOK
<1> QED
  BY <1>2, <1>3, <1>4, BecomesOK DEF Cancel, ConnOK

(* A walk that ended returns with a sound verdict.                          *)
LEMMA ReturnsOK ==
  ASSUME IInv, NEW c \in Conns, conn[c].pc \in {"won", "rejected", "lost"},
         NEW out \in Outs \ {"handed"}, NEW v \in Verdict, Sound(v, earned),
         Ends(c, out, v), store' \in [Nets -> Verdict],
         \A n \in Nets : Sound(store'[n], earned)
  PROVE  IInv'
<1> DEFINE k == [conn[c] EXCEPT !.pc = "ret", !.out = out, !.v = v]
<1>1. conn[c] \in Connection /\ ConnOK(conn[c], earned)
  BY Known
<1>2. k \in Connection /\ k.pc = "ret" /\ k.out = out /\ k.v = v
  BY <1>1 DEF Connection, Steps
<1>3. ConnOK(k, earned)
  <2>1. WalkOK(k, earned)
    BY <1>1 DEF Connection, ConnOK, WalkOK
  <2> QED
    BY <1>2, <2>1 DEF ConnOK, EndsOK
<1>4. conn' = [conn EXCEPT ![c] = k]
  BY DEF Ends, IInv, TypeInv
<1>5. RestOK' /\ earned' = earned
  BY DEF Ends, IInv, TypeInv, RestOK, LearnedFromEvidence, Sound
<1> QED
  BY <1>2, <1>3, <1>4, <1>5, OneSteps

LEMMA StoreSound ==
  ASSUME IInv
  PROVE  /\ store \in [Nets -> Verdict] /\ net \in Nets
         /\ \A n \in Nets : Sound(store[n], earned)
         /\ Watch \in Verdict /\ Watch.src \notin Learned
BY LadderAssumption
DEF IInv, TypeInv, LearnedFromEvidence, Sound, Watch, Verdict, Sources, Learned

LEMMA RecordWinOK == ASSUME IInv, NEW c \in Conns, RecordWin(c) PROVE IInv'
<1> DEFINE nv == LearnedFor(conn[c].spec)
<1>1. /\ conn[c] \in Connection /\ ConnOK(conn[c], earned) /\ conn[c].pc = "won"
  BY Known DEF RecordWin, At
<1>2. conn[c].spec \in earned /\ earned \subseteq Specs
  BY <1>1 DEF ConnOK, EndsOK, IInv, TypeInv
<1>3. nv \in Verdict /\ Sound(nv, earned)
  BY <1>2, LearnedForOK DEF Sound
<1> HIDE DEF nv
<1>4. Ends(c, "live", nv) /\ store' \in {store, [store EXCEPT ![net] = nv]}
  BY DEF RecordWin, Store, nv
<1>5. store' \in [Nets -> Verdict] /\ \A n \in Nets : Sound(store'[n], earned)
  BY <1>3, <1>4, StoreSound
<1>6. "live" \in Outs \ {"handed"}
  BY DEF Outs
<1> QED
  BY <1>1, <1>3, <1>4, <1>5, <1>6, ReturnsOK

LEMMA ForgetOK == ASSUME IInv, NEW c \in Conns, Forget(c) PROVE IInv'
<1>1. conn[c].pc = "rejected" /\ conn[c].v \in Verdict /\ Sound(conn[c].v, earned)
  BY Known DEF Forget, At, Connection, ConnOK, EndsOK
<1>2. PICK v \in {conn[c].v, Watch} :
        Ends(c, "rejected", v) /\ store' \in {store, [store EXCEPT ![net] = Watch]}
  BY DEF Forget, Store
<1>3. v \in Verdict /\ Sound(v, earned)
  BY <1>1, <1>2, StoreSound DEF Sound
<1>4. store' \in [Nets -> Verdict] /\ \A n \in Nets : Sound(store'[n], earned)
  BY <1>2, StoreSound DEF Sound
<1>5. "rejected" \in Outs \ {"handed"}
  BY DEF Outs
<1> QED
  BY <1>1, <1>2, <1>3, <1>4, <1>5, ReturnsOK

(* A loss never makes a verdict of anything that was not one.               *)
LEMMA DemotedOK ==
  ASSUME NEW v \in Verdict, Sound(v, earned), Watch \in Verdict, Watch.src \notin Learned
  PROVE  Demoted(v) \in Verdict /\ Sound(Demoted(v), earned)
BY DEF Demoted, Verdict, Sound

LEMMA RecordLossOK == ASSUME IInv, NEW c \in Conns, RecordLoss(c) PROVE IInv'
<1>1. conn[c].pc = "lost" /\ conn[c].v \in Verdict /\ Sound(conn[c].v, earned)
  BY Known DEF RecordLoss, At, Connection, ConnOK, EndsOK
<1> DEFINE d == Demoted(store[net])
<1>2. d \in Verdict /\ Sound(d, earned)
  BY StoreSound, DemotedOK
<1>3. Ends(c, "failed", conn[c].v) /\ store' \in {store, [store EXCEPT ![net] = d]}
  BY DEF RecordLoss, Store
<1> HIDE DEF d
<1>4. store' \in [Nets -> Verdict] /\ \A n \in Nets : Sound(store'[n], earned)
  BY <1>2, <1>3, StoreSound
<1>5. "failed" \in Outs \ {"handed"}
  BY DEF Outs
<1> QED
  BY <1>1, <1>3, <1>4, <1>5, ReturnsOK

(* Releasing the waiters: a follower takes its leader's sound verdict.      *)
LEMMA FinishOK ==
  ASSUME IInv, NEW c \in Conns, NEW err \in BOOLEAN, Finish(c, err) PROVE IInv'
<1>1. conn[c].v \in Verdict /\ Sound(conn[c].v, earned) /\ conn[c].key \in Nets
  BY Known DEF Connection, ConnOK, EndsOK
<1>2. ASSUME NEW w \in Waiters(c)
      PROVE  /\ Released(w, err, conn[c].v) \in Connection
             /\ ConnOK(Released(w, err, conn[c].v), earned)
  <2>1. /\ conn[w] \in Connection /\ ConnOK(conn[w], earned) /\ conn[w].pc = "wait"
    BY Known DEF Waiters, At
  <2>2. conn[w].v \in Verdict /\ Sound(conn[w].v, earned)
    BY <2>1 DEF Connection, ConnOK, EndsOK
  <2> QED
    BY <1>1, <2>1, <2>2, WalkingOK DEF Released
<1>3. conn' = [w \in Conns |->
                 IF w = c THEN Idle
                 ELSE IF conn[c].mode = "lead" /\ w \in Waiters(c)
                      THEN Released(w, err, conn[c].v)
                 ELSE conn[w]]
  BY DEF Finish
<1>4. \A w \in Conns : conn'[w] \in Connection /\ ConnOK(conn'[w], earned)
  BY <1>2, <1>3, Known, IdleOK
<1>5. conn' \in [Conns -> Connection]
  BY <1>3, <1>4
<1>6. RestOK' /\ earned' = earned
  BY <1>1 DEF Finish, IInv, TypeInv, RestOK, LearnedFromEvidence
<1> QED
  BY <1>4, <1>5, <1>6 DEF IInv, TypeInv, RestOK

LEMMA ElsewhereOK ==
  ASSUME IInv, Roam \/ (\E n \in Nets : Expire(n)) \/ UNCHANGED vars PROVE IInv'
<1>1. CASE Roam
  BY <1>1 DEF Roam, IInv, TypeInv, LearnedFromEvidence
<1>2. ASSUME NEW n \in Nets, Expire(n) PROVE IInv'
  BY <1>2, StoreSound DEF Expire, Store, IInv, TypeInv, LearnedFromEvidence
<1>3. CASE UNCHANGED vars
  BY <1>3 DEF vars, IInv, TypeInv, LearnedFromEvidence
<1> QED
  BY <1>1, <1>2, <1>3

LEMMA StepOK == IInv /\ [Next]_vars => IInv'
<1> SUFFICES ASSUME IInv, [Next]_vars PROVE IInv'
  OBVIOUS
<1>1. ASSUME NEW c \in Conns, Lookup(c) \/ Serve(c) \/ Cancel(c) \/ Panic(c)
      PROVE  IInv'
  <2>1. CASE Lookup(c)
    BY <2>1, LookupOK
  <2>2. CASE Lead(c) \/ Wait(c) \/ PassOver(c) \/ Answer(c) \/ Exhaust(c)
    BY <2>2, LeadOK, WaitOK, PassOverOK, AnswerOK, ExhaustOK
  <2>3. CASE \/ DialFails(c) \/ CannotEmit(c) \/ TornWrite(c)
             \/ Reset(c) \/ Silence(c) \/ Reject(c)
    BY <2>3, DialOnly
  <2>4. CASE RecordWin(c) \/ Forget(c) \/ RecordLoss(c)
    BY <2>4, RecordWinOK, ForgetOK, RecordLossOK
  <2>5. CASE Return(c) \/ Panic(c)
    <3>1. (conn[c].out \in {"failed", "cancelled"}) \in BOOLEAN
      OBVIOUS
    <3> QED
      BY <2>5, <3>1, FinishOK DEF Return, Panic
  <2>6. CASE Cancel(c)
    BY <2>6, CancelOK
  <2> QED
    BY <1>1, <2>1, <2>2, <2>3, <2>4, <2>5, <2>6 DEF Serve
<1> QED
  BY <1>1, ElsewhereOK DEF Next

LEMMA Inductive == Spec => []IInv
<1> QED
  BY InitOK, StepOK, PTL DEF Spec
-----------------------------------------------------------------------------

(* Every verdict in the store rests on an answer of the origin: recordWin   *)
(* alone learns, and only from a connection that was answered; forget,      *)
(* recordLoss, expiry, a handed-over silence and a follower's inheritance   *)
(* never make a verdict of anything else.                                   *)
THEOREM EvidenceBeforeLearning == Spec => []LearnedFromEvidence
<1>1. IInv => LearnedFromEvidence
  BY DEF IInv
<1> QED
  BY <1>1, Inductive, PTL

(* For every configured ladder: a connection's first dial is plain, or a    *)
(* spec that was answered before, unless the spec that was answered does    *)
(* not apply to its first message.                                          *)
THEOREM FirstDial == Spec => []DesyncIsEarned
<1>1. IInv => DesyncIsEarned
  BY DEF IInv, ConnOK, WalkOK, DesyncIsEarned
<1> QED
  BY <1>1, Inductive, PTL

(* A socket that carries bytes of dpb's own is never handed to the client   *)
(* on silence.                                                              *)
THEOREM NoPoison == Spec => []PoisonIsNeverHandedOver
<1>1. IInv => PoisonIsNeverHandedOver
  BY DEF IInv, ConnOK, EndsOK, PoisonIsNeverHandedOver
<1> QED
  BY <1>1, Inductive, PTL

(* With a ladder that begins with plain, as every built-in one does, the    *)
(* exception is void: plain comes right after the cached winner, and plain  *)
(* applies to everything.                                                   *)
THEOREM PlainFirst ==
  Spec => [](BaseLadder[1] = Plain =>
               \A c \in Conns : conn[c].first \in {NoSpec, Plain} \cup earned)
<1>1. IInv => (BaseLadder[1] = Plain =>
                 \A c \in Conns : conn[c].first \in {NoSpec, Plain} \cup earned)
  BY DEF IInv, ConnOK, WalkOK
<1> QED
  BY <1>1, Inductive, PTL

-----------------------------------------------------------------------------
(* Folds.                                                                  *)

\* A set of natural numbers that is not empty has a least one.
LEMMA LeastOf ==
    ASSUME NEW N \in SUBSET Nat, N # {}
    PROVE  \E x \in N : \A y \in N : x <= y
<1> DEFINE Below == {0..x : x \in N}
           R == StrictSubsetOrdering(Nat)
<1>1. \A x \in N : 0..x \in SUBSET Nat /\ IsFiniteSet(0..x)
  BY FS_Interval
<1>2. Below \subseteq FiniteSubsetsOf(Nat) /\ Below # {}
  BY <1>1 DEF FiniteSubsetsOf
<1>3. PICK B \in Below : \A C \in Below : ~ (<<C, B>> \in R)
  <2>1. IsWellFoundedOn(R, FiniteSubsetsOf(Nat))
    BY FS_StrictSubsetOrderingWellFounded
  <2> HIDE DEF Below, R
  <2> QED BY <1>2, <2>1, WFMin
<1>4. PICK x \in N : B = 0..x
  OBVIOUS
<1>5. ASSUME NEW y \in N, y < x PROVE FALSE
  <2>1. 0..y \subseteq 0..x /\ 0..y # 0..x
    <3>1. x \in 0..x /\ x \notin 0..y
      BY <1>5
    <3>2. \A z \in 0..y : z \in 0..x
      BY <1>5
    <3> QED BY <3>1, <3>2
  <2>2. <<0..y, 0..x>> \in R
    BY <2>1 DEF StrictSubsetOrdering
  <2> QED BY <1>3, <1>4, <2>2
<1> QED BY <1>5

\* What holds at 0 and passes on to the next holds up to n.
LEMMA Climb ==
    ASSUME NEW n \in Nat, NEW P, 0 \in P,
           \A k \in 0..n : k \in P /\ k # n => k + 1 \in P
    PROVE  0..n \subseteq P
<1> DEFINE Bad == (0..n) \ P
<1> SUFFICES ASSUME Bad # {} PROVE FALSE
  OBVIOUS
<1>1. PICK x \in Bad : \A y \in Bad : x <= y
  <2>1. Bad \in SUBSET Nat
    OBVIOUS
  <2> HIDE DEF Bad
  <2> QED BY <2>1, LeastOf
<1>2. x \in 0..n /\ x \notin P /\ x # 0
  OBVIOUS
<1>3. x - 1 \in 0..n /\ x - 1 # n /\ (x - 1) + 1 = x
  BY <1>2
<1>4. x - 1 \in P
  <2>1. ~(x <= x - 1)
    BY <1>2
  <2>2. x - 1 \notin Bad
    BY <1>1, <2>1
  <2> QED BY <2>2, <1>3
<1> QED BY <1>2, <1>3, <1>4

\* The partial results of a fold.
LEMMA Partials ==
    ASSUME NEW f, NEW base, NEW s, Len(s) \in Nat
    PROVE  \E g : /\ Folded(f, base, s) = g[Len(s)]
                  /\ g[0] = base
                  /\ \A k \in 1..Len(s) : g[k] = f[g[k - 1]][s[k]]
<1> DEFINE n == Len(s)
           Step(g, k) == IF k = 0 THEN base ELSE f[g[k - 1]][s[k]]
           upto == CHOOSE g : g = [k \in 0..n |-> Step(g, k)]
           P == {k \in 0..n : \E g : /\ g = [i \in 0..k |-> g[i]]
                                     /\ \A i \in 0..k : g[i] = Step(g, i)}
<1>1. Folded(f, base, s) = upto[n]
  BY DEF Folded
<1>2. 0 \in P
  <2>1. \E g : g = [i \in 0..0 |-> g[i]] /\ \A i \in 0..0 : g[i] = Step(g, i)
    <3> DEFINE h == [i \in 0..0 |-> base]
    <3>1. h = [i \in 0..0 |-> h[i]] /\ \A i \in 0..0 : h[i] = Step(h, i)
      OBVIOUS
    <3> HIDE DEF h
    <3> QED BY <3>1
  <2>2. 0 \in 0..n
    OBVIOUS
  <2> QED BY <2>1, <2>2
<1>3. ASSUME NEW k \in 0..n, k \in P, k # n PROVE k + 1 \in P
  <2>1. PICK g : /\ g = [i \in 0..k |-> g[i]]
                 /\ \A i \in 0..k : g[i] = Step(g, i)
    BY <1>3
  <2> DEFINE h == [i \in 0..(k+1) |-> IF i = k + 1 THEN f[g[k]][s[k + 1]] ELSE g[i]]
  <2>2. k + 1 \in 0..n /\ k \in Nat
    BY <1>3
  <2>3. ASSUME NEW i \in 0..(k+1) PROVE h[i] = Step(h, i)
    <3>1. CASE i = k + 1
      <4>1. k \in 0..(k+1) /\ k + 1 \in 0..(k+1) /\ k # k + 1 /\ k + 1 # 0 /\ (k + 1) - 1 = k
        BY <2>2
      <4>2. h[k + 1] = f[g[k]][s[k + 1]] /\ h[k] = g[k]
        BY <4>1
      <4> HIDE DEF h
      <4> QED BY <3>1, <4>1, <4>2
    <3>2. CASE i # k + 1
      <4>1. i \in 0..k /\ (i # 0 => i - 1 \in 0..k /\ i - 1 \in 0..(k+1) /\ i - 1 # k + 1)
        BY <3>2, <2>2
      <4>2. h[i] = g[i] /\ (i # 0 => h[i - 1] = g[i - 1])
        BY <4>1, <2>2, <3>2
      <4>3. g[i] = Step(g, i)
        BY <2>1, <4>1
      <4> HIDE DEF h
      <4> QED BY <4>2, <4>3
    <3> QED BY <3>1, <3>2
  <2>4. h = [i \in 0..(k+1) |-> h[i]]
    OBVIOUS
  <2> HIDE DEF h
  <2> QED BY <2>2, <2>3, <2>4
<1>4. n \in P
  <2> HIDE DEF P
  <2>1. 0..n \subseteq P
    BY <1>2, <1>3, Climb
  <2> QED BY <2>1
<1>5. PICK g : /\ g = [i \in 0..n |-> g[i]]
               /\ \A i \in 0..n : g[i] = Step(g, i)
  BY <1>4
<1>6. g = [k \in 0..n |-> Step(g, k)]
  BY <1>5
<1>7. upto = [k \in 0..n |-> Step(upto, k)]
  BY <1>6
<1>8. \A k \in 0..n : upto[k] = IF k = 0 THEN base ELSE f[upto[k - 1]][s[k]]
  BY <1>7
<1> HIDE DEF upto
<1>9. 0 \in 0..n /\ \A k \in 1..n : k \in 0..n /\ k # 0
  OBVIOUS
<1> QED BY <1>1, <1>8, <1>9

\* What a fold's function preserves, its result has.
LEMMA FoldedIn ==
    ASSUME NEW Good, NEW f, NEW base \in Good, NEW S, NEW s \in Seq(S),
           \A a \in Good : \A x \in S : f[a][x] \in Good
    PROVE  Folded(f, base, s) \in Good
<1>1. Len(s) \in Nat /\ \A i \in 1..Len(s) : s[i] \in S
  BY ElementOfSeq, LenProperties
<1>2. PICK g : /\ Folded(f, base, s) = g[Len(s)]
               /\ g[0] = base
               /\ \A k \in 1..Len(s) : g[k] = f[g[k - 1]][s[k]]
  BY <1>1, Partials
<1> DEFINE P == {k \in 0..Len(s) : g[k] \in Good}
<1>3. 0 \in P
  BY <1>1, <1>2
<1>4. ASSUME NEW k \in 0..Len(s), k \in P, k # Len(s) PROVE k + 1 \in P
  <2>1. k + 1 \in 1..Len(s) /\ (k + 1) - 1 = k /\ k + 1 \in 0..Len(s)
    BY <1>1, <1>4
  <2>2. g[k + 1] = f[g[k]][s[k + 1]] /\ g[k] \in Good /\ s[k + 1] \in S
    BY <1>1, <1>2, <1>4, <2>1
  <2> QED BY <2>1, <2>2
<1> HIDE DEF P
<1>5. 0..Len(s) \subseteq P
  BY <1>1, <1>3, <1>4, Climb
<1> QED BY <1>1, <1>2, <1>5 DEF P

\* A filter keeps elements of the sequence that are in the set, and nothing else.
LEMMA KeptIn ==
    ASSUME NEW X, NEW s \in Seq(X), NEW S
    PROVE  Kept(s, S) \in Seq(S \cap X)
<1> DEFINE elements == {s[i] : i \in DOMAIN s}
           keep == [kept \in Seq(S) |->
                      [x \in elements |-> IF x \in S THEN Append(kept, x) ELSE kept]]
<1>1. s \in Seq(elements) /\ elements \subseteq X
  BY ElementOfSeq, SeqDef
<1>2. ASSUME NEW a \in Seq(S \cap X), NEW x \in elements PROVE keep[a][x] \in Seq(S \cap X)
  <2>1. a \in Seq(S)
    BY SeqDef
  <2>2. keep[a][x] = IF x \in S THEN Append(a, x) ELSE a
    BY <2>1
  <2>3. x \in S => Append(a, x) \in Seq(S \cap X)
    BY <1>1, AppendProperties
  <2> QED BY <2>2, <2>3
<1>3. <<>> \in Seq(S \cap X)
  BY EmptySeq
<1> HIDE DEF keep, elements
<1>4. Folded(keep, <<>>, s) \in Seq(S \cap X)
  BY <1>1, <1>2, <1>3, FoldedIn
<1> QED BY <1>4 DEF Kept, keep, elements

-----------------------------------------------------------------------------
(* What Tune's operators are built of.                                     *)

BlockedOnes == {i \in DOMAIN job.targets : T(i).kind = "blocked"}

\* The targets of a kind, by index.
LEMMA OfKindIn ==
    ASSUME NEW k, job \in Jobs
    PROVE  OfKind(k) \in Seq({i \in DOMAIN job.targets : T(i).kind = k})
<1> DEFINE all == [i \in DOMAIN job.targets |-> i]
           these == {i \in DOMAIN job.targets : T(i).kind = k}
<1>1. job.targets \in Seq(Targets)
  BY JobsAssumption DEF JobType
<1>2. all \in Seq(DOMAIN job.targets)
  <2>1. DOMAIN job.targets = 1..Len(job.targets) /\ Len(job.targets) \in Nat
    BY <1>1, LenProperties
  <2>2. all \in [1..Len(job.targets) -> DOMAIN job.targets]
    BY <2>1
  <2> HIDE DEF all
  <2> QED BY <2>1, <2>2, SeqDef
<1> HIDE DEF all
<1>3. Kept(all, these) \in Seq(these \cap DOMAIN job.targets)
  BY <1>2, KeptIn
<1>4. these \cap DOMAIN job.targets = these
  OBVIOUS
<1> HIDE DEF these
<1>5. Kept(all, these) \in Seq(these)
  BY <1>3, <1>4
<1> QED BY <1>5 DEF OfKind, all, these

\* What a sequence ranges over.
LEMMA RangeIn ==
    ASSUME NEW X, NEW s \in Seq(X)
    PROVE  Range(s) \subseteq X
<1> QED BY ElementOfSeq, LenProperties DEF Range

\* A sequence of what it ranges over.
LEMMA SeqByRange ==
    ASSUME NEW X, NEW Y, NEW s \in Seq(X), Range(s) \subseteq Y
    PROVE  s \in Seq(Y)
<1>1. s \in [1..Len(s) -> X] /\ Len(s) \in Nat /\ DOMAIN s = 1..Len(s)
  BY LenProperties
<1>2. \A i \in 1..Len(s) : s[i] \in Y
  BY <1>1 DEF Range
<1>3. s \in [1..Len(s) -> Y]
  BY <1>1, <1>2
<1> QED BY <1>1, <1>3, SeqDef

\* The baseline tries everything twice or three times.
LEMMA BaselineRepsAre == ASSUME job \in Jobs PROVE BaselineReps \in {2, 3}
<1>1. Reps \in Nat
  BY JobsAssumption, BoundsAreNumbers DEF Reps, JobType
<1>2. Max({Reps, 2}) \in {Reps, 2} /\ Max({Reps, 2}) >= 2
  <2>1. \E x \in {Reps, 2} : \A y \in {Reps, 2} : x >= y
    BY <1>1
  <2>2. Max({Reps, 2}) \in {Reps, 2} /\ \A y \in {Reps, 2} : Max({Reps, 2}) >= y
    BY <2>1 DEF Max
  <2> QED BY <2>2
<1> DEFINE m == Max({Reps, 2})
<1>3. m \in Nat /\ m >= 2
  BY <1>1, <1>2
<1> HIDE DEF m
<1>4. Min({m, 3}) \in {m, 3} /\ \A y \in {m, 3} : Min({m, 3}) <= y
  <2>1. \E x \in {m, 3} : \A y \in {m, 3} : x <= y
    BY <1>3
  <2> QED BY <2>1 DEF Min
<1> HIDE DEF m
<1>5. Min({m, 3}) \in {2, 3}
  BY <1>3, <1>4
<1> QED BY <1>5 DEF BaselineReps, m

\* A set of naturals bounded by n that is not empty has a greatest member.
LEMMA GreatestOf ==
    ASSUME NEW n \in Nat, NEW I \in SUBSET (1..n), I # {}
    PROVE  Max(I) \in I /\ \A y \in I : Max(I) >= y
<1> DEFINE below == {n - i : i \in I}
<1>1. below \in SUBSET Nat /\ below # {}
  <2>1. \A i \in I : i \in 1..n /\ n - i \in Nat
    OBVIOUS
  <2>2. PICK i \in I : TRUE
    OBVIOUS
  <2>3. n - i \in below
    BY <2>2
  <2> QED BY <2>1, <2>3
<1>2. PICK b \in below : \A c \in below : b <= c
  <2> HIDE DEF below
  <2> QED BY <1>1, LeastOf
<1>3. PICK i \in I : b = n - i
  OBVIOUS
<1>4. \A y \in I : i >= y
  <2> TAKE y \in I
  <2>1. n - i <= n - y /\ i \in 1..n /\ y \in 1..n
    BY <1>2, <1>3
  <2> QED BY <2>1
<1> QED BY <1>4 DEF Max

\* Likewise a least one.
LEMMA LowestOf ==
    ASSUME NEW n \in Nat, NEW I \in SUBSET (1..n), I # {}
    PROVE  Min(I) \in I /\ \A y \in I : Min(I) <= y
<1>1. I \in SUBSET Nat
  OBVIOUS
<1>2. \E i \in I : \A y \in I : i <= y
  BY <1>1, LeastOf
<1> QED BY <1>2 DEF Min

\* The order of the sweep is of strategies this build registers.
LEMMA CandidatesIn ==
    ASSUME NEW live, job \in Jobs
    PROVE  Candidates(live) \in Seq(DOMAIN Registry)
<1>1. job.specs \in Seq(STRING)
  BY JobsAssumption DEF JobType
<1>2. Registered \in Seq(DOMAIN Registry)
  <2>1. Kept(job.specs, DOMAIN Registry) \in Seq(DOMAIN Registry \cap STRING)
    BY <1>1, KeptIn
  <2>2. DOMAIN Registry \cap STRING \subseteq DOMAIN Registry
    OBVIOUS
  <2> QED BY <2>1, <2>2, SeqMonotonic DEF Registered
<1>3. \A S : Kept(Registered, S) \in Seq(DOMAIN Registry)
  <2> TAKE S
  <2>1. Kept(Registered, S) \in Seq(S \cap DOMAIN Registry)
    BY <1>2, KeptIn
  <2> QED BY <2>1, SeqMonotonic
<1> QED BY <1>3, ConcatProperties DEF Candidates, OrderByClassification

\* The ranking is of strategies this build registers.
LEMMA RankingIn ==
    ASSUME cands \in Seq(DOMAIN Registry)
    PROVE  Ranking \in Seq(DOMAIN Registry)
<1> DEFINE insert == [sorted \in Seq(DOMAIN Registry) |-> [x \in DOMAIN Registry |->
             InsertAt(sorted, SelectLastInSeq(sorted, LAMBDA y : ~Less(x, y)) + 1, x)]]
           tried == {s \in DOMAIN Registry : acc[s] # NoScore}
<1>1. ASSUME NEW sorted \in Seq(DOMAIN Registry), NEW x \in DOMAIN Registry
      PROVE  insert[sorted][x] \in Seq(DOMAIN Registry)
  <2> DEFINE k == SelectLastInSeq(sorted, LAMBDA y : ~Less(x, y))
             I == {i \in 1..Len(sorted) : ~Less(x, sorted[i])}
  <2>1. k \in 0..Len(sorted) /\ Len(sorted) \in Nat
    <3>1. Len(sorted) \in Nat
      BY LenProperties
    <3>2. I # {} => Max(I) \in 1..Len(sorted)
      <4>1. I \in SUBSET (1..Len(sorted))
        OBVIOUS
      <4> HIDE DEF I
      <4> QED BY <3>1, <4>1, GreatestOf
    <3>3. k = IF I # {} THEN Max(I) ELSE 0
      BY DEF SelectLastInSeq
    <3> HIDE DEF I, k
    <3> QED BY <3>1, <3>2, <3>3
  <2>2. insert[sorted][x] = InsertAt(sorted, k + 1, x)
    OBVIOUS
  <2> HIDE DEF insert, k
  <2>3. \A i \in 1..Len(sorted) : sorted[i] \in DOMAIN Registry
    BY ElementOfSeq
  <2>4. SubSeq(sorted, 1, k) \in Seq(DOMAIN Registry)
    BY <2>1, <2>3, SubSeqProperties
  <2>5. SubSeq(sorted, k + 1, Len(sorted)) \in Seq(DOMAIN Registry)
    BY <2>1, <2>3, SubSeqProperties
  <2>6. (k + 1) - 1 = k
    BY <2>1
  <2>7. <<x>> \in Seq(DOMAIN Registry)
    OBVIOUS
  <2> QED BY <2>2, <2>4, <2>5, <2>6, <2>7, ConcatProperties DEF InsertAt
<1>2. Kept(cands, tried) \in Seq(DOMAIN Registry)
  <2> HIDE DEF tried
  <2>1. Kept(cands, tried) \in Seq(tried \cap DOMAIN Registry)
    BY KeptIn
  <2> QED BY <2>1, SeqMonotonic
<1>3. <<>> \in Seq(DOMAIN Registry)
  BY EmptySeq
<1> HIDE DEF insert, tried
<1>4. Folded(insert, <<>>, Kept(cands, tried)) \in Seq(DOMAIN Registry)
  BY <1>1, <1>2, <1>3, FoldedIn
<1> QED BY <1>4 DEF Ranking, insert, tried

\* The winner is one of the ranking that bypassed.
LEMMA WinnerOf ==
    ASSUME NEW ranked \in Seq(DOMAIN Registry), Winner(ranked) # None
    PROVE  Winner(ranked) \in DOMAIN Registry /\ Bypassed(Winner(ranked))
<1> DEFINE I == {i \in 1..Len(ranked) : Bypassed(ranked[i])}
<1>1. SelectInSeq(ranked, Bypassed) = IF I # {} THEN Min(I) ELSE 0
  BY DEF SelectInSeq
<1>2. I # {}
  BY <1>1 DEF Winner
<1>3. Min(I) \in I
  <2>1. I \in SUBSET (1..Len(ranked)) /\ Len(ranked) \in Nat
    BY LenProperties
  <2> HIDE DEF I
  <2> QED BY <1>2, <2>1, LowestOf
<1>4. Winner(ranked) = ranked[Min(I)]
  <2>1. Min(I) # 0
    BY <1>3, LenProperties
  <2> HIDE DEF I
  <2> QED BY <1>1, <1>2, <2>1 DEF Winner
<1> QED BY <1>3, <1>4, ElementOfSeq

-----------------------------------------------------------------------------
(* The inductive invariant.                                                *)

Entire(r) == r = [end |-> r.end, ranked |-> r.ranked, winner |-> r.winner,
                  ladder |-> r.ladder, confidence |-> r.confidence]
\* What the variables hold, and that a round is of the sweep.
Shape ==
  /\ job \in Jobs /\ cancelled \in BOOLEAN
  /\ Entire(report)
  /\ disk = [profile |-> disk.profile, temp |-> disk.temp]
  /\ DOMAIN acc = DOMAIN Registry
  /\ todo \in Seq(BlockedOnes) /\ blocked \in Seq(BlockedOnes)
  /\ cands \in Seq(DOMAIN Registry)
  /\ round # <<>> => at = "sweep" /\ DOMAIN round = RoundJobs

\* The profile is the old one until the run is over.
Saved ==
  /\ at # "done" => disk.profile = OldProfile
  /\ ProfileIsWhole

\* With one attempt to lose, a target is called blocked, a trial passes and a
\* strategy has a pass to its name for a reason.
Evidence ==
  /\ at \in {"preflight", "baseline"} => loss \in Nat /\ loss <= job.loss
  /\ job.loss <= 1 => \A i \in Range(blocked) : RunTrial("plain", T(i), FALSE) # "pass"
  /\ \A j \in DOMAIN round \ {0} : round[j] = "pass" => RunTrial(Cand, T(j), FALSE) = "pass"
  /\ job.loss <= 1 => \A s \in DOMAIN Registry :
       (Registry[s].works /\ Registry[s].builds) \/ acc[s].bp = 0

\* The report names a winner that bypassed, once the scores are final.
Concluded ==
  /\ at \in {"preflight", "baseline", "classify", "sweep", "rank"} => report.winner = None
  /\ report.winner # None => report.winner \in DOMAIN Registry /\ Bypassed(report.winner)

\* On a line that loses nothing by itself, with a control to tell an outage by.
Calm == job.loss = 0 /\ Controls # <<>> /\ ~cancelled
\* A trial of the round under way says what the line, as it is, makes of it.
AsTheLineIs(j) ==
  round[j] \in {Pending, IF j = 0 THEN RunTrial("plain", T(Controls[1]), ~up)
                         ELSE RunTrial(Cand, T(j), ~up)}
\* Nothing is scored against a strategy that works.
CleanTally(a) == a.bp = a.bt /\ a.first = a.firstPass /\ a.local = 0
Blameless ==
  Calm =>
    /\ loss = 0
    /\ \A i \in Range(blocked) : ~IsSinkhole(T(i))
    /\ \A j \in DOMAIN round : AsTheLineIs(j)
    /\ at = "sweep" => blocked # <<>>
    /\ \A s \in DOMAIN Registry :
         Registry[s].works /\ Registry[s].builds => CleanTally(acc[s]) /\ s \notin elim

\* Where the sweep is, and what an outage has cost.
Swept ==
  /\ rep \in Nat \ {0} /\ ci \in Nat \ {0}
  /\ at \in {"preflight", "baseline", "classify"} => rep = 1 /\ ci = 1
  /\ outages \in Nat /\ outages <= job.outages /\ (outages = job.outages => up = TRUE)
  /\ \A s \in DOMAIN Registry : acc[s].ct \in Nat /\ acc[s].cp \in Nat
  /\ report.end = "written" => at = "done"

\* The sweep is over, and what it found is going to be written or has been.
Over == at \in {"rank", "decide", "save", "write", "rename"} \/ report.end = "written"
Ranked == at \in {"decide", "save", "write", "rename"} \/ report.end = "written"

\* A strategy that breaks the controls, and one that does its work without.
Harmful(s) == Registry[s].builds /\ "control" \in Registry[s].breaks
Harmless(s) == Registry[s].works /\ Registry[s].builds /\ "control" \notin Registry[s].breaks

\* What the controls say of either.
Counted ==
  Calm /\ ControlsReached =>
    /\ \A s \in DOMAIN Registry :
         /\ Harmful(s) => acc[s].cp = 0 /\ (acc[s].ct > 0 \/ acc[s].bt = 0)
                           /\ (s \in elim => acc[s].ct > 0)
         /\ Harmless(s) => acc[s].cp > 0 \/ acc[s].bp = 0
    \* every strategy passed by was tried, if the line stayed up
    /\ outages = job.outages => \A k \in 1..Len(cands) :
         (rep > 1 \/ k < ci) /\ Harmful(cands[k]) => acc[cands[k]].ct > 0
    /\ ~May("budget") /\ Over => rep > Reps
    /\ Ranked => \A s \in Range(cands) : Harmful(s) /\ report.winner = s =>
         \A x \in Range(cands) : Bypassed(x) => "control" \in Registry[x].breaks

TuneInv == Shape /\ Saved /\ Evidence /\ Concluded /\ Blameless /\ Swept /\ Counted

-----------------------------------------------------------------------------
(* Shape.                                                                  *)

\* What only the job and the blocked targets decide.
LEMMA JobStays ==
    ASSUME job' = job
    PROVE  /\ BlockedOnes' = BlockedOnes /\ Controls' = Controls /\ Asked' = Asked
           /\ (blocked' = blocked => RoundJobs' = RoundJobs)
           /\ \A i : T(i)' = T(i)
<1>1. \A i : T(i)' = T(i)
  BY DEF T
<1>2. \A k : OfKind(k)' = OfKind(k)
  BY DEF T, OfKind
<1>3. Controls' = Controls
  BY <1>2 DEF Controls
<1> QED BY <1>1, <1>2, <1>3 DEF BlockedOnes, Asked, RoundJobs

\* The job never changes.
LEMMA JobStep == ASSUME TuneNext PROVE job' = job
<1> QED BY DEF TuneNext, Work, Preflight, Baseline, BaselineEnds, Classify, NextCandidate, Trial,
               RoundEnds, SweepEnds, Rank, Decide, CreateTemp, WriteTemp, Rename, Weather,
               Interrupt, Crash, Done, tuneVars

\* Two reports that differ in their end alone.
Concurs(r, q) == /\ r.ranked = q.ranked /\ r.winner = q.winner
                 /\ r.ladder = q.ladder /\ r.confidence = q.confidence

\* Stopping keeps the rest of the report.
LEMMA StopIs ==
    ASSUME Shape
    PROVE  /\ \A why : Stop(why) => at' = "done" /\ Entire(report') /\ Concurs(report', report)
           /\ \A why : report' = [report EXCEPT !.end = why] =>
                        Entire(report') /\ Concurs(report', report)
           /\ UNCHANGED report => Entire(report') /\ Concurs(report', report)
<1> QED BY DEF Shape, Stop, Entire, Concurs

\* The initial states have their shape.
LEMMA ShapeInit == ASSUME TuneInit PROVE Shape
<1>1. OfKind("blocked") \in Seq(BlockedOnes)
  BY OfKindIn DEF TuneInit, BlockedOnes
<1>2. \A X : <<>> \in Seq(X)
  BY EmptySeq
<1> QED BY <1>1, <1>2 DEF TuneInit, Shape, NoReport, Entire

\* Judging a target moves it from those to do to those blocked, or elsewhere.
LEMMA JudgeIs ==
    ASSUME Shape, todo # <<>>, NEW v, Judge(Head(todo), v), job' = job
    PROVE  /\ Head(todo) \in BlockedOnes
           /\ todo' \in Seq(BlockedOnes) /\ blocked' \in Seq(BlockedOnes)
           /\ Range(blocked') \subseteq
                Range(blocked) \cup (IF v = "blocked" THEN {Head(todo)} ELSE {})
<1> DEFINE i == Head(todo)
<1>1. i \in BlockedOnes /\ Tail(todo) \in Seq(BlockedOnes)
  BY HeadTailProperties DEF Shape
<1> HIDE DEF i
<1>2. Append(blocked, i) \in Seq(BlockedOnes) /\ blocked \in Seq(BlockedOnes)
  BY <1>1, AppendProperties DEF Shape
<1>3. Range(Append(blocked, i)) \subseteq Range(blocked) \cup {i}
  <2>1. DOMAIN Append(blocked, i) = 1..(Len(blocked) + 1) /\ Len(blocked) \in Nat
    BY <1>2, LenProperties, AppendProperties, <1>1
  <2>2. ASSUME NEW n \in 1..(Len(blocked) + 1)
        PROVE  Append(blocked, i)[n] \in Range(blocked) \cup {i}
    <3>1. CASE n = Len(blocked) + 1
      BY <3>1, <1>1, <1>2, AppendProperties
    <3>2. CASE n # Len(blocked) + 1
      <4>1. n \in 1..Len(blocked) /\ n \in DOMAIN blocked
        BY <3>2, <2>1, <1>2, LenProperties
      <4>2. Append(blocked, i)[n] = blocked[n]
        BY <4>1, <1>1, <1>2, AppendProperties
      <4> QED BY <4>1, <4>2 DEF Range
    <3> QED BY <3>1, <3>2
  <2> QED BY <2>1, <2>2 DEF Range
<1>4. /\ todo' = IF v = "retry" THEN todo ELSE Tail(todo)
      /\ blocked' = IF v = "blocked" THEN Append(blocked, i) ELSE blocked
  BY DEF Judge, i
<1>5. todo \in Seq(BlockedOnes)
  BY DEF Shape
<1>6. i = Head(todo)
  BY DEF i
<1> QED BY <1>1, <1>2, <1>3, <1>4, <1>5, <1>6

\* Every step keeps the shape.
LEMMA ShapeStep == ASSUME Shape, TuneNext PROVE Shape'
<1>a. Shape
  OBVIOUS
<1>b. /\ \A why : Stop(why) => at' = "done" /\ Entire(report')
      /\ \A why : report' = [report EXCEPT !.end = why] => Entire(report')
      /\ UNCHANGED report => Entire(report')
  BY StopIs
<1> USE DEF Shape
<1>0. /\ job' = job /\ BlockedOnes' = BlockedOnes
      /\ (blocked' = blocked => RoundJobs' = RoundJobs)
  BY JobStep, JobStays
<1>1. CASE Preflight
  BY <1>0, <1>1, <1>b DEF Preflight, noise, baseline, sweep
<1>2. CASE Baseline
  <2>1. PICK v : Judge(Head(todo), v)
    BY <1>2 DEF Baseline
  <2>2. todo' \in Seq(BlockedOnes) /\ blocked' \in Seq(BlockedOnes)
    BY <1>0, <1>2, <2>1, JudgeIs DEF Baseline
  <2> QED BY <1>0, <1>2, <2>2 DEF Baseline, sweep
<1>3. CASE BaselineEnds
  <2>1. job.cmd = "apply" => job.specs \in Seq(DOMAIN Registry)
    <3>1. job.specs \in Seq(STRING)
      BY JobsAssumption DEF JobType
    <3>2. ASSUME job.cmd = "apply" PROVE job.specs \in Seq(DOMAIN Registry)
      <4>1. Range(job.specs) \subseteq DOMAIN Registry
        BY <3>2, JobsAssumption
      <4> QED BY <3>1, <4>1, SeqByRange
    <3> QED BY <3>2
  <2>2. cands' \in Seq(DOMAIN Registry)
    BY <1>3, <2>1 DEF BaselineEnds
  <2>3. Entire(report')
    BY <1>3, <1>b DEF BaselineEnds
  <2> QED BY <1>0, <1>3, <2>2, <2>3 DEF BaselineEnds, noise, baseline
<1>4. CASE Classify
  <2>1. cands' \in Seq(DOMAIN Registry)
    BY <1>4, CandidatesIn DEF Classify
  <2>2. Entire(report')
    BY <1>4, <1>b DEF Classify
  <2> QED BY <1>0, <1>4, <2>1, <2>2 DEF Classify, baseline
<1>5. CASE NextCandidate
  <2>1. Entire(report')
    BY <1>5, <1>b DEF NextCandidate
  <2>2. round' # <<>> => at' = "sweep" /\ DOMAIN round' = RoundJobs'
    BY <1>0, <1>5 DEF NextCandidate, Running, baseline
  <2> QED BY <1>0, <1>5, <2>1, <2>2 DEF NextCandidate, noise, baseline
<1>6. CASE Trial
  BY <1>0, <1>6 DEF Trial, baseline
<1>7. CASE RoundEnds
  <2>1. DOMAIN acc' = DOMAIN Registry
    BY <1>7 DEF RoundEnds
  <2> QED BY <1>0, <1>7, <2>1 DEF RoundEnds, Running, noise, baseline
<1>8. CASE SweepEnds
  BY <1>0, <1>8 DEF SweepEnds, Running, noise, baseline, sweep
<1>9. CASE Rank
  <2>1. Entire(report')
    BY <1>9, RankingIn DEF Rank, Entire
  <2> QED BY <1>0, <1>9, <2>1 DEF Rank, noise, baseline, sweep
<1>10. CASE Decide
  <2>1. Entire(report')
    BY <1>10, <1>b DEF Decide, Entire
  <2> QED BY <1>0, <1>10, <2>1 DEF Decide, noise, baseline, sweep
<1>11. CASE CreateTemp \/ WriteTemp \/ Rename
  BY <1>0, <1>11, <1>b DEF CreateTemp, WriteTemp, Rename, noise, baseline, sweep
<1>12. CASE Weather
  BY <1>0, <1>12 DEF Weather, baseline, sweep
<1>13. CASE Interrupt \/ Crash
  BY <1>0, <1>13, <1>b DEF Interrupt, Crash, noise, baseline, sweep
<1>14. CASE Done
  BY <1>0, <1>14 DEF Done, tuneVars
<1> QED BY <1>1, <1>2, <1>3, <1>4, <1>5, <1>6, <1>7, <1>8, <1>9, <1>10, <1>11, <1>12, <1>13,
           <1>14 DEF TuneNext, Work

-----------------------------------------------------------------------------
(* The profile.                                                            *)

\* The profile is made of the report, the job and nothing else.
LEMMA ProfileStays ==
    ASSUME Shape, job' = job, Concurs(report', report)
    PROVE  Profile' = Profile
<1>1. /\ report'.winner = report.winner /\ report'.ladder = report.ladder
      /\ report'.confidence = report.confidence
  BY DEF Concurs
<1>2. Asked' = Asked
  BY JobStays
<1> QED BY <1>1, <1>2 DEF Profile, Tuned, Applied

\* Only the rename touches the profile, and it puts there the whole new one.
LEMMA SavedStep == ASSUME Shape, Saved, TuneNext PROVE Saved'
<1>0. job' = job
  BY JobStep
<1>1. CASE Rename
  <2>1. Stop("written") /\ disk'.profile = Profile
    BY <1>1 DEF Rename
  <2>3. Concurs(report', report) /\ at' = "done"
    BY <2>1, StopIs
  <2>2. Profile' = Profile
    BY <1>0, <2>3, ProfileStays
  <2> QED BY <2>1, <2>2, <2>3 DEF Saved, ProfileIsWhole
<1>2. CASE Done
  <2>1. report' = report /\ disk' = disk /\ at' = at
    BY <1>2 DEF Done, tuneVars
  <2>2. Profile' = Profile
    BY <1>0, <2>1, ProfileStays DEF Concurs
  <2> QED BY <2>1, <2>2 DEF Saved, ProfileIsWhole
<1>3. ASSUME ~Rename, ~Done PROVE at # "done" /\ disk'.profile = disk.profile
  <2> USE DEF Shape
  <2>1. CASE CreateTemp \/ WriteTemp
    BY <2>1 DEF CreateTemp, WriteTemp
  <2>2. CASE Preflight \/ Baseline \/ BaselineEnds \/ Classify
    BY <2>2 DEF Preflight, Baseline, BaselineEnds, Classify
  <2>3. CASE NextCandidate \/ Trial \/ RoundEnds \/ SweepEnds \/ Rank \/ Decide
    BY <2>3 DEF NextCandidate, Trial, RoundEnds, SweepEnds, Rank, Decide
  <2>4. CASE Weather \/ Interrupt \/ Crash
    BY <2>4 DEF Weather, Interrupt, Crash
  <2> QED BY <1>3, <2>1, <2>2, <2>3, <2>4 DEF TuneNext, Work
<1> QED BY <1>1, <1>2, <1>3 DEF Saved, ProfileIsWhole

-----------------------------------------------------------------------------
(* Evidence.                                                               *)

\* The plain control of a round is not a target, and a round's blocked targets
\* are those the baseline found.
LEMMA RoundOf ==
    ASSUME Shape, round # <<>>, NEW j \in DOMAIN round \ {0}
    PROVE  /\ j \in DOMAIN job.targets
           /\ T(j).kind = "blocked" => j \in Range(blocked)
<1>1. j \in Range(blocked) \cup Range(OfKind("fragile")) \cup Range(OfKind("control"))
  BY DEF Shape, RoundJobs, Controls
<1>2. /\ Range(blocked) \subseteq BlockedOnes
      /\ Range(OfKind("fragile")) \subseteq {i \in DOMAIN job.targets : T(i).kind = "fragile"}
      /\ Range(OfKind("control")) \subseteq {i \in DOMAIN job.targets : T(i).kind = "control"}
  <2>1. job \in Jobs /\ blocked \in Seq(BlockedOnes)
    BY DEF Shape
  <2> QED BY <2>1, RangeIn, OfKindIn
<1> QED BY <1>1, <1>2 DEF BlockedOnes

\* A trial that passes passed on a line that was up, and would have passed.
LEMMA PassOf ==
    ASSUME NEW s, NEW t, NEW bad, RunTrial(s, t, bad) = "pass"
    PROVE  ~bad /\ RunTrial(s, t, FALSE) = "pass"
<1> QED BY DEF RunTrial

\* What passes where plain does not is the work of the strategy.
LEMMA PassIsWork ==
    ASSUME NEW s, NEW t, RunTrial(s, t, FALSE) = "pass", RunTrial("plain", t, FALSE) # "pass"
    PROVE  Registry[s].works /\ Registry[s].builds
<1> QED BY RegistryAssumption DEF RunTrial, Emits, ClassifyHandshake

\* A target that plain reaches is not called blocked for one attempt lost.
LEMMA BlockedIsBlocked ==
    ASSUME job \in Jobs, NEW i, NEW b, NEW lr \in {0, 1},
           BaselineOne(i, b, TallyReach(T(i), lr)) = "blocked"
    PROVE  RunTrial("plain", T(i), FALSE) # "pass"
<1>1. BaselineReps \in {2, 3}
  BY BaselineRepsAre
<1>2. TallyReach(T(i), lr).total >= 2 /\ TallyReach(T(i), lr).pass = 0
  BY DEF BaselineOne
<1>3. ~cancelled
  BY <1>2 DEF TallyReach
<1>4. RunTrial("plain", T(i), FALSE) = "pass" => BaselineReps - lr = 0
  BY <1>2, <1>3 DEF TallyReach
<1>5. BaselineReps - lr # 0
  BY <1>1
<1> QED BY <1>4, <1>5

\* A round that is scored adds passes on blocked targets to a strategy that works.
LEMMA ScoredWorks ==
    ASSUME Shape, Evidence, round # <<>>, job.loss <= 1, NEW a, a.bp = 0
    PROVE  (Registry[Cand].works /\ Registry[Cand].builds) \/ Scored(a).bp = 0
<1> DEFINE passed == {j \in DOMAIN round \ {0} :
                        T(j).kind = "blocked" /\ ScorableFor(j) /\ (TRUE => round[j] = "pass")}
<1>1. Scored(a).bp = a.bp + Cardinality(passed)
  BY DEF Scored
<1>2. ASSUME NEW j \in passed PROVE Registry[Cand].works /\ Registry[Cand].builds
  <2>1. j \in DOMAIN round \ {0} /\ T(j).kind = "blocked" /\ round[j] = "pass"
    BY <1>2
  <2>2. j \in Range(blocked)
    BY <2>1, RoundOf
  <2>3. RunTrial("plain", T(j), FALSE) # "pass" /\ RunTrial(Cand, T(j), FALSE) = "pass"
    BY <2>1, <2>2 DEF Evidence
  <2> QED BY <2>3, PassIsWork
<1>3. passed = {} => Cardinality(passed) = 0
  BY FS_EmptySet
<1> HIDE DEF passed
<1> QED BY <1>1, <1>2, <1>3

\* What Evidence is about, when a step leaves it alone.
LEMMA EvidenceStays ==
    ASSUME Shape, Evidence, job' = job, blocked' = blocked, acc' = acc,
           at' \in {"preflight", "baseline"} =>
             at \in {"preflight", "baseline"} /\ loss' \in Nat /\ loss' <= loss,
           \/ round' = <<>>
           \/ round' = round /\ cands' = cands /\ ci' = ci
    PROVE  Evidence'
<1>1. \A i : T(i)' = T(i)
  BY JobStays
<1>2. at' \in {"preflight", "baseline"} => loss' \in Nat /\ loss' <= job.loss
  <2>1. job.loss \in Nat
    BY JobsAssumption DEF Shape, JobType
  <2> QED BY <2>1 DEF Evidence
<1>3. round' # <<>> => Cand' = Cand
  BY DEF Cand
<1>4. \A j \in (DOMAIN round \ {0})' : round'[j] = "pass" => RunTrial(Cand, T(j), FALSE)' = "pass"
  <2>1. CASE round' = <<>>
    BY <2>1
  <2>2. CASE round' = round /\ Cand' = Cand
    BY <1>1, <2>2 DEF Evidence, RunTrial, ClassifyHandshake, IsSinkhole, Emits
  <2> QED BY <1>3, <2>1, <2>2
<1>5. \A i : RunTrial("plain", T(i), FALSE)' = RunTrial("plain", T(i), FALSE)
  BY <1>1 DEF RunTrial, ClassifyHandshake, IsSinkhole, Emits
<1> QED BY <1>2, <1>4, <1>5 DEF Evidence

\* The initial states have nothing to show.
LEMMA EvidenceInit == ASSUME TuneInit PROVE Evidence
<1>1. job.loss \in Nat
  BY JobsAssumption DEF TuneInit, JobType
<1> QED BY <1>1 DEF TuneInit, Evidence, NoScore, Range

\* Every step keeps to what was measured.
LEMMA EvidenceStep == ASSUME Shape, Evidence, TuneNext PROVE Evidence'
<1>0. job' = job /\ (\A i : T(i)' = T(i)) /\ job \in Jobs
  BY JobStep, JobStays DEF Shape
<1>1. CASE Baseline
  <2>1. PICK lb \in 0..BaselineReps, lr \in 0..BaselineReps :
          /\ lb + lr <= loss /\ loss' = loss - lb - lr
          /\ Judge(Head(todo), BaselineOne(Head(todo), TallyReach(Benign(Head(todo)), lb),
                                           TallyReach(T(Head(todo)), lr)))
    BY <1>1 DEF Baseline
  <2> DEFINE i == Head(todo)
             v == BaselineOne(i, TallyReach(Benign(i), lb), TallyReach(T(i), lr))
  <2>2. loss \in Nat /\ loss <= job.loss /\ job.loss \in Nat
    BY <1>0, <1>1, JobsAssumption DEF Evidence, Baseline, JobType
  <2>3. lb \in Nat /\ lr \in Nat
    BY <1>0, BaselineRepsAre
  <2>4. loss' \in Nat /\ loss' <= job.loss
    BY <2>1, <2>2, <2>3
  <2>5. Range(blocked') \subseteq Range(blocked) \cup (IF v = "blocked" THEN {i} ELSE {})
    <3>1. todo # <<>> /\ Judge(Head(todo), v)
      BY <1>1, <2>1 DEF Baseline
    <3> HIDE DEF v
    <3> QED BY <1>0, <3>1, JudgeIs
  <2>6. ASSUME job.loss <= 1, NEW n \in Range(blocked')
        PROVE  RunTrial("plain", T(n), FALSE) # "pass"
    <3>1. CASE n \in Range(blocked)
      BY <2>6, <3>1 DEF Evidence
    <3>2. CASE v = "blocked" /\ n = i
      <4>1. lr \in {0, 1}
        BY <2>1, <2>2, <2>3, <2>6
      <4> QED BY <1>0, <3>2, <4>1, BlockedIsBlocked
    <3> HIDE DEF v, i
    <3> QED BY <2>5, <2>6, <3>1, <3>2
  <2>7. \A n : RunTrial("plain", T(n), FALSE)' = RunTrial("plain", T(n), FALSE)
    BY <1>0 DEF RunTrial, ClassifyHandshake, IsSinkhole, Emits
  <2>8. round = <<>> /\ round' = <<>> /\ acc' = acc
    BY <1>1 DEF Baseline, Shape, sweep
  <2> HIDE DEF i, v
  <2>9. job.loss <= 1 => \A n \in Range(blocked') : RunTrial("plain", T(n), FALSE)' # "pass"
    BY <2>6, <2>7
  <2>10. \A j \in DOMAIN round' \ {0} : FALSE
    BY <2>8
  <2>11. job.loss <= 1 => \A s \in DOMAIN Registry :
           (Registry[s].works /\ Registry[s].builds) \/ acc'[s].bp = 0
    BY <2>8 DEF Evidence
  <2> QED BY <1>0, <2>4, <2>9, <2>10, <2>11 DEF Evidence
<1>2. CASE Trial
  <2>1. PICK j \in DOMAIN round, lost \in {0, 1} :
          /\ round[j] = Pending
          /\ \E w \in IF cancelled THEN CutShort(IF j = 0 THEN T(Controls[1]) ELSE T(j))
                      ELSE {RunTrial(IF j = 0 THEN "plain" ELSE Cand,
                                     IF j = 0 THEN T(Controls[1]) ELSE T(j), ~up \/ lost = 1)} :
               round' = [round EXCEPT ![j] = w]
    BY <1>2 DEF Trial
  <2>2. PICK w : /\ round' = [round EXCEPT ![j] = w]
                 /\ w = "pass" /\ j # 0 => RunTrial(Cand, T(j), ~up \/ lost = 1) = "pass"
    BY <2>1 DEF CutShort
  <2>3. w = "pass" /\ j # 0 => RunTrial(Cand, T(j), FALSE) = "pass"
    BY <2>2, PassOf
  <2>4. \A k \in DOMAIN round' \ {0} : round'[k] = "pass" => RunTrial(Cand, T(k), FALSE) = "pass"
    BY <2>2, <2>3 DEF Evidence
  <2>5. Cand' = Cand /\ blocked' = blocked /\ acc' = acc /\ at' = "sweep"
    BY <1>2 DEF Trial, Cand, baseline
  <2>6. /\ \A n : RunTrial("plain", T(n), FALSE)' = RunTrial("plain", T(n), FALSE)
        /\ \A n : RunTrial(Cand, T(n), FALSE)' = RunTrial(Cand, T(n), FALSE)
    BY <1>0, <2>5 DEF RunTrial, ClassifyHandshake, IsSinkhole, Emits
  <2> QED BY <1>0, <2>4, <2>5, <2>6 DEF Evidence
<1>3. CASE RoundEnds
  <2>1. blocked' = blocked /\ at' = "sweep" /\ round # <<>>
    BY <1>3 DEF RoundEnds, Running, baseline
  <2>2. \A j \in DOMAIN round' : round'[j] # "pass"
    BY <1>3 DEF RoundEnds, Pending
  <2>3. \A n : RunTrial("plain", T(n), FALSE)' = RunTrial("plain", T(n), FALSE)
    BY <1>0 DEF RunTrial, ClassifyHandshake, IsSinkhole, Emits
  <2>4. ASSUME job.loss <= 1, NEW s \in DOMAIN Registry
        PROVE  (Registry[s].works /\ Registry[s].builds) \/ acc'[s].bp = 0
    <3>1. acc' = acc \/ acc' = [acc EXCEPT ![Cand] = Scored(acc[Cand])]
      BY <1>3 DEF RoundEnds
    <3>2. s \in DOMAIN acc /\ ((Registry[s].works /\ Registry[s].builds) \/ acc[s].bp = 0)
      BY <2>4 DEF Shape, Evidence
    <3>3. acc[s].bp = 0 =>
            (Registry[Cand].works /\ Registry[Cand].builds) \/ Scored(acc[s]).bp = 0
      BY <2>1, <2>4, ScoredWorks
    <3>4. acc'[s] = acc[s] \/ (s = Cand /\ acc'[s] = Scored(acc[s]))
      BY <3>1, <3>2
    <3> QED BY <3>2, <3>3, <3>4
  <2> QED BY <1>0, <2>1, <2>2, <2>3, <2>4 DEF Evidence
<1>4. CASE NextCandidate
  <2>1. blocked' = blocked /\ at' \in {"sweep", "rank"} /\ acc' = acc
    BY <1>4 DEF NextCandidate, baseline
  <2>2. \A j \in DOMAIN round' : round'[j] # "pass"
    BY <1>4 DEF NextCandidate, Running, Pending
  <2>3. \A n : RunTrial("plain", T(n), FALSE)' = RunTrial("plain", T(n), FALSE)
    BY <1>0 DEF RunTrial, ClassifyHandshake, IsSinkhole, Emits
  <2> QED BY <1>0, <2>1, <2>2, <2>3 DEF Evidence
<1>5. ASSUME ~Baseline, ~Trial, ~RoundEnds, ~NextCandidate
      PROVE  /\ blocked' = blocked /\ acc' = acc
             /\ at' \in {"preflight", "baseline"} =>
                  at \in {"preflight", "baseline"} /\ loss' \in Nat /\ loss' <= loss
             /\ round' = <<>> \/ (round' = round /\ cands' = cands /\ ci' = ci)
  <2>0. at \in {"preflight", "baseline"} => loss \in Nat
    BY DEF Evidence
  <2>1. CASE Preflight
    <3>1. /\ loss \in Nat /\ loss' = loss /\ at = "preflight"
          /\ blocked' = blocked /\ acc' = acc /\ round' = round /\ cands' = cands /\ ci' = ci
      BY <2>0, <2>1 DEF Preflight, noise, baseline, sweep
    <3> QED BY <3>1
  <2>6. CASE BaselineEnds
    <3>1. at # "sweep" /\ at' \in {"sweep", "classify", "done"}
      BY <2>6 DEF BaselineEnds, Stop
    <3> QED BY <2>6, <3>1 DEF BaselineEnds, Shape, baseline
  <2>2. CASE Classify
    BY <2>2 DEF Classify, Shape, Stop, baseline
  <2>3. CASE SweepEnds \/ Rank \/ Decide
    BY <2>3 DEF SweepEnds, Rank, Decide, Stop, noise, baseline, sweep
  <2>4. CASE CreateTemp \/ WriteTemp \/ Rename
    BY <2>4 DEF CreateTemp, WriteTemp, Rename, Stop, noise, baseline, sweep
  <2>5. CASE Weather \/ Interrupt \/ Crash \/ Done
    BY <2>0, <2>5 DEF Weather, Interrupt, Crash, Done, tuneVars, Stop, noise, baseline, sweep
  <2> QED BY <1>5, <2>1, <2>2, <2>3, <2>4, <2>5, <2>6 DEF TuneNext, Work
<1> QED BY <1>0, <1>1, <1>2, <1>3, <1>4, <1>5, EvidenceStays

-----------------------------------------------------------------------------
(* What is concluded.                                                      *)

\* Having bypassed is a matter of the scores.
LEMMA BypassedStays == ASSUME acc' = acc, NEW s PROVE Bypassed(s)' <=> Bypassed(s)
<1> QED BY DEF Bypassed

\* Every step names a winner that bypassed, or none.
LEMMA ConcludedStep == ASSUME Shape, Concluded, TuneNext PROVE Concluded'
<1>0. \A why : Stop(why) => at' = "done" /\ report'.winner = report.winner
  BY StopIs DEF Concurs
<1>1. CASE Preflight \/ BaselineEnds
  BY <1>0, <1>1, BypassedStays DEF Preflight, BaselineEnds, Concluded, sweep
<1>2. CASE Classify
  BY <1>0, <1>2, BypassedStays DEF Classify, Concluded
<1>3. CASE Baseline \/ Trial \/ RoundEnds
  BY <1>3 DEF Baseline, Trial, RoundEnds, Concluded
<1>4. CASE NextCandidate
  <2>1. report'.winner = report.winner
    BY <1>4, StopIs DEF NextCandidate, Concurs
  <2> QED BY <1>4, <2>1 DEF NextCandidate, Concluded
<1>5. CASE SweepEnds
  BY <1>5 DEF SweepEnds, Concluded
<1>6. CASE Rank
  <2>1. Ranking \in Seq(DOMAIN Registry)
    BY RankingIn DEF Shape
  <2>2. report'.winner = Winner(Ranking) /\ at' \in {"done", "decide"} /\ acc' = acc
    BY <1>6, <2>1 DEF Rank, Shape, Entire, sweep
  <2>3. Winner(Ranking) # None => Winner(Ranking) \in DOMAIN Registry /\ Bypassed(Winner(Ranking))
    BY <2>1, WinnerOf
  <2> QED BY <2>2, <2>3 DEF Concluded, Bypassed
<1>7. CASE Decide
  <2>1. report'.winner = report.winner /\ at' \in {"done", "save"} /\ acc' = acc
    BY <1>0, <1>7 DEF Decide, Shape, Entire, sweep
  <2> QED BY <2>1, BypassedStays DEF Concluded
<1>8. CASE CreateTemp \/ WriteTemp \/ Rename \/ Crash
  <2>1. report'.winner = report.winner /\ acc' = acc
    BY <1>0, <1>8 DEF CreateTemp, WriteTemp, Rename, Crash, sweep
  <2>2. at' \in {"write", "rename", "done"}
    BY <1>0, <1>8 DEF CreateTemp, WriteTemp, Rename, Crash
  <2> QED BY <2>1, <2>2, BypassedStays DEF Concluded
<1>9. CASE Weather \/ Interrupt \/ Done
  BY <1>9, BypassedStays DEF Weather, Interrupt, Done, tuneVars, Concluded, sweep
<1> QED BY <1>1, <1>2, <1>3, <1>4, <1>5, <1>6, <1>7, <1>8, <1>9 DEF TuneNext, Work

-----------------------------------------------------------------------------
(* Nobody's failure.                                                       *)

\* What the weather may do to a trial of a strategy that works.
LEMMA WorkPasses ==
    ASSUME NEW s, Registry[s].works, Registry[s].builds, NEW t, ~IsSinkhole(t),
           t.kind = "blocked", NEW v, Scorable(v), v = RunTrial(s, t, FALSE)
    PROVE  v = "pass"
<1> QED BY DEF Scorable, RunTrial, Emits, ClassifyHandshake

\* The control of a round passes only on a line that is up.
LEMMA LiveIsUp ==
    ASSUME Shape, Blameless, Calm, round # <<>>, Live
    PROVE  up
<1>1. 0 \in DOMAIN round
  BY DEF Shape, RoundJobs, Calm
<1>2. round[0] = "pass"
  BY <1>1 DEF Live
<1>3. round[0] \in {Pending, RunTrial("plain", T(Controls[1]), ~up)}
  BY <1>1 DEF Blameless, AsTheLineIs
<1>4. RunTrial("plain", T(Controls[1]), ~up) = "pass"
  BY <1>2, <1>3 DEF Pending
<1> QED BY <1>4, PassOf

\* A round that is scored leaves a strategy that works without a failure.
LEMMA ScoredClean ==
    ASSUME Shape, Blameless, Calm, round # <<>>, Live,
           \A j \in DOMAIN round : round[j] # Pending,
           Registry[Cand].works, Registry[Cand].builds, NEW a, CleanTally(a)
    PROVE  CleanTally(Scored(a)) /\ ~Eliminated(Scored(a))
<1>1. up
  BY LiveIsUp
<1>2. ASSUME NEW j \in DOMAIN round \ {0} PROVE round[j] = RunTrial(Cand, T(j), FALSE)
  <2>1. round[j] = RunTrial(Cand, T(j), ~up)
    BY <1>2 DEF Blameless, AsTheLineIs
  <2> QED BY <1>1, <2>1
<1>3. ASSUME NEW j \in DOMAIN round \ {0}, T(j).kind = "blocked", Scorable(round[j])
      PROVE  round[j] = "pass"
  <2>1. ~IsSinkhole(T(j))
    BY <1>3, RoundOf DEF Blameless
  <2> QED BY <1>2, <1>3, <2>1, WorkPasses
<1> DEFINE passed == {j \in DOMAIN round \ {0} :
                        T(j).kind = "blocked" /\ ScorableFor(j) /\ (TRUE => round[j] = "pass")}
           total  == {j \in DOMAIN round \ {0} :
                        T(j).kind = "blocked" /\ ScorableFor(j) /\ (FALSE => round[j] = "pass")}
           locals == {j \in DOMAIN round \ {0} : round[j] = "localerr"}
<1>4. passed = total
  BY <1>3 DEF ScorableFor
<1>5. locals = {}
  <2>1. \A j \in DOMAIN round \ {0} : round[j] # "localerr"
    BY <1>2 DEF RunTrial, Emits, ClassifyHandshake
  <2> QED BY <2>1
<1>6. Cardinality(locals) = 0
  BY <1>5, FS_EmptySet
<1>7. blocked[1] \in DOMAIN round \ {0} /\ T(blocked[1]).kind = "blocked"
  <2>1. blocked # <<>> /\ blocked \in Seq(BlockedOnes)
    BY DEF Blameless, Shape
  <2>2. 1 \in DOMAIN blocked /\ blocked[1] \in BlockedOnes
    BY <2>1, EmptySeq, LenProperties, ElementOfSeq
  <2>3. blocked[1] \in RoundJobs
    BY <2>2 DEF RoundJobs, Range
  <2>4. DOMAIN job.targets = 1..Len(job.targets)
    BY JobsAssumption, LenProperties DEF Shape, JobType
  <2>5. blocked[1] # 0
    <3>1. blocked[1] \in 1..Len(job.targets)
      BY <2>2, <2>4 DEF BlockedOnes
    <3>2. Len(job.targets) \in Nat
      BY JobsAssumption, LenProperties DEF Shape, JobType
    <3> QED BY <3>1, <3>2
  <2> QED BY <2>2, <2>3, <2>5 DEF Shape, BlockedOnes
<1>8. Scorable(round[blocked[1]]) <=> round[blocked[1]] = "pass"
  BY <1>3, <1>7 DEF Scorable
<1>9. /\ Scored(a).bp = a.bp + Cardinality(passed) /\ Scored(a).bt = a.bt + Cardinality(total)
      /\ Scored(a).local = a.local + Cardinality(locals)
      /\ Scored(a).first = a.first + (IF Scorable(round[blocked[1]]) THEN 1 ELSE 0)
      /\ Scored(a).firstPass = a.firstPass + (IF round[blocked[1]] = "pass" THEN 1 ELSE 0)
  BY DEF Scored
<1> HIDE DEF passed, total, locals
<1>10. Scored(a).bp = Scored(a).bt /\ Scored(a).first = Scored(a).firstPass /\ Scored(a).local = 0
  BY <1>4, <1>6, <1>8, <1>9 DEF CleanTally
<1> QED BY <1>10 DEF CleanTally, Eliminated


\* A sinkhole's address is found blocked itself, where there is a control.
LEMMA SinkholeIsIp ==
    ASSUME job \in Jobs, Controls # <<>>, ~cancelled, NEW i, IsSinkhole(T(i)), NEW lb, NEW r
    PROVE  BaselineOne(i, TallyReach(Benign(i), lb), r) = "ip"
<1>1. T(i).pin = "sinkhole"
  BY DEF IsSinkhole
<1>2. Benign(i).pin = "sinkhole"
  <2>1. i \in DOMAIN job.targets => T(i) \in Targets
    BY JobsAssumption, ElementOfSeq, LenProperties DEF JobType, T
  <2>2. DOMAIN T(i) = {"host", "kind", "truth", "pin"} => Benign(i).pin = T(i).pin
    BY DEF Benign
  <2> QED BY <1>1 DEF Benign
<1>3. RunTrial("plain", Benign(i), FALSE) = "blockpage"
  BY <1>2 DEF RunTrial, IsSinkhole
<1>4. TallyReach(Benign(i), lb).pass = 0 /\ TallyReach(Benign(i), lb).total >= 2
  <2>1. TallyReach(Benign(i), lb) = [pass |-> 0, total |-> BaselineReps]
    BY <1>3 DEF TallyReach
  <2>2. BaselineReps >= 2
    BY BaselineRepsAre
  <2> QED BY <2>1, <2>2
<1>5. HaveControl(i)
  BY <1>1 DEF HaveControl
<1> QED BY <1>4, <1>5 DEF BaselineOne

\* A finite set of axes, of which none is lost when nothing is.
LEMMA NoAxisLost ==
    ASSUME job \in Jobs, NEW l \in SUBSET Axes, Cardinality(l) <= 0
    PROVE  Cardinality(l) = 0
<1> DEFINE n == Len(Registered)
           X == {k \in 1..n : Registry[Registered[k]].works /\ Emits(Registered[k])}
           f == [k \in X |-> Registry[Registered[k]].family]
<1>1. Registered \in Seq(DOMAIN Registry)
  <2>1. job.specs \in Seq(STRING)
    BY JobsAssumption DEF JobType
  <2>2. Kept(job.specs, DOMAIN Registry) \in Seq(DOMAIN Registry \cap STRING)
    BY <2>1, KeptIn
  <2> QED BY <2>2, SeqMonotonic DEF Registered
<1>2. IsFiniteSet(X)
  <2>1. IsFiniteSet(1..n)
    BY <1>1, FS_Interval, LenProperties
  <2> QED BY <2>1, FS_Subset
<1>3. Axes = {f[k] : k \in X}
  <2>1. DOMAIN Registered = 1..n
    BY <1>1, LenProperties
  <2> DEFINE good == {x \in Range(Registered) : Registry[x].works /\ Emits(x)}
  <2>2. good = {Registered[k] : k \in X}
    BY <2>1 DEF Range
  <2>3. Axes = {Registry[s].family : s \in good}
    BY DEF Axes
  <2> HIDE DEF good, X
  <2> QED BY <2>2, <2>3
<1> HIDE DEF n, X
<1>4. f \in Surjection(X, Axes)
  BY <1>3 DEF Surjection
<1>5. IsFiniteSet(l)
  <2> HIDE DEF f
  <2>1. IsFiniteSet(Axes)
    BY <1>2, <1>4, FS_Surjection
  <2> QED BY <2>1, FS_Subset
<1> QED BY <1>5, FS_CardinalityType

\* Calm is not regained.
LEMMA CalmStep == ASSUME Shape, TuneNext, Calm' PROVE Calm
<1>1. job' = job /\ Controls' = Controls
  BY JobStep, JobStays
<1>2. cancelled' = cancelled \/ cancelled' = TRUE
  BY DEF TuneNext, Work, Preflight, Baseline, BaselineEnds, Classify, NextCandidate, Trial,
         RoundEnds, SweepEnds, Rank, Decide, CreateTemp, WriteTemp, Rename, Weather,
         Interrupt, Crash, Done, tuneVars, noise
<1> QED BY <1>1, <1>2 DEF Calm

\* What Blameless is about, when a step leaves it alone.
LEMMA BlamelessStays ==
    ASSUME Shape, Blameless, TuneNext, loss' = loss, acc' = acc, elim' = elim, blocked' = blocked,
           at' = "sweep" => at = "sweep" \/ blocked # <<>>,
           \/ \A j \in DOMAIN round' : round'[j] = Pending
           \/ round' = round /\ cands' = cands /\ ci' = ci /\ up' = up
    PROVE  Blameless'
<1> SUFFICES ASSUME Calm' PROVE Blameless'
  BY DEF Blameless
<1>1. Calm
  BY CalmStep
<1>2. (\A i : T(i)' = T(i)) /\ Controls' = Controls
  BY JobStep, JobStays
<1>3. \A j \in DOMAIN round' : AsTheLineIs(j)'
  <2>1. CASE \A j \in DOMAIN round' : round'[j] = Pending
    BY <2>1 DEF AsTheLineIs, Pending
  <2>2. CASE round' = round /\ cands' = cands /\ ci' = ci /\ up' = up
    <3>1. \A j \in DOMAIN round : AsTheLineIs(j)
      BY <1>1 DEF Blameless
    <3>2. /\ \A j : RunTrial(Cand, T(j), ~up)' = RunTrial(Cand, T(j), ~up)
          /\ RunTrial("plain", T(Controls[1]), ~up)' = RunTrial("plain", T(Controls[1]), ~up)
      <4>1. Cand' = Cand /\ T(Controls[1])' = T(Controls[1])
        BY <1>2, <2>2 DEF Cand, T
      <4> QED BY <1>2, <2>2, <4>1 DEF RunTrial, ClassifyHandshake, IsSinkhole, Emits
    <3> QED BY <2>2, <3>1, <3>2 DEF AsTheLineIs, Pending
  <2> QED BY <2>1, <2>2
<1>4. \A i \in Range(blocked') : ~IsSinkhole(T(i))'
  BY <1>1, <1>2 DEF Blameless, IsSinkhole
<1>5. \A s \in DOMAIN Registry : Registry[s].works /\ Registry[s].builds =>
        CleanTally(acc[s])' /\ s \notin elim'
  BY <1>1 DEF Blameless, CleanTally
<1> QED BY <1>1, <1>3, <1>4, <1>5 DEF Blameless

\* The initial states have nobody to blame.
LEMMA BlamelessInit == ASSUME TuneInit PROVE Blameless
<1> QED BY DEF TuneInit, Blameless, Calm, CleanTally, NoScore, Range

\* Every step of a calm line blames nobody.
LEMMA BlamelessStep == ASSUME Shape, Blameless, TuneNext PROVE Blameless'
<1> SUFFICES ASSUME Calm' PROVE Blameless'
  BY DEF Blameless
<1>a. Calm /\ loss = 0
  BY CalmStep DEF Blameless
<1>b. job' = job /\ (\A i : T(i)' = T(i)) /\ job \in Jobs /\ Controls' = Controls
  BY JobStep, JobStays DEF Shape
<1>1. CASE Baseline
  <2>1. PICK lb \in 0..BaselineReps, lr \in 0..BaselineReps :
          /\ lb + lr <= loss /\ loss' = loss - lb - lr
          /\ Judge(Head(todo), BaselineOne(Head(todo), TallyReach(Benign(Head(todo)), lb),
                                           TallyReach(T(Head(todo)), lr)))
    BY <1>1 DEF Baseline
  <2> DEFINE i == Head(todo)
             v == BaselineOne(i, TallyReach(Benign(i), lb), TallyReach(T(i), lr))
  <2>2. lb \in Nat /\ lr \in Nat
    BY <1>b, BaselineRepsAre
  <2>3. loss' = 0
    BY <1>a, <2>1, <2>2
  <2>4. Range(blocked') \subseteq Range(blocked) \cup (IF v = "blocked" THEN {i} ELSE {})
    <3>1. todo # <<>> /\ Judge(Head(todo), v)
      BY <1>1, <2>1 DEF Baseline
    <3> HIDE DEF v
    <3> QED BY <1>b, <3>1, JudgeIs
  <2>5. v = "blocked" => ~IsSinkhole(T(i))
    BY <1>a, <1>b, SinkholeIsIp DEF Calm
  <2> HIDE DEF v, i
  <2>6. \A n \in Range(blocked') : ~IsSinkhole(T(n))'
    <3>1. \A n \in Range(blocked') : ~IsSinkhole(T(n))
      BY <1>a, <2>4, <2>5 DEF Blameless
    <3> QED BY <1>b, <3>1 DEF IsSinkhole
  <2>7. round' = <<>> /\ at' = "baseline" /\ acc' = acc /\ elim' = elim
    BY <1>1 DEF Baseline, Shape, sweep
  <2>8. \A j \in DOMAIN round' : FALSE
    BY <2>7
  <2>9. \A s \in DOMAIN Registry : Registry[s].works /\ Registry[s].builds =>
          CleanTally(acc[s])' /\ s \notin elim'
    BY <1>a, <2>7 DEF Blameless, CleanTally
  <2> QED BY <2>3, <2>6, <2>7, <2>8, <2>9 DEF Blameless
<1>2. CASE Classify
  <2>1. loss' = loss
    <3>1. ASSUME NEW l \in SUBSET Axes, NEW bad \in 0..SniEnd - 1, Cardinality(l) <= loss,
                 bad > 0 => Cardinality(l) + (IF bad > 0 THEN 1 ELSE 0) <= loss
          PROVE  Cardinality(l) + (IF bad > 0 THEN 1 ELSE 0) = 0
      <4>1. Cardinality(l) = 0
        BY <1>a, <1>b, <3>1, NoAxisLost
      <4> QED BY <1>a, <3>1, <4>1
    <3>2. CASE blocked = <<>>
      BY <1>2, <3>2 DEF Classify
    <3>3. CASE blocked # <<>>
      <4>1. PICK l \in SUBSET Axes, bad \in 0..SniEnd - 1 :
              /\ Cardinality(l) <= loss
              /\ bad > 0 => Cardinality(l) + (IF bad > 0 THEN 1 ELSE 0) <= loss
              /\ loss' = loss - (Cardinality(l) + (IF bad > 0 THEN 1 ELSE 0))
        BY <1>2, <1>a, <3>3 DEF Classify, Calm
      <4> QED BY <1>a, <3>1, <4>1
    <3> QED BY <3>2, <3>3
  <2>2. /\ acc' = acc /\ elim' = elim /\ blocked' = blocked
        /\ round' = round /\ round = <<>>
    BY <1>2 DEF Classify, Shape, baseline
  <2>3. at' = "sweep" => blocked # <<>>
    BY <1>2 DEF Classify, Stop
  <2>4. \A j \in DOMAIN round' : round'[j] = Pending
    BY <2>2
  <2> QED BY <2>1, <2>2, <2>3, <2>4, BlamelessStays
<1>3. CASE Trial
  <2>0. PICK j \in DOMAIN round, lost \in {0, 1} :
          /\ lost <= loss /\ loss' = loss - lost
          /\ \E v \in {RunTrial(IF j = 0 THEN "plain" ELSE Cand,
                                IF j = 0 THEN T(Controls[1]) ELSE T(j), ~up \/ lost = 1)} :
               round' = [round EXCEPT ![j] = v]
    <3>1. ~cancelled
      BY <1>a DEF Calm
    <3> QED BY <1>3, <3>1 DEF Trial
  <2>1. /\ lost <= loss /\ loss' = loss - lost
        /\ round' = [round EXCEPT ![j] = RunTrial(IF j = 0 THEN "plain" ELSE Cand,
                      IF j = 0 THEN T(Controls[1]) ELSE T(j), ~up \/ lost = 1)]
    BY <2>0, Zenon
  <2>2. lost = 0 /\ loss' = 0
    BY <1>a, <2>1
  <2>3. round' = [round EXCEPT ![j] = IF j = 0 THEN RunTrial("plain", T(Controls[1]), ~up)
                                      ELSE RunTrial(Cand, T(j), ~up)]
    <3>1. \A s, t : RunTrial(s, t, ~up \/ lost = 1) = RunTrial(s, t, ~up)
      BY <2>2 DEF RunTrial
    <3>2. CASE j = 0
      BY <2>1, <3>1, <3>2
    <3>3. CASE j # 0
      BY <2>1, <3>1, <3>3
    <3> QED BY <3>2, <3>3
  <2>4. /\ cands' = cands /\ ci' = ci /\ up' = up /\ acc' = acc /\ elim' = elim
        /\ blocked' = blocked /\ at = "sweep"
    BY <1>3 DEF Trial, baseline
  <2>5. /\ \A k : RunTrial(Cand, T(k), ~up)' = RunTrial(Cand, T(k), ~up)
        /\ RunTrial("plain", T(Controls[1]), ~up)' = RunTrial("plain", T(Controls[1]), ~up)
    <3>1. Cand' = Cand /\ T(Controls[1])' = T(Controls[1])
      BY <1>b, <2>4 DEF Cand, T
    <3> QED BY <1>b, <2>4, <3>1 DEF RunTrial, ClassifyHandshake, IsSinkhole, Emits
  <2>6. \A k \in DOMAIN round : AsTheLineIs(k)
    BY <1>a DEF Blameless
  <2>7. \A k \in DOMAIN round' : AsTheLineIs(k)'
    BY <2>3, <2>5, <2>6 DEF AsTheLineIs, Pending
  <2>8. \A n \in Range(blocked') : ~IsSinkhole(T(n))'
    BY <1>a, <1>b, <2>4 DEF Blameless, IsSinkhole
  <2>9. \A s \in DOMAIN Registry : Registry[s].works /\ Registry[s].builds =>
          CleanTally(acc[s])' /\ s \notin elim'
    BY <1>a, <2>4 DEF Blameless, CleanTally
  <2> QED BY <1>a, <2>2, <2>4, <2>7, <2>8, <2>9 DEF Blameless
<1>4. CASE RoundEnds
  <2>1. /\ loss' = loss /\ blocked' = blocked /\ at = "sweep" /\ round # <<>>
        /\ \A j \in DOMAIN round : round[j] # Pending
    BY <1>4 DEF RoundEnds, Running, noise, baseline
  <2>2. \A j \in DOMAIN round' : round'[j] = Pending
    BY <1>4 DEF RoundEnds
  <2>3. CASE acc' = acc /\ elim' = elim
    BY <2>1, <2>2, <2>3, BlamelessStays
  <2>4. CASE Live /\ acc' = [acc EXCEPT ![Cand] = Scored(acc[Cand])]
             /\ elim' = (IF Eliminated(acc'[Cand]) THEN elim \cup {Cand} ELSE elim)
    <3>1. ASSUME NEW s \in DOMAIN Registry, Registry[s].works, Registry[s].builds
          PROVE  CleanTally(acc'[s]) /\ s \notin elim'
      <4>1. s \in DOMAIN acc /\ CleanTally(acc[s]) /\ s \notin elim
        BY <1>a, <3>1 DEF Blameless, Shape
      <4>2. CASE s = Cand
        <5>1. acc'[s] = Scored(acc[s])
          BY <2>4, <4>1, <4>2
        <5>2. CleanTally(Scored(acc[s])) /\ ~Eliminated(Scored(acc[s]))
          BY <1>a, <2>1, <2>4, <3>1, <4>1, <4>2, ScoredClean
        <5> QED BY <2>4, <4>1, <4>2, <5>1, <5>2
      <4>3. CASE s # Cand
        BY <2>4, <4>1, <4>3
      <4> QED BY <4>2, <4>3
    <3>2. \A n \in Range(blocked') : ~IsSinkhole(T(n))'
      BY <1>a, <1>b, <2>1 DEF Blameless, IsSinkhole
    <3>3. \A j \in DOMAIN round' : AsTheLineIs(j)'
      BY <2>2 DEF AsTheLineIs, Pending
    <3>4. \A s \in DOMAIN Registry : Registry[s].works /\ Registry[s].builds =>
            CleanTally(acc[s])' /\ s \notin elim'
      BY <3>1 DEF CleanTally
    <3> QED BY <1>a, <2>1, <3>2, <3>3, <3>4 DEF Blameless
  <2> QED BY <1>4, <2>3, <2>4 DEF RoundEnds
<1>5. CASE NextCandidate
  <2>1. /\ loss' = loss /\ acc' = acc /\ elim' = elim /\ blocked' = blocked /\ at = "sweep"
    BY <1>5 DEF NextCandidate, noise, baseline
  <2>2. \A j \in DOMAIN round' : round'[j] = Pending
    BY <1>5 DEF NextCandidate, Running
  <2> QED BY <2>1, <2>2, BlamelessStays
<1>6. CASE BaselineEnds
  <2>1. /\ loss' = loss /\ acc' = acc /\ elim' = elim /\ blocked' = blocked
        /\ round' = round /\ round = <<>>
    BY <1>6 DEF BaselineEnds, Shape, noise, baseline
  <2>2. at' = "sweep" => blocked # <<>>
    BY <1>6 DEF BaselineEnds, Stop
  <2>3. \A j \in DOMAIN round' : round'[j] = Pending
    BY <2>1
  <2> QED BY <2>1, <2>2, <2>3, BlamelessStays
<1>7. CASE Weather
  <2>1. /\ loss' = loss /\ acc' = acc /\ elim' = elim /\ blocked' = blocked
        /\ round' = round /\ round = <<>> /\ at' = at
    BY <1>7 DEF Weather, baseline, sweep
  <2>2. \A j \in DOMAIN round' : round'[j] = Pending
    BY <2>1
  <2> QED BY <2>1, <2>2, BlamelessStays
<1>8. CASE Interrupt
  BY <1>8 DEF Interrupt, Calm
<1>9. ASSUME ~Baseline, ~Classify, ~Trial, ~RoundEnds, ~NextCandidate, ~BaselineEnds, ~Weather,
             ~Interrupt
      PROVE  /\ loss' = loss /\ acc' = acc /\ elim' = elim /\ blocked' = blocked
             /\ round' = round /\ cands' = cands /\ ci' = ci /\ up' = up
             /\ at' = "sweep" => at = "sweep"
  <2>1. CASE Preflight
    BY <2>1 DEF Preflight, Stop, noise, baseline, sweep
  <2>2. CASE SweepEnds \/ Rank \/ Decide
    BY <2>2 DEF SweepEnds, Rank, Decide, Stop, noise, baseline, sweep
  <2>3. CASE CreateTemp \/ WriteTemp \/ Rename
    BY <2>3 DEF CreateTemp, WriteTemp, Rename, Stop, noise, baseline, sweep
  <2>4. CASE Crash \/ Done
    BY <2>4 DEF Crash, Done, tuneVars, Stop, noise, baseline, sweep
  <2> QED BY <1>9, <2>1, <2>2, <2>3, <2>4 DEF TuneNext, Work
<1> QED BY <1>1, <1>2, <1>3, <1>4, <1>5, <1>6, <1>7, <1>8, <1>9, BlamelessStays

-----------------------------------------------------------------------------
(* The controls.                                                           *)

\* A sequence has finitely many elements.
LEMMA RangeFinite == ASSUME NEW X, NEW s \in Seq(X) PROVE IsFiniteSet(Range(s))
<1>1. s \in [1..Len(s) -> X] /\ Len(s) \in Nat /\ DOMAIN s = 1..Len(s)
  BY LenProperties
<1>2. s \in Surjection(1..Len(s), Range(s))
  BY <1>1 DEF Surjection, Range
<1>3. IsFiniteSet(1..Len(s))
  BY <1>1, FS_Interval
<1> QED BY <1>2, <1>3, FS_Surjection

\* A round has finitely many trials, and of those any part is counted.
LEMMA RoundFinite ==
    ASSUME Shape, NEW S \in SUBSET DOMAIN round, round # <<>>
    PROVE  IsFiniteSet(S) /\ Cardinality(S) \in Nat /\ (S # {} => Cardinality(S) > 0)
<1>1. IsFiniteSet(Range(blocked))
  BY RangeFinite DEF Shape
<1>2. \A k : IsFiniteSet(Range(OfKind(k)))
  BY RangeFinite, OfKindIn DEF Shape
<1>3. IsFiniteSet(RoundJobs)
  <2>1. IsFiniteSet(Range(blocked) \cup Range(OfKind("fragile")))
    BY <1>1, <1>2, FS_Union
  <2>2. IsFiniteSet(Range(blocked) \cup Range(OfKind("fragile")) \cup Range(Controls))
    BY <1>2, <2>1, FS_Union DEF Controls
  <2>3. IsFiniteSet(IF Controls # <<>> THEN {0} ELSE {})
    BY FS_EmptySet, FS_Singleton
  <2> QED BY <2>2, <2>3, FS_Union DEF RoundJobs
<1>4. IsFiniteSet(S)
  BY <1>3, FS_Subset DEF Shape
<1>5. Cardinality(S) \in Nat
  BY <1>4, FS_CardinalityType
<1>6. S # {} => Cardinality(S) # 0
  BY <1>4, FS_EmptySet
<1> QED BY <1>4, <1>5, <1>6

ControlTrials(v) == {j \in DOMAIN round \ {0} :
                       T(j).kind = "control" /\ ScorableFor(j) /\ (v => round[j] = "pass")}

\* A round adds its control trials to what was counted.
LEMMA ScoredCounts ==
    ASSUME Shape, round # <<>>, NEW a, a.ct \in Nat, a.cp \in Nat
    PROVE  /\ Scored(a).ct = a.ct + Cardinality(ControlTrials(FALSE)) /\ Scored(a).ct \in Nat
           /\ Scored(a).cp = a.cp + Cardinality(ControlTrials(TRUE)) /\ Scored(a).cp \in Nat
<1>1. /\ Scored(a).ct = a.ct + Cardinality(ControlTrials(FALSE))
      /\ Scored(a).cp = a.cp + Cardinality(ControlTrials(TRUE))
  BY DEF Scored, ControlTrials
<1>2. ControlTrials(FALSE) \in SUBSET DOMAIN round /\ ControlTrials(TRUE) \in SUBSET DOMAIN round
  BY DEF ControlTrials
<1>3. Cardinality(ControlTrials(FALSE)) \in Nat /\ Cardinality(ControlTrials(TRUE)) \in Nat
  BY <1>2, RoundFinite
<1> DEFINE n == Cardinality(ControlTrials(FALSE))
           m == Cardinality(ControlTrials(TRUE))
<1> HIDE DEF n, m
<1>4. n \in Nat /\ m \in Nat
  BY <1>3 DEF n, m
<1>5. a.ct + n \in Nat /\ a.cp + m \in Nat
  BY <1>4
<1> QED BY <1>1, <1>5 DEF n, m

\* What a control that plain reaches makes of a strategy.
LEMMA ControlTells ==
    ASSUME NEW s, NEW t, t.kind = "control", RunTrial("plain", t, FALSE) = "pass"
    PROVE  /\ Harmful(s) => RunTrial(s, t, FALSE) = "handshakefail"
           /\ Harmless(s) => RunTrial(s, t, FALSE) = "pass"
<1> QED BY DEF RunTrial, Emits, ClassifyHandshake, Harmful, Harmless

\* The round that is scored counts a control against a strategy that breaks it,
\* and for one that does not.
LEMMA ScoredTells ==
    ASSUME Shape, Blameless, Calm, ControlsReached, round # <<>>, Live,
           \A j \in DOMAIN round : round[j] # Pending,
           NEW a, a.ct \in Nat, a.cp \in Nat
    PROVE  /\ Harmful(Cand) => Scored(a).ct > 0 /\ Scored(a).cp = a.cp
           /\ Harmless(Cand) => Scored(a).cp > 0
<1>1. up
  BY LiveIsUp
<1>2. ASSUME NEW j \in DOMAIN round \ {0} PROVE round[j] = RunTrial(Cand, T(j), FALSE)
  <2>1. round[j] = RunTrial(Cand, T(j), ~up)
    BY <1>2 DEF Blameless, AsTheLineIs
  <2> QED BY <1>1, <2>1
<1>3. ASSUME NEW j \in DOMAIN round \ {0}, T(j).kind = "control"
      PROVE  /\ Harmful(Cand) => round[j] = "handshakefail"
             /\ Harmless(Cand) => round[j] = "pass"
  <2>1. j \in Range(Controls)
    <3>1. j \in Range(blocked) \cup Range(OfKind("fragile")) \cup Range(OfKind("control"))
      BY <1>3 DEF Shape, RoundJobs, Controls
    <3>2. /\ Range(blocked) \subseteq BlockedOnes
          /\ Range(OfKind("fragile")) \subseteq {i \in DOMAIN job.targets : T(i).kind = "fragile"}
      <4>1. job \in Jobs /\ blocked \in Seq(BlockedOnes)
        BY DEF Shape
      <4> QED BY <4>1, RangeIn, OfKindIn
    <3> QED BY <1>3, <3>1, <3>2 DEF BlockedOnes, Controls
  <2>2. RunTrial("plain", T(j), FALSE) = "pass"
    BY <2>1 DEF ControlsReached
  <2> QED BY <1>2, <1>3, <2>2, ControlTells
<1>4. PICK c \in DOMAIN round \ {0} : T(c).kind = "control"
  <2>1. Controls \in Seq({i \in DOMAIN job.targets : T(i).kind = "control"}) /\ Controls # <<>>
    BY OfKindIn DEF Controls, Shape, Calm
  <2>2. /\ 1 \in DOMAIN Controls /\ Controls[1] \in DOMAIN job.targets
        /\ T(Controls[1]).kind = "control"
    BY <2>1, EmptySeq, LenProperties, ElementOfSeq
  <2>3. Controls[1] \in RoundJobs
    BY <2>2 DEF RoundJobs, Range
  <2>4. DOMAIN job.targets = 1..Len(job.targets) /\ Len(job.targets) \in Nat
    BY JobsAssumption, LenProperties DEF Shape, JobType
  <2>5. Controls[1] # 0
    BY <2>2, <2>4
  <2> QED BY <2>2, <2>3, <2>5 DEF Shape
<1>5. Harmful(Cand) => c \in ControlTrials(FALSE) /\ ControlTrials(TRUE) = {}
  BY <1>3, <1>4 DEF ControlTrials, ScorableFor
<1>6. Harmless(Cand) => c \in ControlTrials(TRUE)
  BY <1>3, <1>4 DEF ControlTrials, ScorableFor, Scorable
<1>7. ControlTrials(FALSE) \in SUBSET DOMAIN round /\ ControlTrials(TRUE) \in SUBSET DOMAIN round
  BY DEF ControlTrials
<1>8. \A S \in SUBSET DOMAIN round : Cardinality(S) \in Nat /\ (S # {} => Cardinality(S) > 0)
  BY RoundFinite
<1>9. Cardinality({}) = 0
  BY FS_EmptySet
<1>10. /\ Scored(a).ct = a.ct + Cardinality(ControlTrials(FALSE))
       /\ Scored(a).cp = a.cp + Cardinality(ControlTrials(TRUE))
  BY ScoredCounts
<1> DEFINE n == Cardinality(ControlTrials(FALSE))
           m == Cardinality(ControlTrials(TRUE))
<1>11. n \in Nat /\ m \in Nat
  BY <1>7, <1>8
<1>12. CASE Harmful(Cand)
  <2>1. n > 0 /\ m = 0
    BY <1>5, <1>7, <1>8, <1>9, <1>12
  <2>2. ~Harmless(Cand)
    BY <1>12 DEF Harmful, Harmless
  <2> HIDE DEF n, m
  <2>3. a.ct + n > 0 /\ a.cp + m = a.cp
    BY <1>11, <2>1
  <2> QED BY <1>10, <2>2, <2>3 DEF n, m
<1>13. CASE Harmless(Cand)
  <2>1. m > 0
    BY <1>6, <1>7, <1>8, <1>13
  <2>2. ~Harmful(Cand)
    BY <1>13 DEF Harmful, Harmless
  <2> HIDE DEF n, m
  <2>3. a.cp + m > 0
    BY <1>11, <2>1
  <2> QED BY <1>10, <2>2, <2>3 DEF n, m
<1> QED BY <1>12, <1>13

-----------------------------------------------------------------------------
(* The order of the ranking.                                               *)

\* Measured, and with a control that passed if any was asked.
Fair(s) == acc[s].bt > 0 /\ (acc[s].ct = 0 \/ acc[s].cp > 0)
FairFirst(r) == \A i, j \in 1..Len(r) : i < j /\ Fair(r[j]) => Fair(r[i])

\* The product of two positive numbers is positive.
LEMMA Positive == ASSUME NEW m \in Nat, NEW n \in Nat, m > 0, n > 0 PROVE m * n > 0
<1> QED OBVIOUS

\* The rank keeps the fair before the others.
LEMMA FairIsLess ==
    ASSUME NEW s \in DOMAIN Registry, NEW t \in DOMAIN Registry, Swept
    PROVE  /\ Fair(s) /\ ~Fair(t) => Less(s, t)
           /\ ~Fair(s) /\ Fair(t) => ~Less(s, t)
<1> DEFINE a == acc[s]  b == acc[t]
           k1 == (IF a.bt > 0 THEN 1 ELSE 0) - (IF b.bt > 0 THEN 1 ELSE 0)
           k2 == CmpRate(a, b)
           keys == << k1, k2,
                 WilsonLo(a) - WilsonLo(b),
                 Registry[s].det - Registry[t].det,
                 CmpFragile(a, b),
                 Registry[s].margin - Registry[t].margin,
                 Registry[t].segs - Registry[s].segs,
                 Registry[t].lex - Registry[s].lex >>
<1>1. Less(s, t) <=> \E i \in DOMAIN keys : keys[i] > 0 /\ \A j \in 1..i - 1 : keys[j] = 0
  BY DEF Less
<1>2. DOMAIN keys = 1..8 /\ keys[1] = k1 /\ keys[2] = k2
  OBVIOUS
<1>3. a.ct \in Nat /\ a.cp \in Nat /\ b.ct \in Nat /\ b.cp \in Nat
  BY DEF Swept
<1>4. k2 = (IF a.ct = 0 THEN 1 ELSE a.cp) * (IF b.ct = 0 THEN 1 ELSE b.ct)
           - (IF b.ct = 0 THEN 1 ELSE b.cp) * (IF a.ct = 0 THEN 1 ELSE a.ct)
  BY DEF CmpRate
<1>5. Fair(s) <=> a.bt > 0 /\ (a.ct = 0 \/ a.cp > 0)
  BY DEF Fair
<1>6. Fair(t) <=> b.bt > 0 /\ (b.ct = 0 \/ b.cp > 0)
  BY DEF Fair
<1>0. k1 \in Int /\ k2 \in Int
  BY <1>3, <1>4
<1>7. ASSUME Fair(s), ~Fair(t) PROVE k1 > 0 \/ (k1 = 0 /\ k2 > 0)
  <2>1. CASE ~(b.bt > 0)
    BY <1>5, <1>7, <2>1
  <2>2. CASE b.bt > 0
    <3>1. k1 = 0 /\ b.ct > 0 /\ b.cp = 0
      BY <1>3, <1>5, <1>6, <1>7, <2>2
    <3> DEFINE p == IF a.ct = 0 THEN 1 ELSE a.cp
               q == IF a.ct = 0 THEN 1 ELSE a.ct
    <3>2. k2 = p * b.ct - 0 * q
      BY <1>4, <3>1
    <3>3. p \in Nat /\ p > 0 /\ q \in Nat
      BY <1>3, <1>5, <1>7
    <3> HIDE DEF p, q, k2
    <3>4. p * b.ct > 0 /\ 0 * q = 0
      BY <1>3, <3>1, <3>3, Positive
    <3>5. p * b.ct \in Nat
      BY <1>3, <3>3
    <3> QED BY <3>1, <3>2, <3>4, <3>5
  <2> QED BY <2>1, <2>2
<1>8. ASSUME ~Fair(s), Fair(t) PROVE k1 < 0 \/ (k1 = 0 /\ k2 < 0)
  <2>1. CASE ~(a.bt > 0)
    BY <1>6, <1>8, <2>1
  <2>2. CASE a.bt > 0
    <3>1. k1 = 0 /\ a.ct > 0 /\ a.cp = 0
      BY <1>3, <1>5, <1>6, <1>8, <2>2
    <3> DEFINE p == IF b.ct = 0 THEN 1 ELSE b.cp
               q == IF b.ct = 0 THEN 1 ELSE b.ct
    <3>2. k2 = 0 * q - p * a.ct
      BY <1>4, <3>1
    <3>3. p \in Nat /\ p > 0 /\ q \in Nat
      BY <1>3, <1>6, <1>8
    <3> HIDE DEF p, q, k2
    <3>4. p * a.ct > 0 /\ 0 * q = 0
      BY <1>3, <3>1, <3>3, Positive
    <3>5. p * a.ct \in Nat
      BY <1>3, <3>3
    <3> QED BY <3>1, <3>2, <3>4, <3>5
  <2> QED BY <2>1, <2>2
<1> HIDE DEF keys, k1, k2, a, b
<1>9. ASSUME k1 > 0 \/ (k1 = 0 /\ k2 > 0) PROVE Less(s, t)
  <2>1. CASE k1 > 0
    <3>1. 1 \in DOMAIN keys /\ keys[1] > 0 /\ \A j \in 1..1 - 1 : keys[j] = 0
      BY <1>2, <2>1
    <3> QED BY <1>1, <3>1
  <2>2. CASE k1 = 0 /\ k2 > 0
    <3>1. 2 \in DOMAIN keys /\ keys[2] > 0 /\ \A j \in 1..2 - 1 : keys[j] = 0
      BY <1>2, <2>2
    <3> QED BY <1>1, <3>1
  <2> QED BY <1>9, <2>1, <2>2
<1>10. ASSUME k1 < 0 \/ (k1 = 0 /\ k2 < 0), Less(s, t) PROVE FALSE
  <2>1. PICK i \in 1..8 : keys[i] > 0 /\ \A j \in 1..i - 1 : keys[j] = 0
    BY <1>1, <1>2, <1>10
  <2>2. i # 1
    BY <1>0, <1>2, <1>10, <2>1
  <2>3. 1 \in 1..i - 1 /\ k1 = 0
    BY <1>2, <2>1, <2>2
  <2>4. k2 < 0
    BY <1>10, <2>3
  <2>5. i # 2
    BY <1>0, <1>2, <2>1, <2>4
  <2>6. 2 \in 1..i - 1
    BY <2>2, <2>5
  <2> QED BY <1>0, <1>2, <2>1, <2>4, <2>6
<1> QED BY <1>7, <1>8, <1>9, <1>10

\* What an insertion makes of a sequence.
LEMMA InsertAtIs ==
    ASSUME NEW X, NEW r \in Seq(X), NEW x \in X, NEW k \in 0..Len(r)
    PROVE  /\ InsertAt(r, k + 1, x) \in Seq(X)
           /\ Len(InsertAt(r, k + 1, x)) = Len(r) + 1
           /\ \A i \in 1..Len(r) + 1 : InsertAt(r, k + 1, x)[i] =
                IF i <= k THEN r[i] ELSE IF i = k + 1 THEN x ELSE r[i - 1]
<1>1. Len(r) \in Nat /\ k \in Int /\ (k + 1) - 1 = k
  BY LenProperties
<1>2. \A i \in 1..Len(r) : r[i] \in X
  BY ElementOfSeq
<1> DEFINE pre == SubSeq(r, 1, k)
           post == SubSeq(r, k + 1, Len(r))
<1>3. pre \in Seq(X) /\ Len(pre) = k /\ \A i \in 1..k : pre[i] = r[i]
  <2>1. \A i \in 1..k : r[i] \in X
    BY <1>1, <1>2
  <2>2. /\ SubSeq(r, 1, k) \in Seq(X)
        /\ Len(SubSeq(r, 1, k)) = IF 1 <= k THEN k - 1 + 1 ELSE 0
        /\ \A i \in 1..k - 1 + 1 : SubSeq(r, 1, k)[i] = r[1 + i - 1]
    BY <1>1, <2>1, SubSeqProperties
  <2>3. k - 1 + 1 = k /\ \A i \in 1..k : 1 + i - 1 = i
    BY <1>1
  <2> QED BY <1>1, <2>2, <2>3
<1>4. post \in Seq(X) /\ Len(post) = Len(r) - k /\ \A i \in 1..Len(r) - k : post[i] = r[k + i]
  <2>1. \A i \in k + 1..Len(r) : r[i] \in X
    BY <1>1, <1>2
  <2>2. /\ SubSeq(r, k + 1, Len(r)) \in Seq(X)
        /\ Len(SubSeq(r, k + 1, Len(r))) = IF k + 1 <= Len(r) THEN Len(r) - (k + 1) + 1 ELSE 0
        /\ \A i \in 1..Len(r) - (k + 1) + 1 : SubSeq(r, k + 1, Len(r))[i] = r[(k + 1) + i - 1]
    BY <1>1, <2>1, SubSeqProperties
  <2>3. Len(r) - (k + 1) + 1 = Len(r) - k /\ \A i \in 1..Len(r) - k : (k + 1) + i - 1 = k + i
    BY <1>1
  <2>4. Len(post) = Len(r) - k
    <3>1. ~(k + 1 <= Len(r)) => Len(r) - k = 0
      BY <1>1
    <3> QED BY <2>2, <2>3, <3>1
  <2> HIDE DEF post
  <2>5. post \in Seq(X) /\ \A i \in 1..Len(r) - k : post[i] = r[k + i]
    BY <2>2, <2>3 DEF post
  <2> QED BY <2>4, <2>5
<1> HIDE DEF pre, post
<1> DEFINE one == <<x>>
<1>5. one \in Seq(X) /\ Len(one) = 1 /\ one[1] = x
  OBVIOUS
<1> HIDE DEF one
<1> DEFINE front_ == pre \o one
<1>6. front_ \in Seq(X) /\ Len(front_) = k + 1
      /\ \A i \in 1..k + 1 : front_[i] = IF i <= k THEN pre[i] ELSE one[i - k]
  <2>1. /\ pre \o one \in Seq(X) /\ Len(pre \o one) = Len(pre) + Len(one)
        /\ \A i \in 1..Len(pre) + Len(one) :
             (pre \o one)[i] = IF i <= Len(pre) THEN pre[i] ELSE one[i - Len(pre)]
    BY <1>3, <1>5, ConcatProperties
  <2> QED BY <1>3, <1>5, <2>1
<1>7. ASSUME NEW i \in 1..k + 1 PROVE front_[i] = IF i <= k THEN r[i] ELSE x
  <2>1. front_[i] = IF i <= k THEN pre[i] ELSE one[i - k]
    BY <1>6
  <2>2. i <= k => i \in 1..k
    BY <1>1, <1>7
  <2>3. ~(i <= k) => i - k = 1
    BY <1>1, <1>7
  <2> QED BY <1>3, <1>5, <2>1, <2>2, <2>3
<1> HIDE DEF front_
<1>8. /\ front_ \o post \in Seq(X) /\ Len(front_ \o post) = Len(front_) + Len(post)
      /\ \A i \in 1..Len(front_) + Len(post) :
           (front_ \o post)[i] = IF i <= Len(front_) THEN front_[i] ELSE post[i - Len(front_)]
  BY <1>4, <1>6, ConcatProperties
<1>9. InsertAt(r, k + 1, x) = front_ \o post
  BY <1>1 DEF InsertAt, front_, pre, one, post
<1>10. Len(front_) + Len(post) = Len(r) + 1
  BY <1>1, <1>4, <1>6
<1>11. ASSUME NEW i \in 1..Len(r) + 1
       PROVE  (front_ \o post)[i] = IF i <= k THEN r[i] ELSE IF i = k + 1 THEN x ELSE r[i - 1]
  <2>1. (front_ \o post)[i] = IF i <= k + 1 THEN front_[i] ELSE post[i - (k + 1)]
    BY <1>6, <1>8, <1>10
  <2>2. CASE i <= k + 1
    <3>1. i \in 1..k + 1 /\ (~(i <= k) => i = k + 1)
      BY <1>1, <2>2
    <3> QED BY <1>7, <2>1, <2>2, <3>1
  <2>3. CASE ~(i <= k + 1)
    <3>1. i - (k + 1) \in 1..Len(r) - k /\ k + (i - (k + 1)) = i - 1 /\ ~(i <= k) /\ i # k + 1
      BY <1>1, <2>3
    <3>2. post[i - (k + 1)] = r[k + (i - (k + 1))]
      BY <1>4, <3>1
    <3> QED BY <2>1, <2>3, <3>1, <3>2
  <2> QED BY <2>2, <2>3
<1> QED BY <1>8, <1>9, <1>10, <1>11

\* A function that puts what it is given, of W, among the elements of a sequence
\* and takes none out.
Gathers(f, Good, S, W) ==
  \A a \in Good : \A x \in S :
    /\ f[a][x] \in Good
    /\ x \in W => x \in Range(f[a][x])
    /\ Range(a) \subseteq Range(f[a][x])

\* Folding it leaves them all there.
LEMMA FoldedKeeps ==
    ASSUME NEW Good, NEW f, NEW base \in Good, NEW S, NEW s \in Seq(S), NEW W,
           Gathers(f, Good, S, W)
    PROVE  \A i \in 1..Len(s) : s[i] \in W => s[i] \in Range(Folded(f, base, s))
<1>1. Len(s) \in Nat /\ \A i \in 1..Len(s) : s[i] \in S
  BY ElementOfSeq, LenProperties
<1>2. PICK g : /\ Folded(f, base, s) = g[Len(s)]
               /\ g[0] = base
               /\ \A k \in 1..Len(s) : g[k] = f[g[k - 1]][s[k]]
  BY <1>1, Partials
<1> DEFINE P == {k \in 0..Len(s) :
                   g[k] \in Good /\ \A i \in 1..k : s[i] \in W => s[i] \in Range(g[k])}
<1>3. 0 \in P
  BY <1>1, <1>2
<1>4. ASSUME NEW k \in 0..Len(s), k \in P, k # Len(s) PROVE k + 1 \in P
  <2>1. k + 1 \in 1..Len(s) /\ (k + 1) - 1 = k /\ k + 1 \in 0..Len(s)
    BY <1>1, <1>4
  <2>2. g[k + 1] = f[g[k]][s[k + 1]] /\ g[k] \in Good /\ s[k + 1] \in S
    BY <1>1, <1>2, <1>4, <2>1
  <2>3. g[k + 1] \in Good
    BY <2>2 DEF Gathers
  <2>4. ASSUME NEW i \in 1..k + 1, s[i] \in W PROVE s[i] \in Range(g[k + 1])
    <3>1. CASE i = k + 1
      BY <2>2, <2>4, <3>1 DEF Gathers
    <3>2. CASE i # k + 1
      <4>1. i \in 1..k /\ i \in 1..Len(s)
        BY <1>1, <2>1, <2>4, <3>2
      <4>2. s[i] \in Range(g[k])
        BY <1>4, <2>4, <4>1
      <4> QED BY <2>2, <4>2 DEF Gathers
    <3> QED BY <3>1, <3>2
  <2> QED BY <2>1, <2>3, <2>4
<1> HIDE DEF P
<1>5. 0..Len(s) \subseteq P
  BY <1>1, <1>3, <1>4, Climb
<1>6. Len(s) \in P
  BY <1>1, <1>5
<1> QED BY <1>2, <1>6 DEF P

\* A filter keeps every element that is in the set.
LEMMA KeptAll ==
    ASSUME NEW X, NEW s \in Seq(X), NEW S, NEW x \in Range(s) \cap S
    PROVE  x \in Range(Kept(s, S))
<1> DEFINE elements == {s[i] : i \in DOMAIN s}
           keep == [kept \in Seq(S) |->
                      [y \in elements |-> IF y \in S THEN Append(kept, y) ELSE kept]]
<1>1. s \in Seq(elements) /\ DOMAIN s = 1..Len(s)
  BY ElementOfSeq, SeqDef, LenProperties
<1>2. ASSUME NEW a \in Seq(S), NEW y \in elements
      PROVE  /\ keep[a][y] \in Seq(S)
             /\ y \in S => y \in Range(keep[a][y])
             /\ Range(a) \subseteq Range(keep[a][y])
  <2>1. keep[a][y] = IF y \in S THEN Append(a, y) ELSE a
    OBVIOUS
  <2>2. ASSUME y \in S
        PROVE  Append(a, y) \in Seq(S) /\ y \in Range(Append(a, y))
               /\ Range(a) \subseteq Range(Append(a, y))
    <3>1. /\ Append(a, y) \in Seq(S) /\ Len(Append(a, y)) = Len(a) + 1
          /\ \A i \in 1..Len(a) : Append(a, y)[i] = a[i]
          /\ Append(a, y)[Len(a) + 1] = y
      BY <2>2, AppendProperties
    <3>2. /\ DOMAIN Append(a, y) = 1..Len(a) + 1 /\ DOMAIN a = 1..Len(a) /\ Len(a) \in Nat
      BY <3>1, LenProperties
    <3>3. Len(a) + 1 \in DOMAIN Append(a, y)
      BY <3>2
    <3>4. \A i \in DOMAIN a : i \in DOMAIN Append(a, y)
      BY <3>2
    <3> QED BY <3>1, <3>2, <3>3, <3>4 DEF Range
  <2> QED BY <2>1, <2>2
<1>3. <<>> \in Seq(S)
  BY EmptySeq
<1> HIDE DEF keep, elements
<1>4. Gathers(keep, Seq(S), elements, S)
  BY <1>2 DEF Gathers
<1>5. \A i \in 1..Len(s) : s[i] \in S => s[i] \in Range(Folded(keep, <<>>, s))
  BY <1>1, <1>3, <1>4, FoldedKeeps
<1>6. PICK i \in 1..Len(s) : x = s[i]
  BY <1>1 DEF Range
<1>7. x \in Range(Folded(keep, <<>>, s))
  BY <1>5, <1>6
<1> QED BY <1>7 DEF Kept, keep, elements

\* The ranking has every strategy that was measured, the fair ones first.
LEMMA RankingFair ==
    ASSUME cands \in Seq(DOMAIN Registry), Swept
    PROVE  /\ FairFirst(Ranking)
           /\ \A x \in Range(cands) : acc[x] # NoScore => x \in Range(Ranking)
<1> DEFINE insert == [sorted \in Seq(DOMAIN Registry) |-> [x \in DOMAIN Registry |->
             InsertAt(sorted, SelectLastInSeq(sorted, LAMBDA y : ~Less(x, y)) + 1, x)]]
           tried == {s \in DOMAIN Registry : acc[s] # NoScore}
           Good == {r \in Seq(DOMAIN Registry) : FairFirst(r)}
<1>1. ASSUME NEW r \in Seq(DOMAIN Registry), FairFirst(r), NEW x \in DOMAIN Registry
      PROVE  /\ insert[r][x] \in Seq(DOMAIN Registry) /\ FairFirst(insert[r][x])
             /\ x \in Range(insert[r][x]) /\ Range(r) \subseteq Range(insert[r][x])
  <2> DEFINE k == SelectLastInSeq(r, LAMBDA y : ~Less(x, y))
             I == {i \in 1..Len(r) : ~Less(x, r[i])}
             q == InsertAt(r, k + 1, x)
  <2>1. Len(r) \in Nat /\ DOMAIN r = 1..Len(r) /\ \A i \in 1..Len(r) : r[i] \in DOMAIN Registry
    BY LenProperties, ElementOfSeq
  <2>2. k = IF I # {} THEN Max(I) ELSE 0
    BY DEF SelectLastInSeq
  <2>3. insert[r][x] = q
    OBVIOUS
  <2> HIDE DEF k, insert, q
  <2>4. I # {} => Max(I) \in I /\ \A i \in I : Max(I) >= i
    <3>1. I \in SUBSET (1..Len(r))
      OBVIOUS
    <3> HIDE DEF I
    <3> QED BY <2>1, <3>1, GreatestOf
  <2>5. k \in 0..Len(r)
    BY <2>1, <2>2, <2>4
  <2>6. k # 0 => ~Less(x, r[k])
    BY <2>1, <2>2, <2>4
  <2>7. \A i \in 1..Len(r) : i > k => Less(x, r[i])
    <3> SUFFICES ASSUME NEW i \in 1..Len(r), i > k, ~Less(x, r[i]) PROVE FALSE
      OBVIOUS
    <3>1. i \in I
      OBVIOUS
    <3> HIDE DEF I
    <3>2. k = Max(I) /\ k >= i
      BY <2>2, <2>4, <3>1
    <3> QED BY <2>1, <2>5, <3>2
  <2> HIDE DEF I
  <2>8. /\ q \in Seq(DOMAIN Registry) /\ Len(q) = Len(r) + 1
        /\ \A i \in 1..Len(r) + 1 :
             q[i] = IF i <= k THEN r[i] ELSE IF i = k + 1 THEN x ELSE r[i - 1]
    BY <2>5, InsertAtIs DEF q
  <2>9. \A i \in 1..Len(r) : i <= k /\ Fair(x) => Fair(r[i])
    <3> SUFFICES ASSUME NEW i \in 1..Len(r), i <= k, Fair(x) PROVE Fair(r[i])
      OBVIOUS
    <3>1. k \in 1..Len(r) /\ ~Less(x, r[k])
      BY <2>1, <2>5, <2>6
    <3>2. Fair(r[k])
      BY <2>1, <3>1, FairIsLess
    <3>3. i < k \/ i = k
      BY <2>1, <3>1
    <3> QED BY <1>1, <3>1, <3>2, <3>3 DEF FairFirst
  <2>10. \A i \in 1..Len(r) : i > k /\ Fair(r[i]) => Fair(x)
    BY <2>1, <2>7, FairIsLess
  <2>11. FairFirst(q)
    <3> SUFFICES ASSUME NEW i \in 1..Len(r) + 1, NEW j \in 1..Len(r) + 1, i < j, Fair(q[j])
                 PROVE  Fair(q[i])
      BY <2>8 DEF FairFirst
    <3>1. CASE j <= k
      <4>1. i \in 1..Len(r) /\ j \in 1..Len(r) /\ i <= k
        BY <2>1, <2>5, <3>1
      <4>2. q[i] = r[i] /\ q[j] = r[j]
        BY <2>8, <3>1, <4>1
      <4> QED BY <1>1, <4>1, <4>2 DEF FairFirst
    <3>2. CASE j = k + 1
      <4>1. i \in 1..Len(r) /\ i <= k /\ ~(j <= k)
        BY <2>1, <2>5, <3>2
      <4>2. q[i] = r[i] /\ q[j] = x
        BY <2>8, <3>2, <4>1
      <4> QED BY <2>9, <4>1, <4>2
    <3>3. CASE j > k + 1
      <4>1. j - 1 \in 1..Len(r) /\ j - 1 > k /\ ~(j <= k) /\ j # k + 1
        BY <2>1, <2>5, <3>3
      <4>2. q[j] = r[j - 1]
        BY <2>8, <4>1
      <4>3. Fair(x)
        BY <2>10, <4>1, <4>2
      <4>4. CASE i <= k
        <5>1. i \in 1..Len(r)
          BY <2>1, <2>5, <4>4
        <5>2. q[i] = r[i]
          BY <2>8, <4>4
        <5> QED BY <2>9, <4>3, <4>4, <5>1, <5>2
      <4>5. CASE i = k + 1
        <5>1. ~(i <= k)
          BY <2>5, <4>5
        <5>2. q[i] = x
          BY <2>8, <4>5, <5>1
        <5> QED BY <4>3, <5>2
      <4>6. CASE i > k + 1
        <5>1. i - 1 \in 1..Len(r) /\ i - 1 < j - 1 /\ ~(i <= k) /\ i # k + 1
          BY <2>1, <2>5, <4>6
        <5>2. q[i] = r[i - 1]
          BY <2>8, <5>1
        <5> QED BY <1>1, <4>1, <4>2, <5>1, <5>2 DEF FairFirst
      <4>7. i <= k \/ i = k + 1 \/ i > k + 1
        BY <2>1, <2>5
      <4> QED BY <4>4, <4>5, <4>6, <4>7
    <3>4. j <= k \/ j = k + 1 \/ j > k + 1
      BY <2>1, <2>5
    <3> QED BY <3>1, <3>2, <3>3, <3>4
  <2>12. DOMAIN q = 1..Len(r) + 1
    BY <2>8, LenProperties
  <2>13. x \in Range(q)
    <3>1. k + 1 \in 1..Len(r) + 1 /\ ~(k + 1 <= k)
      BY <2>1, <2>5
    <3>2. q[k + 1] = x
      BY <2>8, <3>1
    <3> QED BY <2>12, <3>1, <3>2 DEF Range
  <2>14. ASSUME NEW i \in 1..Len(r) PROVE r[i] \in Range(q)
    <3>1. CASE i <= k
      <4>1. i \in 1..Len(r) + 1
        BY <2>1
      <4>2. q[i] = r[i]
        BY <2>8, <3>1, <4>1
      <4> QED BY <2>12, <4>1, <4>2 DEF Range
    <3>2. CASE ~(i <= k)
      <4>1. i + 1 \in 1..Len(r) + 1 /\ ~(i + 1 <= k) /\ i + 1 # k + 1 /\ (i + 1) - 1 = i
        BY <2>1, <2>5, <3>2
      <4>2. q[i + 1] = r[i]
        BY <2>8, <4>1
      <4> QED BY <2>12, <4>1, <4>2 DEF Range
    <3> QED BY <3>1, <3>2
  <2>15. Range(r) \subseteq Range(q)
    BY <2>1, <2>14 DEF Range
  <2> QED BY <2>3, <2>8, <2>11, <2>13, <2>15
<1>2. Kept(cands, tried) \in Seq(DOMAIN Registry)
  <2> HIDE DEF tried
  <2>1. Kept(cands, tried) \in Seq(tried \cap DOMAIN Registry)
    BY KeptIn
  <2> QED BY <2>1, SeqMonotonic
<1>3. <<>> \in Good
  <2>1. <<>> \in Seq(DOMAIN Registry) /\ Len(<<>>) = 0
    BY EmptySeq
  <2> QED BY <2>1 DEF FairFirst
<1> HIDE DEF insert, tried
<1>4. Gathers(insert, Good, DOMAIN Registry, DOMAIN Registry)
  BY <1>1 DEF Gathers
<1> DEFINE K == Kept(cands, tried)
<1>5. Ranking = Folded(insert, <<>>, K) /\ K \in Seq(DOMAIN Registry)
  BY <1>2 DEF Ranking, insert, tried
<1> HIDE DEF Good, K
<1>6. Ranking \in Good
  <2>1. \A a \in Good : \A x \in DOMAIN Registry : insert[a][x] \in Good
    BY <1>4 DEF Gathers
  <2> QED BY <1>3, <1>5, <2>1, FoldedIn
<1>7. \A i \in 1..Len(K) : K[i] \in DOMAIN Registry => K[i] \in Range(Ranking)
  BY <1>3, <1>4, <1>5, FoldedKeeps
<1>8. ASSUME NEW x \in Range(cands), acc[x] # NoScore PROVE x \in Range(Ranking)
  <2>1. x \in tried /\ x \in DOMAIN Registry
    BY <1>8, RangeIn DEF tried
  <2>2. x \in Range(K)
    BY <1>8, <2>1, KeptAll DEF K
  <2>3. PICK i \in 1..Len(K) : x = K[i]
    BY <1>5, <2>2, LenProperties DEF Range
  <2> QED BY <1>7, <2>1, <2>3
<1> QED BY <1>6, <1>8 DEF Good

\* A winner that breaks the controls leaves no fair strategy that bypassed.
LEMMA WinnerIsFair ==
    ASSUME cands \in Seq(DOMAIN Registry), Swept, NEW x \in Range(cands), Bypassed(x), Fair(x)
    PROVE  Winner(Ranking) \in DOMAIN Registry /\ Fair(Winner(Ranking))
<1> DEFINE r == Ranking
           I == {i \in 1..Len(r) : Bypassed(r[i])}
<1>1. r \in Seq(DOMAIN Registry) /\ FairFirst(r)
  BY RankingIn, RankingFair
<1>2. acc[x] # NoScore
  BY DEF Bypassed, NoScore
<1>3. x \in Range(r)
  BY <1>2, RankingFair
<1>4. SelectInSeq(r, Bypassed) = IF I # {} THEN Min(I) ELSE 0
  BY DEF SelectInSeq
<1> HIDE DEF r
<1>5. Len(r) \in Nat /\ DOMAIN r = 1..Len(r)
  BY <1>1, LenProperties
<1>6. PICK n \in 1..Len(r) : x = r[n]
  BY <1>3, <1>5 DEF Range
<1>7. n \in I
  BY <1>6
<1>8. I \in SUBSET (1..Len(r))
  OBVIOUS
<1> HIDE DEF I
<1>9. Min(I) \in I /\ Min(I) <= n
  BY <1>5, <1>7, <1>8, LowestOf
<1>10. Min(I) \in 1..Len(r) /\ I # {} /\ Min(I) # 0
  <2>1. Min(I) \in 1..Len(r) /\ I # {}
    BY <1>7, <1>8, <1>9
  <2>2. \A i \in 1..Len(r) : i # 0
    BY <1>5
  <2> QED BY <2>1, <2>2
<1>11. Winner(r) = r[Min(I)]
  BY <1>4, <1>10 DEF Winner
<1>12. Fair(r[Min(I)])
  <2>1. CASE Min(I) = n
    BY <1>6, <2>1
  <2>2. CASE Min(I) # n
    <3>1. Min(I) < n
      BY <1>5, <1>6, <1>9, <1>10, <2>2
    <3> QED BY <1>1, <1>6, <1>10, <3>1 DEF FairFirst
  <2> QED BY <2>1, <2>2
<1> QED BY <1>1, <1>10, <1>11, <1>12, ElementOfSeq DEF r

-----------------------------------------------------------------------------
(* Where the sweep is.                                                     *)

\* The initial states are at its start.
LEMMA SweptInit == ASSUME TuneInit PROVE Swept
<1>1. job.outages \in Nat
  BY JobsAssumption DEF TuneInit, JobType
<1>2. outages \in Nat /\ outages <= job.outages
  BY <1>1 DEF TuneInit
<1>3. rep \in Nat \ {0} /\ ci \in Nat \ {0} /\ rep = 1 /\ ci = 1
  BY DEF TuneInit
<1>4. outages = job.outages => up = TRUE
  BY ZenonT(30) DEF TuneInit
<1>5. \A s \in DOMAIN Registry : acc[s].ct \in Nat /\ acc[s].cp \in Nat
  BY DEF TuneInit, NoScore
<1>6. report.end = "written" => at = "done"
  BY DEF TuneInit, NoReport
<1> QED BY <1>2, <1>3, <1>4, <1>5, <1>6 DEF Swept

\* Stopping says why.
LEMMA StopSays == ASSUME Shape PROVE \A why : Stop(why) => at' = "done" /\ report'.end = why
<1> QED BY DEF Shape, Entire, Stop

\* Every step keeps count.
LEMMA SweptStep == ASSUME Shape, Swept, TuneNext PROVE Swept'
<1>0. job' = job
  BY JobStep
<1>a. \A why : Stop(why) => at' = "done" /\ report'.end = why
  BY StopSays
<1>1. /\ rep' \in Nat \ {0} /\ ci' \in Nat \ {0}
      /\ at' \in {"preflight", "baseline", "classify"} => rep' = 1 /\ ci' = 1
  <2>1. /\ rep \in Nat \ {0} /\ ci \in Nat \ {0}
        /\ at \in {"preflight", "baseline", "classify"} => rep = 1 /\ ci = 1
    BY DEF Swept
  <2>2. CASE Preflight
    BY <1>a, <2>1, <2>2 DEF Preflight, sweep
  <2>3. CASE BaselineEnds
    BY <1>a, <2>1, <2>3 DEF BaselineEnds
  <2>4. CASE Classify
    BY <1>a, <2>1, <2>4 DEF Classify
  <2>5. CASE NextCandidate
    BY <2>1, <2>5 DEF NextCandidate, Advance
  <2>6. CASE RoundEnds
    BY <2>1, <2>6 DEF RoundEnds, Advance
  <2>7. CASE Baseline \/ Trial
    BY <2>1, <2>7 DEF Baseline, Trial, sweep
  <2>8. CASE SweepEnds \/ Rank \/ Decide
    BY <1>a, <2>1, <2>8 DEF SweepEnds, Rank, Decide, sweep
  <2>9. CASE CreateTemp \/ WriteTemp \/ Rename \/ Crash
    BY <1>a, <2>1, <2>9 DEF CreateTemp, WriteTemp, Rename, Crash, sweep
  <2>10. CASE Weather \/ Interrupt \/ Done
    BY <2>1, <2>10 DEF Weather, Interrupt, Done, tuneVars, sweep
  <2> QED BY <2>2, <2>3, <2>4, <2>5, <2>6, <2>7, <2>8, <2>9, <2>10 DEF TuneNext, Work
<1>2. outages' \in Nat /\ outages' <= job.outages /\ (outages' = job.outages => up' = TRUE)
  <2>1. /\ outages \in Nat /\ outages <= job.outages /\ (outages = job.outages => up = TRUE)
        /\ job.outages \in Nat
    BY JobsAssumption DEF Swept, Shape, JobType
  <2>2. CASE Weather
    <3>1. outages' = outages - 1 /\ outages > 0
      BY <2>2 DEF Weather
    <3>2. outages' \in Nat /\ outages' < job.outages
      BY <2>1, <3>1
    <3> QED BY <2>1, <3>2
  <2>3. ASSUME ~Weather PROVE outages' = outages /\ up' = up
    <3>1. CASE Preflight \/ Baseline \/ BaselineEnds \/ Classify
      BY <3>1 DEF Preflight, Baseline, BaselineEnds, Classify, noise
    <3>2. CASE NextCandidate \/ Trial \/ RoundEnds \/ SweepEnds \/ Rank \/ Decide
      BY <3>2 DEF NextCandidate, Trial, RoundEnds, SweepEnds, Rank, Decide, noise
    <3>3. CASE CreateTemp \/ WriteTemp \/ Rename \/ Interrupt \/ Crash \/ Done
      BY <3>3 DEF CreateTemp, WriteTemp, Rename, Interrupt, Crash, Done, tuneVars, noise
    <3> QED BY <2>3, <3>1, <3>2, <3>3 DEF TuneNext, Work
  <2>4. CASE outages' = outages /\ up' = up
    BY <2>1, <2>4
  <2> QED BY <2>2, <2>3, <2>4
<1>3. \A s \in DOMAIN Registry : acc'[s].ct \in Nat /\ acc'[s].cp \in Nat
  <2>1. \A s \in DOMAIN Registry : s \in DOMAIN acc /\ acc[s].ct \in Nat /\ acc[s].cp \in Nat
    BY DEF Swept, Shape
  <2>2. CASE RoundEnds
    <3>1. round # <<>> /\ (acc' = acc \/ acc' = [acc EXCEPT ![Cand] = Scored(acc[Cand])])
      BY <2>2 DEF RoundEnds, Running
    <3>2. ASSUME NEW s \in DOMAIN Registry PROVE acc'[s].ct \in Nat /\ acc'[s].cp \in Nat
      <4>1. acc'[s] = acc[s] \/ acc'[s] = Scored(acc[s])
        BY <2>1, <3>1
      <4>2. Scored(acc[s]).ct \in Nat /\ Scored(acc[s]).cp \in Nat
        BY <2>1, <3>1, ScoredCounts
      <4> QED BY <2>1, <4>1, <4>2
    <3> QED BY <3>2
  <2>3. ASSUME ~RoundEnds PROVE acc' = acc
    <3>1. CASE Preflight \/ Baseline \/ BaselineEnds \/ Classify
      BY <3>1 DEF Preflight, Baseline, BaselineEnds, Classify, sweep
    <3>2. CASE NextCandidate \/ Trial \/ SweepEnds \/ Rank \/ Decide
      BY <3>2 DEF NextCandidate, Trial, SweepEnds, Rank, Decide, sweep
    <3>3. CASE CreateTemp \/ WriteTemp \/ Rename \/ Weather \/ Interrupt \/ Crash \/ Done
      BY <3>3 DEF CreateTemp, WriteTemp, Rename, Weather, Interrupt, Crash, Done, tuneVars, sweep
    <3> QED BY <2>3, <3>1, <3>2, <3>3 DEF TuneNext, Work
  <2> QED BY <2>1, <2>2, <2>3
<1>4. report'.end = "written" => at' = "done"
  <2>1. report.end = "written" => at = "done"
    BY DEF Swept
  <2>2. CASE Preflight \/ BaselineEnds \/ Classify
    BY <1>a, <2>1, <2>2 DEF Preflight, BaselineEnds, Classify
  <2>3. CASE Baseline \/ Trial \/ RoundEnds \/ SweepEnds
    BY <2>1, <2>3 DEF Baseline, Trial, RoundEnds, SweepEnds
  <2>4. CASE NextCandidate
    BY <2>1, <2>4 DEF NextCandidate, Shape, Entire
  <2>5. CASE Rank
    <3>1. report'.end = report.end
      BY <2>5, RankingIn DEF Rank, Shape, Entire
    <3> QED BY <2>1, <2>5, <3>1 DEF Rank
  <2>6. CASE Decide
    BY <1>a, <2>1, <2>6 DEF Decide, Shape, Entire
  <2>7. CASE CreateTemp \/ WriteTemp \/ Rename \/ Crash
    BY <1>a, <2>1, <2>7 DEF CreateTemp, WriteTemp, Rename, Crash
  <2>8. CASE Weather \/ Interrupt \/ Done
    BY <2>1, <2>8 DEF Weather, Interrupt, Done, tuneVars
  <2> QED BY <2>2, <2>3, <2>4, <2>5, <2>6, <2>7, <2>8 DEF TuneNext, Work
<1> QED BY <1>0, <1>1, <1>2, <1>3, <1>4 DEF Swept

-----------------------------------------------------------------------------
(* What the controls tell.                                                 *)

\* The parts of Counted: the scores, those passed by, the end, and the winner.
Told(s) == /\ Harmful(s) => acc[s].cp = 0 /\ (acc[s].ct > 0 \/ acc[s].bt = 0)
                            /\ (s \in elim => acc[s].ct > 0)
           /\ Harmless(s) => acc[s].cp > 0 \/ acc[s].bp = 0
PassedBy(k) == (rep > 1 \/ k < ci) /\ Harmful(cands[k]) => acc[cands[k]].ct > 0
Preferred == \A s \in Range(cands) : Harmful(s) /\ report.winner = s =>
               \A x \in Range(cands) : Bypassed(x) => "control" \in Registry[x].breaks
LEMMA CountedIs ==
    Counted <=>
      (Calm /\ ControlsReached =>
         /\ \A s \in DOMAIN Registry : Told(s)
         /\ outages = job.outages => \A k \in 1..Len(cands) : PassedBy(k)
         /\ ~May("budget") /\ Over => rep > Reps
         /\ Ranked => Preferred)
<1> QED BY DEF Counted, Told, PassedBy, Preferred

\* What the job decides of the line.
LEMMA ReachedStays ==
    ASSUME job' = job
    PROVE  /\ ControlsReached' <=> ControlsReached
           /\ May("budget")' <=> May("budget")
           /\ Reps' = Reps
<1>1. Controls' = Controls /\ \A i : T(i)' = T(i)
  BY JobStays
<1>2. \A i : RunTrial("plain", T(i), FALSE)' = RunTrial("plain", T(i), FALSE)
  BY <1>1 DEF RunTrial, ClassifyHandshake, IsSinkhole, Emits
<1> QED BY <1>1, <1>2 DEF ControlsReached, May, Reps

\* Nothing is scored at first, and nobody is passed by.
LEMMA CountedInit == ASSUME TuneInit PROVE Counted
<1>1. \A s \in DOMAIN Registry : Told(s)
  BY DEF TuneInit, NoScore, Told
<1>2. \A k \in 1..Len(cands) : PassedBy(k)
  BY DEF TuneInit, PassedBy
<1>3. ~Over /\ ~Ranked
  BY DEF TuneInit, NoReport, Over, Ranked
<1> QED BY <1>1, <1>2, <1>3, CountedIs

\* What Counted is about, when a step leaves it alone.
LEMMA CountedStays ==
    ASSUME Shape, Counted, TuneNext, acc' = acc, elim' = elim, cands' = cands,
           outages' = outages, rep' = rep, ci' = ci,
           Over' => Over, Ranked' => Ranked /\ report'.winner = report.winner
    PROVE  Counted'
<1> SUFFICES ASSUME Calm', ControlsReached' PROVE Counted'
  BY DEF Counted
<1>1. job' = job /\ Calm /\ ControlsReached /\ (May("budget")' <=> May("budget")) /\ Reps' = Reps
  BY JobStep, CalmStep, ReachedStays
<1>2. /\ \A s \in DOMAIN Registry : Told(s)
      /\ outages = job.outages => \A k \in 1..Len(cands) : PassedBy(k)
      /\ ~May("budget") /\ Over => rep > Reps
      /\ Ranked => Preferred
  BY <1>1, CountedIs
<1>3. \A s \in DOMAIN Registry :
        /\ Harmful(s) => acc'[s].cp = 0 /\ (acc'[s].ct > 0 \/ acc'[s].bt = 0)
                         /\ (s \in elim' => acc'[s].ct > 0)
        /\ Harmless(s) => acc'[s].cp > 0 \/ acc'[s].bp = 0
  BY <1>2 DEF Told
<1>4. outages' = job'.outages => \A k \in 1..Len(cands') :
         (rep' > 1 \/ k < ci') /\ Harmful(cands'[k]) => acc'[cands'[k]].ct > 0
  BY <1>1, <1>2 DEF PassedBy
<1>5. ~May("budget")' /\ Over' => rep' > Reps'
  BY <1>1, <1>2
<1>6. Ranked' => \A s \in Range(cands') : Harmful(s) /\ report'.winner = s =>
         \A x \in Range(cands') : Bypassed(x)' => "control" \in Registry[x].breaks
  BY <1>2, BypassedStays DEF Preferred
<1> QED BY <1>3, <1>4, <1>5, <1>6 DEF Counted, Harmful, Harmless

\* A sweep that is under way or about to be is not over.
LEMMA NotOver ==
    ASSUME Swept', at' \in {"baseline", "classify", "sweep"}
    PROVE  ~Over' /\ ~Ranked'
<1> QED BY DEF Swept, Over, Ranked

\* Nor is one that stopped short of the profile.
LEMMA StoppedShort ==
    ASSUME Shape, NEW why, why # "written", Stop(why)
    PROVE  ~Over' /\ ~Ranked'
<1> QED BY StopSays DEF Over, Ranked

\* In a round that was scored, the candidate's controls told.
LEMMA ToldByRound ==
    ASSUME Shape, Swept, Blameless, Calm, ControlsReached, round # <<>>, Live,
           \A j \in DOMAIN round : round[j] # Pending,
           NEW s \in DOMAIN Registry, s = Cand, Told(s)
    PROVE  /\ Harmful(s) => Scored(acc[s]).cp = 0 /\ Scored(acc[s]).ct > 0
           /\ Harmless(s) => Scored(acc[s]).cp > 0
<1>1. acc[s].ct \in Nat /\ acc[s].cp \in Nat
  BY DEF Swept
<1>2. /\ Harmful(Cand) => Scored(acc[s]).ct > 0 /\ Scored(acc[s]).cp = acc[s].cp
      /\ Harmless(Cand) => Scored(acc[s]).cp > 0
  BY <1>1, ScoredTells
<1>3. Harmful(s) => acc[s].cp = 0
  BY DEF Told
<1> QED BY <1>2, <1>3

\* A candidate that is left behind was tried, if the line stayed up.
LEMMA AdvancePasses ==
    ASSUME Swept, Advance, NEW k \in 1..Len(cands), Len(cands) \in Nat,
           rep' > 1 \/ k < ci'
    PROVE  k = ci \/ rep > 1 \/ k < ci
<1>1. rep \in Nat \ {0} /\ ci \in Nat \ {0} /\ k \in Nat
  BY DEF Swept
<1>2. CASE ci < Len(cands)
  BY <1>1, <1>2 DEF Advance
<1>3. CASE ~(ci < Len(cands))
  BY <1>1, <1>3
<1> QED BY <1>2, <1>3

\* Every step keeps what the controls tell.
LEMMA CountedStep ==
    ASSUME Shape, Swept, Evidence, Blameless, Counted, TuneNext
    PROVE  Counted'
<1> SUFFICES ASSUME Calm', ControlsReached' PROVE Counted'
  BY DEF Counted
<1>a. job' = job /\ Calm /\ ControlsReached /\ (May("budget")' <=> May("budget")) /\ Reps' = Reps
  BY JobStep, CalmStep, ReachedStays
<1>b. /\ \A s \in DOMAIN Registry : Told(s)
      /\ outages = job.outages => \A k \in 1..Len(cands) : PassedBy(k)
      /\ ~May("budget") /\ Over => rep > Reps
      /\ Ranked => Preferred
  BY <1>a, CountedIs
<1>c. Swept'
  BY SweptStep
<1>d. \A s : (Harmful(s)' <=> Harmful(s)) /\ (Harmless(s)' <=> Harmless(s))
  BY DEF Harmful, Harmless
<1>e. cands \in Seq(DOMAIN Registry) /\ Len(cands) \in Nat
      /\ \A k \in 1..Len(cands) : cands[k] \in DOMAIN Registry
  <2>1. cands \in Seq(DOMAIN Registry)
    BY DEF Shape
  <2> QED BY <2>1, LenProperties, ElementOfSeq
<1>f. ~cancelled /\ ~cancelled'
  BY <1>a DEF Calm
<1>1. CASE Preflight
  <2>1. Over' => Over
    BY <1>1, <1>c, NotOver, StoppedShort DEF Preflight
  <2>2. ~Ranked'
    BY <1>1, <1>c, NotOver, StoppedShort DEF Preflight
  <2> QED BY <1>1, <2>1, <2>2, CountedStays DEF Preflight, noise, sweep
<1>2. CASE Baseline \/ Trial
  <2>1. ~Over' /\ ~Ranked'
    BY <1>2, <1>c, NotOver DEF Baseline, Trial
  <2> QED BY <1>2, <2>1, CountedStays DEF Baseline, Trial, sweep
<1>3. CASE BaselineEnds \/ Classify
  <2>1. ~Over' /\ ~Ranked'
    BY <1>3, <1>c, NotOver, StoppedShort DEF BaselineEnds, Classify
  <2>2. acc' = acc /\ elim' = elim /\ rep' = rep /\ ci' = ci
    BY <1>3 DEF BaselineEnds, Classify
  <2>3. rep = 1 /\ ci = 1
    BY <1>3 DEF BaselineEnds, Classify, Swept
  <2>4. \A k \in 1..Len(cands') : ~(rep' > 1 \/ k < ci')
    BY <2>2, <2>3
  <2>5. \A s \in DOMAIN Registry : Told(s)'
    BY <1>b, <1>d, <2>2 DEF Told
  <2> QED BY <2>1, <2>4, <2>5 DEF Counted, Told
<1>4. CASE NextCandidate
  <2>1. acc' = acc /\ elim' = elim /\ cands' = cands /\ outages' = outages
    BY <1>4 DEF NextCandidate, noise
  <2>2. \A s \in DOMAIN Registry : Told(s)'
    BY <1>b, <1>d, <2>1 DEF Told
  <2>3. ~Ranked' /\ (Over' => May("budget"))
    <3>1. at' = "sweep" \/ (May("budget") /\ at' = "rank")
      BY <1>4, <1>f DEF NextCandidate
    <3>2. report'.end # "written"
      BY <1>c, <3>1 DEF Swept
    <3> QED BY <3>1, <3>2 DEF Over, Ranked
  <2>4. ASSUME outages' = job'.outages, NEW k \in 1..Len(cands'), rep' > 1 \/ k < ci',
               Harmful(cands'[k])
        PROVE  acc'[cands'[k]].ct > 0
    <3>1. k \in 1..Len(cands) /\ PassedBy(k) /\ Harmful(cands[k])
      BY <1>a, <1>b, <2>1, <2>4
    <3>2. CASE rep' = rep /\ ci' = ci
      BY <2>1, <2>4, <3>1, <3>2 DEF PassedBy
    <3>3. CASE Cand \in elim /\ Advance
      <4>1. k = ci \/ rep > 1 \/ k < ci
        BY <1>e, <2>4, <3>1, <3>3, AdvancePasses
      <4>2. CASE k = ci
        <5>1. cands[k] = Cand /\ cands[k] \in DOMAIN Registry
          BY <1>e, <3>1, <4>2 DEF Cand
        <5>2. Told(cands[k])
          BY <1>b, <5>1
        <5> QED BY <2>1, <3>1, <3>3, <5>1, <5>2 DEF Told
      <4>3. CASE rep > 1 \/ k < ci
        BY <2>1, <3>1, <4>3 DEF PassedBy
      <4> QED BY <4>1, <4>2, <4>3
    <3> QED BY <1>4, <1>f, <3>2, <3>3 DEF NextCandidate
  <2> QED BY <1>a, <2>2, <2>3, <2>4 DEF Counted, Told
<1>5. CASE RoundEnds
  <2>1. /\ cands' = cands /\ outages' = outages /\ at = "sweep" /\ at' = "sweep" /\ round # <<>>
        /\ \A j \in DOMAIN round : round[j] # Pending
    BY <1>5 DEF RoundEnds, Running, noise
  <2>2. ~Over' /\ ~Ranked'
    BY <1>c, <2>1, NotOver
  <2>3. \/ /\ Live /\ Advance
           /\ acc' = [acc EXCEPT ![Cand] = Scored(acc[Cand])]
           /\ elim' = (IF Eliminated(acc'[Cand]) THEN elim \cup {Cand} ELSE elim)
        \/ /\ ~Live /\ acc' = acc /\ elim' = elim
           /\ Advance \/ (rep' = rep /\ ci' = ci)
    BY <1>5 DEF RoundEnds
  <2>4. ASSUME NEW s \in DOMAIN Registry
        PROVE  /\ Harmful(s) => acc'[s].cp = 0 /\ (acc'[s].ct > 0 \/ acc'[s].bt = 0)
                                /\ (s \in elim' => acc'[s].ct > 0)
               /\ Harmless(s) => acc'[s].cp > 0 \/ acc'[s].bp = 0
               /\ acc'[s] # acc[s] => Live /\ s = Cand
               /\ Live /\ s = Cand /\ Harmful(s) => acc'[s].ct > 0
    <3>1. Told(s) /\ s \in DOMAIN acc
      BY <1>b DEF Shape
    <3>2. CASE Live /\ s = Cand
      <4>1. acc'[s] = Scored(acc[s])
        BY <2>3, <3>1, <3>2
      <4>2. /\ Harmful(s) => Scored(acc[s]).cp = 0 /\ Scored(acc[s]).ct > 0
            /\ Harmless(s) => Scored(acc[s]).cp > 0
        BY <1>a, <2>1, <3>1, <3>2, ToldByRound
      <4> QED BY <3>2, <4>1, <4>2
    <3>3. CASE ~(Live /\ s = Cand)
      <4>1. acc'[s] = acc[s] /\ (s \in elim' => s \in elim)
        BY <2>3, <3>1, <3>3
      <4> QED BY <3>1, <3>3, <4>1 DEF Told
    <3> QED BY <3>2, <3>3
  <2>5. ASSUME outages' = job'.outages, NEW k \in 1..Len(cands'), rep' > 1 \/ k < ci',
               Harmful(cands'[k])
        PROVE  acc'[cands'[k]].ct > 0
    <3>1. k \in 1..Len(cands) /\ PassedBy(k) /\ Harmful(cands[k]) /\ outages = job.outages
      BY <1>a, <1>b, <2>1, <2>5
    <3>2. Live
      <4>1. up
        BY <3>1 DEF Swept
      <4>2. 0 \in DOMAIN round
        BY <1>a, <2>1 DEF Shape, RoundJobs, Calm
      <4>3. round[0] = RunTrial("plain", T(Controls[1]), ~up)
        BY <1>a, <2>1, <4>2 DEF Blameless, AsTheLineIs
      <4>4. RunTrial("plain", T(Controls[1]), FALSE) = "pass"
        <5>1. /\ Controls \in Seq({i \in DOMAIN job.targets : T(i).kind = "control"})
              /\ Controls # <<>>
          BY <1>a, OfKindIn DEF Controls, Shape, Calm
        <5>2. Controls[1] \in Range(Controls)
          BY <5>1, EmptySeq, LenProperties DEF Range
        <5> QED BY <1>a, <5>2 DEF ControlsReached
      <4>5. round[0] = "pass"
        BY <4>1, <4>3, <4>4
      <4> QED BY <4>2, <4>5 DEF Live
    <3>3. Advance
      BY <2>3, <3>2
    <3>4. k = ci \/ rep > 1 \/ k < ci
      BY <1>e, <2>5, <3>1, <3>3, AdvancePasses
    <3>5. cands[k] \in DOMAIN Registry
      BY <1>e, <3>1
    <3>6. CASE k = ci
      BY <2>1, <2>4, <3>1, <3>2, <3>5, <3>6 DEF Cand
    <3>7. CASE rep > 1 \/ k < ci
      <4>1. acc[cands[k]].ct > 0
        BY <3>1, <3>7 DEF PassedBy
      <4>2. CASE acc'[cands[k]] = acc[cands[k]]
        BY <2>1, <4>1, <4>2
      <4>3. CASE Live /\ cands[k] = Cand
        BY <2>1, <2>4, <3>1, <3>5, <4>3
      <4> QED BY <2>4, <3>5, <4>2, <4>3
    <3> QED BY <3>4, <3>6, <3>7
  <2> QED BY <1>d, <2>2, <2>4, <2>5 DEF Counted
<1>6. CASE SweepEnds
  <2>1. acc' = acc /\ elim' = elim /\ cands' = cands /\ outages' = outages /\ rep' = rep /\ ci' = ci
    BY <1>6 DEF SweepEnds, sweep, noise
  <2>2. rep' > Reps' /\ ~Ranked'
    <3>1. report'.end # "written" /\ at' = "rank"
      BY <1>6, <1>c DEF SweepEnds, Swept
    <3> QED BY <1>6, <1>a, <2>1, <3>1 DEF SweepEnds, Ranked
  <2>3. \A s \in DOMAIN Registry : Told(s)'
    BY <1>b, <1>d, <2>1 DEF Told
  <2>4. outages' = job'.outages => \A k \in 1..Len(cands') :
         (rep' > 1 \/ k < ci') /\ Harmful(cands'[k]) => acc'[cands'[k]].ct > 0
    BY <1>a, <1>b, <2>1 DEF PassedBy
  <2> QED BY <1>d, <2>2, <2>3, <2>4 DEF Counted, Told
<1>7. CASE Rank
  <2>1. /\ acc' = acc /\ elim' = elim /\ cands' = cands /\ outages' = outages
        /\ rep' = rep /\ ci' = ci /\ Over
    BY <1>7 DEF Rank, sweep, noise, Over
  <2>2. \A s \in DOMAIN Registry : Told(s)'
    BY <1>b, <1>d, <2>1 DEF Told
  <2>3. outages' = job'.outages => \A k \in 1..Len(cands') :
         (rep' > 1 \/ k < ci') /\ Harmful(cands'[k]) => acc'[cands'[k]].ct > 0
    BY <1>a, <1>b, <2>1 DEF PassedBy
  <2>4. ~May("budget")' => rep' > Reps'
    BY <1>a, <1>b, <2>1
  <2>5. report'.winner = Winner(Ranking)
    BY <1>7, <1>e, RankingIn DEF Rank, Shape, Entire
  <2>6. ASSUME NEW s \in Range(cands), Harmful(s), report'.winner = s,
               NEW x \in Range(cands), Bypassed(x), "control" \notin Registry[x].breaks
        PROVE  FALSE
    <3>1. s \in DOMAIN Registry /\ x \in DOMAIN Registry
      BY <1>e, RangeIn
    <3>2. acc[x].bt > 0 /\ acc[x].bp > 0
      BY <2>6 DEF Bypassed
    <3>3. acc[x].bp # 0
      BY <3>2
    <3>4. Registry[x].works /\ Registry[x].builds
      <4>1. job.loss <= 1
        BY <1>a DEF Calm
      <4> QED BY <3>1, <3>3, <4>1 DEF Evidence
    <3>5. Harmless(x)
      BY <2>6, <3>4 DEF Harmless
    <3>6. acc[x].cp > 0
      BY <1>b, <3>1, <3>3, <3>5 DEF Told
    <3>7. Fair(x)
      BY <3>2, <3>6 DEF Fair
    <3>8. Fair(s)
      BY <1>e, <2>5, <2>6, <3>7, WinnerIsFair
    <3>9. acc[s].cp = 0 /\ (acc[s].ct > 0 \/ acc[s].bt = 0)
      BY <1>b, <2>6, <3>1 DEF Told
    <3> QED BY <3>8, <3>9 DEF Fair
  <2>7. \A s \in Range(cands') : Harmful(s) /\ report'.winner = s =>
          \A x \in Range(cands') : Bypassed(x)' => "control" \in Registry[x].breaks
    BY <2>1, <2>6, BypassedStays
  <2> QED BY <1>d, <2>2, <2>3, <2>4, <2>7 DEF Counted, Told
<1>8. CASE Decide
  <2>1. /\ acc' = acc /\ elim' = elim /\ cands' = cands /\ outages' = outages
        /\ rep' = rep /\ ci' = ci /\ Over /\ Ranked
    BY <1>8 DEF Decide, sweep, noise, Over, Ranked
  <2>2. report'.winner = report.winner
    BY <1>8, StopIs DEF Decide, Shape, Entire, Concurs
  <2> QED BY <2>1, <2>2, CountedStays
<1>9. CASE CreateTemp \/ WriteTemp \/ Rename \/ Crash
  <2>1. /\ acc' = acc /\ elim' = elim /\ cands' = cands /\ outages' = outages
        /\ rep' = rep /\ ci' = ci /\ Over /\ Ranked
    BY <1>9 DEF CreateTemp, WriteTemp, Rename, Crash, sweep, noise, Over, Ranked
  <2>2. report'.winner = report.winner
    BY <1>9, StopIs DEF CreateTemp, WriteTemp, Rename, Crash, Concurs
  <2> QED BY <2>1, <2>2, CountedStays
<1>10. CASE Weather
  <2>1. /\ acc' = acc /\ elim' = elim /\ cands' = cands /\ outages' = outages - 1
        /\ rep' = rep /\ ci' = ci /\ at' = at /\ report' = report /\ at = "sweep"
    BY <1>10 DEF Weather, sweep
  <2>2. ~Over' /\ ~Ranked'
    BY <1>c, <2>1, NotOver
  <2>3. outages' # job'.outages
    <3>1. outages \in Nat /\ outages <= job.outages /\ job.outages \in Nat
      BY JobsAssumption DEF Swept, Shape, JobType
    <3> QED BY <1>a, <2>1, <3>1
  <2>4. \A s \in DOMAIN Registry : Told(s)'
    BY <1>b, <1>d, <2>1 DEF Told
  <2> QED BY <1>d, <2>2, <2>3, <2>4 DEF Counted, Told
<1>11. CASE Interrupt
  BY <1>11, <1>f DEF Interrupt
<1>12. CASE Done
  BY <1>12, CountedStays DEF Done, tuneVars, Over, Ranked
<1> QED BY <1>1, <1>2, <1>3, <1>4, <1>5, <1>6, <1>7, <1>8, <1>9, <1>10, <1>11, <1>12
        DEF TuneNext, Work

-----------------------------------------------------------------------------
(* The theorems.                                                           *)

\* The invariant is inductive.
LEMMA TuneInductive == TuneSpec => []TuneInv
<1>1. TuneInit => TuneInv
  <2> SUFFICES ASSUME TuneInit PROVE TuneInv
    OBVIOUS
  <2>1. Saved /\ Concluded
    BY DEF TuneInit, Saved, ProfileIsWhole, Concluded, NoReport
  <2> QED BY <2>1, ShapeInit, EvidenceInit, BlamelessInit, SweptInit, CountedInit
       DEF TuneInv
<1>2. TuneInv /\ [TuneNext]_tuneVars => TuneInv'
  <2> SUFFICES ASSUME TuneInv, [TuneNext]_tuneVars PROVE TuneInv'
    OBVIOUS
  <2>1. CASE TuneNext
    BY <2>1, ShapeStep, SavedStep, EvidenceStep, ConcludedStep, BlamelessStep, SweptStep,
       CountedStep DEF TuneInv
  <2>2. CASE UNCHANGED tuneVars
    <3> USE <2>2 DEF tuneVars
    <3>1. /\ \A i : T(i)' = T(i)
          /\ BlockedOnes' = BlockedOnes /\ RoundJobs' = RoundJobs /\ Controls' = Controls
          /\ Asked' = Asked /\ Cand' = Cand
      BY JobStays DEF Cand
    <3>2. Shape'
      BY <3>1 DEF TuneInv, Shape, Entire
    <3>3. Saved'
      BY <3>1 DEF TuneInv, Saved, ProfileIsWhole, Profile, Tuned, Applied
    <3>4. /\ \A i : RunTrial("plain", T(i), FALSE)' = RunTrial("plain", T(i), FALSE)
          /\ \A i : RunTrial(Cand, T(i), FALSE)' = RunTrial(Cand, T(i), FALSE)
          /\ \A i : RunTrial(Cand, T(i), ~up)' = RunTrial(Cand, T(i), ~up)
          /\ RunTrial("plain", T(Controls[1]), ~up)' = RunTrial("plain", T(Controls[1]), ~up)
      <4>1. T(Controls[1])' = T(Controls[1])
        BY <3>1 DEF T
      <4> QED BY <3>1, <4>1 DEF RunTrial, ClassifyHandshake, IsSinkhole, Emits
    <3>5. Evidence'
      BY <3>1, <3>4 DEF TuneInv, Evidence
    <3>6. Concluded'
      BY BypassedStays DEF TuneInv, Concluded
    <3>7. Blameless'
      BY <3>1, <3>4 DEF TuneInv, Blameless, Calm, AsTheLineIs, CleanTally, IsSinkhole
    <3>8. Swept'
      BY DEF TuneInv, Swept
    <3>9. Counted'
      <4>1. /\ ControlsReached' <=> ControlsReached
            /\ May("budget")' <=> May("budget")
            /\ Reps' = Reps
        BY ReachedStays
      <4>2. Calm' <=> Calm
        BY <3>1 DEF Calm
      <4>3. (Over' <=> Over) /\ (Ranked' <=> Ranked)
        BY DEF Over, Ranked
      <4>4. \A s : Bypassed(s)' <=> Bypassed(s)
        BY BypassedStays
      <4> QED BY <4>1, <4>2, <4>3, <4>4 DEF TuneInv, Counted, Harmful, Harmless
    <3> QED BY <3>2, <3>3, <3>5, <3>6, <3>7, <3>8, <3>9 DEF TuneInv
  <2> QED BY <2>1, <2>2
<1> QED BY <1>1, <1>2, PTL DEF TuneSpec

\* A strategy recorded as working beats the censor, but for two attempts lost
\* (Evaluate, Rank and BestBypass over a baseline that asks every target twice).
THEOREM WinnersWork == TuneSpec => []NoInventedWinner
<1>1. TuneInv => NoInventedWinner
  BY DEF TuneInv, Evidence, Concluded, Bypassed, NoInventedWinner
<1> QED BY <1>1, TuneInductive, PTL

\* An outage is nobody's failure: the plain control of a round tells of it.
THEOREM WeatherIsNobodys == TuneSpec => []WeatherIsNotBlame
<1>1. TuneInv => WeatherIsNotBlame
  BY DEF TuneInv, Blameless, Calm, CleanTally, WeatherIsNotBlame
<1> QED BY <1>1, TuneInductive, PTL

\* A written profile knows of the harm: the controls that a strategy breaks
\* are counted against it, and one that breaks none is preferred to it.
THEOREM HarmShows == TuneSpec => []HarmIsSeen
<1>1. ASSUME TuneInv PROVE HarmIsSeen
  <2> SUFFICES ASSUME report.end = "written", job.loss = 0, ~May("budget"), ~cancelled,
                      Controls # <<>>, ControlsReached,
                      NEW s \in Range(cands), Registry[s].builds,
                      "control" \in Registry[s].breaks
               PROVE  /\ outages = job.outages => acc[s].ct > 0 /\ acc[s].cp = 0
                      /\ report.winner = s =>
                           \A x \in Range(cands) :
                             Bypassed(x) => "control" \in Registry[x].breaks
    BY DEF HarmIsSeen
  <2>1. Calm /\ Over /\ Ranked /\ Harmful(s)
    BY DEF Calm, Over, Ranked, Harmful
  <2>2. /\ \A y \in DOMAIN Registry : Told(y)
        /\ outages = job.outages => \A k \in 1..Len(cands) : PassedBy(k)
        /\ ~May("budget") /\ Over => rep > Reps
        /\ Ranked => Preferred
    BY <1>1, <2>1, CountedIs DEF TuneInv
  <2>3. s \in DOMAIN Registry
    BY <1>1, RangeIn DEF TuneInv, Shape
  <2>4. rep > 1
    <3>1. rep > Reps /\ rep \in Nat
      BY <1>1, <2>1, <2>2 DEF TuneInv, Swept
    <3>2. Reps \in Nat \ {0}
      BY <1>1, JobsAssumption, BoundsAreNumbers DEF TuneInv, Shape, JobType, Reps
    <3> QED BY <3>1, <3>2
  <2>5. PICK k \in 1..Len(cands) : s = cands[k]
    BY <1>1, LenProperties DEF TuneInv, Shape, Range
  <2>6. acc[s].cp = 0
    BY <2>1, <2>2, <2>3 DEF Told
  <2>7. outages = job.outages => acc[s].ct > 0
    BY <2>1, <2>2, <2>4, <2>5 DEF PassedBy
  <2> QED BY <2>1, <2>2, <2>6, <2>7 DEF Preferred
<1> QED BY <1>1, TuneInductive, PTL

\* Whenever the process dies, the profile is whole.
THEOREM ProfilesAreWhole == TuneSpec => []ProfileIsWhole
<1>1. TuneInv => ProfileIsWhole
  BY DEF TuneInv, Saved
<1> QED BY <1>1, TuneInductive, PTL

-----------------------------------------------------------------------------
(* How the first message is laid out and sent.                              *)

\* The steps F of a recursion over a..n stay in X; g is what it computes.
StaysIn(X, F, a, n) == \A k \in a..n : k # a => \A x \in X : F[k][x] \in X
Recurses(g, X, base, F, a, n) ==
    /\ g = [k \in a..n |-> IF k = a THEN base ELSE F[k][g[k - 1]]]
    /\ \A k \in a..n : g[k] \in X

(* Recursion over an interval: it has a value at every step, in the set its *)
(* steps stay in.                                                          *)
LEMMA RecursionIs ==
    ASSUME NEW a \in Nat, NEW n \in Nat, a <= n, NEW X, NEW base \in X, NEW F,
           StaysIn(X, F, a, n)
    PROVE  \E g : Recurses(g, X, base, F, a, n)
<1>0. \A k \in a..n : k # a => \A x \in X : F[k][x] \in X
  BY DEF StaysIn
<1>f. PICK f : f = [x \in X |-> [k \in a..n |-> F[k][x]]]
  OBVIOUS
<1>s. PICK s : s = [j \in 1..n - a |-> a + j]
  OBVIOUS
<1>1. n - a \in Nat /\ Len(s) = n - a
  BY <1>s
<1>2. PICK g : /\ g[0] = base
               /\ \A k \in 1..n - a : g[k] = f[g[k - 1]][s[k]]
  <2>1. Len(s) \in Nat
    BY <1>1
  <2>2. \E g : /\ Folded(f, base, s) = g[Len(s)] /\ g[0] = base
               /\ \A k \in 1..Len(s) : g[k] = f[g[k - 1]][s[k]]
    BY <2>1, Partials
  <2> QED BY <1>1, <2>2
<1> DEFINE P == {k \in 0..n - a : g[k] \in X}
<1>3. ASSUME NEW k \in 1..n - a, g[k - 1] \in X
      PROVE  g[k] = F[a + k][g[k - 1]] /\ g[k] \in X
  <2>1. a + k \in a..n /\ a + k # a /\ s[k] = a + k
    BY <1>s
  <2>2. g[k] = f[g[k - 1]][a + k]
    BY <1>2, <2>1
  <2>3. f[g[k - 1]][a + k] = F[a + k][g[k - 1]]
    BY <1>f, <1>3, <2>1
  <2> QED BY <1>0, <1>3, <2>1, <2>2, <2>3
<1>4. 0..n - a \subseteq P
  <2>1. 0 \in P
    BY <1>1, <1>2
  <2>2. ASSUME NEW k \in 0..n - a, k \in P, k # n - a PROVE k + 1 \in P
    <3>1. k + 1 \in 1..n - a /\ (k + 1) - 1 = k /\ g[k] \in X /\ k + 1 \in 0..n - a
      BY <2>2, <1>1
    <3>2. g[k + 1] \in X
      BY <1>3, <3>1
    <3> QED BY <3>1, <3>2
  <2> HIDE DEF P
  <2> QED BY <1>1, <2>1, <2>2, Climb
<1>5. \A k \in 0..n - a : g[k] \in X
  BY <1>4
<1> HIDE DEF P
<1> DEFINE h == [k \in a..n |-> g[k - a]]
<1>6. ASSUME NEW k \in a..n
      PROVE  h[k] \in X /\ h[k] = IF k = a THEN base ELSE F[k][h[k - 1]]
  <2>1. k - a \in 0..n - a /\ h[k] = g[k - a]
    BY <1>1
  <2>2. CASE k = a
    BY <2>1, <2>2, <1>2, <1>5
  <2>3. CASE k # a
    <3>1. /\ k - 1 \in a..n /\ k - a \in 1..n - a /\ (k - 1) - a = (k - a) - 1
          /\ (k - a) - 1 \in 0..n - a /\ a + (k - a) = k
      BY <2>3
    <3>2. h[k - 1] = g[(k - a) - 1]
      BY <3>1
    <3>3. g[k - a] = F[k][g[(k - a) - 1]]
      BY <1>3, <1>5, <3>1
    <3> HIDE DEF h
    <3> QED BY <1>5, <2>1, <2>3, <3>2, <3>3
  <2> QED BY <2>2, <2>3
<1>7. h = [k \in a..n |-> IF k = a THEN base ELSE F[k][h[k - 1]]]
  <2>1. h = [k \in a..n |-> h[k]]
    OBVIOUS
  <2> HIDE DEF h
  <2> QED BY <1>6, <2>1
<1> HIDE DEF h
<1> QED BY <1>6, <1>7 DEF Recurses

(* What holds at the start of an interval and passes on holds on all of it. *)
LEMMA AllAlong ==
    ASSUME NEW a \in Nat, NEW n \in Nat, a <= n, NEW g, NEW X, g[a] \in X,
           \A k \in a + 1..n : g[k - 1] \in X => g[k] \in X
    PROVE  \A k \in a..n : g[k] \in X
<1> DEFINE P == {k \in 0..n - a : g[a + k] \in X}
<1>1. n - a \in Nat
  OBVIOUS
<1>2. 0 \in P
  BY a + 0 = a
<1>3. ASSUME NEW k \in 0..n - a, k \in P, k # n - a PROVE k + 1 \in P
  <2>1. /\ a + (k + 1) \in a + 1..n /\ (a + (k + 1)) - 1 = a + k /\ k + 1 \in 0..n - a
    BY <1>3
  <2>2. g[a + (k + 1)] \in X
    BY <1>3, <2>1
  <2> QED BY <2>1, <2>2
<1>4. 0..n - a \subseteq P
  <2> HIDE DEF P
  <2> QED BY <1>1, <1>2, <1>3, Climb
<1> TAKE k \in a..n
<1>5. k - a \in 0..n - a /\ a + (k - a) = k
  OBVIOUS
<1> QED BY <1>4, <1>5

(* A part of a sequence.                                                    *)
LEMMA PartOf ==
    ASSUME NEW X, NEW s \in Seq(X), NEW a \in Nat \ {0}, NEW e \in Int, e <= Len(s)
    PROVE  /\ SubSeq(s, a, e) \in Seq(X)
           /\ Len(SubSeq(s, a, e)) = IF a <= e THEN (e - a) + 1 ELSE 0
           /\ \A i \in 1..Len(SubSeq(s, a, e)) : SubSeq(s, a, e)[i] = s[(a + i) - 1]
<1>1. Len(s) \in Nat /\ \A i \in 1..Len(s) : s[i] \in X
  BY LenProperties, ElementOfSeq
<1>2. \A i \in a..e : s[i] \in X
  BY <1>1
<1>3. /\ SubSeq(s, a, e) \in Seq(X)
      /\ Len(SubSeq(s, a, e)) = IF a <= e THEN e - a + 1 ELSE 0
      /\ \A i \in 1..e - a + 1 : SubSeq(s, a, e)[i] = s[a + i - 1]
  BY <1>2, SubSeqProperties
<1>4. Len(SubSeq(s, a, e)) = IF a <= e THEN (e - a) + 1 ELSE 0
  BY <1>3
<1>5. ASSUME NEW i \in 1..Len(SubSeq(s, a, e)) PROVE SubSeq(s, a, e)[i] = s[(a + i) - 1]
  <2>1. i \in 1..e - a + 1
    BY <1>4
  <2> QED BY <1>3, <2>1
<1> QED BY <1>3, <1>4, <1>5

-----------------------------------------------------------------------------
(* The message and the builder.                                             *)

Protos  == {"tls", "http", "quic", "unknown"}
Metas   == [proto: Protos, complete: BOOLEAN, off: Nat, len: Nat,
            sni: Nat \X Nat, host: Nat \X Nat, label: Nat \X Nat]
Segment == [kind: {"stream", "oob", "decoy"}, data: Seq(Int), ttl: Int]
Means   == {"write", "nodelay", "oob", "datagram", "ttl"}
Builder == [payload: Seq(Int), meta: Metas, segs: Seq(Segment), caps: SUBSET Means,
            strict: BOOLEAN, reframed: BOOLEAN, bad: BOOLEAN]

\* A request keeps every byte of the client's, among those that were added.
Whole(m, payload) ==
    m.proto = "http" =>
        /\ \A k \in 1..m.have : \E i \in 1..Len(payload) : Magnitude(payload[i]) = k
        /\ \A i \in 1..Len(payload) : Magnitude(payload[i]) \in {Filler, Dot} \cup 1..m.have

\* The first record of a hello is the client's, or ends before its name does.
FirstRecord(m, b) ==
    IF b.reframed
    THEN ClientHelloSNI(m) # Nowhere =>
           \E c \in 1..m.name[2] - 1 :
               /\ RecHdr + c <= Len(b.payload) /\ b.payload[RecHdr] = LenByte + c
               /\ \A j \in 1..c : b.payload[RecHdr + j] = j
    ELSE b.payload = Bytes(m)

Decoys(segs, n) == \A k \in 1..n : segs[k].kind = "decoy"

\* A lowered hop limit is a decoy's or, where d allows it, that of one write that
\* is less than n bytes, with nothing but decoys before it.
Aimed(segs, n, d) ==
    \A i \in 1..Len(segs) : segs[i].ttl # 0 =>
        \/ segs[i].kind = "decoy"
        \/ d /\ Len(segs[i].data) < n /\ Decoys(segs, i - 1)

SoundBuilder(b, m, d) ==
    /\ b \in Builder
    /\ b.meta = Parse(m, b.payload)
    /\ Whole(m, b.payload)
    /\ m.proto = "tls" => FirstRecord(m, b)
    /\ Aimed(b.segs, Len(b.payload), d)

GoodMessage(m) == m \in Message /\ WithinBody(m)

(* Where a name is found, it is in the payload.                             *)
LEMMA ExtentIs ==
    ASSUME NEW m, GoodMessage(m), m.proto = "http", NEW payload \in Seq(Int), Whole(m, payload),
           NEW e \in {m.name, m.label}
    PROVE  /\ Extent(payload, e) \in Nat \X Nat
           /\ Extent(payload, e)[1] \in 0..Len(payload)
           /\ Extent(payload, e)[2] \in 0..Len(payload)
<1>1. /\ m.body \in Nat /\ m.have \in Nat /\ e \in Nat \X Nat /\ Len(payload) \in Nat
      /\ e = <<e[1], e[2]>>
      /\ m.body < HdrByte /\ m.have < HdrByte /\ (e # Nowhere => e[1] < e[2] /\ e[2] <= m.body)
      /\ \A i \in 1..Len(payload) : payload[i] \in Int
  BY LenProperties, ElementOfSeq DEF GoodMessage, Message, WithinBody
<1>2. CASE e[2] = e[1] \/ ~\E i \in DOMAIN payload : Magnitude(payload[i]) = e[2]
  BY <1>1, <1>2 DEF Extent, Nowhere
<1>3. CASE e[2] # e[1] /\ \E i \in DOMAIN payload : Magnitude(payload[i]) = e[2]
  <2>1. PICK i \in 1..Len(payload) : Magnitude(payload[i]) = e[2]
    BY <1>3
  <2>2. e[1] < e[2] /\ e[2] <= m.body /\ e[1] \in Nat /\ e[2] \in Nat
    BY <1>1, <1>3 DEF Nowhere
  <2>3. Magnitude(payload[i]) = e[2]
    BY <2>1
  <2>4. e[2] \in 1..m.have
    <3>1. e[2] \notin {Filler, Dot}
      BY <1>1, <2>2 DEF HdrByte, Filler, Dot
    <3> QED BY <1>1, <2>3, <3>1 DEF Whole
  <2>5. e[1] + 1 \in 1..m.have
    BY <1>1, <2>2, <2>4
  <2>6. PICK k \in 1..Len(payload) : Magnitude(payload[k]) = e[1] + 1
    BY <2>5 DEF Whole
  <2> DEFINE end == Index(payload, e[2])
             start == Index(payload, e[1] + 1)
  <2>7. end \in 1..Len(payload) /\ start \in 1..Len(payload)
    BY <2>3, <2>6 DEF Index
  <2>8. Extent(payload, e) =
          <<start - 1, IF end < Len(payload) /\ payload[end + 1] = Dot THEN end + 1 ELSE end>>
    BY <1>3 DEF Extent
  <2> HIDE DEF end, start
  <2> DEFINE last == IF end < Len(payload) /\ payload[end + 1] = Dot THEN end + 1 ELSE end
  <2>9. last \in 0..Len(payload) /\ start - 1 \in 0..Len(payload)
    <3>1. last = end \/ (end < Len(payload) /\ last = end + 1)
      OBVIOUS
    <3> HIDE DEF last
    <3>2. PICK n \in Nat : n = Len(payload)
      BY <1>1
    <3>3. end \in 1..n /\ start \in 1..n /\ (last = end \/ (end < n /\ last = end + 1))
      BY <2>7, <3>1, <3>2
    <3>4. last \in 0..n /\ start - 1 \in 0..n
      BY <3>3
    <3> QED BY <3>2, <3>4
  <2>10. Extent(payload, e) = <<start - 1, last>>
    BY <2>8
  <2> HIDE DEF last
  <2> QED BY <1>1, <2>9, <2>10
<1> QED BY <1>2, <1>3

(* What is read of a message.                                               *)
LEMMA ParseIs ==
    ASSUME NEW m, GoodMessage(m), NEW payload \in Seq(Int), Whole(m, payload)
    PROVE  /\ Parse(m, payload) \in Metas
           /\ Parse(m, payload).proto = m.proto
           /\ HasHost(Parse(m, payload)) => m.proto = "http"
           /\ HasSNI(Parse(m, payload)) => m.proto = "tls"
           /\ Parse(m, payload).host[2] \in 0..Len(payload)
           /\ Parse(m, payload).label[1] \in 0..Len(payload)
           /\ Parse(m, payload).label[2] \in 0..Len(payload)
           /\ m.proto # "http" => \A p : Parse(m, p) = Parse(m, payload)
           /\ m.proto = "tls" => /\ Parse(m, payload).off = RecHdr
                                 /\ Parse(m, payload).len = m.body
                                 /\ Parse(m, payload).sni = ClientHelloSNI(m)
<1>1. /\ m.body \in Nat /\ m.have \in Nat /\ Len(payload) \in Nat /\ m.proto \in Protos
      /\ m.name \in Nat \X Nat /\ m.label \in Nat \X Nat
  BY LenProperties DEF GoodMessage, Message, Protos
<1>2. Nowhere \in Nat \X Nat /\ Nowhere[1] = 0 /\ Nowhere[2] = 0
  BY DEF Nowhere
<1>3. CASE m.proto = "tls"
  <2>1. \A p : Parse(m, p) = parseTLS(m)
    BY <1>3 DEF Parse
  <2>2. ClientHelloSNI(m) \in Nat \X Nat
    BY <1>1, <1>2 DEF ClientHelloSNI
  <2>3. /\ parseTLS(m).proto = "tls" /\ parseTLS(m).host = Nowhere
        /\ parseTLS(m).label = Nowhere /\ parseTLS(m).off = RecHdr
        /\ parseTLS(m).len = m.body /\ parseTLS(m).sni = ClientHelloSNI(m)
    BY DEF parseTLS
  <2>4. parseTLS(m) \in Metas
    BY <1>1, <1>2, <2>2 DEF parseTLS, Metas, Protos, RecHdr
  <2>5. ~HasHost(parseTLS(m))
    BY <2>3 DEF HasHost
  <2>6. Parse(m, payload) = parseTLS(m)
    BY <2>1
  <2> HIDE DEF GoodMessage
  <2> QED
    BY <1>1, <1>2, <1>3, <2>1, <2>3, <2>4, <2>5, <2>6
<1>4. CASE m.proto = "http"
  <2>1. Parse(m, payload) = parseHTTP(m, payload)
    BY <1>4 DEF Parse
  <2>2. /\ parseHTTP(m, payload).host = Extent(payload, m.name)
        /\ parseHTTP(m, payload).label = Extent(payload, m.label)
        /\ parseHTTP(m, payload).sni = Nowhere /\ parseHTTP(m, payload).proto = "http"
    BY DEF parseHTTP, HttpHost
  <2>3. /\ Extent(payload, m.name) \in Nat \X Nat
        /\ Extent(payload, m.name)[2] \in 0..Len(payload)
        /\ Extent(payload, m.label) \in Nat \X Nat
        /\ Extent(payload, m.label)[1] \in 0..Len(payload)
        /\ Extent(payload, m.label)[2] \in 0..Len(payload)
    BY <1>4, ExtentIs
  <2>4. parseHTTP(m, payload) \in Metas
    BY <1>1, <1>2, <2>3 DEF parseHTTP, HttpHost, Metas, Protos
  <2> QED
    BY <1>4, <2>1, <2>2, <2>3, <2>4 DEF HasSNI
<1>5. CASE m.proto \notin {"tls", "http"}
  <2>1. \A p : Parse(m, p) = [proto |-> m.proto, complete |-> IsInitial(m), off |-> 0,
                              len |-> 0, sni |-> Nowhere, host |-> Nowhere, label |-> Nowhere]
    BY <1>5 DEF Parse
  <2>2. IsInitial(m) \in BOOLEAN
    BY DEF IsInitial
  <2> QED
    BY <1>1, <1>2, <1>5, <2>1, <2>2 DEF Metas, HasHost, HasSNI
<1> QED BY <1>1, <1>3, <1>4, <1>5 DEF Protos

-----------------------------------------------------------------------------
(* Cutting.                                                                 *)

\* Offsets that grow, inside n bytes.
Growing(n) == {q \in Seq(1..n - 1) : \A i \in 2..Len(q) : q[i - 1] < q[i]}

LEMMA GrowingMore ==
    ASSUME NEW n \in Nat, NEW q \in Growing(n), NEW o \in Int,
           o > (IF q = <<>> THEN 0 ELSE q[Len(q)]), o < n
    PROVE  Append(q, o) \in Growing(n)
<1>1. q \in Seq(1..n - 1) /\ Len(q) \in Nat /\ \A i \in 1..Len(q) : q[i] \in 1..n - 1
  BY LenProperties, ElementOfSeq DEF Growing
<1>2. o \in 1..n - 1
  <2>1. q # <<>> => Len(q) \in 1..Len(q)
    BY <1>1
  <2> QED BY <1>1, <2>1
<1>3. /\ Append(q, o) \in Seq(1..n - 1) /\ Len(Append(q, o)) = Len(q) + 1
      /\ \A i \in 1..Len(q) : Append(q, o)[i] = q[i]
      /\ Append(q, o)[Len(q) + 1] = o
  BY <1>1, <1>2, AppendProperties
<1>4. ASSUME NEW i \in 2..Len(q) + 1 PROVE Append(q, o)[i - 1] < Append(q, o)[i]
  <2>1. CASE i = Len(q) + 1
    <3>1. q # <<>> /\ i - 1 = Len(q) /\ Len(q) \in 1..Len(q)
      BY <1>1, <2>1
    <3> QED BY <1>3, <2>1, <3>1
  <2>2. CASE i # Len(q) + 1
    <3>1. i \in 2..Len(q) /\ i \in 1..Len(q) /\ i - 1 \in 1..Len(q)
      BY <1>1, <2>2
    <3> QED BY <1>3, <3>1 DEF Growing
  <2> QED BY <2>1, <2>2
<1> QED BY <1>1, <1>3, <1>4 DEF Growing

(* What is kept of a list of offsets, step by step.                         *)
LEMMA CleanSteps ==
    ASSUME NEW n \in Nat, NEW offsets \in Seq(Int)
    PROVE  \E kept :
             /\ Clean(offsets, n) = kept[Len(offsets)]
             /\ kept[0] = <<>>
             /\ \A k \in 0..Len(offsets) : kept[k] \in Growing(n)
             /\ \A k \in 1..Len(offsets) :
                  kept[k] = IF /\ offsets[k] > (IF kept[k - 1] = <<>> THEN 0
                                                ELSE kept[k - 1][Len(kept[k - 1])])
                               /\ offsets[k] < n
                            THEN Append(kept[k - 1], offsets[k]) ELSE kept[k - 1]
<1> DEFINE N == Len(offsets)
           Last0(q) == IF q = <<>> THEN 0 ELSE q[Len(q)]
           Next1(q, k) == IF offsets[k] > Last0(q) /\ offsets[k] < n
                          THEN Append(q, offsets[k]) ELSE q
           F == [k \in 1..N |-> [q \in Growing(n) |-> Next1(q, k)]]
           kept == CHOOSE g : g = [k \in 0..N |-> IF k = 0 THEN <<>> ELSE Next1(g[k - 1], k)]
<1>1. N \in Nat /\ \A k \in 1..N : offsets[k] \in Int
  BY LenProperties, ElementOfSeq
<1>2. Clean(offsets, n) = kept[N]
  BY DEF Clean
<1>3. <<>> \in Growing(n)
  BY EmptySeq DEF Growing
<1>4. \A k \in 0..N : k # 0 => \A q \in Growing(n) : F[k][q] = Next1(q, k) /\ F[k][q] \in Growing(n)
  <2> TAKE k \in 0..N
  <2> HAVE k # 0
  <2> TAKE q \in Growing(n)
  <2>1. k \in 1..N /\ offsets[k] \in Int
    BY <1>1
  <2>2. F[k][q] = Next1(q, k)
    BY <2>1
  <2>3. offsets[k] > Last0(q) /\ offsets[k] < n => Append(q, offsets[k]) \in Growing(n)
    BY <2>1, GrowingMore
  <2> QED BY <2>2, <2>3
<1> HIDE DEF F
<1>5. PICK g : /\ g = [k \in 0..N |-> IF k = 0 THEN <<>> ELSE F[k][g[k - 1]]]
               /\ \A k \in 0..N : g[k] \in Growing(n)
  <2>1. StaysIn(Growing(n), F, 0, N)
    BY <1>4 DEF StaysIn
  <2>2. 0 \in Nat /\ 0 <= N
    BY <1>1
  <2> HIDE DEF N
  <2>3. \E g : Recurses(g, Growing(n), <<>>, F, 0, N)
    BY <1>1, <1>3, <2>1, <2>2, RecursionIs
  <2> QED BY <2>3 DEF Recurses
<1>6. g = [k \in 0..N |-> IF k = 0 THEN <<>> ELSE Next1(g[k - 1], k)]
  <2>1. \A k \in 0..N : k # 0 => k - 1 \in 0..N
    BY <1>1
  <2>2. \A k \in 0..N : k # 0 => F[k][g[k - 1]] = Next1(g[k - 1], k)
    BY <1>4, <1>5, <2>1
  <2> HIDE DEF Next1, N
  <2> QED BY <1>5, <2>2
<1>7. kept = [k \in 0..N |-> IF k = 0 THEN <<>> ELSE Next1(kept[k - 1], k)]
  <2> HIDE DEF Next1
  <2> QED BY <1>6
<1> HIDE DEF kept
<1>8. kept[0] = <<>>
  BY <1>1, <1>7
<1>9. \A k \in 1..N : kept[k] = Next1(kept[k - 1], k)
  <2> TAKE k \in 1..N
  <2>1. k \in 0..N /\ k # 0
    BY <1>1
  <2> HIDE DEF Next1
  <2> QED BY <1>7, <2>1
<1>10. \A k \in 0..N : kept[k] \in Growing(n)
  <2>1. ASSUME NEW k \in 0 + 1..N, kept[k - 1] \in Growing(n) PROVE kept[k] \in Growing(n)
    <3>1. k \in 1..N /\ k \in 0..N /\ k # 0
      BY <1>1
    <3> HIDE DEF Next1
    <3> QED BY <1>4, <1>9, <2>1, <3>1
  <2>2. kept[0] \in Growing(n) /\ 0 \in Nat /\ 0 <= N
    BY <1>1, <1>3, <1>8
  <2> HIDE DEF N
  <2> QED BY <1>1, <2>1, <2>2, AllAlong
<1> QED BY <1>2, <1>8, <1>9, <1>10

(* What is kept grows, inside the bytes; offsets that did are all kept.     *)
LEMMA CleanIs ==
    ASSUME NEW n \in Nat, NEW offsets \in Seq(Int)
    PROVE  /\ Clean(offsets, n) \in Growing(n)
           /\ offsets \in Growing(n) => Clean(offsets, n) = offsets
<1>0. Len(offsets) \in Nat /\ Len(offsets) \in 0..Len(offsets)
  BY LenProperties
<1>1. PICK kept :
             /\ Clean(offsets, n) = kept[Len(offsets)]
             /\ kept[0] = <<>>
             /\ \A k \in 0..Len(offsets) : kept[k] \in Growing(n)
             /\ \A k \in 1..Len(offsets) :
                  kept[k] = IF /\ offsets[k] > (IF kept[k - 1] = <<>> THEN 0
                                                ELSE kept[k - 1][Len(kept[k - 1])])
                               /\ offsets[k] < n
                            THEN Append(kept[k - 1], offsets[k]) ELSE kept[k - 1]
  BY CleanSteps
<1>2. ASSUME offsets \in Growing(n) PROVE Clean(offsets, n) = offsets
  <2>1. \A i \in 1..Len(offsets) : offsets[i] \in 1..n - 1
    BY <1>2, ElementOfSeq DEF Growing
  <2> DEFINE Same(k) == Len(kept[k]) = k /\ \A i \in 1..k : kept[k][i] = offsets[i]
             P == {k \in 0..Len(offsets) : Same(k)}
  <2>2. 0 \in P
    <3>1. Len(<<>>) = 0
      OBVIOUS
    <3> QED BY <1>0, <1>1, <3>1
  <2>3. ASSUME NEW k \in 0..Len(offsets), k \in P, k # Len(offsets) PROVE k + 1 \in P
    <3>1. k + 1 \in 1..Len(offsets) /\ (k + 1) - 1 = k /\ k \in Nat /\ k + 1 \in 0..Len(offsets)
      BY <1>0, <2>3
    <3>2. kept[k] \in Seq(1..n - 1) /\ Len(kept[k]) = k /\ offsets[k + 1] \in 1..n - 1
      BY <1>1, <2>1, <2>3, <3>1 DEF Growing
    <3>3. offsets[k + 1] > (IF kept[k] = <<>> THEN 0 ELSE kept[k][Len(kept[k])])
      <4>1. CASE k = 0
        <5>1. kept[k] = <<>>
          BY <1>1, <4>1
        <5> QED BY <3>2, <5>1
      <4>2. CASE k # 0
        <5>1. kept[k] # <<>> /\ kept[k][k] = offsets[k]
          <6>1. k \in 1..k
            BY <3>1, <4>2
          <6>2. kept[k] # <<>>
            BY <3>2, <4>2
          <6>3. kept[k][k] = offsets[k]
            BY <2>3, <6>1
          <6> QED BY <6>2, <6>3
        <5>2. offsets[(k + 1) - 1] < offsets[k + 1]
          <6>1. k + 1 \in 2..Len(offsets)
            BY <3>1, <4>2
          <6> QED BY <1>2, <6>1 DEF Growing
        <5>3. offsets[k] \in Int /\ offsets[k + 1] \in Int
          BY <2>1, <3>1, <4>2
        <5> QED BY <3>1, <3>2, <5>1, <5>2, <5>3
      <4> QED BY <4>1, <4>2
    <3>4. kept[k + 1] = Append(kept[k], offsets[k + 1])
      <4>1. offsets[k + 1] < n
        BY <3>2
      <4> QED BY <1>1, <3>1, <3>3, <4>1
    <3>5. /\ Len(kept[k + 1]) = k + 1
          /\ \A i \in 1..k : kept[k + 1][i] = kept[k][i]
          /\ kept[k + 1][k + 1] = offsets[k + 1]
      BY <3>2, <3>4, AppendProperties
    <3>6. \A i \in 1..k + 1 : kept[k + 1][i] = offsets[i]
      <4> TAKE i \in 1..k + 1
      <4>1. i = k + 1 \/ i \in 1..k
        BY <3>1
      <4> QED BY <2>3, <3>5, <4>1
    <3> QED BY <3>1, <3>5, <3>6
  <2>4. Same(Len(offsets))
    <3> HIDE DEF Same
    <3>1. \A k \in 0..Len(offsets) : k \in P /\ k # Len(offsets) => k + 1 \in P
      BY <2>3
    <3>2. 0..Len(offsets) \subseteq P
      <4> HIDE DEF P
      <4> QED BY <1>0, <2>2, <3>1, Climb
    <3> QED BY <1>0, <3>2
  <2>5. Clean(offsets, n) \in Seq(Int)
    <3>1. Clean(offsets, n) \in Seq(1..n - 1)
      BY <1>0, <1>1 DEF Growing
    <3> QED BY <3>1, SeqMonotonic
  <2> QED BY <1>1, <2>4, <2>5, SeqEqual
<1> QED BY <1>0, <1>1, <1>2

\* The k-th of the pieces that a sequence is cut in.
From(cuts, k)  == IF k = 1 THEN 0 ELSE cuts[k - 1]
To(s, cuts, k) == IF k = Len(cuts) + 1 THEN Len(s) ELSE cuts[k]
IsPiece(p, s, cuts, k) ==
    /\ From(cuts, k) \in 0..To(s, cuts, k) /\ To(s, cuts, k) \in 0..Len(s)
    /\ Len(p) = To(s, cuts, k) - From(cuts, k)
    /\ \A i \in 1..To(s, cuts, k) - From(cuts, k) : p[i] = s[From(cuts, k) + i]

(* The pieces of a sequence, one after the other.                           *)
LEMMA PiecesAre ==
    ASSUME NEW s \in Seq(Int), NEW cuts \in Growing(Len(s)),
           NEW parts, parts = Pieces(s, cuts)
    PROVE  /\ parts \in Seq(Seq(Int)) /\ Len(parts) = Len(cuts) + 1 /\ Len(cuts) \in Nat
           /\ \A k \in 1..Len(cuts) + 1 : IsPiece(parts[k], s, cuts, k)
<1> DEFINE ends == Append(cuts, Len(s))
<1>1. Len(s) \in Nat /\ Len(cuts) \in Nat /\ cuts \in Seq(Int)
      /\ \A k \in 1..Len(cuts) : cuts[k] \in 1..Len(s) - 1
  <2>1. cuts \in Seq(1..Len(s) - 1) /\ Len(s) \in Nat
    BY LenProperties DEF Growing
  <2>2. cuts \in Seq(Int)
    BY <2>1, SeqMonotonic
  <2> QED BY <2>1, <2>2, LenProperties, ElementOfSeq
<1>2. /\ Len(ends) = Len(cuts) + 1
      /\ \A k \in 1..Len(cuts) : ends[k] = cuts[k]
      /\ ends[Len(cuts) + 1] = Len(s)
  BY <1>1, AppendProperties
<1>3. parts = [k \in 1..Len(ends) |-> SubSeq(s, (IF k = 1 THEN 0 ELSE ends[k-1]) + 1, ends[k])]
  BY DEF Pieces
<1> HIDE DEF ends
<1>4. ASSUME NEW k \in 1..Len(cuts) + 1
      PROVE  parts[k] \in Seq(Int) /\ IsPiece(parts[k], s, cuts, k)
  <2> DEFINE from == IF k = 1 THEN 0 ELSE cuts[k - 1]
             to   == IF k = Len(cuts) + 1 THEN Len(s) ELSE cuts[k]
  <2>1. k # 1 => k - 1 \in 1..Len(cuts)
    BY <1>1
  <2>2. k # Len(cuts) + 1 => k \in 1..Len(cuts)
    BY <1>1
  <2>3. parts[k] = SubSeq(s, from + 1, to)
    <3>1. (IF k = 1 THEN 0 ELSE ends[k-1]) = from /\ ends[k] = to
      BY <1>2, <2>1, <2>2
    <3> HIDE DEF from, to
    <3> QED BY <1>2, <1>3, <3>1
  <2>4. from \in Nat /\ to \in 0..Len(s)
    <3>1. \A x \in 1..Len(s) - 1 : x \in Nat /\ x \in 0..Len(s)
      BY <1>1
    <3>2. Len(s) \in 0..Len(s)
      BY <1>1
    <3>3. from \in Nat
      BY <1>1, <2>1, <3>1
    <3>4. to \in 0..Len(s)
      BY <1>1, <2>2, <3>1, <3>2
    <3> QED BY <3>3, <3>4
  <2>5. from <= to
    <3>1. CASE k = 1
      BY <2>4, <3>1
    <3>2. CASE k # 1 /\ k = Len(cuts) + 1
      BY <1>1, <2>1, <3>2
    <3>3. CASE k # 1 /\ k # Len(cuts) + 1
      <4>1. k \in 2..Len(cuts)
        BY <1>1, <3>3
      <4>2. cuts[k - 1] < cuts[k]
        BY <4>1 DEF Growing
      <4> QED BY <1>1, <2>1, <2>2, <3>3, <4>2
    <3> QED BY <3>1, <3>2, <3>3
  <2> HIDE DEF from, to
  <2>6. /\ SubSeq(s, from + 1, to) \in Seq(Int)
        /\ Len(SubSeq(s, from + 1, to)) = to - from
        /\ \A i \in 1..to - from : SubSeq(s, from + 1, to)[i] = s[((from + 1) + i) - 1]
    <3>1. from + 1 \in Nat \ {0} /\ to \in Int /\ to <= Len(s)
      BY <1>1, <2>4
    <3>2. /\ SubSeq(s, from + 1, to) \in Seq(Int)
          /\ Len(SubSeq(s, from + 1, to)) = IF from + 1 <= to THEN (to - (from + 1)) + 1 ELSE 0
          /\ \A i \in 1..Len(SubSeq(s, from + 1, to)) :
               SubSeq(s, from + 1, to)[i] = s[((from + 1) + i) - 1]
      <4>1. PICK a, z : a = from + 1 /\ z = to
        OBVIOUS
      <4>2. a \in Nat \ {0} /\ z \in Int /\ z <= Len(s)
        BY <3>1, <4>1
      <4>3. /\ SubSeq(s, a, z) \in Seq(Int)
            /\ Len(SubSeq(s, a, z)) = IF a <= z THEN (z - a) + 1 ELSE 0
            /\ \A i \in 1..Len(SubSeq(s, a, z)) : SubSeq(s, a, z)[i] = s[(a + i) - 1]
        BY <4>2, PartOf
      <4> QED BY <4>1, <4>3
    <3>3. Len(SubSeq(s, from + 1, to)) = to - from
      BY <1>1, <2>4, <2>5, <3>2
    <3> QED BY <3>2, <3>3
  <2>7. \A i \in 1..to - from : ((from + 1) + i) - 1 = from + i
    BY <1>1, <2>4
  <2>8. \A i \in 1..to - from : parts[k][i] = s[from + i]
    BY <2>3, <2>6, <2>7
  <2>9. from \in 0..to
    BY <1>1, <2>4, <2>5
  <2>10. from = From(cuts, k) /\ to = To(s, cuts, k)
    BY DEF from, to, From, To
  <2> QED BY <2>3, <2>4, <2>6, <2>8, <2>9, <2>10 DEF IsPiece
<1>5. parts \in Seq(Seq(Int)) /\ Len(parts) = Len(cuts) + 1
  <2>1. \A k \in 1..Len(cuts) + 1 : parts[k] \in Seq(Int)
    BY <1>4
  <2>2. DOMAIN parts = 1..Len(cuts) + 1 /\ Len(cuts) + 1 \in Nat
    BY <1>1, <1>2, <1>3
  <2>3. parts = [k \in 1..Len(cuts) + 1 |-> parts[k]]
    BY <1>2, <1>3
  <2>4. parts \in [1..Len(cuts) + 1 -> Seq(Int)]
    BY <2>1, <2>3
  <2> QED BY <2>2, <2>4
<1> QED BY <1>1, <1>4, <1>5

(* A builder that refuses, and one that is given its writes.                *)
LEMMA FailedOK ==
    ASSUME NEW b, NEW m, NEW d, SoundBuilder(b, m, d)
    PROVE  SoundBuilder(Failed(b), m, d) /\ Failed(b).bad
<1>1. b \in Builder /\ Failed(b) \in Builder
  BY DEF SoundBuilder, Failed, Builder
<1>2. /\ Failed(b).payload = b.payload /\ Failed(b).meta = b.meta /\ Failed(b).segs = b.segs
      /\ Failed(b).reframed = b.reframed /\ Failed(b).bad
  BY <1>1 DEF Failed, Builder
<1> QED BY <1>1, <1>2 DEF SoundBuilder, FirstRecord

LEMMA WithSegs ==
    ASSUME NEW b, NEW m, NEW d, SoundBuilder(b, m, d), NEW segs \in Seq(Segment),
           Aimed(segs, Len(b.payload), d)
    PROVE  SoundBuilder([b EXCEPT !.segs = segs], m, d)
<1> DEFINE r == [b EXCEPT !.segs = segs]
<1>1. b \in Builder /\ r \in Builder
  BY DEF SoundBuilder, Builder
<1>2. /\ r.payload = b.payload /\ r.meta = b.meta /\ r.segs = segs
      /\ r.reframed = b.reframed /\ r.bad = b.bad
  BY <1>1 DEF Builder
<1> HIDE DEF r
<1>3. SoundBuilder(r, m, d)
  BY <1>1, <1>2 DEF SoundBuilder, FirstRecord
<1> QED BY <1>3 DEF r

(* A schedule: plain writes, the pieces of the payload.                     *)
LEMMA SplitAtOK ==
    ASSUME NEW b, NEW m, NEW d, SoundBuilder(b, m, d), ~b.bad, NEW offsets \in Seq(Int),
           NEW r, r = SplitAt(b, offsets), NEW cuts, cuts = Clean(offsets, Len(b.payload))
    PROVE  /\ SoundBuilder(r, m, d)
           /\ ~r.bad =>
                /\ b.segs = <<>> /\ r.segs # <<>> /\ r.payload = b.payload
                /\ r.meta = b.meta /\ r.reframed = b.reframed
                /\ cuts \in Growing(Len(b.payload))
                /\ Len(r.segs) = Len(cuts) + 1
                /\ \A k \in 1..Len(cuts) + 1 :
                     r.segs[k] = Stream(Pieces(b.payload, cuts)[k])
<1> DEFINE parts == Pieces(b.payload, cuts)
           segs  == [k \in 1..Len(parts) |-> Stream(parts[k])]
           more  == [b EXCEPT !.segs = segs]
<1>1. b \in Builder /\ b.payload \in Seq(Int) /\ Len(b.payload) \in Nat
  BY LenProperties DEF SoundBuilder, Builder
<1>2. cuts \in Growing(Len(b.payload))
  BY <1>1, CleanIs
<1>3. parts \in Seq(Seq(Int)) /\ Len(parts) = Len(cuts) + 1 /\ Len(cuts) \in Nat
  BY <1>1, <1>2, PiecesAre
<1>4. r = IF b.segs # <<>> \/ Len(b.payload) = 0 \/ Len(segs) > MaxSegments THEN Failed(b)
          ELSE IF Len(cuts) < Len(offsets) THEN Downgraded(b, more) ELSE more
  BY DEF SplitAt
<1> HIDE DEF parts
<1>5. segs \in Seq(Segment) /\ Len(segs) = Len(cuts) + 1
  <2>1. \A k \in 1..Len(parts) : parts[k] \in Seq(Int)
    BY <1>3, ElementOfSeq
  <2>2. \A k \in 1..Len(parts) : Stream(parts[k]) \in Segment
    BY <2>1 DEF Stream, Segment
  <2>3. segs \in [1..Len(cuts) + 1 -> Segment] /\ Len(cuts) + 1 \in Nat
    BY <1>3, <2>2
  <2> HIDE DEF segs
  <2> QED BY <2>3
<1>6. \A k \in 1..Len(cuts) + 1 : segs[k] = Stream(parts[k]) /\ segs[k].ttl = 0
  BY <1>3 DEF Stream
<1> HIDE DEF segs
<1>7. Aimed(segs, Len(b.payload), d)
  BY <1>5, <1>6 DEF Aimed
<1>8. SoundBuilder(more, m, d)
  BY <1>5, <1>7, WithSegs
<1>9. more.segs = segs /\ more.payload = b.payload /\ more.meta = b.meta
      /\ more.reframed = b.reframed /\ more.bad = b.bad
  BY <1>1 DEF Builder
<1> HIDE DEF more
<1>10. r = more \/ r = Failed(b)
  BY <1>4 DEF Downgraded
<1>11. CASE r = Failed(b)
  BY <1>11, FailedOK
<1>12. CASE r = more /\ r # Failed(b)
  <2>1. b.segs = <<>>
    BY <1>4, <1>12
  <2>2. segs # <<>>
    BY <1>3, <1>5
  <2> QED BY <1>2, <1>5, <1>6, <1>8, <1>9, <1>12, <2>1, <2>2 DEF parts
<1> QED BY <1>10, <1>11, <1>12

-----------------------------------------------------------------------------
(* Re-framing.                                                              *)

LEMMA HeaderIs ==
    ASSUME NEW n \in Nat
    PROVE  Header(n) \in Seq(Int) /\ Len(Header(n)) = RecHdr /\ Header(n)[RecHdr] = LenByte + n
BY DEF Header, RecHdr, HdrByte, LenByte

LEMMA BytesAre ==
    ASSUME NEW m, GoodMessage(m), m.proto = "tls"
    PROVE  /\ Bytes(m) \in Seq(Int) /\ Len(Bytes(m)) = RecHdr + m.have /\ m.have \in Nat
           /\ \A i \in 1..m.have : Bytes(m)[RecHdr + i] = i
           /\ \A i \in 1..RecHdr : Bytes(m)[i] >= HdrByte
<1>1. m.have \in Nat /\ m.body \in Nat
  BY DEF GoodMessage, Message
<1> DEFINE front == Header(m.body)
           back == Upto(m.have)
<1>2. front \in Seq(Int) /\ Len(front) = RecHdr /\ RecHdr = 5
      /\ \A i \in 1..5 : front[i] >= HdrByte
  <2>1. front = <<HdrByte, HdrByte, HdrByte, HdrByte, LenByte + m.body>>
    BY DEF Header
  <2>2. HdrByte \in Int /\ LenByte + m.body \in Int /\ LenByte + m.body >= HdrByte
    BY <1>1 DEF HdrByte, LenByte
  <2> HIDE DEF front
  <2>3. front \in Seq(Int) /\ Len(front) = 5 /\ front[1] = HdrByte /\ front[2] = HdrByte
        /\ front[3] = HdrByte /\ front[4] = HdrByte /\ front[5] = LenByte + m.body
    BY <2>1, <2>2
  <2>4. \A i \in 1..5 : i = 1 \/ i = 2 \/ i = 3 \/ i = 4 \/ i = 5
    OBVIOUS
  <2>5. \A i \in 1..5 : front[i] >= HdrByte
    BY <2>2, <2>3, <2>4
  <2> QED BY <2>3, <2>5 DEF RecHdr
<1>3. back \in Seq(Int) /\ Len(back) = m.have /\ \A i \in 1..m.have : back[i] = i
  BY <1>1 DEF Upto
<1>4. Bytes(m) = front \o back
  BY DEF Bytes
<1> HIDE DEF front, back
<1>5. /\ front \o back \in Seq(Int) /\ Len(front \o back) = Len(front) + Len(back)
      /\ \A i \in 1..Len(front) + Len(back) :
           (front \o back)[i] = IF i <= Len(front) THEN front[i] ELSE back[i - Len(front)]
  BY <1>2, <1>3, ConcatProperties
<1>6. \A i \in 1..m.have : 5 + i \in 1..5 + m.have /\ ~(5 + i <= 5) /\ (5 + i) - 5 = i
  BY <1>1
<1>7. \A i \in 1..5 : i \in 1..5 + m.have /\ i <= 5
  BY <1>1
<1> DEFINE all == front \o back
<1>8. all \in Seq(Int) /\ Len(all) = 5 + m.have
      /\ \A i \in 1..5 + m.have : all[i] = IF i <= 5 THEN front[i] ELSE back[i - 5]
  BY <1>2, <1>3, <1>5
<1> HIDE DEF all
<1>9. \A i \in 1..m.have : all[5 + i] = i
  BY <1>3, <1>6, <1>8
<1>10. \A i \in 1..5 : all[i] >= HdrByte
  BY <1>2, <1>7, <1>8
<1>11. Bytes(m) = all
  BY <1>4 DEF all
<1> QED BY <1>1, <1>2, <1>8, <1>9, <1>10, <1>11

(* Sequences joined: the first is at the front.                             *)
LEMMA FlattenIs ==
    ASSUME NEW seqs \in Seq(Seq(Int)), Len(seqs) > 0
    PROVE  /\ FlattenSeq(seqs) \in Seq(Int)
           /\ Len(FlattenSeq(seqs)) >= Len(seqs[1])
           /\ \A j \in 1..Len(seqs[1]) : FlattenSeq(seqs)[j] = seqs[1][j]
<1> DEFINE n == Len(seqs)
           X == {s \in Seq(Int) : /\ Len(s) >= Len(seqs[1])
                                  /\ \A j \in 1..Len(seqs[1]) : s[j] = seqs[1][j]}
           F == [k \in 1..n |-> [s \in X |-> s \o seqs[k]]]
           flat == CHOOSE g : g = [k \in 1..n |-> IF k = 1 THEN seqs[k] ELSE g[k - 1] \o seqs[k]]
<1>1. n \in Nat /\ 1 <= n /\ \A k \in 1..n : seqs[k] \in Seq(Int) /\ Len(seqs[k]) \in Nat
  <2>1. n \in Nat /\ \A k \in 1..n : seqs[k] \in Seq(Int)
    BY LenProperties, ElementOfSeq
  <2>2. \A s \in Seq(Int) : Len(s) \in Nat
    BY LenProperties
  <2> QED BY <2>1, <2>2
<1>2. FlattenSeq(seqs) = flat[n]
  BY <1>1 DEF FlattenSeq
<1>3. 1 \in 1..n /\ seqs[1] \in X
  <2>1. seqs[1] \in Seq(Int) /\ Len(seqs[1]) \in Nat
    BY <1>1
  <2> QED BY <1>1, <2>1
<1>4. \A k \in 1..n : \A s \in X : F[k][s] = s \o seqs[k] /\ s \o seqs[k] \in X
  <2> TAKE k \in 1..n
  <2> TAKE s \in X
  <2>1. s \in Seq(Int) /\ seqs[k] \in Seq(Int) /\ Len(s) \in Nat /\ Len(seqs[k]) \in Nat
        /\ Len(seqs[1]) \in Nat
    BY <1>1, <1>3, LenProperties
  <2>2. /\ s \o seqs[k] \in Seq(Int) /\ Len(s \o seqs[k]) = Len(s) + Len(seqs[k])
        /\ \A i \in 1..Len(s) + Len(seqs[k]) :
             (s \o seqs[k])[i] = IF i <= Len(s) THEN s[i] ELSE seqs[k][i - Len(s)]
    BY <2>1, ConcatProperties
  <2>3. ASSUME NEW j \in 1..Len(seqs[1]) PROVE (s \o seqs[k])[j] = seqs[1][j]
    <3>1. Len(s) >= Len(seqs[1]) /\ s[j] = seqs[1][j]
      OBVIOUS
    <3>2. j \in 1..Len(s) + Len(seqs[k]) /\ j <= Len(s)
      <4> HIDE DEF X
      <4>1. PICK c, d, l : c = Len(s) /\ d = Len(seqs[k]) /\ l = Len(seqs[1])
        OBVIOUS
      <4>2. c \in Nat /\ d \in Nat /\ l \in Nat /\ l <= c /\ j \in 1..l
        BY <2>1, <3>1, <4>1
      <4>3. j \in 1..c + d /\ j <= c
        BY <4>2
      <4> QED BY <4>1, <4>3
    <3> QED BY <2>2, <3>1, <3>2
  <2>4. s \o seqs[k] \in X
    <3>1. Len(s \o seqs[k]) >= Len(seqs[1])
      BY <2>1, <2>2
    <3> QED BY <2>2, <2>3, <3>1
  <2>5. F[k][s] = s \o seqs[k]
    <3> HIDE DEF X
    <3> QED OBVIOUS
  <2> QED BY <2>4, <2>5
<1> HIDE DEF F
<1>5. PICK g : Recurses(g, X, seqs[1], F, 1, n)
  <2>1. StaysIn(X, F, 1, n)
    <3> HIDE DEF X
    <3> QED BY <1>4 DEF StaysIn
  <2>2. 1 \in Nat
    OBVIOUS
  <2> HIDE DEF X, n
  <2> QED BY <1>1, <1>3, <2>1, <2>2, RecursionIs
<1> HIDE DEF X
<1>6. g = [k \in 1..n |-> IF k = 1 THEN seqs[k] ELSE g[k - 1] \o seqs[k]]
  <2>1. /\ g = [k \in 1..n |-> IF k = 1 THEN seqs[1] ELSE F[k][g[k - 1]]]
        /\ \A k \in 1..n : g[k] \in X
    BY <1>5 DEF Recurses
  <2>2. \A k \in 1..n : k # 1 => k - 1 \in 1..n
    BY <1>1
  <2>3. \A k \in 1..n : k # 1 => F[k][g[k - 1]] = g[k - 1] \o seqs[k]
    BY <1>4, <2>1, <2>2
  <2> HIDE DEF n
  <2> QED BY <2>1, <2>3
<1>7. flat = [k \in 1..n |-> IF k = 1 THEN seqs[k] ELSE flat[k - 1] \o seqs[k]]
  BY <1>6
<1> HIDE DEF flat
<1>8. \A k \in 1..n : flat[k] \in X
  <2>1. flat[1] \in X
    BY <1>1, <1>3, <1>7
  <2>2. ASSUME NEW k \in 1 + 1..n, flat[k - 1] \in X PROVE flat[k] \in X
    <3>1. k \in 1..n /\ k # 1
      BY <1>1
    <3>2. flat[k] = flat[k - 1] \o seqs[k]
      BY <1>7, <3>1
    <3> QED BY <1>4, <2>2, <3>1, <3>2
  <2>3. 1 \in Nat
    OBVIOUS
  <2> HIDE DEF n
  <2> QED BY <1>1, <2>1, <2>2, <2>3, AllAlong
<1>9. flat[n] \in X
  BY <1>1, <1>8
<1> QED BY <1>2, <1>9 DEF X

(* Cuts that grow and end inside a record's body lie inside it.             *)
LEMMA CutsGrow ==
    ASSUME NEW n \in Nat, NEW cuts \in Seq(Int), cuts # <<>>,
           ~\E k \in DOMAIN cuts : cuts[k] <= (IF k = 1 THEN 0 ELSE cuts[k - 1]),
           cuts[Len(cuts)] < n
    PROVE  cuts \in Growing(n)
<1> DEFINE N == Len(cuts)
<1>1. N \in Nat /\ 1 <= N /\ \A k \in 1..N : cuts[k] \in Int
  BY LenProperties, ElementOfSeq
<1>2. \A k \in 1..N : ~(cuts[k] <= (IF k = 1 THEN 0 ELSE cuts[k - 1]))
  BY <1>1
<1>3. \A k \in 1..N : cuts[k] \in Nat \ {0}
  <2>1. cuts[1] \in Nat \ {0}
    <3>1. 1 \in 1..N
      BY <1>1
    <3> QED BY <1>1, <1>2, <3>1
  <2>2. ASSUME NEW k \in 1 + 1..N, cuts[k - 1] \in Nat \ {0} PROVE cuts[k] \in Nat \ {0}
    <3>1. k \in 1..N /\ k # 1
      BY <1>1
    <3> QED BY <1>1, <1>2, <2>2, <3>1
  <2>3. 1 \in Nat
    OBVIOUS
  <2> HIDE DEF N
  <2> QED BY <1>1, <2>1, <2>2, <2>3, AllAlong
<1>4. \A k \in 2..N : cuts[k - 1] < cuts[k]
  <2> TAKE k \in 2..N
  <2>1. k \in 1..N /\ k - 1 \in 1..N /\ k # 1
    BY <1>1
  <2> QED BY <1>1, <1>2, <2>1
<1>5. \A j \in 0..N - 1 : cuts[N - j] < n
  <2> DEFINE P == {j \in 0..N - 1 : cuts[N - j] < n}
  <2>1. 0 \in P
    BY <1>1
  <2>2. ASSUME NEW j \in 0..N - 1, j \in P, j # N - 1 PROVE j + 1 \in P
    <3>1. N - j \in 2..N /\ (N - j) - 1 = N - (j + 1) /\ j + 1 \in 0..N - 1
          /\ N - j \in 1..N /\ N - (j + 1) \in 1..N
      BY <1>1, <2>2
    <3>2. cuts[N - (j + 1)] < cuts[N - j] /\ cuts[N - j] < n
      BY <1>4, <2>2, <3>1
    <3>3. cuts[N - (j + 1)] \in Int /\ cuts[N - j] \in Int
      BY <1>1, <3>1
    <3>4. cuts[N - (j + 1)] < n
      BY <3>2, <3>3
    <3> QED BY <3>1, <3>4
  <2>3. N - 1 \in Nat
    BY <1>1
  <2>4. 0..N - 1 \subseteq P
    <3> HIDE DEF P, N
    <3> QED BY <2>1, <2>2, <2>3, Climb
  <2> QED BY <2>4
<1>6. \A k \in 1..N : cuts[k] \in 1..n - 1
  <2> TAKE k \in 1..N
  <2>1. N - k \in 0..N - 1 /\ N - (N - k) = k
    BY <1>1
  <2>2. cuts[k] < n
    BY <1>5, <2>1
  <2> QED BY <1>3, <2>2
<1>7. cuts \in Seq(1..n - 1)
  <2>1. cuts = [k \in 1..N |-> cuts[k]]
    BY LenProperties
  <2>2. cuts \in [1..N -> 1..n - 1]
    BY <1>6, <2>1
  <2> HIDE DEF N
  <2> QED BY <1>1, <2>2
<1> QED BY <1>4, <1>7 DEF Growing

(* Several records of one: the first holds the front of the body.           *)
LEMMA SplitRecordIs ==
    ASSUME NEW body \in Seq(Int), NEW cuts \in Growing(Len(body)), cuts # <<>>,
           NEW s, s = SplitRecord(body, cuts)
    PROVE  /\ s \in Seq(Int) /\ cuts[1] \in 1..Len(body) - 1
           /\ Len(s) >= RecHdr + cuts[1] /\ s[RecHdr] = LenByte + cuts[1]
           /\ \A j \in 1..cuts[1] : s[RecHdr + j] = body[j]
<1> DEFINE parts == Pieces(body, cuts)
           seqs  == [k \in 1..Len(parts) |-> Header(Len(parts[k])) \o parts[k]]
           c     == cuts[1]
<1>1. Len(cuts) \in Nat /\ Len(cuts) >= 1 /\ c \in 1..Len(body) - 1
  <2>1. cuts \in Seq(1..Len(body) - 1)
    BY DEF Growing
  <2>2. Len(cuts) \in Nat /\ Len(cuts) >= 1
    BY <2>1, LenProperties
  <2>3. 1 \in 1..Len(cuts)
    BY <2>2
  <2> QED BY <2>1, <2>2, <2>3, ElementOfSeq
<1>2. /\ parts \in Seq(Seq(Int)) /\ Len(parts) = Len(cuts) + 1
      /\ Len(parts[1]) = c /\ \A i \in 1..c : parts[1][i] = body[i]
  <2>1. /\ parts \in Seq(Seq(Int)) /\ Len(parts) = Len(cuts) + 1
        /\ \A k \in 1..Len(cuts) + 1 : IsPiece(parts[k], body, cuts, k)
    BY PiecesAre
  <2> HIDE DEF parts
  <2>2. 1 \in 1..Len(cuts) + 1 /\ 1 # Len(cuts) + 1 /\ c \in Int /\ c - 0 = c
    BY <1>1
  <2>3. From(cuts, 1) = 0 /\ To(body, cuts, 1) = c
    BY <2>2 DEF From, To
  <2>4. Len(parts[1]) = c - 0 /\ \A i \in 1..c - 0 : parts[1][i] = body[0 + i]
    <3> HIDE DEF c
    <3> QED BY <2>1, <2>2, <2>3 DEF IsPiece
  <2>5. \A i \in 1..c : 0 + i = i
    BY <1>1
  <2> QED BY <1>1, <2>1, <2>2, <2>4, <2>5
<1>3. s = FlattenSeq(seqs)
  BY DEF SplitRecord
<1> HIDE DEF parts
<1>4. \A k \in 1..Len(parts) : /\ parts[k] \in Seq(Int) /\ Len(parts[k]) \in Nat
                               /\ Header(Len(parts[k])) \in Seq(Int)
                               /\ Header(Len(parts[k])) \o parts[k] \in Seq(Int)
  <2> TAKE k \in 1..Len(parts)
  <2>1. parts[k] \in Seq(Int)
    BY <1>2, ElementOfSeq
  <2>2. Len(parts[k]) \in Nat
    BY <2>1, LenProperties
  <2>3. Header(Len(parts[k])) \in Seq(Int)
    BY <2>2, HeaderIs
  <2>4. Header(Len(parts[k])) \o parts[k] \in Seq(Int)
    BY <2>1, <2>3, ConcatProperties
  <2> QED BY <2>1, <2>2, <2>3, <2>4
<1>5. seqs \in Seq(Seq(Int)) /\ Len(seqs) = Len(cuts) + 1
      /\ seqs[1] = Header(c) \o parts[1]
  <2>1. 1 \in 1..Len(parts) /\ Len(parts) \in Nat
    BY <1>1, <1>2
  <2>2. seqs[1] = Header(c) \o parts[1]
    BY <1>2, <2>1
  <2>3. seqs \in [1..Len(parts) -> Seq(Int)]
    BY <1>4
  <2>4. Len(seqs) = Len(parts)
    BY <2>1
  <2> HIDE DEF seqs, c
  <2>5. seqs \in Seq(Seq(Int))
    BY <2>1, <2>3
  <2> QED BY <1>2, <2>2, <2>4, <2>5
<1> HIDE DEF seqs
<1>6. /\ s \in Seq(Int) /\ Len(s) >= Len(seqs[1])
      /\ \A j \in 1..Len(seqs[1]) : s[j] = seqs[1][j]
  <2>1. Len(seqs) > 0
    BY <1>1, <1>5
  <2> QED BY <1>3, <1>5, <2>1, FlattenIs
<1> DEFINE head == Header(c)
<1>7. head \in Seq(Int) /\ Len(head) = 5 /\ head[5] = LenByte + c
  <2>1. c \in Nat
    BY <1>1
  <2> HIDE DEF c
  <2> QED BY <2>1, HeaderIs DEF RecHdr
<1>8. parts[1] \in Seq(Int)
  <2>1. 1 \in 1..Len(parts)
    BY <1>1, <1>2
  <2> QED BY <1>4, <2>1
<1>9. /\ Len(seqs[1]) = 5 + c
      /\ \A i \in 1..5 + c : seqs[1][i] = IF i <= 5 THEN head[i] ELSE parts[1][i - 5]
  <2>0. seqs[1] = head \o parts[1]
    BY <1>5
  <2> HIDE DEF c, head
  <2>1. /\ Len(head \o parts[1]) = Len(head) + Len(parts[1])
        /\ \A i \in 1..Len(head) + Len(parts[1]) :
             (head \o parts[1])[i] = IF i <= Len(head) THEN head[i] ELSE parts[1][i - Len(head)]
    BY <1>7, <1>8, ConcatProperties
  <2> QED BY <1>2, <1>7, <2>0, <2>1
<1> HIDE DEF head
<1>10. Len(s) >= 5 + c /\ s[5] = LenByte + c
  <2>1. 5 \in 1..5 + c /\ 5 <= 5
    BY <1>1
  <2> QED BY <1>6, <1>7, <1>9, <2>1
<1>11. \A j \in 1..c : s[5 + j] = body[j]
  <2> TAKE j \in 1..c
  <2>1. 5 + j \in 1..5 + c /\ ~(5 + j <= 5) /\ (5 + j) - 5 = j
    BY <1>1
  <2> QED BY <1>2, <1>6, <1>9, <2>1
<1> QED BY <1>1, <1>6, <1>10, <1>11 DEF RecHdr

(* A re-framed hello: its first record ends before the name does.           *)
LEMMA ReframeOK ==
    ASSUME NEW m, GoodMessage(m), NEW b, NEW d, SoundBuilder(b, m, d), ~b.bad,
           NEW cuts \in Seq(Int),
           NEW r, r = ReframeFirstRecord(b, cuts)
    PROVE  /\ SoundBuilder(r, m, d)
           /\ ~r.bad => b.segs = <<>>
<1> DEFINE end == b.meta.off + b.meta.len
           body == SubSeq(b.payload, b.meta.off + 1, end)
           rest == SubSeq(b.payload, end + 1, Len(b.payload))
           records == SplitRecord(body, cuts)
           payload == records \o rest
           more == [b EXCEPT !.reframed = TRUE, !.payload = payload]
           Refused ==
             \/ b.reframed \/ b.segs # <<>> \/ b.meta.proto # "tls" \/ ~b.meta.complete
             \/ cuts = <<>> \/ \E k \in DOMAIN cuts : cuts[k] <= (IF k = 1 THEN 0 ELSE cuts[k-1])
             \/ end > Len(b.payload) \/ (HasSNI(b.meta) /\ cuts[1] > b.meta.sni[2] - 1)
             \/ cuts[Len(cuts)] >= b.meta.len
<1>1. r = IF Refused THEN Failed(b) ELSE more
  BY DEF ReframeFirstRecord
<1>2. CASE Refused
  <2>1. r = Failed(b)
    BY <1>1, <1>2
  <2> QED BY <2>1, FailedOK
<1>3. CASE ~Refused
  <2>1. /\ b \in Builder /\ b.payload \in Seq(Int) /\ Len(b.payload) \in Nat
        /\ b.meta = Parse(m, b.payload) /\ Whole(m, b.payload)
    BY LenProperties DEF SoundBuilder, Builder
  <2>2. m.proto = "tls" /\ b.meta.off = 5 /\ b.meta.len = m.body /\ m.body \in Nat
        /\ b.meta.sni = ClientHelloSNI(m) /\ \A p : Parse(m, p) = b.meta
    <3>1. m.proto = "tls"
      BY <1>3, <2>1, ParseIs
    <3>2. m.body \in Nat
      BY DEF GoodMessage, Message
    <3> QED BY <2>1, <3>1, <3>2, ParseIs DEF RecHdr
  <2>3. end = 5 + m.body /\ end <= Len(b.payload)
    BY <1>3, <2>1, <2>2
  <2>4. body \in Seq(Int) /\ Len(body) = m.body
        /\ \A i \in 1..m.body : body[i] = b.payload[5 + i]
    <3>1. body = SubSeq(b.payload, 6, 5 + m.body)
      BY <2>2, <2>3
    <3>2. PICK a, e : a = 6 /\ e = 5 + m.body
      OBVIOUS
    <3>3. a \in Nat \ {0} /\ e \in Int /\ e <= Len(b.payload)
      BY <2>2, <2>3, <3>2
    <3>4. /\ SubSeq(b.payload, a, e) \in Seq(Int)
          /\ Len(SubSeq(b.payload, a, e)) = IF a <= e THEN (e - a) + 1 ELSE 0
          /\ \A i \in 1..Len(SubSeq(b.payload, a, e)) :
               SubSeq(b.payload, a, e)[i] = b.payload[(a + i) - 1]
      BY <2>1, <3>3, PartOf
    <3>5. \A i \in 1..m.body : (a + i) - 1 = 5 + i
      BY <2>2, <3>2
    <3>6. (IF a <= e THEN (e - a) + 1 ELSE 0) = m.body
      BY <2>2, <3>2
    <3>7. body = SubSeq(b.payload, a, e)
      BY <3>1, <3>2
    <3> HIDE DEF body
    <3> QED BY <3>4, <3>5, <3>6, <3>7
  <2>5. rest \in Seq(Int)
    <3>1. end + 1 \in Nat \ {0} /\ Len(b.payload) \in Int /\ Len(b.payload) <= Len(b.payload)
      BY <2>1, <2>2, <2>3
    <3> HIDE DEF end
    <3> QED BY <2>1, <3>1, PartOf
  <2>6. cuts # <<>> /\ cuts \in Growing(Len(body))
    <3>1. /\ cuts # <<>>
          /\ ~\E k \in DOMAIN cuts : cuts[k] <= (IF k = 1 THEN 0 ELSE cuts[k - 1])
      BY <1>3
    <3>2. ~(cuts[Len(cuts)] >= m.body)
      BY <1>3, <2>2
    <3>3. cuts[Len(cuts)] \in Int
      <4>1. Len(cuts) \in 1..Len(cuts)
        BY <3>1, LenProperties
      <4> QED BY <4>1, ElementOfSeq
    <3>4. cuts[Len(cuts)] < m.body
      BY <2>2, <3>2, <3>3
    <3>5. cuts \in Growing(m.body)
      BY <2>2, <3>1, <3>4, CutsGrow
    <3> QED BY <2>4, <3>1, <3>5
  <2> DEFINE c == cuts[1]
  <2> HIDE DEF body, rest, end
  <2>7. /\ records \in Seq(Int) /\ c \in 1..m.body - 1
        /\ Len(records) >= 5 + c /\ records[5] = LenByte + c
        /\ \A j \in 1..c : records[5 + j] = body[j]
    BY <2>4, <2>6, SplitRecordIs DEF RecHdr
  <2>8. HasSNI(b.meta) => c <= b.meta.sni[2] - 1
    <3>1. HasSNI(b.meta) => ~(c > b.meta.sni[2] - 1)
      BY <1>3, Zenon
    <3>2. b.meta.sni[2] \in Int
      BY <2>1 DEF Builder, Metas
    <3>3. c \in Int
      BY <2>7
    <3> HIDE DEF c
    <3>4. ASSUME HasSNI(b.meta) PROVE c <= b.meta.sni[2] - 1
      BY <3>1, <3>2, <3>3, <3>4
    <3> QED BY <3>4
  <2> HIDE DEF records
  <2>9. /\ payload \in Seq(Int) /\ Len(payload) >= 5 + c
        /\ \A i \in 1..5 + c : payload[i] = records[i]
    <3>1. Len(records) \in Nat /\ Len(rest) \in Nat
      BY <2>5, <2>7, LenProperties
    <3>2. /\ records \o rest \in Seq(Int) /\ Len(records \o rest) = Len(records) + Len(rest)
          /\ \A i \in 1..Len(records) + Len(rest) :
               (records \o rest)[i] = IF i <= Len(records) THEN records[i]
                                      ELSE rest[i - Len(records)]
      BY <2>5, <2>7, ConcatProperties
    <3>3. c \in Int /\ Len(payload) >= 5 + c
      BY <2>7, <3>1, <3>2
    <3>4. \A i \in 1..5 + c : i \in 1..Len(records) + Len(rest) /\ i <= Len(records)
      <4> HIDE DEF c
      <4> QED BY <2>7, <3>1, <3>3
    <3> HIDE DEF c
    <3> QED BY <3>2, <3>3, <3>4
  <2> HIDE DEF payload
  <2>10. more \in Builder
    BY <2>1, <2>9 DEF Builder
  <2>11. /\ more.payload = payload /\ more.meta = b.meta /\ more.segs = b.segs
         /\ more.reframed = TRUE /\ more.bad = b.bad
    BY <2>1 DEF Builder
  <2> HIDE DEF more
  <2>12. r = more /\ b.segs = <<>>
    BY <1>1, <1>3
  <2>13. Whole(m, payload)
    BY <2>2 DEF Whole
  <2>14. ClientHelloSNI(m) # Nowhere =>
           \E x \in 1..m.name[2] - 1 :
               /\ RecHdr + x <= Len(payload) /\ payload[RecHdr] = LenByte + x
               /\ \A j \in 1..x : payload[RecHdr + j] = j
    <3> HAVE ClientHelloSNI(m) # Nowhere
    <3>1. ClientHelloSNI(m) = m.name /\ m.have >= m.name[2]
      BY DEF ClientHelloSNI
    <3>2. m.name[2] \in Nat /\ c <= m.name[2] - 1
      <4>1. m.name \in Nat \X Nat
        BY DEF GoodMessage, Message
      <4> HIDE DEF c
      <4> QED BY <2>2, <2>8, <3>1, <4>1 DEF HasSNI
    <3>3. b.payload = Bytes(m)
      <4>1. ~b.reframed
        BY <1>3
      <4> QED BY <2>2, <4>1 DEF SoundBuilder, FirstRecord
    <3> HIDE DEF c
    <3>4. c \in 1..m.name[2] - 1 /\ c \in 1..m.body - 1 /\ c \in Int
      BY <2>7, <3>2
    <3>5. \A j \in 1..c : body[j] = j
      <4> TAKE j \in 1..c
      <4>0. m.have \in Nat
        BY DEF GoodMessage, Message
      <4>1. j \in 1..m.body /\ j \in 1..m.have
        BY <2>2, <3>1, <3>2, <3>4, <4>0
      <4>2. Bytes(m)[5 + j] = j
        BY <2>2, <4>1, BytesAre DEF RecHdr
      <4> QED BY <2>4, <3>3, <4>1, <4>2
    <3>6. payload[5] = LenByte + c
      <4>1. 5 \in 1..5 + c
        BY <3>4
      <4> QED BY <2>7, <2>9, <4>1
    <3>7. \A j \in 1..c : payload[5 + j] = j
      <4> TAKE j \in 1..c
      <4>1. 5 + j \in 1..5 + c
        BY <3>4
      <4> QED BY <2>7, <2>9, <3>5, <4>1
    <3>8. 5 + c <= Len(payload)
      <4>1. Len(payload) \in Nat
        BY <2>9, LenProperties
      <4> QED BY <2>9, <3>4, <4>1
    <3> QED BY <3>4, <3>6, <3>7, <3>8 DEF RecHdr
  <2>15. Aimed(more.segs, Len(more.payload), d)
    <3>1. more.segs = <<>>
      BY <2>11, <2>12
    <3> QED BY <3>1 DEF Aimed
  <2> QED BY <2>2, <2>10, <2>11, <2>12, <2>13, <2>14, <2>15 DEF SoundBuilder, FirstRecord
<1> QED BY <1>2, <1>3

-----------------------------------------------------------------------------
(* The schedules.                                                           *)

\* No write of more than n bytes ends the host name.
Chunked(segs, n, m) ==
    \A i \in 1..Len(segs) : Len(segs[i].data) > n =>
        \A j \in 1..Len(segs[i].data) : segs[i].data[j] # m.name[2]

\* The first write is not all n bytes, and no two can be one.
Fronted(segs, n) ==
    /\ Len(segs) >= 2 /\ Len(segs[1].data) < n
    /\ \A j \in 2..Len(segs) : ~Mergeable(segs[j - 1], segs[j])

\* What a step of a strategy leaves behind for a hello.
Scheduled(o, b, m) ==
    /\ o.op \in {"chunk", "disorder", "oob"} => b.segs # <<>>
    /\ o.op = "chunk" /\ ~b.reframed /\ HasSNI(b.meta) => Chunked(b.segs, o.n, m)
    /\ o.op \in {"disorder", "oob"} => Fronted(b.segs, Len(b.payload))

LEMMA PositionIs ==
    ASSUME NEW meta \in Metas, NEW p, p.delta \in Int
    PROVE  Resolve(p, meta) \in Int /\ PayloadPos(p, meta) \in Int
<1>1. /\ meta.off \in Nat /\ meta.len \in Nat
      /\ meta.sni[1] \in Nat /\ meta.sni[2] \in Nat
      /\ meta.host[1] \in Nat /\ meta.host[2] \in Nat
  BY DEF Metas
<1>2. /\ meta.sni[1] + (meta.sni[2] - meta.sni[1]) \div 2 \in Int /\ meta.len \div 2 \in Int
      /\ 0 \in Int /\ -1 \in Int
  BY <1>1
<1> DEFINE base == CASE p.anchor = "abs" -> 0
                  [] p.anchor = "snistart" /\ HasSNI(meta) -> meta.sni[1]
                  [] p.anchor = "snimid" /\ HasSNI(meta) ->
                       meta.sni[1] + (meta.sni[2] - meta.sni[1]) \div 2
                  [] p.anchor = "sniend" /\ HasSNI(meta) -> meta.sni[2]
                  [] p.anchor = "bodymid" /\ meta.len > 0 -> meta.len \div 2
                  [] p.anchor = "hoststart" /\ HasHost(meta) -> meta.host[1]
                  [] p.anchor = "hostend" /\ HasHost(meta) -> meta.host[2]
                  [] OTHER -> -1
<1>3. base \in Int
  BY <1>1, <1>2
<1>4. Resolve(p, meta) = IF base < 0 \/ base + p.delta < 0 THEN -1 ELSE base + p.delta
  BY DEF Resolve
<1> HIDE DEF base
<1>5. Resolve(p, meta) \in Int
  BY <1>3, <1>4
<1>6. PayloadPos(p, meta) = Resolve(p, meta) + meta.off \/ PayloadPos(p, meta) = Resolve(p, meta)
  BY DEF PayloadPos
<1> QED BY <1>1, <1>5, <1>6

(* One cut: a schedule of one write or of two.                              *)
LEMMA SplitOpOK ==
    ASSUME NEW b, NEW m, NEW d, GoodMessage(m), SoundBuilder(b, m, d), ~b.bad, NEW o \in Operation,
           NEW r, r = SplitOp(b, o)
    PROVE  /\ SoundBuilder(r, m, d)
           /\ ~r.bad =>
                /\ b.segs = <<>> /\ r.segs # <<>> /\ r.payload = b.payload
                /\ \A k \in 1..Len(r.segs) : r.segs[k].kind = "stream" /\ r.segs[k].ttl = 0
                /\ Len(r.segs) >= 2 => Len(r.segs) = 2 /\ Len(r.segs[1].data) < Len(b.payload)
<1>1. /\ b \in Builder /\ b.payload \in Seq(Int) /\ Len(b.payload) \in Nat /\ b.meta \in Metas
  BY LenProperties DEF SoundBuilder, Builder
<1>2. o.pos.delta \in Int
  BY DEF Operation
<1> DEFINE pos == PayloadPos(o.pos, b.meta)
           n   == Len(b.payload)
           offsets == <<pos>>
           cuts == Clean(offsets, n)
<1>3. pos \in Int
  BY <1>1, <1>2, PositionIs
<1>4. CASE pos < 0
  <2>1. r = Failed(b)
    BY <1>4 DEF SplitOp
  <2> QED BY <2>1, FailedOK
<1>5. CASE ~(pos < 0)
  <2>1. r = SplitAt(b, offsets)
    BY <1>5 DEF SplitOp
  <2> HIDE DEF pos
  <2>2. offsets \in Seq(Int) /\ Len(offsets) = 1 /\ offsets[1] = pos
    BY <1>3
  <2> HIDE DEF offsets
  <2>3. /\ SoundBuilder(r, m, d)
        /\ ~r.bad =>
             /\ b.segs = <<>> /\ r.segs # <<>> /\ r.payload = b.payload
             /\ r.meta = b.meta /\ r.reframed = b.reframed
             /\ cuts \in Growing(n)
             /\ Len(r.segs) = Len(cuts) + 1
             /\ \A k \in 1..Len(cuts) + 1 : r.segs[k] = Stream(Pieces(b.payload, cuts)[k])
    BY <2>1, <2>2, SplitAtOK
  <2>4. Len(cuts) = 0 \/ (Len(cuts) = 1 /\ cuts[1] = pos /\ pos < n)
    <3>1. PICK kept :
             /\ Clean(offsets, n) = kept[Len(offsets)]
             /\ kept[0] = <<>>
             /\ \A k \in 0..Len(offsets) : kept[k] \in Growing(n)
             /\ \A k \in 1..Len(offsets) :
                  kept[k] = IF /\ offsets[k] > (IF kept[k - 1] = <<>> THEN 0
                                                ELSE kept[k - 1][Len(kept[k - 1])])
                               /\ offsets[k] < n
                            THEN Append(kept[k - 1], offsets[k]) ELSE kept[k - 1]
      BY <1>1, <2>2, CleanSteps
    <3>2. 1 \in 1..Len(offsets) /\ 1 - 1 = 0
      BY <2>2
    <3>3. (cuts = Append(<<>>, pos) /\ pos < n) \/ cuts = <<>>
      BY <2>2, <3>1, <3>2
    <3> HIDE DEF cuts
    <3> QED BY <1>3, <3>3
  <2>5. ASSUME ~r.bad
        PROVE  /\ \A k \in 1..Len(r.segs) : r.segs[k].kind = "stream" /\ r.segs[k].ttl = 0
               /\ Len(r.segs) >= 2 => Len(r.segs) = 2 /\ Len(r.segs[1].data) < n
    <3>1. \A k \in 1..Len(r.segs) : r.segs[k].kind = "stream" /\ r.segs[k].ttl = 0
      <4> TAKE k \in 1..Len(r.segs)
      <4> HIDE DEF cuts
      <4>1. r.segs[k] = Stream(Pieces(b.payload, cuts)[k])
        BY <2>3, <2>5
      <4> QED BY <4>1 DEF Stream
    <3>2. ASSUME Len(r.segs) >= 2 PROVE Len(r.segs) = 2 /\ Len(r.segs[1].data) < n
      <4>1. Len(cuts) = 1 /\ cuts[1] = pos /\ pos < n /\ Len(r.segs) = 2
        <5> HIDE DEF cuts
        <5>1. Len(r.segs) = Len(cuts) + 1
          BY <2>3, <2>5
        <5>2. Len(cuts) # 0
          BY <3>2, <5>1
        <5>3. Len(cuts) = 1 /\ cuts[1] = pos /\ pos < n
          BY <2>4, <5>2
        <5>4. Len(r.segs) = 2
          BY <5>1, <5>3
        <5> QED BY <5>3, <5>4
      <4>2. IsPiece(Pieces(b.payload, cuts)[1], b.payload, cuts, 1)
        <5>1. cuts \in Growing(n) /\ 1 \in 1..Len(cuts) + 1
          BY <2>3, <2>5, <4>1
        <5> HIDE DEF cuts
        <5> QED BY <1>1, <5>1, PiecesAre
      <4>3. From(cuts, 1) = 0 /\ To(b.payload, cuts, 1) = pos
        BY <4>1 DEF From, To
      <4>4. r.segs[1] = Stream(Pieces(b.payload, cuts)[1])
        <5>1. 1 \in 1..Len(cuts) + 1
          BY <4>1
        <5> QED BY <2>3, <2>5, <5>1
      <4>5. Len(Pieces(b.payload, cuts)[1]) = pos - 0
        <5> HIDE DEF cuts
        <5> QED BY <4>2, <4>3 DEF IsPiece
      <4>6. r.segs[1].data = Pieces(b.payload, cuts)[1]
        BY <4>4 DEF Stream
      <4> HIDE DEF cuts
      <4> QED BY <1>3, <4>1, <4>5, <4>6
    <3> QED BY <3>1, <3>2
  <2> QED BY <2>3, <2>5
<1> QED BY <1>3, <1>4, <1>5

LEMMA DisorderOK ==
    ASSUME NEW b, NEW m, NEW d, GoodMessage(m), SoundBuilder(b, m, d), ~b.bad, NEW o \in Operation,
           o.op = "disorder", o.n > 0, d, NEW r, r = DisorderOp(b, o)
    PROVE  SoundBuilder(r, m, d) /\ (~r.bad => b.segs = <<>> /\ Scheduled(o, r, m))
<1> DEFINE cut == SplitOp(b, o)
<1>1. o.n \in Int /\ o.n # 0
  BY DEF Operation
<1>2. /\ SoundBuilder(cut, m, d)
      /\ ~cut.bad =>
           /\ b.segs = <<>> /\ cut.segs # <<>> /\ cut.payload = b.payload
           /\ \A k \in 1..Len(cut.segs) : cut.segs[k].kind = "stream" /\ cut.segs[k].ttl = 0
           /\ Len(cut.segs) >= 2 => Len(cut.segs) = 2 /\ Len(cut.segs[1].data) < Len(b.payload)
  BY SplitOpOK
<1>3. r = IF cut.bad \/ Len(cut.segs) < 2 THEN Failed(b) ELSE SetSegTTL(cut, o.n)
  BY DEF DisorderOp
<1> HIDE DEF cut
<1>4. CASE cut.bad \/ Len(cut.segs) < 2
  <2>1. r = Failed(b)
    BY <1>3, <1>4
  <2> QED BY <2>1, FailedOK
<1>5. CASE ~(cut.bad \/ Len(cut.segs) < 2) /\ "ttl" \notin cut.caps
  <2>1. r = Failed(cut)
    BY <1>3, <1>5 DEF SetSegTTL
  <2> QED BY <1>2, <2>1, FailedOK
<1>6. CASE ~(cut.bad \/ Len(cut.segs) < 2) /\ "ttl" \in cut.caps
  <2>1. cut \in Builder /\ cut.segs \in Seq(Segment) /\ Len(cut.segs) = 2
    <3>1. cut \in Builder /\ cut.segs \in Seq(Segment)
      BY <1>2 DEF SoundBuilder, Builder
    <3>2. Len(cut.segs) \in Nat
      BY <3>1, LenProperties
    <3> QED BY <1>2, <1>6, <3>1, <3>2
  <2> DEFINE first == [cut.segs[1] EXCEPT !.ttl = o.n]
             segs  == [cut.segs EXCEPT ![1] = first]
  <2>2. r = [cut EXCEPT !.segs = segs]
    BY <1>3, <1>6, <2>1 DEF SetSegTTL
  <2>3. cut.segs[1] \in Segment /\ cut.segs[2] \in Segment
    BY <2>1, ElementOfSeq
  <2>4. /\ first \in Segment /\ first.data = cut.segs[1].data /\ first.ttl = o.n
        /\ first.kind = "stream"
    <3>1. cut.segs[1].kind = "stream"
      BY <1>2, <1>6, <2>1
    <3> QED BY <1>1, <2>3, <3>1 DEF Segment
  <2> HIDE DEF first
  <2>5. segs \in Seq(Segment) /\ Len(segs) = 2 /\ segs[1] = first /\ segs[2] = cut.segs[2]
    BY <2>1, <2>4
  <2> HIDE DEF segs
  <2>6. segs[2].ttl = 0 /\ Len(segs[1].data) < Len(cut.payload)
    BY <1>2, <1>6, <2>1, <2>4, <2>5
  <2>7. Aimed(segs, Len(cut.payload), d)
    <3> SUFFICES ASSUME NEW i \in 1..Len(segs), segs[i].ttl # 0
                 PROVE  d /\ Len(segs[i].data) < Len(cut.payload) /\ Decoys(segs, i - 1)
      BY DEF Aimed
    <3>1. i = 1
      BY <2>5, <2>6
    <3> QED BY <2>6, <3>1 DEF Decoys
  <2>8. SoundBuilder(r, m, d)
    <3>1. SoundBuilder(cut, m, d) /\ segs \in Seq(Segment)
      BY <1>2, <2>5
    <3>2. SoundBuilder([cut EXCEPT !.segs = segs], m, d)
      BY <2>7, <3>1, WithSegs
    <3> QED BY <2>2, <3>2
  <2>9. r.segs = segs /\ r.payload = cut.payload
    BY <2>1, <2>2 DEF Builder
  <2>10. Fronted(segs, Len(r.payload))
    <3> SUFFICES ASSUME NEW j \in 2..Len(segs) PROVE ~Mergeable(segs[j - 1], segs[j])
      BY <2>5, <2>6, <2>9 DEF Fronted
    <3>1. j = 2
      BY <2>5
    <3> QED BY <1>1, <2>4, <2>5, <2>6, <3>1 DEF Mergeable
  <2>11. segs # <<>>
    <3>1. Len(segs) # 0
      BY <2>5
    <3> QED BY <3>1
  <2> QED BY <1>2, <1>6, <2>8, <2>9, <2>10, <2>11 DEF Scheduled
<1> QED BY <1>4, <1>5, <1>6

LEMMA OobOK ==
    ASSUME NEW b, NEW m, NEW d, GoodMessage(m), SoundBuilder(b, m, d), ~b.bad, NEW o \in Operation,
           o.op = "oob", NEW r, r = OobOp(b, o)
    PROVE  SoundBuilder(r, m, d) /\ (~r.bad => b.segs = <<>> /\ Scheduled(o, r, m))
<1> DEFINE cut == SplitOp(b, o)
<1>2. /\ SoundBuilder(cut, m, d)
      /\ ~cut.bad =>
           /\ b.segs = <<>> /\ cut.segs # <<>> /\ cut.payload = b.payload
           /\ \A k \in 1..Len(cut.segs) : cut.segs[k].kind = "stream" /\ cut.segs[k].ttl = 0
           /\ Len(cut.segs) >= 2 => Len(cut.segs) = 2 /\ Len(cut.segs[1].data) < Len(b.payload)
  BY SplitOpOK
<1>3. r = IF cut.bad \/ Len(cut.segs) < 2 THEN Failed(b) ELSE MarkOOB(cut)
  BY DEF OobOp
<1> HIDE DEF cut
<1>4. CASE cut.bad \/ Len(cut.segs) < 2
  <2>1. r = Failed(b)
    BY <1>3, <1>4
  <2> QED BY <2>1, FailedOK
<1>5. CASE ~(cut.bad \/ Len(cut.segs) < 2) /\ "oob" \notin cut.caps
  <2>1. r = Failed(cut)
    BY <1>3, <1>5 DEF MarkOOB
  <2> QED BY <1>2, <2>1, FailedOK
<1>6. CASE ~(cut.bad \/ Len(cut.segs) < 2) /\ "oob" \in cut.caps
  <2>1. cut \in Builder /\ cut.segs \in Seq(Segment) /\ Len(cut.segs) = 2
    <3>1. cut \in Builder /\ cut.segs \in Seq(Segment)
      BY <1>2 DEF SoundBuilder, Builder
    <3>2. Len(cut.segs) \in Nat
      BY <3>1, LenProperties
    <3> QED BY <1>2, <1>6, <3>1, <3>2
  <2> DEFINE urgent == [kind |-> "oob", data |-> <<Junk>>, ttl |-> 0]
             segs   == InsertAt(cut.segs, 2, urgent)
  <2>2. r = [cut EXCEPT !.segs = segs]
    BY <1>3, <1>6, <2>1 DEF MarkOOB, Builder
  <2>3. urgent \in Segment /\ urgent.kind = "oob" /\ urgent.ttl = 0
    BY DEF Segment, Junk
  <2>4. cut.segs[1].kind = "stream" /\ cut.segs[1].ttl = 0 /\ cut.segs[2].ttl = 0
        /\ Len(cut.segs[1].data) < Len(cut.payload)
    BY <1>2, <1>6, <2>1
  <2> HIDE DEF urgent
  <2>5. /\ segs \in Seq(Segment) /\ Len(segs) = 3
        /\ segs[1] = cut.segs[1] /\ segs[2] = urgent /\ segs[3] = cut.segs[2]
    <3>0. ASSUME NEW k \in 0..Len(cut.segs)
          PROVE  /\ InsertAt(cut.segs, k + 1, urgent) \in Seq(Segment)
                 /\ Len(InsertAt(cut.segs, k + 1, urgent)) = Len(cut.segs) + 1
                 /\ \A i \in 1..Len(cut.segs) + 1 : InsertAt(cut.segs, k + 1, urgent)[i] =
                      IF i <= k THEN cut.segs[i] ELSE IF i = k + 1 THEN urgent
                      ELSE cut.segs[i - 1]
      <4>1. PICK s2, u2 : s2 = cut.segs /\ u2 = urgent
        OBVIOUS
      <4>2. s2 \in Seq(Segment) /\ u2 \in Segment /\ k \in 0..Len(s2)
        BY <2>1, <2>3, <4>1
      <4>3. /\ InsertAt(s2, k + 1, u2) \in Seq(Segment)
            /\ Len(InsertAt(s2, k + 1, u2)) = Len(s2) + 1
            /\ \A i \in 1..Len(s2) + 1 : InsertAt(s2, k + 1, u2)[i] =
                 IF i <= k THEN s2[i] ELSE IF i = k + 1 THEN u2 ELSE s2[i - 1]
        BY <4>2, InsertAtIs
      <4> QED BY <4>1, <4>3
    <3>1. PICK k \in 0..Len(cut.segs) : k = 1
      BY <2>1
    <3>2. /\ InsertAt(cut.segs, k + 1, urgent) \in Seq(Segment)
          /\ Len(InsertAt(cut.segs, k + 1, urgent)) = Len(cut.segs) + 1
          /\ \A i \in 1..Len(cut.segs) + 1 : InsertAt(cut.segs, k + 1, urgent)[i] =
               IF i <= k THEN cut.segs[i] ELSE IF i = k + 1 THEN urgent ELSE cut.segs[i - 1]
      BY <3>0
    <3>3. segs = InsertAt(cut.segs, k + 1, urgent)
      BY <3>1
    <3> HIDE DEF segs
    <3>4. segs \in Seq(Segment) /\ Len(segs) = 3
      BY <2>1, <3>2, <3>3
    <3>5. \A i \in 1..3 : segs[i] = IF i <= 1 THEN cut.segs[i] ELSE IF i = 2 THEN urgent
                                    ELSE cut.segs[i - 1]
      BY <2>1, <3>1, <3>2, <3>3
    <3> QED BY <3>4, <3>5
  <2> HIDE DEF segs
  <2>6. \A i \in 1..Len(segs) : segs[i].ttl = 0
    <3> TAKE i \in 1..Len(segs)
    <3>1. i = 1 \/ i = 2 \/ i = 3
      BY <2>5
    <3> QED BY <2>3, <2>4, <2>5, <3>1
  <2>7. Aimed(segs, Len(cut.payload), d)
    BY <2>6 DEF Aimed
  <2>8. SoundBuilder(r, m, d)
    <3>1. SoundBuilder(cut, m, d) /\ segs \in Seq(Segment)
      BY <1>2, <2>5
    <3>2. SoundBuilder([cut EXCEPT !.segs = segs], m, d)
      BY <2>7, <3>1, WithSegs
    <3> QED BY <2>2, <3>2
  <2>9. r.segs = segs /\ r.payload = cut.payload
    BY <2>1, <2>2 DEF Builder
  <2>10. Fronted(segs, Len(r.payload))
    <3> SUFFICES ASSUME NEW j \in 2..Len(segs) PROVE ~Mergeable(segs[j - 1], segs[j])
      BY <2>4, <2>5, <2>9 DEF Fronted
    <3>1. j = 2 \/ j = 3
      BY <2>5
    <3>2. j - 1 = 2 \/ j = 2
      BY <3>1
    <3> QED BY <2>3, <2>5, <3>2 DEF Mergeable
  <2>11. segs # <<>>
    BY <2>5
  <2> QED BY <1>2, <1>6, <2>8, <2>9, <2>10, <2>11 DEF Scheduled
<1> QED BY <1>4, <1>5, <1>6

(* A multiple of c, and the pieces of size c that n bytes take.             *)
LEMMA MultiplesGrow ==
    ASSUME NEW c \in Nat \ {0}, NEW i \in Nat, NEW j \in Nat, i < j
    PROVE  i * c < j * c /\ (i + 1) * c = i * c + c /\ i * c \in Nat /\ j * c \in Nat
<1>1. PICK e \in Nat : j = i + 1 + e
  <2>1. j - (i + 1) \in Nat /\ j = i + 1 + (j - (i + 1))
    OBVIOUS
  <2> QED BY <2>1
<1>2. j * c = i * c + c + e * c /\ (i + 1) * c = i * c + c
  BY <1>1
<1>3. e * c \in Nat /\ i * c \in Nat /\ j * c \in Nat
  OBVIOUS
<1> QED BY <1>2, <1>3

LEMMA PiecesNeeded ==
    ASSUME NEW n \in Nat, NEW c \in Nat \ {0}, c < n,
           NEW want, want = (n + c - 1) \div c
    PROVE  want \in Nat /\ want >= 2 /\ (want - 1) * c < n /\ n <= want * c
<1> DEFINE x == n + c - 1
<1>1. x \in Nat /\ want \in Int
  BY SMT
<1>2. want * c <= x /\ x < want * c + c
  <2> HIDE DEF x
  <2>1. want = x \div c
    BY DEF x
  <2>2. x = c * (x \div c) + (x % c) /\ x % c \in 0..c - 1
    BY <1>1
  <2>3. c * want = want * c
    BY <1>1
  <2> QED BY <1>1, <2>1, <2>2, <2>3
<1>3. want >= 2
  <2> SUFFICES ASSUME want <= 1 PROVE FALSE
    BY <1>1
  <2>1. want * c + c <= 2 * c
    <3>1. PICK e \in Nat : 1 = want + e
      <4>1. 1 - want \in Nat /\ 1 = want + (1 - want)
        BY <1>1
      <4> QED BY <4>1
    <3>2. 1 * c = want * c + e * c /\ e * c \in Nat
      BY <1>1, <3>1
    <3> QED BY <1>1, <3>2
  <2>2. x >= 2 * c
    OBVIOUS
  <2> QED BY <1>1, <1>2, <2>1, <2>2
<1>4. (want - 1) * c = want * c - c
  BY <1>1
<1> QED BY <1>1, <1>2, <1>3, <1>4

LEMMA ChunkOK ==
    ASSUME NEW b, NEW m, NEW d, GoodMessage(m), SoundBuilder(b, m, d), ~b.bad, NEW o \in Operation,
           o.op = "chunk", o.n > 0, NEW r, r = ChunkOp(b, o)
    PROVE  /\ SoundBuilder(r, m, d)
           /\ m.proto = "tls" /\ ~r.bad => b.segs = <<>> /\ Scheduled(o, r, m)
<1> DEFINE n    == Len(b.payload)
           c    == o.n
           want == (n + c - 1) \div c
           K    == Min({want - 1, MaxSegments - 1})
           offs == [k \in 1..K |-> k * c]
           Refused == \/ c >= n \/ MaxSegments < 2
                      \/ want > MaxSegments /\ HasSNI(b.meta)
                           /\ offs[Len(offs)] <= b.meta.off + b.meta.sni[2]
<1>1. /\ b \in Builder /\ b.payload \in Seq(Int) /\ n \in Nat /\ b.meta \in Metas
      /\ b.meta = Parse(m, b.payload)
  BY LenProperties DEF SoundBuilder, Builder
<1>2. c \in Nat \ {0} /\ MaxSegments \in Nat
  BY BudgetType DEF Operation
<1>3. r = IF Refused THEN Failed(b) ELSE SplitAt(b, offs)
  BY DEF ChunkOp
<1>4. CASE Refused
  <2>1. r = Failed(b)
    BY <1>3, <1>4
  <2> QED BY <2>1, FailedOK
<1>5. CASE ~Refused
  <2>1. c < n /\ MaxSegments >= 2
    BY <1>1, <1>2, <1>5
  <2>2. r = SplitAt(b, offs)
    BY <1>3, <1>5
  <2>3. want \in Nat /\ want >= 2 /\ (want - 1) * c < n /\ n <= want * c
    <3> HIDE DEF n, c
    <3> QED BY <1>1, <1>2, <2>1, PiecesNeeded
  <2>4. ~(want > MaxSegments /\ HasSNI(b.meta) /\ offs[Len(offs)] <= b.meta.off + b.meta.sni[2])
    BY <1>5, Zenon
  <2> HIDE DEF want, n
  <2>5. /\ K \in Nat /\ K >= 1 /\ K <= want - 1
        /\ K = want - 1 \/ (K = MaxSegments - 1 /\ want > MaxSegments)
    <3>1. want - 1 \in Int /\ MaxSegments - 1 \in Int
      BY <1>2, <2>3
    <3> DEFINE Vals == {want - 1, MaxSegments - 1}
    <3>2. \E x \in Vals : \A y \in Vals : x <= y
      BY <3>1
    <3>3. K \in Vals /\ \A y \in Vals : K <= y
      <4> HIDE DEF Vals
      <4>1. Min(Vals) \in Vals /\ \A y \in Vals : Min(Vals) <= y
        BY <3>2 DEF Min
      <4> QED BY <4>1 DEF Vals
    <3> HIDE DEF K
    <3> QED BY <1>2, <2>1, <2>3, <3>1, <3>3
  <2> HIDE DEF K
  <2>6. \A k \in 1..K : k * c \in 1..n - 1
    <3> HIDE DEF c
    <3> TAKE k \in 1..K
    <3>1. k \in Nat /\ k <= want - 1 /\ 0 \in Nat /\ 0 < k /\ want - 1 \in Nat
      BY <2>3, <2>5
    <3>2. k * c > 0
      <4>1. 0 * c < k * c /\ 0 * c = 0
        BY <1>2, <3>1, MultiplesGrow
      <4> QED BY <4>1
    <3>3. k * c <= (want - 1) * c
      <4>1. CASE k = want - 1
        BY <1>2, <3>1, <4>1
      <4>2. CASE k < want - 1
        <5>1. k * c < (want - 1) * c /\ k * c \in Nat /\ (want - 1) * c \in Nat
          <6>1. PICK w \in Nat : w = want - 1
            BY <3>1
          <6>2. k * c < w * c /\ k * c \in Nat /\ w * c \in Nat
            BY <1>2, <3>1, <4>2, <6>1, MultiplesGrow
          <6> QED BY <6>1, <6>2
        <5> QED BY <5>1
      <4> QED BY <3>1, <4>1, <4>2
    <3>4. k * c \in Int /\ (want - 1) * c \in Int
      BY <1>2, <3>1
    <3> QED BY <1>1, <2>3, <3>2, <3>3, <3>4
  <2>7. offs \in Seq(1..n - 1) /\ Len(offs) = K /\ \A k \in 1..K : offs[k] = k * c
    <3>1. offs \in [1..K -> 1..n - 1]
      BY <2>6
    <3>2. Len(offs) = K /\ \A k \in 1..K : offs[k] = k * c
      BY <2>5
    <3> HIDE DEF offs
    <3>3. offs \in Seq(1..n - 1)
      <4>1. ASSUME NEW Vals, NEW k \in Nat, NEW s \in [1..k -> Vals] PROVE s \in Seq(Vals)
        OBVIOUS
      <4>2. K \in Nat
        BY <2>5
      <4> DEFINE Vals == 1..n - 1
      <4>3. offs \in [1..K -> Vals]
        BY <3>1
      <4> HIDE DEF Vals
      <4>4. offs \in Seq(Vals)
        BY <4>1, <4>2, <4>3, Zenon
      <4> QED BY <4>4 DEF Vals
    <3> QED BY <3>2, <3>3
  <2> HIDE DEF offs
  <2>8. offs \in Growing(n) /\ offs \in Seq(Int)
    <3>1. ASSUME NEW k \in 2..Len(offs) PROVE offs[k - 1] < offs[k]
      <4>1. k \in 1..K /\ k - 1 \in 1..K /\ k \in Nat /\ k - 1 \in Nat /\ k - 1 < k
        BY <2>5, <2>7
      <4>2. (k - 1) * c < k * c
        <5> HIDE DEF c
        <5> QED BY <1>2, <4>1, MultiplesGrow
      <4> QED BY <2>7, <4>1, <4>2
    <3>2. offs \in Seq(Int)
      <4>1. 1..n - 1 \subseteq Int
        BY <1>1
      <4> QED BY <2>7, <4>1, SeqMonotonic
    <3> QED BY <2>7, <3>1, <3>2 DEF Growing
  <2>9. Clean(offs, n) = offs
    BY <1>1, <2>8, CleanIs
  <2>10. /\ SoundBuilder(r, m, d)
         /\ ~r.bad =>
              /\ b.segs = <<>> /\ r.segs # <<>> /\ r.payload = b.payload
              /\ r.meta = b.meta /\ r.reframed = b.reframed
              /\ offs \in Growing(n)
              /\ Len(r.segs) = Len(offs) + 1
              /\ \A k \in 1..Len(offs) + 1 : r.segs[k] = Stream(Pieces(b.payload, offs)[k])
    BY <2>2, <2>8, <2>9, SplitAtOK DEF n
  <2>11. ASSUME m.proto = "tls", ~r.bad, ~r.reframed, HasSNI(r.meta) PROVE Chunked(r.segs, c, m)
    <3>1. /\ b.payload = Bytes(m) /\ n = RecHdr + m.have /\ m.have \in Nat
          /\ \A i \in 1..m.have : b.payload[RecHdr + i] = i
      <4>1. b.payload = Bytes(m)
        BY <2>10, <2>11 DEF SoundBuilder, FirstRecord
      <4> QED BY <2>11, <4>1, BytesAre DEF n
    <3>2. /\ b.meta.off = 5 /\ b.meta.sni = m.name /\ HasSNI(b.meta)
          /\ m.name[2] \in Nat
      <4>0. m.name \in Nat \X Nat /\ Whole(m, b.payload)
        BY DEF GoodMessage, Message, SoundBuilder
      <4>1. b.meta.off = 5 /\ b.meta.sni = ClientHelloSNI(m)
        BY <1>1, <2>11, <4>0, ParseIs DEF RecHdr
      <4>2. HasSNI(b.meta)
        BY <2>10, <2>11
      <4> QED BY <4>0, <4>1, <4>2 DEF HasSNI, ClientHelloSNI
    <3> SUFFICES ASSUME NEW k \in 1..Len(r.segs), Len(r.segs[k].data) > c,
                        NEW j \in 1..Len(r.segs[k].data)
                 PROVE  r.segs[k].data[j] # m.name[2]
      BY DEF Chunked
    <3> DEFINE piece == Pieces(b.payload, offs)[k]
    <3>3. k \in 1..K + 1 /\ r.segs[k].data = piece
      <4>1. k \in 1..Len(offs) + 1 /\ k \in 1..K + 1
        BY <2>7, <2>10, <2>11
      <4>2. r.segs[k] = Stream(piece)
        BY <2>10, <2>11, <4>1
      <4> QED BY <4>1, <4>2 DEF Stream
    <3>4. IsPiece(piece, b.payload, offs, k)
      BY <1>1, <2>7, <2>8, <3>3, PiecesAre DEF n
    <3> HIDE DEF piece
    <3>5. From(offs, k) = (k - 1) * c
      <4>1. CASE k = 1
        <5>1. (k - 1) * c = 0
          BY <1>2, <4>1
        <5> QED BY <4>1, <5>1 DEF From
      <4>2. CASE k # 1
        <5>1. k - 1 \in 1..K
          BY <2>5, <3>3, <4>2
        <5> QED BY <2>7, <4>2, <5>1 DEF From
      <4> QED BY <4>1, <4>2
    <3>6. k = K + 1
      <4> SUFFICES ASSUME k # K + 1 PROVE FALSE
        OBVIOUS
      <4>1. k \in 1..K /\ k # Len(offs) + 1
        BY <2>5, <2>7, <3>3
      <4>2. To(b.payload, offs, k) = k * c
        BY <2>7, <4>1 DEF To
      <4>3. k - 1 \in Nat /\ k \in Nat /\ k - 1 < k /\ (k - 1) + 1 = k
        BY <4>1
      <4>4. k * c = (k - 1) * c + c /\ (k - 1) * c \in Nat
        <5> HIDE DEF c
        <5>1. PICK i \in Nat : i = k - 1
          BY <4>3
        <5>2. (i + 1) * c = i * c + c /\ i * c \in Nat
          BY <1>2, <4>3, <5>1, MultiplesGrow
        <5> QED BY <4>3, <5>1, <5>2
      <4>5. Len(piece) = c
        BY <1>2, <3>4, <3>5, <4>2, <4>4 DEF IsPiece
      <4> QED BY <1>2, <3>3, <4>5
    <3>7. To(b.payload, offs, k) = n /\ From(offs, k) = K * c
      <4>1. k = Len(offs) + 1 /\ k - 1 = K
        BY <2>5, <2>7, <3>6
      <4> QED BY <3>5, <4>1 DEF To, n
    <3>8. /\ Len(piece) = n - K * c /\ K * c \in Nat
          /\ \A i \in 1..n - K * c : piece[i] = b.payload[K * c + i]
      <4>1. K * c \in Nat
        BY <1>2, <2>5
      <4> QED BY <3>4, <3>7, <4>1 DEF IsPiece
    <3>9. K # want - 1
      <4> SUFFICES ASSUME K = want - 1 PROVE FALSE
        OBVIOUS
      <4>1. want * c = K * c + c
        <5> HIDE DEF c
        <5>1. K < want /\ K + 1 = want
          BY <2>3, <2>5
        <5>2. (K + 1) * c = K * c + c
          BY <1>2, <2>3, <2>5, <5>1, MultiplesGrow
        <5> QED BY <5>1, <5>2
      <4>2. n - K * c <= c
        BY <1>1, <1>2, <2>3, <3>8, <4>1
      <4> QED BY <1>1, <1>2, <3>3, <3>8, <4>2
    <3>10. K * c > 5 + m.name[2]
      <4>1. want > MaxSegments
        BY <2>5, <3>9
      <4>2. ~(offs[Len(offs)] <= b.meta.off + b.meta.sni[2])
        BY <2>4, <3>2, <4>1
      <4>3. offs[Len(offs)] = K * c
        BY <2>5, <2>7
      <4> QED BY <3>2, <3>8, <4>2, <4>3
    <3>11. /\ j \in 1..n - K * c /\ (K * c + j) - 5 \in 1..m.have /\ (K * c + j) - 5 > m.name[2]
           /\ 5 + ((K * c + j) - 5) = K * c + j
      <4>1. j \in 1..n - K * c /\ j \in Nat
        BY <3>3, <3>8
      <4> DEFINE kc == K * c
      <4>2. kc \in Nat /\ kc > 5 + m.name[2] /\ j \in 1..n - kc
        BY <3>8, <3>10, <4>1
      <4> HIDE DEF kc
      <4>3. j \in 1..n - kc /\ (kc + j) - 5 \in 1..m.have /\ (kc + j) - 5 > m.name[2]
            /\ 5 + ((kc + j) - 5) = kc + j
        <5>1. PICK have, x : have = m.have /\ x = m.name[2]
          OBVIOUS
        <5>2. /\ n = 5 + have /\ have \in Nat /\ x \in Nat
              /\ kc \in Nat /\ kc > 5 + x /\ j \in Nat /\ j \in 1..n - kc
          BY <3>1, <3>2, <4>1, <4>2, <5>1 DEF RecHdr
        <5> HIDE DEF n
        <5>3. (kc + j) - 5 \in 1..have /\ (kc + j) - 5 > x /\ 5 + ((kc + j) - 5) = kc + j
          BY <5>2
        <5> QED BY <5>1, <5>2, <5>3
      <4> QED BY <4>3 DEF kc
    <3>12. piece[j] = (K * c + j) - 5
      BY <3>1, <3>8, <3>11 DEF RecHdr
    <3> QED BY <3>2, <3>3, <3>11, <3>12
  <2> QED BY <2>10, <2>11 DEF Scheduled
<1> QED BY <1>4, <1>5

(* A sequence joined to another.                                            *)
LEMMA JoinedIs ==
    ASSUME NEW X, NEW s \in Seq(X), NEW t \in Seq(X)
    PROVE  /\ s \o t \in Seq(X) /\ Len(s) \in Nat /\ Len(t) \in Nat
           /\ Len(s \o t) = Len(s) + Len(t)
           /\ \A i \in 1..Len(s) + Len(t) :
                (s \o t)[i] = IF i <= Len(s) THEN s[i] ELSE t[i - Len(s)]
<1>1. Len(s) \in Nat /\ Len(t) \in Nat
  BY LenProperties
<1>2. /\ s \o t \in Seq(X) /\ Len(s \o t) = Len(s) + Len(t)
      /\ \A i \in 1..Len(s) + Len(t) :
           (s \o t)[i] = IF i <= Len(s) THEN s[i] ELSE t[i - Len(s)]
  BY ConcatProperties
<1> QED BY <1>1, <1>2

(* The re-framing operations.                                               *)
LEMMA TlsFragOK ==
    ASSUME NEW b, NEW m, NEW d, GoodMessage(m), SoundBuilder(b, m, d), ~b.bad, NEW o \in Operation,
           NEW r, r = TlsFrag(b, o)
    PROVE  SoundBuilder(r, m, d) /\ (~r.bad => b.segs = <<>>)
<1> DEFINE cut == Resolve(o.pos, b.meta)
           cuts == <<cut>>
<1>1. cut \in Int
  BY PositionIs DEF SoundBuilder, Builder, Operation
<1>2. r = Failed(b) \/ r = ReframeFirstRecord(b, cuts)
  BY DEF TlsFrag
<1> HIDE DEF cut
<1>3. cuts \in Seq(Int)
  BY <1>1
<1> HIDE DEF cuts
<1> QED BY <1>2, <1>3, FailedOK, ReframeOK

LEMMA TlsEveryOK ==
    ASSUME NEW b, NEW m, NEW d, GoodMessage(m), SoundBuilder(b, m, d), ~b.bad,
           NEW o \in Operation, o.n > 0,
           NEW r, r = TlsEvery(b, o)
    PROVE  SoundBuilder(r, m, d) /\ (~r.bad => b.segs = <<>>)
<1> DEFINE K == (b.meta.len - 1) \div o.n
           cuts == [k \in 1..K |-> k * o.n]
<1>1. o.n \in Nat \ {0} /\ b.meta.len \in Nat
  BY DEF Operation, SoundBuilder, Builder, Metas
<1>2. r = Failed(b) \/ r = ReframeFirstRecord(b, cuts)
  BY DEF TlsEvery
<1>3. K \in Int
  BY <1>1
<1> HIDE DEF K
<1>4. cuts \in Seq(Int)
  <2>1. CASE K >= 0
    <3>1. K \in Nat
      BY <1>3, <2>1
    <3>2. cuts \in [1..K -> Int]
      BY <1>1
    <3> HIDE DEF cuts
    <3> QED BY <3>1, <3>2
  <2>2. CASE K < 0
    <3>1. cuts \in [1..0 -> Int]
      BY <1>1, <1>3, <2>2
    <3> HIDE DEF cuts
    <3> QED BY <3>1
  <2> QED BY <1>3, <2>1, <2>2
<1> HIDE DEF cuts
<1> QED BY <1>2, <1>4, FailedOK, ReframeOK

(* Decoys before the datagram.                                              *)
LEMMA QuicFakeOK ==
    ASSUME NEW b, NEW m, NEW d, GoodMessage(m), SoundBuilder(b, m, d), ~b.bad,
           NEW o \in Operation, o.n > 0,
           NEW r, r = QuicFake(b, o)
    PROVE  SoundBuilder(r, m, d) /\ (~r.bad => m.proto = "quic")
<1> DEFINE real  == IF b.segs = <<>> THEN <<Stream(b.payload)>> ELSE b.segs
           fakes == [k \in 1..o.n |-> [kind |-> "decoy", data |-> <<Decoy>>, ttl |-> 4]]
           segs  == fakes \o real
           more  == [b EXCEPT !.segs = segs]
           n     == Len(b.payload)
<1>1. /\ b \in Builder /\ b.payload \in Seq(Int) /\ b.segs \in Seq(Segment) /\ o.n \in Nat
      /\ b.meta = Parse(m, b.payload) /\ Whole(m, b.payload) /\ Aimed(b.segs, n, d)
  BY DEF Operation, SoundBuilder, Builder
<1>2. r = IF ~IsInitial(b.meta) THEN Failed(b) ELSE more
  BY DEF QuicFake
<1>3. real \in Seq(Segment) /\ Aimed(real, n, d)
  <2>1. CASE b.segs = <<>>
    <3>1. Stream(b.payload) \in Segment /\ Stream(b.payload).ttl = 0
      BY <1>1 DEF Stream, Segment
    <3>2. real = <<Stream(b.payload)>>
      BY <2>1
    <3>3. real \in Seq(Segment) /\ \A i \in 1..Len(real) : real[i].ttl = 0
      <4>1. PICK x : x = Stream(b.payload)
        OBVIOUS
      <4>2. real = <<x>> /\ x \in Segment /\ x.ttl = 0
        BY <3>1, <3>2, <4>1
      <4> HIDE DEF real
      <4>3. real \in Seq(Segment) /\ Len(real) = 1 /\ real[1] = x
        BY <4>2
      <4> QED BY <4>2, <4>3
    <3> QED BY <3>3 DEF Aimed
  <2>2. CASE b.segs # <<>>
    BY <1>1, <2>2
  <2> QED BY <2>1, <2>2
<1>4. /\ fakes \in Seq(Segment) /\ Len(fakes) = o.n
      /\ \A i \in 1..o.n : fakes[i].kind = "decoy"
  <2>1. [kind |-> "decoy", data |-> <<Decoy>>, ttl |-> 4] \in Segment
    BY DEF Segment, Decoy
  <2>2. fakes \in [1..o.n -> Segment]
    BY <2>1
  <2>3. \A i \in 1..o.n : fakes[i].kind = "decoy"
    OBVIOUS
  <2> HIDE DEF fakes
  <2> QED BY <1>1, <2>2, <2>3
<1> HIDE DEF real, fakes
<1>5. /\ segs \in Seq(Segment) /\ Len(real) \in Nat /\ Len(segs) = o.n + Len(real)
      /\ \A i \in 1..o.n + Len(real) : segs[i] = IF i <= o.n THEN fakes[i] ELSE real[i - o.n]
  <2>1. /\ fakes \o real \in Seq(Segment) /\ Len(fakes) \in Nat /\ Len(real) \in Nat
        /\ Len(fakes \o real) = Len(fakes) + Len(real)
        /\ \A i \in 1..Len(fakes) + Len(real) :
             (fakes \o real)[i] = IF i <= Len(fakes) THEN fakes[i] ELSE real[i - Len(fakes)]
    BY <1>3, <1>4, JoinedIs
  <2> QED BY <1>4, <2>1
<1> HIDE DEF segs
<1>6. Aimed(segs, n, d)
  <2> SUFFICES ASSUME NEW i \in 1..Len(segs), segs[i].ttl # 0, segs[i].kind # "decoy"
               PROVE  d /\ Len(segs[i].data) < n /\ Decoys(segs, i - 1)
    BY DEF Aimed
  <2>1. ~(i <= o.n) /\ i - o.n \in 1..Len(real) /\ i \in 1..o.n + Len(real)
    <3>1. i \in 1..o.n + Len(real)
      BY <1>5
    <3>2. i <= o.n => i \in 1..o.n /\ segs[i] = fakes[i]
      BY <1>1, <1>5, <3>1
    <3>3. ~(i <= o.n)
      BY <1>4, <3>2
    <3> QED BY <1>1, <1>5, <3>1, <3>3
  <2>2. segs[i] = real[i - o.n]
    BY <1>5, <2>1
  <2>3. d /\ Len(segs[i].data) < n /\ Decoys(real, (i - o.n) - 1)
    BY <1>3, <2>1, <2>2 DEF Aimed
  <2>4. ASSUME NEW k \in 1..i - 1 PROVE segs[k].kind = "decoy"
    <3>1. CASE k <= o.n
      <4>1. k \in 1..o.n /\ k \in 1..o.n + Len(real)
        BY <1>1, <1>5, <2>1, <3>1
      <4> QED BY <1>4, <1>5, <3>1, <4>1
    <3>2. CASE ~(k <= o.n)
      <4>1. k - o.n \in 1..(i - o.n) - 1 /\ k \in 1..o.n + Len(real)
        <5>1. PICK a, z : a = o.n /\ z = Len(real)
          OBVIOUS
        <5>2. a \in Int /\ a > 0 /\ z \in Nat /\ i \in 1..a + z /\ k \in 1..i - 1 /\ ~(k <= a)
          BY <1>1, <1>5, <2>1, <3>2, <5>1
        <5>3. k - a \in 1..(i - a) - 1 /\ k \in 1..a + z
          BY <5>2
        <5> QED BY <5>1, <5>3
      <4> QED BY <1>5, <2>3, <3>2, <4>1 DEF Decoys
    <3> QED BY <3>1, <3>2
  <2> QED BY <2>3, <2>4 DEF Decoys
<1>7. CASE ~IsInitial(b.meta)
  <2>1. r = Failed(b)
    BY <1>2, <1>7
  <2> QED BY <2>1, FailedOK
<1>8. CASE IsInitial(b.meta)
  <2>1. r = more /\ SoundBuilder(more, m, d)
    BY <1>2, <1>5, <1>6, <1>8, WithSegs
  <2>2. m.proto = "quic"
    BY <1>1, <1>8, ParseIs DEF IsInitial
  <2> QED BY <2>1, <2>2
<1> QED BY <1>7, <1>8

-----------------------------------------------------------------------------
(* The rewrites of the Host header.                                         *)

LEMMA MutateOK ==
    ASSUME NEW b, NEW m, NEW d, GoodMessage(m), SoundBuilder(b, m, d), ~b.bad,
           NEW payload \in Seq(Int), Whole(m, payload), NEW r, r = Mutate(b, m, payload)
    PROVE  SoundBuilder(r, m, d) /\ (~r.bad => m.proto = "http")
<1> DEFINE more == [b EXCEPT !.payload = payload, !.meta = Parse(m, payload), !.segs = <<>>]
<1>1. b \in Builder /\ b.meta = Parse(m, b.payload) /\ b.payload \in Seq(Int)
      /\ Whole(m, b.payload)
  BY DEF SoundBuilder, Builder
<1>2. CASE ~HasHost(b.meta) \/ ~b.meta.complete
  <2>1. r = Failed(b)
    BY <1>2 DEF Mutate
  <2> QED BY <2>1, FailedOK
<1>3. CASE ~(~HasHost(b.meta) \/ ~b.meta.complete)
  <2>1. r = more
    BY <1>3 DEF Mutate
  <2>2. m.proto = "http"
    BY <1>1, <1>3, ParseIs
  <2>3. Parse(m, payload) \in Metas
    BY ParseIs
  <2>4. more \in Builder /\ more.payload = payload /\ more.meta = Parse(m, payload)
        /\ more.segs = <<>>
    <3>1. <<>> \in Seq(Segment)
      BY EmptySeq
    <3> QED BY <1>1, <2>3, <3>1 DEF Builder
  <2>5. Aimed(more.segs, Len(more.payload), d)
    BY <2>4 DEF Aimed
  <2> QED BY <2>1, <2>2, <2>4, <2>5 DEF SoundBuilder
<1> QED BY <1>2, <1>3

(* A request with bytes put into it.                                        *)
LEMMA StillWhole ==
    ASSUME NEW m, GoodMessage(m), NEW payload \in Seq(Int), Whole(m, payload),
           NEW more \in Seq(Int),
           \A i \in 1..Len(payload) : \E j \in 1..Len(more) :
               Magnitude(more[j]) = Magnitude(payload[i]),
           \A j \in 1..Len(more) :
               \/ Magnitude(more[j]) \in {Filler, Dot}
               \/ \E i \in 1..Len(payload) : Magnitude(more[j]) = Magnitude(payload[i])
    PROVE  Whole(m, more)
<1> SUFFICES ASSUME m.proto = "http"
             PROVE  /\ \A k \in 1..m.have : \E i \in 1..Len(more) : Magnitude(more[i]) = k
                    /\ \A i \in 1..Len(more) : Magnitude(more[i]) \in {Filler, Dot} \cup 1..m.have
  BY DEF Whole
<1>1. /\ \A k \in 1..m.have : \E i \in 1..Len(payload) : Magnitude(payload[i]) = k
      /\ \A i \in 1..Len(payload) : Magnitude(payload[i]) \in {Filler, Dot} \cup 1..m.have
  BY DEF Whole
<1>2. ASSUME NEW k \in 1..m.have PROVE \E i \in 1..Len(more) : Magnitude(more[i]) = k
  BY <1>1
<1>3. ASSUME NEW i \in 1..Len(more) PROVE Magnitude(more[i]) \in {Filler, Dot} \cup 1..m.have
  BY <1>1
<1> QED BY <1>2, <1>3

LEMMA HostSpellOK ==
    ASSUME NEW b, NEW m, NEW d, GoodMessage(m), SoundBuilder(b, m, d), ~b.bad, NEW r,
           r = HostSpell(b, m)
    PROVE  SoundBuilder(r, m, d) /\ (~r.bad => m.proto = "http")
<1> DEFINE l == b.meta.label
           s == b.payload
           t == [i \in DOMAIN s |-> IF i \in l[1]+1..l[2] THEN -s[i] ELSE s[i]]
<1>1. s \in Seq(Int) /\ Whole(m, s) /\ Len(s) \in Nat /\ \A i \in 1..Len(s) : s[i] \in Int
  BY LenProperties, ElementOfSeq DEF SoundBuilder, Builder
<1>2. r = Failed(b) \/ r = Mutate(b, m, t)
  BY DEF HostSpell
<1>3. \A x \in Int : Magnitude(-x) = Magnitude(x) /\ -x \in Int
  BY DEF Magnitude
<1> HIDE DEF l
<1>4. /\ t \in Seq(Int) /\ Len(t) = Len(s)
      /\ \A i \in 1..Len(s) : Magnitude(t[i]) = Magnitude(s[i])
  <2>1. DOMAIN s = 1..Len(s)
    BY <1>1, LenProperties
  <2>2. \A i \in 1..Len(s) : t[i] = -s[i] \/ t[i] = s[i]
    BY <2>1
  <2>3. \A i \in 1..Len(s) : t[i] \in Int /\ Magnitude(t[i]) = Magnitude(s[i])
    <3> HIDE DEF t, s
    <3> TAKE i \in 1..Len(s)
    <3>1. s[i] \in Int
      BY <1>1
    <3>2. PICK x \in Int : x = s[i]
      BY <3>1
    <3>3. Magnitude(-x) = Magnitude(x) /\ -x \in Int
      BY <1>3
    <3>4. t[i] = -x \/ t[i] = x
      BY <2>2, <3>2
    <3> QED BY <3>2, <3>3, <3>4
  <2>4. t \in [1..Len(s) -> Int] /\ DOMAIN t = 1..Len(s)
    BY <2>1, <2>3
  <2> HIDE DEF t, s
  <2>5. t \in Seq(Int) /\ Len(t) = Len(s)
    BY <1>1, <2>4
  <2> QED BY <2>3, <2>5
<1> HIDE DEF t
<1>5. Whole(m, t)
  <2> HIDE DEF s
  <2> QED BY <1>1, <1>4, StillWhole
<1> QED BY <1>2, <1>4, <1>5, FailedOK, MutateOK

\* t is s with n bytes of the program's put in behind the k-th.
Widened(t, s, k, n) ==
    /\ k \in 0..Len(s) /\ n \in Nat \ {0} /\ Len(t) = Len(s) + n
    /\ \A i \in 1..k : t[i] = s[i]
    /\ \A i \in k + 1..k + n : t[i] \in {Filler, Dot}
    /\ \A i \in k + 1..Len(s) : t[i + n] = s[i]

(* A dot behind the k-th byte, and n bytes of padding.                      *)
LEMMA DotIs ==
    ASSUME NEW s \in Seq(Int), NEW k \in 0..Len(s), NEW t, t = InsertAt(s, k + 1, Dot)
    PROVE  t \in Seq(Int) /\ Widened(t, s, k, 1)
<1>1. Len(s) \in Nat
  BY LenProperties
<1>2. /\ t \in Seq(Int) /\ Len(t) = Len(s) + 1
      /\ \A i \in 1..Len(s) + 1 : t[i] = IF i <= k THEN s[i] ELSE IF i = k + 1 THEN Dot
                                         ELSE s[i - 1]
  <2>1. PICK X, x : X = Int /\ x = Dot
    OBVIOUS
  <2>2. s \in Seq(X) /\ x \in X
    BY <2>1 DEF Dot
  <2>3. /\ InsertAt(s, k + 1, x) \in Seq(X) /\ Len(InsertAt(s, k + 1, x)) = Len(s) + 1
        /\ \A i \in 1..Len(s) + 1 : InsertAt(s, k + 1, x)[i] =
             IF i <= k THEN s[i] ELSE IF i = k + 1 THEN x ELSE s[i - 1]
    BY <2>2, InsertAtIs
  <2> QED BY <2>1, <2>3
<1>3. \A i \in 1..k : t[i] = s[i]
  <2>1. \A i \in 1..k : i \in 1..Len(s) + 1 /\ i <= k
    BY <1>1
  <2> QED BY <1>2, <2>1
<1>4. \A i \in k + 1..k + 1 : t[i] = Dot
  <2>1. \A i \in k + 1..k + 1 : i = k + 1 /\ i \in 1..Len(s) + 1 /\ ~(i <= k)
    BY <1>1
  <2> QED BY <1>2, <2>1
<1>5. \A i \in k + 1..Len(s) : t[i + 1] = s[i]
  <2>1. \A i \in k + 1..Len(s) :
          i + 1 \in 1..Len(s) + 1 /\ ~(i + 1 <= k) /\ i + 1 # k + 1 /\ (i + 1) - 1 = i
    BY <1>1
  <2> QED BY <1>2, <2>1
<1> QED BY <1>2, <1>3, <1>4, <1>5 DEF Widened

LEMMA PadIs ==
    ASSUME NEW s \in Seq(Int), NEW k \in 0..Len(s), NEW n \in Nat \ {0},
           NEW t, t = SubSeq(s, 1, k) \o [i \in 1..n |-> Filler] \o SubSeq(s, k + 1, Len(s))
    PROVE  t \in Seq(Int) /\ Widened(t, s, k, n)
<1> DEFINE front == SubSeq(s, 1, k)
           pad == [i \in 1..n |-> Filler]
           back == SubSeq(s, k + 1, Len(s))
           fp == front \o pad
<1>1. Len(s) \in Nat /\ t = fp \o back
  BY LenProperties
<1>5. front \in Seq(Int) /\ Len(front) = k /\ \A i \in 1..k : front[i] = s[i]
  <2>1. /\ SubSeq(s, 1, k) \in Seq(Int)
        /\ Len(SubSeq(s, 1, k)) = IF 1 <= k THEN (k - 1) + 1 ELSE 0
        /\ \A i \in 1..Len(SubSeq(s, 1, k)) : SubSeq(s, 1, k)[i] = s[(1 + i) - 1]
    <3>1. PICK a \in Nat \ {0} : a = 1
      OBVIOUS
    <3>2. k \in Int /\ k <= Len(s)
      BY <1>1
    <3>3. /\ SubSeq(s, a, k) \in Seq(Int)
          /\ Len(SubSeq(s, a, k)) = IF a <= k THEN (k - a) + 1 ELSE 0
          /\ \A i \in 1..Len(SubSeq(s, a, k)) : SubSeq(s, a, k)[i] = s[(a + i) - 1]
      BY <1>1, <3>2, PartOf
    <3> QED BY <3>1, <3>3
  <2>2. (IF 1 <= k THEN (k - 1) + 1 ELSE 0) = k /\ \A i \in 1..k : (1 + i) - 1 = i
    BY <1>1
  <2> QED BY <2>1, <2>2
<1>6. pad \in Seq(Int) /\ Len(pad) = n /\ \A i \in 1..n : pad[i] = Filler
  <2>1. pad \in [1..n -> Int] /\ n \in Nat
    BY DEF Filler
  <2>2. \A i \in 1..n : pad[i] = Filler
    OBVIOUS
  <2> HIDE DEF pad
  <2> QED BY <2>1, <2>2
<1>7. back \in Seq(Int) /\ Len(back) = Len(s) - k /\ \A i \in 1..Len(s) - k : back[i] = s[k + i]
  <2>1. k + 1 \in Nat \ {0} /\ Len(s) \in Int /\ Len(s) <= Len(s)
    BY <1>1
  <2>2. /\ SubSeq(s, k + 1, Len(s)) \in Seq(Int)
        /\ Len(SubSeq(s, k + 1, Len(s))) = IF k + 1 <= Len(s) THEN (Len(s) - (k + 1)) + 1 ELSE 0
        /\ \A i \in 1..Len(SubSeq(s, k + 1, Len(s))) :
             SubSeq(s, k + 1, Len(s))[i] = s[((k + 1) + i) - 1]
    BY <1>1, <2>1, PartOf
  <2>3. /\ (IF k + 1 <= Len(s) THEN (Len(s) - (k + 1)) + 1 ELSE 0) = Len(s) - k
        /\ \A i \in 1..Len(s) - k : ((k + 1) + i) - 1 = k + i
    BY <1>1
  <2> QED BY <2>2, <2>3
<1> HIDE DEF front, pad, back
<1>8. /\ fp \in Seq(Int) /\ Len(fp) = k + n
      /\ \A i \in 1..k + n : fp[i] = IF i <= k THEN front[i] ELSE pad[i - k]
  <2>1. /\ front \o pad \in Seq(Int) /\ Len(front \o pad) = Len(front) + Len(pad)
        /\ \A i \in 1..Len(front) + Len(pad) :
             (front \o pad)[i] = IF i <= Len(front) THEN front[i] ELSE pad[i - Len(front)]
    BY <1>5, <1>6, JoinedIs
  <2> QED BY <1>5, <1>6, <2>1
<1> HIDE DEF fp
<1>9. /\ t \in Seq(Int) /\ Len(t) = (k + n) + (Len(s) - k)
      /\ \A i \in 1..(k + n) + (Len(s) - k) :
           t[i] = IF i <= k + n THEN fp[i] ELSE back[i - (k + n)]
  <2>1. /\ fp \o back \in Seq(Int) /\ Len(fp \o back) = Len(fp) + Len(back)
        /\ \A i \in 1..Len(fp) + Len(back) :
             (fp \o back)[i] = IF i <= Len(fp) THEN fp[i] ELSE back[i - Len(fp)]
    BY <1>7, <1>8, JoinedIs
  <2> QED BY <1>1, <1>7, <1>8, <2>1
<1>10. Len(t) = Len(s) + n
  <2>1. PICK c, l : c = Len(s) /\ l = Len(t)
    OBVIOUS
  <2>2. c \in Nat /\ k \in Int /\ n \in Nat
    BY <1>1, <2>1
  <2>3. l = (k + n) + (c - k)
    BY <1>9, <2>1
  <2>4. l = c + n
    BY <2>2, <2>3
  <2> QED BY <2>1, <2>4
<1>11. ASSUME NEW i \in 1..k PROVE t[i] = s[i]
  <2>1. i \in 1..k + n /\ i <= k + n /\ i <= k /\ i \in 1..(k + n) + (Len(s) - k)
    BY <1>1
  <2> QED BY <1>5, <1>8, <1>9, <2>1
<1>12. ASSUME NEW i \in k + 1..k + n PROVE t[i] = Filler
  <2>1. /\ i - k \in 1..n /\ i \in 1..k + n /\ ~(i <= k) /\ i <= k + n
        /\ i \in 1..(k + n) + (Len(s) - k)
    BY <1>1
  <2> QED BY <1>6, <1>8, <1>9, <2>1
<1>13. ASSUME NEW i \in k + 1..Len(s) PROVE t[i + n] = s[i]
  <2>1. /\ i + n \in 1..(k + n) + (Len(s) - k) /\ ~(i + n <= k + n)
        /\ (i + n) - (k + n) = i - k /\ i - k \in 1..Len(s) - k /\ k + (i - k) = i
    BY <1>1
  <2> QED BY <1>7, <1>9, <2>1
<1> QED BY <1>9, <1>10, <1>11, <1>12, <1>13 DEF Widened

LEMMA WidenedWhole ==
    ASSUME NEW m, GoodMessage(m), NEW s \in Seq(Int), Whole(m, s), NEW t \in Seq(Int),
           NEW k, NEW n, Widened(t, s, k, n)
    PROVE  Whole(m, t)
<1>1. Len(s) \in Nat
  BY LenProperties
<1>2. /\ k \in 0..Len(s) /\ n \in Nat \ {0} /\ Len(t) = Len(s) + n
      /\ \A i \in 1..k : t[i] = s[i]
      /\ \A i \in k + 1..k + n : t[i] \in {Filler, Dot}
      /\ \A i \in k + 1..Len(s) : t[i + n] = s[i]
  BY DEF Widened
<1>3. ASSUME NEW i \in 1..Len(s)
      PROVE  \E j \in 1..Len(t) : Magnitude(t[j]) = Magnitude(s[i])
  <2>1. CASE i <= k
    <3>1. i \in 1..k /\ i \in 1..Len(t)
      BY <1>1, <1>2, <2>1
    <3> QED BY <1>2, <3>1
  <2>2. CASE ~(i <= k)
    <3>1. i \in k + 1..Len(s) /\ i + n \in 1..Len(t)
      BY <1>1, <1>2, <2>2
    <3>2. t[i + n] = s[i]
      BY <1>2, <3>1
    <3> QED BY <3>1, <3>2
  <2> QED BY <2>1, <2>2
<1>4. ASSUME NEW j \in 1..Len(t)
      PROVE  \/ Magnitude(t[j]) \in {Filler, Dot}
             \/ \E i \in 1..Len(s) : Magnitude(t[j]) = Magnitude(s[i])
  <2>1. \/ j \in 1..k
        \/ j \in k + 1..k + n
        \/ j - n \in k + 1..Len(s) /\ (j - n) + n = j
    <3>1. k \in Int /\ n \in Int /\ Len(s) \in Int /\ j \in 1..Len(s) + n
      BY <1>1, <1>2
    <3> QED BY <3>1
  <2>2. CASE j \in 1..k
    <3>1. k \in Int /\ k <= Len(s) /\ t[j] = s[j]
      BY <1>1, <1>2, <2>2
    <3>2. j \in 1..Len(s)
      BY <1>1, <2>2, <3>1
    <3> QED BY <3>1, <3>2
  <2>3. CASE j \in k + 1..k + n
    <3>1. t[j] \in {Filler, Dot}
      BY <1>2, <2>3
    <3> QED BY <3>1 DEF Magnitude, Filler, Dot
  <2>4. CASE j - n \in k + 1..Len(s) /\ (j - n) + n = j
    <3>1. j - n \in 1..Len(s)
      BY <1>1, <1>2, <2>4
    <3>2. t[(j - n) + n] = s[j - n]
      BY <1>2, <2>4
    <3> QED BY <2>4, <3>1, <3>2
  <2> QED BY <2>1, <2>2, <2>3, <2>4
<1> QED BY <1>3, <1>4, StillWhole

LEMMA HostDotOK ==
    ASSUME NEW b, NEW m, NEW d, GoodMessage(m), SoundBuilder(b, m, d), ~b.bad, NEW r,
           r = HostDot(b, m)
    PROVE  SoundBuilder(r, m, d) /\ (~r.bad => m.proto = "http")
<1>1. PICK s, k : s = b.payload /\ k = b.meta.host[2]
  OBVIOUS
<1>2. PICK t : t = InsertAt(s, k + 1, Dot)
  OBVIOUS
<1>3. r = Failed(b) \/ r = Mutate(b, m, t)
  BY <1>1, <1>2 DEF HostDot
<1>4. s \in Seq(Int) /\ Whole(m, s) /\ k \in 0..Len(s)
  <2>1. s \in Seq(Int) /\ Whole(m, s) /\ b.meta = Parse(m, s)
    BY <1>1 DEF SoundBuilder, Builder
  <2> QED BY <1>1, <2>1, ParseIs
<1>5. t \in Seq(Int) /\ Whole(m, t)
  <2>1. t \in Seq(Int) /\ Widened(t, s, k, 1)
    BY <1>2, <1>4, DotIs
  <2> QED BY <1>4, <2>1, WidenedWhole
<1> QED BY <1>3, <1>5, FailedOK, MutateOK

LEMMA HostPadOK ==
    ASSUME NEW b, NEW m, NEW d, GoodMessage(m), SoundBuilder(b, m, d), ~b.bad, NEW n \in Int, n > 0,
           NEW r, r = HostPad(b, m, n)
    PROVE  SoundBuilder(r, m, d) /\ (~r.bad => m.proto = "http")
<1>1. PICK s, k : s = b.payload /\ k = b.meta.label[1]
  OBVIOUS
<1>2. PICK t : t = SubSeq(s, 1, k) \o [i \in 1..n |-> Filler] \o SubSeq(s, k + 1, Len(s))
  OBVIOUS
<1>3. r = Failed(b) \/ r = Mutate(b, m, t)
  BY <1>1, <1>2 DEF HostPad
<1>4. s \in Seq(Int) /\ Whole(m, s) /\ k \in 0..Len(s) /\ n \in Nat \ {0}
  <2>1. s \in Seq(Int) /\ Whole(m, s) /\ b.meta = Parse(m, s)
    BY <1>1 DEF SoundBuilder, Builder
  <2> QED BY <1>1, <2>1, ParseIs
<1>5. t \in Seq(Int) /\ Whole(m, t)
  <2>1. t \in Seq(Int) /\ Widened(t, s, k, n)
    BY <1>2, <1>4, PadIs
  <2> QED BY <1>4, <2>1, WidenedWhole
<1> QED BY <1>3, <1>5, FailedOK, MutateOK

-----------------------------------------------------------------------------
(* Joining.                                                                 *)

\* Three sequences joined: the middle one goes with either neighbour.
Regroups(s, t, u) == (s \o t) \o u = s \o (t \o u)

AllOver(X, s, t, u) == s \in Seq(X) /\ t \in Seq(X) /\ u \in Seq(X)

LEMMA Regrouped == ASSUME NEW X, NEW s, NEW t, NEW u, AllOver(X, s, t, u) PROVE Regroups(s, t, u)
BY ConcatAssociative DEF Regroups, AllOver

\* g[k] is the first k of seqs, joined.
Joins(g, seqs) ==
    /\ FlattenSeq(seqs) = g[Len(seqs)] /\ g[1] = seqs[1]
    /\ \A k \in 1..Len(seqs) : g[k] \in Seq(Int)
    /\ \A k \in 2..Len(seqs) : g[k] = g[k - 1] \o seqs[k]

LEMMA JoinsUp ==
    ASSUME NEW seqs \in Seq(Seq(Int)), Len(seqs) > 0
    PROVE  \E g : Joins(g, seqs)
<1> DEFINE n == Len(seqs)
           X == Seq(Int)
           F == [k \in 1..n |-> [s \in X |-> s \o seqs[k]]]
           flat == CHOOSE g : g = [k \in 1..n |-> IF k = 1 THEN seqs[k] ELSE g[k - 1] \o seqs[k]]
<1>1. n \in Nat /\ 1 <= n /\ \A k \in 1..n : seqs[k] \in X
  BY LenProperties, ElementOfSeq
<1>2. FlattenSeq(seqs) = flat[n]
  BY <1>1 DEF FlattenSeq
<1>3. 1 \in 1..n /\ seqs[1] \in X
  BY <1>1
<1>4. \A k \in 1..n : \A s \in X : F[k][s] = s \o seqs[k] /\ s \o seqs[k] \in X
  <2> TAKE k \in 1..n
  <2> TAKE s \in X
  <2>1. s \o seqs[k] \in X
    BY <1>1, ConcatProperties
  <2>2. F[k][s] = s \o seqs[k]
    <3> HIDE DEF X
    <3> QED OBVIOUS
  <2> QED BY <2>1, <2>2
<1> HIDE DEF F
<1>5. PICK g : Recurses(g, X, seqs[1], F, 1, n)
  <2>1. StaysIn(X, F, 1, n)
    <3> HIDE DEF X
    <3> QED BY <1>4 DEF StaysIn
  <2>2. 1 \in Nat
    OBVIOUS
  <2> HIDE DEF X, n
  <2> QED BY <1>1, <1>3, <2>1, <2>2, RecursionIs
<1> HIDE DEF X
<1>6. /\ g = [k \in 1..n |-> IF k = 1 THEN seqs[1] ELSE F[k][g[k - 1]]]
      /\ \A k \in 1..n : g[k] \in X
  BY <1>5 DEF Recurses
<1>7. \A k \in 1..n : k # 1 => F[k][g[k - 1]] = g[k - 1] \o seqs[k]
  <2>1. \A k \in 1..n : k # 1 => k - 1 \in 1..n
    BY <1>1
  <2> QED BY <1>4, <1>6, <2>1
<1>8. g = [k \in 1..n |-> IF k = 1 THEN seqs[k] ELSE g[k - 1] \o seqs[k]]
  <2> HIDE DEF n
  <2> QED BY <1>6, <1>7
<1>9. flat = [k \in 1..n |-> IF k = 1 THEN seqs[k] ELSE flat[k - 1] \o seqs[k]]
  BY <1>8
<1> HIDE DEF flat
<1>10. flat[1] = seqs[1] /\ \A k \in 2..n : flat[k] = flat[k - 1] \o seqs[k]
  <2>1. \A k \in 2..n : k \in 1..n /\ k # 1
    BY <1>1
  <2> QED BY <1>3, <1>9, <2>1
<1>11. \A k \in 1..n : flat[k] \in X
  <2>1. ASSUME NEW k \in 1 + 1..n, flat[k - 1] \in X PROVE flat[k] \in X
    <3>1. k \in 1..n /\ k \in 2..n
      BY <1>1
    <3> QED BY <1>4, <1>10, <2>1, <3>1
  <2>2. 1 \in Nat /\ flat[1] \in X
    BY <1>3, <1>10
  <2> HIDE DEF n
  <2> QED BY <1>1, <2>1, <2>2, AllAlong
<1> QED BY <1>2, <1>10, <1>11 DEF Joins, X

(* One more sequence is joined to those before it.                          *)
LEMMA FlattenMore ==
    ASSUME NEW a \in Seq(Seq(Int)), NEW x \in Seq(Int)
    PROVE  /\ FlattenSeq(a) \in Seq(Int)
           /\ FlattenSeq(Append(a, x)) = FlattenSeq(a) \o x
<1> DEFINE b == Append(a, x)
           n == Len(a)
<1>1. /\ n \in Nat /\ b \in Seq(Seq(Int)) /\ Len(b) = n + 1 /\ b[n + 1] = x
      /\ \A k \in 1..n : b[k] = a[k]
  BY LenProperties, AppendProperties
<1> HIDE DEF b
<1>2. PICK h : Joins(h, b)
  <2>1. Len(b) > 0
    BY <1>1
  <2> QED BY <1>1, <2>1, JoinsUp
<1>3. CASE a = <<>>
  <2>1. n = 0 /\ FlattenSeq(a) = <<>>
    BY <1>3 DEF FlattenSeq
  <2>2. FlattenSeq(b) = x
    BY <1>1, <1>2, <2>1 DEF Joins
  <2>3. <<>> \o x = x /\ <<>> \in Seq(Int)
    BY ConcatEmptySeq, EmptySeq
  <2> QED BY <2>1, <2>2, <2>3 DEF b
<1>4. CASE a # <<>>
  <2>1. n >= 1
    BY <1>4, EmptySeq
  <2>2. PICK g : Joins(g, a)
    BY <2>1, JoinsUp
  <2> DEFINE P == {k \in 0..n - 1 : h[k + 1] = g[k + 1]}
  <2>3. 0 \in P
    <3>1. 1 \in 1..n /\ h[1] = b[1] /\ g[1] = a[1]
      BY <1>2, <2>1, <2>2 DEF Joins
    <3> QED BY <1>1, <2>1, <3>1
  <2>4. ASSUME NEW k \in 0..n - 1, k \in P, k # n - 1 PROVE k + 1 \in P
    <3>1. /\ (k + 1) + 1 \in 2..n /\ (k + 1) + 1 \in 2..n + 1 /\ (k + 1) + 1 \in 1..n
          /\ ((k + 1) + 1) - 1 = k + 1 /\ k + 1 \in 0..n - 1
      BY <1>1, <2>4
    <3>2. /\ h[(k + 1) + 1] = h[k + 1] \o b[(k + 1) + 1]
          /\ g[(k + 1) + 1] = g[k + 1] \o a[(k + 1) + 1]
      BY <1>1, <1>2, <2>2, <3>1 DEF Joins
    <3>3. h[(k + 1) + 1] = g[(k + 1) + 1]
      BY <1>1, <2>4, <3>1, <3>2
    <3> QED BY <3>1, <3>3
  <2>5. n - 1 \in P
    <3>0. n - 1 \in Nat
      BY <1>1, <2>1
    <3> HIDE DEF P, n
    <3>1. 0..n - 1 \subseteq P
      BY <2>3, <2>4, <3>0, Climb
    <3> QED BY <3>0, <3>1
  <2>6. h[n] = g[n]
    <3>1. (n - 1) + 1 = n
      BY <1>1
    <3> QED BY <2>5, <3>1
  <2>7. h[n + 1] = h[n] \o x
    <3>1. n + 1 \in 2..n + 1 /\ (n + 1) - 1 = n
      BY <1>1, <2>1
    <3> QED BY <1>1, <1>2, <3>1 DEF Joins
  <2>8. FlattenSeq(b) = h[n + 1] /\ FlattenSeq(a) = g[n] /\ g[n] \in Seq(Int)
    <3>1. n \in 1..n
      BY <1>1, <2>1
    <3> QED BY <1>1, <1>2, <2>2, <3>1 DEF Joins
  <2> QED BY <2>6, <2>7, <2>8 DEF b
<1> QED BY <1>3, <1>4

(* Joining what was put side by side.                                       *)
LEMMA FlattenBoth ==
    ASSUME NEW a \in Seq(Seq(Int)), NEW b \in Seq(Seq(Int))
    PROVE  FlattenSeq(a \o b) = FlattenSeq(a) \o FlattenSeq(b)
<1> DEFINE Vals == Seq(Int)
           n == Len(b)
           u == [k \in 0..n |-> SubSeq(b, 1, k)]
           P == {k \in 0..n : FlattenSeq(a \o u[k]) = FlattenSeq(a) \o FlattenSeq(u[k])}
<1>1. n \in Nat /\ (\A k \in 1..n : b[k] \in Vals) /\ FlattenSeq(a) \in Vals
  BY LenProperties, ElementOfSeq, FlattenMore, EmptySeq
<1>2. \A k \in 0..n : u[k] \in Seq(Vals)
  <2> TAKE k \in 0..n
  <2>1. \A i \in 1..k : b[i] \in Vals
    BY <1>1
  <2>2. k \in Int
    OBVIOUS
  <2> HIDE DEF Vals
  <2>3. SubSeq(b, 1, k) \in Seq(Vals)
    BY <2>1, <2>2, SubSeqProperties
  <2> QED BY <2>3
<1>3. 0 \in P
  <2>1. u[0] = <<>>
    BY <1>1, SubSeqEmpty
  <2>2. a \o <<>> = a /\ FlattenSeq(a) \o <<>> = FlattenSeq(a) /\ FlattenSeq(<<>>) = <<>>
    BY <1>1, ConcatEmptySeq DEF FlattenSeq
  <2>3. 0 \in 0..n
    BY <1>1
  <2> HIDE DEF u, n
  <2>4. FlattenSeq(a \o u[0]) = FlattenSeq(a) \o FlattenSeq(u[0])
    BY <2>1, <2>2
  <2> QED BY <2>3, <2>4
<1>4. ASSUME NEW k \in 0..n, k \in P, k # n PROVE k + 1 \in P
  <2>1. k + 1 \in 1..n /\ k + 1 \in 0..n /\ 1 \in 1..n /\ (k + 1) - 1 = k
    BY <1>1, <1>4
  <2>2. PICK x : x = b[k + 1]
    OBVIOUS
  <2>3. x \in Vals /\ u[k] \in Seq(Vals)
    BY <1>1, <1>2, <2>1, <2>2
  <2>4. u[k + 1] = Append(u[k], x)
    <3>1. SubSeq(b, 1, k + 1) = SubSeq(b, 1, (k + 1) - 1) \o << b[k + 1] >>
      <4>1. PICK q : q = k + 1
        OBVIOUS
      <4>2. q \in 1..Len(b)
        BY <2>1, <4>1
      <4>3. SubSeq(b, 1, q) = SubSeq(b, 1, q - 1) \o << b[q] >>
        <5> HIDE DEF n
        <5>1. 1 \in 1..Len(b)
          BY <2>1 DEF n
        <5>2. q \in 1..Len(b) /\ q \in 1..Len(b)
          BY <4>2
        <5> QED BY <5>1, <5>2, SubSeqRecursiveSecond
      <4> QED BY <4>1, <4>3
    <3>2. u[k + 1] = u[k] \o <<x>>
      BY <2>1, <2>2, <3>1
    <3> HIDE DEF u
    <3> QED BY <2>3, <3>2, AppendIsConcat
  <2> HIDE DEF u
  <2>5. a \o u[k + 1] = Append(a \o u[k], x)
    <3>1. /\ Append(u[k], x) = u[k] \o <<x>>
          /\ a \o u[k] \in Seq(Vals) /\ <<x>> \in Seq(Vals)
      BY <2>3, AppendIsConcat, ConcatProperties
    <3>2. Append(a \o u[k], x) = (a \o u[k]) \o <<x>>
      BY <2>3, <3>1, AppendIsConcat
    <3>3. (a \o u[k]) \o <<x>> = a \o (u[k] \o <<x>>)
      <4>1. PICK v, w : v = u[k] /\ w = <<x>>
        OBVIOUS
      <4>2. v \in Seq(Vals) /\ w \in Seq(Vals) /\ a \in Seq(Vals)
        BY <2>3, <3>1, <4>1
      <4> HIDE DEF Vals
      <4>3. (a \o v) \o w = a \o (v \o w)
        <5>1. AllOver(Vals, a, v, w)
          BY <4>2 DEF AllOver
        <5>2. Regroups(a, v, w)
          BY <5>1, Regrouped
        <5> QED BY <5>2 DEF Regroups
      <4> QED BY <4>1, <4>3
    <3> QED BY <2>4, <3>1, <3>2, <3>3
  <2>6. FlattenSeq(a \o u[k + 1]) = FlattenSeq(a \o u[k]) \o x
    <3>1. a \o u[k] \in Seq(Vals)
      BY <2>3, ConcatProperties
    <3> QED BY <2>3, <2>5, <3>1, FlattenMore
  <2>7. FlattenSeq(u[k + 1]) = FlattenSeq(u[k]) \o x /\ FlattenSeq(u[k]) \in Vals
    BY <2>3, <2>4, FlattenMore
  <2>8. FlattenSeq(a \o u[k]) = FlattenSeq(a) \o FlattenSeq(u[k])
    BY <1>4
  <2>9. (FlattenSeq(a) \o FlattenSeq(u[k])) \o x = FlattenSeq(a) \o (FlattenSeq(u[k]) \o x)
    <3>1. PICK v, w : v = FlattenSeq(a) /\ w = FlattenSeq(u[k])
      OBVIOUS
    <3>2. v \in Seq(Int) /\ w \in Seq(Int) /\ x \in Seq(Int)
      BY <1>1, <2>3, <2>7, <3>1
    <3>3. (v \o w) \o x = v \o (w \o x)
      <4>1. AllOver(Int, v, w, x)
        BY <3>2 DEF AllOver
      <4>2. Regroups(v, w, x)
        BY <4>1, Regrouped
      <4> QED BY <4>2 DEF Regroups
    <3> QED BY <3>1, <3>3
  <2> QED BY <2>1, <2>6, <2>7, <2>8, <2>9
<1>5. n \in P
  <2> HIDE DEF P, n
  <2>1. 0..n \subseteq P
    BY <1>1, <1>3, <1>4, Climb
  <2> QED BY <1>1, <2>1
<1>6. u[n] = b
  BY <1>1, SubSeqFull
<1> QED BY <1>5, <1>6

(* The bytes of two runs of writes, and of one write.                       *)
LEMMA StreamOf ==
    ASSUME NEW a \in Seq(Segment)
    PROVE  StreamBytes(a) \in Seq(Int)
<1> DEFINE d == [i \in DOMAIN a |-> IF a[i].kind = "stream" THEN a[i].data ELSE <<>>]
<1>1. d \in Seq(Seq(Int))
  <2>1. Len(a) \in Nat /\ DOMAIN a = 1..Len(a) /\ \A i \in 1..Len(a) : a[i] \in Segment
    BY LenProperties, ElementOfSeq
  <2>2. \A i \in 1..Len(a) : a[i].data \in Seq(Int)
    BY <2>1 DEF Segment
  <2>3. <<>> \in Seq(Int)
    BY EmptySeq
  <2>4. d \in [1..Len(a) -> Seq(Int)]
    BY <2>1, <2>2, <2>3
  <2> HIDE DEF d
  <2> QED BY <2>1, <2>4
<1> HIDE DEF d
<1>2. FlattenSeq(d) \in Seq(Int)
  <2>1. <<>> \in Seq(Int)
    BY EmptySeq
  <2> QED BY <1>1, <2>1, FlattenMore
<1> QED BY <1>2 DEF StreamBytes, d

LEMMA StreamBoth ==
    ASSUME NEW a \in Seq(Segment), NEW b \in Seq(Segment)
    PROVE  StreamBytes(a \o b) = StreamBytes(a) \o StreamBytes(b)
<1> DEFINE ab == a \o b
           Bytes_(x) == IF x.kind = "stream" THEN x.data ELSE <<>>
           da == [i \in DOMAIN a |-> Bytes_(a[i])]
           db == [i \in DOMAIN b |-> Bytes_(b[i])]
           dab == [i \in DOMAIN ab |-> Bytes_(ab[i])]
<1>1. /\ Len(a) \in Nat /\ Len(b) \in Nat /\ DOMAIN a = 1..Len(a) /\ DOMAIN b = 1..Len(b)
      /\ \A i \in 1..Len(a) : a[i] \in Segment
      /\ \A i \in 1..Len(b) : b[i] \in Segment
  BY LenProperties, ElementOfSeq
<1>2. /\ ab \in Seq(Segment) /\ Len(ab) = Len(a) + Len(b) /\ DOMAIN ab = 1..Len(a) + Len(b)
      /\ \A i \in 1..Len(a) + Len(b) : ab[i] = IF i <= Len(a) THEN a[i] ELSE b[i - Len(a)]
  <2>1. /\ ab \in Seq(Segment) /\ Len(ab) = Len(a) + Len(b)
        /\ \A i \in 1..Len(a) + Len(b) : ab[i] = IF i <= Len(a) THEN a[i] ELSE b[i - Len(a)]
    BY ConcatProperties
  <2> HIDE DEF ab
  <2>2. DOMAIN ab = 1..Len(ab)
    BY <2>1, LenProperties
  <2> QED BY <2>1, <2>2
<1>3. \A x \in Segment : Bytes_(x) \in Seq(Int)
  <2>1. <<>> \in Seq(Int)
    BY EmptySeq
  <2> QED BY <2>1 DEF Segment
<1> HIDE DEF ab, Bytes_
<1>4. da \in Seq(Seq(Int)) /\ Len(da) = Len(a) /\ \A i \in 1..Len(a) : da[i] = Bytes_(a[i])
  <2>1. da \in [1..Len(a) -> Seq(Int)] /\ \A i \in 1..Len(a) : da[i] = Bytes_(a[i])
    BY <1>1, <1>3
  <2> HIDE DEF da
  <2> QED BY <1>1, <2>1
<1>5. db \in Seq(Seq(Int)) /\ Len(db) = Len(b) /\ \A i \in 1..Len(b) : db[i] = Bytes_(b[i])
  <2>1. db \in [1..Len(b) -> Seq(Int)] /\ \A i \in 1..Len(b) : db[i] = Bytes_(b[i])
    BY <1>1, <1>3
  <2> HIDE DEF db
  <2> QED BY <1>1, <2>1
<1>6. /\ dab \in Seq(Seq(Int)) /\ Len(dab) = Len(a) + Len(b)
      /\ \A i \in 1..Len(a) + Len(b) : dab[i] = Bytes_(ab[i])
  <2>1. \A i \in 1..Len(a) + Len(b) : ab[i] \in Segment
    BY <1>2, ElementOfSeq
  <2>2. /\ dab \in [1..Len(a) + Len(b) -> Seq(Int)]
        /\ \A i \in 1..Len(a) + Len(b) : dab[i] = Bytes_(ab[i])
    BY <1>2, <1>3, <2>1
  <2>3. PICK N : N = Len(a) + Len(b)
    OBVIOUS
  <2>4. N \in Nat /\ dab \in [1..N -> Seq(Int)]
    BY <1>1, <2>2, <2>3
  <2> HIDE DEF dab
  <2>5. dab \in Seq(Seq(Int)) /\ Len(dab) = N
    BY <2>4
  <2> QED BY <2>2, <2>3, <2>5
<1> HIDE DEF da, db, dab
<1>7. dab = da \o db
  <2>1. /\ da \o db \in Seq(Seq(Int)) /\ Len(da \o db) = Len(da) + Len(db)
        /\ \A i \in 1..Len(da) + Len(db) :
             (da \o db)[i] = IF i <= Len(da) THEN da[i] ELSE db[i - Len(da)]
    <3>1. PICK X, v, w : X = Seq(Int) /\ v = da /\ w = db
      OBVIOUS
    <3>2. v \in Seq(X) /\ w \in Seq(X)
      BY <1>4, <1>5, <3>1
    <3>3. /\ v \o w \in Seq(X) /\ Len(v \o w) = Len(v) + Len(w)
          /\ \A i \in 1..Len(v) + Len(w) :
               (v \o w)[i] = IF i <= Len(v) THEN v[i] ELSE w[i - Len(v)]
      BY <3>2, JoinedIs
    <3> QED BY <3>1, <3>3
  <2>2. ASSUME NEW i \in 1..Len(dab) PROVE dab[i] = (da \o db)[i]
    <3>1. i \in 1..Len(a) + Len(b) /\ i \in 1..Len(da) + Len(db)
      BY <1>4, <1>5, <1>6
    <3>2. CASE i <= Len(a)
      <4>1. i \in 1..Len(a)
        BY <1>1, <3>1, <3>2
      <4> QED BY <1>2, <1>4, <1>6, <2>1, <3>1, <3>2, <4>1
    <3>3. CASE ~(i <= Len(a))
      <4>1. i - Len(a) \in 1..Len(b)
        BY <1>1, <3>1, <3>3
      <4> QED BY <1>2, <1>4, <1>5, <1>6, <2>1, <3>1, <3>3, <4>1
    <3> QED BY <3>2, <3>3
  <2>3. Len(dab) = Len(da \o db)
    BY <1>4, <1>5, <1>6, <2>1
  <2> QED BY <1>6, <2>1, <2>2, <2>3, SeqEqual
<1>8. FlattenSeq(dab) = FlattenSeq(da) \o FlattenSeq(db)
  BY <1>4, <1>5, <1>7, FlattenBoth
<1> QED BY <1>8 DEF StreamBytes, da, db, dab, ab, Bytes_

LEMMA StreamOne ==
    ASSUME NEW x \in Segment
    PROVE  StreamBytes(<<x>>) = IF x.kind = "stream" THEN x.data ELSE <<>>
<1>1. PICK y : y = IF x.kind = "stream" THEN x.data ELSE <<>>
  OBVIOUS
<1>2. y \in Seq(Int) /\ <<>> \in Seq(Seq(Int)) /\ FlattenSeq(<<>>) = <<>>
  <2>1. <<>> \in Seq(Int) /\ <<>> \in Seq(Seq(Int))
    BY EmptySeq
  <2> QED BY <1>1, <2>1 DEF Segment, FlattenSeq
<1>3. [i \in DOMAIN <<x>> |-> IF <<x>>[i].kind = "stream" THEN <<x>>[i].data ELSE <<>>]
        = Append(<<>>, y)
  BY <1>1
<1>4. FlattenSeq(Append(<<>>, y)) = <<>> \o y
  BY <1>2, FlattenMore
<1>5. <<>> \o y = y
  BY <1>2, ConcatEmptySeq
<1> QED BY <1>1, <1>3, <1>4, <1>5 DEF StreamBytes

-----------------------------------------------------------------------------
(* The client's bytes in a stream.                                          *)

\* They are those after a up to n, in their order.
Runs(s, a, n) ==
    /\ \A i \in Own(s) : Magnitude(s[i]) \in a + 1..n
    /\ \A i, j \in Own(s) : i < j => Magnitude(s[i]) < Magnitude(s[j])
    /\ \A k \in a + 1..n : \E i \in Own(s) : Magnitude(s[i]) = k

\* Its records are sound, and end before it does.
Closed(s) ==
    \A i \in DOMAIN s : s[i] >= LenByte =>
        /\ i + (s[i] - LenByte) <= Len(s)
        /\ \A k \in 1..(s[i] - LenByte) : ~Added(s[i + k])

\* t begins as s goes on, for as long as it lasts.
Begins(s, t) == Len(s) <= Len(t) /\ \A i \in 1..Len(s) : s[i] = t[i]

LEMMA OwnIs ==
    ASSUME NEW s \in Seq(Int)
    PROVE  /\ Len(s) \in Nat /\ DOMAIN s = 1..Len(s)
           /\ Own(s) = {i \in 1..Len(s) : ~Added(s[i])}
           /\ \A i \in 1..Len(s) : s[i] \in Int /\ Magnitude(s[i]) \in Nat
<1>1. Len(s) \in Nat /\ DOMAIN s = 1..Len(s) /\ \A i \in 1..Len(s) : s[i] \in Int
  BY LenProperties, ElementOfSeq
<1>2. \A x \in Int : Magnitude(x) \in Nat
  BY DEF Magnitude
<1> QED BY <1>1, <1>2 DEF Own

(* What begins a stream of the client's is one.                             *)
LEMMA BeginningIs ==
    ASSUME NEW s \in Seq(Int), NEW t \in Seq(Int), NEW n \in Nat, Begins(s, t),
           Runs(t, 0, n), Framed(t)
    PROVE  Clients(s, n) /\ Framed(s)
<1>1. /\ Len(s) \in Nat /\ DOMAIN s = 1..Len(s) /\ Own(s) = {i \in 1..Len(s) : ~Added(s[i])}
      /\ \A i \in 1..Len(s) : s[i] \in Int /\ Magnitude(s[i]) \in Nat
  BY OwnIs
<1>2. /\ Len(t) \in Nat /\ DOMAIN t = 1..Len(t) /\ Own(t) = {i \in 1..Len(t) : ~Added(t[i])}
      /\ \A i \in 1..Len(t) : t[i] \in Int /\ Magnitude(t[i]) \in Nat
  BY OwnIs
<1>3. \A i \in 1..Len(s) : i \in 1..Len(t) /\ t[i] = s[i]
  BY <1>1, <1>2 DEF Begins
<1>4. \A i \in Own(s) : i \in Own(t) /\ t[i] = s[i] /\ i \in 1..Len(s)
  BY <1>1, <1>2, <1>3
<1>5. /\ \A i \in Own(t) : Magnitude(t[i]) \in 1..n
      /\ \A i, j \in Own(t) : i < j => Magnitude(t[i]) < Magnitude(t[j])
      /\ \A k \in 1..n : \E i \in Own(t) : Magnitude(t[i]) = k
  <2>1. 0 + 1 = 1
    OBVIOUS
  <2> QED BY <2>1 DEF Runs
<1>6. ASSUME NEW i \in Own(s), NEW k \in 1..Magnitude(s[i])
      PROVE  \E j \in Own(s) : Magnitude(s[j]) = k
  <2>1. k \in 1..n /\ k <= Magnitude(t[i]) /\ i \in Own(t) /\ i \in 1..Len(s)
        /\ Magnitude(t[i]) \in 1..n
    <3>1. i \in Own(t) /\ t[i] = s[i] /\ i \in 1..Len(s)
      BY <1>4
    <3>2. Magnitude(t[i]) \in 1..n
      BY <1>5, <3>1
    <3> QED BY <3>1, <3>2
  <2>2. PICK j \in Own(t) : Magnitude(t[j]) = k
    BY <1>5, <2>1
  <2>3. j \in 1..Len(t) /\ ~Added(t[j])
    BY <1>2
  <2>4. ~(i < j)
    <3>1. i < j => Magnitude(t[i]) < k
      BY <1>5, <2>1, <2>2
    <3> QED BY <2>1, <3>1
  <2>5. j \in 1..Len(s)
    BY <1>1, <2>1, <2>3, <2>4
  <2> QED BY <1>1, <1>3, <2>2, <2>3, <2>5
<1>7. Clients(s, n)
  BY <1>4, <1>5, <1>6 DEF Clients
<1>8. ASSUME NEW i \in DOMAIN s, s[i] >= LenByte, NEW k \in 1..(s[i] - LenByte), i + k <= Len(s)
      PROVE  ~Added(s[i + k])
  <2>1. i \in 1..Len(t) /\ t[i] = s[i]
    BY <1>1, <1>3
  <2>2. s[i] - LenByte \in Int
    BY <1>1 DEF LenByte
  <2>3. i + k \in 1..Len(s) /\ i + k <= Len(t)
    <3>1. PICK p, q, z : p = Len(s) /\ q = Len(t) /\ z = s[i] - LenByte
      OBVIOUS
    <3>2. /\ p \in Nat /\ q \in Nat /\ p <= q /\ i \in 1..p
          /\ z \in Int /\ k \in 1..z /\ i + k <= p
      BY <1>1, <1>2, <1>8, <2>2, <3>1 DEF Begins
    <3>3. i + k \in 1..p /\ i + k <= q
      BY <3>2
    <3> QED BY <3>1, <3>3
  <2> QED BY <1>2, <1>3, <1>8, <2>1, <2>3 DEF Framed
<1> QED BY <1>7, <1>8 DEF Framed

(* Two streams, one after the other.                                        *)
LEMMA RunsJoin ==
    ASSUME NEW s \in Seq(Int), NEW t \in Seq(Int), NEW a \in Nat, NEW b \in Nat, NEW c \in Nat,
           a <= b, b <= c, Runs(s, a, b), Runs(t, b, c)
    PROVE  s \o t \in Seq(Int) /\ Runs(s \o t, a, c)
<1> DEFINE v == s \o t
           L == Len(s)
<1>1. /\ L \in Nat /\ Own(s) = {i \in 1..L : ~Added(s[i])}
      /\ \A i \in 1..L : s[i] \in Int /\ Magnitude(s[i]) \in Nat
  BY OwnIs
<1>2. /\ Len(t) \in Nat /\ Own(t) = {i \in 1..Len(t) : ~Added(t[i])}
      /\ \A i \in 1..Len(t) : t[i] \in Int /\ Magnitude(t[i]) \in Nat
  BY OwnIs
<1>3. /\ v \in Seq(Int) /\ Len(v) = L + Len(t)
      /\ \A i \in 1..L + Len(t) : v[i] = IF i <= L THEN s[i] ELSE t[i - L]
  BY JoinedIs
<1> HIDE DEF v
<1>4. Own(v) = {i \in 1..L + Len(t) : ~Added(v[i])}
  BY <1>3, OwnIs
<1> HIDE DEF L
<1>5. \A i \in Own(s) : i \in Own(v) /\ v[i] = s[i] /\ i <= L
  <2> TAKE i \in Own(s)
  <2>1. i \in 1..L + Len(t) /\ i <= L /\ ~Added(s[i])
    BY <1>1, <1>2
  <2> QED BY <1>3, <1>4, <2>1
<1>6. \A i \in Own(t) : i + L \in Own(v) /\ v[i + L] = t[i] /\ i >= 1
  <2> TAKE i \in Own(t)
  <2>1. i + L \in 1..L + Len(t) /\ ~(i + L <= L) /\ (i + L) - L = i /\ ~Added(t[i]) /\ i >= 1
    BY <1>1, <1>2
  <2> QED BY <1>3, <1>4, <2>1
<1>7. \A i \in Own(v) : \/ i \in Own(s) /\ v[i] = s[i] /\ i <= L
                        \/ i - L \in Own(t) /\ v[i] = t[i - L] /\ i > L
  <2> TAKE i \in Own(v)
  <2>1. i \in 1..L + Len(t) /\ ~Added(v[i])
    BY <1>4
  <2>2. CASE i <= L
    <3>1. i \in 1..L /\ v[i] = s[i]
      BY <1>1, <1>3, <2>1, <2>2
    <3> QED BY <1>1, <2>1, <2>2, <3>1
  <2>3. CASE ~(i <= L)
    <3>1. i - L \in 1..Len(t) /\ v[i] = t[i - L] /\ i > L
      BY <1>1, <1>2, <1>3, <2>1, <2>3
    <3> QED BY <1>2, <2>1, <3>1
  <2> QED BY <2>2, <2>3
<1>8. /\ \A i \in Own(s) : Magnitude(s[i]) \in a + 1..b
      /\ \A i, j \in Own(s) : i < j => Magnitude(s[i]) < Magnitude(s[j])
      /\ \A k \in a + 1..b : \E i \in Own(s) : Magnitude(s[i]) = k
  BY DEF Runs
<1>9. /\ \A i \in Own(t) : Magnitude(t[i]) \in b + 1..c
      /\ \A i, j \in Own(t) : i < j => Magnitude(t[i]) < Magnitude(t[j])
      /\ \A k \in b + 1..c : \E i \in Own(t) : Magnitude(t[i]) = k
  BY DEF Runs
<1>10. ASSUME NEW i \in Own(v) PROVE Magnitude(v[i]) \in a + 1..c
  <2>1. Magnitude(v[i]) \in a + 1..b \/ Magnitude(v[i]) \in b + 1..c
    BY <1>7, <1>8, <1>9
  <2> QED BY <2>1
<1>11. ASSUME NEW i \in Own(v), NEW j \in Own(v), i < j PROVE Magnitude(v[i]) < Magnitude(v[j])
  <2>1. i \in Int /\ j \in Int /\ L \in Int
    BY <1>1, <1>4
  <2>2. CASE j <= L
    <3>1. i <= L /\ ~(i > L) /\ ~(j > L)
      BY <1>11, <2>1, <2>2
    <3> QED BY <1>7, <1>8, <1>11, <3>1
  <2>3. CASE i > L
    <3>1. ~(i <= L) /\ ~(j <= L) /\ i - L < j - L
      BY <1>11, <2>1, <2>3
    <3> QED BY <1>7, <1>9, <3>1
  <2>4. CASE i <= L /\ j > L
    <3>1. Magnitude(v[i]) \in a + 1..b /\ Magnitude(v[j]) \in b + 1..c
      <4>1. ~(i > L) /\ ~(j <= L)
        BY <2>1, <2>4
      <4> QED BY <1>7, <1>8, <1>9, <4>1
    <3> QED BY <3>1
  <2> QED BY <2>1, <2>2, <2>3, <2>4
<1>12. ASSUME NEW k \in a + 1..c PROVE \E i \in Own(v) : Magnitude(v[i]) = k
  <2>1. k \in a + 1..b \/ k \in b + 1..c
    OBVIOUS
  <2>2. CASE k \in a + 1..b
    BY <1>5, <1>8, <2>2
  <2>3. CASE k \in b + 1..c
    BY <1>6, <1>9, <2>3
  <2> QED BY <2>1, <2>2, <2>3
<1>13. Runs(v, a, c)
  BY <1>10, <1>11, <1>12 DEF Runs
<1> QED BY <1>3, <1>13 DEF v

LEMMA FramesJoin ==
    ASSUME NEW s \in Seq(Int), NEW t \in Seq(Int), Closed(s)
    PROVE  /\ Framed(t) => Framed(s \o t)
           /\ Closed(t) => Closed(s \o t)
<1> DEFINE v == s \o t
           L == Len(s)
<1>1. L \in Nat /\ DOMAIN s = 1..L /\ \A i \in 1..L : s[i] \in Int
  BY OwnIs
<1>2. Len(t) \in Nat /\ DOMAIN t = 1..Len(t) /\ \A i \in 1..Len(t) : t[i] \in Int
  BY OwnIs
<1>3. /\ v \in Seq(Int) /\ Len(v) = L + Len(t)
      /\ \A i \in 1..L + Len(t) : v[i] = IF i <= L THEN s[i] ELSE t[i - L]
  BY JoinedIs
<1> HIDE DEF v
<1>4. DOMAIN v = 1..L + Len(t)
  BY <1>3, OwnIs
<1> HIDE DEF L
<1>5. ASSUME NEW i \in 1..L, v[i] >= LenByte
      PROVE  /\ i + (v[i] - LenByte) <= L
             /\ \A k \in 1..(v[i] - LenByte) : ~Added(v[i + k])
  <2>1. i \in 1..L + Len(t) /\ i <= L
    BY <1>1, <1>2
  <2>2. v[i] = s[i] /\ s[i] - LenByte \in Int
    BY <1>1, <1>3, <2>1 DEF LenByte
  <2>3. /\ i + (s[i] - LenByte) <= L
        /\ \A k \in 1..(s[i] - LenByte) : ~Added(s[i + k])
    BY <1>1, <1>5, <2>2 DEF Closed, L
  <2>4. ASSUME NEW k \in 1..(s[i] - LenByte) PROVE ~Added(v[i + k])
    <3>1. i + k \in 1..L + Len(t) /\ i + k <= L
      BY <1>1, <1>2, <2>1, <2>2, <2>3
    <3>2. v[i + k] = s[i + k]
      BY <1>3, <3>1
    <3> QED BY <2>3, <3>2
  <2> QED BY <2>2, <2>3, <2>4
<1>6. ASSUME NEW i \in 1..L + Len(t), ~(i <= L)
      PROVE  /\ i - L \in 1..Len(t) /\ v[i] = t[i - L]
             /\ \A k \in Nat : i + k <= L + Len(t) => v[i + k] = t[(i - L) + k]
  <2>1. i - L \in 1..Len(t) /\ v[i] = t[i - L]
    BY <1>1, <1>2, <1>3, <1>6
  <2>2. ASSUME NEW k \in Nat, i + k <= L + Len(t) PROVE v[i + k] = t[(i - L) + k]
    <3>1. i + k \in 1..L + Len(t) /\ ~(i + k <= L) /\ (i + k) - L = (i - L) + k
      BY <1>1, <1>2, <1>6, <2>2
    <3> QED BY <1>3, <3>1
  <2> QED BY <2>1, <2>2
<1>7. ASSUME Framed(t) PROVE Framed(v)
  <2> SUFFICES ASSUME NEW i \in 1..L + Len(t), v[i] >= LenByte,
                      NEW k \in 1..(v[i] - LenByte), i + k <= L + Len(t)
               PROVE  ~Added(v[i + k])
    BY <1>3, <1>4 DEF Framed
  <2>1. CASE i <= L
    <3>1. i \in 1..L
      BY <1>1, <2>1
    <3> QED BY <1>5, <3>1
  <2>2. CASE ~(i <= L)
    <3>1. i - L \in 1..Len(t) /\ v[i] = t[i - L]
      BY <1>6, <2>2
    <3>2. v[i] - LenByte \in Int
      BY <1>2, <3>1 DEF LenByte
    <3>3. k \in Nat /\ k \in 1..(t[i - L] - LenByte) /\ (i - L) + k <= Len(t)
      BY <1>1, <1>2, <3>1, <3>2
    <3>4. ~Added(t[(i - L) + k])
      BY <1>2, <1>7, <3>1, <3>3 DEF Framed
    <3> QED BY <1>6, <2>2, <3>3, <3>4
  <2> QED BY <2>1, <2>2
<1>8. ASSUME Closed(t) PROVE Closed(v)
  <2> SUFFICES ASSUME NEW i \in 1..L + Len(t), v[i] >= LenByte
               PROVE  /\ i + (v[i] - LenByte) <= L + Len(t)
                      /\ \A k \in 1..(v[i] - LenByte) : ~Added(v[i + k])
    BY <1>3, <1>4 DEF Closed
  <2>1. CASE i <= L
    <3>1. i \in 1..L
      BY <1>1, <2>1
    <3>2. /\ i + (v[i] - LenByte) <= L
          /\ \A k \in 1..(v[i] - LenByte) : ~Added(v[i + k])
      BY <1>5, <3>1
    <3>3. i \in 1..L + Len(t) /\ v[i] \in Int
      BY <1>1, <1>3, <3>1
    <3>4. v[i] - LenByte \in Int
      BY <3>3 DEF LenByte
    <3> QED BY <1>1, <1>2, <3>2, <3>4
  <2>2. CASE ~(i <= L)
    <3>1. i - L \in 1..Len(t) /\ v[i] = t[i - L]
      BY <1>6, <2>2
    <3>2. v[i] - LenByte \in Int
      BY <1>2, <3>1 DEF LenByte
    <3>3. /\ (i - L) + (t[i - L] - LenByte) <= Len(t)
          /\ \A k \in 1..(t[i - L] - LenByte) : ~Added(t[(i - L) + k])
      BY <1>2, <1>8, <3>1 DEF Closed
    <3>4. i + (v[i] - LenByte) <= L + Len(t)
      BY <1>1, <1>2, <3>1, <3>2, <3>3
    <3>5. ASSUME NEW k \in 1..(v[i] - LenByte) PROVE ~Added(v[i + k])
      <4>1. k \in Nat /\ i + k <= L + Len(t)
        BY <1>1, <1>2, <3>2, <3>4
      <4>2. ~Added(t[(i - L) + k])
        BY <3>1, <3>3
      <4> QED BY <1>6, <2>2, <4>1, <4>2
    <3> QED BY <3>4, <3>5
  <2> QED BY <2>1, <2>2
<1> QED BY <1>7, <1>8 DEF v

\* Nothing in it declares a record; and nothing was added behind a byte of e.
Headless(s) == \A i \in 1..Len(s) : s[i] < LenByte
Unbroken(s, e) ==
    \A i \in 1..Len(s) - 1 : Magnitude(s[i]) \in e[1] + 1..e[2] => ~Added(s[i + 1])

\* The message is all in the payload, and nothing in the name of its header.
Faithful(m, payload) ==
    /\ Runs(payload, 0, m.have) /\ Framed(payload)
    /\ m.proto = "http" => Headless(payload) /\ Unbroken(payload, m.label)

(* Bytes as the client sent them.                                           *)
LEMMA PlainIs ==
    ASSUME NEW p \in Seq(Int), NEW a \in Nat, NEW n \in Nat, a + n < HdrByte, Len(p) = n,
           \A i \in 1..n : p[i] = a + i
    PROVE  Runs(p, a, a + n) /\ Framed(p) /\ Headless(p) /\ \A i \in 1..n : ~Added(p[i])
<1>1. \A i \in 1..n : p[i] \in Int /\ p[i] > 0 /\ p[i] < HdrByte
  BY DEF HdrByte
<1>2. \A x \in Int : x < HdrByte => ~Added(x) /\ x < LenByte
  BY DEF Added, HdrByte, Filler, Dot, LenByte
<1>3. \A i \in 1..n : ~Added(p[i]) /\ p[i] < LenByte
  BY <1>1, <1>2
<1>4. Own(p) = 1..n /\ DOMAIN p = 1..n
  BY <1>3, OwnIs
<1>5. \A i \in 1..n : Magnitude(p[i]) = a + i
  BY <1>1 DEF Magnitude
<1>6. ASSUME NEW k \in a + 1..a + n PROVE \E i \in Own(p) : Magnitude(p[i]) = k
  <2>1. k - a \in 1..n /\ a + (k - a) = k
    OBVIOUS
  <2> QED BY <1>4, <1>5, <2>1
<1>7. Runs(p, a, a + n)
  <2>1. \A i \in Own(p) : Magnitude(p[i]) \in a + 1..a + n
    BY <1>4, <1>5
  <2>2. \A i, j \in Own(p) : i < j => Magnitude(p[i]) < Magnitude(p[j])
    BY <1>4, <1>5
  <2> QED BY <1>6, <2>1, <2>2 DEF Runs
<1>8. Framed(p)
  <2>1. \A i \in DOMAIN p : ~(p[i] >= LenByte)
    BY <1>1, <1>3, <1>4 DEF LenByte
  <2> QED BY <2>1 DEF Framed
<1> QED BY <1>3, <1>7, <1>8 DEF Headless

(* A record header declares what follows it.                                *)
LEMMA RecordIs ==
    ASSUME NEW p \in Seq(Int), NEW a \in Nat, NEW n \in Nat, a + n < HdrByte, Len(p) = n,
           \A i \in 1..n : p[i] = a + i
    PROVE  /\ Header(n) \o p \in Seq(Int) /\ Runs(Header(n) \o p, a, a + n)
           /\ Closed(Header(n) \o p) /\ Framed(Header(n) \o p)
<1>1. PICK h : h = Header(n)
  OBVIOUS
<1>2. /\ h \in Seq(Int) /\ Len(h) = 5 /\ h[5] = LenByte + n
      /\ \A i \in 1..5 : Added(h[i]) /\ (i # 5 => h[i] < LenByte)
  <2>1. h = <<HdrByte, HdrByte, HdrByte, HdrByte, LenByte + n>>
    BY <1>1 DEF Header
  <2>2. HdrByte \in Int /\ LenByte + n \in Int /\ HdrByte < LenByte /\ LenByte + n >= LenByte
    BY DEF HdrByte, LenByte
  <2>3. h \in Seq(Int) /\ Len(h) = 5 /\ h[1] = HdrByte /\ h[2] = HdrByte
        /\ h[3] = HdrByte /\ h[4] = HdrByte /\ h[5] = LenByte + n
    BY <2>1, <2>2
  <2>4. \A i \in 1..5 : i = 1 \/ i = 2 \/ i = 3 \/ i = 4 \/ i = 5
    OBVIOUS
  <2>5. Added(HdrByte) /\ Added(LenByte + n)
    BY <2>2 DEF Added
  <2> QED BY <2>2, <2>3, <2>4, <2>5
<1>3. Runs(p, a, a + n) /\ \A i \in 1..n : ~Added(p[i]) /\ p[i] < LenByte
  BY PlainIs DEF Headless
<1>4. Runs(h, a, a)
  <2>1. Own(h) = {}
    BY <1>2, OwnIs
  <2>2. \A k \in a + 1..a : FALSE
    OBVIOUS
  <2> QED BY <2>1, <2>2 DEF Runs
<1>5. PICK v : v = h \o p
  OBVIOUS
<1>6. v \in Seq(Int) /\ Runs(v, a, a + n)
  <2>1. PICK c : c = a + n
    OBVIOUS
  <2>2. a <= a /\ a <= c /\ c \in Nat /\ Runs(p, a, c)
    BY <1>3, <2>1
  <2>3. h \o p \in Seq(Int) /\ Runs(h \o p, a, c)
    BY <1>2, <1>4, <2>2, RunsJoin
  <2> QED BY <1>5, <2>1, <2>3
<1>7. /\ Len(v) = 5 + n /\ DOMAIN v = 1..5 + n
      /\ \A i \in 1..5 + n : v[i] = IF i <= 5 THEN h[i] ELSE p[i - 5]
  <2>1. /\ Len(h \o p) = Len(h) + Len(p)
        /\ \A i \in 1..Len(h) + Len(p) : (h \o p)[i] = IF i <= Len(h) THEN h[i] ELSE p[i - Len(h)]
    BY <1>2, JoinedIs
  <2> QED BY <1>2, <1>5, <1>6, <2>1, OwnIs
<1>8. ASSUME NEW i \in 1..5 + n, v[i] >= LenByte PROVE i = 5 /\ v[i] - LenByte = n
  <2>0. LenByte \in Int
    BY DEF LenByte
  <2>1. CASE i <= 5
    <3>0. i \in 1..5 /\ i \in 1..Len(h)
      BY <1>2, <2>1
    <3>1. i \in 1..5 /\ v[i] = h[i] /\ h[i] \in Int
      BY <1>2, <1>7, <2>1, <3>0, ElementOfSeq
    <3>2. i = 5
      BY <1>2, <1>8, <2>0, <3>1
    <3> QED BY <1>2, <2>0, <3>1, <3>2
  <2>2. CASE ~(i <= 5)
    <3>1. i - 5 \in 1..n /\ v[i] = p[i - 5] /\ p[i - 5] \in Int
      BY <1>7, <2>2
    <3> QED BY <1>3, <1>8, <2>0, <3>1
  <2> QED BY <2>1, <2>2
<1>9. \A k \in 1..n : ~Added(v[5 + k])
  <2> TAKE k \in 1..n
  <2>1. 5 + k \in 1..5 + n /\ ~(5 + k <= 5) /\ (5 + k) - 5 = k
    OBVIOUS
  <2> QED BY <1>3, <1>7, <2>1
<1>10. Closed(v) /\ Framed(v)
  <2>1. \A i \in DOMAIN v : v[i] >= LenByte => i = 5 /\ v[i] - LenByte = n
    BY <1>7, <1>8
  <2>2. 5 + n <= Len(v)
    BY <1>7
  <2>3. Closed(v)
    BY <1>9, <2>1, <2>2 DEF Closed
  <2>4. Framed(v)
    BY <1>9, <2>1 DEF Framed
  <2> QED BY <2>3, <2>4
<1> QED BY <1>1, <1>5, <1>6, <1>10

(* What a hello, a request or a datagram is before it is rewritten.         *)
LEMMA BytesFaithful ==
    ASSUME NEW m, GoodMessage(m)
    PROVE  Faithful(m, Bytes(m))
<1>1. m.body \in Nat /\ m.have \in Nat /\ m.have < HdrByte /\ m.body < HdrByte
  BY DEF GoodMessage, Message, WithinBody
<1>2. PICK p : p = Upto(m.have)
  OBVIOUS
<1>3. p \in Seq(Int) /\ Len(p) = m.have /\ \A i \in 1..m.have : p[i] = 0 + i
  BY <1>1, <1>2 DEF Upto
<1>4. Runs(p, 0, m.have) /\ Framed(p) /\ Headless(p) /\ \A i \in 1..m.have : ~Added(p[i])
  <2>1. PICK n : n = m.have
    OBVIOUS
  <2>2. 0 + n < HdrByte /\ n \in Nat /\ 0 \in Nat /\ Len(p) = n /\ \A i \in 1..n : p[i] = 0 + i
    BY <1>1, <1>3, <2>1
  <2>3. Runs(p, 0, 0 + n) /\ Framed(p) /\ Headless(p) /\ \A i \in 1..n : ~Added(p[i])
    BY <1>3, <2>2, PlainIs
  <2>4. 0 + n = n
    BY <2>2
  <2> QED BY <2>1, <2>3, <2>4
<1>5. CASE m.proto = "tls"
  <2>1. PICK h, k : h = Header(m.body) /\ k = m.body
    OBVIOUS
  <2>2. /\ h \in Seq(Int) /\ Len(h) = 5 /\ Bytes(m) = h \o p /\ h[5] = LenByte + k
        /\ \A i \in 1..5 : Added(h[i]) /\ (i # 5 => h[i] < LenByte)
    <3>1. h = <<HdrByte, HdrByte, HdrByte, HdrByte, LenByte + k>>
      BY <2>1 DEF Header
    <3>2. HdrByte \in Int /\ LenByte + k \in Int /\ HdrByte < LenByte /\ LenByte + k >= LenByte
      BY <1>1, <2>1 DEF HdrByte, LenByte
    <3>3. h \in Seq(Int) /\ Len(h) = 5 /\ h[1] = HdrByte /\ h[2] = HdrByte
          /\ h[3] = HdrByte /\ h[4] = HdrByte /\ h[5] = LenByte + k
      BY <3>1, <3>2
    <3>4. \A i \in 1..5 : i = 1 \/ i = 2 \/ i = 3 \/ i = 4 \/ i = 5
      OBVIOUS
    <3>5. Added(HdrByte) /\ Added(LenByte + k)
      BY <3>2 DEF Added
    <3>6. Bytes(m) = h \o p
      BY <1>2, <1>5, <2>1 DEF Bytes
    <3> QED BY <3>2, <3>3, <3>4, <3>5, <3>6
  <2>3. Runs(h, 0, 0)
    <3>1. Own(h) = {}
      BY <2>2, OwnIs
    <3>2. \A i \in 0 + 1..0 : FALSE
      OBVIOUS
    <3> QED BY <3>1, <3>2 DEF Runs
  <2>4. Runs(h \o p, 0, m.have)
    <3>1. PICK n \in Nat : n = m.have
      BY <1>1
    <3>2. 0 \in Nat /\ 0 <= 0 /\ 0 <= n /\ Runs(p, 0, n)
      BY <1>4, <3>1
    <3>3. Runs(h \o p, 0, n)
      BY <1>3, <2>2, <2>3, <3>2, RunsJoin
    <3> QED BY <3>1, <3>3
  <2>5. PICK v : v = h \o p
    OBVIOUS
  <2>6. /\ v \in Seq(Int) /\ Len(v) = 5 + m.have /\ DOMAIN v = 1..5 + m.have
        /\ \A i \in 1..5 + m.have : v[i] = IF i <= 5 THEN h[i] ELSE p[i - 5]
    <3>1. /\ h \o p \in Seq(Int) /\ Len(h \o p) = Len(h) + Len(p)
          /\ \A i \in 1..Len(h) + Len(p) :
               (h \o p)[i] = IF i <= Len(h) THEN h[i] ELSE p[i - Len(h)]
      BY <1>3, <2>2, JoinedIs
    <3> QED BY <1>3, <2>2, <2>5, <3>1, OwnIs
  <2>7. ASSUME NEW i \in 1..5 + m.have, v[i] >= LenByte PROVE i = 5
    <3>0. LenByte \in Int
      BY DEF LenByte
    <3>1. CASE i <= 5
      <4>1. i \in 1..5 /\ v[i] = h[i] /\ h[i] \in Int
        BY <2>2, <2>6, <3>1, ElementOfSeq
      <4> QED BY <2>2, <2>7, <3>0, <4>1
    <3>2. CASE ~(i <= 5)
      <4>1. i - 5 \in 1..m.have /\ v[i] = p[i - 5] /\ p[i - 5] \in Int
        BY <1>1, <1>3, <2>6, <3>2
      <4>2. p[i - 5] < LenByte
        BY <1>3, <1>4, <4>1 DEF Headless
      <4> QED BY <2>7, <3>0, <4>1, <4>2
    <3> QED BY <3>1, <3>2
  <2>8. \A k2 \in Nat \ {0} : 5 + k2 <= Len(v) => ~Added(v[5 + k2])
    <3> TAKE k2 \in Nat \ {0}
    <3> HAVE 5 + k2 <= Len(v)
    <3>1. 5 + k2 \in 1..5 + m.have /\ ~(5 + k2 <= 5) /\ (5 + k2) - 5 = k2 /\ k2 \in 1..m.have
      BY <1>1, <2>6
    <3> QED BY <1>4, <2>6, <3>1
  <2>9. Framed(v)
    <3> SUFFICES ASSUME NEW i \in DOMAIN v, v[i] >= LenByte, NEW j \in 1..(v[i] - LenByte),
                        i + j <= Len(v)
                 PROVE  ~Added(v[i + j])
      BY DEF Framed
    <3>1. i = 5 /\ v[i] \in Int
      BY <2>6, <2>7, ElementOfSeq
    <3>2. j \in Nat \ {0}
      BY <3>1 DEF LenByte
    <3> QED BY <2>8, <3>1, <3>2
  <2> QED BY <1>5, <2>2, <2>4, <2>5, <2>9 DEF Faithful
<1>6. CASE m.proto # "tls"
  <2>1. Bytes(m) = p
    BY <1>2, <1>6 DEF Bytes
  <2>2. Unbroken(p, m.label)
    <3>1. \A i \in 1..Len(p) - 1 : i + 1 \in 1..m.have
      BY <1>1, <1>3
    <3> QED BY <1>4, <3>1 DEF Unbroken
  <2> QED BY <1>4, <2>1, <2>2 DEF Faithful
<1> QED BY <1>5, <1>6

-----------------------------------------------------------------------------
(* Re-framing keeps the message.                                            *)

\* What is known of records joined up to a byte of the body.
Joined(s, n) == s \in Seq(Int) /\ Runs(s, 0, n) /\ Closed(s)

LEMMA RecordsAre ==
    ASSUME NEW body \in Seq(Int), Len(body) < HdrByte, \A i \in 1..Len(body) : body[i] = i,
           NEW cuts \in Growing(Len(body)), NEW s, s = SplitRecord(body, cuts)
    PROVE  Joined(s, Len(body))
<1> DEFINE parts == Pieces(body, cuts)
           seqs  == [k \in 1..Len(parts) |-> Header(Len(parts[k])) \o parts[k]]
           N     == Len(cuts) + 1
<1>1. /\ parts \in Seq(Seq(Int)) /\ Len(parts) = N /\ Len(cuts) \in Nat
      /\ \A k \in 1..N : IsPiece(parts[k], body, cuts, k)
  BY PiecesAre
<1>2. s = FlattenSeq(seqs)
  BY DEF SplitRecord
<1> HIDE DEF parts
<1>3. N \in Nat /\ 1 <= N /\ Len(body) \in Nat
  BY <1>1, LenProperties
<1>4. ASSUME NEW k \in 1..N
      PROVE  /\ From(cuts, k) \in Nat /\ To(body, cuts, k) \in Nat
             /\ From(cuts, k) <= To(body, cuts, k) /\ To(body, cuts, k) <= Len(body)
             /\ Header(Len(parts[k])) \o parts[k] \in Seq(Int)
             /\ Runs(Header(Len(parts[k])) \o parts[k], From(cuts, k), To(body, cuts, k))
             /\ Closed(Header(Len(parts[k])) \o parts[k])
  <2>1. PICK p, a, e, n : p = parts[k] /\ a = From(cuts, k) /\ e = To(body, cuts, k) /\ n = e - a
    OBVIOUS
  <2>2. p \in Seq(Int)
    BY <1>1, <2>1, ElementOfSeq
  <2>3. /\ a \in 0..e /\ e \in 0..Len(body) /\ Len(p) = n /\ \A i \in 1..n : p[i] = body[a + i]
    BY <1>1, <2>1 DEF IsPiece
  <2>4. a \in Nat /\ e \in Nat /\ a <= e /\ e <= Len(body) /\ n \in Nat /\ a + n = e
    BY <1>3, <2>1, <2>3
  <2>5. a + n < HdrByte /\ \A i \in 1..n : p[i] = a + i
    <3>1. \A i \in 1..n : a + i \in 1..Len(body)
      BY <1>3, <2>4
    <3> QED BY <1>3, <2>3, <2>4, <3>1 DEF HdrByte
  <2>6. /\ Header(n) \o p \in Seq(Int) /\ Runs(Header(n) \o p, a, a + n)
        /\ Closed(Header(n) \o p)
    BY <2>2, <2>3, <2>4, <2>5, RecordIs
  <2> QED BY <2>1, <2>3, <2>4, <2>6
<1>5. seqs \in Seq(Seq(Int)) /\ Len(seqs) = N
      /\ \A k \in 1..N : seqs[k] = Header(Len(parts[k])) \o parts[k]
  <2>1. seqs \in [1..Len(parts) -> Seq(Int)]
    BY <1>1, <1>4
  <2>2. PICK K : K = Len(parts)
    OBVIOUS
  <2>3. K \in Nat /\ seqs \in [1..K -> Seq(Int)] /\ K = N
    BY <1>1, <1>3, <2>1, <2>2
  <2>4. \A k \in 1..N : seqs[k] = Header(Len(parts[k])) \o parts[k]
    BY <1>1
  <2> HIDE DEF seqs, N
  <2>5. seqs \in Seq(Seq(Int)) /\ Len(seqs) = K
    BY <2>3
  <2> QED BY <2>3, <2>4, <2>5
<1> HIDE DEF seqs
<1>6. \A k \in 1..N : /\ seqs[k] \in Seq(Int) /\ Closed(seqs[k])
                      /\ Runs(seqs[k], From(cuts, k), To(body, cuts, k))
  BY <1>4, <1>5
<1>7. PICK g : Joins(g, seqs)
  <2>1. Len(seqs) > 0
    BY <1>3, <1>5
  <2> QED BY <1>5, <2>1, JoinsUp
<1> DEFINE h == [k \in 1..N |-> <<g[k], To(body, cuts, k)>>]
           X == {x \in Seq(Int) \X Nat : Joined(x[1], x[2])}
<1>8. \A k \in 1..N : /\ h[k][1] = g[k] /\ h[k][2] = To(body, cuts, k)
                      /\ h[k] = <<g[k], To(body, cuts, k)>>
  OBVIOUS
<1>9. \A k \in 1..N : g[k] \in Seq(Int)
  BY <1>5, <1>7 DEF Joins
<1> HIDE DEF h
<1>10. \A k \in 1..N : Joined(g[k], To(body, cuts, k)) <=> h[k] \in X
  <2> TAKE k \in 1..N
  <2>1. <<g[k], To(body, cuts, k)>> \in Seq(Int) \X Nat
    BY <1>4, <1>9
  <2> QED BY <1>8, <2>1
<1> HIDE DEF X
<1>11. h[1] \in X
  <2>1. 1 \in 1..N /\ g[1] = seqs[1] /\ From(cuts, 1) = 0
    BY <1>3, <1>7 DEF Joins, From
  <2>2. Joined(g[1], To(body, cuts, 1))
    BY <1>6, <2>1 DEF Joined
  <2> QED BY <1>10, <2>1, <2>2
<1>12. ASSUME NEW k \in 1 + 1..N, h[k - 1] \in X PROVE h[k] \in X
  <2>1. k \in 1..N /\ k - 1 \in 1..N /\ k \in 2..N /\ k # 1 /\ k - 1 # Len(cuts) + 1
    BY <1>3
  <2>2. g[k] = g[k - 1] \o seqs[k]
    BY <1>5, <1>7, <2>1 DEF Joins
  <2>3. From(cuts, k) = To(body, cuts, k - 1)
    BY <2>1 DEF From, To
  <2>4. Joined(g[k - 1], From(cuts, k))
    BY <1>10, <1>12, <2>1, <2>3
  <2>5. PICK x, y, a, e : x = g[k - 1] /\ y = seqs[k] /\ a = From(cuts, k) /\ e = To(body, cuts, k)
    OBVIOUS
  <2>6. /\ x \in Seq(Int) /\ y \in Seq(Int) /\ a \in Nat /\ e \in Nat /\ a <= e
        /\ Runs(x, 0, a) /\ Runs(y, a, e) /\ Closed(x) /\ Closed(y)
    BY <1>4, <1>6, <2>1, <2>4, <2>5 DEF Joined
  <2>7. x \o y \in Seq(Int) /\ Runs(x \o y, 0, e)
    <3>1. 0 \in Nat /\ 0 <= a
      BY <2>6
    <3> QED BY <2>6, <3>1, RunsJoin
  <2>8. Closed(x \o y)
    BY <2>6, FramesJoin
  <2>9. Joined(g[k], To(body, cuts, k))
    BY <2>2, <2>5, <2>7, <2>8 DEF Joined
  <2> QED BY <1>10, <2>1, <2>9
<1>13. \A k \in 1..N : h[k] \in X
  <2>1. 1 \in Nat
    OBVIOUS
  <2> HIDE DEF N
  <2> QED BY <1>3, <1>11, <1>12, <2>1, AllAlong
<1>14. N \in 1..N /\ To(body, cuts, N) = Len(body) /\ s = g[N]
  BY <1>2, <1>3, <1>5, <1>7 DEF Joins, To
<1> QED BY <1>10, <1>13, <1>14

(* The end of a hello, behind its first record.                             *)
LEMMA EndOfHello ==
    ASSUME NEW m, GoodMessage(m), m.proto = "tls", NEW e \in Nat, e <= m.have,
           NEW t, t = SubSeq(Bytes(m), (RecHdr + e) + 1, Len(Bytes(m)))
    PROVE  t \in Seq(Int) /\ Runs(t, e, m.have) /\ Framed(t)
<1>1. PICK s, h : s = Bytes(m) /\ h = m.have
  OBVIOUS
<1>2. /\ s \in Seq(Int) /\ Len(s) = 5 + h /\ h \in Nat /\ h < HdrByte /\ e <= h
      /\ \A i \in 1..h : s[5 + i] = i
  BY <1>1, BytesAre DEF RecHdr, GoodMessage, WithinBody
<1>3. PICK a, z : a = (5 + e) + 1 /\ z = 5 + h
  OBVIOUS
<1>4. t = SubSeq(s, a, z) /\ a \in Nat \ {0} /\ z \in Int /\ z <= Len(s)
  <2>1. Len(s) = 5 + h /\ h \in Nat
    BY <1>2
  <2>2. a \in Nat \ {0} /\ z \in Int /\ z <= Len(s)
    BY <1>3, <2>1
  <2>3. (RecHdr + e) + 1 = a /\ Len(s) = z
    BY <1>3, <2>1 DEF RecHdr
  <2> QED BY <1>1, <2>2, <2>3
<1>5. /\ t \in Seq(Int) /\ Len(t) = IF a <= z THEN (z - a) + 1 ELSE 0
      /\ \A i \in 1..Len(t) : t[i] = s[(a + i) - 1]
  <2>1. /\ SubSeq(s, a, z) \in Seq(Int)
        /\ Len(SubSeq(s, a, z)) = IF a <= z THEN (z - a) + 1 ELSE 0
        /\ \A i \in 1..Len(SubSeq(s, a, z)) : SubSeq(s, a, z)[i] = s[(a + i) - 1]
    BY <1>2, <1>4, PartOf
  <2> QED BY <1>4, <2>1
<1>6. PICK n : n = h - e
  OBVIOUS
<1>7. n \in Nat /\ e + n = h /\ Len(t) = n
  BY <1>2, <1>3, <1>5, <1>6
<1>8. \A i \in 1..n : t[i] = e + i
  <2> TAKE i \in 1..n
  <2>0. a = (5 + e) + 1 /\ h \in Nat /\ n \in Nat /\ e + n = h /\ Len(t) = n
    BY <1>2, <1>3, <1>7
  <2>1. (a + i) - 1 = 5 + (e + i) /\ e + i \in 1..h /\ i \in 1..Len(t)
    <3>1. i \in Int /\ 1 <= i /\ i <= n
      BY <2>0
    <3>2. (a + i) - 1 = 5 + (e + i)
      BY <2>0, <3>1
    <3>3. e + i \in 1..h
      BY <2>0, <3>1
    <3>4. i \in 1..Len(t)
      BY <2>0, <3>1
    <3> QED BY <3>2, <3>3, <3>4
  <2> QED BY <1>2, <1>5, <2>1
<1>9. Runs(t, e, e + n) /\ Framed(t)
  BY <1>2, <1>5, <1>7, <1>8, PlainIs
<1> QED BY <1>1, <1>5, <1>7, <1>9

LEMMA ReframeFaithful ==
    ASSUME NEW m, GoodMessage(m), NEW b, NEW d, SoundBuilder(b, m, d), ~b.bad,
           NEW cuts \in Seq(Int),
           Faithful(m, b.payload), NEW r, r = ReframeFirstRecord(b, cuts)
    PROVE  Faithful(m, r.payload)
<1> DEFINE end == b.meta.off + b.meta.len
           body == SubSeq(b.payload, b.meta.off + 1, end)
           rest == SubSeq(b.payload, end + 1, Len(b.payload))
           records == SplitRecord(body, cuts)
           payload == records \o rest
           more == [b EXCEPT !.reframed = TRUE, !.payload = payload]
           Refused ==
             \/ b.reframed \/ b.segs # <<>> \/ b.meta.proto # "tls" \/ ~b.meta.complete
             \/ cuts = <<>> \/ \E k \in DOMAIN cuts : cuts[k] <= (IF k = 1 THEN 0 ELSE cuts[k-1])
             \/ end > Len(b.payload) \/ (HasSNI(b.meta) /\ cuts[1] > b.meta.sni[2] - 1)
             \/ cuts[Len(cuts)] >= b.meta.len
<1>1. r = IF Refused THEN Failed(b) ELSE more
  BY DEF ReframeFirstRecord
<1>2. /\ b \in Builder /\ b.payload \in Seq(Int) /\ Len(b.payload) \in Nat
      /\ b.meta = Parse(m, b.payload) /\ Whole(m, b.payload)
  BY LenProperties DEF SoundBuilder, Builder
<1>3. CASE Refused
  <2>1. r = Failed(b)
    BY <1>1, <1>3
  <2>2. r.payload = b.payload
    BY <1>2, <2>1 DEF Failed, Builder
  <2> QED BY <2>2
<1>4. CASE ~Refused
  <2>1. m.proto = "tls" /\ b.meta.off = 5 /\ b.meta.len = m.body /\ m.body \in Nat
        /\ m.body < HdrByte
    <3>1. m.proto = "tls"
      BY <1>2, <1>4, ParseIs
    <3>2. m.body \in Nat /\ m.body < HdrByte
      BY DEF GoodMessage, Message, WithinBody
    <3> QED BY <1>2, <3>1, <3>2, ParseIs DEF RecHdr
  <2>2. b.payload = Bytes(m)
    <3>1. ~b.reframed
      BY <1>4
    <3> QED BY <2>1, <3>1 DEF SoundBuilder, FirstRecord
  <2>3. /\ Len(b.payload) = 5 + m.have /\ m.have \in Nat
        /\ \A i \in 1..m.have : b.payload[5 + i] = i
    BY <2>1, <2>2, BytesAre DEF RecHdr
  <2>4. end = 5 + m.body /\ ~(end > Len(b.payload))
    BY <1>4, <2>1
  <2>5. m.body <= m.have
    BY <2>1, <2>3, <2>4
  <2>6. body \in Seq(Int) /\ Len(body) = m.body /\ \A i \in 1..m.body : body[i] = i
    <3>1. body = SubSeq(b.payload, 6, 5 + m.body)
      BY <2>1, <2>4
    <3>2. PICK a, e : a = 6 /\ e = 5 + m.body
      OBVIOUS
    <3>3. a \in Nat \ {0} /\ e \in Int /\ e <= Len(b.payload)
      BY <2>1, <2>3, <2>5, <3>2
    <3>4. /\ SubSeq(b.payload, a, e) \in Seq(Int)
          /\ Len(SubSeq(b.payload, a, e)) = IF a <= e THEN (e - a) + 1 ELSE 0
          /\ \A i \in 1..Len(SubSeq(b.payload, a, e)) :
               SubSeq(b.payload, a, e)[i] = b.payload[(a + i) - 1]
      BY <1>2, <3>3, PartOf
    <3>5. \A i \in 1..m.body : (a + i) - 1 = 5 + i /\ i \in 1..m.have
      BY <2>1, <2>3, <2>5, <3>2
    <3>6. (IF a <= e THEN (e - a) + 1 ELSE 0) = m.body
      BY <2>1, <3>2
    <3>7. body = SubSeq(b.payload, a, e)
      BY <3>1, <3>2
    <3> HIDE DEF body
    <3> QED BY <2>3, <3>4, <3>5, <3>6, <3>7
  <2>7. rest \in Seq(Int) /\ Runs(rest, m.body, m.have) /\ Framed(rest)
    <3>1. rest = SubSeq(Bytes(m), (RecHdr + m.body) + 1, Len(Bytes(m)))
      BY <2>2, <2>4 DEF RecHdr
    <3> HIDE DEF rest
    <3>2. PICK e : e = m.body
      OBVIOUS
    <3>3. e \in Nat /\ e <= m.have /\ rest = SubSeq(Bytes(m), (RecHdr + e) + 1, Len(Bytes(m)))
      BY <2>1, <2>5, <3>1, <3>2
    <3>4. rest \in Seq(Int) /\ Runs(rest, e, m.have) /\ Framed(rest)
      BY <2>1, <3>3, EndOfHello
    <3> QED BY <3>2, <3>4
  <2>8. cuts \in Growing(Len(body))
    <3>1. /\ cuts # <<>>
          /\ ~\E k \in DOMAIN cuts : cuts[k] <= (IF k = 1 THEN 0 ELSE cuts[k - 1])
      BY <1>4
    <3>2. ~(cuts[Len(cuts)] >= m.body)
      BY <1>4, <2>1
    <3>3. cuts[Len(cuts)] \in Int
      <4>1. Len(cuts) \in 1..Len(cuts)
        BY <3>1, LenProperties
      <4> QED BY <4>1, ElementOfSeq
    <3>4. cuts[Len(cuts)] < m.body
      BY <2>1, <3>2, <3>3
    <3>5. cuts \in Growing(m.body)
      BY <2>1, <3>1, <3>4, CutsGrow
    <3> QED BY <2>6, <3>5
  <2> HIDE DEF body, rest, end
  <2>9. Joined(records, m.body)
    BY <2>1, <2>6, <2>8, RecordsAre
  <2> HIDE DEF records
  <2>10. payload \in Seq(Int) /\ Runs(payload, 0, m.have) /\ Framed(payload)
    <3>1. PICK x, y, e, n : x = records /\ y = rest /\ e = m.body /\ n = m.have
      OBVIOUS
    <3>2. /\ x \in Seq(Int) /\ y \in Seq(Int) /\ e \in Nat /\ n \in Nat /\ 0 \in Nat /\ 0 <= e
          /\ e <= n /\ Runs(x, 0, e) /\ Runs(y, e, n) /\ Closed(x) /\ Framed(y)
      BY <2>1, <2>3, <2>5, <2>7, <2>9, <3>1 DEF Joined
    <3>3. x \o y \in Seq(Int) /\ Runs(x \o y, 0, n)
      BY <3>2, RunsJoin
    <3>4. Framed(x \o y)
      BY <3>2, FramesJoin
    <3> QED BY <3>1, <3>3, <3>4
  <2> HIDE DEF payload
  <2>11. more.payload = payload
    BY <1>2 DEF Builder
  <2>12. r.payload = payload
    BY <1>1, <1>4, <2>11
  <2> QED BY <2>1, <2>10, <2>12 DEF Faithful
<1> QED BY <1>3, <1>4

-----------------------------------------------------------------------------
(* The rewrites of a header keep the message.                               *)

LEMMA WidenedRuns ==
    ASSUME NEW s \in Seq(Int), NEW t \in Seq(Int), NEW k, NEW n, Widened(t, s, k, n),
           NEW c, Runs(s, 0, c), Headless(s)
    PROVE  Runs(t, 0, c) /\ Headless(t)
<1>1. /\ Len(s) \in Nat /\ Own(s) = {i \in 1..Len(s) : ~Added(s[i])}
      /\ \A i \in 1..Len(s) : s[i] \in Int
  BY OwnIs
<1>2. Len(t) \in Nat /\ Own(t) = {i \in 1..Len(t) : ~Added(t[i])}
  BY OwnIs
<1>3. /\ k \in 0..Len(s) /\ n \in Nat \ {0} /\ Len(t) = Len(s) + n
      /\ \A i \in 1..k : t[i] = s[i]
      /\ \A i \in k + 1..k + n : t[i] \in {Filler, Dot}
      /\ \A i \in k + 1..Len(s) : t[i + n] = s[i]
  BY DEF Widened
<1>4. \A x \in {Filler, Dot} : Added(x) /\ x < LenByte
  BY DEF Added, Filler, Dot, LenByte
<1>5. \A i \in 1..Len(t) : \/ i \in 1..k
                           \/ i \in k + 1..k + n
                           \/ i - n \in k + 1..Len(s) /\ (i - n) + n = i
  BY <1>1, <1>3
<1>6. ASSUME NEW i \in Own(t)
      PROVE  \/ i \in 1..k /\ i \in Own(s) /\ t[i] = s[i]
             \/ i - n \in k + 1..Len(s) /\ i - n \in Own(s) /\ t[i] = s[i - n]
  <2>1. i \in 1..Len(t) /\ ~Added(t[i])
    BY <1>2
  <2>2. CASE i \in 1..k
    <3>1. i \in 1..Len(s) /\ t[i] = s[i]
      BY <1>1, <1>3, <2>2
    <3> QED BY <1>1, <2>1, <2>2, <3>1
  <2>3. CASE i \in k + 1..k + n
    BY <1>3, <1>4, <2>1, <2>3
  <2>4. CASE i - n \in k + 1..Len(s) /\ (i - n) + n = i
    <3>1. i - n \in 1..Len(s) /\ t[i] = s[i - n]
      <4>1. t[(i - n) + n] = s[i - n]
        BY <1>3, <2>4
      <4>2. i - n \in 1..Len(s)
        BY <1>1, <1>3, <2>4
      <4> QED BY <2>4, <4>1, <4>2
    <3> QED BY <1>1, <2>1, <2>4, <3>1
  <2> QED BY <1>5, <2>1, <2>2, <2>3, <2>4
<1>7. ASSUME NEW i \in Own(s)
      PROVE  \E j \in Own(t) : t[j] = s[i]
  <2>1. i \in 1..Len(s) /\ ~Added(s[i])
    BY <1>1
  <2>2. CASE i <= k
    <3>1. i \in 1..k /\ i \in 1..Len(t)
      BY <1>1, <1>3, <2>1, <2>2
    <3> QED BY <1>2, <1>3, <2>1, <3>1
  <2>3. CASE ~(i <= k)
    <3>1. i \in k + 1..Len(s) /\ i + n \in 1..Len(t)
      BY <1>1, <1>3, <2>1, <2>3
    <3>2. t[i + n] = s[i]
      BY <1>3, <3>1
    <3> QED BY <1>2, <2>1, <3>1, <3>2
  <2> QED BY <2>2, <2>3
<1>8. /\ \A i \in Own(s) : Magnitude(s[i]) \in 0 + 1..c
      /\ \A i, j \in Own(s) : i < j => Magnitude(s[i]) < Magnitude(s[j])
      /\ \A x \in 0 + 1..c : \E i \in Own(s) : Magnitude(s[i]) = x
  BY DEF Runs
<1>9. \A i \in Own(t) : Magnitude(t[i]) \in 0 + 1..c
  BY <1>6, <1>8
<1>10. ASSUME NEW i \in Own(t), NEW j \in Own(t), i < j PROVE Magnitude(t[i]) < Magnitude(t[j])
  <2>0. i \in Int /\ j \in Int /\ n \in Nat /\ k \in Int
    BY <1>2, <1>3
  <2>1. CASE /\ i \in 1..k /\ i \in Own(s) /\ t[i] = s[i]
             /\ j \in 1..k /\ j \in Own(s) /\ t[j] = s[j]
    BY <1>8, <1>10, <2>1
  <2>2. CASE /\ i \in 1..k /\ i \in Own(s) /\ t[i] = s[i]
             /\ j - n \in k + 1..Len(s) /\ j - n \in Own(s) /\ t[j] = s[j - n]
    <3>1. i < j - n
      BY <2>0, <2>2
    <3> QED BY <1>8, <2>2, <3>1
  <2>3. CASE /\ i - n \in k + 1..Len(s) /\ i - n \in Own(s) /\ t[i] = s[i - n]
             /\ j \in 1..k /\ j \in Own(s) /\ t[j] = s[j]
    <3>1. FALSE
      BY <1>10, <2>0, <2>3
    <3> QED BY <3>1
  <2>4. CASE /\ i - n \in k + 1..Len(s) /\ i - n \in Own(s) /\ t[i] = s[i - n]
             /\ j - n \in k + 1..Len(s) /\ j - n \in Own(s) /\ t[j] = s[j - n]
    <3>1. i - n < j - n
      BY <1>10, <2>0
    <3> QED BY <1>8, <2>4, <3>1
  <2> QED BY <1>6, <2>1, <2>2, <2>3, <2>4
<1>11. ASSUME NEW x \in 0 + 1..c PROVE \E i \in Own(t) : Magnitude(t[i]) = x
  <2>1. PICK i \in Own(s) : Magnitude(s[i]) = x
    BY <1>8
  <2>2. PICK j \in Own(t) : t[j] = s[i]
    BY <1>7
  <2> QED BY <2>1, <2>2
<1>12. Runs(t, 0, c)
  BY <1>9, <1>10, <1>11 DEF Runs
<1>13. ASSUME NEW i \in 1..Len(t) PROVE t[i] < LenByte
  <2>1. CASE i \in 1..k
    <3>1. i \in 1..Len(s) /\ t[i] = s[i]
      BY <1>1, <1>3, <2>1
    <3> QED BY <3>1 DEF Headless
  <2>2. CASE i \in k + 1..k + n
    BY <1>3, <1>4, <2>2
  <2>3. CASE i - n \in k + 1..Len(s) /\ (i - n) + n = i
    <3>1. i - n \in 1..Len(s)
      BY <1>1, <1>3, <2>3
    <3>2. t[(i - n) + n] = s[i - n]
      BY <1>3, <2>3
    <3> QED BY <2>3, <3>1, <3>2 DEF Headless
  <2> QED BY <1>5, <2>1, <2>2, <2>3
<1> QED BY <1>12, <1>13 DEF Headless

(* Bytes of the program's are not in a name.                                *)
LEMMA AddedIs ==
    ASSUME NEW x \in Int, Added(x)
    PROVE  Magnitude(x) >= HdrByte
BY DEF Added, Magnitude, HdrByte, Filler, Dot, LenByte

LEMMA WidenedUnbroken ==
    ASSUME NEW s \in Seq(Int), NEW t \in Seq(Int), NEW k, NEW n, Widened(t, s, k, n),
           NEW e \in Nat \X Nat, e[2] < HdrByte, Unbroken(s, e),
           k > 0 => Magnitude(s[k]) \notin e[1] + 1..e[2]
    PROVE  Unbroken(t, e)
<1>1. Len(s) \in Nat /\ Len(t) \in Nat /\ \A i \in 1..Len(t) : t[i] \in Int
  BY OwnIs
<1>2. /\ k \in 0..Len(s) /\ n \in Nat \ {0} /\ Len(t) = Len(s) + n
      /\ \A i \in 1..k : t[i] = s[i]
      /\ \A i \in k + 1..k + n : t[i] \in {Filler, Dot}
      /\ \A i \in k + 1..Len(s) : t[i + n] = s[i]
  BY DEF Widened
<1> SUFFICES ASSUME NEW i \in 1..Len(t) - 1, Magnitude(t[i]) \in e[1] + 1..e[2]
             PROVE  ~Added(t[i + 1])
  BY DEF Unbroken
<1>3. i \in Nat \ {0} /\ i + 1 <= Len(s) + n /\ i \in 1..Len(t)
  BY <1>1, <1>2
<1>4. CASE i < k
  <2>1. i \in 1..k /\ i + 1 \in 1..k /\ i \in 1..Len(s) - 1
    BY <1>1, <1>2, <1>3, <1>4
  <2>2. t[i] = s[i] /\ t[i + 1] = s[i + 1]
    BY <1>2, <2>1
  <2> QED BY <2>1, <2>2 DEF Unbroken
<1>5. CASE i = k
  <2>1. i \in 1..k /\ k > 0
    BY <1>2, <1>3, <1>5
  <2>2. t[i] = s[k]
    BY <1>2, <1>5, <2>1
  <2> QED BY <2>1, <2>2
<1>6. CASE i > k /\ i <= k + n
  <2>1. i \in k + 1..k + n
    BY <1>2, <1>3, <1>6
  <2>2. Added(t[i])
    BY <1>2, <2>1 DEF Added
  <2>3. Magnitude(t[i]) >= HdrByte
    BY <1>1, <1>3, <2>2, AddedIs
  <2>4. e[1] \in Nat /\ e[2] \in Nat /\ Magnitude(t[i]) \in Int
    BY <1>1, <1>3 DEF Magnitude
  <2> QED BY <2>3, <2>4 DEF HdrByte
<1>7. CASE i > k + n
  <2>1. /\ i - n \in k + 1..Len(s) /\ (i - n) + n = i
        /\ (i - n) + 1 \in k + 1..Len(s) /\ ((i - n) + 1) + n = i + 1
        /\ i - n \in 1..Len(s) - 1
    BY <1>1, <1>2, <1>3, <1>7
  <2>2. t[(i - n) + n] = s[i - n] /\ t[((i - n) + 1) + n] = s[(i - n) + 1]
    BY <1>2, <2>1
  <2>3. t[i] = s[i - n] /\ t[i + 1] = s[(i - n) + 1]
    BY <2>1, <2>2
  <2> QED BY <2>1, <2>3 DEF Unbroken
<1> QED BY <1>2, <1>3, <1>4, <1>5, <1>6, <1>7

(* Where a name is, in a request.                                           *)
\* All of e, of a message of c bytes, is looked for, and part of it is there.
Sought(s, c, e, from, to) ==
    /\ s \in Seq(Int) /\ c \in Nat /\ c < HdrByte /\ Runs(s, 0, c)
    /\ e \in Nat \X Nat /\ e[1] < e[2] /\ e[2] < HdrByte /\ Extent(s, e) # Nowhere
    /\ from = Index(s, e[1] + 1) /\ to = Index(s, e[2])
\* It is there from its first byte to its last.
Found(s, e, from, to) ==
    /\ from \in Own(s) /\ Magnitude(s[from]) = e[1] + 1
    /\ to \in Own(s) /\ Magnitude(s[to]) = e[2] /\ from <= to
    /\ from \in 1..Len(s) /\ to \in 1..Len(s)
    /\ Extent(s, e) = <<from - 1, IF to < Len(s) /\ s[to + 1] = Dot THEN to + 1 ELSE to>>

LEMMA FoundAt ==
    ASSUME NEW s, NEW c, NEW e, NEW from, NEW to, Sought(s, c, e, from, to)
    PROVE  Found(s, e, from, to)
<1>0. /\ s \in Seq(Int) /\ c \in Nat /\ c < HdrByte /\ Runs(s, 0, c)
      /\ e \in Nat \X Nat /\ e[1] < e[2] /\ e[2] < HdrByte /\ Extent(s, e) # Nowhere
      /\ from = Index(s, e[1] + 1) /\ to = Index(s, e[2])
  BY DEF Sought
<1>1. /\ Len(s) \in Nat /\ DOMAIN s = 1..Len(s) /\ Own(s) = {i \in 1..Len(s) : ~Added(s[i])}
      /\ \A i \in 1..Len(s) : s[i] \in Int /\ Magnitude(s[i]) \in Nat
  BY <1>0, OwnIs
<1>2. e[1] \in Nat /\ e[2] \in Nat
  BY <1>0
<1>3. /\ \A i \in Own(s) : Magnitude(s[i]) \in 1..c
      /\ \A i, j \in Own(s) : i < j => Magnitude(s[i]) < Magnitude(s[j])
      /\ \A k \in 1..c : \E i \in Own(s) : Magnitude(s[i]) = k
  <2>1. 0 + 1 = 1
    OBVIOUS
  <2> QED BY <1>0, <2>1 DEF Runs
<1>4. \A i \in 1..Len(s) : Magnitude(s[i]) <= e[2] => i \in Own(s)
  <2> TAKE i \in 1..Len(s)
  <2>1. Added(s[i]) => Magnitude(s[i]) >= HdrByte
    BY <1>1, AddedIs
  <2>2. HdrByte \in Int /\ Magnitude(s[i]) \in Int
    BY <1>1 DEF HdrByte
  <2> QED BY <1>0, <1>1, <1>2, <2>1, <2>2
<1>5. PICK i \in 1..Len(s) : Magnitude(s[i]) = e[2]
  BY <1>0, <1>1 DEF Extent
<1>6. to \in 1..Len(s) /\ Magnitude(s[to]) = e[2] /\ to \in Own(s)
  <2>1. to \in 1..Len(s) /\ Magnitude(s[to]) = e[2]
    BY <1>0, <1>1, <1>5 DEF Index
  <2> QED BY <1>0, <1>2, <1>4, <2>1
<1>7. e[1] + 1 \in 1..c
  <2>1. e[2] \in 1..c
    BY <1>3, <1>6
  <2> QED BY <1>0, <1>2, <2>1
<1>8. from \in 1..Len(s) /\ Magnitude(s[from]) = e[1] + 1 /\ from \in Own(s)
  <2>1. \E j \in 1..Len(s) : Magnitude(s[j]) = e[1] + 1
    BY <1>1, <1>3, <1>7
  <2>2. from \in 1..Len(s) /\ Magnitude(s[from]) = e[1] + 1
    BY <1>0, <1>1, <2>1 DEF Index
  <2> QED BY <1>0, <1>2, <1>4, <2>2
<1>9. from <= to
  <2>1. to < from => Magnitude(s[to]) < Magnitude(s[from])
    BY <1>3, <1>6, <1>8
  <2>2. Magnitude(s[from]) <= Magnitude(s[to])
    <3>1. PICK x, y : x = e[1] /\ y = e[2]
      OBVIOUS
    <3>2. x \in Nat /\ y \in Nat /\ x < y
      BY <1>0, <1>2, <3>1
    <3>3. x + 1 <= y
      BY <3>2
    <3> QED BY <1>6, <1>8, <3>1, <3>3
  <2>3. PICK p, q \in Nat : p = Magnitude(s[from]) /\ q = Magnitude(s[to])
    BY <1>1, <1>6, <1>8
  <2>4. ~(to < from)
    BY <2>1, <2>2, <2>3
  <2>5. from \in Int /\ to \in Int
    BY <1>1, <1>6, <1>8
  <2> QED BY <2>4, <2>5
<1>10. Extent(s, e) = <<from - 1, IF to < Len(s) /\ s[to + 1] = Dot THEN to + 1 ELSE to>>
  <2>1. ~(e[2] = e[1]) /\ ~(~\E j \in DOMAIN s : Magnitude(s[j]) = e[2])
    <3>1. e[2] # e[1]
      BY <1>0, <1>2
    <3>2. \E j \in DOMAIN s : Magnitude(s[j]) = e[2]
      BY <1>1, <1>5
    <3> QED BY <3>1, <3>2
  <2> QED BY <1>0, <2>1 DEF Extent
<1> QED BY <1>6, <1>8, <1>9, <1>10 DEF Found

(* What is known of a request with a Host header.                           *)
IsRequest(m, s, meta) ==
    /\ m.proto = "http" /\ s \in Seq(Int) /\ m.have \in Nat /\ m.have < HdrByte
    /\ Runs(s, 0, m.have) /\ Headless(s) /\ Unbroken(s, m.label)
    /\ m.name \in Nat \X Nat /\ m.label \in Nat \X Nat
    /\ m.name[1] < m.name[2] /\ m.name[2] < HdrByte /\ m.label[2] < HdrByte
    /\ m.label # Nowhere => m.label[1] < m.label[2] /\ m.label[2] < m.name[1]
    /\ meta.host = Extent(s, m.name) /\ meta.host # Nowhere
    /\ meta.label = Extent(s, m.label)

LEMMA RequestIs ==
    ASSUME NEW m, GoodMessage(m), NEW b, NEW d, SoundBuilder(b, m, d), Faithful(m, b.payload),
           HasHost(b.meta)
    PROVE  IsRequest(m, b.payload, b.meta)
<1>1. /\ b.payload \in Seq(Int) /\ b.meta = Parse(m, b.payload) /\ Whole(m, b.payload)
  BY DEF SoundBuilder, Builder
<1>2. m.proto = "http"
  BY <1>1, ParseIs
<1>3. b.meta.host = Extent(b.payload, m.name) /\ b.meta.label = Extent(b.payload, m.label)
      /\ b.meta.host # Nowhere
  BY <1>1, <1>2 DEF Parse, parseHTTP, HttpHost, HasHost
<1>4. m.name # Nowhere
  <2>1. ASSUME m.name = Nowhere PROVE FALSE
    <3>1. m.name[2] = m.name[1]
      BY <2>1 DEF Nowhere
    <3>2. Extent(b.payload, m.name) = Nowhere
      BY <3>1 DEF Extent
    <3> QED BY <1>3, <3>2
  <2> QED BY <2>1
<1>5. /\ m.body \in Nat /\ m.have \in Nat /\ m.name \in Nat \X Nat /\ m.label \in Nat \X Nat
      /\ m.body < HdrByte /\ m.have < HdrByte
      /\ m.name[1] < m.name[2] /\ m.name[2] <= m.body
      /\ m.label # Nowhere => /\ m.label[1] < m.label[2] /\ m.label[2] <= m.body
                              /\ m.label[2] < m.name[1]
  BY <1>4 DEF GoodMessage, Message, WithinBody
<1>6. m.name[2] < HdrByte
  BY <1>5 DEF HdrByte
<1>7. m.label[2] < HdrByte
  <2>1. CASE m.label = Nowhere
    BY <2>1 DEF Nowhere, HdrByte
  <2>2. CASE m.label # Nowhere
    BY <1>5, <2>2 DEF HdrByte
  <2> QED BY <2>1, <2>2
<1> QED BY <1>1, <1>2, <1>3, <1>5, <1>6, <1>7 DEF IsRequest, Faithful

LEMMA MutateFaithful ==
    ASSUME NEW m, GoodMessage(m), NEW b, NEW d, SoundBuilder(b, m, d), ~b.bad, Faithful(m,
           b.payload),
           NEW t \in Seq(Int), HasHost(b.meta) => Faithful(m, t), NEW r,
           r = Failed(b) \/ r = Mutate(b, m, t)
    PROVE  Faithful(m, r.payload)
<1>1. b \in Builder
  BY DEF SoundBuilder
<1>2. CASE r = Failed(b)
  <2>1. r.payload = b.payload
    BY <1>1, <1>2 DEF Failed, Builder
  <2> QED BY <2>1
<1>3. CASE r = Mutate(b, m, t) /\ r # Failed(b)
  <2>1. HasHost(b.meta)
    BY <1>3 DEF Mutate
  <2>2. r = [b EXCEPT !.payload = t, !.meta = Parse(m, t), !.segs = <<>>]
    BY <1>3 DEF Mutate
  <2>3. r.payload = t
    BY <1>1, <2>2 DEF Builder
  <2> QED BY <2>1, <2>3
<1> QED BY <1>2, <1>3

LEMMA WidenedFaithful ==
    ASSUME NEW m, NEW s, NEW meta, IsRequest(m, s, meta), NEW t \in Seq(Int), NEW k, NEW n,
           Widened(t, s, k, n), k > 0 => Magnitude(s[k]) \notin m.label[1] + 1..m.label[2]
    PROVE  Faithful(m, t)
<1>1. PICK e, c : e = m.label /\ c = m.have
  OBVIOUS
<1>2. /\ s \in Seq(Int) /\ Runs(s, 0, c) /\ Headless(s) /\ Unbroken(s, e) /\ e \in Nat \X Nat
      /\ e[2] < HdrByte /\ (k > 0 => Magnitude(s[k]) \notin e[1] + 1..e[2])
  BY <1>1 DEF IsRequest
<1>3. Runs(t, 0, c) /\ Headless(t)
  BY <1>2, WidenedRuns
<1>4. Unbroken(t, e)
  BY <1>2, WidenedUnbroken
<1>5. Framed(t)
  <2>1. DOMAIN t = 1..Len(t) /\ \A i \in 1..Len(t) : t[i] \in Int
    BY LenProperties, ElementOfSeq
  <2>2. \A i \in DOMAIN t : ~(t[i] >= LenByte)
    BY <1>3, <2>1 DEF Headless, LenByte
  <2> QED BY <2>2 DEF Framed
<1> QED BY <1>1, <1>3, <1>4, <1>5 DEF Faithful

LEMMA HostDotFaithful ==
    ASSUME NEW m, GoodMessage(m), NEW b, NEW d, SoundBuilder(b, m, d), ~b.bad, Faithful(m,
           b.payload),
           NEW r, r = HostDot(b, m)
    PROVE  Faithful(m, r.payload)
<1>0. b \in Builder
  BY DEF SoundBuilder
<1>1. CASE m.fixed \/ ~HasHost(b.meta) \/ b.payload[b.meta.host[2]] = Dot
  <2>1. r = Failed(b)
    BY <1>1 DEF HostDot
  <2>2. r.payload = b.payload
    BY <1>0, <2>1 DEF Failed, Builder
  <2> QED BY <2>2
<1>2. CASE ~(m.fixed \/ ~HasHost(b.meta) \/ b.payload[b.meta.host[2]] = Dot)
  <2>1. PICK s, k, t : s = b.payload /\ k = b.meta.host[2] /\ t = InsertAt(s, k + 1, Dot)
    OBVIOUS
  <2>2. r = Mutate(b, m, t)
    BY <1>2, <2>1 DEF HostDot
  <2>3. IsRequest(m, s, b.meta)
    BY <1>2, <2>1, RequestIs
  <2>4. PICK e, c, from, to : /\ e = m.name /\ c = m.have
                              /\ from = Index(s, e[1] + 1) /\ to = Index(s, e[2])
    OBVIOUS
  <2>5. /\ s \in Seq(Int) /\ c \in Nat /\ c < HdrByte /\ Runs(s, 0, c) /\ e \in Nat \X Nat
        /\ e[1] < e[2] /\ e[2] < HdrByte /\ Extent(s, e) # Nowhere /\ b.meta.host = Extent(s, e)
    BY <2>3, <2>4 DEF IsRequest
  <2>6. /\ to \in 1..Len(s) /\ Magnitude(s[to]) = e[2]
        /\ Extent(s, e) = <<from - 1, IF to < Len(s) /\ s[to + 1] = Dot THEN to + 1 ELSE to>>
    <3>1. Found(s, e, from, to)
      BY <2>4, <2>5, FoundAt DEF Sought
    <3> QED BY <3>1 DEF Found
  <2>7. k = to
    <3>1. k = IF to < Len(s) /\ s[to + 1] = Dot THEN to + 1 ELSE to
      <4>1. b.meta.host = <<from - 1, IF to < Len(s) /\ s[to + 1] = Dot THEN to + 1 ELSE to>>
        BY <2>5, <2>6
      <4> QED BY <2>1, <4>1
    <3>2. s[k] # Dot
      BY <1>2, <2>1
    <3> QED BY <3>1, <3>2
  <2>8. k \in 0..Len(s) /\ k > 0 /\ Magnitude(s[k]) = m.name[2]
    <3>1. Len(s) \in Nat
      BY <2>5, LenProperties
    <3> QED BY <2>4, <2>6, <2>7, <3>1
  <2>9. t \in Seq(Int) /\ Widened(t, s, k, 1)
    BY <2>1, <2>5, <2>8, DotIs
  <2>10. m.name[2] \notin m.label[1] + 1..m.label[2]
    <3>1. /\ m.label[1] \in Nat /\ m.label[2] \in Nat /\ m.name[1] \in Nat /\ m.name[2] \in Nat
          /\ m.name[1] < m.name[2]
      BY <2>3 DEF IsRequest
    <3>2. CASE m.label = Nowhere
      BY <3>1, <3>2 DEF Nowhere
    <3>3. CASE m.label # Nowhere
      <4>1. m.label[2] < m.name[1]
        BY <2>3, <3>3 DEF IsRequest
      <4> QED BY <3>1, <4>1
    <3> QED BY <3>2, <3>3
  <2>11. Faithful(m, t)
    BY <2>3, <2>8, <2>9, <2>10, WidenedFaithful
  <2> QED BY <2>2, <2>9, <2>11, MutateFaithful
<1> QED BY <1>1, <1>2

LEMMA HostPadFaithful ==
    ASSUME NEW m, GoodMessage(m), NEW b, NEW d, SoundBuilder(b, m, d), ~b.bad, Faithful(m,
           b.payload),
           NEW n \in Int, n > 0, NEW r, r = HostPad(b, m, n)
    PROVE  Faithful(m, r.payload)
<1>0. b \in Builder
  BY DEF SoundBuilder
<1>1. CASE ~HasHost(b.meta)
  <2>1. r = Failed(b)
    BY <1>1 DEF HostPad
  <2>2. r.payload = b.payload
    BY <1>0, <2>1 DEF Failed, Builder
  <2> QED BY <2>2
<1>2. CASE HasHost(b.meta)
  <2>1. PICK s, k, t : /\ s = b.payload /\ k = b.meta.label[1]
                       /\ t = SubSeq(s, 1, k) \o [i \in 1..n |-> Filler] \o SubSeq(s, k + 1, Len(s))
    OBVIOUS
  <2>2. r = Mutate(b, m, t)
    BY <1>2, <2>1 DEF HostPad
  <2>3. IsRequest(m, s, b.meta)
    BY <1>2, <2>1, RequestIs
  <2>4. PICK e, c, from, to : /\ e = m.label /\ c = m.have
                              /\ from = Index(s, e[1] + 1) /\ to = Index(s, e[2])
    OBVIOUS
  <2>5. /\ s \in Seq(Int) /\ c \in Nat /\ c < HdrByte /\ Runs(s, 0, c) /\ e \in Nat \X Nat
        /\ e[2] < HdrByte /\ b.meta.label = Extent(s, e) /\ (e # Nowhere => e[1] < e[2])
        /\ Len(s) \in Nat
    BY <2>3, <2>4, LenProperties DEF IsRequest
  <2>6. k \in 0..Len(s) /\ (k > 0 => Magnitude(s[k]) \notin e[1] + 1..e[2])
    <3>1. CASE Extent(s, e) = Nowhere
      BY <2>1, <2>5, <3>1 DEF Nowhere
    <3>2. CASE Extent(s, e) # Nowhere
      <4>1. e # Nowhere
        <5>1. ASSUME e = Nowhere PROVE FALSE
          <6>1. e[2] = e[1]
            BY <5>1 DEF Nowhere
          <6> QED BY <3>2, <6>1 DEF Extent
        <5> QED BY <5>1
      <4>2. /\ from \in Own(s) /\ Magnitude(s[from]) = e[1] + 1 /\ from \in 1..Len(s)
            /\ Extent(s, e) = <<from - 1, IF to < Len(s) /\ s[to + 1] = Dot THEN to + 1 ELSE to>>
        <5>1. Found(s, e, from, to)
          BY <2>4, <2>5, <3>2, <4>1, FoundAt DEF Sought
        <5> QED BY <5>1 DEF Found
      <4>3. k = from - 1 /\ k \in 0..Len(s) /\ k < from
        <5>1. k = from - 1
          BY <2>1, <2>5, <4>2
        <5>2. PICK size \in Nat : size = Len(s)
          BY <2>5
        <5>3. from \in 1..size
          BY <4>2, <5>2
        <5>4. from - 1 \in 0..size /\ from - 1 < from
          BY <5>3
        <5> QED BY <5>1, <5>2, <5>4
      <4>4. ASSUME k > 0 PROVE Magnitude(s[k]) \notin e[1] + 1..e[2]
        <5>1. k \in 1..Len(s) /\ s[k] \in Int /\ e[1] \in Nat /\ e[2] \in Nat
          BY <2>5, <4>3, <4>4, ElementOfSeq
        <5>2. Magnitude(s[k]) \in Int
          BY <5>1 DEF Magnitude
        <5>3. CASE Added(s[k])
          <6>1. Magnitude(s[k]) >= HdrByte
            BY <5>1, <5>3, AddedIs
          <6> QED BY <2>5, <5>1, <5>2, <6>1 DEF HdrByte
        <5>4. CASE ~Added(s[k])
          <6>1. k \in Own(s)
            BY <2>5, <5>1, <5>4, OwnIs
          <6>2. Magnitude(s[k]) < Magnitude(s[from])
            BY <2>5, <4>2, <4>3, <6>1 DEF Runs
          <6> QED BY <4>2, <5>1, <5>2, <6>2
        <5> QED BY <5>3, <5>4
      <4> QED BY <4>3, <4>4
    <3> QED BY <3>1, <3>2
  <2>7. n \in Nat \ {0}
    OBVIOUS
  <2>8. t \in Seq(Int) /\ Widened(t, s, k, n)
    BY <2>1, <2>5, <2>6, <2>7, PadIs
  <2>9. Faithful(m, t)
    BY <2>3, <2>4, <2>6, <2>8, WidenedFaithful
  <2> QED BY <2>2, <2>8, <2>9, MutateFaithful
<1> QED BY <1>1, <1>2

(* Between the two ends of a label there is nothing but the label.          *)
LEMMA LabelIsOwn ==
    ASSUME NEW m, NEW s, NEW meta, IsRequest(m, s, meta),
           NEW i \in 1..Len(s), i \in meta.label[1] + 1..meta.label[2]
    PROVE  ~Added(s[i])
<1>1. PICK e, c, from, to : /\ e = m.label /\ c = m.have
                            /\ from = Index(s, e[1] + 1) /\ to = Index(s, e[2])
  OBVIOUS
<1>2. /\ s \in Seq(Int) /\ c \in Nat /\ c < HdrByte /\ Runs(s, 0, c) /\ e \in Nat \X Nat
      /\ e[2] < HdrByte /\ meta.label = Extent(s, e) /\ (e # Nowhere => e[1] < e[2])
      /\ Unbroken(s, e)
  BY <1>1 DEF IsRequest
<1>3. /\ Len(s) \in Nat /\ Own(s) = {j \in 1..Len(s) : ~Added(s[j])}
      /\ \A j \in 1..Len(s) : s[j] \in Int /\ Magnitude(s[j]) \in Nat
  BY <1>2, OwnIs
<1>4. Extent(s, e) # Nowhere
  <2>1. ASSUME Extent(s, e) = Nowhere PROVE FALSE
    <3>1. meta.label[1] = 0 /\ meta.label[2] = 0
      BY <1>2, <2>1 DEF Nowhere
    <3> QED BY <3>1
  <2> QED BY <2>1
<1>5. e # Nowhere
  <2>1. ASSUME e = Nowhere PROVE FALSE
    <3>1. e[2] = e[1]
      BY <2>1 DEF Nowhere
    <3> QED BY <1>4, <3>1 DEF Extent
  <2> QED BY <2>1
<1>6. /\ from \in Own(s) /\ Magnitude(s[from]) = e[1] + 1
      /\ to \in Own(s) /\ Magnitude(s[to]) = e[2] /\ from <= to
      /\ from \in 1..Len(s) /\ to \in 1..Len(s)
      /\ Extent(s, e) = <<from - 1, IF to < Len(s) /\ s[to + 1] = Dot THEN to + 1 ELSE to>>
  <2>1. Sought(s, c, e, from, to)
    BY <1>1, <1>2, <1>4, <1>5 DEF Sought
  <2> QED BY <2>1, FoundAt DEF Found
<1>7. e[1] \in Nat /\ e[2] \in Nat /\ e[1] < e[2] /\ from \in Nat /\ to \in Nat
  BY <1>2, <1>5, <1>6
<1>8. ~(to < Len(s) /\ s[to + 1] = Dot)
  <2> SUFFICES ASSUME to < Len(s), s[to + 1] = Dot PROVE FALSE
    OBVIOUS
  <2>1. to \in 1..Len(s) - 1 /\ Magnitude(s[to]) \in e[1] + 1..e[2]
    <3>1. to \in Nat /\ 1 <= to /\ Len(s) \in Nat
      BY <1>3, <1>6, <1>7
    <3>2. Magnitude(s[to]) = e[2]
      BY <1>6
    <3> QED BY <1>7, <3>1, <3>2
  <2>2. ~Added(s[to + 1])
    BY <1>2, <2>1 DEF Unbroken
  <2> QED BY <2>2 DEF Added
<1>9. i \in from..to
  <2>1. meta.label[1] = from - 1 /\ meta.label[2] = to
    BY <1>2, <1>6, <1>8
  <2> QED BY <1>7, <2>1
<1>10. ASSUME NEW k \in from + 1..to, ~Added(s[k - 1]) PROVE ~Added(s[k])
  <2>1. /\ k - 1 \in 1..Len(s) - 1 /\ k - 1 \in 1..Len(s) /\ (k - 1) + 1 = k
        /\ from <= k - 1 /\ k - 1 < to
    <3>1. PICK n \in Nat : n = Len(s)
      BY <1>3
    <3>2. from \in 1..n /\ to \in 1..n /\ k \in from + 1..to
      BY <1>6, <3>1
    <3>3. k - 1 \in 1..n - 1 /\ k - 1 \in 1..n /\ (k - 1) + 1 = k /\ from <= k - 1 /\ k - 1 < to
      BY <3>2
    <3> QED BY <3>1, <3>3
  <2>2. k - 1 \in Own(s)
    BY <1>3, <1>10, <2>1
  <2>3. Magnitude(s[k - 1]) < Magnitude(s[to])
    BY <1>2, <1>6, <2>1, <2>2 DEF Runs
  <2>4. from = k - 1 \/ Magnitude(s[from]) < Magnitude(s[k - 1])
    <3>1. from = k - 1 \/ from < k - 1
      BY <1>7, <2>1
    <3> QED BY <1>2, <1>6, <2>2, <3>1 DEF Runs
  <2>5. Magnitude(s[k - 1]) \in e[1] + 1..e[2]
    <3>1. Magnitude(s[k - 1]) \in Nat
      BY <1>3, <2>1
    <3>2. PICK x, y, z : x = Magnitude(s[k - 1]) /\ y = e[1] /\ z = e[2]
      OBVIOUS
    <3>3. x \in Nat /\ y \in Nat /\ z \in Nat /\ x < z /\ (x = y + 1 \/ y + 1 < x)
      BY <1>6, <1>7, <2>3, <2>4, <3>1, <3>2
    <3>4. x \in y + 1..z
      BY <3>3
    <3> QED BY <3>2, <3>4
  <2>6. ~Added(s[(k - 1) + 1])
    BY <1>2, <2>1, <2>5 DEF Unbroken
  <2> QED BY <2>1, <2>6
<1>11. \A k \in from..to : ~Added(s[k])
  <2> DEFINE g == [k \in 0..Len(s) |-> IF Added(s[k]) THEN 0 ELSE 1]
             X == {1}
  <2>1. \A k \in from..to : g[k] = IF Added(s[k]) THEN 0 ELSE 1
    BY <1>3, <1>6, <1>7
  <2>2. from \in from..to /\ \A k \in from + 1..to : k \in from..to /\ k - 1 \in from..to
    BY <1>6, <1>7
  <2>3. g[from] \in X
    BY <1>3, <1>6, <2>1, <2>2
  <2>4. \A k \in from + 1..to : g[k - 1] \in X => g[k] \in X
    BY <1>10, <2>1, <2>2
  <2> HIDE DEF g, X
  <2>5. \A k \in from..to : g[k] \in X
    BY <1>6, <1>7, <2>3, <2>4, AllAlong
  <2> QED BY <2>1, <2>5 DEF X
<1> QED BY <1>9, <1>11

LEMMA HostSpellFaithful ==
    ASSUME NEW m, GoodMessage(m), NEW b, NEW d, SoundBuilder(b, m, d), ~b.bad, Faithful(m,
           b.payload),
           NEW r, r = HostSpell(b, m)
    PROVE  Faithful(m, r.payload)
<1>0. b \in Builder
  BY DEF SoundBuilder
<1>1. CASE \/ ~HasHost(b.meta)
           \/ \E i \in b.meta.label[1] + 1..b.meta.label[2] : b.payload[i] < 0
  <2>1. r = Failed(b)
    BY <1>1 DEF HostSpell, Mutate
  <2>2. r.payload = b.payload
    BY <1>0, <2>1 DEF Failed, Builder
  <2> QED BY <2>2
<1>2. CASE ~(\/ ~HasHost(b.meta)
             \/ \E i \in b.meta.label[1] + 1..b.meta.label[2] : b.payload[i] < 0)
  <2>1. PICK s, l : s = b.payload /\ l = b.meta.label
    OBVIOUS
  <2>2. PICK t : t = [i \in DOMAIN s |-> IF i \in l[1] + 1..l[2] THEN -s[i] ELSE s[i]]
    OBVIOUS
  <2>3. r = Mutate(b, m, t)
    BY <1>2, <2>1, <2>2 DEF HostSpell
  <2>4. IsRequest(m, s, b.meta)
    BY <1>2, <2>1, RequestIs
  <2>5. /\ s \in Seq(Int) /\ Runs(s, 0, m.have) /\ Headless(s) /\ Unbroken(s, m.label)
        /\ l = Extent(s, m.label)
    BY <2>1, <2>4 DEF IsRequest
  <2>6. /\ Len(s) \in Nat /\ DOMAIN s = 1..Len(s) /\ Own(s) = {i \in 1..Len(s) : ~Added(s[i])}
        /\ \A i \in 1..Len(s) : s[i] \in Int
    BY <2>5, OwnIs
  <2>7. \A i \in 1..Len(s) : i \in l[1] + 1..l[2] => ~Added(s[i])
    BY <2>1, <2>4, LabelIsOwn
  <2>8. ASSUME NEW i \in 1..Len(s)
        PROVE  /\ t[i] \in Int /\ Magnitude(t[i]) = Magnitude(s[i]) /\ t[i] < LenByte
               /\ (Added(t[i]) <=> Added(s[i]))
    <3>1. s[i] \in Int /\ s[i] < LenByte
      BY <2>5, <2>6 DEF Headless
    <3>2. CASE i \in l[1] + 1..l[2]
      <4>1. t[i] = -s[i] /\ ~Added(s[i]) /\ ~(s[i] < 0)
        BY <1>2, <2>1, <2>2, <2>6, <2>7, <3>2
      <4>2. t[i] \in Int /\ t[i] <= 0
        BY <3>1, <4>1
      <4>3. ~Added(t[i]) /\ t[i] < LenByte
        BY <4>2 DEF Added, HdrByte, Filler, Dot, LenByte
      <4>4. Magnitude(t[i]) = Magnitude(s[i])
        BY <3>1, <4>1 DEF Magnitude
      <4> QED BY <4>1, <4>2, <4>3, <4>4
    <3>3. CASE i \notin l[1] + 1..l[2]
      <4>1. t[i] = s[i]
        BY <2>2, <2>6, <3>3
      <4> QED BY <3>1, <4>1
    <3> QED BY <3>2, <3>3
  <2>9. t \in Seq(Int) /\ Len(t) = Len(s)
    <3>1. DOMAIN t = 1..Len(s) /\ t = [i \in 1..Len(s) |-> t[i]]
      BY <2>2, <2>6
    <3>2. t \in [1..Len(s) -> Int]
      BY <2>8, <3>1
    <3> QED BY <2>6, <3>1, <3>2
  <2>10. Own(t) = Own(s)
    BY <2>6, <2>8, <2>9, OwnIs
  <2>11. Runs(t, 0, m.have)
    <3>1. \A i \in Own(t) : i \in Own(s) /\ Magnitude(t[i]) = Magnitude(s[i])
      BY <2>6, <2>8, <2>10
    <3> QED BY <2>5, <2>10, <3>1 DEF Runs
  <2>12. Headless(t)
    BY <2>8, <2>9 DEF Headless
  <2>13. Unbroken(t, m.label)
    <3> SUFFICES ASSUME NEW i \in 1..Len(t) - 1,
                        Magnitude(t[i]) \in m.label[1] + 1..m.label[2]
                 PROVE  ~Added(t[i + 1])
      BY DEF Unbroken
    <3>1. i \in 1..Len(s) - 1 /\ i \in 1..Len(s) /\ i + 1 \in 1..Len(s)
      BY <2>6, <2>9
    <3>2. ~Added(s[i + 1])
      BY <2>5, <2>8, <3>1 DEF Unbroken
    <3> QED BY <2>8, <3>1, <3>2
  <2>14. Framed(t)
    <3>1. DOMAIN t = 1..Len(t) /\ \A i \in DOMAIN t : t[i] \in Int /\ t[i] < LenByte
      BY <2>8, <2>9, LenProperties
    <3>2. \A i \in DOMAIN t : ~(t[i] >= LenByte)
      BY <3>1 DEF LenByte
    <3> QED BY <3>2 DEF Framed
  <2>15. Faithful(m, t)
    BY <2>11, <2>12, <2>13, <2>14 DEF Faithful
  <2> QED BY <2>3, <2>9, <2>15, MutateFaithful
<1> QED BY <1>1, <1>2

(* A schedule lays out the payload, and does not write it.                  *)
LEMMA Unwritten ==
    ASSUME NEW m, GoodMessage(m), NEW b, NEW d, SoundBuilder(b, m, d), ~b.bad, NEW o \in Operation,
           o.op \in {"chunk", "split", "disorder", "oob", "quicfake"}, NEW r, r = Apply(b, m, o)
    PROVE  r.payload = b.payload
<1>1. b \in Builder
  BY DEF SoundBuilder
<1>2. \A x \in Builder : /\ Failed(x).payload = x.payload
                         /\ \A segs : [x EXCEPT !.segs = segs].payload = x.payload
                         /\ \A t : [x EXCEPT !.segs[1].ttl = t].payload = x.payload
  BY DEF Failed, Builder
<1>3. \A offsets : SplitAt(b, offsets).payload = b.payload
  BY <1>1, <1>2 DEF SplitAt, Downgraded
<1>4. SplitOp(b, o) \in Builder /\ SplitOp(b, o).payload = b.payload
  <2>1. PICK cut : cut = SplitOp(b, o)
    OBVIOUS
  <2>2. SoundBuilder(cut, m, d)
    BY <2>1, SplitOpOK
  <2>3. cut.payload = b.payload
    BY <1>1, <1>2, <1>3, <2>1 DEF SplitOp
  <2> QED BY <2>1, <2>2, <2>3 DEF SoundBuilder
<1>5. CASE o.op = "chunk"
  BY <1>1, <1>2, <1>3, <1>5 DEF Apply, ChunkOp
<1>6. CASE o.op = "split"
  BY <1>4, <1>6 DEF Apply
<1>7. CASE o.op = "disorder"
  <2>1. r = DisorderOp(b, o)
    BY <1>7 DEF Apply
  <2> QED BY <1>1, <1>2, <1>4, <2>1 DEF DisorderOp, SetSegTTL
<1>8. CASE o.op = "oob"
  <2>1. r = OobOp(b, o)
    BY <1>8 DEF Apply
  <2>2. MarkOOB(SplitOp(b, o)).payload = b.payload
    BY <1>2, <1>4 DEF MarkOOB
  <2> QED BY <1>1, <1>2, <2>1, <2>2 DEF OobOp
<1>9. CASE o.op = "quicfake"
  <2>1. r = QuicFake(b, o)
    BY <1>9 DEF Apply
  <2> QED BY <1>1, <1>2, <2>1 DEF QuicFake
<1> QED BY <1>5, <1>6, <1>7, <1>8, <1>9

(* The re-framing operations, at whatever offsets.                          *)
LEMMA FragIs ==
    ASSUME NEW b, NEW m, NEW d, SoundBuilder(b, m, d), NEW o \in Operation,
           NEW r, r = TlsFrag(b, o)
    PROVE  r = Failed(b) \/ \E cuts \in Seq(Int) : r = ReframeFirstRecord(b, cuts)
<1>1. PICK cut : cut = Resolve(o.pos, b.meta)
  OBVIOUS
<1>2. cut \in Int
  BY <1>1, PositionIs DEF SoundBuilder, Builder, Operation
<1>3. r = Failed(b) \/ r = ReframeFirstRecord(b, <<cut>>)
  BY <1>1 DEF TlsFrag
<1>4. <<cut>> \in Seq(Int)
  BY <1>2
<1> QED BY <1>3, <1>4

LEMMA EveryIs ==
    ASSUME NEW b, NEW m, NEW d, SoundBuilder(b, m, d), NEW o \in Operation, o.n > 0,
           NEW r, r = TlsEvery(b, o)
    PROVE  r = Failed(b) \/ \E cuts \in Seq(Int) : r = ReframeFirstRecord(b, cuts)
<1> DEFINE K == (b.meta.len - 1) \div o.n
           cuts == [k \in 1..K |-> k * o.n]
<1>1. o.n \in Nat \ {0} /\ b.meta.len \in Nat
  BY DEF Operation, SoundBuilder, Builder, Metas
<1>2. r = Failed(b) \/ r = ReframeFirstRecord(b, cuts)
  BY DEF TlsEvery
<1>3. K \in Int
  BY <1>1
<1> HIDE DEF K
<1>4. cuts \in Seq(Int)
  <2>1. CASE K >= 0
    <3>1. K \in Nat
      BY <1>3, <2>1
    <3>2. cuts \in [1..K -> Int]
      BY <1>1
    <3> HIDE DEF cuts
    <3> QED BY <3>1, <3>2
  <2>2. CASE K < 0
    <3>1. cuts \in [1..0 -> Int]
      BY <1>1, <1>3, <2>2
    <3> HIDE DEF cuts
    <3> QED BY <3>1
  <2> QED BY <1>3, <2>1, <2>2
<1> HIDE DEF cuts
<1> QED BY <1>2, <1>4

LEMMA ReframedFaithful ==
    ASSUME NEW m, GoodMessage(m), NEW b, NEW d, SoundBuilder(b, m, d), ~b.bad, Faithful(m,
           b.payload), NEW r,
           r = Failed(b) \/ \E cuts \in Seq(Int) : r = ReframeFirstRecord(b, cuts)
    PROVE  Faithful(m, r.payload)
<1>1. CASE r = Failed(b)
  <2>1. r.payload = b.payload
    BY <1>1 DEF Failed, SoundBuilder, Builder
  <2> QED BY <2>1
<1>2. CASE \E cuts \in Seq(Int) : r = ReframeFirstRecord(b, cuts)
  <2>1. PICK cuts \in Seq(Int) : r = ReframeFirstRecord(b, cuts)
    BY <1>2
  <2> QED BY <2>1, ReframeFaithful
<1> QED BY <1>1, <1>2

(* No operation of a strategy loses, moves or invents a byte of the client's. *)
LEMMA ApplyFaithful ==
    ASSUME NEW m, GoodMessage(m), NEW b, NEW d, SoundBuilder(b, m, d), ~b.bad, Faithful(m,
           b.payload),
           NEW o \in Operation, o.n > 0 \/ o.op \notin {"tlsevery", "hostpad"},
           o.op \in {"hostcase", "hostdot", "hostpad", "hostspell", "tlsevery", "tlsfrag",
                     "chunk", "disorder", "oob", "split", "quicfake"},
           NEW r, r = Apply(b, m, o)
    PROVE  Faithful(m, r.payload)
<1>1. CASE o.op \in {"hostcase", "hostspell"}
  <2>1. r = HostSpell(b, m)
    BY <1>1 DEF Apply
  <2> QED BY <2>1, HostSpellFaithful
<1>2. CASE o.op = "hostdot"
  <2>1. r = HostDot(b, m)
    BY <1>2 DEF Apply
  <2> QED BY <2>1, HostDotFaithful
<1>3. CASE o.op = "hostpad"
  <2>1. r = HostPad(b, m, o.n) /\ o.n > 0 /\ o.n \in Int
    BY <1>3 DEF Apply, Operation
  <2> QED BY <2>1, HostPadFaithful
<1>4. CASE o.op = "tlsfrag"
  <2>1. r = TlsFrag(b, o)
    BY <1>4 DEF Apply
  <2> QED BY <2>1, FragIs, ReframedFaithful
<1>5. CASE o.op = "tlsevery"
  <2>1. r = TlsEvery(b, o) /\ o.n > 0
    BY <1>5 DEF Apply
  <2> QED BY <2>1, EveryIs, ReframedFaithful
<1>6. CASE o.op \in {"chunk", "split", "disorder", "oob", "quicfake"}
  <2>1. r.payload = b.payload
    BY <1>6, Unwritten
  <2> QED BY <2>1
<1> QED BY <1>1, <1>2, <1>3, <1>4, <1>5, <1>6

\* What an operation makes of a sound builder.
AppliedOK(o, b, r, m, d) ==
    /\ SoundBuilder(r, m, d)
    /\ m.proto = "tls" /\ ~r.bad => b.segs = <<>> /\ Scheduled(o, r, m)
    /\ Faithful(m, b.payload) => Faithful(m, r.payload)

(* Every operation of a strategy keeps a builder sound, and the message in it. *)
LEMMA ApplyOK ==
    ASSUME NEW b, NEW m, NEW d, GoodMessage(m), SoundBuilder(b, m, d), ~b.bad, NEW o \in Operation,
           ArgsGiven(o), o.op \in Ops \ (Unreachable \cup Pointless), o.op = "disorder" => d,
           NEW r, r = Apply(b, m, o)
    PROVE  AppliedOK(o, b, r, m, d)
<1>1. o.op \in {"hostcase", "hostdot", "hostpad", "hostspell", "tlsevery", "tlsfrag",
                "chunk", "disorder", "oob", "split", "quicfake"}
  <2>1. Ops = {"hostcase", "hostdot", "hostpad", "hostspell", "tlspad", "tlsevery", "tlsfrag",
               "chunk", "disorder", "fake", "mss", "oob", "split", "quicfake"}
    <3>1. ASSUME NEW x \in Ops
          PROVE  x \in {"hostcase", "hostdot", "hostpad", "hostspell", "tlspad", "tlsevery",
                        "tlsfrag", "chunk", "disorder", "fake", "mss", "oob", "split", "quicfake"}
      BY DEF Ops, Order, ToSet
    <3>2. \A x \in {"hostcase", "hostdot", "hostpad", "hostspell", "tlspad", "tlsevery",
                    "tlsfrag", "chunk", "disorder", "fake", "mss", "oob", "split", "quicfake"} :
            x \in Ops
      BY DEF Ops, Order, ToSet
    <3> QED BY <3>1, <3>2
  <2> QED BY <2>1 DEF Unreachable, Pointless
<1>2. o.n \in Int /\ (o.op \in {"chunk", "tlsevery", "hostpad", "quicfake", "disorder"} => o.n > 0)
  BY DEF ArgsGiven, Operation
<1>0. Faithful(m, b.payload) => Faithful(m, r.payload)
  BY <1>1, <1>2, ApplyFaithful
<1>3. CASE o.op \in {"hostcase", "hostspell"}
  <2>1. r = HostSpell(b, m)
    BY <1>3 DEF Apply
  <2>2. SoundBuilder(r, m, d) /\ (~r.bad => m.proto = "http")
    BY <2>1, HostSpellOK
  <2> QED BY <1>0, <2>2 DEF AppliedOK
<1>4. CASE o.op = "hostdot"
  <2>1. r = HostDot(b, m)
    BY <1>4 DEF Apply
  <2>2. SoundBuilder(r, m, d) /\ (~r.bad => m.proto = "http")
    BY <2>1, HostDotOK
  <2> QED BY <1>0, <2>2 DEF AppliedOK
<1>5. CASE o.op = "hostpad"
  <2>1. r = HostPad(b, m, o.n)
    BY <1>5 DEF Apply
  <2>2. SoundBuilder(r, m, d) /\ (~r.bad => m.proto = "http")
    BY <1>2, <1>5, <2>1, HostPadOK
  <2> QED BY <1>0, <2>2 DEF AppliedOK
<1>6. CASE o.op = "tlsfrag"
  <2>1. r = TlsFrag(b, o)
    BY <1>6 DEF Apply
  <2>2. SoundBuilder(r, m, d) /\ (~r.bad => b.segs = <<>>)
    BY <2>1, TlsFragOK
  <2> QED BY <1>0, <1>6, <2>2 DEF AppliedOK, Scheduled
<1>7. CASE o.op = "tlsevery"
  <2>1. r = TlsEvery(b, o)
    BY <1>7 DEF Apply
  <2>2. SoundBuilder(r, m, d) /\ (~r.bad => b.segs = <<>>)
    BY <1>2, <1>7, <2>1, TlsEveryOK
  <2> QED BY <1>0, <1>7, <2>2 DEF AppliedOK, Scheduled
<1>8. CASE o.op = "chunk"
  <2>1. r = ChunkOp(b, o)
    BY <1>8 DEF Apply
  <2> QED BY <1>0, <1>2, <1>8, <2>1, ChunkOK DEF AppliedOK
<1>9. CASE o.op = "split"
  <2>1. r = SplitOp(b, o)
    BY <1>9 DEF Apply
  <2>2. SoundBuilder(r, m, d) /\ (~r.bad => b.segs = <<>>)
    BY <2>1, SplitOpOK
  <2> QED BY <1>0, <1>9, <2>2 DEF AppliedOK, Scheduled
<1>10. CASE o.op = "disorder"
  <2>1. r = DisorderOp(b, o)
    BY <1>10 DEF Apply
  <2>2. d /\ o.n > 0
    BY <1>2, <1>10
  <2> QED BY <1>0, <1>10, <2>1, <2>2, DisorderOK DEF AppliedOK
<1>11. CASE o.op = "oob"
  <2>1. r = OobOp(b, o)
    BY <1>11 DEF Apply
  <2> QED BY <1>0, <1>11, <2>1, OobOK DEF AppliedOK
<1>12. CASE o.op = "quicfake"
  <2>1. r = QuicFake(b, o)
    BY <1>12 DEF Apply
  <2>2. SoundBuilder(r, m, d) /\ (~r.bad => m.proto = "quic")
    BY <1>2, <1>12, <2>1, QuicFakeOK
  <2> QED BY <1>0, <2>2 DEF AppliedOK
<1> QED BY <1>1, <1>3, <1>4, <1>5, <1>6, <1>7, <1>8, <1>9, <1>10, <1>11, <1>12

\* The steps, and every operation of an expression.
StepsFor(steps, spec) ==
    /\ Len(steps) \in Nat
    /\ \A k \in 1..Len(steps) : \E i \in 1..Len(spec) : steps[k] = spec[i]
    /\ \A i \in 1..Len(spec) : \E k \in 1..Len(steps) : steps[k] = spec[i]

(* The steps of a strategy are the operations of its expression.            *)
LEMMA StepsAre ==
    ASSUME NEW spec \in Seq(Operation), Compiles(spec), NEW steps, steps = StepsOf(spec)
    PROVE  StepsFor(steps, spec)
<1> DEFINE S == {op \in Ops : Uses(spec, op)}
           used == Kept(Order, S)
           Of(k) == CHOOSE i \in DOMAIN spec : spec[i].op = used[k]
<1>1. DOMAIN spec = 1..Len(spec) /\ (\A i, j \in DOMAIN spec : spec[i].op = spec[j].op => i = j)
      /\ \A i \in DOMAIN spec : spec[i].op \in Ops
  BY LenProperties DEF Compiles
<1>2. Order \in Seq(Ops) /\ Range(Order) = Ops
  <2>1. Order \in Seq(Ops)
    <3>1. Len(Order) = 14 /\ DOMAIN Order = 1..14
      BY DEF Order
    <3>2. \A i \in 1..14 : Order[i] \in Ops
      BY <3>1 DEF Ops, ToSet
    <3>3. Order = [i \in 1..14 |-> Order[i]]
      BY SMTT(60) DEF Order
    <3> HIDE DEF Order
    <3>4. Order \in [1..14 -> Ops]
      BY <3>2, <3>3
    <3>5. ASSUME NEW Vals, NEW k \in Nat, NEW s \in [1..k -> Vals] PROVE s \in Seq(Vals)
      OBVIOUS
    <3> QED BY <3>4, <3>5, 14 \in Nat, Zenon
  <2>2. Range(Order) = Ops
    BY DEF Range, Ops, ToSet
  <2> QED BY <2>1, <2>2
<1>3. used \in Seq(S \cap Ops)
  <2> HIDE DEF S
  <2> QED BY <1>2, KeptIn
<1>4. steps = [k \in DOMAIN used |-> spec[Of(k)]]
  BY DEF StepsOf
<1>5. \A k \in DOMAIN used : used[k] \in S
  <2> HIDE DEF S, used
  <2>1. \A k \in 1..Len(used) : used[k] \in S \cap Ops
    BY <1>3, ElementOfSeq
  <2>2. DOMAIN used = 1..Len(used)
    BY <1>3, LenProperties
  <2> QED BY <2>1, <2>2
<1>6. \A i \in DOMAIN spec : \E k \in DOMAIN used : used[k] = spec[i].op
  <2> TAKE i \in DOMAIN spec
  <2>1. spec[i].op \in Range(Order) \cap S
    BY <1>1, <1>2 DEF Uses
  <2> HIDE DEF S
  <2>2. spec[i].op \in Range(used)
    <3>1. PICK x : x = spec[i].op
      OBVIOUS
    <3>2. x \in Range(Order) \cap S
      BY <2>1, <3>1
    <3>3. x \in Range(Kept(Order, S))
      BY <1>2, <3>2, KeptAll
    <3> QED BY <3>1, <3>3
  <2> HIDE DEF used
  <2> QED BY <2>2 DEF Range
<1>7. \A k \in DOMAIN used : Of(k) \in DOMAIN spec /\ spec[Of(k)].op = used[k]
  <2> TAKE k \in DOMAIN used
  <2>1. \E i \in DOMAIN spec : spec[i].op = used[k]
    BY <1>5 DEF Uses
  <2> HIDE DEF used
  <2> QED BY <2>1
<1>8. DOMAIN used = 1..Len(used) /\ Len(used) \in Nat
  <2> HIDE DEF used, S
  <2> QED BY <1>3, LenProperties
<1> HIDE DEF S, used, Of
<1>9. DOMAIN steps = 1..Len(used) /\ Len(steps) = Len(used)
      /\ \A k \in 1..Len(used) : steps[k] = spec[Of(k)]
  BY <1>4, <1>8
<1>10. ASSUME NEW i \in 1..Len(spec) PROVE \E k \in 1..Len(steps) : steps[k] = spec[i]
  <2>1. PICK k \in DOMAIN used : used[k] = spec[i].op
    BY <1>1, <1>6
  <2>2. Of(k) = i
    BY <1>1, <1>7, <2>1
  <2> QED BY <1>8, <1>9, <2>1, <2>2
<1>11. ASSUME NEW k \in 1..Len(steps) PROVE \E i \in 1..Len(spec) : steps[k] = spec[i]
  BY <1>1, <1>7, <1>8, <1>9
<1> QED BY <1>8, <1>9, <1>10, <1>11 DEF StepsFor

(* The builder that a message starts with.                                  *)
LEMMA FirstBuilder ==
    ASSUME NEW c \in CaseSet, GoodMessage(c.msg), NEW d, NEW b,
           b = [payload |-> Bytes(c.msg), meta |-> Parse(c.msg, Bytes(c.msg)), segs |-> <<>>,
                caps |-> CapsOf(c), strict |-> c.strict, reframed |-> FALSE, bad |-> FALSE]
    PROVE  SoundBuilder(b, c.msg, d) /\ ~b.bad
<1> DEFINE m == c.msg
           s == Bytes(m)
<1>1. m.have \in Nat /\ m.have < HdrByte /\ m.proto \in Protos
  BY DEF GoodMessage, Message, WithinBody, Protos
<1>2. s \in Seq(Int) /\ Whole(m, s)
  <2>1. CASE m.proto = "tls"
    <3>1. s \in Seq(Int)
      BY <2>1, BytesAre
    <3> QED BY <2>1, <3>1 DEF Whole
  <2>2. CASE m.proto # "tls"
    <3>1. s = Upto(m.have)
      BY <2>2 DEF Bytes
    <3> HIDE DEF s
    <3>2. s \in Seq(Int) /\ Len(s) = m.have /\ \A i \in 1..m.have : s[i] = i
      BY <1>1, <3>1 DEF Upto
    <3>3. \A i \in 1..m.have : Magnitude(s[i]) = i
      BY <1>1, <3>2 DEF Magnitude
    <3> QED BY <3>2, <3>3 DEF Whole
  <2> QED BY <2>1, <2>2
<1>3. Parse(m, s) \in Metas
  <2> HIDE DEF s, m
  <2> QED BY <1>2, ParseIs DEF m
<1>4. CapsOf(c) \in SUBSET Means
  <2>1. \A x \in CapsOf(c) : x \in Means
    BY DEF CapsOf, SockCaps, UDPCaps, Means
  <2> QED BY <2>1
<1>5. c.strict \in BOOLEAN
  BY DEF CaseSet
<1>6. b \in Builder
  <2>1. <<>> \in Seq(Segment)
    BY EmptySeq
  <2> QED BY <1>2, <1>3, <1>4, <1>5, <2>1 DEF Builder
<1>7. b.payload = s /\ b.meta = Parse(m, s) /\ b.segs = <<>> /\ b.reframed = FALSE /\ ~b.bad
  OBVIOUS
<1>8. Aimed(b.segs, Len(b.payload), d)
  BY <1>7 DEF Aimed
<1> QED BY <1>2, <1>6, <1>7, <1>8 DEF SoundBuilder, FirstRecord

\* What a strategy leaves behind for a hello.
Laid(spec, b, m) == \A i \in 1..Len(spec) : Scheduled(spec[i], b, m)

(* What a strategy builds is sound, and as each of its steps left it.       *)
LEMMA BuildOK ==
    ASSUME NEW c \in CaseSet, GoodMessage(c.msg), Compiles(c.spec), NEW b, b = BuildWith(c), ~b.bad
    PROVE  /\ SoundBuilder(b, c.msg, Uses(c.spec, "disorder")) /\ Faithful(c.msg, b.payload)
           /\ c.msg.proto = "tls" => Laid(c.spec, b, c.msg)
<1> DEFINE m == c.msg
           d == Uses(c.spec, "disorder")
           b0 == [payload |-> Bytes(m), meta |-> Parse(m, Bytes(m)), segs |-> <<>>,
                  caps |-> CapsOf(c), strict |-> c.strict, reframed |-> FALSE, bad |-> FALSE]
           steps == StepsOf(c.spec)
           n == Len(steps)
           X == {x \in Builder : SoundBuilder(x, m, d) /\ Faithful(m, x.payload)}
           F == [k \in 0..n |-> [x \in X |-> Apply(x, m, steps[k])]]
           built == CHOOSE g : g = [k \in 0..n |-> IF k = 0 THEN b0
                                                   ELSE Apply(g[k - 1], m, steps[k])]
<1>1. /\ c.spec \in Seq(Operation) /\ DOMAIN c.spec = 1..Len(c.spec)
      /\ \A i \in 1..Len(c.spec) :
           /\ c.spec[i] \in Operation /\ ArgsGiven(c.spec[i])
           /\ c.spec[i].op \in Ops \ (Unreachable \cup Pointless)
           /\ c.spec[i].op = "disorder" => d
  <2>1. c.spec \in Seq(Operation)
    BY DEF CaseSet
  <2>2. DOMAIN c.spec = 1..Len(c.spec) /\ \A i \in 1..Len(c.spec) : c.spec[i] \in Operation
    BY <2>1, LenProperties, ElementOfSeq
  <2> QED BY <2>1, <2>2 DEF Compiles, Uses
<1>2. /\ n \in Nat
      /\ \A k \in 1..n : \E i \in 1..Len(c.spec) : steps[k] = c.spec[i]
      /\ \A i \in 1..Len(c.spec) : \E k \in 1..n : steps[k] = c.spec[i]
  <2>1. PICK spec, st : spec = c.spec /\ st = StepsOf(spec)
    OBVIOUS
  <2>2. spec \in Seq(Operation) /\ Compiles(spec)
    BY <1>1, <2>1
  <2>3. StepsFor(st, spec)
    BY <2>1, <2>2, StepsAre
  <2> QED BY <2>1, <2>3 DEF StepsFor
<1>3. b0 \in X /\ ~b0.bad
  <2>1. SoundBuilder(b0, m, d) /\ ~b0.bad
    BY FirstBuilder
  <2>2. Faithful(m, b0.payload)
    BY BytesFaithful
  <2> QED BY <2>1, <2>2 DEF SoundBuilder
<1>4. b = IF CheckAgainst(steps, b0.caps, b0.meta) THEN built[n] ELSE Failed(b0)
  BY DEF BuildWith
<1> HIDE DEF steps, b0
<1>5. ASSUME NEW k \in 1..n, NEW x \in X
      PROVE  /\ Apply(x, m, steps[k]) \in X
             /\ ~Apply(x, m, steps[k]).bad =>
                  /\ ~x.bad
                  /\ m.proto = "tls" =>
                       x.segs = <<>> /\ Scheduled(steps[k], Apply(x, m, steps[k]), m)
  <2> DEFINE o == steps[k]
             r == Apply(x, m, o)
  <2>1. PICK i \in 1..Len(c.spec) : o = c.spec[i]
    BY <1>2
  <2>2. /\ o \in Operation /\ ArgsGiven(o) /\ o.op \in Ops \ (Unreachable \cup Pointless)
        /\ o.op = "disorder" => d
    BY <1>1, <2>1
  <2> HIDE DEF o
  <2>3. CASE x.bad
    <3>1. r = x
      BY <2>3 DEF Apply
    <3> QED BY <2>3, <3>1 DEF o
  <2>4. CASE ~x.bad
    <3>1. AppliedOK(o, x, r, m, d)
      <4>1. PICK m2, d2, r2 : m2 = m /\ d2 = d /\ r2 = r
        OBVIOUS
      <4>2. /\ GoodMessage(m2) /\ SoundBuilder(x, m2, d2) /\ r2 = Apply(x, m2, o)
            /\ o.op = "disorder" => d2
        BY <2>2, <4>1
      <4>3. AppliedOK(o, x, r2, m2, d2)
        BY <2>2, <2>4, <4>2, ApplyOK
      <4> QED BY <4>1, <4>3
    <3>2. r \in X
      BY <3>1 DEF AppliedOK, SoundBuilder
    <3> QED BY <2>4, <3>1, <3>2 DEF AppliedOK, o
  <2> QED BY <2>3, <2>4
<1>6. \A k \in 1..n : \A x \in X : F[k][x] = Apply(x, m, steps[k])
  <2> HIDE DEF X
  <2>1. \A k \in 1..n : k \in 0..n
    BY <1>2
  <2> QED BY <2>1
<1> HIDE DEF F
<1>7. PICK g : Recurses(g, X, b0, F, 0, n)
  <2>1. StaysIn(X, F, 0, n)
    <3>1. \A k \in 0..n : k # 0 => k \in 1..n
      BY <1>2
    <3> HIDE DEF X
    <3> QED BY <1>5, <1>6, <3>1 DEF StaysIn
  <2>2. 0 \in Nat /\ 0 <= n
    BY <1>2
  <2> HIDE DEF X, n
  <2> QED BY <1>2, <1>3, <2>1, <2>2, RecursionIs
<1> HIDE DEF X
<1>8. g = [k \in 0..n |-> IF k = 0 THEN b0 ELSE Apply(g[k - 1], m, steps[k])]
  <2>1. /\ g = [k \in 0..n |-> IF k = 0 THEN b0 ELSE F[k][g[k - 1]]]
        /\ \A k \in 0..n : g[k] \in X
    BY <1>7 DEF Recurses
  <2>2. \A k \in 0..n : k # 0 => k \in 1..n /\ k - 1 \in 0..n
    BY <1>2
  <2>3. \A k \in 0..n : k # 0 => F[k][g[k - 1]] = Apply(g[k - 1], m, steps[k])
    BY <1>6, <2>1, <2>2
  <2> HIDE DEF n, m
  <2> QED BY <2>1, <2>3
<1>9. built = [k \in 0..n |-> IF k = 0 THEN b0 ELSE Apply(built[k - 1], m, steps[k])]
  BY <1>8
<1> HIDE DEF built
<1> DEFINE Kept_(k) == /\ built[k] \in X
                       /\ m.proto = "tls" /\ ~built[k].bad =>
                            \A i \in 1..k : Scheduled(steps[i], built[k], m)
           P == {k \in 0..n : Kept_(k)}
<1>10. 0 \in P
  <2>1. 0 \in 0..n /\ built[0] = b0
    BY <1>2, <1>9
  <2> QED BY <1>3, <2>1
<1>11. ASSUME NEW k \in 0..n, k \in P, k # n PROVE k + 1 \in P
  <2>1. k + 1 \in 1..n /\ k + 1 \in 0..n /\ k + 1 # 0 /\ (k + 1) - 1 = k
    BY <1>2, <1>11
  <2> DEFINE x == built[k]
             r == built[k + 1]
             o == steps[k + 1]
  <2>2. r = Apply(x, m, o)
    BY <1>9, <2>1
  <2>3. x \in X /\ (m.proto = "tls" /\ ~x.bad => \A i \in 1..k : Scheduled(steps[i], x, m))
    BY <1>11
  <2>4. /\ r \in X
        /\ ~r.bad => /\ ~x.bad
                     /\ m.proto = "tls" => x.segs = <<>> /\ Scheduled(o, r, m)
    BY <1>5, <2>1, <2>2, <2>3
  <2> HIDE DEF x, r, o
  <2>5. ASSUME m.proto = "tls", ~r.bad, NEW i \in 1..k + 1
        PROVE  Scheduled(steps[i], r, m)
    <3>1. CASE i = k + 1
      BY <2>4, <2>5, <3>1 DEF o
    <3>2. CASE i # k + 1
      <4>1. i \in 1..k
        BY <2>5, <3>2
      <4>2. Scheduled(steps[i], x, m) /\ x.segs = <<>>
        BY <2>3, <2>4, <2>5, <4>1
      <4>3. steps[i].op \notin {"chunk", "disorder", "oob"}
        BY <4>2 DEF Scheduled
      <4> QED BY <4>3 DEF Scheduled
    <3> QED BY <3>1, <3>2
  <2> QED BY <2>1, <2>4, <2>5 DEF r
<1>12. n \in P
  <2> HIDE DEF P, n
  <2>1. 0..n \subseteq P
    BY <1>2, <1>10, <1>11, Climb
  <2> QED BY <1>2, <2>1
<1>13. b = built[n]
  <2>1. CASE CheckAgainst(steps, b0.caps, b0.meta)
    BY <1>4, <2>1
  <2>2. CASE ~CheckAgainst(steps, b0.caps, b0.meta)
    <3>1. b0 \in X /\ b = Failed(b0)
      BY <1>3, <1>4, <2>2
    <3>2. SoundBuilder(b0, m, d)
      BY <3>1 DEF X
    <3>3. b.bad
      BY <3>1, <3>2, FailedOK
    <3> QED BY <3>3
  <2> QED BY <2>1, <2>2
<1>14. b \in X /\ (m.proto = "tls" => \A i \in 1..n : Scheduled(steps[i], b, m))
  BY <1>12, <1>13
<1>15. m.proto = "tls" => Laid(c.spec, b, m)
  <2> SUFFICES ASSUME m.proto = "tls", NEW i \in 1..Len(c.spec)
               PROVE  Scheduled(c.spec[i], b, m)
    BY DEF Laid
  <2>1. PICK k \in 1..n : steps[k] = c.spec[i]
    BY <1>2
  <2> QED BY <1>14, <2>1
<1> QED BY <1>14, <1>15 DEF X

\* Writes that merging keeps among X.
Merges(X) == \A s \in X : MergeLast(s) \in X

(* What the governor makes of a plan.                                       *)
LEMMA CoalesceIn ==
    ASSUME NEW X, NEW segs \in X, Len(segs) \in Nat, Merges(X), NEW max \in Nat
    PROVE  Coalesce(segs, max) \in X
<1> DEFINE n == Len(segs)
           F == [k \in 0..n |-> [s \in X |-> MergeLast(s)]]
           merged == CHOOSE g : g = [k \in 0..n |-> IF k = 0 THEN segs ELSE MergeLast(g[k - 1])]
<1>1. Coalesce(segs, max) = IF n <= max THEN segs ELSE merged[n - max]
  BY DEF Coalesce
<1>2. \A k \in 0..n : \A s \in X : F[k][s] = MergeLast(s) /\ MergeLast(s) \in X
  BY DEF Merges
<1> HIDE DEF F
<1>3. PICK g : Recurses(g, X, segs, F, 0, n)
  <2>1. StaysIn(X, F, 0, n)
    BY <1>2 DEF StaysIn
  <2>2. 0 \in Nat /\ 0 <= n
    OBVIOUS
  <2> HIDE DEF n
  <2>3. n \in Nat
    BY DEF n
  <2> QED BY <2>1, <2>2, <2>3, RecursionIs
<1>4. g = [k \in 0..n |-> IF k = 0 THEN segs ELSE MergeLast(g[k - 1])] /\ \A k \in 0..n : g[k] \in X
  <2>1. /\ g = [k \in 0..n |-> IF k = 0 THEN segs ELSE F[k][g[k - 1]]]
        /\ \A k \in 0..n : g[k] \in X
    BY <1>3 DEF Recurses
  <2>2. \A k \in 0..n : k # 0 => k - 1 \in 0..n
    OBVIOUS
  <2>3. \A k \in 0..n : k # 0 => F[k][g[k - 1]] = MergeLast(g[k - 1])
    BY <1>2, <2>1, <2>2
  <2> HIDE DEF n
  <2> QED BY <2>1, <2>3
<1>5. merged = [k \in 0..n |-> IF k = 0 THEN segs ELSE MergeLast(merged[k - 1])]
  BY <1>4
<1> HIDE DEF merged
<1> DEFINE P == {k \in 0..n : merged[k] \in X}
<1>6. 0 \in P
  BY <1>5
<1>7. ASSUME NEW k \in 0..n, k \in P, k # n PROVE k + 1 \in P
  <2>1. k + 1 \in 0..n /\ k + 1 # 0 /\ (k + 1) - 1 = k
    BY <1>7
  <2>2. merged[k + 1] = MergeLast(merged[k])
    BY <1>5, <2>1
  <2> QED BY <1>7, <2>1, <2>2 DEF Merges
<1>8. 0..n \subseteq P
  <2> HIDE DEF P, n
  <2>1. n \in Nat
    BY DEF n
  <2> QED BY <1>6, <1>7, <2>1, Climb
<1>9. CASE n <= max
  BY <1>1, <1>9
<1>10. CASE ~(n <= max)
  <2>1. n - max \in 0..n
    BY <1>10
  <2> QED BY <1>1, <1>8, <1>10, <2>1
<1> QED BY <1>9, <1>10

(* Two writes made one: plain ones, with the default hop limit.             *)
LEMMA MergeLastOK ==
    ASSUME NEW n, NEW d, NEW segs \in Seq(Segment), Aimed(segs, n, d)
    PROVE  /\ MergeLast(segs) \in Seq(Segment) /\ Aimed(MergeLast(segs), n, d)
           /\ Fronted(segs, n) => MergeLast(segs) = segs
<1> DEFINE L == Len(segs)
           pairs == {i \in 2..L : Mergeable(segs[i - 1], segs[i])}
           j == Max(pairs)
           front == SubSeq(segs, 1, j - 2)
           mid == [segs[j - 1] EXCEPT !.data = @ \o segs[j].data]
           back == SubSeq(segs, j + 1, L)
           t == (front \o <<mid>>) \o back
<1>1. MergeLast(segs) = IF pairs = {} THEN segs ELSE t
  BY DEF MergeLast
<1>2. L \in Nat /\ \A i \in 1..L : segs[i] \in Segment
  BY LenProperties, ElementOfSeq
<1>3. CASE pairs = {}
  BY <1>1, <1>3
<1>4. CASE pairs # {}
  <2>1. j \in pairs
    <3>1. pairs \in SUBSET (1..L)
      BY <1>2
    <3> HIDE DEF pairs
    <3> QED BY <1>2, <1>4, <3>1, GreatestOf
  <2> HIDE DEF j
  <2>2. j \in 2..L /\ j - 1 \in 1..L /\ j \in 1..L /\ j \in Int /\ j <= L
    BY <1>2, <2>1
  <2>3. /\ segs[j - 1] \in Segment /\ segs[j] \in Segment /\ segs[j - 1].kind = "stream"
        /\ segs[j].kind = "stream" /\ segs[j - 1].ttl = segs[j].ttl
    BY <1>2, <2>1, <2>2 DEF Mergeable
  <2>4. segs[j - 1].ttl = 0
    <3> SUFFICES ASSUME segs[j - 1].ttl # 0 PROVE FALSE
      OBVIOUS
    <3>1. Decoys(segs, j - 1)
      BY <2>2, <2>3 DEF Aimed
    <3>2. j - 1 \in 1..j - 1
      BY <2>2
    <3> QED BY <2>3, <3>1, <3>2 DEF Decoys
  <2>5. mid \in Segment /\ mid.ttl = 0
    <3>1. segs[j - 1].data \in Seq(Int) /\ segs[j].data \in Seq(Int)
      BY <2>3 DEF Segment
    <3>2. PICK x, y : x = segs[j - 1] /\ y = segs[j].data
      OBVIOUS
    <3>3. x.data \o y \in Seq(Int) /\ x \in Segment /\ x.ttl = 0
      BY <2>3, <2>4, <3>1, <3>2, ConcatProperties
    <3>4. mid = [x EXCEPT !.data = @ \o y]
      BY <3>2
    <3> HIDE DEF mid
    <3> QED BY <3>3, <3>4 DEF Segment
  <2>6. front \in Seq(Segment) /\ Len(front) = j - 2 /\ \A i \in 1..j - 2 : front[i] = segs[i]
    <3>1. PICK X, s, a, e : X = Segment /\ s = segs /\ a = 1 /\ e = j - 2
      OBVIOUS
    <3>2. s \in Seq(X) /\ a \in Nat \ {0} /\ e \in Int /\ e <= Len(s)
      BY <1>2, <2>2, <3>1
    <3>3. /\ SubSeq(s, a, e) \in Seq(X)
          /\ Len(SubSeq(s, a, e)) = IF a <= e THEN (e - a) + 1 ELSE 0
          /\ \A i \in 1..Len(SubSeq(s, a, e)) : SubSeq(s, a, e)[i] = s[(a + i) - 1]
      BY <3>2, PartOf
    <3>4. (IF a <= e THEN (e - a) + 1 ELSE 0) = j - 2 /\ \A i \in 1..j - 2 : (a + i) - 1 = i
      BY <2>2, <3>1
    <3> QED BY <3>1, <3>3, <3>4
  <2>7. back \in Seq(Segment) /\ Len(back) = L - j /\ \A i \in 1..L - j : back[i] = segs[j + i]
    <3>1. PICK X, s, a, e : X = Segment /\ s = segs /\ a = j + 1 /\ e = L
      OBVIOUS
    <3>2. s \in Seq(X) /\ a \in Nat \ {0} /\ e \in Int /\ e <= Len(s)
      BY <1>2, <2>2, <3>1
    <3>3. /\ SubSeq(s, a, e) \in Seq(X)
          /\ Len(SubSeq(s, a, e)) = IF a <= e THEN (e - a) + 1 ELSE 0
          /\ \A i \in 1..Len(SubSeq(s, a, e)) : SubSeq(s, a, e)[i] = s[(a + i) - 1]
      BY <3>2, PartOf
    <3>4. (IF a <= e THEN (e - a) + 1 ELSE 0) = L - j /\ \A i \in 1..L - j : (a + i) - 1 = j + i
      BY <1>2, <2>2, <3>1
    <3> QED BY <3>1, <3>3, <3>4
  <2> HIDE DEF front, mid, back
  <2> DEFINE one == <<mid>>
             fm == front \o one
  <2>8. one \in Seq(Segment) /\ Len(one) = 1 /\ one[1] = mid
    BY <2>5
  <2> HIDE DEF one
  <2>9. /\ fm \in Seq(Segment) /\ Len(fm) = j - 1
        /\ \A i \in 1..j - 1 : fm[i] = IF i <= j - 2 THEN segs[i] ELSE mid
    <3>1. /\ front \o one \in Seq(Segment) /\ Len(front \o one) = Len(front) + Len(one)
          /\ \A i \in 1..Len(front) + Len(one) :
               (front \o one)[i] = IF i <= Len(front) THEN front[i] ELSE one[i - Len(front)]
      BY <2>6, <2>8, JoinedIs
    <3>2. Len(front) + Len(one) = j - 1
      BY <2>2, <2>6, <2>8
    <3>3. \A i \in 1..j - 1 : ~(i <= j - 2) => i - (j - 2) = 1
      BY <2>2
    <3>4. \A i \in 1..j - 1 : i <= j - 2 => i \in 1..j - 2
      BY <2>2
    <3> QED BY <2>6, <2>8, <3>1, <3>2, <3>3, <3>4
  <2> HIDE DEF fm
  <2>10. /\ t \in Seq(Segment) /\ Len(t) = L - 1
         /\ \A i \in 1..L - 1 : t[i] = IF i <= j - 1 THEN fm[i] ELSE back[i - (j - 1)]
    <3>1. /\ fm \o back \in Seq(Segment) /\ Len(fm \o back) = Len(fm) + Len(back)
          /\ \A i \in 1..Len(fm) + Len(back) :
               (fm \o back)[i] = IF i <= Len(fm) THEN fm[i] ELSE back[i - Len(fm)]
      BY <2>7, <2>9, JoinedIs
    <3>2. Len(fm) + Len(back) = L - 1
      BY <1>2, <2>2, <2>7, <2>9
    <3>3. t = fm \o back
      BY DEF fm, one
    <3> HIDE DEF t
    <3> QED BY <2>9, <3>1, <3>2, <3>3
  <2> HIDE DEF t
  <2>11. \A i \in 1..j - 2 : t[i] = segs[i]
    <3> TAKE i \in 1..j - 2
    <3>1. i \in 1..L - 1 /\ i \in 1..j - 1 /\ i <= j - 1 /\ i <= j - 2
      BY <1>2, <2>2
    <3> QED BY <2>9, <2>10, <3>1
  <2>12. t[j - 1] = mid
    <3>1. j - 1 \in 1..L - 1 /\ j - 1 \in 1..j - 1 /\ j - 1 <= j - 1 /\ ~(j - 1 <= j - 2)
      BY <1>2, <2>2
    <3> QED BY <2>9, <2>10, <3>1
  <2>13. \A i \in j..L - 1 : t[i] = segs[i + 1]
    <3> TAKE i \in j..L - 1
    <3>1. /\ i \in 1..L - 1 /\ ~(i <= j - 1) /\ i - (j - 1) \in 1..L - j
          /\ j + (i - (j - 1)) = i + 1
      BY <1>2, <2>2
    <3> QED BY <2>7, <2>10, <3>1
  <2>14. Aimed(t, n, d)
    <3> SUFFICES ASSUME NEW i \in 1..Len(t), t[i].ttl # 0, t[i].kind # "decoy"
                 PROVE  d /\ Len(t[i].data) < n /\ Decoys(t, i - 1)
      BY DEF Aimed
    <3>1. i \in 1..j - 2 \/ i = j - 1 \/ i \in j..L - 1
      BY <2>2, <2>10
    <3>2. CASE i \in 1..j - 2
      <4>1. i \in 1..L /\ t[i] = segs[i]
        BY <1>2, <2>2, <2>11, <3>2
      <4>2. d /\ Len(t[i].data) < n /\ Decoys(segs, i - 1)
        BY <4>1 DEF Aimed
      <4>3. \A k \in 1..i - 1 : k \in 1..j - 2
        BY <2>2, <3>2
      <4> QED BY <2>11, <4>2, <4>3 DEF Decoys
    <3>3. CASE i = j - 1
      BY <2>5, <2>12, <3>3
    <3>4. CASE i \in j..L - 1
      <4>1. i + 1 \in 1..L /\ t[i] = segs[i + 1] /\ j - 1 \in 1..(i + 1) - 1
        BY <1>2, <2>2, <2>13, <3>4
      <4>2. Decoys(segs, (i + 1) - 1)
        BY <4>1 DEF Aimed
      <4> QED BY <2>3, <4>1, <4>2 DEF Decoys
    <3> QED BY <3>1, <3>2, <3>3, <3>4
  <2>15. ~Fronted(segs, n)
    <3>1. j \in 2..Len(segs) /\ Mergeable(segs[j - 1], segs[j])
      BY <2>1
    <3> QED BY <3>1 DEF Fronted
  <2> QED BY <1>1, <1>4, <2>10, <2>14, <2>15
<1> QED BY <1>3, <1>4

(* The governor keeps a plan aimed, and a fronted one as it is.             *)
LEMMA CoalesceOK ==
    ASSUME NEW n, NEW d, NEW segs \in Seq(Segment), Aimed(segs, n, d), NEW max \in Nat
    PROVE  /\ Coalesce(segs, max) \in Seq(Segment) /\ Aimed(Coalesce(segs, max), n, d)
           /\ Fronted(segs, n) => Coalesce(segs, max) = segs
<1>1. Len(segs) \in Nat
  BY LenProperties
<1> DEFINE X == {s \in Seq(Segment) : Aimed(s, n, d)}
           Y == {segs}
<1>2. Coalesce(segs, max) \in X
  <2>1. Merges(X) /\ segs \in X
    BY MergeLastOK DEF Merges
  <2> HIDE DEF X
  <2> QED BY <1>1, <2>1, CoalesceIn
<1>3. ASSUME Fronted(segs, n) PROVE Coalesce(segs, max) \in Y
  <2>1. Merges(Y) /\ segs \in Y
    BY <1>3, MergeLastOK DEF Merges
  <2> HIDE DEF Y
  <2> QED BY <1>1, <2>1, CoalesceIn
<1> QED BY <1>2, <1>3

-----------------------------------------------------------------------------
(* The plan and what is sent of it.                                         *)

\* The first write of these strategies is not the whole message.
Fronts(spec) == Uses(spec, "disorder") \/ Uses(spec, "oob")

\* The name is not in the first record of a re-framed hello, nor in a longer
\* write of a chunked one.
Unnamed(p, c) ==
    LET name == (c.msg.name[1] + 1)..c.msg.name[2]
        s    == p.payload
    IN  /\ p.reframed =>
             ~(name \subseteq ToSet(SubSeq(s, RecHdr + 1, RecHdr + s[RecHdr] - LenByte)))
        /\ \A o \in ToSet(c.spec) : o.op = "chunk" /\ ~p.reframed =>
             \A seg \in ToSet(p.segs) : Len(seg.data) > o.n => ~(name \subseteq ToSet(seg.data))

PlanOK(p, c) ==
    /\ p.payload \in Seq(Int) /\ p.segs \in Seq(Segment)
    /\ Aimed(p.segs, Len(p.payload), Uses(c.spec, "disorder"))
    /\ HasSNI(p.meta) => Unnamed(p, c) /\ (Fronts(c.spec) => Fronted(p.segs, Len(p.payload)))

\* What was sent, or is yet to be, is aimed as the plan was.
Going(t, p, c) ==
    /\ t \in Seq(Segment)
    /\ Aimed(t, Len(p.payload), Uses(c.spec, "disorder"))
    /\ HasSNI(p.meta) /\ Fronts(c.spec) /\ t # <<>> => Len(t[1].data) < Len(p.payload)

(* A message that is sent with no schedule is sent in one write.            *)
LEMMA ScheduleOK ==
    ASSUME NEW b, NEW m, NEW d, SoundBuilder(b, m, d)
    PROVE  /\ Schedule(b) \in Seq(Segment) /\ Aimed(Schedule(b), Len(b.payload), d)
           /\ b.segs # <<>> => Schedule(b) = b.segs
<1>1. b \in Builder /\ b.payload \in Seq(Int) /\ b.segs \in Seq(Segment)
      /\ Aimed(b.segs, Len(b.payload), d)
  BY DEF SoundBuilder, Builder
<1>2. CASE b.segs = <<>> /\ b.payload # <<>>
  <2>1. Stream(b.payload) \in Segment /\ Stream(b.payload).ttl = 0
    BY <1>1 DEF Stream, Segment
  <2>2. PICK x : x = Stream(b.payload)
    OBVIOUS
  <2>3. PICK t : t = <<x>>
    OBVIOUS
  <2>4. t \in Seq(Segment) /\ \A i \in 1..Len(t) : t[i].ttl = 0
    <3>1. t \in Seq(Segment) /\ Len(t) = 1 /\ t[1] = x
      BY <2>1, <2>2, <2>3
    <3> QED BY <2>1, <2>2, <3>1
  <2>5. Schedule(b) = t
    BY <1>2, <2>2, <2>3 DEF Schedule
  <2> QED BY <1>2, <2>4, <2>5 DEF Aimed
<1>3. CASE ~(b.segs = <<>> /\ b.payload # <<>>)
  BY <1>1, <1>3 DEF Schedule
<1> QED BY <1>2, <1>3

(* The plan of a strategy that was accepted.                                *)
LEMMA PlanIsOK ==
    ASSUME NEW c \in CaseSet, GoodMessage(c.msg), Compiles(c.spec), NEW b, b = BuildWith(c), ~b.bad,
           NEW p, p = [payload |-> b.payload, segs |-> Schedule(b), meta |-> b.meta,
                       reframed |-> b.reframed]
    PROVE  PlanOK(p, c)
<1> DEFINE m == c.msg
           d == Uses(c.spec, "disorder")
           name == (m.name[1] + 1)..m.name[2]
           s == b.payload
<1>1. SoundBuilder(b, m, d) /\ (m.proto = "tls" => Laid(c.spec, b, m))
  BY BuildOK
<1>2. b \in Builder /\ s \in Seq(Int) /\ b.meta = Parse(m, s) /\ Whole(m, s)
  BY <1>1 DEF SoundBuilder, Builder
<1>3. /\ Schedule(b) \in Seq(Segment) /\ Aimed(Schedule(b), Len(s), d)
      /\ b.segs # <<>> => Schedule(b) = b.segs
  BY <1>1, ScheduleOK
<1>4. p.payload = s /\ p.segs = Schedule(b) /\ p.meta = b.meta /\ p.reframed = b.reframed
  OBVIOUS
<1>5. m.have \in Nat /\ m.name \in Nat \X Nat /\ m.name[1] \in Nat /\ m.name[2] \in Nat
      /\ (m.name # Nowhere => m.name[1] < m.name[2])
  BY DEF GoodMessage, Message, WithinBody
<1>6. ASSUME HasSNI(b.meta)
      PROVE  /\ m.proto = "tls" /\ Laid(c.spec, b, m) /\ FirstRecord(m, b)
             /\ ClientHelloSNI(m) # Nowhere /\ m.name[2] \in name
  <2>1. m.proto = "tls" /\ b.meta.sni = ClientHelloSNI(m)
    BY <1>2, <1>6, ParseIs
  <2>2. ClientHelloSNI(m) # Nowhere
    BY <1>6, <2>1 DEF HasSNI
  <2>3. m.name # Nowhere
    BY <2>2 DEF ClientHelloSNI
  <2>4. m.name[2] \in name
    BY <1>5, <2>3
  <2> QED BY <1>1, <2>1, <2>2, <2>4 DEF SoundBuilder
<1>7. ASSUME HasSNI(b.meta), b.reframed
      PROVE  ~(name \subseteq ToSet(SubSeq(s, RecHdr + 1, RecHdr + s[RecHdr] - LenByte)))
  <2>1. PICK k \in 1..m.name[2] - 1 :
          /\ RecHdr + k <= Len(s) /\ s[RecHdr] = LenByte + k
          /\ \A j \in 1..k : s[RecHdr + j] = j
    BY <1>6, <1>7 DEF FirstRecord
  <2> DEFINE first == SubSeq(s, RecHdr + 1, RecHdr + s[RecHdr] - LenByte)
  <2>2. Len(first) = k /\ DOMAIN first = 1..k /\ \A i \in 1..k : first[i] = i
    <3>1. k \in Int /\ Len(s) \in Nat
      BY <1>2, LenProperties
    <3>2. first = SubSeq(s, 6, 5 + k)
      BY <2>1, <3>1 DEF RecHdr, LenByte
    <3> HIDE DEF first
    <3>3. PICK s2, a, e : s2 = s /\ a = 6 /\ e = 5 + k
      OBVIOUS
    <3>4. s2 \in Seq(Int) /\ a \in Nat \ {0} /\ e \in Int /\ e <= Len(s2)
      BY <1>2, <2>1, <3>1, <3>3 DEF RecHdr
    <3>5. /\ SubSeq(s2, a, e) \in Seq(Int)
          /\ Len(SubSeq(s2, a, e)) = IF a <= e THEN (e - a) + 1 ELSE 0
          /\ \A i \in 1..Len(SubSeq(s2, a, e)) : SubSeq(s2, a, e)[i] = s2[(a + i) - 1]
      BY <3>4, PartOf
    <3>6. (IF a <= e THEN (e - a) + 1 ELSE 0) = k /\ \A i \in 1..k : (a + i) - 1 = 5 + i
      BY <2>1, <3>1, <3>3
    <3>7. first \in Seq(Int) /\ Len(first) = k /\ \A i \in 1..k : first[i] = s[5 + i]
      BY <3>2, <3>3, <3>5, <3>6
    <3> QED BY <2>1, <3>7, LenProperties DEF RecHdr
  <2> HIDE DEF first
  <2>3. m.name[2] \notin ToSet(first)
    BY <1>5, <2>1, <2>2 DEF ToSet
  <2> QED BY <1>6, <1>7, <2>3 DEF first
<1>8. ASSUME HasSNI(b.meta), ~b.reframed, NEW o \in ToSet(c.spec), o.op = "chunk",
             NEW seg \in ToSet(p.segs), Len(seg.data) > o.n
      PROVE  ~(name \subseteq ToSet(seg.data))
  <2>1. PICK i \in 1..Len(c.spec) : o = c.spec[i]
    <3>1. c.spec \in Seq(Operation)
      BY DEF CaseSet
    <3>2. DOMAIN c.spec = 1..Len(c.spec)
      BY <3>1, LenProperties
    <3> QED BY <1>8, <3>2 DEF ToSet
  <2>2. Scheduled(o, b, m)
    BY <1>6, <1>8, <2>1 DEF Laid
  <2>3. p.segs = b.segs /\ Chunked(b.segs, o.n, m)
    BY <1>3, <1>4, <1>8, <2>2 DEF Scheduled
  <2>4. PICK k \in 1..Len(b.segs) : seg = b.segs[k]
    <3>1. DOMAIN b.segs = 1..Len(b.segs)
      BY <1>2, LenProperties DEF Builder
    <3> QED BY <1>8, <2>3, <3>1 DEF ToSet
  <2>5. seg.data \in Seq(Int)
    <3>1. b.segs \in Seq(Segment)
      BY <1>2 DEF Builder
    <3>2. seg \in Segment
      BY <2>4, <3>1, ElementOfSeq
    <3> QED BY <3>2 DEF Segment
  <2>6. DOMAIN seg.data = 1..Len(seg.data)
    BY <2>5, LenProperties
  <2>7. m.name[2] \notin ToSet(seg.data)
    BY <1>8, <2>3, <2>4, <2>6 DEF Chunked, ToSet
  <2> QED BY <1>6, <1>8, <2>7
<1>9. ASSUME HasSNI(p.meta) PROVE Unnamed(p, c)
  <2>1. HasSNI(b.meta)
    BY <1>4, <1>9
  <2> QED BY <1>4, <1>7, <1>8, <2>1 DEF Unnamed
<1>10. ASSUME HasSNI(p.meta), Fronts(c.spec) PROVE Fronted(p.segs, Len(p.payload))
  <2>1. PICK i \in 1..Len(c.spec) : c.spec[i].op \in {"disorder", "oob"}
    <3>1. c.spec \in Seq(Operation)
      BY DEF CaseSet
    <3>2. DOMAIN c.spec = 1..Len(c.spec)
      BY <3>1, LenProperties
    <3> QED BY <1>10, <3>2 DEF Fronts, Uses
  <2>2. Scheduled(c.spec[i], b, m)
    BY <1>4, <1>6, <1>10, <2>1 DEF Laid
  <2> QED BY <1>3, <1>4, <2>1, <2>2 DEF Scheduled
<1> QED BY <1>2, <1>3, <1>4, <1>9, <1>10 DEF PlanOK

(* A plan of which nothing was sent.                                        *)
LEMMA GoingFirst ==
    ASSUME NEW p, NEW c, PlanOK(p, c)
    PROVE  /\ Going(<<>>, p, c) /\ Going(p.segs, p, c)
           /\ \A max \in Nat : Going(Coalesce(p.segs, max), p, c)
<1> DEFINE d == Uses(c.spec, "disorder")
           n == Len(p.payload)
<1>1. p.segs \in Seq(Segment) /\ Aimed(p.segs, n, d)
      /\ (HasSNI(p.meta) /\ Fronts(c.spec) => Fronted(p.segs, n))
  BY DEF PlanOK
<1>2. Going(<<>>, p, c)
  <2>1. <<>> \in Seq(Segment)
    BY EmptySeq
  <2>2. Aimed(<<>>, n, d)
    BY DEF Aimed
  <2> QED BY <2>1, <2>2 DEF Going
<1>3. Going(p.segs, p, c)
  BY <1>1 DEF Going, Fronted
<1>4. ASSUME NEW max \in Nat PROVE Going(Coalesce(p.segs, max), p, c)
  <2>1. PICK segs, n2, d2 : segs = p.segs /\ n2 = n /\ d2 = d
    OBVIOUS
  <2>2. segs \in Seq(Segment) /\ Aimed(segs, n2, d2)
    BY <1>1, <2>1
  <2>3. /\ Coalesce(segs, max) \in Seq(Segment) /\ Aimed(Coalesce(segs, max), n2, d2)
        /\ Fronted(segs, n2) => Coalesce(segs, max) = segs
    BY <2>2, CoalesceOK
  <2>4. HasSNI(p.meta) /\ Fronts(c.spec) => Coalesce(segs, max) = p.segs
    BY <1>1, <2>1, <2>3
  <2> QED BY <1>3, <2>1, <2>3, <2>4 DEF Going
<1> QED BY <1>2, <1>3, <1>4

(* What was sent of a message, and one more write, whole or cut short.      *)
LEMMA GoingOn ==
    ASSUME NEW p, NEW c, NEW w \in Seq(Segment), NEW l \in Seq(Segment), l # <<>>,
           PlanOK(p, c), Going(w \o l, p, c)
    PROVE  /\ Append(w, Head(l)) \in Seq(Segment) /\ Tail(l) \in Seq(Segment)
           /\ Append(w, Head(l)) \o Tail(l) = w \o l
           /\ Going(w, p, c)
           /\ Head(l) \in Segment
           /\ \A x \in Segment :
                x.kind = Head(l).kind /\ x.ttl = Head(l).ttl /\ Len(x.data) <= Len(Head(l).data)
                  => Going(Append(w, x), p, c)
<1> DEFINE d == Uses(c.spec, "disorder")
           n == Len(p.payload)
           all == w \o l
           h == Head(l)
           N == Len(w)
<1>1. /\ N \in Nat /\ Len(l) \in Nat /\ Len(l) >= 1 /\ h \in Segment /\ h = l[1]
      /\ Tail(l) \in Seq(Segment) /\ Len(Tail(l)) = Len(l) - 1
      /\ \A i \in 1..Len(l) - 1 : Tail(l)[i] = l[i + 1]
  <2>1. Len(l) \in Nat /\ N \in Nat /\ Len(l) # 0
    BY LenProperties, EmptySeq
  <2>2. /\ h \in Segment /\ Tail(l) \in Seq(Segment) /\ h = l[1] /\ Len(Tail(l)) = Len(l) - 1
        /\ \A i \in 1..Len(l) - 1 : Tail(l)[i] = l[i + 1]
    BY <2>1, HeadTailProperties, ElementOfSeq
  <2> QED BY <2>1, <2>2
<1>2. /\ all \in Seq(Segment) /\ Len(all) = N + Len(l)
      /\ \A i \in 1..N + Len(l) : all[i] = IF i <= N THEN w[i] ELSE l[i - N]
  BY JoinedIs
<1>3. Aimed(all, n, d) /\ (HasSNI(p.meta) /\ Fronts(c.spec) /\ all # <<>> => Len(all[1].data) < n)
  BY DEF Going
<1>4. ASSUME NEW x \in Segment
      PROVE  /\ Append(w, x) \in Seq(Segment) /\ Len(Append(w, x)) = N + 1
             /\ \A i \in 1..N : Append(w, x)[i] = w[i]
             /\ Append(w, x)[N + 1] = x
  BY AppendProperties
<1>5. \A i \in 1..N : i \in 1..N + Len(l) /\ all[i] = w[i]
  BY <1>1, <1>2
<1>6. N + 1 \in 1..N + Len(l) /\ all[N + 1] = h
  <2>1. N + 1 \in 1..N + Len(l) /\ ~(N + 1 <= N) /\ (N + 1) - N = 1
    BY <1>1
  <2> QED BY <1>1, <1>2, <2>1
<1>7. all # <<>>
  BY <1>1, <1>2
<1>8. Append(w, h) \o Tail(l) = all
  <2> DEFINE aw == Append(w, h)
             tl == Tail(l)
             v == aw \o tl
  <2>1. aw \in Seq(Segment) /\ Len(aw) = N + 1 /\ (\A i \in 1..N : aw[i] = w[i]) /\ aw[N + 1] = h
    BY <1>1, <1>4
  <2>2. tl \in Seq(Segment)
    BY <1>1
  <2> HIDE DEF aw, tl, all
  <2>3. /\ v \in Seq(Segment) /\ Len(v) = (N + 1) + Len(tl)
        /\ \A i \in 1..(N + 1) + Len(tl) : v[i] = IF i <= N + 1 THEN aw[i] ELSE tl[i - (N + 1)]
    <3>1. /\ aw \o tl \in Seq(Segment) /\ Len(aw \o tl) = Len(aw) + Len(tl)
          /\ \A i \in 1..Len(aw) + Len(tl) :
               (aw \o tl)[i] = IF i <= Len(aw) THEN aw[i] ELSE tl[i - Len(aw)]
      BY <2>1, <2>2, JoinedIs
    <3> QED BY <2>1, <3>1
  <2>4. (N + 1) + Len(tl) = N + Len(l)
    BY <1>1 DEF tl
  <2> HIDE DEF v
  <2>5. ASSUME NEW i \in 1..N + Len(l) PROVE v[i] = all[i]
    <3>1. CASE i <= N
      <4>1. i \in 1..N /\ i <= N + 1
        BY <1>1, <3>1
      <4> QED BY <1>2, <2>1, <2>3, <2>4, <3>1, <4>1
    <3>2. CASE i = N + 1
      BY <1>6, <2>1, <2>3, <2>4, <3>2
    <3>3. CASE ~(i <= N) /\ i # N + 1
      <4>1. /\ ~(i <= N + 1) /\ i - (N + 1) \in 1..Len(l) - 1
            /\ (i - (N + 1)) + 1 = i - N
        BY <1>1, <3>3
      <4>2. v[i] = tl[i - (N + 1)]
        BY <2>3, <2>4, <4>1
      <4>3. tl[i - (N + 1)] = l[(i - (N + 1)) + 1]
        BY <1>1, <4>1 DEF tl
      <4>4. all[i] = l[i - N]
        BY <1>2, <3>3
      <4> QED BY <4>1, <4>2, <4>3, <4>4
    <3> QED BY <3>1, <3>2, <3>3
  <2>6. v = all
    BY <1>2, <2>3, <2>4, <2>5, SeqEqual
  <2> QED BY <2>6 DEF v, aw, tl
<1> HIDE DEF all
<1>9. Going(w, p, c)
  <2>1. Aimed(w, n, d)
    <3> SUFFICES ASSUME NEW i \in 1..Len(w), w[i].ttl # 0, w[i].kind # "decoy"
                 PROVE  d /\ Len(w[i].data) < n /\ Decoys(w, i - 1)
      BY DEF Aimed
    <3>1. i \in 1..Len(all) /\ all[i] = w[i]
      BY <1>2, <1>5
    <3>2. d /\ Len(w[i].data) < n /\ Decoys(all, i - 1)
      BY <1>3, <3>1 DEF Aimed
    <3>3. \A k \in 1..i - 1 : k \in 1..N
      BY <1>1
    <3> QED BY <1>5, <3>2, <3>3 DEF Decoys
  <2>2. ASSUME HasSNI(p.meta), Fronts(c.spec), w # <<>> PROVE Len(w[1].data) < n
    <3>1. 1 \in 1..N
      BY <1>1, <2>2, EmptySeq
    <3> QED BY <1>3, <1>5, <1>7, <2>2, <3>1
  <2> QED BY <2>1, <2>2 DEF Going
<1>10. ASSUME NEW x \in Segment, x.kind = h.kind, x.ttl = h.ttl, Len(x.data) <= Len(h.data)
       PROVE  Going(Append(w, x), p, c)
  <2> DEFINE v == Append(w, x)
  <2>1. v \in Seq(Segment) /\ Len(v) = N + 1 /\ (\A i \in 1..N : v[i] = w[i]) /\ v[N + 1] = x
    BY <1>4
  <2> HIDE DEF v
  <2>2. Len(x.data) \in Nat /\ Len(h.data) \in Nat
    BY <1>1, <1>10, LenProperties DEF Segment
  <2>3. n \in Nat
    BY LenProperties DEF PlanOK
  <2>4. Aimed(v, n, d)
    <3> SUFFICES ASSUME NEW i \in 1..Len(v), v[i].ttl # 0, v[i].kind # "decoy"
                 PROVE  d /\ Len(v[i].data) < n /\ Decoys(v, i - 1)
      BY DEF Aimed
    <3>1. CASE i \in 1..N
      <4>1. v[i] = w[i] /\ i \in 1..Len(w)
        BY <2>1, <3>1
      <4>2. d /\ Len(w[i].data) < n /\ Decoys(w, i - 1)
        BY <1>9, <4>1 DEF Going, Aimed
      <4>3. \A k \in 1..i - 1 : k \in 1..N
        BY <1>1, <3>1
      <4> QED BY <2>1, <4>1, <4>2, <4>3 DEF Decoys
    <3>2. CASE i = N + 1
      <4>1. /\ N + 1 \in 1..Len(all) /\ all[N + 1] = h /\ h.ttl # 0 /\ h.kind # "decoy"
            /\ v[i] = x
        BY <1>2, <1>6, <1>10, <2>1, <3>2
      <4>2. d /\ Len(h.data) < n /\ Decoys(all, (N + 1) - 1)
        BY <1>3, <4>1 DEF Aimed
      <4>3. Len(v[i].data) < n
        BY <1>10, <2>2, <2>3, <4>1, <4>2
      <4>4. \A k \in 1..i - 1 : k \in 1..N /\ k \in 1..(N + 1) - 1
        BY <1>1, <3>2
      <4> QED BY <1>5, <2>1, <4>2, <4>3, <4>4 DEF Decoys
    <3> QED BY <1>1, <2>1, <3>1, <3>2
  <2>5. ASSUME HasSNI(p.meta), Fronts(c.spec) PROVE Len(v[1].data) < n
    <3>1. CASE N >= 1
      <4>1. 1 \in 1..N /\ w # <<>>
        BY <1>1, <3>1, EmptySeq
      <4>2. Len(w[1].data) < n
        BY <1>9, <2>5, <4>1 DEF Going
      <4> QED BY <2>1, <4>1, <4>2
    <3>2. CASE N = 0
      <4>1. v[1] = x /\ all[1] = h
        BY <1>6, <2>1, <3>2
      <4>2. Len(h.data) < n
        BY <1>3, <1>7, <2>5, <4>1
      <4> QED BY <1>10, <2>2, <2>3, <4>1, <4>2
    <3> QED BY <1>1, <3>1, <3>2
  <2> QED BY <2>1, <2>4, <2>5 DEF Going, v
<1> QED BY <1>1, <1>4, <1>8, <1>9, <1>10 DEF all

-----------------------------------------------------------------------------
(* The senders.                                                             *)

Shapes ==
    /\ case \in Cases /\ tokens \in Int
    /\ DOMAIN pc = Flows /\ DOMAIN plan = Flows /\ DOMAIN left = Flows
    /\ DOMAIN hop = Flows /\ DOMAIN stuck = Flows /\ DOMAIN wire = Flows

Unsent == {"start", "refused", "planned"}
Finished == {"sent", "failed"}

\* What is true of a flow: nothing was emitted before the send, and what was, with
\* what is left to be, is aimed as the plan was.
FlowOK(f) ==
    /\ pc[f] \in Unsent \cup {"sending"} \cup Finished
    /\ pc[f] # "refused" => case[f] # Absent
    /\ pc[f] \in Unsent => wire[f] = <<>> /\ left[f] = <<>> /\ hop[f] = 0
    /\ Planned(f) => PlanOK(plan[f], case[f])
    /\ wire[f] \in Seq(Segment) /\ left[f] \in Seq(Segment)
    /\ pc[f] = "sending" => Going(wire[f] \o left[f], plan[f], case[f])
    /\ pc[f] \in Finished => Going(wire[f], plan[f], case[f]) /\ (~stuck[f] => hop[f] = 0)

EmitInv == Shapes /\ \A f \in Flows : FlowOK(f)

(* What the runs check follows.                                             *)
LEMMA InvLimits == EmitInv => HopLimitRestored
<1> SUFFICES ASSUME EmitInv, NEW f \in Flows
             PROVE  /\ pc[f] \in {"sent", "failed"} /\ ~stuck[f] => hop[f] = 0
                    /\ \A i \in DOMAIN wire[f] : wire[f][i].ttl # 0 =>
                         \/ wire[f][i].kind = "decoy"
                         \/ /\ Uses(case[f].spec, "disorder")
                            /\ Len(wire[f][i].data) < Len(plan[f].payload)
                            /\ \A k \in 1..i - 1 : wire[f][k].kind = "decoy"
  BY DEF HopLimitRestored
<1>1. FlowOK(f)
  BY DEF EmitInv
<1>2. Going(wire[f], plan[f], case[f]) \/ wire[f] = <<>>
  <2>1. CASE pc[f] \in Unsent
    BY <1>1, <2>1 DEF FlowOK
  <2>2. CASE pc[f] \in Finished
    BY <1>1, <2>2 DEF FlowOK
  <2>3. CASE pc[f] = "sending"
    <3>1. PICK w, l, p, c : w = wire[f] /\ l = left[f] /\ p = plan[f] /\ c = case[f]
      OBVIOUS
    <3>2. /\ w \in Seq(Segment) /\ l \in Seq(Segment) /\ PlanOK(p, c) /\ Going(w \o l, p, c)
      BY <1>1, <2>3, <3>1 DEF FlowOK, Planned
    <3>3. CASE l = <<>>
      <4>1. w \o l = w
        BY <3>2, <3>3, ConcatEmptySeq
      <4> QED BY <3>1, <3>2, <4>1
    <3>4. CASE l # <<>>
      <4>1. Going(w, p, c)
        BY <3>2, <3>4, GoingOn
      <4> QED BY <3>1, <4>1
    <3> QED BY <3>3, <3>4
  <2> QED BY <1>1, <2>1, <2>2, <2>3 DEF FlowOK
<1>3. DOMAIN wire[f] = 1..Len(wire[f])
  BY <1>1, LenProperties DEF FlowOK
<1>4. pc[f] \in {"sent", "failed"} /\ ~stuck[f] => hop[f] = 0
  BY <1>1 DEF FlowOK, Finished
<1>5. ASSUME NEW i \in DOMAIN wire[f], wire[f][i].ttl # 0, wire[f][i].kind # "decoy"
      PROVE  /\ Uses(case[f].spec, "disorder")
             /\ Len(wire[f][i].data) < Len(plan[f].payload)
             /\ \A k \in 1..i - 1 : wire[f][k].kind = "decoy"
  <2>1. wire[f] # <<>> /\ i \in 1..Len(wire[f])
    BY <1>3
  <2>2. Aimed(wire[f], Len(plan[f].payload), Uses(case[f].spec, "disorder"))
    BY <1>2, <2>1 DEF Going
  <2> QED BY <1>5, <2>1, <2>2 DEF Aimed, Decoys
<1> QED BY <1>4, <1>5

LEMMA InvHidden == EmitInv => NameIsHidden
<1> SUFFICES ASSUME EmitInv, NEW f \in Flows, Planned(f), HasSNI(plan[f].meta)
             PROVE  /\ Unnamed(plan[f], case[f])
                    /\ Fronts(case[f].spec) /\ wire[f] # <<>> => wire[f][1].data # plan[f].payload
  BY DEF NameIsHidden, Unnamed, Fronts
<1>1. FlowOK(f) /\ PlanOK(plan[f], case[f])
  BY DEF EmitInv, FlowOK
<1>2. Unnamed(plan[f], case[f])
  BY <1>1 DEF PlanOK
<1>3. ASSUME Fronts(case[f].spec), wire[f] # <<>> PROVE wire[f][1].data # plan[f].payload
  <2>1. PICK w, l, p, c : w = wire[f] /\ l = left[f] /\ p = plan[f] /\ c = case[f]
    OBVIOUS
  <2>2. Going(w, p, c)
    <3>1. CASE pc[f] \in Finished
      BY <1>1, <2>1, <3>1 DEF FlowOK
    <3>2. CASE pc[f] = "sending"
      <4>1. /\ w \in Seq(Segment) /\ l \in Seq(Segment) /\ PlanOK(p, c) /\ Going(w \o l, p, c)
        BY <1>1, <2>1, <3>2 DEF FlowOK
      <4>2. CASE l = <<>>
        <5>1. w \o l = w
          BY <4>1, <4>2, ConcatEmptySeq
        <5> QED BY <4>1, <5>1
      <4>3. CASE l # <<>>
        BY <4>1, <4>3, GoingOn
      <4> QED BY <4>2, <4>3
    <3> QED BY <1>1, <1>3, <3>1, <3>2 DEF FlowOK
  <2>3. Len(w[1].data) < Len(p.payload)
    BY <1>3, <2>1, <2>2 DEF Going
  <2>4. Len(p.payload) \in Nat
    BY <1>1, <2>1, LenProperties DEF PlanOK
  <2>5. w[1].data # p.payload
    BY <2>3, <2>4
  <2> QED BY <2>1, <2>5
<1> QED BY <1>2, <1>3

LEMMA InvInit == EmitInit => EmitInv
<1> SUFFICES ASSUME EmitInit PROVE EmitInv
  OBVIOUS
<1>1. Shapes
  BY BudgetType DEF EmitInit, Shapes
<1>2. ASSUME NEW f \in Flows PROVE FlowOK(f)
  <2>1. /\ pc[f] = (IF case[f] = Absent THEN "refused" ELSE "start")
        /\ left[f] = <<>> /\ hop[f] = 0 /\ wire[f] = <<>>
    BY DEF EmitInit
  <2>2. <<>> \in Seq(Segment)
    BY EmptySeq
  <2> QED BY <2>1, <2>2 DEF FlowOK, Unsent, Finished, Planned
<1> QED BY <1>1, <1>2 DEF EmitInv

(* A flow that no step moves.                                               *)
Same(g) ==
    /\ pc'[g] = pc[g] /\ plan'[g] = plan[g] /\ left'[g] = left[g] /\ hop'[g] = hop[g]
    /\ stuck'[g] = stuck[g] /\ wire'[g] = wire[g] /\ case'[g] = case[g]

LEMMA Unmoved ==
    ASSUME NEW g, FlowOK(g), Same(g)
    PROVE  FlowOK(g)'
BY DEF FlowOK, Same, Planned

(* The bucket always grants a write.                                        *)
LEMMA GrantedIs ==
    ASSUME NEW n \in Nat, tokens \in Int
    PROVE  Granted(n) \in Nat \ {0}
<1> DEFINE A == {n, tokens}
           low == Min(A)
           B == {1, low}
<1>1. low \in A
  <2>1. \E x \in A : \A y \in A : x <= y
    OBVIOUS
  <2> HIDE DEF A
  <2> QED BY <2>1 DEF Min
<1>2. low \in Int
  BY <1>1
<1> HIDE DEF low
<1>3. Max(B) \in B /\ \A y \in B : Max(B) >= y
  <2>1. \E x \in B : \A y \in B : x >= y
    BY <1>2
  <2> HIDE DEF B
  <2> QED BY <2>1 DEF Max
<1>4. Granted(n) = Max(B)
  BY DEF Granted, low
<1> QED BY <1>2, <1>3, <1>4

(* A step of one flow leaves the others where they are.                     *)
LEMMA Others ==
    ASSUME EmitInv, NEW f \in Flows, Compile(f) \/ Send(f)
    PROVE  Shapes' /\ \A g \in Flows : g # f => Same(g)
<1>1. Shapes /\ FlowOK(f)
  BY DEF EmitInv
<1>2. CASE Compile(f)
  BY <1>1, <1>2 DEF Compile, Shapes, Same
<1>3. CASE Reserve(f)
  <2>1. tokens' \in Int
    <3>1. Planned(f)
      BY <1>3 DEF Reserve, Planned
    <3>2. Len(plan[f].segs) \in Nat
      BY <1>1, <3>1, LenProperties DEF FlowOK, PlanOK
    <3>3. Granted(Len(plan[f].segs)) \in Int /\ tokens \in Int
      BY <1>1, <3>2, GrantedIs DEF Shapes
    <3> QED BY <1>3, <3>2, <3>3 DEF Reserve
  <2> QED BY <1>1, <1>3, <2>1 DEF Reserve, Shapes, Same
<1>4. CASE EmitSegment(f)
  BY <1>1, <1>4 DEF EmitSegment, Shapes, Same
<1>5. CASE ShortWrite(f)
  BY <1>1, <1>5 DEF ShortWrite, Shapes, Same
<1>6. CASE Abort(f)
  BY <1>1, <1>6 DEF Abort, Restore, Shapes, Same
<1>7. CASE Sent(f)
  BY <1>1, <1>7 DEF Sent, Restore, Shapes, Same
<1> QED BY <1>2, <1>3, <1>4, <1>5, <1>6, <1>7 DEF Send

(* A message is planned, or refused.                                        *)
LEMMA CompileKeeps ==
    ASSUME EmitInv, NEW f \in Flows, Compile(f)
    PROVE  FlowOK(f)'
<1> DEFINE c == case[f]
           b == BuildWith(c)
           ok == Compiles(c.spec) /\ ~b.bad /\ Validate(b.payload, Schedule(b))
           p == [payload |-> b.payload, segs |-> Schedule(b), meta |-> b.meta,
                 reframed |-> b.reframed]
<1>1. Shapes /\ FlowOK(f) /\ pc[f] = "start" /\ c # Absent
  BY DEF EmitInv, FlowOK, Compile
<1>2. c \in CaseSet /\ GoodMessage(c.msg)
  <2>1. c \in CaseSet /\ WithinBody(c.msg)
    BY <1>1, CasesType DEF Shapes
  <2> QED BY <2>1 DEF CaseSet, GoodMessage
<1>3. /\ pc'[f] = IF ok THEN "planned" ELSE "refused"
      /\ ok => plan'[f] = p
      /\ left'[f] = left[f] /\ hop'[f] = hop[f] /\ wire'[f] = wire[f] /\ case'[f] = c
      /\ stuck'[f] = stuck[f]
  BY <1>1 DEF Compile, Shapes
<1>4. /\ wire[f] = <<>> /\ left[f] = <<>> /\ hop[f] = 0
      /\ wire[f] \in Seq(Segment) /\ left[f] \in Seq(Segment)
  BY <1>1 DEF FlowOK, Unsent
<1>5. ok => PlanOK(p, c)
  BY <1>2, PlanIsOK
<1> HIDE DEF ok, p, c
<1>6. CASE ok
  BY <1>1, <1>3, <1>4, <1>5, <1>6 DEF FlowOK, Unsent, Finished, Planned
<1>7. CASE ~ok
  BY <1>1, <1>3, <1>4, <1>7 DEF FlowOK, Unsent, Finished, Planned
<1> QED BY <1>6, <1>7

(* A plan is handed to the sender, or fails before a byte of it.            *)
LEMMA ReserveKeeps ==
    ASSUME EmitInv, NEW f \in Flows, Reserve(f)
    PROVE  FlowOK(f)'
<1> DEFINE c == case[f]
           p == plan[f]
           n == Len(p.segs)
           granted == IF ~case[f].strict /\ n > 1 THEN Granted(n) ELSE n
           l == IF granted < n THEN Coalesce(p.segs, granted) ELSE p.segs
<1>1. Shapes /\ FlowOK(f) /\ pc[f] = "planned" /\ PlanOK(p, c) /\ c # Absent
  BY DEF EmitInv, FlowOK, Reserve, Planned
<1>2. /\ wire[f] = <<>> /\ left[f] = <<>> /\ hop[f] = 0
      /\ wire[f] \in Seq(Segment) /\ left[f] \in Seq(Segment)
  BY <1>1 DEF FlowOK, Unsent
<1>3. /\ plan'[f] = p /\ case'[f] = c /\ wire'[f] = wire[f] /\ hop'[f] = hop[f]
      /\ stuck'[f] = stuck[f]
      /\ (pc'[f] = "failed" /\ left'[f] = left[f]) \/ (pc'[f] = "sending" /\ left'[f] = l)
  BY <1>1 DEF Reserve, Shapes
<1>4. Going(l, p, c) /\ Going(<<>>, p, c)
  <2>1. p.segs \in Seq(Segment) /\ n \in Nat /\ tokens \in Int
    BY <1>1, LenProperties DEF PlanOK, Shapes
  <2>2. granted \in Nat
    <3>1. Granted(n) \in Nat
      <4> HIDE DEF n
      <4> QED BY <2>1, GrantedIs
    <3> QED BY <2>1, <3>1
  <2> HIDE DEF granted, p, c
  <2> QED BY <1>1, <2>2, GoingFirst
<1>5. l \in Seq(Segment) /\ <<>> \o l = l
  <2>1. l \in Seq(Segment)
    BY <1>4 DEF Going
  <2> HIDE DEF l
  <2> QED BY <2>1, ConcatEmptySeq
<1> HIDE DEF l, p, c
<1>6. CASE pc'[f] = "failed" /\ left'[f] = left[f]
  BY <1>1, <1>2, <1>3, <1>4, <1>6 DEF FlowOK, Unsent, Finished, Planned
<1>7. CASE pc'[f] = "sending" /\ left'[f] = l
  <2>1. wire'[f] \o left'[f] = l /\ wire'[f] \in Seq(Segment) /\ left'[f] \in Seq(Segment)
    BY <1>2, <1>3, <1>5, <1>7
  <2> QED BY <1>1, <1>3, <1>4, <1>7, <2>1 DEF FlowOK, Unsent, Finished, Planned
<1> QED BY <1>3, <1>6, <1>7

(* The next write, with its own hop limit.                                  *)
LEMMA EmitKeeps ==
    ASSUME EmitInv, NEW f \in Flows, EmitSegment(f)
    PROVE  FlowOK(f)'
<1> DEFINE c == case[f]
           p == plan[f]
           w == wire[f]
           l == left[f]
           seg == Head(l)
<1>1. /\ Shapes /\ FlowOK(f) /\ pc[f] = "sending" /\ l # <<>> /\ PlanOK(p, c) /\ c # Absent
      /\ w \in Seq(Segment) /\ l \in Seq(Segment) /\ Going(w \o l, p, c)
  BY DEF EmitInv, FlowOK, EmitSegment, Planned
<1>2. /\ plan'[f] = p /\ case'[f] = c /\ pc'[f] = "sending" /\ stuck'[f] = stuck[f]
      /\ wire'[f] = Append(w, [seg EXCEPT !.ttl = seg.ttl]) /\ left'[f] = Tail(l)
  BY <1>1 DEF EmitSegment, Hop, Shapes
<1> HIDE DEF c, p, w, l, seg
<1>3. /\ Append(w, seg) \in Seq(Segment) /\ Tail(l) \in Seq(Segment)
      /\ Append(w, seg) \o Tail(l) = w \o l /\ seg \in Segment
  <2>1. /\ Append(w, Head(l)) \in Seq(Segment) /\ Tail(l) \in Seq(Segment)
        /\ Append(w, Head(l)) \o Tail(l) = w \o l /\ Head(l) \in Segment
    BY <1>1, GoingOn
  <2> QED BY <2>1 DEF seg
<1>4. [seg EXCEPT !.ttl = seg.ttl] = seg
  BY <1>3 DEF Segment
<1>5. wire'[f] = Append(w, seg) /\ wire'[f] \o left'[f] = w \o l
  BY <1>2, <1>3, <1>4
<1> QED BY <1>1, <1>2, <1>3, <1>5 DEF FlowOK, Unsent, Finished, Planned

(* What is on the wire when the sender stops.                               *)
LEMMA SoFar ==
    ASSUME NEW f \in Flows, FlowOK(f), pc[f] = "sending"
    PROVE  Going(wire[f], plan[f], case[f])
<1>1. PICK w, l, p, c : w = wire[f] /\ l = left[f] /\ p = plan[f] /\ c = case[f]
  OBVIOUS
<1>2. /\ w \in Seq(Segment) /\ l \in Seq(Segment) /\ PlanOK(p, c) /\ Going(w \o l, p, c)
  BY <1>1 DEF FlowOK, Planned
<1>3. CASE l = <<>>
  <2>1. w \o l = w
    BY <1>2, <1>3, ConcatEmptySeq
  <2> QED BY <1>1, <1>2, <2>1
<1>4. CASE l # <<>>
  <2>1. Going(w, p, c)
    BY <1>2, <1>4, GoingOn
  <2> QED BY <1>1, <2>1
<1> QED BY <1>3, <1>4

LEMMA StopKeeps ==
    ASSUME EmitInv, NEW f \in Flows, Abort(f) \/ Sent(f)
    PROVE  FlowOK(f)'
<1>1. Shapes /\ FlowOK(f) /\ pc[f] = "sending" /\ PlanOK(plan[f], case[f])
      /\ case[f] # Absent
  BY DEF EmitInv, FlowOK, Abort, Sent, Planned
<1>2. Going(wire[f], plan[f], case[f])
  BY <1>1, SoFar
<1>3. /\ pc'[f] \in Finished /\ plan'[f] = plan[f] /\ case'[f] = case[f]
      /\ wire'[f] = wire[f] /\ left'[f] = left[f]
  BY <1>1 DEF Abort, Sent, Shapes, Finished
<1>4. ~stuck'[f] => hop'[f] = 0
  <2>1. Restore(f)
    BY DEF Abort, Sent
  <2> QED BY <1>1, <2>1 DEF Restore, Shapes
<1> QED BY <1>1, <1>2, <1>3, <1>4 DEF FlowOK, Unsent, Finished, Planned

(* A write that is cut short is less than the one that was meant.           *)
LEMMA ShortKeeps ==
    ASSUME EmitInv, NEW f \in Flows, ShortWrite(f)
    PROVE  FlowOK(f)'
<1> DEFINE c == case[f]
           p == plan[f]
           w == wire[f]
           l == left[f]
           seg == Head(l)
<1>1. /\ Shapes /\ FlowOK(f) /\ pc[f] = "sending" /\ l # <<>> /\ PlanOK(p, c) /\ c # Absent
      /\ w \in Seq(Segment) /\ l \in Seq(Segment) /\ Going(w \o l, p, c)
  BY DEF EmitInv, FlowOK, ShortWrite, Planned
<1>2. PICK n \in 0..(Len(seg.data) - 1) :
        wire'[f] = Append(w, [seg EXCEPT !.data = SubSeq(@, 1, n), !.ttl = seg.ttl])
  BY <1>1 DEF ShortWrite, Hop, Shapes
<1>3. /\ plan'[f] = p /\ case'[f] = c /\ pc'[f] = "failed" /\ left'[f] = l
      /\ ~stuck'[f] => hop'[f] = 0
  BY <1>1 DEF ShortWrite, Shapes
<1> DEFINE part == [seg EXCEPT !.data = SubSeq(@, 1, n), !.ttl = seg.ttl]
<1> HIDE DEF c, p, w, l, seg
<1>4. /\ seg \in Segment
      /\ \A x \in Segment : x.kind = seg.kind /\ x.ttl = seg.ttl /\ Len(x.data) <= Len(seg.data)
           => Going(Append(w, x), p, c)
  <2>1. /\ Head(l) \in Segment
        /\ \A x \in Segment :
             x.kind = Head(l).kind /\ x.ttl = Head(l).ttl /\ Len(x.data) <= Len(Head(l).data)
               => Going(Append(w, x), p, c)
    BY <1>1, GoingOn
  <2> QED BY <2>1 DEF seg
<1>5. part \in Segment /\ part.kind = seg.kind /\ part.ttl = seg.ttl
      /\ Len(part.data) <= Len(seg.data)
  <2>1. PICK s : s = seg.data
    OBVIOUS
  <2>2. s \in Seq(Int) /\ Len(s) \in Nat /\ n \in Int /\ n <= Len(s) /\ 0 <= n
    BY <1>2, <1>4, <2>1, LenProperties DEF Segment
  <2>3. PICK a \in Nat \ {0} : a = 1
    OBVIOUS
  <2>4. /\ SubSeq(s, a, n) \in Seq(Int)
        /\ Len(SubSeq(s, a, n)) = IF a <= n THEN (n - a) + 1 ELSE 0
    BY <2>2, <2>3, PartOf
  <2>5. Len(SubSeq(s, a, n)) <= Len(s)
    BY <2>2, <2>3, <2>4
  <2>6. PICK y : y = SubSeq(s, a, n)
    OBVIOUS
  <2>7. part = [seg EXCEPT !.data = y, !.ttl = seg.ttl]
    BY <2>1, <2>3, <2>6
  <2> HIDE DEF part
  <2> QED BY <1>4, <2>1, <2>4, <2>5, <2>6, <2>7 DEF Segment
<1>6. wire'[f] = Append(w, part)
  BY <1>2
<1> HIDE DEF part
<1>7. Going(Append(w, part), p, c) /\ Append(w, part) \in Seq(Segment)
  BY <1>1, <1>4, <1>5, AppendProperties
<1> QED BY <1>1, <1>3, <1>6, <1>7 DEF FlowOK, Unsent, Finished, Planned

LEMMA InvNext == EmitInv /\ [EmitNext]_emitVars => EmitInv'
<1> SUFFICES ASSUME EmitInv, [EmitNext]_emitVars PROVE EmitInv'
  OBVIOUS
<1>1. ASSUME NEW f \in Flows, Compile(f) \/ Send(f) PROVE EmitInv'
  <2>1. Shapes' /\ \A g \in Flows : g # f => Same(g)
    BY <1>1, Others
  <2>2. FlowOK(f)'
    BY <1>1, CompileKeeps, ReserveKeeps, EmitKeeps, StopKeeps, ShortKeeps DEF Send
  <2>3. ASSUME NEW g \in Flows PROVE FlowOK(g)'
    <3>1. CASE g = f
      BY <2>2, <3>1
    <3>2. CASE g # f
      <4>1. FlowOK(g) /\ Same(g)
        BY <2>1, <3>2 DEF EmitInv
      <4> QED BY <4>1, Unmoved
    <3> QED BY <3>1, <3>2
  <2> QED BY <2>1, <2>3 DEF EmitInv
<1>2. CASE Refill
  <2>1. UNCHANGED <<case, pc, plan, left, hop, stuck, wire>> /\ tokens' \in Int
    BY <1>2 DEF Refill, EmitInv, Shapes
  <2>2. Shapes'
    BY <2>1 DEF EmitInv, Shapes
  <2>3. ASSUME NEW g \in Flows PROVE FlowOK(g)'
    BY <2>1 DEF EmitInv, FlowOK, Planned
  <2> QED BY <2>2, <2>3 DEF EmitInv
<1>3. CASE UNCHANGED emitVars
  BY <1>3 DEF emitVars, EmitInv, Shapes, FlowOK, Planned
<1> QED BY <1>1, <1>2, <1>3 DEF EmitNext

(* A socket goes on with its own hop limit, and a lowered one was only ever on *)
(* the writes it was meant for.                                             *)
THEOREM HopLimits == EmitSpec => []HopLimitRestored
<1>1. EmitSpec => []EmitInv
  BY InvInit, InvNext, PTL DEF EmitSpec
<1> QED BY <1>1, InvLimits, PTL

(* The name is where the plan promises it, and so it is sent.               *)
THEOREM NamesAreHidden == EmitSpec => []NameIsHidden
<1>1. EmitSpec => []EmitInv
  BY InvInit, InvNext, PTL DEF EmitSpec
<1> QED BY <1>1, InvHidden, PTL

-----------------------------------------------------------------------------
(* What is sent is the payload.                                             *)

LEMMA BeginsJoin ==
    ASSUME NEW s \in Seq(Int), NEW t \in Seq(Int)
    PROVE  Begins(s, s \o t)
<1>1. /\ Len(s) \in Nat /\ Len(t) \in Nat /\ Len(s \o t) = Len(s) + Len(t)
      /\ \A i \in 1..Len(s) + Len(t) : (s \o t)[i] = IF i <= Len(s) THEN s[i] ELSE t[i - Len(s)]
  BY JoinedIs
<1>2. \A i \in 1..Len(s) : i \in 1..Len(s) + Len(t) /\ i <= Len(s)
  BY <1>1
<1>3. Len(s) <= Len(s \o t)
  BY <1>1
<1> QED BY <1>1, <1>2, <1>3 DEF Begins

LEMMA BeginsMore ==
    ASSUME NEW s \in Seq(Int), NEW t \in Seq(Int), NEW u \in Seq(Int), Begins(t, u)
    PROVE  Begins(s \o t, s \o u)
<1>1. /\ Len(s) \in Nat /\ Len(t) \in Nat /\ Len(s \o t) = Len(s) + Len(t)
      /\ \A i \in 1..Len(s) + Len(t) : (s \o t)[i] = IF i <= Len(s) THEN s[i] ELSE t[i - Len(s)]
  BY JoinedIs
<1>2. /\ Len(u) \in Nat /\ Len(s \o u) = Len(s) + Len(u)
      /\ \A i \in 1..Len(s) + Len(u) : (s \o u)[i] = IF i <= Len(s) THEN s[i] ELSE u[i - Len(s)]
  BY JoinedIs
<1>3. Len(t) <= Len(u) /\ \A i \in 1..Len(t) : t[i] = u[i]
  BY DEF Begins
<1>4. Len(s \o t) <= Len(s \o u)
  BY <1>1, <1>2, <1>3
<1>5. ASSUME NEW i \in 1..Len(s) + Len(t) PROVE (s \o t)[i] = (s \o u)[i]
  <2>1. i \in 1..Len(s) + Len(u) /\ (~(i <= Len(s)) => i - Len(s) \in 1..Len(t))
    BY <1>1, <1>2, <1>3
  <2> QED BY <1>1, <1>2, <1>3, <2>1
<1> QED BY <1>1, <1>4, <1>5 DEF Begins

LEMMA BeginsOn ==
    ASSUME NEW s \in Seq(Int), NEW t \in Seq(Int), NEW u \in Seq(Int), Begins(s, t), Begins(t, u)
    PROVE  Begins(s, u)
<1>1. Len(s) \in Nat /\ Len(t) \in Nat /\ Len(u) \in Nat
  BY LenProperties
<1>2. /\ Len(s) <= Len(t) /\ (\A i \in 1..Len(s) : s[i] = t[i])
      /\ Len(t) <= Len(u) /\ \A i \in 1..Len(t) : t[i] = u[i]
  BY DEF Begins
<1>3. \A i \in 1..Len(s) : i \in 1..Len(t)
  BY <1>1, <1>2
<1>4. Len(s) <= Len(u)
  BY <1>1, <1>2
<1> QED BY <1>2, <1>3, <1>4 DEF Begins

(* Two writes made one carry the same bytes.                                *)
LEMMA MergeLastStream ==
    ASSUME NEW segs \in Seq(Segment)
    PROVE  MergeLast(segs) \in Seq(Segment) /\ StreamBytes(MergeLast(segs)) = StreamBytes(segs)
<1> DEFINE L == Len(segs)
           pairs == {i \in 2..L : Mergeable(segs[i - 1], segs[i])}
           j == Max(pairs)
           x == segs[j - 1]
           y == segs[j]
           front == SubSeq(segs, 1, j - 2)
           mid == [x EXCEPT !.data = @ \o y.data]
           back == SubSeq(segs, j + 1, L)
           t == (front \o <<mid>>) \o back
<1>1. MergeLast(segs) = IF pairs = {} THEN segs ELSE t
  BY DEF MergeLast
<1>2. L \in Nat /\ \A i \in 1..L : segs[i] \in Segment
  BY LenProperties, ElementOfSeq
<1>3. CASE pairs = {}
  BY <1>1, <1>3
<1>4. CASE pairs # {}
  <2>1. j \in pairs
    <3>1. pairs \in SUBSET (1..L)
      BY <1>2
    <3> HIDE DEF pairs
    <3> QED BY <1>2, <1>4, <3>1, GreatestOf
  <2> HIDE DEF j
  <2>2. j \in 2..L /\ j - 1 \in 1..L /\ j \in 1..L /\ j \in Int /\ j <= L
    BY <1>2, <2>1
  <2>3. x \in Segment /\ y \in Segment /\ x.kind = "stream" /\ y.kind = "stream"
    BY <1>2, <2>1, <2>2 DEF Mergeable
  <2>4. segs = ((front \o <<x>>) \o <<y>>) \o back
    <3>1. SubSeq(segs, 1, L) = segs
      BY SubSeqFull
    <3>2. SubSeq(segs, 1, j) \o SubSeq(segs, j + 1, L) = SubSeq(segs, 1, L)
      <4>1. PICK a, k, n : a = 1 /\ k = j /\ n = L
        OBVIOUS
      <4>2. a \in 1..Len(segs) + 1 /\ k \in a - 1..Len(segs) /\ n \in k..Len(segs)
        BY <1>2, <2>2, <4>1
      <4>3. SubSeq(segs, a, k) \o SubSeq(segs, k + 1, n) = SubSeq(segs, a, n)
        BY <4>2, ConcatAdjacentSubSeq
      <4> QED BY <4>1, <4>3
    <3>3. ASSUME NEW n \in 1..L
          PROVE  SubSeq(segs, 1, n) = SubSeq(segs, 1, n - 1) \o <<segs[n]>>
      <4>1. PICK a : a = 1
        OBVIOUS
      <4>2. a \in 1..Len(segs) /\ n \in a..Len(segs)
        BY <1>2, <4>1
      <4>3. SubSeq(segs, a, n) = SubSeq(segs, a, n - 1) \o <<segs[n]>>
        BY <4>2, SubSeqRecursiveSecond
      <4> QED BY <4>1, <4>3
    <3>4. (j - 1) - 1 = j - 2
      BY <2>2
    <3>5. SubSeq(segs, 1, j) = SubSeq(segs, 1, j - 1) \o <<y>>
      BY <2>2, <3>3
    <3>6. SubSeq(segs, 1, j - 1) = SubSeq(segs, 1, j - 2) \o <<x>>
      BY <2>2, <3>3, <3>4
    <3> QED BY <3>1, <3>2, <3>5, <3>6
  <2>5. front \in Seq(Segment) /\ back \in Seq(Segment)
    <3>1. PICK e, a : e = j - 2 /\ a = j + 1
      OBVIOUS
    <3>2. e \in Int /\ e <= Len(segs) /\ a \in Nat \ {0} /\ L \in Int /\ L <= Len(segs)
          /\ 1 \in Nat \ {0}
      BY <1>2, <2>2, <3>1
    <3>3. SubSeq(segs, 1, e) \in Seq(Segment)
      BY <3>2, PartOf
    <3>4. SubSeq(segs, a, L) \in Seq(Segment)
      BY <3>2, PartOf
    <3> QED BY <3>1, <3>3, <3>4
  <2>6. mid \in Segment /\ mid.kind = "stream" /\ mid.data = x.data \o y.data
    <3>1. x.data \in Seq(Int) /\ y.data \in Seq(Int)
      BY <2>3 DEF Segment
    <3>2. PICK u, v : u = x /\ v = y.data
      OBVIOUS
    <3>3. u.data \o v \in Seq(Int) /\ u \in Segment /\ u.kind = "stream"
      BY <2>3, <3>1, <3>2, ConcatProperties
    <3>4. mid = [u EXCEPT !.data = @ \o v]
      BY <3>2
    <3> HIDE DEF mid
    <3>5. mid \in Segment /\ mid.kind = "stream" /\ mid.data = u.data \o v
      BY <3>3, <3>4 DEF Segment
    <3> QED BY <3>2, <3>5
  <2> HIDE DEF x, y, front, mid, back
  <2>7. PICK F, B : F = StreamBytes(front) /\ B = StreamBytes(back)
    OBVIOUS
  <2>8. F \in Seq(Int) /\ B \in Seq(Int) /\ x.data \in Seq(Int) /\ y.data \in Seq(Int)
    BY <2>3, <2>5, <2>7, StreamOf DEF Segment
  <2>9. \A z \in Segment : /\ <<z>> \in Seq(Segment)
                           /\ z.kind = "stream" => StreamBytes(<<z>>) = z.data
    <3> TAKE z \in Segment
    <3>1. <<z>> \in Seq(Segment)
      OBVIOUS
    <3>2. StreamBytes(<<z>>) = IF z.kind = "stream" THEN z.data ELSE <<>>
      BY StreamOne
    <3> QED BY <3>1, <3>2
  <2>10. t \in Seq(Segment) /\ StreamBytes(t) = (F \o (x.data \o y.data)) \o B
    <3>1. PICK o : o = <<mid>>
      OBVIOUS
    <3>2. o \in Seq(Segment) /\ StreamBytes(o) = x.data \o y.data
      BY <2>6, <2>9, <3>1
    <3>3. front \o o \in Seq(Segment) /\ StreamBytes(front \o o) = F \o (x.data \o y.data)
      BY <2>5, <2>7, <3>2, StreamBoth, ConcatProperties
    <3>4. PICK q : q = front \o o
      OBVIOUS
    <3>5. q \o back \in Seq(Segment) /\ StreamBytes(q \o back) = StreamBytes(q) \o B
      BY <2>5, <2>7, <3>3, <3>4, StreamBoth, ConcatProperties
    <3>6. t = q \o back
      BY <3>1, <3>4
    <3> QED BY <3>3, <3>4, <3>5, <3>6
  <2>11. StreamBytes(segs) = ((F \o x.data) \o y.data) \o B
    <3>1. PICK o, p : o = <<x>> /\ p = <<y>>
      OBVIOUS
    <3>2. o \in Seq(Segment) /\ p \in Seq(Segment) /\ StreamBytes(o) = x.data
          /\ StreamBytes(p) = y.data
      BY <2>3, <2>9, <3>1
    <3>3. front \o o \in Seq(Segment) /\ StreamBytes(front \o o) = F \o x.data
      BY <2>5, <2>7, <3>2, StreamBoth, ConcatProperties
    <3>4. PICK q : q = front \o o
      OBVIOUS
    <3>5. q \o p \in Seq(Segment) /\ StreamBytes(q \o p) = (F \o x.data) \o y.data
      BY <3>2, <3>3, <3>4, StreamBoth, ConcatProperties
    <3>6. PICK r : r = q \o p
      OBVIOUS
    <3>7. StreamBytes(r \o back) = StreamBytes(r) \o B
      BY <2>5, <2>7, <3>5, <3>6, StreamBoth
    <3>8. segs = r \o back
      BY <2>4, <3>1, <3>4, <3>6
    <3> QED BY <3>5, <3>6, <3>7, <3>8
  <2>12. (F \o x.data) \o y.data = F \o (x.data \o y.data)
    <3>1. PICK u, v : u = x.data /\ v = y.data
      OBVIOUS
    <3>2. F \in Seq(Int) /\ u \in Seq(Int) /\ v \in Seq(Int)
      BY <2>8, <3>1
    <3>3. (F \o u) \o v = F \o (u \o v)
      <4>1. AllOver(Int, F, u, v)
        BY <3>2 DEF AllOver
      <4>2. Regroups(F, u, v)
        BY <4>1, Regrouped
      <4> QED BY <4>2 DEF Regroups
    <3> QED BY <3>1, <3>3
  <2> HIDE DEF t
  <2> QED BY <1>1, <1>4, <2>10, <2>11, <2>12
<1> QED BY <1>3, <1>4

LEMMA CoalesceStream ==
    ASSUME NEW segs \in Seq(Segment), NEW max \in Nat
    PROVE  Coalesce(segs, max) \in Seq(Segment) /\ StreamBytes(Coalesce(segs, max)) = StreamBytes(segs)
<1>1. Len(segs) \in Nat
  BY LenProperties
<1> DEFINE X == {s \in Seq(Segment) : StreamBytes(s) = StreamBytes(segs)}
<1>2. Merges(X) /\ segs \in X
  BY MergeLastStream DEF Merges
<1>3. Coalesce(segs, max) \in X
  <2> HIDE DEF X
  <2> QED BY <1>1, <1>2, CoalesceIn
<1> QED BY <1>3

\* The payload of a plan is the client's message, and no more was sent, or is
\* yet to be, than that payload.
StreamOK(f) ==
    Planned(f) =>
        /\ Runs(plan[f].payload, 0, case[f].msg.have) /\ Framed(plan[f].payload)
        /\ pc[f] = "planned" => StreamBytes(plan[f].segs) = plan[f].payload
        /\ pc[f] = "sending" => StreamBytes(wire[f] \o left[f]) = plan[f].payload
        /\ pc[f] = "sent" => StreamBytes(wire[f]) = plan[f].payload
        /\ pc[f] = "failed" => Begins(StreamBytes(wire[f]), plan[f].payload)

StreamInv == EmitInv /\ \A f \in Flows : StreamOK(f)

(* A beginning of the writes carries a beginning of the bytes.              *)
LEMMA SentBegins ==
    ASSUME NEW w \in Seq(Segment), NEW l \in Seq(Segment)
    PROVE  Begins(StreamBytes(w), StreamBytes(w \o l)) /\ StreamBytes(w) \in Seq(Int)
<1>1. PICK s, t : s = StreamBytes(w) /\ t = StreamBytes(l)
  OBVIOUS
<1>2. s \in Seq(Int) /\ t \in Seq(Int) /\ StreamBytes(w \o l) = s \o t
  BY <1>1, StreamOf, StreamBoth
<1>3. Begins(s, s \o t)
  BY <1>2, BeginsJoin
<1> QED BY <1>1, <1>2, <1>3

(* What the runs check follows.                                             *)
LEMMA InvStream == StreamInv => StreamIsTheClients
<1> SUFFICES ASSUME StreamInv, NEW f \in Flows, Planned(f)
             PROVE  /\ Clients(OnWire(f), case[f].msg.have)
                    /\ Framed(OnWire(f))
                    /\ pc[f] = "sent" => AllOf(OnWire(f), case[f].msg.have)
  BY DEF StreamIsTheClients
<1>1. PICK w, l, p, c, n : /\ w = wire[f] /\ l = left[f] /\ p = plan[f] /\ c = case[f]
                           /\ n = c.msg.have
  OBVIOUS
<1>2. FlowOK(f) /\ StreamOK(f) /\ Shapes
  BY DEF StreamInv, EmitInv
<1>3. w \in Seq(Segment) /\ l \in Seq(Segment) /\ PlanOK(p, c)
      /\ pc[f] \in {"planned", "sending", "sent", "failed"}
  BY <1>1, <1>2 DEF FlowOK, Planned, Unsent, Finished
<1>4. n \in Nat
  <2>1. c \in CaseSet /\ WithinBody(c.msg)
    <3>1. case \in Cases /\ case[f] # Absent
      BY <1>2 DEF Shapes, FlowOK, Planned
    <3> QED BY <1>1, <3>1, CasesType
  <2> QED BY <1>1, <2>1 DEF CaseSet, Message
<1>5. p.payload \in Seq(Int) /\ Runs(p.payload, 0, n) /\ Framed(p.payload)
  BY <1>1, <1>2, <1>3 DEF StreamOK, PlanOK
<1>6. OnWire(f) = StreamBytes(w) /\ StreamBytes(w) \in Seq(Int)
  BY <1>1, <1>3, SentBegins DEF OnWire
<1>7. Begins(StreamBytes(w), p.payload) /\ (pc[f] = "sent" => StreamBytes(w) = p.payload)
  <2>1. CASE pc[f] = "planned"
    <3>1. w = <<>> /\ p.segs \in Seq(Segment) /\ StreamBytes(p.segs) = p.payload
      BY <1>1, <1>2, <1>3, <2>1 DEF FlowOK, Unsent, StreamOK, PlanOK
    <3>2. Begins(StreamBytes(w), StreamBytes(w \o p.segs)) /\ w \o p.segs = p.segs
      BY <1>3, <3>1, SentBegins, ConcatEmptySeq
    <3> QED BY <2>1, <3>1, <3>2
  <2>2. CASE pc[f] = "sending"
    <3>1. StreamBytes(w \o l) = p.payload
      BY <1>1, <1>2, <2>2 DEF StreamOK, Planned
    <3>2. Begins(StreamBytes(w), StreamBytes(w \o l))
      BY <1>3, SentBegins
    <3> QED BY <2>2, <3>1, <3>2
  <2>3. CASE pc[f] = "sent"
    <3>1. StreamBytes(w) = p.payload
      BY <1>1, <1>2, <2>3 DEF StreamOK, Planned
    <3>2. Len(p.payload) \in Nat
      BY <1>5, LenProperties
    <3>3. Begins(p.payload, p.payload)
      BY <3>2 DEF Begins
    <3> QED BY <3>1, <3>3
  <2>4. CASE pc[f] = "failed"
    BY <1>1, <1>2, <2>4 DEF StreamOK, Planned
  <2> QED BY <1>3, <2>1, <2>2, <2>3, <2>4
<1>8. Clients(StreamBytes(w), n) /\ Framed(StreamBytes(w))
  <2>1. PICK s, t : s = StreamBytes(w) /\ t = p.payload
    OBVIOUS
  <2>2. s \in Seq(Int) /\ t \in Seq(Int) /\ Begins(s, t) /\ Runs(t, 0, n) /\ Framed(t)
    BY <1>5, <1>6, <1>7, <2>1
  <2>3. Clients(s, n) /\ Framed(s)
    BY <1>4, <2>2, BeginningIs
  <2> QED BY <2>1, <2>3
<1>9. pc[f] = "sent" => AllOf(StreamBytes(w), n)
  <2>1. 0 + 1 = 1
    OBVIOUS
  <2> QED BY <1>5, <1>7, <2>1 DEF Runs, AllOf
<1> QED BY <1>1, <1>6, <1>8, <1>9

LEMMA StreamInit == EmitInit => StreamInv
<1> SUFFICES ASSUME EmitInit PROVE StreamInv
  OBVIOUS
<1>1. EmitInv
  BY InvInit
<1>2. \A f \in Flows : ~Planned(f)
  BY DEF EmitInit, Planned
<1> QED BY <1>1, <1>2 DEF StreamInv, StreamOK

LEMMA StreamUnmoved ==
    ASSUME NEW g, StreamOK(g), Same(g)
    PROVE  StreamOK(g)'
BY DEF StreamOK, Same, Planned

(* A plan that was accepted carries its payload, and that the message.      *)
LEMMA CompileCarries ==
    ASSUME StreamInv, NEW f \in Flows, Compile(f)
    PROVE  StreamOK(f)'
<1> DEFINE c == case[f]
           b == BuildWith(c)
           ok == Compiles(c.spec) /\ ~b.bad /\ Validate(b.payload, Schedule(b))
           p == [payload |-> b.payload, segs |-> Schedule(b), meta |-> b.meta,
                 reframed |-> b.reframed]
<1>1. Shapes /\ FlowOK(f) /\ pc[f] = "start" /\ c # Absent
  BY DEF StreamInv, EmitInv, FlowOK, Compile
<1>2. c \in CaseSet /\ GoodMessage(c.msg)
  <2>1. c \in CaseSet /\ WithinBody(c.msg)
    BY <1>1, CasesType DEF Shapes
  <2> QED BY <2>1 DEF CaseSet, GoodMessage
<1>3. /\ pc'[f] = IF ok THEN "planned" ELSE "refused"
      /\ ok => plan'[f] = p
      /\ case'[f] = c
  BY <1>1 DEF Compile, Shapes
<1>4. ok => Faithful(c.msg, b.payload) /\ StreamBytes(Schedule(b)) = b.payload
  BY <1>2, BuildOK DEF Validate
<1>5. ok => /\ Runs(p.payload, 0, c.msg.have) /\ Framed(p.payload)
            /\ StreamBytes(p.segs) = p.payload
  BY <1>4 DEF Faithful
<1> HIDE DEF ok, p, c
<1>6. CASE ok
  BY <1>3, <1>5, <1>6 DEF StreamOK, Planned
<1>7. CASE ~ok
  BY <1>3, <1>7 DEF StreamOK, Planned
<1> QED BY <1>6, <1>7

(* The governor takes no byte of it away.                                   *)
LEMMA ReserveCarries ==
    ASSUME StreamInv, NEW f \in Flows, Reserve(f)
    PROVE  StreamOK(f)'
<1> DEFINE c == case[f]
           p == plan[f]
           n == Len(p.segs)
           granted == IF ~case[f].strict /\ n > 1 THEN Granted(n) ELSE n
           l == IF granted < n THEN Coalesce(p.segs, granted) ELSE p.segs
<1>1. Shapes /\ FlowOK(f) /\ StreamOK(f) /\ pc[f] = "planned" /\ PlanOK(p, c)
  BY DEF StreamInv, EmitInv, FlowOK, Reserve, Planned
<1>2. wire[f] = <<>> /\ StreamBytes(p.segs) = p.payload /\ p.segs \in Seq(Segment)
      /\ Runs(p.payload, 0, c.msg.have) /\ Framed(p.payload)
  BY <1>1 DEF FlowOK, Unsent, StreamOK, Planned, PlanOK
<1>3. /\ plan'[f] = p /\ case'[f] = c /\ wire'[f] = <<>>
      /\ pc'[f] = "failed" \/ (pc'[f] = "sending" /\ left'[f] = l)
  BY <1>1, <1>2 DEF Reserve, Shapes
<1>4. l \in Seq(Segment) /\ StreamBytes(l) = p.payload
  <2>1. n \in Nat /\ tokens \in Int
    BY <1>1, <1>2, LenProperties DEF Shapes
  <2>2. granted \in Nat
    <3>1. Granted(n) \in Nat
      <4> HIDE DEF n
      <4> QED BY <2>1, GrantedIs
    <3> QED BY <2>1, <3>1
  <2> HIDE DEF granted, n
  <2>3. PICK segs : segs = p.segs
    OBVIOUS
  <2>4. /\ Coalesce(segs, granted) \in Seq(Segment)
        /\ StreamBytes(Coalesce(segs, granted)) = StreamBytes(segs)
    BY <1>2, <2>2, <2>3, CoalesceStream
  <2> QED BY <1>2, <2>3, <2>4
<1> HIDE DEF l
<1>5. <<>> \o l = l /\ <<>> \in Seq(Segment)
  BY <1>4, ConcatEmptySeq, EmptySeq
<1>6. Begins(StreamBytes(<<>>), p.payload)
  BY <1>4, <1>5, SentBegins
<1> HIDE DEF p, c
<1>7. CASE pc'[f] = "failed"
  BY <1>2, <1>3, <1>6, <1>7 DEF StreamOK, Planned
<1>8. CASE pc'[f] = "sending" /\ left'[f] = l
  BY <1>2, <1>3, <1>4, <1>5, <1>8 DEF StreamOK, Planned
<1> QED BY <1>3, <1>7, <1>8

(* A write moves from what is left to the wire.                             *)
LEMMA EmitCarries ==
    ASSUME StreamInv, NEW f \in Flows, EmitSegment(f)
    PROVE  StreamOK(f)'
<1> DEFINE c == case[f]
           p == plan[f]
           w == wire[f]
           l == left[f]
           seg == Head(l)
<1>1. /\ Shapes /\ FlowOK(f) /\ pc[f] = "sending" /\ l # <<>> /\ PlanOK(p, c)
      /\ w \in Seq(Segment) /\ l \in Seq(Segment) /\ Going(w \o l, p, c)
  BY DEF StreamInv, EmitInv, FlowOK, EmitSegment, Planned
<1>2. /\ StreamBytes(w \o l) = p.payload
      /\ Runs(p.payload, 0, c.msg.have) /\ Framed(p.payload)
  <2>1. StreamOK(f)
    BY DEF StreamInv
  <2> QED BY <1>1, <2>1 DEF StreamOK, Planned
<1>3. /\ plan'[f] = p /\ case'[f] = c /\ pc'[f] = "sending"
      /\ wire'[f] = Append(w, [seg EXCEPT !.ttl = seg.ttl]) /\ left'[f] = Tail(l)
  BY <1>1 DEF EmitSegment, Hop, Shapes
<1> HIDE DEF c, p, w, l, seg
<1>4. Append(w, seg) \o Tail(l) = w \o l /\ seg \in Segment
  <2>1. Append(w, Head(l)) \o Tail(l) = w \o l /\ Head(l) \in Segment
    BY <1>1, GoingOn
  <2> QED BY <2>1 DEF seg
<1>5. [seg EXCEPT !.ttl = seg.ttl] = seg
  BY <1>4 DEF Segment
<1>6. wire'[f] \o left'[f] = w \o l
  BY <1>3, <1>4, <1>5
<1> QED BY <1>2, <1>3, <1>6 DEF StreamOK, Planned

(* The sender stops, at the end or before it.                               *)
LEMMA StopCarries ==
    ASSUME StreamInv, NEW f \in Flows, Abort(f) \/ Sent(f)
    PROVE  StreamOK(f)'
<1>1. PICK w, l, p, c : w = wire[f] /\ l = left[f] /\ p = plan[f] /\ c = case[f]
  OBVIOUS
<1>2. Shapes /\ FlowOK(f) /\ StreamOK(f) /\ pc[f] = "sending"
  BY DEF StreamInv, EmitInv, Abort, Sent
<1>3. /\ w \in Seq(Segment) /\ l \in Seq(Segment) /\ StreamBytes(w \o l) = p.payload
      /\ Runs(p.payload, 0, c.msg.have) /\ Framed(p.payload)
  BY <1>1, <1>2 DEF FlowOK, StreamOK, Planned
<1>4. /\ plan'[f] = p /\ case'[f] = c /\ wire'[f] = w
      /\ pc'[f] = "failed" \/ (pc'[f] = "sent" /\ l = <<>>)
  BY <1>1, <1>2 DEF Abort, Sent, Shapes
<1>5. CASE pc'[f] = "failed"
  <2>1. Begins(StreamBytes(w), p.payload)
    BY <1>3, SentBegins
  <2> QED BY <1>3, <1>4, <1>5, <2>1 DEF StreamOK, Planned
<1>6. CASE pc'[f] = "sent" /\ l = <<>>
  <2>1. w \o l = w
    BY <1>3, <1>6, ConcatEmptySeq
  <2> QED BY <1>3, <1>4, <1>6, <2>1 DEF StreamOK, Planned
<1> QED BY <1>4, <1>5, <1>6

(* A write that is cut short carries the beginning of its bytes.            *)
LEMMA ShortCarries ==
    ASSUME StreamInv, NEW f \in Flows, ShortWrite(f)
    PROVE  StreamOK(f)'
<1> DEFINE c == case[f]
           p == plan[f]
           w == wire[f]
           l == left[f]
           seg == Head(l)
<1>1. /\ Shapes /\ FlowOK(f) /\ pc[f] = "sending" /\ l # <<>> /\ PlanOK(p, c)
      /\ w \in Seq(Segment) /\ l \in Seq(Segment) /\ Going(w \o l, p, c)
  BY DEF StreamInv, EmitInv, FlowOK, ShortWrite, Planned
<1>2. /\ StreamBytes(w \o l) = p.payload /\ p.payload \in Seq(Int)
      /\ Runs(p.payload, 0, c.msg.have) /\ Framed(p.payload)
  <2>1. StreamOK(f)
    BY DEF StreamInv
  <2> QED BY <1>1, <2>1 DEF StreamOK, Planned, PlanOK
<1>3. PICK n \in 0..(Len(seg.data) - 1) :
        wire'[f] = Append(w, [seg EXCEPT !.data = SubSeq(@, 1, n), !.ttl = seg.ttl])
  BY <1>1 DEF ShortWrite, Hop, Shapes
<1>4. plan'[f] = p /\ case'[f] = c /\ pc'[f] = "failed"
  BY <1>1 DEF ShortWrite, Shapes
<1> DEFINE part == [seg EXCEPT !.data = SubSeq(@, 1, n), !.ttl = seg.ttl]
<1> HIDE DEF c, p, w, l, seg
<1>5. /\ Append(w, seg) \o Tail(l) = w \o l /\ seg \in Segment /\ Tail(l) \in Seq(Segment)
      /\ Append(w, seg) \in Seq(Segment)
  <2>1. /\ Append(w, Head(l)) \o Tail(l) = w \o l /\ Head(l) \in Segment
        /\ Tail(l) \in Seq(Segment) /\ Append(w, Head(l)) \in Seq(Segment)
    BY <1>1, GoingOn
  <2> QED BY <2>1 DEF seg
<1>6. PICK x, y : x = seg.data /\ y = SubSeq(x, 1, n)
  OBVIOUS
<1>7. x \in Seq(Int) /\ y \in Seq(Int) /\ Begins(y, x)
  <2>1. x \in Seq(Int) /\ Len(x) \in Nat /\ n \in Int /\ n <= Len(x) /\ 0 <= n
    BY <1>3, <1>5, <1>6, LenProperties DEF Segment
  <2>2. PICK a \in Nat \ {0} : a = 1
    OBVIOUS
  <2>3. /\ SubSeq(x, a, n) \in Seq(Int)
        /\ Len(SubSeq(x, a, n)) = IF a <= n THEN (n - a) + 1 ELSE 0
        /\ \A i \in 1..Len(SubSeq(x, a, n)) : SubSeq(x, a, n)[i] = x[(a + i) - 1]
    BY <2>1, <2>2, PartOf
  <2>4. y \in Seq(Int) /\ Len(y) = n /\ \A i \in 1..n : y[i] = x[(1 + i) - 1]
    <3>1. (IF a <= n THEN (n - a) + 1 ELSE 0) = n
      BY <2>1, <2>2
    <3> QED BY <1>6, <2>2, <2>3, <3>1
  <2>5. \A i \in 1..n : (1 + i) - 1 = i
    BY <2>1
  <2> QED BY <2>1, <2>4, <2>5 DEF Begins
<1>8. part \in Segment /\ part.kind = seg.kind /\ part.data = y
  <2>1. part = [seg EXCEPT !.data = y, !.ttl = seg.ttl]
    BY <1>6
  <2> HIDE DEF part
  <2> QED BY <1>5, <1>7, <2>1 DEF Segment
<1>9. wire'[f] = Append(w, part)
  BY <1>3
<1> HIDE DEF part
<1>10. ASSUME NEW z \in Segment
       PROVE  /\ StreamBytes(Append(w, z)) = StreamBytes(w) \o (IF z.kind = "stream" THEN z.data ELSE <<>>)
              /\ Append(w, z) \in Seq(Segment)
  <2>1. Append(w, z) = w \o <<z>> /\ Append(w, z) \in Seq(Segment) /\ <<z>> \in Seq(Segment)
    BY <1>1, AppendIsConcat, AppendProperties
  <2>2. StreamBytes(<<z>>) = IF z.kind = "stream" THEN z.data ELSE <<>>
    BY StreamOne
  <2>3. PICK o : o = <<z>>
    OBVIOUS
  <2>4. StreamBytes(w \o o) = StreamBytes(w) \o StreamBytes(o)
    BY <1>1, <2>1, <2>3, StreamBoth
  <2> QED BY <2>1, <2>2, <2>3, <2>4
<1>11. Begins(StreamBytes(Append(w, seg)), p.payload) /\ StreamBytes(Append(w, seg)) \in Seq(Int)
  <2>1. PICK v, r : v = Append(w, seg) /\ r = Tail(l)
    OBVIOUS
  <2>2. v \in Seq(Segment) /\ r \in Seq(Segment) /\ StreamBytes(v \o r) = p.payload
    BY <1>2, <1>5, <2>1
  <2> QED BY <2>1, <2>2, SentBegins
<1>12. Begins(StreamBytes(Append(w, part)), StreamBytes(Append(w, seg)))
       /\ StreamBytes(Append(w, part)) \in Seq(Int)
  <2>1. StreamBytes(Append(w, part)) \in Seq(Int)
    <3>1. Append(w, part) \in Seq(Segment)
      BY <1>8, <1>10
    <3> QED BY <3>1, StreamOf
  <2>2. CASE seg.kind = "stream"
    <3>1. PICK u : u = StreamBytes(w)
      OBVIOUS
    <3>2. u \in Seq(Int)
      BY <1>1, <3>1, StreamOf
    <3>3. Begins(u \o y, u \o x)
      BY <1>7, <3>2, BeginsMore
    <3>4. StreamBytes(Append(w, part)) = u \o y /\ StreamBytes(Append(w, seg)) = u \o x
      BY <1>5, <1>6, <1>8, <1>10, <2>2, <3>1
    <3> QED BY <2>1, <3>3, <3>4
  <2>3. CASE seg.kind # "stream"
    <3>1. StreamBytes(Append(w, part)) = StreamBytes(Append(w, seg))
      BY <1>5, <1>8, <1>10, <2>3
    <3>2. PICK v : v = StreamBytes(Append(w, part))
      OBVIOUS
    <3>3. Len(v) \in Nat
      BY <2>1, <3>2, LenProperties
    <3>4. Begins(v, v)
      BY <3>3 DEF Begins
    <3> QED BY <2>1, <3>1, <3>2, <3>4
  <2> QED BY <2>2, <2>3
<1>13. Begins(StreamBytes(Append(w, part)), p.payload)
  <2>1. PICK s, t, u : /\ s = StreamBytes(Append(w, part)) /\ t = StreamBytes(Append(w, seg))
                       /\ u = p.payload
    OBVIOUS
  <2>2. s \in Seq(Int) /\ t \in Seq(Int) /\ u \in Seq(Int) /\ Begins(s, t) /\ Begins(t, u)
    BY <1>2, <1>11, <1>12, <2>1
  <2>3. Begins(s, u)
    BY <2>2, BeginsOn
  <2> QED BY <2>1, <2>3
<1> QED BY <1>2, <1>4, <1>9, <1>13 DEF StreamOK, Planned

LEMMA StreamNext == StreamInv /\ [EmitNext]_emitVars => StreamInv'
<1> SUFFICES ASSUME StreamInv, [EmitNext]_emitVars PROVE StreamInv'
  OBVIOUS
<1>1. EmitInv /\ EmitInv'
  BY InvNext DEF StreamInv
<1>2. ASSUME NEW f \in Flows, Compile(f) \/ Send(f), NEW g \in Flows PROVE StreamOK(g)'
  <2>1. CASE g = f
    <3>1. StreamOK(f)'
      BY <1>2, CompileCarries, ReserveCarries, EmitCarries, StopCarries, ShortCarries DEF Send
    <3> QED BY <2>1, <3>1
  <2>2. CASE g # f
    <3>1. Same(g) /\ StreamOK(g)
      BY <1>1, <1>2, <2>2, Others DEF StreamInv
    <3> QED BY <3>1, StreamUnmoved
  <2> QED BY <2>1, <2>2
<1>3. ASSUME UNCHANGED <<case, pc, plan, left, hop, stuck, wire>>, NEW g \in Flows
      PROVE  StreamOK(g)'
  BY <1>3 DEF StreamInv, StreamOK, Planned
<1>4. \A g \in Flows : StreamOK(g)'
  BY <1>2, <1>3 DEF EmitNext, Refill, emitVars
<1> QED BY <1>1, <1>4 DEF StreamInv

(* Whatever is rewritten, cut, coalesced or broken off, the peer is sent in band *)
(* the client's message from its start, in sound records, and by a send that   *)
(* succeeded all of it.                                                     *)
THEOREM StreamIsClients == EmitSpec => []StreamIsTheClients
<1>1. EmitSpec => []StreamInv
  BY StreamInit, StreamNext, PTL DEF EmitSpec
<1> QED BY <1>1, InvStream, PTL

=============================================================================
