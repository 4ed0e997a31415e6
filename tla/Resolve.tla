------------------------------ MODULE Resolve -------------------------------
(***************************************************************************)
(* The resolver chain (internal/resolve): questions asked concurrently by  *)
(* dpb itself and by other processes (through the local DNS server), each   *)
(* walking the configured resolvers under a deadline divided among them;   *)
(* the answer cache; the poison detector, which needs several names before *)
(* it can condemn an address; the withdrawal of what was cached when it     *)
(* does, or when the machine moves to another network; the AAAA policy and  *)
(* its memoised NAT64 probe; the reverse map.                              *)
(*                                                                         *)
(* Mutexes are held for single steps, so every place between two of them   *)
(* is a place where another question, a flush or a move can come.  The      *)
(* NAT64 probe is the exception: its mutex is held across a whole walk.     *)
(*                                                                         *)
(* A walk carries the seconds of its deadline it has not spent.  Lifetimes   *)
(* (of cached answers, of what the detector counted, of the memo) are not   *)
(* counted: what is held may expire at any later moment.  What the code      *)
(* drops when it next meets it past its time is dropped when it expires.     *)
(* The reverse map, which only remembers what is accepted here, is left out. *)
(***************************************************************************)
EXTENDS Naturals, Integers, Sequences, FiniteSets

CONSTANTS
    Asks,        \* goroutines that may be in a question at once
    Questions,   \* the <<name, type>> pairs asked; type "A" or "AAAA"
    Workloads,   \* what may happen in a behaviour: [may |-> the questions of each
                 \* goroutine, timed |-> those whose context has a deadline,
                 \* moves |-> bound: changes of network]
    Served,      \* goroutines of the local DNS server; the others are dpb's own
    Empty,       \* questions whose true answer has no record
    Lies,        \* Lies[q]: what a censor answers, "sinkhole" or "uniform"
    Probes,      \* names the detector counts: known to be blocked
    NatProbe,    \* ipv4only.arpa
    Rungs,       \* the chain: a sequence of "enc" and "plain"
    Nets, Start, Censored, Nat64Nets, V4Nets,  \* networks; where it may start; those that lie in
                 \* plaintext,
                 \* those with DNS64, those with an IPv4 path
    Quorum,      \* names that must share an answer to condemn it
    PerTry, Deadline,      \* seconds
    CacheMax, SetCap,
    InFlightMax, \* served questions in flight
    V6Protected, V6Host,  \* is IPv6 carried by this run; has the host any
    None

Types == {"A", "AAAA"}
\* An address stands for the whole answer: honest, the known sinkhole, the one
\* address a censor uses for everything and nobody knows yet, a DNS64 synthesis.
Honest(n, t) == <<"honest", n, t>>
Sinkhole(t)  == <<"sinkhole", NatProbe, t>>
Uniform(t)   == <<"uniform", NatProbe, t>>
Synth64      == <<"synth64", NatProbe, "AAAA">>
Addrs  == {Honest(q[1], q[2]) : q \in Questions} \cup {Synth64}
          \cup {Sinkhole(t) : t \in Types} \cup {Uniform(t) : t \in Types}
Answer == [addr: Addrs \cup {None}, trunc: BOOLEAN]
Names  == {q[1] : q \in Questions}

ASSUME QuestionsType == \A q \in Questions : q[2] \in Types /\ q[1] # NatProbe
ASSUME ChainType == Rungs \in Seq({"enc", "plain"})
ASSUME NoneIsNoAnswer == None \notin Answer
ASSUME ServedAsks == Served \subseteq Asks
ASSUME StartType == Start \subseteq Nets
ASSUME QuorumType == Quorum \in Nat \ {0}
ASSUME BudgetType == PerTry \in Nat \ {0} /\ Deadline \in Nat
ASSUME CapsAreNat == {CacheMax, SetCap, InFlightMax} \subseteq Nat
ASSUME EmptyQuestions == Empty \subseteq Questions
ASSUME LiesType == Lies \in [Questions -> SUBSET {"sinkhole", "uniform"}]
ASSUME WorkloadsType == Workloads \subseteq [may: [Asks -> SUBSET Questions], timed: SUBSET Asks, moves: Nat]

Steps == {"idle", "decide", "lock", "probed", "cache", "rung", "sent", "check",
          "learn", "recheck", "mark", "flush", "put", "done"}

VARIABLES
    work,      \* the workload of this behaviour
    net,       \* where the machine is
    believed,  \* the network whose answers the cache may hold
    moves,
    cache,     \* cache[q]: None, or [addr, from]
    sets,      \* the detector: the names counted for each answer
    caught,    \* poisonSeen
    v6poison,  \* aaaaPolicy.v6Poisoned
    nat,       \* the memoised probe: None when stale, or its outcome
    natMu,     \* who holds it
    ask,       \* ask[a]: the question a is in
    passed     \* passed[x]: probe names answer x was accepted for (history)

mem  == <<work, cache, sets, caught, v6poison, nat, natMu>>
vars == <<net, believed, moves, mem, ask, passed>>

Idle == [pc |-> "idle", q |-> None, nat64 |-> FALSE,
         i |-> 1, only |-> FALSE, trunc |-> None, left |-> 0, try |-> 0,
         ans |-> None, from |-> None, tried |-> {}, gone |-> FALSE]

Init ==
    /\ work \in Workloads
    /\ net \in Start /\ believed = net /\ moves = 0
    /\ cache = [q \in Questions |-> None]
    /\ sets = [x \in Addrs |-> {}]
    /\ caught = {}
    /\ v6poison = FALSE
    /\ nat = None
    /\ natMu = None
    /\ ask = [a \in Asks |-> Idle]
    /\ passed = [x \in Addrs |-> {}]

-----------------------------------------------------------------------------
(* Helpers.                                                                *)

To(a, step) == ask' = [ask EXCEPT ![a].pc = step]

\* The end of a question: what the caller gets, and what was asked to get it.
Answered(a, ans) ==
    ask' = [ask EXCEPT ![a] = [Idle EXCEPT !.pc = "done", !.q = ask[a].q,
             !.ans = ans, !.gone = ask[a].gone,
             !.tried = IF ans = None THEN ask[a].tried ELSE {}]]

NameOf(a) == IF ask[a].nat64 THEN NatProbe ELSE ask[a].q[1]
Plain(i)  == Rungs[i] = "plain"
HasEncrypted == \E i \in DOMAIN Rungs : ~Plain(i)

\* A context is over when its caller went away or its deadline passed.
CtxDone(a) == ask[a].gone \/ (a \in work.timed /\ ask[a].left = 0)

\* A plaintext rung is not asked again once one has truncated.
Eligible(w, i) == IF w.only THEN ~Plain(i) ELSE ~(w.trunc # None /\ Plain(i))

\* (mutant of rungBudget: the first rung may have a whole try)
rungBudgetGreedy(remaining, rungsLeft) == IF remaining < PerTry THEN remaining ELSE PerTry

\* The remaining time divided among the rungs that are left, at most PerTry.
rungBudget(remaining, rungsLeft) ==
    IF remaining <= 0 THEN 0
    ELSE LET share == remaining \div (IF rungsLeft < 1 THEN 1 ELSE rungsLeft)
         IN  IF share < PerTry THEN share ELSE PerTry

\* SynthEmpty: no error and no record.
NoRecord == [addr |-> None, trunc |-> FALSE]

Emptied == [q \in Questions |-> None]

\* What a network answers to question q on a rung: encrypted resolvers are
\* honest, a censor rewrites plaintext, plaintext may be cut short.
Truth(n, q) ==
    IF q[1] = NatProbe THEN {None} \cup (IF n \in Nat64Nets THEN {Synth64} ELSE {})
    ELSE IF q \in Empty THEN {None} ELSE {Honest(q[1], q[2])}
Censor(n, q) ==
    IF n \in Censored /\ q \in Questions THEN {<<lie, NatProbe, q[2]>> : lie \in Lies[q]} ELSE {}
Says(n, i, q) ==
    [addr: Truth(n, q) \cup (IF Plain(i) THEN Censor(n, q) ELSE {}), trunc: {FALSE}]
    \cup (IF Plain(i) THEN [addr: Truth(n, q), trunc: {TRUE}] ELSE {})

-----------------------------------------------------------------------------
(* A question arrives: from dpb's own dials, or, if a slot is free, from the *)
(* local DNS server.  AAAA is first a matter of policy.                     *)


\* dispatch: the local server's limit; a question over it is dropped unanswered.
Slot(a) == a \in Served => Cardinality({b \in Served : ask[b].pc # "idle"}) < InFlightMax

Ask(a, q) ==
    /\ ask[a].pc = "idle" /\ q \in work.may[a]
    /\ Slot(a)
    /\ ask' = [ask EXCEPT ![a] = [Idle EXCEPT !.q = q,
                !.pc = IF q[2] = "AAAA" THEN "decide" ELSE "cache",
                !.left = IF a \in work.timed THEN Deadline ELSE 0]]
    /\ UNCHANGED <<net, believed, moves, mem, passed>>

\* hasGlobalIPv4: is anything left to dial with if AAAA is withheld.
V4Path == net \in V4Nets
V6Reachable(a) == V6Protected \/ (a \notin Served /\ V6Host)
ReasonToSuppress(a) == v6poison \/ ~V6Reachable(a)

\* aaaaPolicy.decide, up to the probe: a reason, and something left to dial with.
Decide(a) ==
    /\ ask[a].pc = "decide"
    /\ To(a, IF ReasonToSuppress(a) /\ V4Path THEN "lock" ELSE "cache")
    /\ UNCHANGED <<net, believed, moves, mem, passed>>

\* nat64Cached under its mutex: the memo, or a walk with the mutex held.  The
\* context does not interrupt the wait, which spends its time.
Memo(a) ==
    /\ ask[a].pc = "lock" /\ natMu = None
    /\ \/ nat = TRUE  /\ To(a, "cache")
       \/ nat = FALSE /\ Answered(a, NoRecord)
    /\ UNCHANGED <<net, believed, moves, mem, passed>>

StartProbe(a) ==
    /\ ask[a].pc = "lock" /\ natMu = None
    /\ nat = None
    /\ natMu' = a
    /\ \E waited \in {0, ask[a].left} :
         ask' = [ask EXCEPT ![a].pc = "rung", ![a].nat64 = TRUE, ![a].left = @ - waited]
    /\ UNCHANGED <<work, net, believed, moves, cache, sets, caught, v6poison, nat, passed>>

\* (mutant of Probed: a probe without an answer leaves by an early return that
\* keeps the mutex)
ProbedKeepsMutex(a) ==
    /\ ask[a].pc = "probed"
    /\ ask[a].ans = None => Answered(a, NoRecord)
    /\ ask[a].ans # None => ask' = [ask EXCEPT ![a].pc = "cache", ![a].nat64 = FALSE, ![a].i = 1]
    /\ nat' = (IF ask[a].ans = None THEN nat ELSE ask[a].ans.addr = Synth64)
    /\ natMu' = (IF ask[a].ans = None THEN natMu ELSE None)
    /\ UNCHANGED <<work, net, believed, moves, cache, sets, caught, v6poison, passed>>

\* The probe's walk is over, answered or not: either way its result is kept.
Probed(a) ==
    /\ ask[a].pc = "probed"
    /\ LET yes == ask[a].ans # None /\ ask[a].ans.addr = Synth64
       IN  /\ nat' = yes
           /\ IF yes
              THEN ask' = [ask EXCEPT ![a] = [Idle EXCEPT !.pc = "cache", !.q = ask[a].q,
                            !.left = ask[a].left, !.gone = ask[a].gone]]
              ELSE Answered(a, NoRecord)
    /\ natMu' = None
    /\ UNCHANGED <<work, net, believed, moves, cache, sets, caught, v6poison, passed>>

-----------------------------------------------------------------------------
(* The cache, then the walk.                                               *)

CacheGet(a) ==
    /\ ask[a].pc = "cache"
    /\ LET hit == cache[ask[a].q]
       IN  IF hit # None THEN Answered(a, [addr |-> hit.addr, trunc |-> FALSE]) ELSE To(a, "rung")
    /\ UNCHANGED <<net, believed, moves, mem, passed>>

\* Where exchangeDirect's result goes: to the probe, or towards the cache.
Deliver(a, ans) ==
    IF ask[a].nat64 THEN ask' = [ask EXCEPT ![a].pc = "probed", ![a].ans = ans]
    ELSE IF ans = None THEN Answered(a, None)
    ELSE ask' = [ask EXCEPT ![a].pc = "put", ![a].ans = ans]

\* The walk returned nothing: once more over the encrypted rungs if a plaintext
\* one truncated, else the truncated answer, else an error.
WalkOver(a) ==
    LET w == ask[a]
    IN  IF w.trunc # None /\ HasEncrypted /\ ~w.only
        THEN ask' = [ask EXCEPT ![a].only = TRUE, ![a].i = 1]
        ELSE Deliver(a, w.trunc)

\* One turn of the loop over the resolvers, up to the sending of the question.
Rung(a) ==
    /\ ask[a].pc = "rung"
    /\ LET w == ask[a]
           budget == IF a \in work.timed
                     THEN rungBudget(w.left, Cardinality({j \in w.i..Len(Rungs) : Eligible(w, j)}))
                     ELSE PerTry
       IN  \/ (w.i > Len(Rungs) \/ CtxDone(a)) /\ WalkOver(a)
           \/ ~CtxDone(a) /\ ask' = [ask EXCEPT ![a].gone = TRUE]   \* the caller left
           \/ /\ w.i <= Len(Rungs) /\ ~CtxDone(a)
              /\ \/ ~Eligible(w, w.i) /\ ask' = [ask EXCEPT ![a].i = @ + 1]
                 \/ Eligible(w, w.i) /\ budget <= 0 /\ WalkOver(a)
                 \/ /\ Eligible(w, w.i) /\ budget > 0
                    /\ ask' = [ask EXCEPT ![a].pc = "sent", ![a].try = budget,
                                ![a].from = net, ![a].tried = @ \cup {w.i}]
    /\ UNCHANGED <<net, believed, moves, mem, passed>>

\* What the try cost: nothing worth counting, or all of it.
Spent(a) == IF a \in work.timed THEN {0, ask[a].try} ELSE {0}

\* Silence, a refusal, an unusable answer: on to the next resolver.
Fail(a) ==
    /\ ask[a].pc = "sent"
    /\ \E d \in Spent(a) :
         ask' = [ask EXCEPT ![a].pc = "rung", ![a].i = @ + 1, ![a].left = @ - d, ![a].try = 0,
                      ![a].from = None]
    /\ UNCHANGED <<net, believed, moves, mem, passed>>

\* A plaintext answer that was cut short is kept as a last resort.
Accept(a, ans, d) ==
    IF ans.trunc /\ Plain(ask[a].i)
    THEN ask' = [ask EXCEPT ![a].pc = "rung", ![a].i = @ + 1, ![a].trunc = ans,
                  ![a].left = @ - d, ![a].try = 0, ![a].ans = None, ![a].from = None]
    ELSE IF ask[a].nat64
         THEN ask' = [ask EXCEPT ![a].pc = "probed", ![a].ans = ans, ![a].left = @ - d, ![a].try = 0]
         ELSE ask' = [ask EXCEPT ![a].pc = "put", ![a].ans = ans, ![a].left = 0, ![a].try = 0]

\* An answer.  Without an address there is nothing to judge.
Receive(a) ==
    /\ ask[a].pc = "sent"
    /\ \E d \in Spent(a), ans \in Says(ask[a].from, ask[a].i,
                                    IF ask[a].nat64 THEN <<NatProbe, "AAAA">> ELSE ask[a].q) :
         \/ ans.addr = None /\ Accept(a, ans, d)
         \/ ans.addr # None
            /\ ask' = [ask EXCEPT ![a].pc = "check", ![a].ans = ans, ![a].left = @ - d, ![a].try = 0]
    /\ UNCHANGED <<net, believed, moves, mem, passed>>

-----------------------------------------------------------------------------
(* The detector: check, count, check again, each under its mutex.          *)

IsSinkhole(x) == x[1] = "sinkhole"
Condemned(x) == Cardinality(sets[x]) >= Quorum

Check(a) ==
    /\ ask[a].pc = "check"
    /\ LET x == ask[a].ans.addr
       IN  To(a, IF IsSinkhole(x) \/ Condemned(x) THEN "mark" ELSE "learn")
    /\ UNCHANGED <<net, believed, moves, mem, passed>>

\* Only the names known to be blocked are counted, and only while there is room.
Learn(a) ==
    /\ ask[a].pc = "learn"
    /\ LET x == ask[a].ans.addr
           room == sets[x] # {} \/ Cardinality({y \in Addrs : sets[y] # {}}) < SetCap
       IN  sets' = IF NameOf(a) \in Probes /\ room
                   THEN [sets EXCEPT ![x] = @ \cup {NameOf(a)}] ELSE sets
    /\ To(a, "recheck")
    /\ UNCHANGED <<work, net, believed, moves, cache, caught, v6poison, nat, natMu, passed>>

Pass(a) ==
    /\ Accept(a, ask[a].ans, 0)
    /\ passed' = [passed EXCEPT ![ask[a].ans.addr] = @ \cup ({NameOf(a)} \cap Probes)]

\* (mutant of Recheck: the verdict of before the count stands)
RecheckNot(a) ==
    /\ ask[a].pc = "recheck"
    /\ Pass(a)
    /\ UNCHANGED <<net, believed, moves, mem>>

Recheck(a) ==
    /\ ask[a].pc = "recheck"
    /\ \/ Condemned(ask[a].ans.addr) /\ To(a, "mark") /\ UNCHANGED passed
       \/ ~Condemned(ask[a].ans.addr) /\ Pass(a)
    /\ UNCHANGED <<net, believed, moves, mem>>

\* notePoison: the first sighting of an address withdraws what was cached; a
\* sinkhole over IPv6 is the evidence the AAAA policy waits for.
Condemn(a) ==
    /\ ask' = [ask EXCEPT ![a].pc = "rung", ![a].i = @ + 1, ![a].ans = None, ![a].from = None]
    /\ v6poison' = (v6poison \/ ask[a].ans.addr = Sinkhole("AAAA"))

Mark(a) ==
    /\ ask[a].pc = "mark"
    /\ caught' = caught \cup {ask[a].ans.addr}
    /\ \/ ask[a].ans.addr \notin caught /\ To(a, "flush") /\ UNCHANGED v6poison
       \/ ask[a].ans.addr \in caught /\ Condemn(a)
    /\ UNCHANGED <<work, net, believed, moves, cache, sets, nat, natMu, passed>>

PoisonFlush(a) ==
    /\ ask[a].pc = "flush"
    /\ cache' = Emptied
    /\ Condemn(a)
    /\ UNCHANGED <<work, net, believed, moves, sets, caught, nat, natMu, passed>>

-----------------------------------------------------------------------------
(* An accepted answer is cached, unless it is a truncated one.             *)

\* At the limit any one entry goes.
Evicted ==
    LET held == {q \in Questions : cache[q] # None}
    IN  IF Cardinality(held) < CacheMax THEN {cache}
        ELSE {[cache EXCEPT ![q] = None] : q \in held}

CachePut(a) ==
    /\ ask[a].pc = "put"
    /\ LET w == ask[a]
       IN  \/ w.ans.trunc /\ UNCHANGED cache
           \/ /\ ~w.ans.trunc
              /\ \E kept \in Evicted :
                   cache' = [kept EXCEPT ![w.q] = [addr |-> w.ans.addr, from |-> w.from]]
    /\ Answered(a, ask[a].ans)
    /\ UNCHANGED <<work, net, believed, moves, sets, caught, v6poison, nat, natMu, passed>>

Return(a) ==
    /\ ask[a].pc = "done"
    /\ ask' = [ask EXCEPT ![a] = Idle]
    /\ UNCHANGED <<net, believed, moves, mem, passed>>

-----------------------------------------------------------------------------
(* The machine moves; the watcher notices and drops the old answers; time    *)
(* passes.                                                                  *)

Move(n) ==
    /\ moves < work.moves /\ n # net
    /\ net' = n /\ moves' = moves + 1
    /\ UNCHANGED <<believed, mem, ask, passed>>

Quiesce ==
    /\ believed # net
    /\ cache' = Emptied
    /\ believed' = net
    /\ UNCHANGED <<work, net, moves, sets, caught, v6poison, nat, natMu, ask, passed>>

\* (mutant of Expire: only negative answers expire)
ExpireNegative(q) ==
    /\ cache[q] # None /\ cache[q].addr = None
    /\ cache' = [cache EXCEPT ![q] = None]
    /\ UNCHANGED <<work, net, believed, moves, sets, caught, v6poison, nat, natMu, ask, passed>>

\* A cached answer reaches the end of its life.
Expire(q) ==
    /\ cache[q] # None
    /\ cache' = [cache EXCEPT ![q] = None]
    /\ UNCHANGED <<work, net, believed, moves, sets, caught, v6poison, nat, natMu, ask, passed>>

\* The detector forgets an answer it has not counted for ten minutes: no
\* question is between its count and its second check that long.
ExpireSet(x) ==
    /\ sets[x] # {}
    /\ \A a \in Asks : ~(ask[a].pc = "recheck" /\ ask[a].ans.addr = x)
    /\ sets' = [sets EXCEPT ![x] = {}]
    /\ passed' = [passed EXCEPT ![x] = {}]
    /\ UNCHANGED <<work, net, believed, moves, cache, caught, v6poison, nat, natMu, ask>>

ExpireNat ==
    /\ nat # None
    /\ nat' = None
    /\ UNCHANGED <<work, net, believed, moves, cache, sets, caught, v6poison, natMu, ask, passed>>

\* A question's own steps, once it is asked.
Step(a) ==
    \/ Decide(a) \/ Memo(a) \/ StartProbe(a) \/ Probed(a)
    \/ CacheGet(a) \/ Rung(a) \/ Fail(a) \/ Receive(a)
    \/ Check(a) \/ Learn(a) \/ Recheck(a) \/ Mark(a) \/ PoisonFlush(a)
    \/ CachePut(a) \/ Return(a)

Next ==
    \/ \E a \in Asks : \/ \E q \in Questions : Ask(a, q)
                       \/ Step(a)
    \/ \E n \in Nets : Move(n)
    \/ Quiesce
    \/ \E q \in Questions : Expire(q)
    \/ \E x \in Addrs : ExpireSet(x)
    \/ ExpireNat

\* A try has a timeout, so a question's steps come, and a mutex is taken in the
\* end; a cached answer expires; the watcher runs.
Fairness ==
    /\ \A a \in Asks : SF_vars(Step(a))
    /\ \A q \in Questions : WF_vars(Expire(q))
    /\ WF_vars(Quiesce)

Spec == Init /\ [][Next]_vars /\ Fairness

-----------------------------------------------------------------------------
(* Properties.                                                             *)

\* However questions overlap between the detector's check, its count and its
\* second check, fewer blocked names than the quorum get the same answer
\* through while the detector remembers it, and no known sinkhole ever does.
PoisonStaysOut ==
    /\ \A x \in Addrs : Cardinality(passed[x]) < Quorum
    /\ \A q \in Questions : cache[q] # None /\ cache[q].addr # None => cache[q].addr[1] # "sinkhole"

\* A question that fails although its caller waited, and whose walk had a second
\* for each resolver, was put to every encrypted one: silence on the first
\* rungs never eats the share of the later ones.
EveryEncryptedRungAsked ==
    \A a \in Asks : ask[a].pc = "done" /\ ask[a].ans = None /\ ~ask[a].gone
                      /\ ask[a].q[2] = "A" /\ Deadline >= Len(Rungs)
                    => \A i \in DOMAIN Rungs : Plain(i) \/ i \in ask[a].tried

\* Every question is answered or refused, though the probe's mutex is held
\* across a walk and no context interrupts the wait for it.
EveryQuestionEnds == \A a \in Asks : ask[a].pc # "idle" ~> ask[a].pc = "done"

\* Answers of a network left behind, the ones under way when the cache was
\* emptied included, are in the end no longer served.
StaleAnswersDieOut == <>[](\A q \in Questions : cache[q] # None => cache[q].from = net)

=============================================================================
