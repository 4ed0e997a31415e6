------------------------------- MODULE Ladder -------------------------------
(***************************************************************************)
(* The escalation ladder (internal/flow/ladder.go), the singleflight that  *)
(* collapses parallel walks (internal/policy/singleflight.go) and the part *)
(* of the policy engine that turns the verdict store into a decision       *)
(* (internal/policy/scope.go): connections to ONE host, on a machine that  *)
(* may change network at any moment.                                       *)
(*                                                                         *)
(* A connection looks its verdict up, then leads a walk, waits for one or  *)
(* follows one.  A walk tries its rungs on fresh upstream connections;     *)
(* each rung's fate is the network's choice.  What the walk learned is put *)
(* in the store under whatever network is current when it is put.  The     *)
(* store is a map here; VerdictStore models it in detail.                  *)
(***************************************************************************)
EXTENDS Naturals, Sequences, FiniteSets

CONSTANTS
    Conns, NoConn,   \* connection goroutines; nobody
    Nets,            \* network identities, the store's namespaces
    Specs, Plain,    \* strategy specs; the empty one
    NoSpec,          \* nothing sent
    BaseLadder,      \* the configured ladder, plain anywhere or nowhere in it;
                     \* add() drops a repeated rung, so none is repeated here
    Risky,           \* specs whose bytes are not the client's own: handoverRisk
    Kinds,           \* kinds of first message
    Applies,         \* Applies[k]: the specs CheckAgainst accepts for kind k
    Replayable,      \* the kinds that may be sent twice
    Cached,          \* specs an earlier session may have left in the store
    Home,            \* the network dpb starts on
    MaxAttempts, DemoteThreshold,
    MaxVisits,       \* bound: connections the clients open
    MaxRoams         \* bound: network changes

ASSUME LadderAssumption ==
    /\ NoConn \notin Conns
    /\ Plain \in Specs \ Risky /\ NoSpec \notin Specs
    /\ BaseLadder \in Seq(Specs) /\ Len(BaseLadder) >= 2
    /\ \A p, q \in DOMAIN BaseLadder : BaseLadder[p] = BaseLadder[q] => p = q
    /\ Cached \subseteq Specs /\ Home \in Nets
    /\ Kinds # {} /\ Replayable \subseteq Kinds
    /\ Applies \in [Kinds -> SUBSET Specs]
    /\ \A k \in Kinds : Plain \in Applies[k]
    /\ MaxAttempts \in Nat \ {0} /\ DemoteThreshold \in Nat \ {0}

Learned == {"plain", "desync"}   \* SrcLearnedPlain, SrcLearnedDesync
Sources == Learned \cup {"default", "include", "bypass"}
Verdict == [src: Sources, spec: Specs, losses: Nat]

Watch == [src |-> "default", spec |-> Plain, losses |-> 0]
LearnedFor(s) == [src |-> IF s = Plain THEN "plain" ELSE "desync",
                  spec |-> s, losses |-> 0]

VARIABLES
    rule,     \* the user's rule for this host: "none", "include" or "bypass"
    net,      \* netIDBox: the network the machine is on
    store,    \* store[n]: the host's verdict on network n; Watch when it has none
    calls,    \* Singleflight.calls: the leader of the walk in flight on network n
    conn,     \* conn[c]: the connection goroutine c is serving
    visits, roams,
    earned    \* history: the specs an origin has answered, here or in earlier sessions

vars == <<rule, net, store, calls, conn, visits, roams, earned>>

Idle == [pc |-> "idle", kind |-> CHOOSE k \in Kinds : TRUE, v |-> Watch,
         key |-> CHOOSE n \in Nets : TRUE, mode |-> "own", rungs |-> <<>>, i |-> 1,
         dialled |-> 0, first |-> NoSpec, spec |-> NoSpec, out |-> "none"]

-----------------------------------------------------------------------------
(* The verdict of a named flow on network n: rules, then the store, then    *)
(* ScopeWatch.  A learned-plain verdict is ScopeDirect: it is not judged.   *)
ForName(n) ==
    CASE rule = "bypass"  -> [Watch EXCEPT !.src = "bypass"]
      [] rule = "include" -> [Watch EXCEPT !.src = "include"]
      [] OTHER            -> store[n]

Judged(v) == v.src \notin {"bypass", "plain"}

\* The configured ladder without rung s.
Without(s) ==
    IF \E p \in DOMAIN BaseLadder : BaseLadder[p] = s
    THEN LET p == CHOOSE p \in DOMAIN BaseLadder : BaseLadder[p] = s
         IN  SubSeq(BaseLadder, 1, p - 1) \o SubSeq(BaseLadder, p + 1, Len(BaseLadder))
    ELSE BaseLadder

\* (mutant of Rungs: the configured ladder is walked as it is written)
RungsAsConfigured(v) ==
    IF v.src = "bypass" THEN <<Plain>>
    ELSE IF v.src = "desync" THEN <<v.spec>> \o Without(v.spec)
    ELSE BaseLadder

\* The ordered rungs of a verdict: a cached desync winner first, plain first
\* in every other case, then the configured ladder without repeats.
Rungs(v) ==
    LET head == IF v.src = "desync" THEN v.spec ELSE Plain
    IN  IF v.src = "bypass" THEN <<Plain>>
        ELSE <<head>> \o Without(head)

-----------------------------------------------------------------------------
(* Shorthands for one connection's walk.                                    *)
At(c, where) == conn[c].pc = where
Rung(c)      == conn[c].rungs[conn[c].i]

\* The loop's own guards: rungs left, dials left, and no replay of a message
\* that may not be replayed.
CanTry(c) ==
    /\ At(c, "walk")
    /\ conn[c].i <= Len(conn[c].rungs)
    /\ conn[c].dialled < MaxAttempts
    /\ conn[c].i > 1 => conn[c].kind \in Replayable

CanSend(c) == CanTry(c) /\ Rung(c) \in Applies[conn[c].kind]

\* Some later rung could still be emitted on this first message.
MoreRungs(c) ==
    /\ conn[c].kind \in Replayable
    /\ \E j \in conn[c].i + 1 .. Len(conn[c].rungs) :
          conn[c].rungs[j] \in Applies[conn[c].kind]

LastRung(c) == conn[c].i = Len(conn[c].rungs) \/ conn[c].dialled + 1 >= MaxAttempts

Final(c) == LastRung(c) \/ ~MoreRungs(c)

\* (mutant of SafeToHandOver: any silent socket is handed over)
HandOverAnything(s) == TRUE

SafeToHandOver(s) == s \notin Risky

\* The connection after one upstream dial for its current rung.
Dialled(c) == [conn[c] EXCEPT !.dialled = @ + 1,
                              !.first = IF @ = NoSpec THEN Rung(c) ELSE @]

NextRung(k) == [k EXCEPT !.i = @ + 1]

Becomes(c, k) ==
    /\ conn' = [conn EXCEPT ![c] = k]
    /\ UNCHANGED <<rule, net, store, calls, visits, roams, earned>>

\* retryOn for a retryable class: advance one rung, or end the walk.
RetryOn(c, k) == Becomes(c, IF LastRung(c) THEN [k EXCEPT !.pc = "lost"] ELSE NextRung(k))

\* The start of a walk under verdict v; each walk has a budget of its own.
Walking(k, v, mode) ==
    [k EXCEPT !.pc = "walk", !.v = v, !.mode = mode, !.rungs = Rungs(v)]

-----------------------------------------------------------------------------
Init ==
    /\ rule \in {"none", "include", "bypass"}
    /\ net = Home
    /\ store \in [Nets -> {Watch} \cup {LearnedFor(s) : s \in Cached}]
    /\ calls = [n \in Nets |-> NoConn]
    /\ conn = [c \in Conns |-> Idle]
    /\ visits = 0 /\ roams = 0
    /\ earned = {store[n].spec : n \in {m \in Nets : store[m] # Watch}}

(* A client connects: the front end asks the engine, relays an unjudged     *)
(* flow as it is, and buffers the first message of a judged one.            *)
Lookup(c) ==
    /\ At(c, "idle") /\ visits < MaxVisits
    /\ \E k \in Kinds :
          conn' = [conn EXCEPT ![c] =
              [Idle EXCEPT !.kind = k, !.v = ForName(net),
                           !.pc = IF Judged(ForName(net)) THEN "ready" ELSE "ret",
                           !.out = IF Judged(ForName(net)) THEN "none" ELSE "relayed"]]
    /\ visits' = visits + 1
    /\ UNCHANGED <<rule, net, store, calls, roams, earned>>

(* Singleflight.Do: the first caller of a key runs the walk ...             *)
Lead(c) ==
    /\ At(c, "ready") /\ calls[net] = NoConn
    /\ calls' = [calls EXCEPT ![net] = c]
    /\ conn' = [conn EXCEPT ![c] = Walking([@ EXCEPT !.key = net], @.v, "lead")]
    /\ UNCHANGED <<rule, net, store, visits, roams, earned>>

(* ... and the others wait for it, with no deadline of their own.           *)
Wait(c) ==
    /\ At(c, "ready") /\ calls[net] # NoConn
    /\ Becomes(c, [conn[c] EXCEPT !.pc = "wait", !.key = net])

(* A rung this first message cannot carry is passed over before any dial.   *)
PassOver(c) == CanTry(c) /\ ~CanSend(c) /\ Becomes(c, NextRung(conn[c]))

(* The upstream dial fails: the walk goes on with the next rung.            *)
DialFails(c) ==
    CanSend(c) /\ Becomes(c, NextRung(Dialled(c)))

(* The transport cannot execute the rung, or its plan does not fit: skip.   *)
CannotEmit(c) ==
    CanSend(c) /\ Rung(c) # Plain /\ Becomes(c, NextRung(Dialled(c)))

(* A torn write, or a connection no transport can be made of: stop.         *)
TornWrite(c) == CanSend(c) /\ Becomes(c, [Dialled(c) EXCEPT !.pc = "lost"])

(* The flow is reset before its first response byte.                        *)
Reset(c) == CanSend(c) /\ RetryOn(c, Dialled(c))

(* Nothing arrives within the response window.  When no rung is left that   *)
(* could be emitted, a rung whose bytes are the client's own is handed over *)
(* and nothing is learned.                                                  *)
Silence(c) ==
    /\ CanSend(c)
    /\ IF Final(c) /\ SafeToHandOver(Rung(c))
       THEN Becomes(c, [Dialled(c) EXCEPT !.pc = "ret", !.out = "handed",
                                          !.spec = Rung(c)])
       ELSE RetryOn(c, Dialled(c))

(* The origin answers: the connection is committed, and so is the evidence. *)
Answer(c) ==
    /\ CanSend(c)
    /\ conn' = [conn EXCEPT ![c] = [Dialled(c) EXCEPT !.pc = "won", !.spec = Rung(c)]]
    /\ earned' = earned \cup {Rung(c)}
    /\ UNCHANGED <<rule, net, store, calls, visits, roams>>

\* (mutant of Reject: any upstream byte is a win)
RejectIsAWin(c) ==
    CanSend(c) /\ Becomes(c, [Dialled(c) EXCEPT !.pc = "won", !.spec = Rung(c)])

(* An alert, a sinkhole, or bytes and then a reset: committed all the same, *)
(* but evidence against the rung.                                           *)
Reject(c) ==
    CanSend(c) /\ Becomes(c, [Dialled(c) EXCEPT !.pc = "rejected", !.spec = Rung(c)])

(* The loop ends with no connection.                                        *)
Exhaust(c) ==
    At(c, "walk") /\ ~CanTry(c) /\ Becomes(c, [conn[c] EXCEPT !.pc = "lost"])

(* The client leaves or the walk's budget runs out: nothing is recorded.    *)
Cancel(c) ==
    /\ At(c, "walk") \/ At(c, "lost")
    /\ Becomes(c, [conn[c] EXCEPT !.pc = "ret", !.out = "cancelled"])
-----------------------------------------------------------------------------
(* What the walk learned is stored under the CURRENT network.               *)
Store(n, v) == store' = [store EXCEPT ![n] = v]

Ends(c, out, v) ==
    /\ conn' = [conn EXCEPT ![c].pc = "ret", ![c].out = out, ![c].v = v]
    /\ UNCHANGED <<rule, net, calls, visits, roams, earned>>

\* put: a decision is never overwritten by an observation.
RecordWin(c) ==
    LET nv == LearnedFor(conn[c].spec)
    IN  /\ At(c, "won")
        /\ Ends(c, "live", nv)
        /\ IF conn[c].v.src = "bypass" THEN UNCHANGED store ELSE Store(net, nv)

\* A cached verdict is dropped when it is the rejected one.
Forget(c) ==
    LET prev == conn[c].v
    IN  /\ At(c, "rejected")
        /\ IF prev.src \in Learned /\ prev.spec = conn[c].spec
           THEN Ends(c, "rejected", Watch) /\ Store(net, Watch)
           ELSE Ends(c, "rejected", prev) /\ UNCHANGED store

\* Store.Demote: the threshold counts losses, whoever suffers them.
Demoted(v) == IF v.src \notin Learned THEN v
              ELSE IF v.losses + 1 >= DemoteThreshold THEN Watch
              ELSE [v EXCEPT !.losses = @ + 1]

RecordLoss(c) ==
    /\ At(c, "lost")
    /\ Ends(c, "failed", conn[c].v)
    /\ IF conn[c].v.src \in Learned /\ conn[c].dialled > 0
       THEN Store(net, Demoted(store[net])) ELSE UNCHANGED store

(* Singleflight.finish: the call is removed and its waiters are released.   *)
(* A verdict makes them follow it; an error makes them walk for themselves. *)
Waiters(c) == {w \in Conns : At(w, "wait") /\ conn[w].key = conn[c].key}

Released(w, err, v) ==
    IF err THEN Walking(conn[w], conn[w].v, "own") ELSE Walking(conn[w], v, "follow")

Finish(c, err) ==
    LET leads == conn[c].mode = "lead"
    IN  /\ calls' = IF leads THEN [calls EXCEPT ![conn[c].key] = NoConn] ELSE calls
        /\ conn' = [w \in Conns |->
                      IF w = c THEN Idle
                      ELSE IF leads /\ w \in Waiters(c)
                           THEN Released(w, err, conn[c].v)
                      ELSE conn[w]]
        /\ UNCHANGED <<rule, net, store, visits, roams, earned>>

Return(c) == At(c, "ret") /\ Finish(c, conn[c].out \in {"failed", "cancelled"})

\* (mutant of Panic: Do has no deferred recovery)
PanicUnrecovered(c) == At(c, "walk") /\ Becomes(c, Idle)

\* A panic in the walk is recovered in Do, which finishes the call, and again
\* at the goroutine's edge.
Panic(c) == At(c, "walk") /\ Finish(c, TRUE)
-----------------------------------------------------------------------------
Roam ==
    /\ roams < MaxRoams /\ roams' = roams + 1
    /\ net' \in Nets \ {net}
    /\ UNCHANGED <<rule, store, calls, conn, visits, earned>>

Expire(n) ==
    /\ store[n].src \in Learned /\ Store(n, Watch)
    /\ UNCHANGED <<rule, net, calls, conn, visits, roams, earned>>

\* What goroutine c does of itself once a client is connected.
Serve(c) ==
    \/ Lead(c) \/ Wait(c) \/ PassOver(c) \/ DialFails(c) \/ CannotEmit(c)
    \/ TornWrite(c) \/ Reset(c) \/ Silence(c) \/ Answer(c) \/ Reject(c)
    \/ Exhaust(c) \/ RecordWin(c) \/ Forget(c) \/ RecordLoss(c) \/ Return(c)

Next ==
    \/ \E c \in Conns : Lookup(c) \/ Serve(c) \/ Cancel(c) \/ Panic(c)
    \/ Roam
    \/ \E n \in Nets : Expire(n)

Spec == Init /\ [][Next]_vars

\* Every wait of a walk is bounded by a deadline, so a goroutine that can step
\* does; clients, networks and clocks owe nothing.
FairSpec == Spec /\ \A c \in Conns : WF_vars(Serve(c))
-----------------------------------------------------------------------------

(* A host is never desynced on a connection's first dial unless that very   *)
(* spec was answered before, whatever the ladder, the user's rule, the      *)
(* verdict inherited from a leader or the losses and rejections in between: *)
(* the order of rungs() over every verdict lookup, leader and follower can  *)
(* produce.  One exception is the code's: when the spec that was answered   *)
(* cannot be applied to THIS first message it is passed over, and the       *)
(* configured ladder goes on from its own first rung, plain or not.         *)
DesyncIsEarned ==
    \A c \in Conns :
        LET k == conn[c]
        IN  \/ k.first \in {NoSpec, Plain} \cup earned
            \/ k.rungs[1] \in earned \ Applies[k.kind]

(* Every verdict in the store rests on an answer: silence handed over, an   *)
(* alert, a sinkhole, a cancelled or failed walk teaches it nothing.        *)
LearnedFromEvidence ==
    \A n \in Nets : store[n].src \in Learned => store[n].spec \in earned

(* A connection carrying bytes that are not the client's own is handed to   *)
(* the client only when the origin answered on it.                          *)
PoisonIsNeverHandedOver ==
    \A c \in Conns : conn[c].out = "handed" => conn[c].spec \notin Risky

(* Every connection a client opened is given back, whatever its leader did. *)
EveryoneReturns == \A c \in Conns : At(c, "ready") ~> At(c, "idle")

=============================================================================
