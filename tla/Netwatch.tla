------------------------------ MODULE Netwatch ------------------------------
(***************************************************************************)
(* The network watcher (internal/netwatch/watcher.go) and what this        *)
(* process does about a change (cliapp/netwatchrun.go, and the kill switch *)
(* and the namespace box of cliapp/run.go): one goroutine that debounces   *)
(* the routing socket, re-reads the machine's network, suspends, flushes   *)
(* the resolver, swaps the verdict namespace, re-verifies the system       *)
(* settings, probes for a captive portal and resumes -- while the machine  *)
(* keeps moving.                                                           *)
(*                                                                         *)
(* Time passes only for the debounce timer, in ticks; every other timer    *)
(* may fire whenever it is armed.  Facts, settings and answers are reduced *)
(* to which network they belong to.                                        *)
(***************************************************************************)
EXTENDS Naturals, FiniteSets

CONSTANTS
    Nets, NoUplink,          \* network identities; no default route at all
    Home,                    \* the network dpb started on
    Portals,                 \* the networks that begin behind a captive portal
    RequireCapture,          \* TUN mode: a full-tunnel VPN is fatal
    Debounce, MaxDebounce,   \* in ticks
    MaxMoves,                \* bound: changes of network and of VPN
    MaxFaults                \* bound: failed steps and routing-socket failures

ASSUME WatchAssumption ==
    /\ Home \in Nets /\ NoUplink \notin Nets /\ Portals \subseteq Nets
    /\ RequireCapture \in BOOLEAN
    /\ Debounce \in Nat \ {0} /\ MaxDebounce \in Nat /\ Debounce <= MaxDebounce

Places  == Nets \cup {NoUplink}

VARIABLES
    \* the machine
    net,      \* where it is
    behind,   \* behind[n]: network n intercepts
    vpn,      \* a full-tunnel VPN is up
    intact,   \* the settings dpb applied are all there
    \* signals to the watcher
    raw,      \* the routing channel, of capacity one
    sock,     \* the routing socket is open
    slept,    \* the machine slept since the last sleep tick
    \* Watcher.Run's locals
    pc,       \* the step of the reaction in hand
    why,      \* what the reaction is to: a "change", a "settle" or a portal "poll"
    timer,    \* the debounce timer: armed, ticks left, ticks since the first signal
    poll,     \* the portal timer is armed
    seen,     \* the facts of this reaction: place and VPN
    fresh,    \* the last probe is younger than PortalPoll
    \* what the datapath reads
    holds,    \* Watcher.holds, mirrored in killSwitch.holds
    ns,       \* Watcher.id, mirrored in netIDBox
    cached,   \* the networks whose DNS answers the resolver chain still serves
    \* bounds and history
    moves, faults,
    missed    \* history: since the facts were last read, a change went
              \* unsignalled or a step failed

machine   == <<net, behind, vpn>>
signals   == <<raw, sock, slept>>
local     == <<pc, why, timer, poll, seen, fresh>>
datapath  == <<holds, ns, cached>>
bounds    == <<moves, faults>>
watchVars == <<machine, intact, signals, local, datapath, bounds, missed>>

(* A reason to suspend is taken and lifted by name; both are idempotent, and *)
(* the datapath waits as long as there is one.                              *)
Holding(reason)  == holds \cup {reason}
Released(reason) == holds \ {reason}

NoTimer == [on |-> FALSE, left |-> 0, age |-> 0]
-----------------------------------------------------------------------------
WatchInit ==
    /\ net = Home /\ behind = [n \in Nets |-> n \in Portals] /\ vpn = FALSE
    /\ intact = TRUE
    /\ raw = FALSE /\ sock = TRUE /\ slept = FALSE
    /\ pc = "idle" /\ why = "change" /\ timer = NoTimer /\ poll = FALSE
    /\ seen = [at |-> Home, vpn |-> FALSE] /\ fresh = FALSE
    /\ holds = {} /\ ns = Home /\ cached = {}
    /\ moves = 0 /\ faults = 0 /\ missed = FALSE
-----------------------------------------------------------------------------
(* The machine.                                                             *)

\* A routing message, if the socket is open to hear it.
Signal == raw' = (raw \/ sock) /\ missed' = (missed \/ ~sock)

\* The default route changes or disappears; macOS may flush what dpb applied.
Move ==
    /\ moves < MaxMoves /\ moves' = moves + 1
    /\ net' \in Places \ {net}
    /\ intact' \in {intact, FALSE}
    /\ Signal
    /\ UNCHANGED <<behind, vpn, sock, slept, local, datapath, faults>>

Tunnel ==
    /\ moves < MaxMoves /\ moves' = moves + 1
    /\ vpn' = ~vpn /\ Signal
    /\ UNCHANGED <<net, behind, intact, sock, slept, local, datapath, faults>>

\* Routing churn that changes nothing, as often as it likes.
Churn ==
    /\ sock /\ ~raw /\ raw' = TRUE
    /\ UNCHANGED <<machine, intact, sock, slept, local, datapath, bounds, missed>>

Sleep ==
    /\ moves < MaxMoves /\ moves' = moves + 1
    /\ slept' = TRUE
    /\ UNCHANGED <<machine, intact, raw, sock, local, datapath, faults, missed>>

\* The user logs in to the portal.
Login(n) ==
    /\ behind[n] /\ behind' = [behind EXCEPT ![n] = FALSE]
    /\ UNCHANGED <<net, vpn, intact, signals, local, datapath, bounds, missed>>

\* The datapath resolves a name on the network the machine is on.
Resolve ==
    /\ net \in Nets /\ cached' = cached \cup {net}
    /\ UNCHANGED <<machine, intact, signals, local, holds, ns, bounds, missed>>

\* The routing socket fails and is re-opened after SourceRetry.
SocketFails ==
    /\ sock /\ faults < MaxFaults /\ faults' = faults + 1
    /\ sock' = FALSE
    /\ UNCHANGED <<machine, intact, raw, slept, local, datapath, moves, missed>>

SocketReopens ==
    /\ ~sock /\ sock' = TRUE
    /\ UNCHANGED <<machine, intact, raw, slept, local, datapath, bounds, missed>>

ProbeAges ==
    /\ fresh /\ fresh' = FALSE
    /\ UNCHANGED <<machine, intact, signals, pc, why, timer, poll, seen, datapath,
                   bounds, missed>>
-----------------------------------------------------------------------------
(* Watcher.Run: the cases of its select.                                    *)
Waiting == pc = "idle"

Reacts(w) == pc' = "read" /\ why' = w

\* (mutant of Deadline: the window has no cap)
DeadlineUncapped(age) == Debounce

\* Extend the quiet window, but never past the cap.
Deadline(age) == IF MaxDebounce - age < Debounce THEN MaxDebounce - age ELSE Debounce

Receive ==
    /\ Waiting /\ raw /\ raw' = FALSE
    /\ timer' = IF timer.on THEN [timer EXCEPT !.left = Deadline(timer.age)]
                ELSE [on |-> TRUE, left |-> Debounce, age |-> 0]
    /\ UNCHANGED <<machine, intact, sock, slept, pc, why, poll, seen, fresh, datapath,
                   bounds, missed>>

Tick ==
    /\ timer.on /\ timer.left > 0
    /\ timer' = [timer EXCEPT !.left = @ - 1,
                              !.age = IF @ < MaxDebounce THEN @ + 1 ELSE @]
    /\ UNCHANGED <<machine, intact, signals, pc, why, poll, seen, fresh, datapath,
                   bounds, missed>>

Fire ==
    /\ Waiting /\ timer.on /\ timer.left = 0
    /\ timer' = NoTimer /\ Reacts("change")
    /\ UNCHANGED <<machine, intact, signals, poll, seen, fresh, datapath, bounds, missed>>

\* The wall clock ran further than the monotonic one.
Wake ==
    /\ Waiting /\ slept /\ slept' = FALSE
    /\ Reacts("change")
    /\ UNCHANGED <<machine, intact, raw, sock, timer, poll, seen, fresh, datapath,
                   bounds, missed>>

Repoll ==
    /\ Waiting /\ poll
    /\ pc' = "probe" /\ why' = "poll" /\ poll' = FALSE
    /\ UNCHANGED <<machine, intact, signals, timer, seen, fresh, datapath, bounds, missed>>
-----------------------------------------------------------------------------

(* onChange, settle and repoll, step by step.  Each ends in the loop, which *)
(* arms the portal timer while, and only while, a portal hold is in force.  *)
BackToLoop(hs) == pc' = "idle" /\ poll' = ("portal" \in hs)

Read ==
    /\ pc = "read"
    /\ seen' = [at |-> net, vpn |-> vpn] /\ missed' = FALSE /\ pc' = "facts"
    /\ UNCHANGED <<machine, intact, signals, why, timer, poll, fresh, datapath, bounds>>

\* The facts cannot be read: the previous belief stands.
FactsUnread ==
    /\ pc = "read" /\ faults < MaxFaults /\ faults' = faults + 1
    /\ missed' = TRUE /\ BackToLoop(holds)
    /\ UNCHANGED <<machine, intact, signals, why, timer, seen, fresh, datapath, moves>>

UplinkLost ==
    /\ pc = "facts" /\ seen.at = NoUplink
    /\ holds' = Holding("uplink") /\ BackToLoop(holds')
    /\ UNCHANGED <<machine, intact, signals, why, timer, seen, fresh, ns, cached, bounds,
                   missed>>

UplinkBack ==
    /\ pc = "facts" /\ seen.at # NoUplink
    /\ holds' = Released("uplink") /\ pc' = "judge"
    /\ UNCHANGED <<machine, intact, signals, why, timer, poll, seen, fresh, ns, cached,
                   bounds, missed>>

\* A full tunnel under a run that must capture: the watcher stops the process.
Fatal == RequireCapture /\ seen.vpn

Stop ==
    /\ pc = "judge" /\ Fatal /\ pc' = "stopped"
    /\ UNCHANGED <<machine, intact, signals, why, timer, poll, seen, fresh, datapath,
                   bounds, missed>>

\* (mutant of SameNetwork: the same network needs no re-verification)
SameNetworkUnverified ==
    /\ pc = "judge" /\ ~Fatal /\ seen.at = ns
    /\ pc' = "probe"
    /\ UNCHANGED <<machine, intact, signals, why, timer, poll, seen, fresh, datapath,
                   bounds, missed>>

SameNetwork ==
    /\ pc = "judge" /\ ~Fatal /\ seen.at = ns
    /\ pc' = "reverify"
    /\ UNCHANGED <<machine, intact, signals, why, timer, poll, seen, fresh, datapath,
                   bounds, missed>>

\* settle: the hold is taken before anything of the old network goes.
Settle ==
    /\ pc = "judge" /\ ~Fatal /\ seen.at # ns
    /\ holds' = Holding("settling") /\ why' = "settle" /\ pc' = "quiesce"
    /\ UNCHANGED <<machine, intact, signals, timer, poll, seen, fresh, ns, cached,
                   bounds, missed>>

\* (mutant of Quiesce: the answers of the old network are kept)
QuiesceNothing ==
    /\ pc = "quiesce" /\ pc' = "swap"
    /\ UNCHANGED <<machine, intact, signals, why, timer, poll, seen, fresh, datapath,
                   bounds, missed>>

Quiesce ==
    /\ pc = "quiesce" /\ cached' = {} /\ pc' = "swap"
    /\ UNCHANGED <<machine, intact, signals, why, timer, poll, seen, fresh, holds, ns,
                   bounds, missed>>

Swap ==
    /\ pc = "swap" /\ ns' = seen.at /\ pc' = "reverify"
    /\ UNCHANGED <<machine, intact, signals, why, timer, poll, seen, fresh, holds, cached,
                   bounds, missed>>

\* After a poll's re-verification there is nothing left to do.
AfterReverify == IF why = "poll" THEN BackToLoop(holds) ELSE pc' = "probe" /\ UNCHANGED poll

Reverify ==
    /\ pc = "reverify" /\ intact' = TRUE /\ AfterReverify
    /\ UNCHANGED <<machine, signals, why, timer, seen, fresh, datapath, bounds, missed>>

ReverifyFails ==
    /\ pc = "reverify" /\ faults < MaxFaults /\ faults' = faults + 1
    /\ missed' = TRUE /\ AfterReverify
    /\ UNCHANGED <<machine, intact, signals, why, timer, seen, fresh, datapath, moves>>

Canaries == 1..3

(* What one canary can bring back: an answer that is not the one known in   *)
(* advance, that very answer, or none.  A portal intercepts everything; on  *)
(* a clean network one endpoint may still be blocked, or be down.           *)
probeOne ==
    IF net = NoUplink THEN {"error"}
    ELSE IF behind[net] THEN {"intercepted", "error"}
    ELSE {"clean", "intercepted", "error"}

Returning(a, what) == {c \in Canaries : a[c] = what}

Answers ==
    {a \in [Canaries -> probeOne] :
        net \in Nets /\ ~behind[net] => Cardinality(Returning(a, "intercepted")) <= 1}

\* Unrelated canary names resolved to one address: what only a gateway that
\* answers for everybody does.
uniform == IF net \in Nets /\ behind[net] THEN BOOLEAN ELSE {FALSE}

\* One clean answer refutes a portal, two intercepted ones declare it, and one
\* does with a uniform DNS; anything else decides nothing.
Verdict(a, u) ==
    LET hits == Cardinality(Returning(a, "intercepted")) IN
    CASE Returning(a, "clean") # {} -> "clean"
      [] Returning(a, "clean") = {} /\ (hits >= 2 \/ (hits = 1 /\ u)) -> "behind"
      [] OTHER -> "unsure"

Verdicts == {Verdict(a, u) : a \in Answers, u \in uniform}

\* The hold a verdict leaves.  An undecided probe reads as "not behind".
AfterProbe(v) == IF v = "behind" THEN Holding("portal") ELSE Released("portal")

AfterHold(hs) ==
    CASE why = "settle" -> pc' = "resume" /\ UNCHANGED poll
      [] why = "poll" /\ "portal" \in holds \ hs -> pc' = "reverify" /\ UNCHANGED poll
      [] OTHER -> BackToLoop(hs)

Probe ==
    /\ pc = "probe" /\ (fresh => why # "change")
    /\ \E v \in Verdicts : holds' = AfterProbe(v) /\ AfterHold(AfterProbe(v))
    /\ fresh' = TRUE
    /\ UNCHANGED <<machine, intact, signals, why, timer, seen, ns, cached, bounds, missed>>

\* On a network already known, a recent probe is not repeated.
SkipProbe ==
    /\ pc = "probe" /\ fresh /\ why = "change"
    /\ BackToLoop(holds)
    /\ UNCHANGED <<machine, intact, signals, why, timer, seen, fresh, datapath, bounds,
                   missed>>

\* (mutant of Resume: signals heard while settling are taken for our own)
ResumeAndDrain ==
    /\ pc = "resume" /\ holds' = Released("settling") /\ BackToLoop(holds')
    /\ raw' = FALSE
    /\ UNCHANGED <<machine, intact, sock, slept, why, timer, seen, fresh, ns, cached,
                   bounds, missed>>

\* The settling hold goes last, so that a portal hold outlives it.
Resume ==
    /\ pc = "resume" /\ holds' = Released("settling") /\ BackToLoop(holds')
    /\ UNCHANGED <<machine, intact, signals, why, timer, seen, fresh, ns, cached, bounds,
                   missed>>
-----------------------------------------------------------------------------
Step ==
    \/ Read \/ FactsUnread \/ UplinkLost \/ UplinkBack \/ Stop \/ SameNetwork
    \/ Settle \/ Quiesce \/ Swap \/ Reverify \/ ReverifyFails
    \/ Probe \/ SkipProbe \/ Resume

Environment ==
    \/ Move \/ Tunnel \/ Churn \/ Sleep \/ (\E n \in Nets : Login(n)) \/ Resolve
    \/ SocketFails \/ SocketReopens \/ ProbeAges

WatchNext == Environment \/ Receive \/ Tick \/ Fire \/ Wake \/ Repoll \/ Step

WatchSpec == WatchInit /\ [][WatchNext]_watchVars

\* Time passes, every hook is bounded by the step budget, and a select that is
\* entered again and again with several cases ready takes each of them sooner
\* or later.  The machine and its user owe nothing.
FairWatchSpec ==
    /\ WatchSpec
    /\ WF_watchVars(Tick) /\ WF_watchVars(Step)
    /\ SF_watchVars(Receive) /\ SF_watchVars(Fire)
    /\ SF_watchVars(Wake) /\ SF_watchVars(Repoll)
-----------------------------------------------------------------------------

Stopped == pc = "stopped"

(* No wakeup is lost: whenever the watcher rests with no signal pending,    *)
(* the namespace is that of the network the machine is on, a vanished       *)
(* uplink is suspended for and nothing else but a portal is -- however the  *)
(* machine moved while the last reaction was under way.                     *)
BeliefIsCurrent ==
    Waiting /\ ~raw /\ ~timer.on /\ ~missed =>
        IF net = NoUplink THEN "uplink" \in holds
        ELSE ns = net /\ holds \subseteq {"portal"}

(* The namespace is swapped only while the datapath is suspended, and       *)
(* nothing resolved on the network being left is served after the swap,     *)
(* unless the machine has moved again and the watcher has yet to hear it.   *)
SwapIsClean ==
    [][ns' # ns => /\ "settling" \in holds \cap holds'
                   /\ cached \subseteq {net} \/ raw \/ missed]_watchVars

(* A change of network is followed, whatever the routing socket keeps       *)
(* reporting meanwhile, unless a signal was lost or a step failed.          *)
ChangeIsFollowed ==
    (net \in Nets /\ ns # net) ~> (ns = net \/ net = NoUplink \/ missed \/ Stopped)

(* Settings a link change flushed are put back.                             *)
SettingsComeBack ==
    ~intact ~> (intact \/ net = NoUplink \/ missed \/ Stopped)

=============================================================================
