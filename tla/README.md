# TLA+ models of dpb

`dpb` is a macOS program that gets TCP and QUIC connections past deep packet
inspection: local proxy listeners (or a TUN device) take the client's
connections, an escalation ladder tries increasingly intrusive ways of sending
the first message, what works is remembered per host and per network, and a
watcher follows the machine from network to network. To be in the path at all,
dpb changes system settings, and its first duty is to put every one of them back,
whatever kills it.

These modules model the parts whose correctness depends on the order of things.
Names follow the source; every definition's source lines are in `PROJECT.json`
under `map`.

    tlc -config NetState.cfg MCNetState         # and so on for each run below
    tlapm NetStateProofs.tla                    # and so on for each *Proofs module

## 1. Inventory

### Components, their state and their operations

| component (src/internal) | state | operations | what makes it correct |
|---|---|---|---|
| `netstate` Manager, journal, replay | applied stack, journal file, sequence number | Do, rollback, UndoAll, Reverify, Replay, Begin/Commit/Done, compaction | whatever is in force has a record; the user's value is recoverable |
| `netstate` Ops | captured previous values | prepare, Apply, Verify, Revert, VerifyReverted | a record is closed only when nothing of ours is left; replays converge |
| `netstate` lock | lock file | acquire, read, PriorResidue | one run at a time; a dead owner does not block |
| `janitor` | child process, pipe to the parent | spawn, wait, replay, stop | replays once the parent is gone, never beside it |
| `policy` store | table of networks and hosts, dirty mark, file | Get, Put, Demote, Flush, Close, open | nothing learned is lost |
| `policy` engine, matchers, reverse table | rules, address-to-names table | ForName, ForAddr, ForFlow, Observe | an excluded host is left alone whatever names it |
| `policy` singleflight | calls in flight | Do | every waiter is released |
| `flow` ladder | a walk's rungs, attempts, dials | RunRecorded, attempt, record/forget/demote | evidence before desync, evidence before learning, never hand over a poisoned stream |
| `flow` first message, relay | deadlines, buffers | ReadFirstMessage, copy both ways, half-close, idle | whole streams, no wedge, no cut of a busy flow |
| `netwatch` watcher, portal probe | holds, network identity, debounce and portal timers | onChange, settle, repoll, Probe | belief follows the machine; swap only when quiet |
| `cliapp` run lifecycle, control, TUN bring-up | teardown stack, Manager, IPv6 gate, revertOnce | bring-up, serve, panic, re-apply, unwind | settings undone once and entirely; nothing points at a dead listener |
| `resolve` chain | answer cache, detector's sets, NAT64 memo | Resolve, walk, flush, poison detection | no answer of another network or of a poisoner survives |
| `front` proxy, SOCKS5 UDP, TUN | connections, session tables | accept, CONNECT, SOCKS5, HTTP, PAC, TUN TCP/UDP/DNS, drain | nothing goes out bare, sessions bounded and reaped |
| `strategy`, `ops`, `tlsmsg`, `httpmsg`, `emit` | a plan, a token bucket, a socket's hop limit | compile, plan, re-frame, split, coalesce, emit | the stream is the client's; the name is where the plan promises |
| `probe`, `config` (tuned profile) | targets, scores, profile file | tune, apply, save | no invented winner, no outage blamed on a strategy |
| `observ`, `paths`, `buildinfo`, doctor, service, remaining commands | subscribers, counters | publish, report, install | reporting and plumbing |

### How they interact

A front end names the flow (the request, the resolver's reverse table, the SNI),
asks the policy engine for a verdict and hands a judged connection to the
ladder. The ladder walks under the singleflight, dials, emits a rung through
`strategy`/`ops`/`emit`, classifies the fate, and puts the verdict in the store
under the network identity in `netIDBox`. The relay then joins client and
origin. The watcher goroutine changes that identity, pushes reasons on the
kill switch (which makes the front ends relay without deciding), flushes the
resolver and asks the Manager to re-verify. `dpb run` brings all of this up in
order, and control requests, signals and dying servers bring it down through one
Manager. The Manager and the replaying processes (janitor, `doctor --repair`,
login agent) share nothing but the journal file and the machine's settings.

### What is hard

Crash at any step (netstate, store, profile); several processes on one file
(journal, store); a mutex dropped for I/O (store, resolver cache, UDP sessions)
or kept across it (the NAT64 probe, `opMu`); a context cancelled in the middle
(bring-up, walks); a signal while the last one is being handled (watcher,
teardown); deadlines that unblock and deadlines that measure idleness, set on
the same connection (relay); waiting without a deadline (singleflight); evidence
that is ambiguous (silence, an undecided probe, a lost attempt of a
measurement). `PROJECT.json` lists each hazard at its line, with the property
that watches it or the reason none does.

## 2. Modules

### NetState (`netstate`, with its callers in `cliapp` and `janitor`)

`setting[o][s]` is what macOS holds for operation `o` on network service `s`,
`by` who wrote it, `wanted` what the user last chose. `pend` is the journal: the
file is an append-only stream of lines and every reader folds it from left to
right, so appending a line is an update of the fold and truncation empties it.
What the fold cannot see is kept apart: `torn` says that the file ends in a
fragment, to which the next append is welded.

Each process has a program counter. A run goes `Open`, then for each change
`Prepare` (capture, adoption check), `Begin` (record on disk), `ApplySlot` per
service, `Verify`, `Commit`; an error leads to `rollback`, which is the same
`RevertSlot`, `Check`, `Close`, `Scan`, `Trunc` that `UndoAll` and `Replay` go
through. `Reverify`/`Reapply` put a lost setting back, `Unwind` is panic or
teardown with its `revertOnce`. Two shapes of change exist: an *absolute* one
captures each service's value and sets it back (proxy, PAC, launchd
environment); an *adoptable* one adds a thing that may be there already (a
route), and deletes it only after looking — or without looking, when the table
cannot be read, which the code does on purpose and the model has too.

The environment: `Kill` at any step (leaving a fragment if a line was being
written), failing commands and appends, `Outside` changes by anybody, `Signal`
cancelling the bring-up's context.

### VerdictStore (`policy/store.go`, `cliapp/cachecmd.go`)

A map is a function; of its records' Used times, which are taken to be all
different, the model keeps the order, as a rank among the records of the map (1
is the least recently used). A closed store takes no `Put` and still answers
`Get`. `Flush` is five steps (copy under the mutex; create, write, rename without it;
mark under it) because everything else can happen between them. The CLI
commands are separate stores over the same file, and opening one sweeps
everybody's temp files. `raced` is history: it records that a flush had company
between its copy and its mark.

### Ladder (`flow/ladder.go`, `policy/singleflight.go`, `policy/scope.go`)

Connections to one host. A connection looks its verdict up (`Lookup`), then
leads, waits or follows (`Lead`, `Wait`, `Finish`). Each rung is passed over,
fails to dial, cannot be emitted, tears, is reset, is met with silence, is
rejected or is answered, as the network chooses. `RecordWin`, `Forget` and
`RecordLoss` write the store, under the network that is current *then*. The
store is a map with its threshold here; VerdictStore models the rest of it.

Left out: the response window's length (silence is just an outcome), the port in
the target, first messages that cannot be read or come from the server,
unparsable specs in the configuration, and the kill switch. A verdict that was
forgotten is not distinguished from none. `LadderAssumption` says that the
configured ladder has at least two rungs, without which the code takes a path
with no singleflight, and names none twice, since `rungs` drops a repeated one.

`DesyncIsEarned` has one exception, which the code makes: the order puts the
cached winner first, and a winner that does not apply to the first message (a
TLS rung on a plain HTTP request) is passed over without a dial, so that the
rung after it goes first (ladder.go:265-280, 329-333). With a ladder whose first
rung is plain, as all the built-in ones are, that rung is plain.

### Netwatch (`netwatch/watcher.go`, `cliapp/netwatchrun.go`)

The machine (`net`, `behind`, `vpn`, `intact`) moves on its own. `raw` is the
routing channel of capacity one, `timer` the debounce timer with its cap. A
reaction is a walk of `pc` through `onChange`, `settle` or `repoll`: read the
facts, judge, quiesce, swap the namespace, re-verify, probe, resume. `holds` is
the set of suspension reasons; the watcher's copy and the kill switch's are
always pushed together and are one variable, as are the two copies of the
network identity. Time passes only for the debounce timer; the portal poll and
the sleep tick may come whenever they are armed. `Probe` asks the canaries:
each returns clean, intercepted or an error, and `Verdict` needs two
interceptions, or one with a uniform DNS, and no clean answer, to believe in a
portal. A network without a portal intercepts at most one canary, and a portal
lets none through clean: with either of these the code would be wrong, and
nothing in it says otherwise.

### Resolve (`resolve/chain.go`, `poison.go`, `aaaa.go`, `server.go`)

Each goroutine in `Asks` walks one question: limit of questions in flight, AAAA
decision (with the NAT64 probe, a nested walk under `natMu`), cache, then the
rungs of the chain, each with its share of what is left of the deadline
(`rungBudget`). An answer passes the poison detector in three steps, as in the
code: `check`, `learn` (which counts the name under the answer and may condemn
it), `recheck`; a condemnation empties the cache of the liar's answers (`mark`,
`flush`), and only then the answer is `put`. Censored networks lie in plaintext
with a known sinkhole or with one address for everything, which only the quorum
finds out. `Move` changes the network at any moment and `Quiesce` is the
watcher's flush after it. `passed` is history.

### Emission (`strategy`, `ops`, `tlsmsg`, `httpmsg`, `emit`)

`Compile` is the planner as operators: a spec is checked (`Compiles`,
`Composes`), its operations are applied in the registry's order - rewriting the
Host header, re-framing the first record (`tlsfrag`, `tlsevery`), laying out
writes (`chunk`, `split`, `disorder`, `oob`), the decoys of `quicfake` - and the
result is a plan or a refusal. `Reserve` takes the plan's small writes from the
bucket, coalescing the tail when it runs low; `EmitSegment`, `ShortWrite`,
`Abort` and `Sent` emit it, setting and restoring the hop limit. A byte is its
index in the client's message, negative in another letter case, so that "the
stream is the client's" (`Clients`, `AllOf`) is about the order of numbers: the
client's own bytes in it are 1, 2, 3 and so on, whatever was added between them.
A header's name and value are found again after each rewrite whatever their case
(`Extent`), as the parser finds them.

### Scope and Session (`policy/scope.go`, `matcher.go`, `reverse.go`, `proxyfe`, `tunfe/tcp.go`, `flow/firstmsg.go`, `relay.go`)

Scope has operators only: normal forms of names, the three marks of a pattern,
suffix matching, prefixes, the order of compiled-in rules, user's rules, cache
and default, and the PAC script that restates them. Session calls them. A list
of rules is a set, each rule with the turn of the list it was read from (the
rules of one list agree in class and origin), and `First` is the rule the engine
acts on, `matched[0]`: the most specific, and among those the one read first.
`Lookup` says what the reverse table holds without the list behind it: an
address stays until as many others as the table has room for were learned after
it. Matching folds a name to punycode, the script only to lower case, and
`EqualFold`, by which the tunnel decides whether the hello names another host,
ignores case alone; `Folded` and `Lowered` keep the two apart.

Session is one connection from `Accept`/`Track` to its end: the request
(CONNECT, SOCKS5, HTTP with keep-alive, the PAC fetch) or the SYN of a tunnel
flow, the naming by reverse table and SNI, `ReadFirst` with its three bounds,
`Dial` or the ladder, and `Pipe` with the two directions `up` and `down`, each
arming its own read and write deadlines, half-closing the other side, and the
goroutine that poisons the deadlines when one direction has failed. `srv` is the
accept loop with its cap and the drain. A peer speaks by a script of segments,
each after it has got so many itself; the client's once it is acknowledged, the
origin's once a tunnel is dialled to it. What an origin answers to a plain
request is not in its script but in the request's `replies`.

### UdpSessions (`proxyfe/socks5udp.go`, `tunfe/udp.go`, `tunfe/dns.go`, `flow/udpflow.go`)

The association's one reader (`reader`) looks up, dials and inserts a session
while every other datagram waits; each session has a pump back to the client;
`closeAll` and the control connection end them. The tunnel gives each
four-tuple a goroutine. Both share the QUIC policy, the resolver inside the
process and the first datagram. Datagrams are records of the constants `Clients`
and `Hosts`; a workload is any sequence of them.

### Lifecycle (`cliapp/run.go`, `tunrun.go`, `runcontrol.go`, `tunfe/stack.go`)

`pc` walks runRun in its order: the lock, the journal, the janitor, the sockets
(bound, and closed again by hand if the subsystems cannot be built), the store,
the listeners, the settings, the tunnel. `todo` is what the current section of
the bring-up still has to do, `stack` the teardown steps pushed so far, `done`
the Manager's list and `holder` who has its mutex. `Do` has a beginning and an end and `UndoAll` a step per record, so that a
panic, a re-apply, a re-verification, a second signal and the unwinding
interleave. `DeviceOps` vanish with the tunnel's device. `once` is `revertOnce`,
`gate` the IPv6 gate. What a record is on disk is NetState's subject.

### Tune (`probe`, `cliapp/tune.go`, `apply.go`, `config/tuned.go`)

A measurement is a walk: preflight, baseline, classify, sweep, rank, save. The
line has a truth the tool cannot see (`truth` of a target, what a strategy
breaks) and noise (attempts lost, outages between rounds). The statistics are
operators: Wilson intervals from a table, elimination, the ranking. The save is
temp file, write, rename, with a crash between any two. An attempt that Ctrl-C
reaches is one of those that were not begun or were cut off (`CutShort`).

Candidates, ranking and ladder are folds over sequences. They are written with
FoldSeqs, two operators (`Folded`, `Kept`) that take a function and a set where
the library's folds take an operator, which no theorem can be stated about.

### SystemOps and Restoration (`netstate/op_*.go`, `adopt.go`)

One Op of one kind, command by command: `Capture` and adoption, the commands of
Apply and Revert (`put` with a `soft` flag for those whose failure is tidied
over), `Verify` and `VerifyReverted`, by the run or by a replay of the revived
record. Commands fail with or without effect, or claim a success they did not
have. `before` says whether a dead run left something of the same kind, or a
record of something else.

Restoration is the abstract specification: `owed` and `inForce` with three
moves: promise (owe a change), change (only while owing), settle (stop owing
only when nothing is in force). SystemOps instantiates it as `Abstract`, with
`owed` the journal's being non-empty and `inForce` the effect of any slot of
ours, and `Promised == Abstract!Spec` is a property of its run.

## 3. Runs

| run | cfg | states | properties |
|---|---|---|---|
| netstate | NetState.cfg | 3.6 million | `TypeOK`, `ResidueIsJournalled`, `UserValueRecoverable`, `NeverRestoresAListener` |
| verdict_store | VerdictStore.cfg | 1.7 million | `CleanMeansSaved`, `PutIsVisible` |
| ladder | Ladder.cfg | 0.2 million | `DesyncIsEarned`, `LearnedFromEvidence`, `PoisonIsNeverHandedOver`, `EveryoneReturns` |
| netwatch | Netwatch.cfg | 0.2 million | `BeliefIsCurrent`, `SwapIsClean`, `ChangeIsFollowed`, `SettingsComeBack` |
| resolve | Resolve.cfg | 0.2 million | `PoisonStaysOut`, `EveryEncryptedRungAsked`, `EveryQuestionEnds`, `StaleAnswersDieOut` |
| emission | Emission.cfg | 66 thousand | `StreamIsTheClients`, `NameIsHidden`, `HopLimitRestored` |
| session | Session.cfg | 66 thousand | `StreamsAreWhole`, `ExclusionHolds`, `DrainIsFinal`, `SteadyHelloIsWhole`, `RelayEnds` |
| lifecycle | Lifecycle.cfg | 0.3 million | `ExitIsClean`, `ChangesAreCovered`, `NothingPointsNowhere`, `StopEnds` |
| udp | UdpSessions.cfg | 0.1 million | `NothingLeaks`, `RepliesGoHome`, `SessionsEnd` |
| tune | Tune.cfg | 10 thousand | `NoInventedWinner`, `HarmIsSeen`, `WeatherIsNotBlame`, `ProfileIsWhole` |
| sysops | SystemOps.cfg | 0.4 million | `UserGetsThemBack`, `Promised`, `RevertConverges` |
| sysops_dns | SystemOpsDns.cfg | violation | `RevertConverges` |

All pass but the last, which is a finding. `dpb run --tun` points the services
at the tunnel's resolver, 10.255.90.1. Killed there and started again, the
second run captures that address as the user's, because `notSelfServers`
(adopt.go:112) drops only loopback addresses; every revert then installs it
again and its own `VerifyReverted` refuses it, so the record is never closed.
The comments at op_dns.go:93-97 and manager.go:241-243 say the opposite.

Every property has a mutant: a plausible bug in one mapped definition (the
operator beside it in the module, marked `mutant of`) under which TLC finds the
property violated.

### Bounds, and why they are enough

- *netstate*: two runs (a crashed one and its successor is the shortest story in
  which leftovers are met), one repairer, one absolute and one adoptable change,
  one service, a corporate and a loopback value of the user's, `MaxSeq` 2 (two
  changes in a run, or one and a re-apply), one failure and one outside change,
  kills of runs unbounded. The two runs are symmetric, each together with its
  listener.
- *verdict_store*: both caps are 1 so that any second host or network evicts;
  `FlushPending` 2 and a threshold of 2 so that both are reached by two updates;
  `TTL` 0 with one tick so that expiry happens between any two steps; one fault.
  Goroutines and hosts are symmetric; no liveness is checked under symmetry.
- *ladder*: two connections are a leader and a waiter, or two independent walks;
  two dials; the configured ladder does not begin with plain, so that order is
  the code's work; one rung that needs a whole ClientHello and one that applies
  to everything and poisons; a threshold of 2; one change of network.
- *netwatch*: two moves (there and back, or one move while the other is being
  settled), one failure, `Debounce` 2 ticks capped at 3: one extension fits
  under the cap, the next does not.
- *resolve*: two goroutines, one of them of the local server; a plaintext and an
  encrypted rung, in the order in which the censor is met first; a quorum of 2
  with two blocked names, so that the condemning answer and the one before it
  overlap; a deadline of exactly one second per rung; a cache of one entry; three
  workloads (names side by side, one name across a move, IPv6 across a move)
  instead of their product, which is beyond the time of a run.
- *emission*: nine messages, cut at each place that matters (before the name,
  after it, with more behind), every ladder's rungs and sixteen typed specs on
  each, with both transports, with and without hop limits, strict or not; sizes
  on both sides of the name's place; `MaxSegments` and `Burst` 4, which a plan
  of the smallest chunks exceeds; two flows on the bucket.
- *session*: names of at most four labels, four-bit addresses with a rule, a
  bogon and a loopback prefix on them; `MaxConns` 1; three ticks of
  `MaxAssembly` over waits of two; a reverse table of two entries and three
  answers. Most jobs have one connection, since handlers share only the count of
  connections, which the pairs are for.
- *lifecycle*: ten runs, each with the events that can meet: the product of all
  events is only more of the same interleavings.
- *udp*: up to five datagrams of two client ports and a stranger; caps of one,
  two and three sessions.
- *tune*: one or two blocked targets, a control and a fragile host, seven
  strategies of which one cannot be built; `MaxTrials` 6; at most one attempt
  lost and two outages begun or ended, which is an outage of one round or
  of two. One job is interrupted in a round of three targets, so that some of its
  trials are over and some are not.
- *sysops*: two services, so that a revert fails half-way; a fault and an outside
  change; the residue of one dead run.
- `CHECK_DEADLOCK FALSE` is set where the modelled story ends: a run that has
  exited, a watcher that stopped the process, clients that stop connecting.

### Fairness

- NetState, VerdictStore, Emission, Tune: only safety is checked; nothing is
  assumed.
- Ladder: weak fairness of each connection's own steps: dials, writes and the
  response window have deadlines. Whether an answer comes is never assumed.
- Netwatch: weak fairness of time and of a reaction's steps (each hook runs under
  the step budget); strong fairness of the cases of the `select`, which Go
  chooses among at random, so that a case ready again and again is not passed
  over for ever. The machine and its user owe nothing; routing churn may go on
  for ever.
- Resolve: strong fairness of a question's steps (each try has a timeout; a Go
  mutex in starvation mode is handed to the longest waiter), weak fairness of
  expiry and of the watcher's flush. No server has to answer.
- Session: weak fairness of the goroutines that can run: the two copies, the
  collection of their results, the poisoning of deadlines. Peers, clocks and the
  idle bound owe nothing, so a relay's end does not depend on them.
- UdpSessions: weak fairness of the reader, of the drain, and of a session's own
  steps; an open socket's deadline owes nothing, a closed socket ends the read
  that waits on it.
- Lifecycle: weak fairness of the main goroutine, of each control request and of
  the janitor's replay, since every command they run has a timeout. Nothing
  obliges a signal, a request or a failure to come.
- SystemOps: weak fairness of the revert's steps: the janitor runs at once, the
  login agent at every login, each until it is through.

## 4. What is proved

Thirty-nine theorems in eight modules, each for every value of the constants that
the named assumptions admit. The argument is the same throughout: an inductive
invariant, which TLC checked first on the run's instance, holds at `Init`, is
kept by every action (one lemma each, or one for actions that disturb the same
things) and gives the property.

### NetStateProofs

For every set of runs, repairers, operations, services and values:

- `TypeCorrect`: `Spec => []TypeOK`, with no condition on the environment.
- `JournalCorrect`: `Spec => []ResidueIsJournalled` when `Hazards = {}`.
- `NoListenerRestored`: `Spec => []NeverRestoresAListener` when `Hazards = {}`.
- `UserValueKept`: `Spec => []UserValueRecoverable` when `Hazards = {}`.

`Hazards = {}` says that no replay runs beside a live run, and that an append is
all or nothing except for a kill. Both conditions are necessary: with "overlap"
TLC finds a compaction that truncates a new run's first record, and with
"shortWrite" a fragment that swallows the next record. Otherwise only the named
assumptions of NetState are used: that runs and repairers, the two shapes of
change, and the user's values and dpb's listeners are disjoint, and that the
primary service is one of the services.

None of it is inductive. That a setting is covered by some record is no help
when a record is *closed*: one must know that closing it leaves the rest
covered. `IInv` adds:

- `Excl`: at most one process works on the journal (the run lock, and no
  overlap);
- `SeqUnique`: sequence numbers in the journal are distinct, which rests on a
  run's counter being at least every number in the file (`Local`);
- `ListenerIsOurs`: a listener found in an absolute setting was written by a run,
  hence (by the residue property) is in the journal, hence the next run has
  `PriorResidue` and discards it;
- `Local(p)`: what the one working process knows: the file has no fragment,
  its stack and the record in hand are outstanding, the record about to be begun
  is fresh and restores no listener, and at `close` *every* setting is covered by
  another record (`CoveredWithout`), which is what the revert loop and its
  read-back establish.

`UserValueKept` has an invariant of its own on top, `UInv`: the oldest record of
a setting holds the user's value, and reverting from the youngest to the oldest
never lets another record become the oldest unless it holds that value too.

### VerdictStoreProofs

For any goroutines, tools, networks, hosts, lifetime, caps and threshold:

- `CleanIsSaved`: `Spec => []CleanMeansSaved`. That a clean store is on disk says
  nothing about a Flush under way, which marks the store clean later, on the
  strength of a copy it took earlier. The invariant adds what it carries: unless
  `raced`, one store and one Flush are at work (`Alone`), a Get finds the same in
  the store as in the copy until the rename, and the same as in the file from
  there to the mark (`Carried`); the copy leaves out only what has expired, which
  a Get does not find, now or at any later time. `Flow`: only a running process
  flushes, and no half-written file is renamed.
- `PutIsFound`: `Spec => PutIsVisible`, an action property. The record used last
  has the highest rank of its map and eviction keeps the highest ranks, so a cap
  of at least one spares it; a network that makes room is spared in the same way.

The assumptions are that the caps and the threshold are positive
(`CapsPositive`), that the lifetime is a time, and that the threads of the daemon
and the tools are different ones (`ToolsApart`).

### StrategyProofs

About Ladder, Tune and Emission: which strategy a connection is tried with, which
one a measurement finds, and what a strategy makes of a first message.

**Ladder**, for any connections, hosts, kinds of message and configured ladder:
`EvidenceBeforeLearning` (`LearnedFromEvidence`), `FirstDial`
(`DesyncIsEarned`), `PlainFirst` (its exception is void when the ladder begins
with plain) and `NoPoison` (`PoisonIsNeverHandedOver`). The invariant follows a
walk: its first rung is plain or was answered before; until its first dial, the
rungs left behind were passed over because they do not apply; the verdict it
carries, its winner and whatever the store holds were answered; and a socket is
handed over on silence only for a rung that puts nothing of its own on the wire.
The proofs use that the ladder names no rung twice, which `add` in `rungs` sees to:
taking the cached winner out of it leaves none equal to it.

**Tune**, for any measurements, targets, resolvers, strategies and repetitions:

- `WinnersWork`: `TuneSpec => []NoInventedWinner`. `Evidence` says that a target is
  called blocked, a trial passes and a strategy has a pass to its name for a
  reason: with one attempt to lose, two or three dials of a reachable host do not
  all fail, so what is blocked is censored, and what passed there beats the
  censor. `Concluded` takes it to the report: the winner is one of the ranking
  that bypassed.
- `WeatherIsNobodys`: `TuneSpec => []WeatherIsNotBlame`. `Blameless` says of a round
  under way that each trial reads as the line, as it is, makes it read; the line
  does not change inside a round, so a round whose plain probe passed was one
  with the line up, and what a working strategy scored in it is a pass.
- `HarmShows`: `TuneSpec => []HarmIsSeen`. `Swept` knows where the sweep is and that
  the line is up while no outage has been spent. `Counted` says that a
  strategy that breaks the controls has no pass on them, and was tried on them
  before anything else was scored for it; that every candidate the sweep has
  passed by was tried, if the line stayed up; and, once the sweep is over, that
  the winner is harmful only if everything that bypassed is. That last step goes
  through the ranking: a harmless strategy is `Less` than a harmful one by the
  second key (`FairIsLess`), insertion keeps the harmless before the harmful in
  every prefix of the fold (`InsertAtIs`, `FoldedKeeps`), nothing that was tried
  is lost on the way (`KeptAll`), so the first to have bypassed is harmless if any
  is (`WinnerIsFair`).
- `ProfilesAreWhole`: `TuneSpec => []ProfileIsWhole`.

What is proved of a fold is proved without induction over its data, which the
prover cannot do: the partial results are a function on `0..Len(s)`, and a property
that holds at the first index and passes from each to the next holds at the
last, because a least counterexample (`LeastOf`, `Climb`) would contradict it.
`JobsAssumption` types the measurements and says that what `dpb apply` is given
compiles, `RegistryAssumption` types the strategies and says that plain is always
built and breaks nothing, `BoundsAreNumbers` that the numbers of repetitions are
positive.

**Emission**, for any messages, lists of operations, sizes, budgets and connections
that send at once:

- `HopLimits`: `EmitSpec => []HopLimitRestored`.
- `NamesAreHidden`: `EmitSpec => []NameIsHidden`.
- `StreamIsClients`: `EmitSpec => []StreamIsTheClients`.

None says anything about a plan still being made, so most of the proof is
about the planner. Each operation is shown to keep a builder sound
(`SoundBuilder`, by `ApplyOK`, one lemma per operation): what was parsed is what
the payload holds (so positions resolved after an earlier operation moved the
bytes are the right ones), a request keeps every byte it had (`Whole`), a
re-framed first record ends before the name does (`FirstRecord`), and a hop limit
is lowered on decoys and on the first of at least two writes only (`Aimed`). The
schedule each operation promises is stated beside it: after `chunk` no write
longer than a chunk reaches the end of the name (`Chunked`); after `disorder` and
`oob` the first write is shorter than the payload, and no two writes side by side
may be merged (`Fronted`). `BuildOK` carries both through the list of operations,
whose application is a recursive function on `0..n` and is followed by `Climb`,
as the folds of Tune are. `CoalesceOK` says that the governor's merging keeps
`Aimed`, and leaves a `Fronted` schedule as it is.

The invariant `EmitInv` then follows one connection (`FlowOK`): nothing is on the
wire before `Reserve`; a plan is as the planner leaves it (`PlanOK`); what was emitted
followed by what is left is a run of writes as promised (`Going`), of which every
prefix is one too, so a send that is broken off at any write, or inside one, still
satisfies it; and at the end the hop limit is the default unless `stuck`.
`CasesType` types the messages and the operations (`CaseSet`), and `WithinBody`
says of a message that its names are not empty and lie inside it, a label before
its colon and that before the value, and that it is shorter than the codes the
model gives to the bytes the program adds, without which such a byte could not be
told from the client's. `BudgetType` says that a plan may have one write and that
the bucket holds one. A list of operations is arbitrary: what the registry refuses
is refused by `Compiles`.

That the bytes are the client's needs the planner again, operation by operation
(`ApplyFaithful`). A payload is `Faithful` when the client's bytes run in it from
the first to the last (`Runs`) and every record header in it declares what
follows it (`Framed`); and, of a request, when it has no such header (`Headless`)
and nothing was put in between the letters of the label `Host` (`Unbroken`).
The last conjunct is there for induction only: a second rewrite looks for the
header that the first one left. A dot and padding are one case, a sequence
`Widened` by bytes of the program's; another spelling of the label changes no
magnitude. Re-framing goes by `Joined`: records set side by side carry the bytes
up to where the last one ends and none is left open (`Closed`), one more record at
a time along `cuts`, and the rest of the hello behind the first record last.
Cutting, merging and breaking off do not touch the payload: `Validate`, as the
code's, refuses a schedule whose writes do not add up to it; two writes made one
carry the same bytes (`CoalesceStream`); and what a prefix of the writes carries
begins it (`Begins`). The invariant `StreamInv` says so of each place a plan
passes through: of its segments when planned, of what was emitted with what is
left while sending, of the wire alone when sent, and of the beginning of the
payload when the send was broken off, at a write or inside one.

### UdpWatchProofs

About Netwatch and UdpSessions (whose variables and names are disjoint: in
Netwatch they carry a `Watch`).

**Netwatch**, for any number of moves, signals and failures: `NoLostWakeup`
(`BeliefIsCurrent`): the invariant says, at each `pc` of a reaction, which of "a
signal is queued", "the timer is armed" and "the facts just read are current"
makes up for a belief that differs from the machine. `CleanSwap` (`SwapIsClean`)
is an action property and follows from which holds and flushes precede the swap.
`WindowIsCapped`: what an armed timer has left and what has passed never exceed
the cap.

**UdpSessions**, for any clients, hosts, sequence of datagrams, cap and set of
failures: `Confined` (`NothingLeaks`), `RepliesToTheAsker` (`RepliesGoHome`),
`TableIsBounded` and `SessionsAreOfTheirKey`. The reader's `pc` decides what it may
be holding: a session found in the table, or one it has dialled and not
inserted, for the key of the datagram in hand; the cap survives the gap between
finding room and inserting because no one but the reader inserts.

### SystemOpsProofs

For every workload (kind of Op, what was there before, enabled services), any
number of faults and of outside changes, and wherever a process is killed:

- `TypeCorrect`: `Spec => []TypeInv`. Every command left is one of this Op over its
  own settings, and every record names them. The commands are sequences built by
  flattening, one group per service, so this needs what concatenating any number
  of sequences of commands gives.
- `UserGetsBack`: `Spec => []UserGetsThemBack`, with no condition.
- `ImplementsRestoration`: `Spec => Promised`, if no workload is a DNS Op over a dead
  run's DNS change. Each step of SystemOps is a promise, a change, a settling or a
  stutter of Restoration. The condition is necessary: it is where a list of
  dpb's own may be noted as what the user had (the finding below the table of
  runs), so that a list of ours stays when the youngest record is closed.

The invariant has four parts. `Working` is typing and control: whose turn it is,
which record it is about, and that what an adopted record names is neither
applied nor reverted. `Facts` says what records and settings may contain:
nothing of ours is noted as the user's, and where no dead run's change is about
there is one record and one value of ours. `Payments` pays for the refinement:
what is in force is owed by a record that was not adopted (`Owing`), and a Revert
that has met no error has, for each setting, either put it back or still
has the command that will, with none after it that touches the setting (`Sweep`),
which is what `VerifyReverted` then relies on. `Returns` pays for the user: the
oldest record says what the user had (`Base`), a proxy setting holds that, nothing
or what a run installed (`Mixed`), and with no record left it is back
(`Settled`). The assumptions type the workloads and the two bounds
(`WorkloadsKnown`, `BoundsAreNat`), and say that a DNS Op has a service to work
on, without which `dpb` skips it (stack.go:677).

### LifecycleProofs

`TypeCorrect`, `CleanExit` (`ExitIsClean`), `Covered` (`ChangesAreCovered`) and
`NeverBlackholed` (`NothingPointsNowhere`), each as `Spec => [](NotBoth => P)`,
where `NotBoth` says that a run is not asked for both a panic and a re-apply.
That condition is necessary: it is the finding of section 5 that a re-apply after
a panic's revert leaves settings which nothing in the run undoes. The invariant
relates the section of the bring-up, the stack of teardown steps, the Manager's
list and the holder of its mutex; the teardown's order is that of the stack, so
that what a step needs is still up when it runs. `LifecycleAssumption` types the
jobs.

### ResolveProofs

`NoRungIsStarved` (`EveryEncryptedRungAsked`), for any chain, deadline and cost:
when rung `i` is tried, at least a second is left for each rung after it.
`NoSinkholeIsCached`, with no condition. `PoisonIsCounted`:
`Spec /\ []Room => []PoisonStaysOut`, where `Room` says that the detector's map
is below its cap; the corollary `PoisonStaysOutWithRoom` has it from there being
fewer possible answers than the cap. With a full map TLC finds the property
violated, which is how the code behaves (section 5). The invariant says that a
name let through under an answer is counted under it, that fewer than the quorum
were let through, and what each goroutine between check, count and second check
has made sure of.
`NoneIsNoAnswer` says that "no answer" is not one of the answers.

### SessionProofs

For any number of connections, any scripts of their peers and every bound:

- `WholeStreams`: `Spec => []StreamsAreWhole`. `Streams` states where every byte
  is, per connection and `pc`: nothing was sent (`Silence`); or what the client
  said is the first-message buffer followed by what is unread (`Buffered`); or
  it is at the origin, and what the origin said is with the ladder or unread
  (`Connected`); or, for each direction of the relay, it is delivered, held by
  the copy or unread, unless that direction failed, in which case only the
  prefix is left (`Relayed`); an end with no error needs both directions to have
  seen the end of their source with nothing held or unread.
- `ExcludedStayOut`: `Spec => []ExclusionHolds`, for every policy, bogon table,
  reverse table and folding of labels. About the operators of Scope: `First` is
  in the set and nothing in it is more specific, nor as specific and read earlier
  (`FirstIs`; that a least turn and a greatest length exist comes from
  `LeastOf`, the well-foundedness of strict inclusion among finite sets); a rule
  matches the folded name exactly when its pattern covers the name
  (`MatchIsCover`). Hence a covering bypass that did not decide lost to a longer
  include (`NameSpared`), and a judged address has no bypass before it
  (`AddrSpared`, where every rule is a bypass). `FoldSpared`: hosts equal but for
  case are excluded alike, so a hello that does not overrule the table's name
  names no excluded host either. `ScriptSparesBypasses`: what a pattern covers in
  lower case it covers folded. The invariant `Scoped` carries this along a
  connection: what `precheck` and `first` hold is a spared host, the message is
  not read whole before them, and a handler that laddered was `Allowed` to. The
  keep-alive loop is why it knows which protocols come back to `readreq`.
- `FinalDrain`: `Spec => []DrainIsFinal`. `Counted` says that the count is the
  number of running handlers, and that nothing is admitted once the drain has
  begun: the proxy because it no longer listens, the tunnel because `track`
  admits and counts in one step, and refuses when closed.
- `PatientReader`: `Spec => SteadyHelloIsWhole`. `Patient` relates the two clocks
  of a read: while a handler waits for the rest of a first message and nothing is
  unread, the client has been silent at least as long as the reader's own
  deadline has run, so that deadline, renewed by every byte, cannot run out on a
  client that keeps talking.

`ScriptsAssumption` says that a script is a sequence of items, and
`BoundsAssumption` that the caps are natural numbers and the waits positive ones.
`JobsAssumption` and `BogonsAssumption` are typing (the compiled-in patterns are
names, not addresses). `FoldingAssumption` is what `toASCII` after lower-casing
gives: folding twice is folding once, spellings that agree in lower case fold
alike, and lower-casing neither makes nor removes an empty label.

### Model-checked only

- All liveness (`EveryoneReturns`, `ChangeIsFollowed`, `SettingsComeBack`,
  `EveryQuestionEnds`, `StaleAnswersDieOut`, `RelayEnds`, `StopEnds`,
  `SessionsEnd`, `RevertConverges`): fairness and `ENABLED` are out of the
  prover's reach.
- `RevertConverges` for the DNS Op over residue, which is the finding.

## 5. What is not modelled, and what the models show beside the properties

Each entry of `components` with status `not_modelled` or `partly` says why. In
short: parsing and formatting (scutil, routing messages, TLS, HTTP, DNS wire,
configuration), the TCP/IP stack, network I/O itself, reporting, and command
lines. Also left out: host lookups that ask both address families at once, the
reverse table's lifetimes, the DoH bootstrap, the ranking of alternate ports, the
respawn of the process by launchd, the choice of exit codes, and the operator's
`dpb on`/`dpb off` lever, which pushes a reason on the kill switch of Netwatch.

Assumptions about the world: a failing `route add` creates nothing; a look at
the routing table and the delete that follows are one step; a portal lets no
canary through, and a network without one intercepts at most one of them.

While modelling, the following was met. None of it is claimed as a property; a
property that would fail for one of these reasons excludes it by name, where it
is defined.

Settings (`netstate`)

- A compaction reads the pending records and then truncates the file; another
  process may append in between (journal.go:282). The run lock, which
  journal.go:56-59 counts on, is not held by `doctor --repair`.
- A rollback uses the context whose cancellation caused it (manager.go:255), so a
  Ctrl-C during bring-up can leave a change to the janitor.
- A setter that claims a success it did not have, during a revert over an older
  record, can leave another run's value in force: `VerifyReverted` looks only for
  the values of its own record (`lied`). Records closed out of order let a
  younger record switch a restored setting off later (`overtaken`).
- The absolute revert of a proxy overwrites what the user chose meanwhile, which
  op_proxy.go:360 calls a bug of its own.
- `pacFileOp` ignores PriorResidue, and writes the file in place.
- tunrun.go:282-286 expects an empty list of services to make the DNS Op ask
  macOS; stack.go:677 skips the Op when the list is empty.
- PriorResidue's second criterion, a dead owner in the lock record, cannot be met
  inside `dpb run`, which has installed its own record by then (lock.go:310-318).

Run lifecycle (`cliapp`, `front/tunfe`)

- A re-apply (`dpb coverage --fix`) that begins after a panic's revert puts
  settings back that nothing in the run undoes, since `revertOnce` is spent
  (runcontrol.go:173); their records stay for the next replay.
- `dpb panic` to a `--tun --proxy-style none` run is answered "reverted" before
  anything is (runcontrol.go:185-191).
- The IPv6 gate stays open when macOS flushes the IPv6 routes, when their
  re-verification fails and during a panic, and a dry run opens it
  (stack.go:490-503).
- A failed revert makes the exit non-zero, on which launchd starts dpb again; the
  janitor is stopped before the exit in that case too (janitor.go:93). The
  control exchange's 5 seconds are less than the revert's 10.

Decisions and learning (`policy`, `flow`, `netwatch`)

- A put during a flush may be marked clean and not be in the file (store.go:332,
  against 339); `CleanMeansSaved` excludes it as `raced`.
- A cached winner that does not apply to the first message is passed over
  without a dial, and a desync after it goes first in a ladder that does not
  begin with plain (ladder.go:265-280, 329-333); `DesyncIsEarned` excludes it.
- A POST whose cached winner does not apply fails with nothing sent
  (ladder.go:306, against 420-421).
- A change the routing socket missed waits for the next signal (watcher.go:499,
  against 549-550), and an undecided probe releases the portal hold
  (watcher.go:753, against portal.go:146-147).
- The PAC script matches text: a root dot or a name in its other spelling is not
  matched, as a longer include is; reload swaps rules but neither the include
  set, the inspected ports nor the PAC's bypasses.

Resolver

- A detector whose map is full counts no further answers, so that a poisoner met
  after that is never condemned (poison.go `learn`, `uniformCap`).
- `poisonSeen` is never reset; a cancelled NAT64 probe is remembered for ten
  minutes; the probe spends the deadline of the question that started it; a
  cache hit does not refresh the reverse table.

Relays and datagrams (`flow`, `front`)

- Reading a response and writing a request's body have no deadline, and neither
  has the client's write of the acknowledgement; a 1xx is taken for the final
  answer (http.go serveForward).
- Each direction of a UDP session has its own idle deadline, so a flow busy in
  one direction ends; one slow name holds up the association's other datagrams
  (socks5udp.go:327); with no resolver wired, queries are relayed.
- A second Initial on a judged tunnel session leaves without decoys (against
  udp.go:200-206).
- The governor's coalesced tail may carry a whole host name (chunk.go:49-51
  against sender.go:174-178): `NameIsHidden` claims the chunked plan, and for what
  is emitted only what holds of it.

Measurement (`probe`)

- `less` of rank.go claims a strict weak ordering, and `cmpFragile` is not
  transitive. The winner is never compared with plain.
- An outage between the two baseline dials invents a blocked target; without a
  control there is no sign of life at all; a target pinned to a sinkhole counts
  as blocked. A mixture of targets blocked by address and open ones ends as
  "nothing blocked", as an interrupted baseline does.
- A verifying `dpb apply` does not check the controls its help mentions, and
  never sets the noise rate (apply.go:47-48).
- A handshake that Ctrl-C cuts off is a reset to `classifyHandshake` (trial.go:343:
  `context.Canceled` is no timeout), and is scored if the plain probe of its round
  had passed; in the last round of the sweep `Evaluate` does not look at the
  context again and returns no error, so the profile is written with it. The
  comment at trial.go:59-61 says that what is not the emitter's doing is not
  scored. `WeatherIsNotBlame` and `HarmIsSeen` exclude an interrupt by name.
- That harm is seen needs controls the line reaches: a control behind an address
  block is never scored, and a strategy that breaks it has nothing against it.

## 6. Plan

Done: NetState and its first proofs, VerdictStore, Ladder, Netwatch, Resolve,
Emission, Scope with Session, UdpSessions, Lifecycle, Tune, SystemOps with
Restoration.

Left, in order of worth:

1. Host lookups over both families, with the reverse table's lifetimes.
2. The composition of Lifecycle and Netwatch on one kill switch, with the
   operator's lever.
3. The event bus of `observ` (publish against close, slow subscribers).
