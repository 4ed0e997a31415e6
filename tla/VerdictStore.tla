---------------------------- MODULE VerdictStore ----------------------------
(***************************************************************************)
(* The durable verdict cache (internal/policy/store.go): what was learned  *)
(* about each host on each network, in memory under one mutex, flushed to  *)
(* one JSON file by whichever connection goroutine happens to cross the    *)
(* threshold.  Flush holds the mutex to copy the map, drops it to write    *)
(* and rename a temp file, and takes it again to mark the store clean, so  *)
(* everything else may happen in between.                                  *)
(*                                                                         *)
(* The same file is opened by other processes: `dpb cache list', `cache    *)
(* forget', `status' and `why' each load it, sweep the temp files beside   *)
(* it, and Close what they loaded.  A process may be killed at any step    *)
(* and any file operation may fail.                                        *)
(*                                                                         *)
(* A map is a function on what is in it.  Of the Used times, taken to be   *)
(* all different, only the order matters, so a record's used is its rank   *)
(* among the others of its map, 1 the oldest.                              *)
(***************************************************************************)
EXTENDS Naturals, FiniteSets

CONSTANTS
    Workers,      \* connection goroutines of the running dpb
    Tools,        \* one-shot CLI processes that open the same file
    Nets, Hosts, Kinds,
    DefaultNet,   \* NetworkID{}: the namespace the CLI tools use
    HostCap, NetworkCap, DemoteThreshold, FlushPending,
    TTL,          \* a learned verdict's life, in ticks
    MaxTime,      \* bound: ticks
    MaxUpdates,   \* bound: verdicts put and demoted
    MaxFaults     \* bound: failed file operations and kills

ASSUME CapsPositive == {HostCap, NetworkCap, DemoteThreshold} \subseteq Nat \ {0}
ASSUME TTLIsTime == TTL \in Nat
ASSUME DefaultIsNet == DefaultNet \in Nets
ASSUME ToolsApart == Workers \cap Tools = {} /\ "daemon" \notin Tools

Stores     == {"daemon"} \cup Tools
Threads    == Workers \cup Tools
StoreOf(t) == IF t \in Workers THEN "daemon" ELSE t
Verdict    == [kind: Kinds, losses: 0..(DemoteThreshold - 1), until: Nat]

\* A table maps networks to [used, hosts], and hosts maps hosts to
\* [used, verdict].
NoRecords  == [x \in {} |-> x]
EmptyTable == NoRecords

VARIABLES
    table,    \* table[s]: fileStore.nets of store s
    state,    \* state[s]: "absent", "open", "closed"; a tool runs once: "ended"
    dirty, pending,  \* fileStore.dirty, fileStore.pending
    disk,     \* the file: a table, or Torn
    temp,     \* temp[t]: the temp file thread t is writing
    pc, snap, \* pc[t], snap[t]: where t is in Flush, and its copy
    now, updates, faults,
    raced     \* history: a store changed, or another Flush or process was at
              \* work, between some Flush's copy and its mark

Torn == [n \in {"torn"} |-> NoRecords]

shared == <<disk, temp>>
bounds == <<now, updates, faults>>
vars   == <<table, state, dirty, pending, shared, pc, snap, bounds, raced>>

Expired(v) == now > v.until
Has(tb, n, h) == n \in DOMAIN tb /\ h \in DOMAIN tb[n].hosts

\* The records of m with their ranks counted anew; some of them; and m with
\* record r at x, used last of all.
Ranked(m) ==
    [x \in DOMAIN m |->
        [m[x] EXCEPT !.used = Cardinality({y \in DOMAIN m : m[y].used <= m[x].used})]]
Only(m, S) == Ranked([x \in S |-> m[x]])
Latest(m, x, r) ==
    Ranked([y \in DOMAIN m \cup {x} |->
               IF y = x THEN [r EXCEPT !.used = Cardinality(DOMAIN m) + 1] ELSE m[y]])
Without(hs, h) == Only(hs, DOMAIN hs \ {h})

\* What Flush writes: every network, and its unexpired hosts.
Live(tb) ==
    [n \in DOMAIN tb |->
        [tb[n] EXCEPT !.hosts = Only(@, {h \in DOMAIN @ : ~Expired(@[h].verdict)})]]

\* The network n of tb, used last, with these hosts.
UseNet(tb, n, hs) == Latest(tb, n, [used |-> 0, hosts |-> hs])

\* (mutant of EvictNetworks: the namespace just created has no Used time yet
\* and is not spared)
EvictNetworksKeepless(tb, n) ==
    IF Cardinality(DOMAIN tb) < NetworkCap THEN UseNet(tb, n, NoRecords) ELSE tb

\* evictNetworks: make room for a network that is not there yet.
EvictNetworks(tb, n) ==
    UseNet(Only(tb, {m \in DOMAIN tb :
                        tb[m].used + NetworkCap > Cardinality(DOMAIN tb) + 1}),
           n, NoRecords)

\* evictHosts: the least recently used hosts go.
EvictHosts(hs) ==
    Only(hs, {h \in DOMAIN hs : hs[h].used + HostCap > Cardinality(DOMAIN hs)})

\* The table after a verdict is put; what is put in a network that is no longer
\* in the map is lost.
PutIn(tb, n, h, v) ==
    LET room == IF n \in DOMAIN tb THEN tb ELSE EvictNetworks(tb, n)
    IN  IF n \notin DOMAIN room THEN room
        ELSE UseNet(room, n,
                    EvictHosts(Latest(room[n].hosts, h, [used |-> 0, verdict |-> v])))

\* The table after so many losses: DemoteThreshold of them drop the host.
DemoteIn(tb, n, h, losses) ==
    LET hs == tb[n].hosts
        v  == [hs[h].verdict EXCEPT !.losses = @ + losses]
    IN  UseNet(tb, n, IF v.losses >= DemoteThreshold THEN Without(hs, h)
                      ELSE Latest(hs, h, [used |-> 0, verdict |-> v]))

\* A table of one verdict.
OneHost(n, h, v) ==
    [m \in {n} |-> [used |-> 1, hosts |-> [x \in {h} |-> [used |-> 1, verdict |-> v]]]]

\* What an earlier run may have left on disk: a host one loss short of dropped.
OneLossLeft(k) == [kind |-> k, losses |-> DemoteThreshold - 1, until |-> TTL]
LeftBehind ==
    {OneHost(n, h, OneLossLeft(k)) : n \in Nets, h \in Hosts, k \in Kinds}

Init ==
    /\ table = [s \in Stores |-> EmptyTable]
    /\ state = [s \in Stores |-> "absent"]
    /\ dirty = [s \in Stores |-> FALSE] /\ pending = [s \in Stores |-> 0]
    /\ disk \in {EmptyTable} \cup LeftBehind
    /\ temp = [t \in Threads |-> "none"]
    /\ pc = [t \in Threads |-> "idle"]
    /\ snap = [t \in Threads |-> EmptyTable]
    /\ now = 0 /\ updates = 0 /\ faults = 0
    /\ raced = FALSE

\* Threads past the copy of their Flush.
Flushing == {t \in Threads : pc[t] \notin {"idle", "copy"}}
Race     == raced' = (raced \/ Flushing # {})

-----------------------------------------------------------------------------

Running(s) == state[s] \in {"open", "closed"}

\* OpenStore: sweep every temp file beside the store, then load it.
OpenStore(s) ==
    /\ state[s] = "absent"
    /\ temp' = [t \in Threads |-> "none"]
    /\ table' = [table EXCEPT ![s] = IF disk = Torn THEN EmptyTable ELSE disk]
    /\ disk' = IF disk = Torn THEN EmptyTable ELSE disk
    /\ state' = [state EXCEPT ![s] = "open"]
    /\ raced' = (raced \/ \E o \in Stores : Running(o))
    /\ UNCHANGED <<dirty, pending, pc, snap, bounds>>

\* `dpb cache clear' removes the file.
Clear(t) ==
    /\ t \in Tools /\ state[t] = "absent"
    /\ state' = [state EXCEPT ![t] = "ended"]
    /\ disk' = EmptyTable
    /\ raced' = (raced \/ \E o \in Stores : Running(o))
    /\ UNCHANGED <<table, dirty, pending, temp, pc, snap, bounds>>

Idle(t) == pc[t] = "idle" /\ state[StoreOf(t)] = "open"

\* shouldFlush: at the pending threshold, or when the interval has passed.
MaybeFlush(t, s) ==
    \E due \in BOOLEAN :
        /\ pending'[s] >= FlushPending => due
        /\ pc' = IF due THEN [pc EXCEPT ![t] = "copy"] ELSE pc

\* Get drops an expired verdict on the spot, and otherwise only touches it; a
\* closed store still answers.
Get(t, n, h) ==
    LET s  == StoreOf(t)
        hs == table[s][n].hosts
    IN  /\ pc[t] = "idle" /\ Running(s) /\ Has(table[s], n, h)
        /\ IF Expired(hs[h].verdict)
           THEN /\ table' = [table EXCEPT ![s][n].hosts = Without(@, h)]
                /\ dirty' = [dirty EXCEPT ![s] = TRUE]
                /\ Race
           ELSE /\ table' = [table EXCEPT ![s] = UseNet(@, n, Latest(hs, h, hs[h]))]
                /\ UNCHANGED <<dirty, raced>>
        /\ UNCHANGED <<state, pending, shared, pc, snap, bounds>>

Put(t, n, h, k) ==
    LET s == StoreOf(t)
        v == [kind |-> k, losses |-> 0, until |-> now + TTL]
    IN  /\ Idle(t) /\ t \in Workers /\ updates < MaxUpdates
        /\ updates' = updates + 1
        /\ table' = [table EXCEPT ![s] = PutIn(@, n, h, v)]
        /\ dirty' = [dirty EXCEPT ![s] = TRUE]
        /\ pending' = [pending EXCEPT ![s] = @ + 1]
        /\ MaybeFlush(t, s)
        /\ Race
        /\ UNCHANGED <<state, shared, snap, now, faults>>

Demote(t, n, h) ==
    LET s == StoreOf(t)
    IN  /\ Idle(t) /\ t \in Workers /\ Has(table[s], n, h)
        /\ updates < MaxUpdates /\ updates' = updates + 1
        /\ table' = [table EXCEPT ![s] = DemoteIn(@, n, h, 1)]
        /\ dirty' = [dirty EXCEPT ![s] = TRUE]
        /\ pending' = [pending EXCEPT ![s] = @ + 1]
        /\ MaybeFlush(t, s)
        /\ Race
        /\ UNCHANGED <<state, shared, snap, now, faults>>

\* `dpb cache forget': the demotion threshold applied at once, in the default
\* namespace, then an explicit Flush.
Forget(t, h) ==
    /\ Idle(t) /\ t \in Tools /\ Has(table[t], DefaultNet, h)
    /\ table' = [table EXCEPT ![t] = DemoteIn(@, DefaultNet, h, DemoteThreshold)]
    /\ dirty' = [dirty EXCEPT ![t] = TRUE]
    /\ pending' = [pending EXCEPT ![t] = @ + DemoteThreshold
                                           - table[t][DefaultNet].hosts[h].verdict.losses]
    /\ pc' = [pc EXCEPT ![t] = "copy"]
    /\ Race
    /\ UNCHANGED <<state, shared, snap, bounds>>

-----------------------------------------------------------------------------
(* Flush.                                                                   *)

Step(t, from, to) == pc[t] = from /\ pc' = [pc EXCEPT ![t] = to]

\* Under the mutex: return if clean, otherwise copy.
Copy(t) ==
    LET s == StoreOf(t)
    IN  /\ Step(t, "copy", IF dirty[s] THEN "create" ELSE "idle")
        /\ snap' = IF dirty[s] THEN [snap EXCEPT ![t] = Live(table[s])] ELSE snap
        /\ raced' = (raced \/ (dirty[s] /\ Flushing # {}))
        /\ UNCHANGED <<table, state, dirty, pending, shared, bounds>>

Create(t) ==
    /\ Step(t, "create", "write")
    /\ temp' = [temp EXCEPT ![t] = "partial"]
    /\ UNCHANGED <<table, state, dirty, pending, disk, snap, bounds, raced>>

\* Write and fsync; an unlinked file can still be written.
Write(t) ==
    /\ Step(t, "write", "rename")
    /\ temp' = [temp EXCEPT ![t] = IF @ = "none" THEN "none" ELSE "full"]
    /\ UNCHANGED <<table, state, dirty, pending, disk, snap, bounds, raced>>

\* Rename fails when somebody swept the temp file.
Rename(t) ==
    /\ Step(t, "rename", IF temp[t] = "none" THEN "idle" ELSE "mark")
    /\ snap' = [snap EXCEPT ![t] = EmptyTable]
    /\ disk' = CASE temp[t] = "none" -> disk
                 [] temp[t] = "partial" -> Torn
                 [] OTHER -> snap[t]
    /\ temp' = [temp EXCEPT ![t] = "none"]
    /\ UNCHANGED <<table, state, dirty, pending, bounds, raced>>

\* Under the mutex again: the store is clean.
Mark(t) ==
    /\ Step(t, "mark", "idle")
    /\ dirty' = [dirty EXCEPT ![StoreOf(t)] = FALSE]
    /\ pending' = [pending EXCEPT ![StoreOf(t)] = 0]
    /\ snap' = [snap EXCEPT ![t] = EmptyTable]
    /\ UNCHANGED <<table, state, shared, bounds, raced>>

\* (mutant of WriteFails: the store is marked clean although nothing was saved)
WriteFailsClean(t) ==
    /\ faults < MaxFaults /\ faults' = faults + 1
    /\ pc[t] \in {"create", "write", "rename"}
    /\ Step(t, pc[t], "idle")
    /\ temp' = [temp EXCEPT ![t] = "none"]
    /\ dirty' = [dirty EXCEPT ![StoreOf(t)] = FALSE]
    /\ snap' = [snap EXCEPT ![t] = EmptyTable]
    /\ UNCHANGED <<table, state, pending, disk, now, updates, raced>>

\* Any of the file operations fails: the temp file goes, the store stays dirty.
WriteFails(t) ==
    /\ faults < MaxFaults /\ faults' = faults + 1
    /\ pc[t] \in {"create", "write", "rename"}
    /\ Step(t, pc[t], "idle")
    /\ temp' = [temp EXCEPT ![t] = "none"]
    /\ snap' = [snap EXCEPT ![t] = EmptyTable]
    /\ UNCHANGED <<table, state, dirty, pending, disk, now, updates, raced>>

\* Close: no more Puts, and a last Flush.
Close(t) ==
    LET s == StoreOf(t)
    IN  /\ Idle(t)
        /\ state' = [state EXCEPT ![s] = "closed"]
        /\ pc' = [pc EXCEPT ![t] = "copy"]
        /\ UNCHANGED <<table, dirty, pending, shared, snap, bounds, raced>>

\* The process ends, or is killed: its memory goes, its temp files stay.
Gone(s) ==
    LET mine == {t \in Threads : StoreOf(t) = s}
    IN  /\ Running(s)
        /\ IF state[s] = "closed" /\ \A t \in mine : pc[t] = "idle"
           THEN UNCHANGED faults
           ELSE faults < MaxFaults /\ faults' = faults + 1
        /\ state' = [state EXCEPT ![s] = IF s \in Tools THEN "ended" ELSE "absent"]
        /\ table' = [table EXCEPT ![s] = EmptyTable]
        /\ dirty' = [dirty EXCEPT ![s] = FALSE]
        /\ pending' = [pending EXCEPT ![s] = 0]
        /\ pc' = [t \in Threads |-> IF t \in mine THEN "idle" ELSE pc[t]]
        /\ snap' = [t \in Threads |-> IF t \in mine THEN EmptyTable ELSE snap[t]]
        /\ raced' = (\E o \in Stores \ {s} : Running(o))
        /\ UNCHANGED <<shared, now, updates>>

Tick ==
    /\ now < MaxTime /\ now' = now + 1
    /\ UNCHANGED <<table, state, dirty, pending, shared, pc, snap, updates, faults,
                   raced>>

Next ==
    \/ \E t \in Threads, n \in Nets, h \in Hosts :
          \/ Get(t, n, h) \/ Demote(t, n, h)
          \/ \E k \in Kinds : Put(t, n, h, k)
    \/ \E t \in Threads, h \in Hosts : Forget(t, h)
    \/ \E t \in Threads :
          Copy(t) \/ Create(t) \/ Write(t) \/ Rename(t) \/ Mark(t)
            \/ WriteFails(t) \/ Close(t) \/ Clear(t)
    \/ \E s \in Stores : OpenStore(s) \/ Gone(s)
    \/ Tick

Spec == Init /\ [][Next]_vars

-----------------------------------------------------------------------------
(* What the component promises.                                             *)

\* A verdict just put is there to be found: making room for it, at both caps,
\* never evicts the host or the namespace it was put in.
PutIsVisible ==
    [][\A t \in Workers, n \in Nets, h \in Hosts, k \in Kinds :
          Put(t, n, h, k) => Has(table["daemon"], n, h)']_vars

\* What a Get finds in a table.
Found(tb, n, h) ==
    IF Has(tb, n, h) /\ ~Expired(tb[n].hosts[h].verdict) THEN {tb[n].hosts[h].verdict}
    ELSE {}

\* A store that believes itself clean is on disk, whatever writes failed: who
\* loads the file finds what the store finds, unless something else moved
\* between a Flush's copy and its mark.
CleanMeansSaved ==
    \A s \in Stores :
        Running(s) /\ ~dirty[s] /\ ~raced /\ Flushing = {}
            => \A n \in Nets, h \in Hosts : Found(table[s], n, h) = Found(disk, n, h)

=============================================================================
