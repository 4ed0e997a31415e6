------------------------------ MODULE SystemOps ------------------------------
(***************************************************************************)
(* The reversible mutations themselves (internal/netstate/op_*.go): what   *)
(* each kind of Op captures before it changes anything, the commands its   *)
(* Apply and its Revert issue one by one, and what its Verify and its      *)
(* VerifyReverted read back.  NetState treats an Op as a value written to   *)
(* every service; here one Op of one kind lives its life command by         *)
(* command: it is prepared, journalled, applied, verified and committed,    *)
(* reverted by the run that applied it or, when that run is dead, revived   *)
(* from its record and reverted by a Replay, again and again until the      *)
(* journal is empty.                                                        *)
(*                                                                         *)
(* Any command may fail, with or without its effect, or claim a success it  *)
(* did not have; the run and the replay may be killed between any two       *)
(* commands; the user may change a setting; another tunnel may take the     *)
(* route.  The Op may start over what an earlier run, killed half way, left *)
(* behind.  A replay begins when the run is over: NetState has the one that *)
(* overlaps a run.                                                          *)
(***************************************************************************)
EXTENDS Naturals, SequencesExt

CONSTANTS
    Workloads,   \* <<kind, before, enabled services>>: which Op, what it starts
                 \* over, where:
                 \*   "fresh": nothing; "residue": a dead run's half-made
                 \*   change of the same kind and its record; "elsewhere": the
                 \*   record of a dead run that had changed something else
    MaxFaults,   \* bound: commands, reads and writes that fail; killed replays
    MaxOutside   \* bound: changes made by the user or another program

Kinds == {"pac", "web", "dns", "env", "pacfile", "route", "ifconfig"}
\* Without a service there is nothing to point at a resolver, and no DNS Op.
ASSUME WorkloadsKnown ==
    /\ Workloads \subseteq Kinds \X {"fresh", "residue", "elsewhere"}
                             \X SUBSET {"wifi", "ethernet"}
    /\ \A w \in Workloads : w[1] = "dns" => w[3] # {}
ASSUME BoundsAreNat == MaxFaults \in Nat /\ MaxOutside \in Nat

VARIABLES
    kind, before, \* the workload
    enabled,      \* the enabled network services
    refuses,      \* this networksetup refuses an empty proxy server
    world,        \* world[slot]: what macOS holds
    orig,         \* orig[slot]: what it would hold had dpb never run
    changed,      \* settings the user has changed since (history)
    blind,        \* a route was deleted without a look at the table (history)
    lied,         \* a command claimed a success it did not have (history)
    overtaken,    \* a record was closed before a younger one (history)
    target,       \* what this run's Op installs
    pend,         \* the journal: outstanding records, oldest first
    pc, who,      \* the step being taken, by the run or by a replay
    job,          \* the record being reverted (its place in pend)
    todo,         \* commands still to issue
    err,          \* this Revert has seen an error
    added,        \* routeOp.added: our own add reported success
    faults, outside

env  == <<kind, before, enabled, refuses>>
hist == <<orig, changed, outside>>
vars == <<env, world, hist, blind, lied, overtaken, target, pend, pc, who, job,
          todo, err, added, faults>>

-----------------------------------------------------------------------------
(* The settings one Op governs.  A proxy is a value and a switch that macOS  *)
(* keeps apart; the second field of the PAC file is its permissions.         *)

Each(F(_), ss) == FlattenSeq([i \in DOMAIN ss |-> F(ss[i])])
Those(ss, Test(_)) == Each(LAMBDA x : IF Test(x) THEN <<x>> ELSE <<>>, ss)

ServiceOrder == <<"wifi", "ethernet">>   \* networksetup -listnetworkserviceorder
serviceNames == Those(ServiceOrder, LAMBDA s : s \in enabled)

\* The variables of launchEnvOp.names, sorted.
names == <<"HTTPS_PROXY", "HTTP_PROXY">>

Proxies == {"pac", "web"}

SlotSeq ==
    CASE kind \in {"pac", "dns"} -> [i \in DOMAIN serviceNames |-> <<serviceNames[i], kind>>]
      [] kind = "web" -> Each(LAMBDA s : <<<<s, "web">>, <<s, "secure">>>>, serviceNames)
      [] kind = "env" -> [i \in DOMAIN names |-> <<"launchd", names[i]>>]
      [] kind = "pacfile" -> <<<<"disk", "pac">>>>
      [] kind = "route" -> <<<<"kernel", "dst">>>>
      [] kind = "ifconfig" -> <<<<"utun", "address">>>>
Slots == ToSet(SlotSeq)

Nothing == IF kind = "dns" THEN <<>> ELSE "none"
Value(v, s) == [val |-> v, state |-> s]

\* "mine" is what this run installs and "dead" what a dead one installed, on
\* another port; "local" is the user's own listener on a loopback address.
LoopbackVals == {"mine", "dead", "local"}
Residue == pend # <<>> \/ before = "elsewhere"

notSelfHost(v) == IF v = target \/ (Residue /\ v \in LoopbackVals) THEN Nothing ELSE v
isSelfValue(v) == notSelfHost(v) = Nothing
notSelfServers(v) ==
    Those(v, LAMBDA a : ~(Residue /\ a = "lo" /\ a \in ToSet(target)))

proxyCapture(w) ==
    LET v == notSelfHost(w.val)
    IN Value(v, IF w.state = "on" /\ v # Nothing THEN "on" ELSE "off")
dnsCapture(w) == Value(notSelfServers(w.val), "-")
envCapture(w) == IF isSelfValue(w.val) THEN Value(Nothing, "-") ELSE w
pacFileCapture(w) == IF w.val = target THEN Value(Nothing, "-") ELSE w

Capture(w) ==
    CASE kind \in Proxies -> proxyCapture(w)
      [] kind = "dns" -> dnsCapture(w)
      [] kind = "env" -> envCapture(w)
      [] kind = "pacfile" -> pacFileCapture(w)
      [] OTHER -> Value(Nothing, "-")

\* What scutil --dns reports: the primary service's list, or what DHCP gave it.
primaryNameservers(w) ==
    LET v == w[Head(SlotSeq)].val IN IF v = <<>> THEN <<"isp">> ELSE v
\* What the DNS Op points the services at: the tunnel, then the resolvers the
\* machine uses today, loopback ones left out.
systemNameservers(w) == Those(primaryNameservers(w), LAMBDA a : a # "lo")
tunResolverList(w) == <<"tun">> \o systemNameservers(w)

-----------------------------------------------------------------------------
(* Commands.  networksetup's setters of a proxy also switch it on.           *)

SetValue(s, v)  == [slot |-> s, put |-> [val |-> v, state |-> "on"], soft |-> FALSE]
SetState(s, b)  == [slot |-> s, put |-> [state |-> b], soft |-> FALSE]
SetOnly(s, v)   == [slot |-> s, put |-> [val |-> v], soft |-> FALSE]
\* (mutant of Tidy: a refused tidying fails the revert)
TidyHard(s)     == SetValue(s, Nothing)
Tidy(s)         == [SetValue(s, Nothing) EXCEPT !.soft = TRUE]

\* Both proxies of a service are set before either is switched on.
proxyApply ==
    LET of(svc) == Those(SlotSeq, LAMBDA s : s[1] = svc)
        forService(svc) == Each(LAMBDA s : <<SetValue(s, target)>>, of(svc))
                           \o Each(LAMBDA s : <<SetState(s, "on")>>, of(svc))
    IN Each(forService, serviceNames)
dnsApply == Each(LAMBDA s : <<SetOnly(s, target)>>, SlotSeq)
envApply == Each(LAMBDA s : <<SetOnly(s, target)>>, SlotSeq)
\* Written beside the old file and renamed over it, mode 0644.
pacFileApply == Each(LAMBDA s : <<[slot |-> s, put |-> Value(target, "0644"),
                                   soft |-> FALSE]>>, SlotSeq)
routeAdd == Each(LAMBDA s : <<SetOnly(s, target)>>, SlotSeq)

ApplyCmds ==
    CASE kind \in Proxies -> proxyApply
      [] kind = "dns" -> dnsApply
      [] kind = "env" -> envApply
      [] kind = "pacfile" -> pacFileApply
      [] OTHER -> routeAdd

\* (mutant of revertCmds: a setting that was empty is only switched off)
revertCmdsOffOnly(s, p) ==
    IF p.val = Nothing THEN <<SetState(s, "off")>>
    ELSE <<SetValue(s, p.val)>>
revertCmds(s, p) ==
    IF p.val = Nothing THEN <<Tidy(s), SetState(s, "off")>>
    ELSE <<SetValue(s, p.val), SetState(s, p.state)>>
dnsRevert(s, p) == <<SetOnly(s, p.val)>>
envRevert(s, p) == <<SetOnly(s, p.val)>>
\* os.WriteFile truncates and then writes; the mode is put back after it.
pacFileRevert(s, p) ==
    IF p.val = Nothing THEN <<[slot |-> s, put |-> p, soft |-> FALSE]>>
    ELSE <<SetOnly(s, "torn"), SetOnly(s, p.val), SetState(s, p.state)>>
\* The route is deleted only when the table says that it is ours, unless the
\* table cannot be read; the address is removed without a look.
matchRoute(w) == w.val \in {"mine", "twin"}
routeRevert(s, sees) ==
    IF sees /\ ~matchRoute(world[s]) THEN <<>> ELSE <<SetOnly(s, Nothing)>>
ifconfigRevert(s) == <<SetOnly(s, Nothing)>>

RevertCmds(r, sees) ==
    LET of(s) == CASE kind \in Proxies -> revertCmds(s, r.prev[s])
                   [] kind = "dns" -> dnsRevert(s, r.prev[s])
                   [] kind = "env" -> envRevert(s, r.prev[s])
                   [] kind = "pacfile" -> pacFileRevert(s, r.prev[s])
                   [] kind = "route" -> routeRevert(s, sees)
                   [] kind = "ifconfig" -> ifconfigRevert(s)
    IN Each(of, r.slots)

-----------------------------------------------------------------------------
(* Reading back.  scutil answers for the primary service alone; after a      *)
(* revert every service is read as well.                                     *)

PrimarySlots == {s \in Slots : s[1] = Head(SlotSeq)[1]}
checkProxyPair(s, v) == world[s] = Value(v, "on")

proxyVerify    == \A s \in PrimarySlots : checkProxyPair(s, target)
dnsVerify      == IsPrefix(target, primaryNameservers(world))
envVerify      == \A s \in Slots : world[s].val = target
pacFileVerify  == \A s \in Slots : world[s].val = target
routeVerify    == \A s \in Slots : matchRoute(world[s])
ifconfigVerify == \A s \in Slots : world[s].val = target

Verify == CASE kind \in Proxies -> proxyVerify
            [] kind = "dns" -> dnsVerify
            [] kind = "env" -> envVerify
            [] kind = "pacfile" -> pacFileVerify
            [] kind = "route" -> routeVerify
            [] kind = "ifconfig" -> ifconfigVerify

\* (mutant of proxyVerifyReverted: only what scutil reports is read back)
proxyVerifyRevertedPrimary(r) == \A s \in PrimarySlots : ~checkProxyPair(s, r.target)
proxyVerifyReverted(r)    == \A s \in ToSet(r.slots) : ~checkProxyPair(s, r.target)
dnsVerifyReverted(r)      == /\ ~IsPrefix(r.target, primaryNameservers(world))
                             /\ \A s \in ToSet(r.slots) : ~IsPrefix(r.target, world[s].val)
envVerifyReverted(r)      == \A s \in ToSet(r.slots) : world[s].val # r.target
pacFileVerifyReverted(r)  == \A s \in ToSet(r.slots) : world[s].val # r.target
routeVerifyReverted(r)    == \A s \in ToSet(r.slots) : ~matchRoute(world[s])
ifconfigVerifyReverted(r) == \A s \in ToSet(r.slots) : world[s].val # r.target

VerifyReverted(r) == CASE kind \in Proxies -> proxyVerifyReverted(r)
                       [] kind = "dns" -> dnsVerifyReverted(r)
                       [] kind = "env" -> envVerifyReverted(r)
                       [] kind = "pacfile" -> pacFileVerifyReverted(r)
                       [] kind = "route" -> routeVerifyReverted(r)
                       [] kind = "ifconfig" -> ifconfigVerifyReverted(r)

canAdopt == kind \in {"route", "ifconfig"}
mutated  == kind # "route" \/ added

-----------------------------------------------------------------------------
(* Where a life of the Op may begin.                                         *)

\* A proxy pane may still show, switched off, the address of an earlier run.
UserStart ==
    CASE kind \in Proxies -> {Value("none", "off"), Value("user", "on"),
                              Value("user", "off"), Value("local", "on")}
                             \cup (IF before = "fresh" THEN {Value("mine", "off")} ELSE {})
      [] kind = "dns" -> {Value(v, "-") : v \in {<<>>, <<"isp">>, <<"lo">>, <<"lo", "isp">>}}
      [] kind = "env" -> {Value(v, "-") : v \in {"none", "user", "local"}}
      [] kind = "pacfile" -> {Value("none", "-"), Value("user", "0600")}
      [] kind = "route" -> {Value(v, "-") : v \in {"none", "foreign", "twin"}}
      [] kind = "ifconfig" -> {Value("none", "-")}

\* What the dead run had installed and written into its record.
DeadTargets ==
    CASE kind = "dns" -> {tunResolverList(orig)}
      [] kind \in {"route", "ifconfig"} -> {"mine"}
      [] OTHER -> {"mine", "dead"}
Installed(v) == Value(v, CASE kind \in Proxies -> "on"
                           [] kind = "pacfile" -> "0644"
                           [] OTHER -> "-")
DeadRecord(d) ==
    [slots |-> SlotSeq, target |-> d,
     adopted |-> kind = "route" /\ \E s \in Slots : orig[s].val = "twin",
     prev |-> [s \in Slots |-> IF canAdopt THEN Value(Nothing, "-")
                               ELSE IF orig[s].val = d THEN Value(Nothing, "off")
                               ELSE orig[s]]]

Init ==
    /\ \E w \in Workloads : kind = w[1] /\ before = w[2] /\ enabled = w[3]
    /\ refuses \in (IF kind \in Proxies THEN BOOLEAN ELSE {FALSE})
    /\ \E u, v \in UserStart :
         orig = [s \in Slots |-> IF s \in PrimarySlots THEN u ELSE v]
    /\ IF before = "residue"
       THEN \E d \in DeadTargets, hit \in SUBSET Slots :
              /\ \A s \in hit : kind # "route" \/ orig[s].val = "none"
              /\ world = [s \in Slots |-> IF s \in hit THEN Installed(d) ELSE orig[s]]
              /\ pend = <<DeadRecord(d)>>
       ELSE world = orig /\ pend = <<>>
    /\ target = (IF kind = "dns" THEN tunResolverList(world) ELSE "mine")
    /\ changed = {} /\ blind = FALSE /\ lied = FALSE /\ overtaken = FALSE
    /\ pc = "prepare" /\ who = "run" /\ job = 0 /\ todo = <<>>
    /\ err = FALSE /\ added = FALSE /\ faults = 0 /\ outside = 0

-----------------------------------------------------------------------------
Fine  == UNCHANGED faults
Fault == faults < MaxFaults /\ faults' = faults + 1

IsOver == pc' = "over" /\ todo' = <<>> /\ UNCHANGED <<who, job, err>>

\* The debt of record j is struck off, or the journal cannot be written.
Strike(j) ==
    \/ /\ Fine
       /\ pend' = RemoveAt(pend, j)
       /\ overtaken' = (overtaken \/ j < Len(pend))
    \/ Fault /\ UNCHANGED <<pend, overtaken>>

StartRevert(j, w) ==
    \E sees \in BOOLEAN :
        /\ sees \/ kind = "route"
        /\ IF sees THEN Fine /\ UNCHANGED blind ELSE Fault /\ blind' = TRUE
        /\ todo' = RevertCmds(pend[j], sees)
        /\ pc' = "revert" /\ job' = j /\ who' = w /\ err' = FALSE

\* Manager.rollback: a route whose add failed is not looked for.
Rollback ==
    IF mutated
    THEN StartRevert(Len(pend), "run") /\ UNCHANGED <<pend, overtaken>>
    ELSE Strike(Len(pend)) /\ IsOver /\ UNCHANGED blind

\* prepare, the adoption check and the journal's Begin.
Begin ==
    /\ pc = "prepare"
    /\ \/ /\ (Slots = {} /\ Fine) \/ Fault
          /\ IsOver /\ UNCHANGED <<pend, blind>>
       \/ /\ Slots # {}
          /\ \E sees \in BOOLEAN :
               /\ sees \/ kind = "route"
               /\ IF sees THEN Fine /\ UNCHANGED blind ELSE Fault /\ blind' = TRUE
               /\ LET adopted == canAdopt /\ sees /\ Verify
                  IN /\ pend' = Append(pend, [slots |-> SlotSeq, target |-> target,
                                              prev |-> [s \in Slots |-> Capture(world[s])],
                                              adopted |-> adopted])
                     /\ pc' = IF adopted THEN "live" ELSE "apply"
                     /\ todo' = IF adopted THEN <<>> ELSE ApplyCmds
          /\ UNCHANGED <<who, job, err>>
    /\ UNCHANGED <<env, world, hist, lied, overtaken, target, added>>

\* One command: what it was to put where, and what macOS makes of it.
Over(put, w) == Value(IF "val" \in DOMAIN put THEN put.val ELSE w.val,
                      IF "state" \in DOMAIN put THEN put.state ELSE w.state)
Lands(c)    == [world EXCEPT ![c.slot] = Over(c.put, @)]
Occupied(c) == pc = "apply" /\ kind = "route" /\ world[c.slot].val # Nothing
Refused(c)  == refuses /\ kind \in Proxies /\ "val" \in DOMAIN c.put
               /\ c.put.val = Nothing
Works(c) == /\ ~Occupied(c) /\ ~Refused(c)
            /\ Fine /\ world' = Lands(c) /\ UNCHANGED lied
\* Not over an older record: VerifyReverted looks for its own record's value
\* only, so a lie there can switch the other run's value back on.
Lies(c)  == before # "residue" /\ Fault /\ world' = world /\ lied' = TRUE
\* A failed route add has created nothing.
Fails(c) == /\ \/ (Occupied(c) \/ Refused(c)) /\ Fine /\ world' = world
               \/ Fault /\ world' \in {world} \cup
                      (IF Refused(c) \/ kind = "route" THEN {} ELSE {Lands(c)})
            /\ UNCHANGED lied

\* Op.Apply, command by command: the first failure ends it.
Apply ==
    /\ pc = "apply" /\ todo # <<>>
    /\ Works(Head(todo)) \/ Lies(Head(todo))
    /\ todo' = Tail(todo) /\ added' = TRUE
    /\ UNCHANGED <<env, hist, blind, overtaken, target, pend, pc, who, job, err>>
ApplyFails ==
    /\ pc = "apply" /\ todo # <<>>
    /\ Fails(Head(todo))
    /\ pc' = "rollback" /\ todo' = <<>>
    /\ UNCHANGED <<env, hist, blind, overtaken, target, pend, who, job, err, added>>
RollBack ==
    /\ pc = "rollback" /\ Rollback
    /\ UNCHANGED <<env, world, hist, lied, target, added>>

\* Verify, then the journal's Commit.
Commit ==
    /\ pc = "apply" /\ todo = <<>>
    /\ \/ Verify /\ Fine /\ pc' = "live"
       \/ ~Verify /\ Fine /\ pc' = "rollback"
       \/ Fault /\ pc' = "rollback"
    /\ UNCHANGED <<env, world, hist, blind, lied, overtaken, target, pend, who, job,
                   todo, err, added>>

\* UndoAll.  What was adopted is left alone.
Stop ==
    /\ pc = "live"
    /\ IF Last(pend).adopted
       THEN Strike(Len(pend)) /\ IsOver /\ UNCHANGED blind
       ELSE StartRevert(Len(pend), "run") /\ UNCHANGED <<pend, overtaken>>
    /\ UNCHANGED <<env, world, hist, lied, target, added>>

\* Op.Revert, command by command.  The PAC file's gives up at a failure; the
\* route's and the address's only log one; the others remember the first and
\* go on to the next setting.
Revert ==
    /\ pc = "revert" /\ todo # <<>>
    /\ LET c == Head(todo)
       IN \/ /\ Works(c) \/ Lies(c)
             /\ todo' = Tail(todo) /\ UNCHANGED err
          \/ /\ Fails(c)
             /\ todo' = IF kind = "pacfile" THEN <<>> ELSE Tail(todo)
             /\ err' = (err \/ (~c.soft /\ ~canAdopt))
    /\ UNCHANGED <<env, hist, blind, overtaken, target, pend, pc, who, job, added>>

NextRecord == IF who = "run" \/ job = 1
              THEN pc' = "over" /\ UNCHANGED job
              ELSE pc' = "pass" /\ job' = job - 1

\* VerifyReverted, and the record is closed or left for the next replay.
Close ==
    /\ pc = "revert" /\ todo = <<>>
    /\ \/ ~err /\ VerifyReverted(pend[job]) /\ Strike(job)
       \/ (err \/ ~VerifyReverted(pend[job])) /\ Fine /\ UNCHANGED <<pend, overtaken>>
    /\ NextRecord
    /\ UNCHANGED <<env, world, hist, blind, lied, target, who, todo, err, added>>

\* Replay: newest record first, each with an Op revived from it.
Replay ==
    /\ pc = "over" /\ pend # <<>>
    /\ pc' = "pass" /\ who' = "replay" /\ job' = Len(pend)
    /\ UNCHANGED <<env, world, hist, blind, lied, overtaken, target, pend, todo, err,
                   added, faults>>
Revive ==
    /\ pc = "pass"
    /\ IF pend[job].adopted
       THEN Strike(job) /\ NextRecord /\ UNCHANGED <<blind, who, todo, err>>
       ELSE StartRevert(job, "replay") /\ UNCHANGED <<pend, overtaken>>
    /\ UNCHANGED <<env, world, hist, lied, target, added>>

\* SIGKILL.
Kill ==
    /\ pc # "over"
    /\ (who = "run" /\ Fine) \/ (who = "replay" /\ Fault)
    /\ IsOver
    /\ UNCHANGED <<env, world, hist, blind, lied, overtaken, target, pend, added>>

\* The utun, and what hangs on it, goes with the process that opened it.
Vanish ==
    /\ pc = "over" /\ canAdopt
    /\ \E s \in Slots :
         /\ world[s].val = "mine"
         /\ world' = [world EXCEPT ![s].val = "none"]
    /\ UNCHANGED <<env, hist, blind, lied, overtaken, target, pend, pc, who, job,
                   todo, err, added, faults>>

\* The user changes a setting, or a tunnel that is not ours takes a free route.
UserChoice == Value(IF kind = "dns" THEN <<"isp">> ELSE "user",
                    CASE kind \in Proxies -> "on" [] kind = "pacfile" -> "0600"
                      [] OTHER -> "-")
Outside ==
    /\ outside < MaxOutside /\ outside' = outside + 1
    /\ \E s \in Slots :
         IF canAdopt
         THEN /\ kind = "route" /\ world[s].val = "none"
              /\ world' = [world EXCEPT ![s].val = "foreign"]
              /\ orig' = [orig EXCEPT ![s].val = "foreign"]
              /\ UNCHANGED changed
         ELSE /\ world' = [world EXCEPT ![s] = UserChoice]
              /\ changed' = changed \cup {s}
              /\ UNCHANGED orig
    /\ UNCHANGED <<env, blind, lied, overtaken, target, pend, pc, who, job, todo,
                   err, added, faults>>

RunSteps    == Begin \/ Apply \/ ApplyFails \/ RollBack \/ Commit \/ Stop
RevertSteps == Revert \/ Close \/ Replay \/ Revive
Next == RunSteps \/ RevertSteps \/ Kill \/ Vanish \/ Outside

Spec == Init /\ [][Next]_vars
\* Somebody replays again for as long as a record is left.
FairSpec == Spec /\ WF_vars(RevertSteps)

-----------------------------------------------------------------------------
\* Something dpb installed has an effect.  A PAC file redirects nobody by
\* itself, so only this run's own counts.
InForce(s) ==
    CASE kind \in Proxies -> world[s].val \in {"mine", "dead"} /\ world[s].state = "on"
      [] kind = "dns" -> world[s].val # <<>> /\ Head(world[s].val) = "tun"
      [] kind = "env" -> world[s].val \in {"mine", "dead"}
      [] OTHER -> world[s].val = "mine"

Abstract == INSTANCE Restoration WITH
                owed    <- pend # <<>>,
                inForce <- \E s \in Slots : InForce(s)

\* Whatever is interrupted, refused or believed by mistake, and whoever reverts
\* it in the end: something of ours is in force only while a record of it is
\* outstanding, and the last record is closed only when nothing of ours is left
\* (manager.go:240-268, op_*.go VerifyReverted).
Promised == Abstract!Spec

\* A dead run's changes are undone in the end: no record is left that every
\* replay fails to close (manager.go:334-391; the soft commands of op_proxy.go:311).
RevertConverges == (pc = "over" /\ pend # <<>>) ~> (pend = <<>>)

\* What the user had is what the user gets: a setting that was on is back with
\* its value, one that was off is off, and the route of another tunnel is still
\* there.  Except where the code says it may not be so: a setting the user
\* changed meanwhile, a loopback listener met while a dead run's record was
\* outstanding, a route met without a look at the table, and records closed out
\* of their order.
Restored(s) ==
    LET u == orig[s]  w == world[s]
    IN IF u.state = "off"
       THEN w.state = "off" /\ w.val \in {u.val, "none"} \cup
                (IF refuses \/ faults > 0 THEN {"mine", "dead"} ELSE {})
       ELSE w = u
UserGetsThemBack ==
    (pc = "over" /\ pend = <<>> /\ ~blind /\ ~lied /\ ~overtaken) =>
        \A s \in Slots :
            \/ s \in changed
            \/ orig[s].val = "local" /\ before = "elsewhere"
            \/ Restored(s)
=============================================================================
