----------------------------- MODULE Lifecycle -----------------------------
(***************************************************************************)
(* One `dpb run`, from the run lock to the exit: what it brings up and in  *)
(* which order (run.go runRun, tunrun.go startTun, stack.go BringUp), the  *)
(* stack it unwinds, the requests on its control socket that change the    *)
(* machine while it serves (runcontrol.go panic, doReapply), the signals,  *)
(* the kill and the janitor.                                               *)
(*                                                                         *)
(* Every system change goes through the run's one Manager; what a Do, an   *)
(* UndoAll and a Reverify do to journal and machine in detail is NetState. *)
(* Here a Do has a beginning (the record) and an end (in force, or rolled  *)
(* back), and an UndoAll one step per record: between them other actors of *)
(* the process move, and the process may be killed.                        *)
(***************************************************************************)
EXTENDS Integers, Sequences, FiniteSets, SequencesExt

CONSTANT Jobs     \* the runs considered, each a record (see JobType)

(* What can be in force on the machine.  Device holds the changes which   *)
(* vanish with the utun, as the kernel deletes its addresses and routes.   *)
ProxyOps   == {"pacfile", "autoproxy", "webproxy", "launchenv"}
Capture6   == {"cap6a", "cap6b"}
CaptureOps == {"cap4a", "cap4b", "ns"} \cup Capture6
DeviceOps  == {"if4", "if6"} \cup CaptureOps
Ops        == ProxyOps \cup DeviceOps \cup {"scope4", "scope6", "dns"}

Resources == {"lock", "journal", "janitor", "listeners", "store", "device",
              "datapath", "watcher", "control"}

(* styles: the proxy style, empty for none.  vpn: a full tunnel is up, and *)
(* not allowed.  present: routes that were there before; flushes: what     *)
(* macOS may drop; may: what else can happen to it.                        *)
Events  == {"signal", "again", "kill", "panic", "reapply", "listener", "datapath",
            "refuse", "stuck", "nospawn", "vpn", "noopen",
            "held", "nojournal", "inuse", "nobuild", "nosocket"}
JobType == [styles : SUBSET {"pac", "explicit", "env"}, tun : BOOLEAN, v6 : BOOLEAN,
            dns : BOOLEAN, root : BOOLEAN, dry : BOOLEAN, vpn : BOOLEAN,
            present : SUBSET Ops, flushes : SUBSET Ops, may : SUBSET Events]

ASSUME LifecycleAssumption == Jobs \subseteq JobType

Actors == {"main", "panic", "reapply"}

VARIABLES
  job,        \* the run: its flags, and what may happen while it lives
  pc,         \* where the main goroutine is
  todo,       \* what bring-up has still to do in this section
  stack,      \* the teardown steps pushed, oldest first
  up,         \* the resources this process holds
  force,      \* the changes of this run in force on the machine
  done,       \* the Manager's list: [op, adopted], oldest first
  owed,       \* changes whose revert failed; their records stay pending
  holder,     \* who holds the Manager's opMu
  doing,      \* the change begun and not yet committed, or "none"
  undoing,    \* what the holder's UndoAll has left, oldest first
  once,       \* revertOnce: fresh, running, used
  gate,       \* the IPv6 gate is open
  signals,    \* shutdown signals delivered, 0..2
  failed,     \* a listener, the datapath or the watcher posted to serveErr
  stopRun,    \* `dpb panic` has asked the main loop to stop
  asked,      \* per control request: idle, running, replied
  again,      \* what the re-apply request has still to Do
  moved,      \* the machine flushed something and the watcher has not looked
  exit        \* none; returned from run, or killed

vars == <<job, pc, todo, stack, up, force, done, owed, holder, doing, undoing, once,
          gate, signals, failed, stopRun, asked, again, moved, exit>>
manager == <<done, owed, holder, doing, undoing>>
process == <<todo, stack, up>>
outside == <<job, signals, failed, stopRun, asked, again, moved>>

Alive == exit = "none"
May(e) == e \in job.may

TypeOK ==
  /\ job \in Jobs
  /\ stack \in Seq(Resources \cup {"settings", "tunnel"})
  /\ up \subseteq Resources
  /\ force \cup owed \subseteq Ops
  /\ done \in Seq([op : Ops, adopted : BOOLEAN])
  /\ undoing \in Seq([op : Ops, adopted : BOOLEAN])
  /\ holder \in Actors \cup {"nobody"}
  /\ doing \in Ops \cup {"none"}
  /\ once \in {"fresh", "running", "used"}
  /\ signals \in 0..2
  /\ asked \in [{"panic", "reapply"} -> {"idle", "running", "replied"}]
  /\ exit \in {"none", "returned", "killed"}

-----------------------------------------------------------------------------
(* What a run does, from its flags.                                        *)

If(c, s) == IF c THEN s ELSE <<>>

(* apply: the PAC file before the URL that names it, the environment last. *)
ProxyPlan(j) ==
  If("pac" \in j.styles, <<"pacfile", "autoproxy">>)
    \o If("explicit" \in j.styles, <<"webproxy">>) \o If("env" \in j.styles, <<"launchenv">>)

\* (mutant of TunPlan: the datapath starts behind the first capture)
TunPlanCaptureFirst(j) ==
  <<"if4">> \o If(j.v6, <<"if6">>) \o <<"scope4">> \o If(j.v6, <<"scope6">>)
    \o <<"cap4a", "cap4b", "start">> \o If(j.v6, <<"cap6a", "cap6b", "gate">>)
    \o <<"ns">> \o If(j.dns, <<"dns">>)

(* BringUp: escape routes, then the datapath, then the capture; the gate   *)
(* opens once both IPv6 halves are verified.                               *)
TunPlan(j) ==
  <<"if4">> \o If(j.v6, <<"if6">>) \o <<"scope4">> \o If(j.v6, <<"scope6">>)
    \o <<"start", "cap4a", "cap4b">> \o If(j.v6, <<"cap6a", "cap6b", "gate">>)
    \o <<"ns">> \o If(j.dns, <<"dns">>)

\* (mutant of WillMutate: the proxy style alone is asked)
WillMutateStyle(j) == ~j.dry /\ j.styles # {}
(* Two refusals, before anything is bound or changed.                      *)
NeedsRoot(j)      == j.tun /\ ~j.root /\ ~j.dry
FullTunnelVPN(j)  == j.tun /\ j.vpn
WillMutate(j)     == ~j.dry /\ (j.tun \/ j.styles # {})
ChangesSettings(j) == j.styles # {}

(* The records a later replay would find pending and not adopted.          *)
Ours(s)     == {s[i].op : i \in {k \in DOMAIN s : ~s[k].adopted}}
Journalled  == Ours(done) \cup Ours(undoing) \cup owed \cup ({doing} \ {"none"})

Init ==
  /\ job \in Jobs
  /\ pc = "start" /\ todo = <<>> /\ stack = <<>> /\ up = {}
  /\ force = {} /\ done = <<>> /\ owed = {} /\ holder = "nobody"
  /\ doing = "none" /\ undoing = <<>> /\ once = "fresh"
  /\ gate = FALSE /\ signals = 0 /\ failed = FALSE /\ stopRun = FALSE
  /\ asked = [r \in {"panic", "reapply"} |-> "idle"] /\ again = <<>>
  /\ moved = FALSE /\ exit = "none"

-----------------------------------------------------------------------------
(* The Manager, as its callers use it.                                     *)

(* canAdopt: a proxy or resolver setting that is already right is ours.    *)
NeverAdopted == ProxyOps \cup {"dns"}

(* Do: a route that was there before us is adopted; otherwise the record   *)
(* is written and Apply runs, and a setting that is already ours is set    *)
(* once more under a second record.  A dry run changes nothing.            *)
BeginDo(who, op) ==
  /\ holder = "nobody"
  /\ IF job.dry THEN UNCHANGED manager
     ELSE IF op \in job.present \ NeverAdopted
     THEN /\ done' = Append(done, [op |-> op, adopted |-> TRUE])
          /\ UNCHANGED <<owed, holder, doing, undoing>>
     ELSE /\ holder' = who /\ doing' = op
          /\ UNCHANGED <<done, owed, undoing>>

(* The change is in force, verified and committed.                         *)
DoWorks(who) ==
  /\ holder = who /\ doing # "none"
  /\ force' = force \cup {doing}
  /\ done' = Append(done, [op |-> doing, adopted |-> FALSE])
  /\ holder' = "nobody" /\ doing' = "none"
  /\ UNCHANGED <<owed, undoing>>

(* It failed: nothing was changed, or it is rolled back, or - the revert   *)
(* failing too, or running on the context whose cancellation failed the    *)
(* change - it is left in the journal.                                     *)
DoFails(who, cancelled) ==
  /\ holder = who /\ doing # "none"
  /\ May("refuse") \/ cancelled
  /\ holder' = "nobody" /\ doing' = "none"
  /\ \/ UNCHANGED <<force, owed>>
     \/ force' = force \ {doing} /\ UNCHANGED owed
     \/ /\ May("stuck") \/ cancelled
        /\ force' = force \cup {doing} /\ owed' = owed \cup {doing}
  /\ UNCHANGED <<done, undoing>>

BeginUndo(who) ==
  /\ holder = "nobody"
  /\ holder' = who /\ undoing' = done /\ done' = <<>>
  /\ UNCHANGED <<owed, doing>>

\* (mutant of UndoOne: the first stuck change ends the pass)
UndoStops(who) ==
  /\ holder = who /\ undoing # <<>>
  /\ LET r == Last(undoing) IN
     \/ /\ undoing' = Front(undoing)
        /\ force' = IF r.adopted THEN force ELSE force \ {r.op}
        /\ UNCHANGED owed
     \/ /\ May("stuck")
        /\ undoing' = <<>> /\ owed' = owed \cup {r.op}
        /\ UNCHANGED force
  /\ UNCHANGED <<done, holder, doing>>

(* UndoAll: newest first; what is stuck stays in the journal and the rest  *)
(* is reverted all the same.                                               *)
UndoOne(who) ==
  /\ holder = who /\ undoing # <<>>
  /\ undoing' = Front(undoing)
  /\ LET r == Last(undoing) IN
     \/ /\ r.adopted
        /\ UNCHANGED <<force, owed>>
     \/ /\ ~r.adopted
        /\ force' = force \ {r.op}
        /\ UNCHANGED owed
     \/ /\ ~r.adopted /\ May("stuck")
        /\ owed' = owed \cup {r.op}
        /\ UNCHANGED force
  /\ UNCHANGED <<done, holder, doing>>

Undone(who) ==
  /\ holder = who /\ undoing = <<>> /\ doing = "none"
  /\ holder' = "nobody"
  /\ UNCHANGED <<done, owed, doing, undoing>>

-----------------------------------------------------------------------------
(* The main goroutine: bring-up.  A step that fails goes to the teardown.  *)

Push(step) == stack' = Append(stack, step)
Goto(p) == pc' = p
Unwind  == Goto("drain") /\ todo' = <<>>

(* --tun without root is refused before anything is taken.                 *)
RequireRoot ==
  /\ pc = "start" /\ NeedsRoot(job)
  /\ Unwind
  /\ UNCHANGED <<stack, up, force, manager, once, gate, outside, exit>>

(* Another run holds the flock on the lock's companion file.               *)
LockRefused ==
  /\ pc = "start" /\ ~NeedsRoot(job) /\ May("held")
  /\ Unwind
  /\ UNCHANGED <<stack, up, force, manager, once, gate, outside, exit>>

JournalFails ==
  /\ pc = "start" /\ ~NeedsRoot(job) /\ May("nojournal")
  /\ up' = up \cup {"lock"} /\ Push("lock")
  /\ Goto("drain")
  /\ UNCHANGED <<todo, force, manager, once, gate, outside, exit>>

Acquire ==
  /\ pc = "start" /\ ~NeedsRoot(job)
  /\ up' = up \cup {"lock", "journal"}
  /\ stack' = stack \o <<"lock", "journal">>
  /\ Goto("janitor")
  /\ UNCHANGED <<todo, force, manager, once, gate, outside, exit>>

(* A child in a session of its own: what signals the run's process group   *)
(* does not reach it.                                                      *)
Spawn == up' = up \cup {"janitor"} /\ Push("janitor")

(* The janitor goes up before the first change, if this run will make any; *)
(* one that cannot be spawned is a note.                                   *)
StartJanitor ==
  /\ pc = "janitor"
  /\ \/ WillMutate(job) /\ Spawn
     \/ /\ ~WillMutate(job) \/ May("nospawn")
        /\ UNCHANGED <<up, stack>>
  /\ Goto("bind")
  /\ UNCHANGED <<todo, force, manager, once, gate, outside, exit>>

(* refuseFullTunnelVPN, then the sockets, the subsystems, the listeners.   *)
RefuseVPN ==
  /\ pc = "bind" /\ FullTunnelVPN(job)
  /\ Unwind
  /\ UNCHANGED <<stack, up, force, manager, once, gate, outside, exit>>

(* A port is taken: what was bound before it is closed again.              *)
BindFails ==
  /\ pc = "bind" /\ ~FullTunnelVPN(job) /\ May("inuse")
  /\ Unwind
  /\ UNCHANGED <<stack, up, force, manager, once, gate, outside, exit>>

(* Bound and not yet served: nothing on the stack closes these.            *)
BindListeners ==
  /\ pc = "bind" /\ ~FullTunnelVPN(job)
  /\ up' = up \cup {"listeners"}
  /\ Goto("build")
  /\ UNCHANGED <<todo, stack, force, manager, once, gate, outside, exit>>

(* closeBound.                                                             *)
BuildFails ==
  /\ pc = "build" /\ May("nobuild")
  /\ up' = up \ {"listeners"}
  /\ Unwind
  /\ UNCHANGED <<stack, force, manager, once, gate, outside, exit>>

BuildSubsystems ==
  /\ pc = "build"
  /\ up' = up \cup {"store"} /\ Push("store")
  /\ Goto("listen")
  /\ UNCHANGED <<todo, force, manager, once, gate, outside, exit>>

(* Served from here on, and closed by the teardown.                        *)
StartListeners ==
  /\ pc = "listen"
  /\ Push("listeners")
  /\ Goto("settings")
  /\ UNCHANGED <<todo, up, force, manager, once, gate, outside, exit>>

(* The revert is pushed before the first change.                           *)
ApplySystemState ==
  /\ pc = "settings"
  /\ IF ChangesSettings(job)
     THEN Push("settings") /\ todo' = ProxyPlan(job)
     ELSE UNCHANGED <<stack, todo>>
  /\ Goto("apply")
  /\ UNCHANGED <<up, force, manager, once, gate, outside, exit>>

Cancelled == signals > 0

(* One setting; one that fails is a note.                                  *)
ApplySetting ==
  /\ pc = "apply" /\ todo # <<>> /\ holder # "main"
  /\ todo' = Tail(todo)
  /\ IF Cancelled THEN UNCHANGED manager ELSE BeginDo("main", Head(todo))
  /\ UNCHANGED <<pc, stack, up, force, once, gate, outside, exit>>

SettingApplied ==
  /\ pc = "apply"
  /\ DoWorks("main") \/ DoFails("main", Cancelled)
  /\ UNCHANGED <<pc, process, once, gate, outside, exit>>

(* startTun: the device, and the teardown pushed before any change that    *)
(* names it.                                                               *)
StartTun ==
  /\ pc = "apply" /\ todo = <<>> /\ holder # "main" /\ job.tun
  /\ \/ /\ Push("tunnel") /\ todo' = TunPlan(job) /\ Goto("tun")
        /\ up' = IF job.dry THEN up ELSE up \cup {"device"}
        /\ gate' = FALSE
     \/ /\ May("noopen") /\ ~job.dry
        /\ Unwind
        /\ UNCHANGED <<stack, up, gate>>
  /\ UNCHANGED <<force, manager, once, outside, exit>>

(* BringUp, one step of the plan.  A change on a cancelled context fails   *)
(* before it is journalled, and any failure is fatal to the run.           *)
BringUpOp ==
  /\ pc = "tun" /\ todo # <<>> /\ Head(todo) \in Ops /\ holder # "main"
  /\ IF Cancelled
     THEN Unwind /\ UNCHANGED manager
     ELSE BeginDo("main", Head(todo)) /\ todo' = Tail(todo) /\ UNCHANGED pc
  /\ UNCHANGED <<stack, up, force, once, gate, outside, exit>>

StartDatapath ==
  /\ pc = "tun" /\ todo # <<>> /\ Head(todo) = "start" /\ holder # "main"
  /\ up' = IF job.dry THEN up ELSE up \cup {"datapath"}
  /\ todo' = Tail(todo)
  /\ UNCHANGED <<pc, stack, force, manager, once, gate, outside, exit>>

OpenGate ==
  /\ pc = "tun" /\ todo # <<>> /\ Head(todo) = "gate" /\ holder # "main"
  /\ gate' = TRUE
  /\ todo' = Tail(todo)
  /\ UNCHANGED <<pc, stack, up, force, manager, once, outside, exit>>

BroughtUp ==
  /\ pc = "tun"
  /\ \/ DoWorks("main") /\ UNCHANGED <<pc, todo>>
     \/ DoFails("main", Cancelled) /\ Unwind
  /\ UNCHANGED <<stack, up, once, gate, outside, exit>>

(* NewControlServer: a stale socket is cleared away; one that is served,   *)
(* or cannot be bound, is a note, and nobody can ask this run anything.    *)
ControlSocket ==
  {<<"control">>} \cup (IF May("nosocket") THEN {<<>>} ELSE {})

(* The watcher, then the control socket last of all.                       *)
StartServing ==
  /\ todo = <<>> /\ holder # "main"
  /\ pc = "tun" \/ (pc = "apply" /\ ~job.tun)
  /\ \E s \in ControlSocket :
       /\ up' = up \cup {"watcher"} \cup ToSet(s)
       /\ stack' = stack \o <<"watcher">> \o s
  /\ Goto("serving")
  /\ UNCHANGED <<todo, force, manager, once, gate, outside, exit>>

(* The select at the end of runRun.                                        *)
Stop ==
  /\ pc = "serving" /\ (Cancelled \/ stopRun \/ failed)
  /\ Unwind
  /\ UNCHANGED <<stack, up, force, manager, once, gate, outside, exit>>

-----------------------------------------------------------------------------
(* The teardown, newest step first.                                        *)

Draining(step) == pc = "drain" /\ stack # <<>> /\ Last(stack) = step
Pop == stack' = Front(stack) /\ Goto("drain")

(* The control socket first: it takes no new request, and waits for those  *)
(* it has taken.                                                           *)
CloseControl ==
  /\ Draining("control")
  /\ \A r \in DOMAIN asked : asked[r] # "running"
  /\ up' = up \ {"control"} /\ Pop
  /\ UNCHANGED <<todo, force, manager, once, gate, outside, exit>>

(* A resource whose step only releases it.                                 *)
Release ==
  /\ \E r \in {"watcher", "listeners", "store", "journal", "lock"} :
       /\ Draining(r)
       /\ up' = up \ {r}
  /\ Pop
  /\ UNCHANGED <<todo, force, manager, once, gate, outside, exit>>

(* The child is told to end and reaped, or killed when it does not.        *)
StopJanitor ==
  /\ Draining("janitor")
  /\ up' = up \ {"janitor"}
  /\ Pop
  /\ UNCHANGED <<todo, force, manager, once, gate, outside, exit>>

(* TearDown: the gate, then every change of the run, and only then the     *)
(* datapath and the device, with which the kernel deletes what names it.   *)
TearDown ==
  /\ Draining("tunnel")
  /\ gate' = FALSE
  /\ BeginUndo("main")
  /\ Goto("untun")
  /\ UNCHANGED <<process, force, once, outside, exit>>

CloseDevice ==
  /\ pc = "untun"
  /\ Undone("main")
  /\ up' = up \ {"datapath", "device"}
  /\ force' = force \ DeviceOps
  /\ Pop
  /\ UNCHANGED <<todo, once, gate, outside, exit>>

(* revertOnce: the first caller reverts, a second waits for it, and one    *)
(* that comes later finds it done.                                         *)
RevertSettings ==
  /\ Draining("settings")
  /\ \/ /\ once = "fresh"
        /\ once' = "running" /\ BeginUndo("main") /\ Goto("unset")
        /\ UNCHANGED stack
     \/ /\ once = "used"
        /\ Pop
        /\ UNCHANGED <<once, manager>>
  /\ UNCHANGED <<todo, up, force, gate, outside, exit>>

SettingsReverted ==
  /\ pc = "unset"
  /\ Undone("main")
  /\ once' = "used" /\ Pop
  /\ UNCHANGED <<todo, up, force, gate, outside, exit>>

RevertNext ==
  /\ pc \in {"untun", "unset"}
  /\ UndoOne("main")
  /\ UNCHANGED <<pc, process, once, gate, outside, exit>>

Return ==
  /\ pc = "drain" /\ stack = <<>>
  /\ exit' = "returned" /\ Goto("gone")
  /\ UNCHANGED <<process, force, manager, once, gate, outside>>

Main ==
  \/ RequireRoot \/ LockRefused \/ JournalFails \/ Acquire \/ StartJanitor
  \/ RefuseVPN \/ BindFails \/ BindListeners \/ BuildFails \/ BuildSubsystems
  \/ StartListeners
  \/ ApplySystemState \/ ApplySetting \/ SettingApplied
  \/ StartTun \/ BringUpOp \/ StartDatapath \/ OpenGate \/ BroughtUp
  \/ StartServing \/ Stop
  \/ CloseControl \/ Release \/ StopJanitor \/ TearDown \/ CloseDevice
  \/ RevertSettings \/ SettingsReverted \/ RevertNext \/ Return

-----------------------------------------------------------------------------
(* The control socket's handlers.  Each works on a context of its own, and *)
(* its reply is written when it is done.                                   *)

Running(r) == Alive /\ asked[r] = "running"
Reply(r)   == asked' = [asked EXCEPT ![r] = "replied"]

Ask(r) ==
  /\ Alive /\ May(r) /\ "control" \in up /\ asked[r] = "idle"
  /\ r = "reapply" => ChangesSettings(job)
  /\ asked' = [asked EXCEPT ![r] = "running"]
  /\ again' = IF r = "reapply" THEN ProxyPlan(job) ELSE again
  /\ UNCHANGED <<job, pc, process, force, manager, once, gate, signals, failed,
                 stopRun, moved, exit>>

(* panic reverts through revertOnce, if the run changed settings, and then *)
(* asks the main loop to stop.                                             *)
PanicReverts ==
  /\ Running("panic") /\ ChangesSettings(job) /\ once = "fresh"
  /\ once' = "running" /\ BeginUndo("panic")
  /\ UNCHANGED <<pc, process, force, gate, outside, exit>>

PanicNext ==
  /\ Running("panic")
  /\ UndoOne("panic")
  /\ UNCHANGED <<pc, process, once, gate, outside, exit>>

PanicReplies ==
  /\ Running("panic")
  /\ \/ Undone("panic") /\ once' = "used"
     \/ ~ChangesSettings(job) /\ UNCHANGED <<manager, once>>
  /\ stopRun' = TRUE /\ Reply("panic")
  /\ UNCHANGED <<job, pc, process, force, gate, signals, failed, again, moved, exit>>

(* doReapply runs the settings through the Manager once more.              *)
Reapply ==
  /\ Running("reapply") /\ again # <<>> /\ holder # "reapply"
  /\ BeginDo("reapply", Head(again))
  /\ again' = Tail(again)
  /\ UNCHANGED <<job, pc, process, force, once, gate, signals, failed, stopRun,
                 asked, moved, exit>>

Reapplied ==
  /\ Running("reapply")
  /\ DoWorks("reapply") \/ DoFails("reapply", FALSE)
  /\ UNCHANGED <<pc, process, once, gate, outside, exit>>

ReapplyReplies ==
  /\ Running("reapply") /\ again = <<>> /\ holder # "reapply"
  /\ Reply("reapply")
  /\ UNCHANGED <<job, pc, process, force, manager, once, gate, signals, failed,
                 stopRun, again, moved, exit>>

Panic    == Ask("panic") \/ PanicReverts \/ PanicNext \/ PanicReplies
CoverFix == Ask("reapply") \/ Reapply \/ Reapplied \/ ReapplyReplies

-----------------------------------------------------------------------------
(* The other goroutines: the watcher, and the servers that can die.        *)

(* Reverify puts back what is ours and went missing, in one hold of opMu;  *)
(* a run that changed no setting has no system half and verifies nothing.  *)
Reverify ==
  /\ Alive /\ "watcher" \in up /\ moved /\ holder = "nobody"
  /\ moved' = FALSE
  /\ LET missing == IF ChangesSettings(job) THEN Ours(done) \ force ELSE {} IN
       \E back \in SUBSET missing :
          /\ back = missing \/ May("refuse")
          /\ force' = force \cup back
  /\ UNCHANGED <<job, pc, process, manager, once, gate, signals, failed, stopRun,
                 asked, again, exit>>

\* (mutant of ServeFailed: the error has no listener)
ServeFailedUnheard == UNCHANGED failed

(* serveFailed: into the channel the main loop selects on.                 *)
ServeFailed == failed' = TRUE

Dies(r) ==
  /\ Alive /\ May(r) /\ pc \notin {"build", "listen"}
  /\ LET what == IF r = "listener" THEN "listeners" ELSE r IN
       what \in up /\ up' = up \ {what}
  /\ ServeFailed
  /\ UNCHANGED <<job, pc, todo, stack, force, manager, once, gate, signals, stopRun,
                 asked, again, moved, exit>>

(* A full-tunnel VPN that comes up under --tun ends the watcher's run.     *)
WatcherRefuses ==
  /\ Alive /\ May("vpn") /\ job.tun /\ "watcher" \in up /\ pc = "serving"
  /\ ~failed /\ ServeFailed
  /\ UNCHANGED <<job, pc, process, force, manager, once, gate, signals, stopRun,
                 asked, again, moved, exit>>

-----------------------------------------------------------------------------
(* Outside: macOS, the user, the kernel, the janitor.                      *)

Flush ==
  /\ Alive
  /\ \E op \in job.flushes \cap force : force' = force \ {op}
  /\ moved' = TRUE
  /\ UNCHANGED <<job, pc, process, manager, once, gate, signals, failed, stopRun,
                 asked, again, exit>>

(* The first signal cancels the run's context.                             *)
Signal ==
  /\ Alive /\ May("signal") /\ signals = 0
  /\ signals' = 1
  /\ UNCHANGED <<job, pc, process, force, manager, once, gate, failed, stopRun,
                 asked, again, moved, exit>>

(* The process is gone: its lock and device with it, its records not.  A   *)
(* change under way may or may not have been made.                         *)
Death ==
  /\ exit' = "killed" /\ Goto("gone")
  /\ up' = up \cap {"janitor"}
  /\ \E made \in SUBSET ({doing} \ {"none"}) : force' = (force \cup made) \ DeviceOps
  /\ UNCHANGED <<todo, stack, manager, once, gate>>

(* The second signal exits at once, reverting nothing.                     *)
SecondSignal ==
  /\ Alive /\ May("again") /\ signals = 1
  /\ signals' = 2 /\ Death
  /\ UNCHANGED <<job, failed, stopRun, asked, again, moved>>

Kill ==
  /\ Alive /\ May("kill")
  /\ Death
  /\ UNCHANGED outside

(* Replay: every pending record of a dead owner is reverted; what is stuck *)
(* stays pending.                                                          *)
Replay ==
  /\ \E left \in SUBSET (force \cap Journalled) :
       /\ left = {} \/ May("stuck")
       /\ force' = (force \ Journalled) \cup left
       /\ owed' = left
  /\ done' = <<>> /\ undoing' = <<>> /\ doing' = "none" /\ holder' = "nobody"

ParentGone == exit = "killed"

(* The janitor sees its parent gone and replays the journal, once.         *)
JanitorReplays ==
  /\ "janitor" \in up /\ ParentGone
  /\ Replay
  /\ up' = {}
  /\ UNCHANGED <<pc, todo, stack, once, gate, outside, exit>>

(* `dpb panic` with no dpb running replays the journal itself.             *)
PanicReplays ==
  /\ ~Alive /\ May("panic") /\ "janitor" \notin up
  /\ Replay
  /\ UNCHANGED <<pc, process, once, gate, outside, exit>>

Next ==
  \/ Main \/ Panic \/ CoverFix
  \/ Reverify \/ (\E r \in {"listener", "datapath"} : Dies(r)) \/ WatcherRefuses
  \/ Flush \/ Signal \/ SecondSignal \/ Kill
  \/ JanitorReplays \/ PanicReplays

(* Each goroutine is scheduled, and every command it runs has a timeout.   *)
(* Nothing obliges a signal, a request, a failure or a flush to come.      *)
Fairness ==
  /\ WF_vars(Main)
  /\ WF_vars(PanicReverts \/ PanicNext \/ PanicReplies)
  /\ WF_vars(Reapply \/ Reapplied \/ ReapplyReplies)
  /\ WF_vars(JanitorReplays)

Spec == Init /\ [][Next]_vars /\ Fairness

-----------------------------------------------------------------------------
(* The properties.                                                         *)

(* What a returned run leaves in force is only what could not be reverted: *)
(* every bring-up that failed half way, every order of a panic, a flush, a *)
(* re-verification and a signal (run.go runRun, stack.drain).              *)
ExitIsClean ==
  exit = "returned" => force \subseteq owed /\ up = {} /\ done = <<>>

(* As long as a change of ours is in force or recorded, and revertible, a  *)
(* kill at that very moment is covered: the lock keeps a second run out,   *)
(* the journal is open and a janitor watches - if one could be spawned     *)
(* (run.go: "up BEFORE the first mutation", "down AFTER the revert").      *)
ChangesAreCovered ==
  Alive /\ ((force \cup Journalled) \ owed) # {} =>
    /\ {"lock", "journal"} \subseteq up
    /\ "janitor" \in up \/ May("nospawn")

(* Nothing sends traffic to a place nobody serves: a proxy setting has its *)
(* listeners and a captured route its datapath, unless they died and the   *)
(* run has been told to stop; and no route is captured without the scoped  *)
(* default our own sockets escape by (stack.go BringUp: "that window is a  *)
(* blackhole", "that window is a loop"; TearDown).                         *)
NothingPointsNowhere ==
  LET live == force \ owed IN
  Alive =>
    /\ live \cap (ProxyOps \ {"pacfile"}) # {} => "listeners" \in up \/ failed
    /\ live \cap CaptureOps # {} =>
         /\ "datapath" \in up \/ failed
         /\ "device" \in up
         /\ "scope4" \in force \cup job.flushes \cup job.present

(* A run that was told to stop, that lost what its settings point at, or   *)
(* that was killed under a janitor ends with the machine given back, up to *)
(* what could not be reverted: no wait of the teardown on a handler, of a  *)
(* handler on the Manager or of one revert on another lasts for ever.      *)
Doomed ==
  \/ Cancelled \/ stopRun \/ exit # "none"
  \/ pc = "serving" /\ "listeners" \notin up
  \/ pc = "serving" /\ job.tun /\ ~job.dry /\ "datapath" \notin up
Over     == exit # "none" /\ (force \subseteq owed \/ May("nospawn"))
StopEnds == Doomed ~> Over
=============================================================================
