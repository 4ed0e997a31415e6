------------------------------ MODULE NetState ------------------------------
(***************************************************************************)
(* The reversible-mutation core of dpb (internal/netstate): the Manager    *)
(* that drives every change of macOS system state through                  *)
(* prepare -> Begin -> Apply -> Verify -> Commit, the append-only journal   *)
(* those steps are recorded in, the rollback, UndoAll and Reverify of a    *)
(* live run, and the Replay that another process (the SIGKILL janitor,     *)
(* `dpb doctor --repair`, the login agent) performs after a run has died.  *)
(*                                                                         *)
(* Every process may be killed between any two steps, every command and    *)
(* every journal write may fail, the user (or macOS, or a VPN client) may  *)
(* change a setting at any moment, and Ctrl-C may cancel the context the   *)
(* bring-up runs under.                                                    *)
(*                                                                         *)
(* The journal FILE is represented by its fold: foldJournal reads an       *)
(* NDJSON stream left to right and begin/commit set open[seq], done        *)
(* deletes it, so appending a line updates the folded set and truncation   *)
(* empties it.  `torn' says that the file ends in a fragment without a     *)
(* newline; the next O_APPEND write is welded to it and the two together   *)
(* are one undecodable line.                                               *)
(***************************************************************************)
EXTENDS Naturals

CONSTANTS
    Runs,         \* `dpb run' processes; a run is a (pid, start time) pair
    Repairers,    \* processes that replay: janitor child, doctor, login agent
    Absolute,     \* Ops that capture a previous value and set it back:
                  \*   proxy settings, PAC file, launchd environment
    Adoptable,    \* Ops that add one thing and may find it already there: routes
    Services,     \* network services an Absolute Op loops over
    Primary,      \* the one scutil(8) reports on
    Off,          \* the setting is disabled / absent
    UserVals,     \* values of the user's own that are not loopback
    UserLoopback, \* the user's own local proxy or PAC on a loopback address
    Listener,     \* Listener[p]: the value run p installs
    NoJob,
    MaxSeq,       \* bound: journal sequence numbers
    MaxFaults,    \* bound: failing commands and writes, killed repairers
    MaxOutside,   \* bound: changes made by somebody else
    Hazards       \* environment disturbances allowed beyond those above:
                  \*   "overlap": a replay may run while a run is alive, and
                  \*              beside another replay
                  \*   "shortWrite": a failed append may leave a fragment

Procs     == Runs \cup Repairers
Ops       == Absolute \cup Adoptable
Listeners == {Listener[p] : p \in Runs}
Loopback  == UserLoopback \cup Listeners
UserSide  == UserVals \cup UserLoopback \cup {Off}
Values    == UserSide \cup Listeners

ASSUME ProcsDisjoint == Runs \cap Repairers = {}
ASSUME OpsDisjoint   == Absolute \cap Adoptable = {}
ASSUME PrimaryService == Primary \in Services
ASSUME ValuesDisjoint == UserSide \cap Listeners = {}
ASSUME ListenerType  == Listener \in [Runs -> Listeners]
ASSUME NotARun       == "outside" \notin Runs
ASSUME BoundsAreNat  == MaxSeq \in Nat /\ MaxFaults \in Nat /\ MaxOutside \in Nat
ASSUME HazardsKnown  == Hazards \subseteq {"overlap", "shortWrite"}

\* A journal record: what a process with no memory of the run needs to undo it.
Record == [seq: Nat, op: Ops, owner: Runs, mine: Listeners,
           prev: [Services -> Values], adopted: BOOLEAN]

Stages == {"idle", "ready", "begin", "apply", "verify", "commit", "revert",
           "check", "close", "scan", "trunc", "undo", "replay", "reapply",
           "exited", "dead"}
Phases == {"boot", "serve", "panic", "down", "repair"}

VARIABLES
    setting,   \* setting[o][s]: what macOS holds
    by,        \* by[o][s]: the run that wrote it, or "outside"
    wanted,    \* wanted[o][s]: what the user last chose (history)
    pend,      \* the journal, folded: records begun and not done
    torn,      \* the journal file ends in a fragment
    pc,        \* pc[p]: the step p is about to take
    phase,     \* phase[p]: which part of its life p is in
    sig,       \* sig[p]: a signal has cancelled run p's context
    residue,   \* residue[p]: Env.PriorResidue
    seqno,     \* seqno[p]: fileJournal.seq
    held,      \* held[p]: Manager.done of a run; records still to replay
    job,       \* job[p]: the record being worked on
    left,      \* left[p]: services the current loop has not reached
    err,       \* err[p]: the current Revert saw an error
    reverted,  \* reverted[p]: revertOnce has fired
    faults, outside,  \* budgets used
    disturbed  \* Ops whose history is outside what restoration promises

world == <<setting, by, wanted>>
file  == <<pend, torn>>
proc  == <<pc, phase, sig, residue, seqno, held, job, left, err, reverted>>
vars  == <<world, file, proc, faults, outside, disturbed>>

Active(p)   == pc[p] \notin {"idle", "exited", "dead"}
SlotsOf(o)  == IF o \in Adoptable THEN {Primary} ELSE Services
InForce(r)  == setting[r.op][Primary] = r.mine
Gone(r)     == \A s \in Services : setting[r.op][s] # r.mine
\* (mutant of Newest: replay in journal order)
NewestOldestFirst(R) == {r \in R : \A q \in R : r.seq <= q.seq}
Newest(R)   == {r \in R : \A q \in R : q.seq <= r.seq}
Busy(o)     == \/ \E r \in pend : r.op = o
               \/ \E p \in Procs : pc[p] = "begin" /\ job[p].op = o

Init ==
    /\ setting \in [Ops -> [Services -> UserSide]]
    /\ \A o \in Adoptable : setting[o] = [s \in Services |-> Off]
    /\ by = [o \in Ops |-> [s \in Services |-> "outside"]]
    /\ wanted = setting
    /\ pend = {} /\ torn = FALSE
    /\ pc = [p \in Procs |-> "idle"]
    /\ phase = [p \in Procs |-> IF p \in Runs THEN "boot" ELSE "repair"]
    /\ sig = [p \in Procs |-> FALSE]
    /\ residue = [p \in Procs |-> FALSE]
    /\ seqno = [p \in Procs |-> 0]
    /\ held = [p \in Procs |-> {}]
    /\ job = [p \in Procs |-> NoJob]
    /\ left = [p \in Procs |-> {}]
    /\ err = [p \in Procs |-> FALSE]
    /\ reverted = [p \in Procs |-> FALSE]
    /\ faults = 0 /\ outside = 0 /\ disturbed = {}

-----------------------------------------------------------------------------
(* Contexts and failures.  Bring-up runs on the context the signal cancels; *)
(* panic, teardown, reapply, reverify and replay each run on a fresh one.   *)
(* A cancelled context makes every journal call and every command fail.     *)

CtxDone(p) == phase[p] = "boot" /\ sig[p]

Works(p) == ~CtxDone(p) /\ UNCHANGED faults

Fails(p) == \/ CtxDone(p) /\ UNCHANGED faults
            \/ ~CtxDone(p) /\ faults < MaxFaults /\ faults' = faults + 1

\* One appended line: the fold becomes q unless the line is welded to a fragment.
Append1(q) == pend' = (IF torn THEN pend ELSE q) /\ torn' = FALSE

\* A failed append: nothing, or (when the environment allows it) a fragment.
AppendFails(p) ==
    /\ pend' = pend
    /\ torn' \in {torn} \cup (IF "shortWrite" \in Hazards /\ ~CtxDone(p)
                              THEN {TRUE} ELSE {})

Put(R, r) == {q \in R : q.seq # r.seq} \cup {r}
Drop(R, r) == {q \in R : q.seq # r.seq}

\* Where a process goes when one lifecycle is over.
Resume(p) == CASE phase[p] \in {"boot", "serve"} -> "ready"
               [] phase[p] \in {"panic", "down"} -> "undo"
               [] OTHER -> "replay"

Goto(p, stage) == pc' = [pc EXCEPT ![p] = stage]

\* Enter Revert's loop over every service of the record.
StartRevert(p, r) ==
    /\ left' = [left EXCEPT ![p] = SlotsOf(r.op)]
    /\ err' = [err EXCEPT ![p] = FALSE]

-----------------------------------------------------------------------------
(* A run comes up: the run lock, then OpenJournal, then PriorResidue.       *)

\* (mutant of Open: the sequence restarts one short of the journal's last)
OpenSeqShort(p) ==
    /\ pc[p] = "idle"
    /\ \A q \in Runs : ~Active(q)
    /\ "overlap" \in Hazards \/ \A q \in Repairers : ~Active(q)
    /\ torn' = FALSE
    /\ \E n \in {0} \cup {r.seq : r \in pend} :
          /\ \A r \in pend : r.seq <= n
          /\ seqno' = [seqno EXCEPT ![p] = n - 1]
    /\ held' = [held EXCEPT ![p] = {}]
    /\ residue' = [residue EXCEPT ![p] = pend # {}]
    /\ Goto(p, "ready")
    /\ UNCHANGED <<world, pend, phase, sig, job, left, err, reverted,
                   faults, outside, disturbed>>

Open(p) ==
    /\ pc[p] = "idle"
    /\ \A q \in Runs : ~Active(q)          \* flock; the kernel drops a dead one's
    /\ "overlap" \in Hazards \/ \A q \in Repairers : ~Active(q)
    /\ torn' = FALSE                        \* truncateToLastLine
    /\ \E n \in {0} \cup {r.seq : r \in pend} :
          /\ \A r \in pend : r.seq <= n
          /\ seqno' = [seqno EXCEPT ![p] = n]
    /\ held' = [held EXCEPT ![p] = {}]
    /\ residue' = [residue EXCEPT ![p] = pend # {}]
    /\ Goto(p, "ready")
    /\ UNCHANGED <<world, pend, phase, sig, job, left, err, reverted,
                   faults, outside, disturbed>>

\* (mutant of Captured: a setting we did not write is always the user's)
CapturedNoResidue(p, v) == IF v = Listener[p] THEN Off ELSE v

\* notSelf: what prepare records as the value to restore.
Captured(p, v) ==
    IF v = Listener[p] \/ (residue[p] /\ v \in Loopback) THEN Off ELSE v

\* Manager.Do up to the journal: prepare, then the adoption pre-check.  A
\* failing prepare returns with nothing changed, so it is not a step; the
\* pre-check's Verify may fail although the state is there.
Prepare(p, o) ==
    /\ pc[p] = "ready" /\ seqno[p] < MaxSeq /\ ~CtxDone(p)
    /\ \/ phase[p] = "boot" /\ \A r \in held[p] : r.op # o
       \/ phase[p] = "serve" /\ o \in Absolute      \* doReapply
    /\ \E adopted \in BOOLEAN :
          /\ adopted => o \in Adoptable /\ setting[o][Primary] = Listener[p]
          /\ IF o \in Adoptable /\ setting[o][Primary] = Listener[p] /\ ~adopted
             THEN faults < MaxFaults /\ faults' = faults + 1
             ELSE UNCHANGED faults
          /\ job' = [job EXCEPT ![p] =
                [seq |-> seqno[p] + 1, op |-> o, owner |-> p,
                 mine |-> Listener[p], adopted |-> adopted,
                 prev |-> [s \in Services |-> Captured(p, setting[o][s])]]]
    /\ disturbed' = IF /\ o \in Absolute /\ residue[p]
                       /\ \E s \in Services : setting[o][s] \in UserLoopback
                    THEN disturbed \cup {o} ELSE disturbed
    /\ Goto(p, "begin")
    /\ UNCHANGED <<world, file, phase, sig, residue, seqno, held, left, err,
                   reverted, outside>>

\* Journal.Begin: the revert record is on disk before the mutation is tried.
Begin(p) ==
    /\ pc[p] = "begin"
    /\ \/ /\ Works(p)
          /\ Append1(Put(pend, job[p]))
          /\ seqno' = [seqno EXCEPT ![p] = job[p].seq]
          /\ left' = [left EXCEPT ![p] = SlotsOf(job[p].op)]
          /\ Goto(p, IF job[p].adopted THEN "commit" ELSE "apply")
       \/ /\ Fails(p)
          /\ AppendFails(p)
          /\ Goto(p, "ready")
          /\ UNCHANGED <<seqno, left>>
    /\ UNCHANGED <<world, phase, sig, residue, held, job, err, reverted,
                   outside, disturbed>>

\* Apply, one service at a time.  `route add' fails when the destination is
\* already owned.
ApplySlot(p, s) ==
    /\ pc[p] = "apply" /\ s \in left[p] /\ Works(p)
    /\ job[p].op \in Adoptable => setting[job[p].op][s] = Off
    /\ setting' = [setting EXCEPT ![job[p].op][s] = job[p].mine]
    /\ by' = [by EXCEPT ![job[p].op][s] = p]
    /\ left' = [left EXCEPT ![p] = @ \ {s}]
    /\ Goto(p, IF left[p] = {s} THEN "verify" ELSE "apply")
    /\ UNCHANGED <<wanted, file, phase, sig, residue, seqno, held, job, err,
                   reverted, outside, disturbed>>

\* Apply stops at the first error.  rollback reverts unless the Op says it
\* changed nothing (mutator), in which case it only closes the record.
ApplyErr(p) ==
    /\ pc[p] = "apply"
    /\ \/ Fails(p)
       \/ Works(p) /\ job[p].op \in Adoptable /\ setting[job[p].op][Primary] # Off
    /\ StartRevert(p, job[p])
    /\ Goto(p, IF job[p].op \in Adoptable THEN "close" ELSE "revert")
    /\ UNCHANGED <<world, file, phase, sig, residue, seqno, held, job,
                   reverted, outside, disturbed>>

\* Verify reads through the subsystem Apply did not write through.
Verify(p) ==
    /\ pc[p] = "verify"
    /\ \/ /\ Works(p) /\ InForce(job[p])
          /\ Goto(p, "commit") /\ UNCHANGED <<left, err>>
       \/ /\ Fails(p) \/ (Works(p) /\ ~InForce(job[p]))
          /\ StartRevert(p, job[p]) /\ Goto(p, "revert")
    /\ UNCHANGED <<world, file, phase, sig, residue, seqno, held, job,
                   reverted, outside, disturbed>>

\* Commit, then push onto Manager.done.  An adopted record whose commit fails
\* is left as it is; a live change whose commit fails is rolled back.
Commit(p) ==
    /\ pc[p] = "commit"
    /\ \/ /\ Works(p)
          /\ Append1(Put(pend, job[p]))
          /\ held' = [held EXCEPT ![p] = @ \cup {job[p]}]
          /\ Goto(p, "ready") /\ UNCHANGED <<left, err>>
       \/ /\ Fails(p) /\ AppendFails(p)
          /\ StartRevert(p, job[p])
          /\ Goto(p, IF job[p].adopted THEN "ready" ELSE "revert")
          /\ UNCHANGED held
    /\ UNCHANGED <<world, phase, sig, residue, seqno, job, reverted, outside,
                   disturbed>>

-----------------------------------------------------------------------------
(* Undoing one record: Revert over every service, VerifyReverted, then the  *)
(* journal's Done.  rollback, UndoAll and Replay all do exactly this.       *)

\* What Revert leaves in one slot: the captured value, or, for a route, the
\* deletion of an entry that matches ours.
Restored(r, s) ==
    IF r.op \in Absolute THEN r.prev[s]
    ELSE IF setting[r.op][s] = r.mine THEN Off ELSE setting[r.op][s]

\* One slot of the record in hand is left holding v.
Leaves(p, s, v) ==
    /\ setting' = [setting EXCEPT ![job[p].op][s] = v]
    /\ by' = IF v # setting[job[p].op][s]
             THEN [by EXCEPT ![job[p].op][s] = "outside"] ELSE by

\* Revert keeps going after an error and returns the first one; a failed
\* route delete is logged and never returned, and a routing table that cannot
\* be read does not stop the delete.  A record whose revert failed is
\* abandoned to a later replay.
RevertSlot(p, s) ==
    /\ pc[p] = "revert" /\ s \in left[p]
    /\ \/ Works(p) /\ Leaves(p, s, Restored(job[p], s)) /\ UNCHANGED err
       \/ /\ Fails(p) /\ ~CtxDone(p) /\ job[p].op \in Adoptable
          /\ Leaves(p, s, Off) /\ UNCHANGED err
       \/ /\ Fails(p) /\ UNCHANGED <<setting, by>>
          /\ err' = [err EXCEPT ![p] = @ \/ job[p].op \in Absolute]
    /\ left' = [left EXCEPT ![p] = @ \ {s}]
    /\ Goto(p, IF left[p] # {s} THEN "revert"
               ELSE IF err'[p] THEN Resume(p) ELSE "check")
    /\ disturbed' = IF left[p] = {s} /\ err'[p]
                    THEN disturbed \cup {job[p].op} ELSE disturbed
    /\ UNCHANGED <<wanted, file, phase, sig, residue, seqno, held, job,
                   reverted, outside>>

\* (mutant of Check: the record is closed whatever the read-back shows)
CheckIgnored(p) ==
    /\ pc[p] = "check" /\ Works(p)
    /\ Goto(p, "close")
    /\ UNCHANGED <<world, file, phase, sig, residue, seqno, held, job, left,
                   err, reverted, outside, disturbed>>

\* VerifyReverted only asserts that our own value is gone.
Check(p) ==
    /\ pc[p] = "check"
    /\ \/ /\ Works(p) /\ Gone(job[p])
          /\ Goto(p, "close") /\ UNCHANGED disturbed
       \/ /\ Fails(p) \/ (Works(p) /\ ~Gone(job[p]))
          /\ Goto(p, Resume(p))
          /\ disturbed' = disturbed \cup {job[p].op}
    /\ UNCHANGED <<world, file, phase, sig, residue, seqno, held, job, left,
                   err, reverted, outside>>

\* Journal.Done writes its line ...
Close(p) ==
    /\ pc[p] = "close"
    /\ \/ Works(p) /\ Append1(Drop(pend, job[p])) /\ Goto(p, "scan")
       \/ Fails(p) /\ AppendFails(p) /\ Goto(p, Resume(p))
    /\ disturbed' = IF pc'[p] = "scan" THEN disturbed
                    ELSE disturbed \cup {job[p].op}
    /\ UNCHANGED <<world, phase, sig, residue, seqno, held, job, left, err,
                   reverted, outside>>

\* ... reads the file back (compactLocked) ...
Scan(p) ==
    /\ pc[p] = "scan"
    /\ Goto(p, IF pend = {} THEN "trunc" ELSE Resume(p))
    /\ UNCHANGED <<world, file, phase, sig, residue, seqno, held, job, left,
                   err, reverted, faults, outside, disturbed>>

\* ... and truncates it if nothing was outstanding in what it read.
Trunc(p) ==
    /\ pc[p] = "trunc"
    /\ pend' = {} /\ torn' = FALSE
    /\ Goto(p, Resume(p))
    /\ UNCHANGED <<world, phase, sig, residue, seqno, held, job, left, err,
                   reverted, faults, outside, disturbed>>

\* Take the newest record off the stack and start undoing it.
Pop(p, r) ==
    /\ held' = [held EXCEPT ![p] = @ \ {r}]
    /\ job' = [job EXCEPT ![p] = r]
    /\ StartRevert(p, r)
    /\ Goto(p, IF r.adopted THEN "close" ELSE "revert")

-----------------------------------------------------------------------------
(* The rest of a run's life.                                                *)

Signal(p) ==
    /\ Active(p) /\ phase[p] = "boot" /\ ~sig[p]
    /\ sig' = [sig EXCEPT ![p] = TRUE]
    /\ UNCHANGED <<world, file, pc, phase, residue, seqno, held, job, left,
                   err, reverted, faults, outside, disturbed>>

Serve(p) ==
    /\ pc[p] = "ready" /\ phase[p] = "boot" /\ ~sig[p]
    /\ phase' = [phase EXCEPT ![p] = "serve"]
    /\ UNCHANGED <<world, file, pc, sig, residue, seqno, held, job, left, err,
                   reverted, faults, outside, disturbed>>

\* `dpb panic' reverts at once and leaves the process to stop a moment later;
\* the teardown stack reverts too, but revertOnce lets only the first through.
Unwind(p, how) ==
    /\ pc[p] = "ready"
    /\ how = "panic" => phase[p] = "serve" /\ ~reverted[p]
    /\ how = "down" => phase[p] \in {"boot", "serve"}
    /\ phase' = [phase EXCEPT ![p] = how]
    /\ Goto(p, IF reverted[p] THEN "exited" ELSE "undo")
    /\ UNCHANGED <<world, file, sig, residue, seqno, held, job, left, err,
                   reverted, faults, outside, disturbed>>

\* UndoAll: newest first, an adopted record is only closed, never stops early.
Undo(p) ==
    /\ pc[p] = "undo"
    /\ \E r \in Newest(held[p]) : Pop(p, r)
    /\ UNCHANGED <<world, file, phase, sig, residue, seqno, reverted, faults,
                   outside, disturbed>>

UndoEnd(p) ==
    /\ pc[p] = "undo" /\ held[p] = {}
    /\ reverted' = [reverted EXCEPT ![p] = TRUE]
    /\ IF phase[p] = "panic"
       THEN phase' = [phase EXCEPT ![p] = "serve"] /\ Goto(p, "ready")
       ELSE Goto(p, "exited") /\ UNCHANGED phase
    /\ UNCHANGED <<world, file, sig, residue, seqno, held, job, left, err,
                   faults, outside, disturbed>>

\* Reverify finds an applied record out of force and re-applies it under the
\* record it already has; adopted records are never touched.  A pass visits
\* every record; each visit is one Reverify here.
Reverify(p) ==
    /\ pc[p] = "ready" /\ phase[p] = "serve"
    /\ \E r \in held[p] :
          /\ ~r.adopted /\ ~InForce(r)
          /\ job' = [job EXCEPT ![p] = r]
          /\ left' = [left EXCEPT ![p] = SlotsOf(r.op)]
    /\ Goto(p, "reapply")
    /\ UNCHANGED <<world, file, phase, sig, residue, seqno, held, err,
                   reverted, faults, outside, disturbed>>

\* restore: Apply again; a failure is reported and NOT rolled back.
Reapply(p, s) ==
    /\ pc[p] = "reapply" /\ s \in left[p] /\ Works(p)
    /\ job[p].op \in Adoptable => setting[job[p].op][s] = Off
    /\ setting' = [setting EXCEPT ![job[p].op][s] = job[p].mine]
    /\ by' = [by EXCEPT ![job[p].op][s] = p]
    /\ left' = [left EXCEPT ![p] = @ \ {s}]
    /\ Goto(p, IF left[p] = {s} THEN "ready" ELSE "reapply")
    /\ UNCHANGED <<wanted, file, phase, sig, residue, seqno, held, job, err,
                   reverted, outside, disturbed>>

ReapplyErr(p) ==
    /\ pc[p] = "reapply"
    /\ \/ Fails(p)
       \/ Works(p) /\ job[p].op \in Adoptable /\ setting[job[p].op][Primary] # Off
    /\ Goto(p, "ready")
    /\ UNCHANGED <<world, file, phase, sig, residue, seqno, held, job, left,
                   err, reverted, outside, disturbed>>

-----------------------------------------------------------------------------
(* A repairer: open the journal, read what is pending, undo it newest first. *)

RepairOpen(p) ==
    /\ pc[p] = "idle"
    /\ "overlap" \in Hazards \/ \A q \in Procs : ~Active(q)
    /\ torn' = FALSE
    /\ held' = [held EXCEPT ![p] = pend]
    /\ Goto(p, "replay")
    /\ UNCHANGED <<world, pend, phase, sig, residue, seqno, job, left, err,
                   reverted, faults, outside, disturbed>>

\* A record whose owner is alive is skipped, never reverted.
Replay(p) ==
    /\ pc[p] = "replay"
    /\ \E r \in Newest(held[p]) :
          IF Active(r.owner)
          THEN /\ held' = [held EXCEPT ![p] = @ \ {r}]
               /\ UNCHANGED <<pc, job, left, err>>
          ELSE Pop(p, r)
    /\ UNCHANGED <<world, file, phase, sig, residue, seqno, reverted, faults,
                   outside, disturbed>>

ReplayEnd(p) ==
    /\ pc[p] = "replay" /\ held[p] = {}
    /\ Goto(p, "idle")
    /\ job' = [job EXCEPT ![p] = NoJob]
    /\ UNCHANGED <<world, file, phase, sig, residue, seqno, held, left, err,
                   reverted, faults, outside, disturbed>>

-----------------------------------------------------------------------------
(* The environment.                                                         *)

\* A process's memory goes with it.
Forget(p) ==
    /\ phase' = [phase EXCEPT ![p] = IF p \in Runs THEN "boot" ELSE "repair"]
    /\ sig' = [sig EXCEPT ![p] = FALSE]
    /\ residue' = [residue EXCEPT ![p] = FALSE]
    /\ seqno' = [seqno EXCEPT ![p] = 0]
    /\ held' = [held EXCEPT ![p] = {}]
    /\ job' = [job EXCEPT ![p] = NoJob]
    /\ left' = [left EXCEPT ![p] = {}]
    /\ err' = [err EXCEPT ![p] = FALSE]
    /\ reverted' = [reverted EXCEPT ![p] = FALSE]

\* SIGKILL.  Caught inside a journal write it leaves a fragment.
Kill(p) ==
    /\ Active(p)
    /\ Goto(p, IF p \in Runs THEN "dead" ELSE "idle")
    /\ torn' \in {torn} \cup (IF pc[p] \in {"begin", "commit", "close"}
                              THEN {TRUE} ELSE {})
    /\ IF p \in Runs THEN UNCHANGED faults
       ELSE faults < MaxFaults /\ faults' = faults + 1
    /\ Forget(p)
    /\ UNCHANGED <<world, pend, outside, disturbed>>

\* Somebody else changes a setting: the user, a Wi-Fi association, a VPN
\* client.  A route on our own interface (a Listeners value) appears only while
\* no record of ours names it: the interface unit is ours.
Outside(o, s) ==
    /\ outside < MaxOutside /\ outside' = outside + 1
    /\ \E v \in Values :
          /\ v # setting[o][s]
          /\ IF o \in Absolute THEN v \in UserSide
             ELSE /\ s = Primary /\ v \notin UserLoopback
                  /\ v \in Listeners => ~Busy(o)
          /\ setting' = [setting EXCEPT ![o][s] = v]
          /\ wanted' = [wanted EXCEPT ![o][s] = v]
    /\ by' = [by EXCEPT ![o][s] = "outside"]
    /\ disturbed' = IF Busy(o) THEN disturbed \cup {o} ELSE disturbed
    /\ UNCHANGED <<file, proc, faults>>

RunStep(p) ==
    \/ Open(p) \/ Begin(p) \/ ApplyErr(p) \/ Verify(p) \/ Commit(p)
    \/ Signal(p) \/ Serve(p) \/ Undo(p) \/ UndoEnd(p) \/ Reverify(p)
    \/ ReapplyErr(p)
    \/ \E o \in Ops : Prepare(p, o)
    \/ \E s \in Services : ApplySlot(p, s) \/ Reapply(p, s)
    \/ \E how \in {"panic", "down"} : Unwind(p, how)

ReplayStep(p) == RepairOpen(p) \/ Replay(p) \/ ReplayEnd(p)

RevertStep(p) ==
    \/ Check(p) \/ Close(p) \/ Scan(p) \/ Trunc(p)
    \/ \E s \in Services : RevertSlot(p, s)

Next ==
    \/ \E p \in Runs : RunStep(p)
    \/ \E p \in Repairers : ReplayStep(p)
    \/ \E p \in Procs : RevertStep(p) \/ Kill(p)
    \/ \E o \in Ops, s \in Services : Outside(o, s)

Spec == Init /\ [][Next]_vars

-----------------------------------------------------------------------------
(* What the component promises.                                             *)

\* Every variable stays within its type.
TypeOK ==
    /\ setting \in [Ops -> [Services -> Values]]
    /\ by \in [Ops -> [Services -> Runs \cup {"outside"}]]
    /\ wanted \in [Ops -> [Services -> Values]]
    /\ pend \subseteq Record /\ torn \in BOOLEAN
    /\ pc \in [Procs -> Stages] /\ phase \in [Procs -> Phases]
    /\ sig \in [Procs -> BOOLEAN] /\ residue \in [Procs -> BOOLEAN]
    /\ seqno \in [Procs -> Nat]
    /\ held \in [Procs -> SUBSET Record]
    /\ job \in [Procs -> Record \cup {NoJob}]
    /\ left \in [Procs -> SUBSET Services]
    /\ err \in [Procs -> BOOLEAN] /\ reverted \in [Procs -> BOOLEAN]
    /\ faults \in Nat /\ outside \in Nat /\ disturbed \subseteq Ops

\* The journal never under-approximates: whatever a run has left in the
\* machine's settings, at any moment and through any crash, failed command or
\* failed write, some outstanding record describes it, so a later process can
\* find it and take it out (Journal's contract, journal.go).
ResidueIsJournalled ==
    \A o \in Ops, s \in Services :
        by[o][s] \in Runs =>
            \E r \in pend : r.op = o /\ ~r.adopted /\ r.mine = setting[o][s]

\* What the user had is never lost: with no record outstanding the setting is
\* what the user chose, otherwise the oldest outstanding record, the one
\* replayed last, still holds it.  The `disturbed' Ops are those for which a
\* revert failed halfway, the user changed the setting mid-run, or notSelf
\* discarded the user's own loopback value on purpose.
UserValueRecoverable ==
    \A o \in Absolute \ disturbed :
        LET mine == {r \in pend : r.op = o}
        IN  IF mine = {} THEN setting[o] = wanted[o]
            ELSE \E r \in mine : /\ \A q \in mine : r.seq <= q.seq
                                 /\ r.prev = wanted[o]

\* No record would ever restore a dpb listener: a run started over a crashed
\* one's leftovers does not journal the dead listener as the user's setting
\* (notSelf with Env.PriorResidue), which would strand the machine offline.
NeverRestoresAListener ==
    \A r \in pend, s \in Services :
        r.op \in Absolute => r.prev[s] \notin Listeners

=============================================================================
