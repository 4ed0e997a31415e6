--------------------------- MODULE NetStateProofs ---------------------------
(***************************************************************************)
(* Proofs about NetState for every set of runs, repairers, Ops, services   *)
(* and values, and every bound.  The journal theorems hold in the          *)
(* environment with Hazards = {}: no replay beside a live run, no short    *)
(* write.  Both conditions are needed: with "overlap" or "shortWrite" in   *)
(* Hazards, TLC finds ResidueIsJournalled violated.                        *)
(*                                                                         *)
(* IInv is the invariant of the journal, UInv, on top of it, that of the   *)
(* user's value.                                                           *)
EXTENDS NetState, TLAPS

\* A process working on a record has one.
JobOK ==
    \A p \in Procs :
        pc[p] \in {"begin", "apply", "verify", "commit", "revert", "check",
                  "close", "reapply"} => job[p] \in Record

TypeInv == TypeOK /\ JobOK

\* At most one process works on the journal at a time.
Excl == \A p, q \in Procs : Active(p) /\ Active(q) => p = q

SeqUnique == \A r, q \in pend : r.seq = q.seq => r = q

\* A dpb listener in an absolute setting was put there by a run.
ListenerIsOurs ==
    \A o \in Absolute, s \in Services :
        setting[o][s] \in Listeners => by[o][s] \in Runs

\* Taking r out of the journal would leave nothing unjournalled.
CoveredWithout(r) ==
    \A o \in Ops, s \in Services :
        by[o][s] \in Runs =>
            \E q \in pend : /\ q.op = o /\ ~q.adopted /\ q.mine = setting[o][s]
                            /\ q.seq # r.seq

\* The record p is about to journal.
Fresh(p) ==
    /\ job[p].seq = seqno[p] + 1
    /\ job[p].mine = Listener[p]
    /\ job[p].op \in Absolute => \A s \in Services : job[p].prev[s] \notin Listeners

Working == {"apply", "verify", "commit", "revert", "check", "close"}

\* What an active process knows.
Local(p) ==
    /\ ~torn
    /\ held[p] \subseteq pend
    /\ p \in Runs => \A r \in pend : r.seq <= seqno[p]
    /\ p \in Runs /\ ~residue[p] => \A r \in pend : r.mine = Listener[p]
    /\ pc[p] = "begin" => Fresh(p)
    /\ pc[p] \in Working => job[p] \in pend /\ job[p] \notin held[p]
    /\ pc[p] = "reapply" => job[p] \in pend
    /\ pc[p] \in {"apply", "verify", "revert", "check", "reapply"} => ~job[p].adopted
    /\ pc[p] = "apply" /\ job[p].op \in Adoptable =>
          left[p] = {Primary} /\ CoveredWithout(job[p])
    /\ pc[p] = "close" => CoveredWithout(job[p])
    /\ pc[p] = "trunc" => pend = {}

IInv ==
    /\ TypeInv /\ Excl /\ SeqUnique /\ ListenerIsOurs
    /\ ResidueIsJournalled /\ NeverRestoresAListener
    /\ \A p \in Procs : Active(p) => Local(p)

-----------------------------------------------------------------------------
(* Types.                                                                   *)

LEMMA InitType == Init => TypeInv
<1>1. SUFFICES ASSUME Init PROVE TypeInv
  OBVIOUS
<1>2. Off \in UserSide /\ UserSide \subseteq Values
  BY DEF UserSide, Values
<1>3. setting \in [Ops -> [Services -> Values]]
  BY <1>1, <1>2 DEF Init
<1> QED
  BY <1>1, <1>3 DEF Init, TypeInv, TypeOK, JobOK, Stages, Phases

LEMMA OpenType ==
  ASSUME TypeInv, NEW p \in Runs, Open(p) PROVE TypeInv'
<1>1. \A n \in {0} \cup {r.seq : r \in pend} : n \in Nat
  BY DEF TypeInv, TypeOK, Record
<1> QED
  BY <1>1 DEF Open, TypeInv, TypeOK, JobOK, Procs, Goto, Stages, world

LEMMA PrepareType ==
  ASSUME TypeInv, NEW p \in Runs, NEW o \in Ops, Prepare(p, o) PROVE TypeInv'
<1>1. \A s \in Services : Captured(p, setting[o][s]) \in Values
  BY DEF Captured, TypeInv, TypeOK, Values, UserSide
<1>2. Listener[p] \in Listeners /\ seqno[p] + 1 \in Nat
  BY DEF Listeners, TypeInv, TypeOK, Procs
<1>3. PICK adopted \in BOOLEAN :
        job' = [job EXCEPT ![p] =
                [seq |-> seqno[p] + 1, op |-> o, owner |-> p,
                 mine |-> Listener[p], adopted |-> adopted,
                 prev |-> [s \in Services |-> Captured(p, setting[o][s])]]]
  BY DEF Prepare
<1>4. job' \in [Procs -> Record \cup {NoJob}] /\ job'[p] \in Record
  BY <1>1, <1>2, <1>3 DEF TypeInv, TypeOK, Record, Procs
<1>5. faults' \in Nat
  BY DEF Prepare, TypeInv, TypeOK
<1>6. disturbed' \subseteq Ops
  BY DEF Prepare, TypeInv, TypeOK
<1>7. pc' \in [Procs -> Stages]
  BY DEF Prepare, Goto, TypeInv, TypeOK, Stages
<1>8. JobOK'
  BY <1>3, <1>4 DEF Prepare, Goto, TypeInv, TypeOK, JobOK
<1> QED
  BY <1>4, <1>5, <1>6, <1>7, <1>8 DEF Prepare, TypeInv, TypeOK, world, file

LEMMA SlotsType == \A o : SlotsOf(o) \subseteq Services
  BY PrimaryService DEF SlotsOf

LEMMA ResumeType == \A p : Resume(p) \in {"ready", "undo", "replay"}
  BY DEF Resume

LEMMA OutcomeType ==
  ASSUME TypeOK, NEW p \in Procs, Works(p) \/ Fails(p) PROVE faults' \in Nat
  BY DEF Works, Fails, TypeOK

LEMMA StartRevertType ==
  ASSUME TypeOK, NEW p \in Procs, NEW r, StartRevert(p, r)
  PROVE  left' \in [Procs -> SUBSET Services] /\ err' \in [Procs -> BOOLEAN]
  BY SlotsType DEF StartRevert, TypeOK

LEMMA BeginType ==
  ASSUME TypeInv, NEW p \in Runs, Begin(p) PROVE TypeInv'
<1>1. job[p] \in Record /\ job[p].seq \in Nat /\ p \in Procs
  BY DEF Begin, TypeInv, JobOK, Record, Procs
<1>2. pend' \subseteq Record /\ torn' \in BOOLEAN
  BY <1>1 DEF Begin, Append1, AppendFails, Put, TypeInv, TypeOK
<1>3. faults' \in Nat
  BY <1>1, OutcomeType DEF Begin, TypeInv
<1>4. seqno' \in [Procs -> Nat] /\ left' \in [Procs -> SUBSET Services]
  BY <1>1, SlotsType DEF Begin, TypeInv, TypeOK
<1>5. pc' \in [Procs -> Stages] /\ JobOK'
  BY <1>1 DEF Begin, Goto, Stages, TypeInv, TypeOK, JobOK
<1> QED
  BY <1>2, <1>3, <1>4, <1>5 DEF Begin, TypeInv, TypeOK, world

LEMMA ApplySlotType ==
  ASSUME TypeInv, NEW p \in Runs, NEW s \in Services, ApplySlot(p, s) PROVE TypeInv'
  BY DEF ApplySlot, TypeInv, TypeOK, JobOK, Procs, Goto, Stages, Phases, CtxDone, Append1, AppendFails, Put, Drop, Works, world, file, Record, Values

LEMMA ApplyErrType ==
  ASSUME TypeInv, NEW p \in Runs, ApplyErr(p) PROVE TypeInv'
<1>1. job[p] \in Record /\ p \in Procs
  BY DEF ApplyErr, TypeInv, JobOK, Record, Procs
<1>2. faults' \in Nat
  BY <1>1, OutcomeType DEF ApplyErr, TypeInv
<1>3. left' \in [Procs -> SUBSET Services] /\ err' \in [Procs -> BOOLEAN]
  BY <1>1, StartRevertType DEF ApplyErr, TypeInv, TypeOK
<1>4. pc' \in [Procs -> Stages] /\ JobOK'
  BY <1>1 DEF ApplyErr, Goto, Stages, TypeInv, TypeOK, JobOK
<1> QED
  BY <1>1, <1>2, <1>3, <1>4 DEF ApplyErr, TypeInv, TypeOK, world, file

LEMMA VerifyType ==
  ASSUME TypeInv, NEW p \in Runs, Verify(p) PROVE TypeInv'
<1>1. job[p] \in Record /\ p \in Procs
  BY DEF Verify, TypeInv, JobOK, Record, Procs
<1>2. faults' \in Nat
  BY <1>1, OutcomeType DEF Verify, TypeInv
<1>3. left' \in [Procs -> SUBSET Services] /\ err' \in [Procs -> BOOLEAN]
  BY <1>1, StartRevertType DEF Verify, TypeInv, TypeOK
<1>4. pc' \in [Procs -> Stages] /\ JobOK'
  BY <1>1 DEF Verify, Goto, Stages, TypeInv, TypeOK, JobOK
<1> QED
  BY <1>1, <1>2, <1>3, <1>4 DEF Verify, TypeInv, TypeOK, world, file

LEMMA CommitType ==
  ASSUME TypeInv, NEW p \in Runs, Commit(p) PROVE TypeInv'
<1>1. job[p] \in Record /\ p \in Procs
  BY DEF Commit, TypeInv, JobOK, Record, Procs
<1>2. pend' \subseteq Record /\ torn' \in BOOLEAN
  BY <1>1 DEF Commit, Append1, AppendFails, Put, TypeInv, TypeOK
<1>3. faults' \in Nat
  BY <1>1, OutcomeType DEF Commit, TypeInv
<1>4. left' \in [Procs -> SUBSET Services] /\ err' \in [Procs -> BOOLEAN]
  BY <1>1, StartRevertType DEF Commit, TypeInv, TypeOK
<1>5. pc' \in [Procs -> Stages] /\ JobOK'
  BY <1>1 DEF Commit, Goto, Stages, TypeInv, TypeOK, JobOK
<1>6. held' \in [Procs -> SUBSET Record]
  BY <1>1 DEF Commit, TypeInv, TypeOK
<1> QED
  BY <1>1, <1>2, <1>3, <1>4, <1>5, <1>6 DEF Commit, TypeInv, TypeOK, world

LEMMA RevertSlotType ==
  ASSUME TypeInv, NEW p \in Procs, NEW s \in Services, RevertSlot(p, s) PROVE TypeInv'
<1>1. job[p] \in Record /\ p \in Procs
  BY DEF RevertSlot, TypeInv, JobOK, Record, Procs
<1>2. faults' \in Nat
  BY <1>1, OutcomeType DEF RevertSlot, TypeInv
<1>3. Restored(job[p], s) \in Values /\ Off \in Values
  BY <1>1 DEF Restored, Record, TypeInv, TypeOK, Values, UserSide
<1>4. setting' \in [Ops -> [Services -> Values]] /\ by' \in [Ops -> [Services -> Runs \cup {"outside"}]]
  <2>1. job[p].op \in Ops
    BY <1>1 DEF Record
  <2>2. CASE UNCHANGED <<setting, by>>
    BY <2>2 DEF TypeInv, TypeOK
  <2>3. CASE ~UNCHANGED <<setting, by>>
    <3>1. PICK v \in {Restored(job[p], s), Off} : Leaves(p, s, v)
      BY <2>3 DEF RevertSlot
    <3>2. by' = [by EXCEPT ![job[p].op][s] = "outside"] \/ by' = by
      BY <3>1 DEF Leaves
    <3>3. setting' \in [Ops -> [Services -> Values]]
      BY <1>3, <2>1, <3>1 DEF Leaves, TypeInv, TypeOK
    <3>4. by \in [Ops -> [Services -> Runs \cup {"outside"}]]
      BY DEF TypeInv, TypeOK
    <3>5. by' \in [Ops -> [Services -> Runs \cup {"outside"}]]
      BY <2>1, <3>2, <3>4
    <3> QED
      BY <3>3, <3>5
  <2> QED
    BY <2>2, <2>3
<1>5. left' \in [Procs -> SUBSET Services] /\ err' \in [Procs -> BOOLEAN]
  BY <1>1 DEF RevertSlot, TypeInv, TypeOK
<1>6. disturbed' \subseteq Ops
  BY <1>1 DEF RevertSlot, TypeInv, TypeOK, Record
<1>7. pc' \in [Procs -> Stages] /\ JobOK'
  BY <1>1, ResumeType DEF RevertSlot, Goto, Stages, TypeInv, TypeOK, JobOK
<1> QED
  BY <1>1, <1>2, <1>3, <1>4, <1>5, <1>6, <1>7 DEF RevertSlot, TypeInv, TypeOK, file

LEMMA CheckType ==
  ASSUME TypeInv, NEW p \in Procs, Check(p) PROVE TypeInv'
<1>1. job[p] \in Record /\ p \in Procs
  BY DEF Check, TypeInv, JobOK, Record, Procs
<1>2. faults' \in Nat
  BY <1>1, OutcomeType DEF Check, TypeInv
<1>3. disturbed' \subseteq Ops
  BY <1>1 DEF Check, TypeInv, TypeOK, Record
<1>4. pc' \in [Procs -> Stages] /\ JobOK'
  BY <1>1, ResumeType DEF Check, Goto, Stages, TypeInv, TypeOK, JobOK
<1> QED
  BY <1>1, <1>2, <1>3, <1>4 DEF Check, TypeInv, TypeOK, world, file

LEMMA CloseType ==
  ASSUME TypeInv, NEW p \in Procs, Close(p) PROVE TypeInv'
<1>1. job[p] \in Record /\ p \in Procs
  BY DEF Close, TypeInv, JobOK, Record, Procs
<1>2. pend' \subseteq Record /\ torn' \in BOOLEAN
  BY <1>1 DEF Close, Append1, AppendFails, Drop, TypeInv, TypeOK
<1>3. faults' \in Nat
  BY <1>1, OutcomeType DEF Close, TypeInv
<1>4. disturbed' \subseteq Ops
  BY <1>1 DEF Close, TypeInv, TypeOK, Record
<1>5. pc' \in [Procs -> Stages] /\ JobOK'
  BY <1>1, ResumeType DEF Close, Goto, Stages, TypeInv, TypeOK, JobOK
<1> QED
  BY <1>1, <1>2, <1>3, <1>4, <1>5 DEF Close, TypeInv, TypeOK, world

LEMMA ScanType ==
  ASSUME TypeInv, NEW p \in Procs, Scan(p) PROVE TypeInv'
  BY ResumeType DEF Scan, TypeInv, TypeOK, JobOK, Procs, Goto, Stages, Phases, world, file

LEMMA TruncType ==
  ASSUME TypeInv, NEW p \in Procs, Trunc(p) PROVE TypeInv'
  BY ResumeType DEF Trunc, TypeInv, TypeOK, JobOK, Procs, Goto, Stages, Phases, world

LEMMA SignalType ==
  ASSUME TypeInv, NEW p \in Runs, Signal(p) PROVE TypeInv'
  BY DEF Signal, TypeInv, TypeOK, JobOK, Procs, Goto, Stages, Phases, world, file

LEMMA ServeType ==
  ASSUME TypeInv, NEW p \in Runs, Serve(p) PROVE TypeInv'
  BY DEF Serve, TypeInv, TypeOK, JobOK, Procs, Goto, Stages, Phases, world, file

LEMMA UnwindType ==
  ASSUME TypeInv, NEW p \in Runs, NEW how \in {"panic", "down"}, Unwind(p, how) PROVE TypeInv'
  BY DEF Unwind, TypeInv, TypeOK, JobOK, Procs, Goto, Stages, Phases, world, file

LEMMA PopType ==
  ASSUME TypeInv, NEW p \in Procs, NEW r \in Newest(held[p]), Pop(p, r)
  PROVE  /\ held' \in [Procs -> SUBSET Record]
         /\ job' \in [Procs -> Record \cup {NoJob}]
         /\ left' \in [Procs -> SUBSET Services] /\ err' \in [Procs -> BOOLEAN]
         /\ pc' \in [Procs -> Stages]
         /\ JobOK'
<1>1. r \in Record
  BY DEF Newest, TypeInv, TypeOK
<1>2. left' \in [Procs -> SUBSET Services] /\ err' \in [Procs -> BOOLEAN]
  BY StartRevertType DEF Pop, TypeInv
<1>3. job' \in [Procs -> Record \cup {NoJob}] /\ job' = [job EXCEPT ![p] = r]
  BY <1>1 DEF Pop, TypeInv, TypeOK
<1>4. pc' \in [Procs -> Stages] /\ JobOK'
  BY <1>1, <1>3 DEF Pop, Goto, TypeInv, TypeOK, JobOK, Stages
<1> QED
  BY <1>2, <1>3, <1>4 DEF Pop, TypeInv, TypeOK

LEMMA UndoType ==
  ASSUME TypeInv, NEW p \in Runs, Undo(p) PROVE TypeInv'
<1>1. PICK r \in Newest(held[p]) : Pop(p, r)
  BY DEF Undo
<1> QED
  BY <1>1, PopType DEF Undo, TypeInv, TypeOK, Procs, world, file

LEMMA UndoEndType ==
  ASSUME TypeInv, NEW p \in Runs, UndoEnd(p) PROVE TypeInv'
  BY DEF UndoEnd, TypeInv, TypeOK, JobOK, Procs, Goto, Stages, Phases, world, file

LEMMA ReverifyType ==
  ASSUME TypeInv, NEW p \in Runs, Reverify(p) PROVE TypeInv'
<1>1. PICK r \in held[p] :
        /\ job' = [job EXCEPT ![p] = r]
        /\ left' = [left EXCEPT ![p] = SlotsOf(r.op)]
  BY DEF Reverify
<1>2. r \in Record /\ p \in Procs
  BY DEF TypeInv, TypeOK, Procs
<1>3. left' \in [Procs -> SUBSET Services]
  BY <1>1, <1>2, SlotsType DEF TypeInv, TypeOK
<1>4. job' \in [Procs -> Record \cup {NoJob}] /\ job'[p] = r
  BY <1>1, <1>2 DEF TypeInv, TypeOK
<1>5. pc' \in [Procs -> Stages] /\ JobOK'
  BY <1>1, <1>2, <1>4 DEF Reverify, Goto, TypeInv, TypeOK, JobOK, Stages
<1> QED
  BY <1>3, <1>4, <1>5 DEF Reverify, TypeInv, TypeOK, world, file

LEMMA ReapplyType ==
  ASSUME TypeInv, NEW p \in Runs, NEW s \in Services, Reapply(p, s) PROVE TypeInv'
  BY DEF Reapply, TypeInv, TypeOK, JobOK, Procs, Goto, Stages, Phases, CtxDone, Append1, AppendFails, Put, Drop, Works, world, file, Record, Values

LEMMA ReapplyErrType ==
  ASSUME TypeInv, NEW p \in Runs, ReapplyErr(p) PROVE TypeInv'
  BY DEF ReapplyErr, TypeInv, TypeOK, JobOK, Procs, Goto, Stages, Phases, CtxDone, Append1, AppendFails, Put, Drop, Works, Fails, world, file

LEMMA RepairOpenType ==
  ASSUME TypeInv, NEW p \in Repairers, RepairOpen(p) PROVE TypeInv'
  BY DEF RepairOpen, TypeInv, TypeOK, JobOK, Procs, Goto, Stages, Phases, world

LEMMA ReplayType ==
  ASSUME TypeInv, NEW p \in Repairers, Replay(p) PROVE TypeInv'
<1>1. PICK r \in Newest(held[p]) :
        IF Active(r.owner)
        THEN /\ held' = [held EXCEPT ![p] = @ \ {r}]
             /\ UNCHANGED <<pc, job, left, err>>
        ELSE Pop(p, r)
  BY DEF Replay
<1>2. p \in Procs
  BY DEF Procs
<1>3. CASE Active(r.owner)
  BY <1>1, <1>2, <1>3 DEF Replay, TypeInv, TypeOK, JobOK, world, file
<1>4. CASE ~Active(r.owner)
  BY <1>1, <1>2, <1>4, PopType DEF Replay, TypeInv, TypeOK, world, file
<1> QED
  BY <1>3, <1>4

LEMMA ReplayEndType ==
  ASSUME TypeInv, NEW p \in Repairers, ReplayEnd(p) PROVE TypeInv'
  BY DEF ReplayEnd, TypeInv, TypeOK, JobOK, Procs, Goto, Stages, Phases, world, file

LEMMA KillType ==
  ASSUME TypeInv, NEW p \in Procs, Kill(p) PROVE TypeInv'
<1>1. torn' \in BOOLEAN /\ faults' \in Nat
  <2>1. torn' \in {torn} \cup {TRUE}
    BY DEF Kill
  <2>2. faults' = faults \/ faults' = faults + 1
    BY DEF Kill
  <2>3. torn' \in BOOLEAN
    BY <2>1 DEF TypeInv, TypeOK
  <2>4. faults' \in Nat
    BY <2>2 DEF TypeInv, TypeOK
  <2> QED
    BY <2>3, <2>4
<1>2. pc' \in [Procs -> Stages] /\ JobOK'
  BY DEF Kill, Forget, Goto, Stages, TypeInv, TypeOK, JobOK
<1>3. phase' \in [Procs -> Phases]
  BY DEF Kill, Forget, Phases, TypeInv, TypeOK
<1> QED
  BY <1>1, <1>2, <1>3 DEF Kill, TypeInv, TypeOK, Forget, world

LEMMA OutsideType ==
  ASSUME TypeInv, NEW o \in Ops, NEW s \in Services, Outside(o, s) PROVE TypeInv'
  BY DEF Outside, TypeInv, TypeOK, JobOK, Procs, Goto, Stages, Phases, Values, UserSide, proc, file

LEMMA TypeStep == TypeInv /\ [Next]_vars => TypeInv'
<1>1. SUFFICES ASSUME TypeInv, [Next]_vars PROVE TypeInv'
  OBVIOUS
<1>2. ASSUME NEW p \in Runs, RunStep(p) PROVE TypeInv'
  BY <1>1, <1>2, OpenType, BeginType, ApplyErrType, VerifyType, CommitType,
     SignalType, ServeType, UndoType, UndoEndType, ReverifyType, ReapplyErrType,
     PrepareType, ApplySlotType, ReapplyType, UnwindType
     DEF RunStep
<1>3. ASSUME NEW p \in Repairers, ReplayStep(p) PROVE TypeInv'
  BY <1>1, <1>3, RepairOpenType, ReplayType, ReplayEndType DEF ReplayStep
<1>4. ASSUME NEW p \in Procs, RevertStep(p) \/ Kill(p) PROVE TypeInv'
  BY <1>1, <1>4, CheckType, CloseType, ScanType, TruncType, RevertSlotType, KillType
     DEF RevertStep
<1>5. CASE \E o \in Ops, s \in Services : Outside(o, s)
  BY <1>1, <1>5, OutsideType
<1>6. CASE UNCHANGED vars
  BY <1>1, <1>6 DEF TypeInv, TypeOK, JobOK, vars, world, file, proc
<1> QED
  BY <1>1, <1>2, <1>3, <1>4, <1>5, <1>6 DEF Next

\* Every variable keeps its type, whatever the environment does (any Hazards).
THEOREM TypeCorrect == Spec => []TypeOK
<1>1. TypeInv => TypeOK
  BY DEF TypeInv
<1> QED
  BY <1>1, InitType, TypeStep, PTL DEF Spec

-----------------------------------------------------------------------------
(* The journal.  A step of p leaves every other process inactive, so an      *)
(* action's proof owes the four statements about the world and the journal,  *)
(* and what p itself knows afterwards.                                       *)

\* p is the only process awake, and only p moves.
Alone(p) ==
    /\ \A q \in Procs : Active(q) => q = p
    /\ \A q \in Procs : q # p => pc'[q] = pc[q]

Journalled ==
    SeqUnique /\ ListenerIsOurs /\ ResidueIsJournalled /\ NeverRestoresAListener

LEMMA Frame ==
  ASSUME TypeInv', NEW p \in Procs, Alone(p), Journalled',
         Active(p)' => Local(p)'
  PROVE  IInv'
<1>1. \A q \in Procs : q # p => ~Active(q)'
  BY DEF Alone, Active
<1>2. Excl'
  BY <1>1 DEF Excl
<1>3. \A q \in Procs : Active(q)' => Local(q)'
  BY <1>1
<1> QED
  BY <1>2, <1>3 DEF IInv, Journalled

LEMMA Quiet ==
  ASSUME IInv, UNCHANGED <<setting, by, pend>>
  PROVE  /\ Journalled'
         /\ \A r : CoveredWithout(r) => CoveredWithout(r)'
  BY DEF IInv, Journalled, SeqUnique, ListenerIsOurs, ResidueIsJournalled,
         NeverRestoresAListener, CoveredWithout

LEMMA AloneNow ==
  ASSUME IInv, NEW p \in Procs, pc[p] \notin {"idle", "exited", "dead"},
         pc' = pc \/ \E st : pc' = [pc EXCEPT ![p] = st]
  PROVE  Alone(p) /\ Active(p) /\ Local(p)
  BY DEF IInv, Excl, Alone, Active, TypeInv, TypeOK

LEMMA RunsAreProcs == Runs \subseteq Procs /\ Repairers \subseteq Procs
  BY DEF Procs

LEMMA SignalInv ==
  ASSUME Hazards = {}, IInv, TypeInv', NEW p \in Runs, Signal(p) PROVE IInv'
<1>1. p \in Procs /\ UNCHANGED <<setting, by, pend>> /\ Alone(p) /\ Active(p) /\ Local(p)
  BY AloneNow, RunsAreProcs DEF Signal, Goto, world, file, Active
<1>2. Local(p)'
  BY <1>1, Quiet DEF Signal, Goto, Local, Working, IInv, TypeInv, TypeOK, file, Fresh, CoveredWithout
<1> QED
  BY <1>1, <1>2, Quiet, Frame

LEMMA ServeInv ==
  ASSUME Hazards = {}, IInv, TypeInv', NEW p \in Runs, Serve(p) PROVE IInv'
<1>1. p \in Procs /\ UNCHANGED <<setting, by, pend>> /\ Alone(p) /\ Active(p) /\ Local(p)
  BY AloneNow, RunsAreProcs DEF Serve, Goto, world, file
<1>2. Local(p)'
  BY <1>1, Quiet DEF Serve, Goto, Local, Working, IInv, TypeInv, TypeOK, file, Fresh
<1> QED
  BY <1>1, <1>2, Quiet, Frame

LEMMA UnwindInv ==
  ASSUME Hazards = {}, IInv, TypeInv', NEW p \in Runs, NEW how \in {"panic", "down"}, Unwind(p, how) PROVE IInv'
<1>1. p \in Procs /\ UNCHANGED <<setting, by, pend>> /\ Alone(p) /\ Active(p) /\ Local(p)
  BY AloneNow, RunsAreProcs DEF Unwind, Goto, world, file
<1>2. Local(p)'
  BY <1>1, Quiet DEF Unwind, Goto, Local, Working, IInv, TypeInv, TypeOK, file
<1> QED
  BY <1>1, <1>2, Quiet, Frame

LEMMA UndoEndInv ==
  ASSUME Hazards = {}, IInv, TypeInv', NEW p \in Runs, UndoEnd(p) PROVE IInv'
<1>1. p \in Procs /\ UNCHANGED <<setting, by, pend>> /\ Alone(p) /\ Active(p) /\ Local(p)
  BY AloneNow, RunsAreProcs DEF UndoEnd, Goto, world, file
<1>2. Local(p)'
  BY <1>1, Quiet DEF UndoEnd, Goto, Local, Working, IInv, TypeInv, TypeOK, file
<1> QED
  BY <1>1, <1>2, Quiet, Frame

LEMMA ReverifyInv ==
  ASSUME Hazards = {}, IInv, TypeInv', NEW p \in Runs, Reverify(p) PROVE IInv'
<1>1. p \in Procs /\ UNCHANGED <<setting, by, pend>> /\ Alone(p) /\ Active(p) /\ Local(p)
  BY AloneNow, RunsAreProcs DEF Reverify, Goto, world, file
<1>2. Local(p)'
  BY <1>1, Quiet DEF Reverify, Goto, Local, Working, IInv, TypeInv, TypeOK, file
<1> QED
  BY <1>1, <1>2, Quiet, Frame

LEMMA ReapplyErrInv ==
  ASSUME Hazards = {}, IInv, TypeInv', NEW p \in Runs, ReapplyErr(p) PROVE IInv'
<1>1. p \in Procs /\ UNCHANGED <<setting, by, pend>> /\ Alone(p) /\ Active(p) /\ Local(p)
  BY AloneNow, RunsAreProcs DEF ReapplyErr, Goto, world, file
<1>2. Local(p)'
  BY <1>1, Quiet DEF ReapplyErr, Goto, Local, Working, IInv, TypeInv, TypeOK, file
<1> QED
  BY <1>1, <1>2, Quiet, Frame

LEMMA ApplyErrInv ==
  ASSUME Hazards = {}, IInv, TypeInv', NEW p \in Runs, ApplyErr(p) PROVE IInv'
<1>1. p \in Procs /\ UNCHANGED <<setting, by, pend>> /\ Alone(p) /\ Active(p) /\ Local(p)
  BY AloneNow, RunsAreProcs DEF ApplyErr, Goto, world, file
<1>2. Local(p)'
  BY <1>1, Quiet DEF ApplyErr, Goto, Local, Working, IInv, TypeInv, TypeOK, file, CoveredWithout
<1> QED
  BY <1>1, <1>2, Quiet, Frame

LEMMA VerifyInv ==
  ASSUME Hazards = {}, IInv, TypeInv', NEW p \in Runs, Verify(p) PROVE IInv'
<1>1. p \in Procs /\ UNCHANGED <<setting, by, pend>> /\ Alone(p) /\ Active(p) /\ Local(p)
  BY AloneNow, RunsAreProcs DEF Verify, Goto, world, file
<1>2. Local(p)'
  BY <1>1, Quiet DEF Verify, Goto, Local, Working, IInv, TypeInv, TypeOK, file
<1> QED
  BY <1>1, <1>2, Quiet, Frame

LEMMA ScanInv ==
  ASSUME Hazards = {}, IInv, TypeInv', NEW p \in Procs, Scan(p) PROVE IInv'
<1>1. p \in Procs /\ UNCHANGED <<setting, by, pend>> /\ Alone(p) /\ Active(p) /\ Local(p)
  BY AloneNow, RunsAreProcs DEF Scan, Goto, world, file
<1>2. Local(p)'
  BY <1>1, Quiet, ResumeType DEF Scan, Goto, Local, Working, IInv, TypeInv, TypeOK, file
<1> QED
  BY <1>1, <1>2, Quiet, Frame

LEMMA ReplayEndInv ==
  ASSUME Hazards = {}, IInv, TypeInv', NEW p \in Repairers, ReplayEnd(p) PROVE IInv'
<1>1. p \in Procs /\ UNCHANGED <<setting, by, pend>> /\ Alone(p) /\ Active(p) /\ Local(p)
  BY AloneNow, RunsAreProcs DEF ReplayEnd, Goto, world, file
<1>2. Local(p)'
  BY <1>1, Quiet DEF ReplayEnd, Goto, Local, Working, IInv, TypeInv, TypeOK, file
<1> QED
  BY <1>1, <1>2, Quiet, Frame

\* A record that says the state was found in place covers nothing.
LEMMA AdoptedCovered ==
  ASSUME IInv, NEW r \in pend, r.adopted PROVE CoveredWithout(r)
  BY DEF IInv, ResidueIsJournalled, SeqUnique, CoveredWithout

\* Nor does one whose value VerifyReverted finds gone.
LEMMA GoneCovered ==
  ASSUME IInv, NEW r \in pend, Gone(r) PROVE CoveredWithout(r)
<1>1. SUFFICES ASSUME NEW o \in Ops, NEW s \in Services, by[o][s] \in Runs
               PROVE  \E q \in pend : /\ q.op = o /\ ~q.adopted
                                      /\ q.mine = setting[o][s] /\ q.seq # r.seq
  BY DEF CoveredWithout
<1>2. PICK q \in pend : q.op = o /\ ~q.adopted /\ q.mine = setting[o][s]
  BY <1>1 DEF IInv, ResidueIsJournalled
<1>3. q # r
  BY <1>2 DEF Gone
<1> QED
  BY <1>2, <1>3 DEF IInv, SeqUnique

LEMMA PopLocal ==
  ASSUME IInv, NEW p \in Procs, Active(p), NEW r \in held[p], Pop(p, r),
         UNCHANGED <<setting, by, pend, torn, residue, seqno>>
  PROVE  Local(p)'
<1>1. r \in pend /\ Local(p)
  BY DEF IInv, Local
<1>2. r.adopted => CoveredWithout(r)'
  BY <1>1, AdoptedCovered, Quiet
<1>3. job'[p] = r /\ held'[p] = held[p] \ {r}
  BY DEF Pop, IInv, TypeInv, TypeOK
<1>4. pc'[p] = IF r.adopted THEN "close" ELSE "revert"
  BY DEF Pop, Goto, IInv, TypeInv, TypeOK
<1>5. pc'[p] = "close" => CoveredWithout(job[p])'
  BY <1>2, <1>3, <1>4 DEF CoveredWithout
<1> QED
  BY <1>1, <1>3, <1>4, <1>5 DEF Local, Working

LEMMA UndoInv ==
  ASSUME Hazards = {}, IInv, TypeInv', NEW p \in Runs, Undo(p) PROVE IInv'
<1>1. PICK r \in held[p] : Pop(p, r)
  BY DEF Undo, Newest
<1>2. p \in Procs /\ UNCHANGED <<setting, by, pend, torn, residue, seqno>>
  BY RunsAreProcs DEF Undo, world, file
<1>3. Alone(p) /\ Active(p)
  BY <1>1, <1>2, AloneNow DEF Undo, Pop, Goto
<1>4. Local(p)'
  BY <1>1, <1>2, <1>3, PopLocal
<1> QED
  BY <1>2, <1>3, <1>4, Quiet, Frame

LEMMA ReplayInv ==
  ASSUME Hazards = {}, IInv, TypeInv', NEW p \in Repairers, Replay(p) PROVE IInv'
<1>1. PICK r \in held[p] :
        IF Active(r.owner)
        THEN /\ held' = [held EXCEPT ![p] = @ \ {r}]
             /\ UNCHANGED <<pc, job, left, err>>
        ELSE Pop(p, r)
  BY DEF Replay, Newest
<1>2. p \in Procs /\ UNCHANGED <<setting, by, pend, torn, residue, seqno>>
  BY RunsAreProcs DEF Replay, world, file
<1>3. pc' = pc \/ \E st : pc' = [pc EXCEPT ![p] = st]
  BY <1>1 DEF Pop, Goto
<1>4. Alone(p) /\ Active(p) /\ Local(p) /\ pc[p] = "replay"
  BY <1>2, <1>3, AloneNow DEF Replay
<1>5. CASE Active(r.owner)
  <2>1. held'[p] \subseteq held[p] /\ pc' = pc
    BY <1>1, <1>2, <1>5 DEF IInv, TypeInv, TypeOK
  <2>2. Local(p)'
    BY <1>2, <1>4, <2>1 DEF Local, Working
  <2> QED
    BY <1>2, <1>4, <2>2, Quiet, Frame
<1>6. CASE ~Active(r.owner)
  BY <1>1, <1>2, <1>4, <1>6, PopLocal, Quiet, Frame
<1> QED
  BY <1>5, <1>6

LEMMA CheckInv ==
  ASSUME Hazards = {}, IInv, TypeInv', NEW p \in Procs, Check(p) PROVE IInv'
<1>1. UNCHANGED <<setting, by, pend, torn, residue, seqno, held, job>>
  BY DEF Check, world, file
<1>2. Alone(p) /\ Active(p) /\ Local(p) /\ pc[p] = "check"
  BY AloneNow DEF Check, Goto
<1>3. job[p] \in pend /\ job[p] \notin held[p]
  BY <1>2 DEF Local, Working
<1>4. \/ pc'[p] \in {"ready", "undo", "replay"}
      \/ pc'[p] = "close" /\ Gone(job[p])
  BY ResumeType DEF Check, Goto, IInv, TypeInv, TypeOK
<1>5. pc'[p] = "close" => CoveredWithout(job[p])'
  <2>1. SUFFICES ASSUME pc'[p] = "close" PROVE CoveredWithout(job[p])'
    OBVIOUS
  <2>2. CoveredWithout(job[p])
    BY <1>3, <1>4, <2>1, GoneCovered
  <2> QED
    BY <1>1, <2>2 DEF CoveredWithout
<1>6. Local(p)'
  BY <1>1, <1>2, <1>3, <1>4, <1>5 DEF Local, Working
<1> QED
  BY <1>1, <1>2, <1>6, Quiet, Frame

LEMMA OpenInv ==
  ASSUME Hazards = {}, IInv, TypeInv', NEW p \in Runs, Open(p) PROVE IInv'
<1>1. p \in Procs /\ UNCHANGED <<setting, by, pend, job>> /\ ~torn'
  BY RunsAreProcs DEF Open, world
<1>2. \A q \in Procs : ~Active(q)
  BY DEF Open, Procs, Active
<1>3. pc' = [pc EXCEPT ![p] = "ready"] /\ pc'[p] = "ready"
  BY <1>1 DEF Open, Goto, IInv, TypeInv, TypeOK
<1>4. Alone(p)
  BY <1>1, <1>2, <1>3 DEF Alone, IInv, TypeInv, TypeOK
<1>5. (\A r \in pend : r.seq <= seqno'[p]) /\ residue'[p] = (pend # {})
  BY <1>1 DEF Open, IInv, TypeInv, TypeOK
<1>6. held'[p] = {}
  BY <1>1 DEF Open, IInv, TypeInv, TypeOK
<1>7. Local(p)'
  BY <1>1, <1>3, <1>5, <1>6 DEF Local, Working
<1> QED
  BY <1>1, <1>4, <1>7, Quiet, Frame

LEMMA RepairOpenInv ==
  ASSUME Hazards = {}, IInv, TypeInv', NEW p \in Repairers, RepairOpen(p) PROVE IInv'
<1>1. p \in Procs /\ p \notin Runs
  BY RunsAreProcs, ProcsDisjoint
<1>2. UNCHANGED <<setting, by, pend, job>> /\ ~torn'
  BY DEF RepairOpen, world
<1>3. \A q \in Procs : ~Active(q)
  BY DEF RepairOpen
<1>4. pc' = [pc EXCEPT ![p] = "replay"] /\ pc'[p] = "replay" /\ held'[p] = pend
  BY <1>1 DEF RepairOpen, Goto, IInv, TypeInv, TypeOK
<1>5. Alone(p)
  BY <1>1, <1>3, <1>4 DEF Alone, IInv, TypeInv, TypeOK
<1>6. Local(p)'
  BY <1>1, <1>2, <1>4 DEF Local, Working
<1> QED
  BY <1>1, <1>2, <1>5, <1>6, Quiet, Frame

\* What notSelf lets into a record is never a dpb listener.
LEMMA CapturedIsForeign ==
  ASSUME IInv, NEW p \in Runs, Local(p), NEW o \in Absolute, NEW s \in Services
  PROVE  Captured(p, setting[o][s]) \notin Listeners
<1>1. Off \notin Listeners
  BY ValuesDisjoint DEF UserSide
<1>2. SUFFICES ASSUME setting[o][s] \in Listeners, ~residue[p]
               PROVE  setting[o][s] = Listener[p]
  BY <1>1 DEF Captured, Loopback
<1>3. by[o][s] \in Runs /\ o \in Ops
  BY <1>2 DEF IInv, ListenerIsOurs, Ops
<1>4. PICK r \in pend : r.mine = setting[o][s]
  BY <1>3 DEF IInv, ResidueIsJournalled
<1> QED
  BY <1>2, <1>4 DEF Local

LEMMA PrepareInv ==
  ASSUME Hazards = {}, IInv, TypeInv', NEW p \in Runs, NEW o \in Ops, Prepare(p, o)
  PROVE  IInv'
<1>1. /\ p \in Procs /\ UNCHANGED <<setting, by, pend, torn, residue, seqno, held>>
      /\ pc[p] = "ready"
  BY RunsAreProcs DEF Prepare, world, file
<1>2. Alone(p) /\ Active(p) /\ Local(p)
  BY <1>1, AloneNow DEF Prepare, Goto
<1>3. pc'[p] = "begin"
  BY <1>1 DEF Prepare, Goto, IInv, TypeInv, TypeOK
<1>4. /\ job'[p].seq = seqno[p] + 1 /\ job'[p].mine = Listener[p] /\ job'[p].op = o
      /\ job'[p].prev = [s \in Services |-> Captured(p, setting[o][s])]
  BY <1>1 DEF Prepare, IInv, TypeInv, TypeOK
<1>5. Fresh(p)'
  BY <1>1, <1>2, <1>4, CapturedIsForeign DEF Fresh
<1>6. Local(p)'
  BY <1>1, <1>2, <1>3, <1>5 DEF Local, Working
<1> QED
  BY <1>1, <1>2, <1>6, Quiet, Frame

\* Putting a new record in the journal disturbs nothing that was in it.
LEMMA PutKeeps ==
  ASSUME IInv, NEW j \in Record, \A r \in pend : r.seq < j.seq,
         j.op \in Absolute => \A s \in Services : j.prev[s] \notin Listeners,
         pend' = Put(pend, j), UNCHANGED <<setting, by>>
  PROVE  Journalled' /\ pend' = pend \cup {j} /\ CoveredWithout(j)'
<1>1. \A r \in pend : r.seq \in Nat /\ j.seq \in Nat
  BY DEF IInv, TypeInv, TypeOK, Record
<1>2. \A r \in pend : r.seq # j.seq
  BY <1>1
<1>3. pend' = pend \cup {j}
  BY <1>2 DEF Put
<1>4. SeqUnique'
  BY <1>2, <1>3 DEF IInv, SeqUnique
<1>5. ListenerIsOurs' /\ NeverRestoresAListener'
  BY <1>3 DEF IInv, ListenerIsOurs, NeverRestoresAListener
<1>6. ResidueIsJournalled'
  BY <1>3 DEF IInv, ResidueIsJournalled
<1>7. CoveredWithout(j)'
  BY <1>2, <1>3 DEF IInv, ResidueIsJournalled, CoveredWithout
<1> QED
  BY <1>3, <1>4, <1>5, <1>6, <1>7 DEF Journalled

LEMMA BeginInv ==
  ASSUME Hazards = {}, IInv, TypeInv', NEW p \in Runs, Begin(p) PROVE IInv'
<1>1. /\ p \in Procs /\ UNCHANGED <<setting, by, residue, held, job>>
      /\ pc[p] = "begin"
  BY RunsAreProcs DEF Begin, world
<1>2. Alone(p) /\ Active(p) /\ Local(p) /\ ~torn /\ Fresh(p)
  BY <1>1, AloneNow DEF Begin, Goto, Local
<1>3. job[p] \in Record /\ seqno[p] \in Nat
  BY <1>1 DEF IInv, TypeInv, TypeOK, JobOK
<1>4. CASE /\ Append1(Put(pend, job[p]))
           /\ seqno' = [seqno EXCEPT ![p] = job[p].seq]
           /\ left' = [left EXCEPT ![p] = SlotsOf(job[p].op)]
           /\ Goto(p, IF job[p].adopted THEN "commit" ELSE "apply")
  <2>1. pend' = Put(pend, job[p]) /\ ~torn' /\ seqno'[p] = seqno[p] + 1
    BY <1>1, <1>2, <1>4 DEF Append1, Fresh, IInv, TypeInv, TypeOK
  <2>2. \A r \in pend : r.seq < job[p].seq
    <3>1. \A r \in pend : r.seq <= seqno[p] /\ r.seq \in Nat
      BY <1>2 DEF Local, IInv, TypeInv, TypeOK, Record
    <3> QED
      BY <1>2, <1>3, <3>1 DEF Fresh
  <2>3. Journalled' /\ pend' = pend \cup {job[p]} /\ CoveredWithout(job[p])'
    <3>1. \A s \in Services : job[p].op \in Absolute => job[p].prev[s] \notin Listeners
      BY <1>2 DEF Fresh
    <3> DEFINE j == job[p]
    <3>2. j \in Record /\ pend' = Put(pend, j) /\ (\A r \in pend : r.seq < j.seq)
      BY <1>3, <2>1, <2>2
    <3> HIDE DEF j
    <3>3. Journalled' /\ pend' = pend \cup {j} /\ CoveredWithout(j)'
      BY <1>1, <3>1, <3>2, PutKeeps DEF j
    <3> QED
      BY <1>1, <3>3 DEF j, CoveredWithout
  <2>4. job[p] \notin held[p]
    <3>1. job[p] \notin pend
      BY <1>3, <2>2 DEF Record
    <3> QED
      BY <1>2, <3>1 DEF Local
  <2>5. pc'[p] = (IF job[p].adopted THEN "commit" ELSE "apply")
    BY <1>1, <1>4 DEF Goto, IInv, TypeInv, TypeOK
  <2>6. left'[p] = SlotsOf(job[p].op)
    BY <1>1, <1>4 DEF IInv, TypeInv, TypeOK
  <2>7. \A r \in pend' : r.seq <= seqno'[p]
    BY <1>2, <1>3, <2>1, <2>2, <2>3 DEF Fresh, Record, IInv, TypeInv, TypeOK
  <2>8. ~residue[p] => \A r \in pend' : r.mine = Listener[p]
    BY <1>2, <2>3 DEF Local, Fresh
  <2>9. Local(p)'
    BY <1>1, <1>2, <2>1, <2>3, <2>4, <2>5, <2>6, <2>7, <2>8 DEF Local, Working, SlotsOf
  <2> QED
    BY <1>1, <1>2, <2>3, <2>9, Frame
<1>5. CASE AppendFails(p) /\ Goto(p, "ready") /\ UNCHANGED <<seqno, left>>
  <2>1. pend' = pend /\ ~torn' /\ pc'[p] = "ready"
    BY <1>1, <1>2, <1>5 DEF AppendFails, Goto, IInv, TypeInv, TypeOK
  <2>2. Local(p)'
    BY <1>1, <1>2, <1>5, <2>1 DEF Local, Working
  <2> QED
    BY <1>1, <1>2, <2>1, <2>2, Quiet, Frame
<1> QED
  BY <1>4, <1>5 DEF Begin

\* Writing a record's own value where that record is outstanding.
LEMMA WriteKeeps ==
  ASSUME IInv, NEW p \in Runs, NEW r \in pend, ~r.adopted, NEW s \in Services,
         setting' = [setting EXCEPT ![r.op][s] = r.mine],
         by' = [by EXCEPT ![r.op][s] = p], UNCHANGED pend
  PROVE  Journalled'
<1>1. r.op \in Ops /\ r.mine \in Listeners
  BY DEF IInv, TypeInv, TypeOK, Record
<1>2. setting \in [Ops -> [Services -> Values]]
      /\ by \in [Ops -> [Services -> Runs \cup {"outside"}]]
  BY DEF IInv, TypeInv, TypeOK
<1>3. setting'[r.op][s] = r.mine /\ by'[r.op][s] = p
  BY <1>1, <1>2
<1>4. \A o \in Ops, t \in Services :
         o # r.op \/ t # s => setting'[o][t] = setting[o][t] /\ by'[o][t] = by[o][t]
  BY <1>1, <1>2
<1>5. SeqUnique' /\ NeverRestoresAListener'
  BY DEF IInv, SeqUnique, NeverRestoresAListener
<1>6. ListenerIsOurs'
  BY <1>3, <1>4 DEF IInv, ListenerIsOurs, Ops
<1>7. ResidueIsJournalled'
  BY <1>1, <1>3, <1>4 DEF IInv, ResidueIsJournalled
<1> QED
  BY <1>5, <1>6, <1>7 DEF Journalled

LEMMA ApplySlotInv ==
  ASSUME Hazards = {}, IInv, TypeInv', NEW p \in Runs, NEW s \in Services,
         ApplySlot(p, s)
  PROVE  IInv'
<1>1. /\ p \in Procs /\ UNCHANGED <<pend, torn, residue, seqno, held, job>>
      /\ pc[p] = "apply" /\ s \in left[p]
  BY RunsAreProcs DEF ApplySlot, file
<1>2. Alone(p) /\ Active(p) /\ Local(p)
  BY <1>1, AloneNow DEF ApplySlot, Goto
<1>3. job[p] \in pend /\ ~job[p].adopted /\ job[p] \notin held[p]
  BY <1>1, <1>2 DEF Local, Working
<1>4. Journalled'
  <2>1. \A r : r = job[p] =>
           /\ setting' = [setting EXCEPT ![r.op][s] = r.mine]
           /\ by' = [by EXCEPT ![r.op][s] = p]
    BY DEF ApplySlot
  <2> QED
    BY <1>1, <1>3, <2>1, WriteKeeps
<1>5. pc'[p] = (IF left[p] = {s} THEN "verify" ELSE "apply")
  BY <1>1 DEF ApplySlot, Goto, IInv, TypeInv, TypeOK
<1>6. job[p].op \in Adoptable => pc'[p] = "verify"
  BY <1>1, <1>2, <1>5 DEF Local
<1>7. Local(p)'
  BY <1>1, <1>2, <1>3, <1>5, <1>6 DEF Local, Working
<1> QED
  BY <1>1, <1>2, <1>4, <1>7, Frame

LEMMA ReapplyInv ==
  ASSUME Hazards = {}, IInv, TypeInv', NEW p \in Runs, NEW s \in Services,
         Reapply(p, s)
  PROVE  IInv'
<1>1. /\ p \in Procs /\ UNCHANGED <<pend, torn, residue, seqno, held, job>>
      /\ pc[p] = "reapply"
  BY RunsAreProcs DEF Reapply, file
<1>2. Alone(p) /\ Active(p) /\ Local(p)
  BY <1>1, AloneNow DEF Reapply, Goto
<1>3. job[p] \in pend /\ ~job[p].adopted
  BY <1>1, <1>2 DEF Local
<1>4. Journalled'
  <2>1. \A r : r = job[p] =>
           /\ setting' = [setting EXCEPT ![r.op][s] = r.mine]
           /\ by' = [by EXCEPT ![r.op][s] = p]
    BY DEF Reapply
  <2> QED
    BY <1>1, <1>3, <2>1, WriteKeeps
<1>5. pc'[p] \in {"ready", "reapply"}
  BY <1>1 DEF Reapply, Goto, IInv, TypeInv, TypeOK
<1>6. Local(p)'
  BY <1>1, <1>2, <1>3, <1>5 DEF Local, Working
<1> QED
  BY <1>1, <1>2, <1>4, <1>6, Frame

LEMMA CommitInv ==
  ASSUME Hazards = {}, IInv, TypeInv', NEW p \in Runs, Commit(p) PROVE IInv'
<1>1. /\ p \in Procs /\ UNCHANGED <<setting, by, residue, seqno, job>>
      /\ pc[p] = "commit"
  BY RunsAreProcs DEF Commit, world
<1>2. Alone(p) /\ Active(p) /\ Local(p) /\ ~torn
  BY <1>1, AloneNow DEF Commit, Goto, Local
<1>3. job[p] \in pend /\ job[p] \notin held[p]
  BY <1>1, <1>2 DEF Local, Working
<1>4. Put(pend, job[p]) = pend
  BY <1>3 DEF Put, IInv, SeqUnique
<1>5. pend' = pend /\ ~torn'
  BY <1>1, <1>2, <1>4 DEF Commit, Append1, AppendFails
<1>6. \/ pc'[p] = "ready" /\ held'[p] \subseteq held[p] \cup {job[p]}
      \/ pc'[p] = "revert" /\ held'[p] = held[p] /\ ~job[p].adopted
  BY <1>1 DEF Commit, Goto, IInv, TypeInv, TypeOK
<1>7. Local(p)'
  BY <1>1, <1>2, <1>3, <1>5, <1>6 DEF Local, Working
<1> QED
  BY <1>1, <1>2, <1>5, <1>7, Quiet, Frame

LEMMA RevertSlotInv ==
  ASSUME Hazards = {}, IInv, TypeInv', NEW p \in Procs, NEW s \in Services,
         RevertSlot(p, s)
  PROVE  IInv'
<1>1. /\ UNCHANGED <<pend, torn, residue, seqno, held, job>>
      /\ pc[p] = "revert"
  BY DEF RevertSlot, file
<1>2. Alone(p) /\ Active(p) /\ Local(p)
  BY <1>1, AloneNow DEF RevertSlot, Goto
<1>3. job[p] \in pend /\ ~job[p].adopted /\ job[p] \notin held[p]
  BY <1>1, <1>2 DEF Local, Working
<1>4. pc'[p] \in {"ready", "undo", "replay", "revert", "check"}
  BY ResumeType DEF RevertSlot, Goto, IInv, TypeInv, TypeOK
<1>5. Local(p)'
  BY <1>1, <1>2, <1>3, <1>4 DEF Local, Working
<1>6. CASE UNCHANGED <<setting, by>>
  BY <1>1, <1>2, <1>5, <1>6, Quiet, Frame
<1>7. CASE ~UNCHANGED <<setting, by>>
  <2> DEFINE o == job[p].op
  <2>0. PICK v : /\ Leaves(p, s, v)
                 /\ v = Restored(job[p], s) \/ (v = Off /\ o \in Adoptable)
    BY <1>7 DEF RevertSlot
  <2>1. /\ setting' = [setting EXCEPT ![o][s] = v]
        /\ by' = IF v # setting[o][s] THEN [by EXCEPT ![o][s] = "outside"] ELSE by
    BY <2>0 DEF Leaves
  <2>2. o \in Ops
    BY <1>3 DEF IInv, TypeInv, TypeOK, Record
  <2>3. setting \in [Ops -> [Services -> Values]]
        /\ by \in [Ops -> [Services -> Runs \cup {"outside"}]]
    BY DEF IInv, TypeInv, TypeOK
  <2>4. o \in Absolute => v \notin Listeners
    BY <1>3, <2>0, OpsDisjoint DEF Restored, IInv, NeverRestoresAListener
  <2> HIDE DEF o
  <2>5. \A x \in Ops, t \in Services :
           \/ setting'[x][t] = setting[x][t] /\ by'[x][t] = by[x][t]
           \/ x = o /\ t = s /\ by'[x][t] = "outside" /\ setting'[x][t] = v
    BY <2>1, <2>2, <2>3
  <2>6. SeqUnique' /\ NeverRestoresAListener'
    BY <1>1 DEF IInv, SeqUnique, NeverRestoresAListener
  <2>7. ListenerIsOurs'
    BY <2>4, <2>5 DEF IInv, ListenerIsOurs, Ops
  <2>8. ResidueIsJournalled'
    BY <1>1, <2>5, NotARun DEF IInv, ResidueIsJournalled
  <2> QED
    BY <1>1, <1>2, <1>5, <2>6, <2>7, <2>8, Frame DEF Journalled
<1> QED
  BY <1>6, <1>7

LEMMA CloseInv ==
  ASSUME Hazards = {}, IInv, TypeInv', NEW p \in Procs, Close(p) PROVE IInv'
<1>1. /\ UNCHANGED <<setting, by, residue, seqno, held, job>>
      /\ pc[p] = "close"
  BY DEF Close, world
<1>2. Alone(p) /\ Active(p) /\ Local(p) /\ ~torn
  BY <1>1, AloneNow DEF Close, Goto, Local
<1>3. job[p] \in pend /\ job[p] \notin held[p] /\ CoveredWithout(job[p])
  BY <1>1, <1>2 DEF Local, Working
<1>4. pc'[p] \in {"scan", "ready", "undo", "replay"}
  BY ResumeType DEF Close, Goto, IInv, TypeInv, TypeOK
<1>5. ~torn' /\ (pend' = pend \/ pend' = Drop(pend, job[p]))
  BY <1>1, <1>2 DEF Close, Append1, AppendFails
<1>6. pend' = pend \/ pend' = pend \ {job[p]}
  BY <1>3, <1>5 DEF Drop, IInv, SeqUnique
<1>7. held'[p] \subseteq pend'
  BY <1>1, <1>2, <1>3, <1>6 DEF Local
<1>8. Local(p)'
  BY <1>1, <1>2, <1>4, <1>5, <1>6, <1>7 DEF Local, Working
<1>9. ResidueIsJournalled'
  BY <1>1, <1>3, <1>5 DEF Drop, IInv, ResidueIsJournalled, CoveredWithout
<1>10. SeqUnique' /\ ListenerIsOurs' /\ NeverRestoresAListener'
  BY <1>1, <1>6 DEF IInv, SeqUnique, ListenerIsOurs, NeverRestoresAListener
<1> QED
  BY <1>1, <1>2, <1>8, <1>9, <1>10, Frame DEF Journalled

LEMMA TruncInv ==
  ASSUME Hazards = {}, IInv, TypeInv', NEW p \in Procs, Trunc(p) PROVE IInv'
<1>1. /\ UNCHANGED <<setting, by, residue, seqno, held, job>> /\ ~torn' /\ pend' = {}
      /\ pc[p] = "trunc"
  BY DEF Trunc, world
<1>2. Alone(p) /\ Active(p) /\ Local(p)
  BY <1>1, AloneNow DEF Trunc, Goto
<1>3. pend' = pend
  BY <1>1, <1>2 DEF Local
<1>4. pc'[p] \in {"ready", "undo", "replay"}
  BY ResumeType DEF Trunc, Goto, IInv, TypeInv, TypeOK
<1>5. Local(p)'
  BY <1>1, <1>2, <1>3, <1>4 DEF Local, Working
<1> QED
  BY <1>1, <1>2, <1>3, <1>5, Quiet, Frame

LEMMA KillInv ==
  ASSUME Hazards = {}, IInv, TypeInv', NEW p \in Procs, Kill(p) PROVE IInv'
<1>1. UNCHANGED <<setting, by, pend>> /\ Active(p)
  BY DEF Kill, world
<1>2. pc' = pc \/ \E st : pc' = [pc EXCEPT ![p] = st]
  BY DEF Kill, Goto
<1>3. Alone(p)
  BY <1>1, <1>2, AloneNow DEF Active
<1>4. ~Active(p)'
  BY DEF Kill, Goto, Active, IInv, TypeInv, TypeOK
<1> QED
  BY <1>1, <1>3, <1>4, Quiet, Frame

LEMMA OutsideInv ==
  ASSUME IInv, TypeInv', NEW o \in Ops, NEW s \in Services, Outside(o, s)
  PROVE  IInv'
<1>1. UNCHANGED <<pend, torn, pc, residue, seqno, held, job, left>>
  BY DEF Outside, file, proc
<1>2. PICK v \in Values :
        /\ setting' = [setting EXCEPT ![o][s] = v]
        /\ o \in Absolute => v \in UserSide
  BY DEF Outside
<1>3. by' = [by EXCEPT ![o][s] = "outside"]
  BY DEF Outside
<1>4. setting \in [Ops -> [Services -> Values]]
      /\ by \in [Ops -> [Services -> Runs \cup {"outside"}]]
  BY DEF IInv, TypeInv, TypeOK
<1>5. \A x \in Ops, t \in Services :
         \/ setting'[x][t] = setting[x][t] /\ by'[x][t] = by[x][t]
         \/ x = o /\ t = s /\ by'[x][t] = "outside" /\ setting'[x][t] = v
  BY <1>2, <1>3, <1>4
<1>6. SeqUnique' /\ NeverRestoresAListener' /\ Excl'
  BY <1>1 DEF IInv, SeqUnique, NeverRestoresAListener, Excl, Active
<1>7. ListenerIsOurs'
  BY <1>2, <1>5, ValuesDisjoint DEF IInv, ListenerIsOurs, Ops
<1>8. ResidueIsJournalled' /\ \A r : CoveredWithout(r) => CoveredWithout(r)'
  BY <1>1, <1>5, NotARun DEF IInv, ResidueIsJournalled, CoveredWithout
<1>9. ASSUME NEW p \in Procs, Active(p)' PROVE Local(p)'
  <2>1. Local(p)
    BY <1>1, <1>9 DEF IInv, Active
  <2>2. CoveredWithout(job[p]) => CoveredWithout(job[p])'
    BY <1>1, <1>5, NotARun DEF CoveredWithout
  <2>3. Fresh(p) => Fresh(p)'
    BY <1>1 DEF Fresh
  <2> QED
    BY <1>1, <2>1, <2>2, <2>3 DEF Local
<1> QED
  BY <1>6, <1>7, <1>8, <1>9 DEF IInv

LEMMA InitInv == Init => IInv
<1>1. SUFFICES ASSUME Init PROVE IInv
  OBVIOUS
<1>2. TypeInv
  BY <1>1, InitType
<1>3. \A p \in Procs : ~Active(p)
  BY <1>1 DEF Init, Active
<1>4. \A o \in Ops, s \in Services : by[o][s] = "outside"
  BY <1>1 DEF Init
<1>5. ListenerIsOurs
  BY <1>1, ValuesDisjoint DEF Init, ListenerIsOurs, Ops
<1> QED
  BY <1>1, <1>2, <1>3, <1>4, <1>5, NotARun
     DEF Init, IInv, Excl, SeqUnique, ResidueIsJournalled, NeverRestoresAListener

LEMMA StepInv == Hazards = {} /\ IInv /\ [Next]_vars => IInv'
<1>1. SUFFICES ASSUME Hazards = {}, IInv, [Next]_vars PROVE IInv'
  OBVIOUS
<1>2. TypeInv'
  BY <1>1, TypeStep DEF IInv
<1>3. ASSUME NEW p \in Runs, RunStep(p) PROVE IInv'
  BY <1>1, <1>2, <1>3, OpenInv, BeginInv, ApplyErrInv, VerifyInv, CommitInv,
     SignalInv, ServeInv, UndoInv, UndoEndInv, ReverifyInv, ReapplyErrInv,
     PrepareInv, ApplySlotInv, ReapplyInv, UnwindInv
     DEF RunStep
<1>4. ASSUME NEW p \in Repairers, ReplayStep(p) PROVE IInv'
  BY <1>1, <1>2, <1>4, RepairOpenInv, ReplayInv, ReplayEndInv DEF ReplayStep
<1>5. ASSUME NEW p \in Procs, RevertStep(p) \/ Kill(p) PROVE IInv'
  BY <1>1, <1>2, <1>5, CheckInv, CloseInv, ScanInv, TruncInv, RevertSlotInv, KillInv
     DEF RevertStep
<1>6. CASE \E o \in Ops, s \in Services : Outside(o, s)
  BY <1>1, <1>2, <1>6, OutsideInv
<1>7. CASE UNCHANGED vars
  BY <1>1, <1>2, <1>7 DEF IInv, Excl, SeqUnique, ListenerIsOurs, ResidueIsJournalled,
     NeverRestoresAListener, Local, CoveredWithout, Fresh, Active, vars, world, file, proc
<1> QED
  BY <1>1, <1>3, <1>4, <1>5, <1>6, <1>7 DEF Next

\* The journal never under-approximates, for any number of runs, repairers,
\* services, Ops, faults, kills and outside changes, as long as no replay runs
\* beside a live run and appends are all-or-nothing.
THEOREM JournalCorrect ==
  ASSUME Hazards = {} PROVE Spec => []ResidueIsJournalled
<1>1. IInv => ResidueIsJournalled
  BY DEF IInv
<1>2. IInv /\ [Next]_vars => IInv'
  BY StepInv
<1> QED
  BY <1>1, <1>2, InitInv, PTL DEF Spec

\* Under the same conditions no record would restore a dpb listener.
THEOREM NoListenerRestored ==
  ASSUME Hazards = {} PROVE Spec => []NeverRestoresAListener
<1>1. IInv => NeverRestoresAListener
  BY DEF IInv
<1>2. IInv /\ [Next]_vars => IInv'
  BY StepInv
<1> QED
  BY <1>1, <1>2, InitInv, PTL DEF Spec
-----------------------------------------------------------------------------
(* The user's value.  Undisturbed Ops are those UserValueRecoverable speaks  *)
(* of; of them a process always undoes the newest outstanding record, so     *)
(* the oldest one, which holds the user's value, is the last to go.          *)

Undisturbed == Absolute \ disturbed

\* UserValueRecoverable, of one Op.
Recoverable(o) ==
    \/ (\A r \in pend : r.op # o) /\ setting[o] = wanted[o]
    \/ \E r \in pend : /\ r.op = o /\ r.prev = wanted[o]
                       /\ \A q \in pend : q.op = o => r.seq <= q.seq

\* The setting holds what record r would restore.
GivenBack(r) == \A s \in Services : setting[r.op][s] = r.prev[s]

\* The record in hand is its Op's newest.
InHandNewest(p) == \A q \in pend : q.op = job[p].op => q.seq <= job[p].seq

\* What is newer than a record p holds, p holds too, or has in hand.
HeldFromTheTop(p) ==
    \A r \in held[p], q \in pend :
        r.op \in Undisturbed /\ q.op = r.op /\ r.seq < q.seq =>
            q \in held[p] \/ (pc[p] \in Working /\ q = job[p])

\* What an active process knows of the user's value.
Knows(p) ==
    /\ HeldFromTheTop(p)
    /\ pc[p] = "begin" => (job[p].adopted => job[p].op \in Adoptable)
    /\ pc[p] = "begin" /\ job[p].op \in Undisturbed
          /\ (\A r \in pend : r.op # job[p].op) => job[p].prev = wanted[job[p].op]
    /\ pc[p] \in Working /\ job[p].op \in Undisturbed => InHandNewest(p)
    /\ pc[p] = "revert" /\ job[p].op \in Undisturbed /\ ~err[p] =>
          \A s \in Services \ left[p] : setting[job[p].op][s] = job[p].prev[s]
    /\ pc[p] \in {"check", "close"} /\ job[p].op \in Undisturbed => GivenBack(job[p])

UInv ==
    /\ \A o \in Undisturbed : Recoverable(o)
    /\ wanted \in [Ops -> [Services -> Values]]
    /\ \A o \in Absolute, s \in Services : wanted[o][s] \in UserSide
    /\ \A r \in pend : r.adopted => r.op \in Adoptable
    /\ \A p \in Procs : Active(p) => Knows(p)

LEMMA RecoverableIsTheProperty ==
  ASSUME \A o \in Undisturbed : Recoverable(o) PROVE UserValueRecoverable
BY DEF Recoverable, Undisturbed, UserValueRecoverable

\* All of UInv but what the processes know.
Promise ==
    /\ \A o \in Undisturbed : Recoverable(o)
    /\ wanted \in [Ops -> [Services -> Values]]
    /\ \A o \in Absolute, s \in Services : wanted[o][s] \in UserSide
    /\ \A r \in pend : r.adopted => r.op \in Adoptable

LEMMA UFrame ==
  ASSUME NEW p \in Procs, Alone(p), Promise', Active(p)' => Knows(p)'
  PROVE  UInv'
<1>1. \A q \in Procs : Active(q)' => q = p
  BY DEF Alone, Active
<1>2. \A q \in Procs : Active(q)' => Knows(q)'
  BY <1>1
<1> QED
  BY <1>2 DEF UInv, Promise

\* A setting may change where a record of its Op is outstanding.
LEMMA PromiseKept ==
  ASSUME UInv, UNCHANGED <<pend, wanted>>, disturbed \subseteq disturbed',
         \A o \in Ops : setting'[o] = setting[o] \/ \E r \in pend : r.op = o
  PROVE  Promise'
<1>1. Undisturbed' \subseteq Undisturbed /\ Undisturbed \subseteq Ops
  BY DEF Undisturbed, Ops
<1>2. ASSUME NEW o \in Undisturbed, Recoverable(o) PROVE Recoverable(o)'
  BY <1>1, <1>2 DEF Recoverable
<1>3. \A o \in Undisturbed' : Recoverable(o)'
  BY <1>1, <1>2 DEF UInv
<1> QED
  BY <1>3 DEF UInv, Promise

\* A process at rest between two records.
LEMMA Rests ==
  ASSUME IInv, UInv, NEW p \in Procs, Alone(p), UNCHANGED <<setting, wanted, pend>>,
         disturbed \subseteq disturbed',
         Active(p)' => HeldFromTheTop(p)' /\ pc'[p] \notin Working \cup {"begin"}
  PROVE  UInv'
<1>1. Promise'
  BY PromiseKept
<1>2. Active(p)' => Knows(p)'
  BY DEF Knows, Working
<1> QED
  BY <1>1, <1>2, UFrame

LEMMA HeldStays ==
  ASSUME NEW p \in Procs, HeldFromTheTop(p), pend' \subseteq pend, held'[p] = held[p],
         disturbed \subseteq disturbed',
         pc[p] \in Working =>
            \/ pc'[p] \in Working /\ job'[p] = job[p]
            \/ job[p] \notin pend' \/ job[p].op \notin Undisturbed'
  PROVE  HeldFromTheTop(p)'
<1>1. SUFFICES ASSUME NEW r \in held[p], NEW q \in pend', r.op \in Undisturbed',
                      q.op = r.op, r.seq < q.seq
               PROVE  q \in held[p] \/ (pc'[p] \in Working /\ q = job'[p])
  BY DEF HeldFromTheTop
<1>2. r.op \in Undisturbed /\ q \in pend
  BY <1>1 DEF Undisturbed
<1>3. q \in held[p] \/ (pc[p] \in Working /\ q = job[p])
  BY <1>1, <1>2 DEF HeldFromTheTop
<1> QED
  BY <1>1, <1>2, <1>3

LEMMA Known ==
  ASSUME UInv, NEW p \in Procs, Active(p) PROVE Knows(p) /\ HeldFromTheTop(p)
BY DEF UInv, Knows

LEMMA RestingUser ==
  ASSUME IInv, UInv, NEW p \in Runs,
         Serve(p) \/ (\E how \in {"panic", "down"} : Unwind(p, how)) \/ UndoEnd(p)
           \/ Reverify(p) \/ ReapplyErr(p)
  PROVE  UInv'
<1>1. /\ p \in Procs /\ UNCHANGED <<setting, wanted, pend, held, disturbed>>
      /\ pc[p] \in {"ready", "undo", "reapply"}
      /\ pc' = pc \/ \E st : pc' = [pc EXCEPT ![p] = st]
  BY RunsAreProcs DEF Serve, Unwind, UndoEnd, Reverify, ReapplyErr, Goto, world, file
<1>2. Alone(p) /\ Active(p)
  BY <1>1, AloneNow
<1>3. pc'[p] \in {"ready", "undo", "exited", "reapply"}
  BY <1>1 DEF Serve, Unwind, UndoEnd, Reverify, ReapplyErr, Goto, IInv, TypeInv, TypeOK
<1>4. HeldFromTheTop(p)'
  BY <1>1, <1>2, Known, HeldStays DEF Working
<1> QED
  BY <1>1, <1>2, <1>3, <1>4, Rests DEF Working

LEMMA ScanUser ==
  ASSUME IInv, UInv, NEW p \in Procs, Scan(p) \/ Trunc(p) PROVE UInv'
<1>1. /\ UNCHANGED <<setting, wanted, held, disturbed>>
      /\ pc[p] \in {"scan", "trunc"} /\ \E st : pc' = [pc EXCEPT ![p] = st]
  BY DEF Scan, Trunc, Goto, world, file
<1>2. Alone(p) /\ Active(p) /\ Local(p)
  BY <1>1, AloneNow
<1>3. pend' = pend
  BY <1>2 DEF Scan, Trunc, Local, file
<1>4. pc'[p] \in {"trunc", "ready", "undo", "replay"}
  BY ResumeType DEF Scan, Trunc, Goto, IInv, TypeInv, TypeOK
<1>5. HeldFromTheTop(p)'
  BY <1>1, <1>2, <1>3, Known, HeldStays DEF Working
<1> QED
  BY <1>1, <1>2, <1>3, <1>4, <1>5, Rests DEF Working

LEMMA ReplayEndUser ==
  ASSUME IInv, UInv, NEW p \in Repairers, ReplayEnd(p) PROVE UInv'
<1>1. /\ p \in Procs /\ UNCHANGED <<setting, wanted, pend, held, disturbed>>
      /\ pc[p] = "replay" /\ pc' = [pc EXCEPT ![p] = "idle"]
  BY RunsAreProcs DEF ReplayEnd, Goto, world, file
<1>2. Alone(p) /\ pc'[p] = "idle"
  BY <1>1, AloneNow DEF IInv, TypeInv, TypeOK
<1> QED
  BY <1>1, <1>2, Rests DEF Active

LEMMA KillUser ==
  ASSUME IInv, UInv, NEW p \in Procs, Kill(p) PROVE UInv'
<1>1. UNCHANGED <<setting, wanted, pend, disturbed>> /\ Active(p)
  BY DEF Kill, world
<1>2. pc' = pc \/ \E st : pc' = [pc EXCEPT ![p] = st]
  BY DEF Kill, Goto
<1>3. Alone(p)
  BY <1>1, <1>2, AloneNow DEF Active
<1>4. ~Active(p)'
  BY DEF Kill, Goto, Active, IInv, TypeInv, TypeOK
<1> QED
  BY <1>1, <1>3, <1>4, Rests

\* A run opens with nothing in hand, a repairer with the whole journal.
LEMMA OpenUser ==
  ASSUME IInv, UInv, NEW p \in Procs,
         (p \in Runs /\ Hazards = {} /\ Open(p))
           \/ (p \in Repairers /\ Hazards = {} /\ RepairOpen(p))
  PROVE  UInv'
<1>1. UNCHANGED <<setting, wanted, pend, disturbed>>
  BY DEF Open, RepairOpen, world
<1>2. \A q \in Procs : ~Active(q)
  BY DEF Open, RepairOpen, Procs, Active
<1>3. /\ \A q \in Procs : q # p => pc'[q] = pc[q]
      /\ pc'[p] \in {"ready", "replay"} /\ held'[p] \in {{}, pend}
  BY DEF Open, RepairOpen, Goto, IInv, TypeInv, TypeOK
<1>4. Alone(p)
  BY <1>2, <1>3 DEF Alone
<1>5. HeldFromTheTop(p)'
  BY <1>1, <1>3 DEF HeldFromTheTop
<1> QED
  BY <1>1, <1>3, <1>4, <1>5, Rests DEF Working

LEMMA SameUser ==
  ASSUME UInv, IInv, UNCHANGED <<world, file, pc, held, job, left, err, disturbed>>
  PROVE  UInv'
<1>1. \A p \in Procs : Active(p)' = Active(p) /\ (Knows(p) => Knows(p)')
  BY DEF Active, Knows, HeldFromTheTop, InHandNewest, GivenBack, Undisturbed, world, file
<1>2. Promise'
  BY PromiseKept DEF world, file
<1> QED
  BY <1>1, <1>2 DEF UInv, Promise

\* The newest record of a stack is the newest of its Op.
LEMMA PopKnows ==
  ASSUME IInv, UInv, NEW p \in Procs, Active(p), pc[p] \notin Working,
         NEW r \in Newest(held[p]), Pop(p, r), UNCHANGED <<setting, wanted, pend, disturbed>>
  PROVE  Knows(p)'
<1>1. /\ HeldFromTheTop(p) /\ r \in held[p] /\ held[p] \subseteq pend /\ r \in pend
      /\ \A q \in held[p] : q.seq <= r.seq
  BY Known DEF Newest, IInv, Local
<1>2. \A q \in pend : q \in Record /\ q.seq \in Nat
  BY DEF IInv, TypeInv, TypeOK, Record
<1>3. /\ job'[p] = r /\ held'[p] = held[p] \ {r}
      /\ left'[p] = SlotsOf(r.op)
      /\ pc'[p] = IF r.adopted THEN "close" ELSE "revert"
  BY DEF Pop, Goto, StartRevert, IInv, TypeInv, TypeOK
<1>4. pc'[p] \in Working
  BY <1>3 DEF Working
<1>5. HeldFromTheTop(p)'
  BY <1>1, <1>3, <1>4 DEF HeldFromTheTop, Undisturbed
<1>6. job'[p].op \in Undisturbed => InHandNewest(p)'
  <2>1. SUFFICES ASSUME r.op \in Undisturbed, NEW q \in pend, q.op = r.op PROVE q.seq <= r.seq
    BY <1>3 DEF InHandNewest
  <2>2. CASE r.seq < q.seq
    <3>1. q \in held[p]
      BY <1>1, <2>1, <2>2 DEF HeldFromTheTop
    <3> QED
      BY <1>1, <3>1
  <2> QED
    BY <1>1, <1>2, <2>2
<1>7. r.op \in Undisturbed => Services \ left'[p] = {} /\ ~r.adopted
  BY <1>1, <1>3, OpsDisjoint DEF SlotsOf, Undisturbed, UInv
<1>8. Undisturbed' = Undisturbed
  BY DEF Undisturbed
<1> QED
  BY <1>3, <1>5, <1>6, <1>7, <1>8 DEF Knows

LEMMA UndoUser ==
  ASSUME IInv, UInv, NEW p \in Runs, Undo(p) PROVE UInv'
<1>1. PICK r \in Newest(held[p]) : Pop(p, r)
  BY DEF Undo
<1>2. p \in Procs /\ UNCHANGED <<setting, wanted, pend, disturbed>> /\ pc[p] = "undo"
  BY RunsAreProcs DEF Undo, world, file
<1>3. Alone(p) /\ Active(p)
  BY <1>1, <1>2, AloneNow DEF Undo, Pop, Goto
<1>4. Knows(p)'
  BY <1>1, <1>2, <1>3, PopKnows DEF Working
<1>5. Promise'
  BY <1>2, PromiseKept
<1> QED
  BY <1>2, <1>3, <1>4, <1>5, UFrame

LEMMA ReplayUser ==
  ASSUME IInv, UInv, NEW p \in Repairers, Replay(p) PROVE UInv'
<1>1. PICK r \in Newest(held[p]) :
        IF Active(r.owner)
        THEN /\ held' = [held EXCEPT ![p] = @ \ {r}]
             /\ UNCHANGED <<pc, job, left, err>>
        ELSE Pop(p, r)
  BY DEF Replay
<1>2. p \in Procs /\ UNCHANGED <<setting, wanted, pend, disturbed>> /\ p \notin Runs
  BY RunsAreProcs, ProcsDisjoint DEF Replay, world, file
<1>3. pc' = pc \/ \E st : pc' = [pc EXCEPT ![p] = st]
  BY <1>1 DEF Pop, Goto
<1>4. Alone(p) /\ Active(p) /\ Local(p) /\ pc[p] = "replay"
  BY <1>2, <1>3, AloneNow DEF Replay
<1>5. r.owner \in Runs /\ r.owner \in Procs
  BY <1>4, RunsAreProcs DEF Newest, Local, IInv, TypeInv, TypeOK, Record
<1>6. ~Active(r.owner)
  BY <1>2, <1>4, <1>5 DEF Alone
<1>7. Knows(p)'
  BY <1>1, <1>2, <1>4, <1>6, PopKnows DEF Working
<1>8. Promise'
  BY <1>2, PromiseKept
<1> QED
  BY <1>2, <1>4, <1>7, <1>8, UFrame

\* A step of bring-up with a record in hand that changes no setting.
LEMMA ApplyErrUser ==
  ASSUME IInv, UInv, NEW p \in Runs, ApplyErr(p) \/ Verify(p) PROVE UInv'
<1>1. /\ p \in Procs /\ UNCHANGED <<setting, wanted, pend, held, job, disturbed>>
      /\ pc[p] \in {"apply", "verify"} /\ \E st : pc' = [pc EXCEPT ![p] = st]
  BY RunsAreProcs DEF ApplyErr, Verify, Goto, world, file
<1>2. Alone(p) /\ Active(p)
  BY <1>1, AloneNow
<1>3. \/ pc'[p] = "commit"
      \/ pc'[p] = "close" /\ job[p].op \in Adoptable
      \/ pc'[p] = "revert" /\ left'[p] = SlotsOf(job[p].op)
  BY <1>1 DEF ApplyErr, Verify, Goto, StartRevert, IInv, TypeInv, TypeOK
<1>4. pc[p] \in Working /\ pc'[p] \in Working
  BY <1>1, <1>3 DEF Working
<1>5. HeldFromTheTop(p)'
  BY <1>1, <1>2, <1>4, Known, HeldStays
<1>6. job[p].op \in Undisturbed => InHandNewest(p)'
  BY <1>1, <1>2, <1>4, Known DEF Knows, InHandNewest
<1>7. Undisturbed' = Undisturbed /\ \A o \in Undisturbed : SlotsOf(o) = Services /\ o \notin Adoptable
  BY <1>1, OpsDisjoint DEF Undisturbed, SlotsOf
<1>8. Knows(p)'
  BY <1>1, <1>3, <1>5, <1>6, <1>7 DEF Knows
<1>9. Promise'
  BY <1>1, PromiseKept
<1> QED
  BY <1>1, <1>2, <1>8, <1>9, UFrame

LEMMA CommitUser ==
  ASSUME IInv, UInv, NEW p \in Runs, Commit(p) PROVE UInv'
<1>1. /\ p \in Procs /\ UNCHANGED <<setting, wanted, job, disturbed>>
      /\ pc[p] = "commit" /\ pc[p] \in Working /\ \E st : pc' = [pc EXCEPT ![p] = st]
  BY RunsAreProcs DEF Commit, Goto, world, Working
<1>2. Alone(p) /\ Active(p) /\ Local(p) /\ ~torn
  BY <1>1, AloneNow DEF Local
<1>3. job[p] \in pend
  BY <1>1, <1>2 DEF Local, Working
<1>4. Put(pend, job[p]) = pend
  BY <1>3 DEF Put, IInv, SeqUnique
<1>5. pend' = pend
  BY <1>1, <1>2, <1>4 DEF Commit, Append1, AppendFails
<1>6. Undisturbed' = Undisturbed /\ \A o \in Undisturbed : SlotsOf(o) = Services /\ o \notin Adoptable
  BY <1>1, OpsDisjoint DEF Undisturbed, SlotsOf
<1>7. HeldFromTheTop(p) /\ (job[p].op \in Undisturbed => InHandNewest(p))
  BY <1>1, <1>2, Known DEF Knows
<1>8. Promise'
  BY <1>1, <1>5, PromiseKept
<1>9. CASE held' = [held EXCEPT ![p] = @ \cup {job[p]}] /\ Goto(p, "ready")
  <2>1. held'[p] = held[p] \cup {job[p]} /\ pc'[p] = "ready"
    BY <1>1, <1>9 DEF Goto, IInv, TypeInv, TypeOK
  <2>2. SUFFICES ASSUME NEW r \in held'[p], NEW q \in pend, r.op \in Undisturbed,
                        q.op = r.op, r.seq < q.seq
                 PROVE  q \in held'[p]
    BY <1>1, <1>2, <1>5, <1>6, <1>8, <2>1, UFrame DEF Knows, HeldFromTheTop, Working
  <2>3. CASE r \in held[p]
    BY <1>7, <2>1, <2>2, <2>3 DEF HeldFromTheTop
  <2>4. CASE r = job[p]
    <3>1. q.seq <= r.seq /\ q.seq \in Nat /\ r.seq \in Nat
      BY <1>3, <1>7, <2>2, <2>4 DEF InHandNewest, IInv, TypeInv, TypeOK, Record
    <3> QED
      BY <2>2, <3>1
  <2> QED
    BY <2>1, <2>2, <2>3, <2>4
<1>10. CASE /\ StartRevert(p, job[p]) /\ UNCHANGED held
            /\ Goto(p, IF job[p].adopted THEN "ready" ELSE "revert")
  <2>1. pc'[p] = (IF job[p].adopted THEN "ready" ELSE "revert") /\ left'[p] = SlotsOf(job[p].op)
    BY <1>1, <1>10 DEF Goto, StartRevert, IInv, TypeInv, TypeOK
  <2>2. job[p].adopted => job[p].op \notin Undisturbed
    BY <1>3, OpsDisjoint DEF UInv, Undisturbed
  <2>3. HeldFromTheTop(p)'
    BY <1>1, <1>5, <1>6, <1>7, <1>10, <2>1, <2>2, HeldStays DEF Working
  <2>4. job[p].op \in Undisturbed => InHandNewest(p)'
    BY <1>1, <1>5, <1>7 DEF InHandNewest
  <2>5. Knows(p)'
    BY <1>1, <1>6, <2>1, <2>3, <2>4 DEF Knows, Working
  <2> QED
    BY <1>1, <1>2, <1>8, <2>5, UFrame
<1> QED
  BY <1>9, <1>10 DEF Commit

\* A record's own value is written, one service at a time.
LEMMA WriteUser ==
  ASSUME IInv, UInv, NEW p \in Runs, NEW s \in Services, ApplySlot(p, s) \/ Reapply(p, s)
  PROVE  UInv'
<1>1. /\ p \in Procs /\ UNCHANGED <<wanted, pend, held, job, disturbed>>
      /\ pc[p] \in {"apply", "reapply"} /\ \E st : pc' = [pc EXCEPT ![p] = st]
      /\ setting' = [setting EXCEPT ![job[p].op][s] = job[p].mine]
  BY RunsAreProcs DEF ApplySlot, Reapply, Goto, file
<1>2. Alone(p) /\ Active(p) /\ Local(p)
  BY <1>1, AloneNow
<1>3. job[p] \in pend
  BY <1>1, <1>2 DEF Local, Working
<1>4. \/ pc[p] = "apply" /\ pc'[p] \in {"apply", "verify"}
      \/ pc[p] = "reapply" /\ pc'[p] \in {"ready", "reapply"}
  BY <1>1 DEF ApplySlot, Reapply, Goto, IInv, TypeInv, TypeOK
<1>5. HeldFromTheTop(p)'
  BY <1>1, <1>2, <1>4, Known, HeldStays DEF Working
<1>6. pc[p] = "apply" /\ job[p].op \in Undisturbed => InHandNewest(p)'
  BY <1>1, <1>2, Known DEF Knows, InHandNewest, Working
<1>7. Knows(p)'
  BY <1>1, <1>4, <1>5, <1>6 DEF Knows, Working, Undisturbed
<1>8. Promise'
  <2>1. \A o \in Ops : o # job[p].op => setting'[o] = setting[o]
    BY <1>1 DEF IInv, TypeInv, TypeOK
  <2> QED
    BY <1>1, <1>3, <2>1, PromiseKept
<1> QED
  BY <1>1, <1>2, <1>7, <1>8, UFrame

LEMMA RevertSlotUser ==
  ASSUME IInv, UInv, NEW p \in Procs, NEW s \in Services, RevertSlot(p, s) PROVE UInv'
<1> DEFINE o == job[p].op
<1>1. /\ UNCHANGED <<wanted, pend, held, job>> /\ disturbed \subseteq disturbed'
      /\ pc[p] = "revert" /\ s \in left[p] /\ \E st : pc' = [pc EXCEPT ![p] = st]
  BY DEF RevertSlot, Goto, file
<1>2. Alone(p) /\ Active(p) /\ Local(p)
  BY <1>1, AloneNow
<1>3. job[p] \in pend /\ o \in Ops
  BY <1>1, <1>2 DEF Local, Working, IInv, TypeInv, TypeOK, Record
<1>4. /\ left'[p] = left[p] \ {s}
      /\ pc'[p] = (IF left[p] # {s} THEN "revert"
                   ELSE IF err'[p] THEN Resume(p) ELSE "check")
      /\ left[p] = {s} /\ err'[p] => o \in disturbed'
  BY <1>1 DEF RevertSlot, Goto, IInv, TypeInv, TypeOK
<1>5. \A x \in Ops : x # o => setting'[x] = setting[x]
  BY DEF RevertSlot, Leaves, IInv, TypeInv, TypeOK
<1>6. Promise'
  BY <1>1, <1>3, <1>5, PromiseKept
<1>7. CASE o \notin Undisturbed'
  <2>1. HeldFromTheTop(p)'
    BY <1>1, <1>2, <1>7, Known, HeldStays
  <2>2. pc'[p] # "begin"
    BY <1>4, ResumeType
  <2> QED
    BY <1>1, <1>2, <1>6, <1>7, <2>1, <2>2, UFrame DEF Knows
<1>8. CASE o \in Undisturbed'
  <2>1. o \in Undisturbed /\ o \in Absolute /\ o \notin Adoptable /\ o \notin disturbed'
    BY <1>1, <1>8, OpsDisjoint DEF Undisturbed
  <2>2. pc'[p] \in {"revert", "check"} /\ (pc'[p] = "check" => ~err'[p] /\ left[p] = {s})
    BY <1>4, <2>1
  <2>3. HeldFromTheTop(p)'
    BY <1>1, <1>2, <2>2, Known, HeldStays DEF Working
  <2>4. InHandNewest(p)'
    BY <1>1, <1>2, <2>1, Known DEF Knows, InHandNewest, Working
  <2>5. ~err'[p] => ~err[p] /\ setting' = [setting EXCEPT ![o][s] = job[p].prev[s]]
    BY <1>1, <2>1 DEF RevertSlot, Leaves, Restored, IInv, TypeInv, TypeOK
  <2>6. ASSUME ~err'[p], NEW t \in Services, t \notin left'[p]
        PROVE  setting'[o][t] = job[p].prev[t]
    <3>1. t # s => t \notin left[p]
      BY <1>4, <2>6
    <3>2. t # s => setting[o][t] = job[p].prev[t]
      BY <1>1, <1>2, <2>1, <2>5, <2>6, <3>1, Known DEF Knows
    <3>3. setting'[o][t] = IF t = s THEN job[p].prev[s] ELSE setting[o][t]
      BY <1>3, <2>5, <2>6 DEF IInv, TypeInv, TypeOK
    <3> QED
      BY <3>2, <3>3
  <2>7. pc'[p] = "check" => GivenBack(job[p])'
    BY <1>1, <1>4, <2>2, <2>6 DEF GivenBack
  <2>8. Knows(p)'
    BY <1>1, <2>2, <2>3, <2>4, <2>6, <2>7 DEF Knows
  <2> QED
    BY <1>2, <1>6, <2>8, UFrame
<1> QED
  BY <1>7, <1>8

LEMMA CheckUser == ASSUME IInv, UInv, NEW p \in Procs, Check(p) PROVE UInv'
<1>1. /\ UNCHANGED <<setting, wanted, pend, held, job, left, err>>
      /\ disturbed \subseteq disturbed'
      /\ pc[p] = "check" /\ \E st : pc' = [pc EXCEPT ![p] = st]
  BY DEF Check, Goto, world, file
<1>2. Alone(p) /\ Active(p)
  BY <1>1, AloneNow
<1>3. \/ pc'[p] = "close" /\ disturbed' = disturbed
      \/ pc'[p] = Resume(p) /\ job[p].op \in disturbed'
  BY <1>1 DEF Check, Goto, IInv, TypeInv, TypeOK
<1>4. HeldFromTheTop(p)'
  BY <1>1, <1>2, <1>3, Known, HeldStays DEF Working, Undisturbed
<1>5. CASE pc'[p] = "close" /\ disturbed' = disturbed
  <2>1. job[p].op \in Undisturbed => InHandNewest(p)' /\ GivenBack(job[p])'
    BY <1>1, <1>2, Known DEF Knows, InHandNewest, GivenBack, Working
  <2>2. Knows(p)'
    BY <1>1, <1>4, <1>5, <2>1 DEF Knows, Undisturbed
  <2> QED
    BY <1>1, <1>2, <2>2, PromiseKept, UFrame
<1>6. CASE pc'[p] = Resume(p)
  BY <1>1, <1>2, <1>4, <1>6, ResumeType, Rests DEF Working
<1> QED
  BY <1>3, <1>5, <1>6

\* The newest record goes; if it is the last of its Op, the setting is what
\* it restored.
LEMMA CloseUser == ASSUME IInv, UInv, NEW p \in Procs, Close(p) PROVE UInv'
<1> DEFINE j == job[p]
<1>1. /\ UNCHANGED <<setting, wanted, held, job>> /\ disturbed \subseteq disturbed'
      /\ pc[p] = "close" /\ \E st : pc' = [pc EXCEPT ![p] = st]
  BY DEF Close, Goto, world
<1>2. Alone(p) /\ Active(p) /\ Local(p) /\ ~torn
  BY <1>1, AloneNow DEF Local
<1>3. j \in pend /\ j \in Record
  BY <1>1, <1>2 DEF Local, Working, IInv, TypeInv, TypeOK
<1>4. \/ pc'[p] = "scan" /\ pend' = pend \ {j}
      \/ pc'[p] = Resume(p) /\ pend' = pend /\ j.op \in disturbed'
  <2>1. Drop(pend, j) = pend \ {j}
    BY <1>3 DEF Drop, IInv, SeqUnique
  <2>2. Resume(p) # "scan"
    BY ResumeType
  <2> QED
    BY <1>1, <1>2, <2>1, <2>2 DEF Close, Append1, AppendFails, Goto, IInv, TypeInv, TypeOK
<1>5. HeldFromTheTop(p)'
  BY <1>1, <1>2, <1>4, Known, HeldStays DEF Undisturbed
<1>6. pc'[p] \notin Working \cup {"begin"}
  BY <1>4, ResumeType DEF Working
<1>7. CASE pend' = pend
  BY <1>1, <1>2, <1>5, <1>6, <1>7, Rests
<1>8. CASE pend' = pend \ {j}
  <2>1. SUFFICES ASSUME NEW o \in Undisturbed' PROVE Recoverable(o)'
    <3>1. Promise'
      BY <1>1, <1>8, <2>1 DEF UInv, Promise
    <3> QED
      BY <1>2, <1>5, <1>6, <3>1, UFrame DEF Knows, Working
  <2>2. o \in Undisturbed /\ Recoverable(o) /\ o \in Ops
    BY <1>1 DEF Undisturbed, UInv, Ops
  <2>3. CASE \A r \in pend : r.op # o
    BY <1>1, <1>8, <2>2, <2>3 DEF Recoverable
  <2>4. CASE \E r \in pend : r.op = o
    <3>1. PICK r \in pend : /\ r.op = o /\ r.prev = wanted[o]
                            /\ \A q \in pend : q.op = o => r.seq <= q.seq
      BY <2>2, <2>4 DEF Recoverable
    <3>2. CASE r # j
      BY <1>1, <1>8, <3>1, <3>2 DEF Recoverable
    <3>3. CASE r = j
      <4>1. InHandNewest(p) /\ GivenBack(j)
        BY <1>1, <1>2, <2>2, <3>1, <3>3, Known DEF Knows, Working
      <4>2. \A q \in pend : q.op = o => q.seq <= j.seq /\ j.seq <= q.seq
                                        /\ q.seq \in Nat /\ j.seq \in Nat
        BY <3>1, <3>3, <4>1 DEF InHandNewest, IInv, TypeInv, TypeOK, Record
      <4>3. \A q \in pend : q.op = o => q = j
        BY <1>3, <4>2 DEF IInv, SeqUnique
      <4>4. \A q \in pend' : q.op # o
        BY <1>8, <4>3
      <4>5. setting[o] \in [Services -> Values] /\ j.prev \in [Services -> Values]
        BY <1>3, <2>2 DEF IInv, TypeInv, TypeOK, Record
      <4>6. \A t \in Services : setting[o][t] = j.prev[t]
        BY <3>1, <3>3, <4>1 DEF GivenBack
      <4>7. setting[o] = j.prev
        BY <4>5, <4>6
      <4> QED
        BY <1>1, <3>1, <3>3, <4>4, <4>7 DEF Recoverable
    <3> QED
      BY <3>2, <3>3
  <2> QED
    BY <2>3, <2>4
<1> QED
  BY <1>4, <1>7, <1>8

\* What prepare captures of an Op without a record is what the user chose.
LEMMA PrepareUser ==
  ASSUME IInv, UInv, NEW p \in Runs, NEW o \in Ops, Prepare(p, o) PROVE UInv'
<1>1. /\ p \in Procs /\ UNCHANGED <<setting, wanted, pend, held>>
      /\ disturbed \subseteq disturbed'
      /\ pc[p] = "ready" /\ \E st : pc' = [pc EXCEPT ![p] = st]
  BY RunsAreProcs DEF Prepare, Goto, world, file
<1>2. Alone(p) /\ Active(p)
  BY <1>1, AloneNow
<1>3. /\ pc'[p] = "begin" /\ job'[p].op = o /\ (job'[p].adopted => o \in Adoptable)
      /\ job'[p].prev = [s \in Services |-> Captured(p, setting[o][s])]
  BY <1>1 DEF Prepare, Goto, IInv, TypeInv, TypeOK
<1>4. HeldFromTheTop(p)'
  BY <1>1, <1>2, Known, HeldStays DEF Working
<1>5. ASSUME o \in Undisturbed', \A r \in pend : r.op # o PROVE job'[p].prev = wanted[o]
  <2>1. o \in Undisturbed /\ o \in Absolute /\ o \notin disturbed'
    BY <1>1, <1>5 DEF Undisturbed
  <2>2. setting[o] = wanted[o]
    BY <1>5, <2>1 DEF UInv, Recoverable
  <2>3. ASSUME NEW s \in Services PROVE Captured(p, setting[o][s]) = setting[o][s]
    <3>1. setting[o][s] \in UserSide
      BY <2>1, <2>2 DEF UInv
    <3>2. setting[o][s] \notin Listeners /\ Listener[p] \in Listeners
      BY <3>1, ValuesDisjoint DEF Listeners
    <3>3. residue[p] => setting[o][s] \notin UserLoopback
      BY <2>1 DEF Prepare
    <3> QED
      BY <3>2, <3>3 DEF Captured, Loopback
  <2>4. setting[o] \in [Services -> Values]
    BY DEF IInv, TypeInv, TypeOK
  <2>5. job'[p].prev = [s \in Services |-> setting[o][s]]
    BY <1>3, <2>3
  <2> QED
    BY <2>2, <2>4, <2>5
<1>6. Knows(p)'
  BY <1>1, <1>3, <1>4, <1>5 DEF Knows, Working
<1> QED
  BY <1>1, <1>2, <1>6, PromiseKept, UFrame

LEMMA BeginUser == ASSUME IInv, UInv, NEW p \in Runs, Begin(p) PROVE UInv'
<1> DEFINE j == job[p]
<1>1. /\ p \in Procs /\ UNCHANGED <<setting, wanted, held, job, disturbed>>
      /\ pc[p] = "begin" /\ \E st : pc' = [pc EXCEPT ![p] = st]
  BY RunsAreProcs DEF Begin, Goto, world
<1>2. Alone(p) /\ Active(p) /\ Local(p) /\ ~torn /\ Knows(p) /\ HeldFromTheTop(p)
  BY <1>1, AloneNow, Known DEF Local
<1>3. j \in Record /\ seqno[p] \in Nat /\ j.seq = seqno[p] + 1
  BY <1>1, <1>2 DEF IInv, TypeInv, TypeOK, JobOK, Local, Fresh
<1>4. \A r \in pend : r.seq < j.seq /\ r.seq \in Nat /\ j.seq \in Nat
  <2>1. \A r \in pend : r.seq <= seqno[p] /\ r.seq \in Nat
    BY <1>2 DEF Local, IInv, TypeInv, TypeOK, Record
  <2> QED
    BY <1>3, <2>1
<1>5. Undisturbed' = Undisturbed
  BY <1>1 DEF Undisturbed
<1>6. CASE Append1(Put(pend, j)) /\ Goto(p, IF j.adopted THEN "commit" ELSE "apply")
  <2>1. pend' = pend \cup {j}
    <3>1. \A r \in pend : r.seq # j.seq
      BY <1>4
    <3> QED
      BY <1>2, <1>6, <3>1 DEF Append1, Put
  <2>2. pc'[p] \in {"commit", "apply"}
    BY <1>1, <1>6 DEF Goto, IInv, TypeInv, TypeOK
  <2> HIDE DEF j
  <2>3. HeldFromTheTop(p)'
    <3>1. SUFFICES ASSUME NEW r \in held[p], NEW q \in pend', r.op \in Undisturbed,
                          q.op = r.op, r.seq < q.seq
                   PROVE  q \in held[p] \/ q = j
      BY <1>1, <1>5, <2>2 DEF HeldFromTheTop, Working, j
    <3> QED
      BY <1>1, <1>2, <2>1, <3>1 DEF HeldFromTheTop, Working
  <2>4. InHandNewest(p)'
    <3>1. \A q \in pend' : q.seq <= j.seq
      BY <1>3, <1>4, <2>1 DEF Record
    <3> QED
      BY <1>1, <3>1 DEF InHandNewest, j
  <2>5. Knows(p)'
    BY <1>1, <2>2, <2>3, <2>4 DEF Knows, Working
  <2>6. ASSUME NEW o \in Undisturbed PROVE Recoverable(o)'
    <3>1. Recoverable(o)
      BY DEF UInv
    <3>2. CASE \E r \in pend : /\ r.op = o /\ r.prev = wanted[o]
                              /\ \A q \in pend : q.op = o => r.seq <= q.seq
      <4>1. PICK r \in pend : /\ r.op = o /\ r.prev = wanted[o]
                              /\ \A q \in pend : q.op = o => r.seq <= q.seq
        BY <3>2
      <4>2. \A q \in pend' : q.op = o => r.seq <= q.seq
        BY <1>4, <2>1, <4>1
      <4> QED
        BY <1>1, <2>1, <4>1, <4>2 DEF Recoverable
    <3>3. CASE (\A r \in pend : r.op # o) /\ setting[o] = wanted[o] /\ j.op # o
      BY <1>1, <2>1, <3>3 DEF Recoverable
    <3>4. CASE (\A r \in pend : r.op # o) /\ j.op = o
      <4>1. j.prev = wanted[o]
        BY <1>1, <1>2, <3>4 DEF Knows, j
      <4>2. \A q \in pend' : q.op = o => j.seq <= q.seq
        BY <1>3, <2>1, <3>4 DEF Record
      <4> QED
        BY <1>1, <2>1, <3>4, <4>1, <4>2 DEF Recoverable
    <3> QED
      BY <3>1, <3>2, <3>3, <3>4 DEF Recoverable
  <2>7. j.adopted => j.op \in Adoptable
    BY <1>1, <1>2 DEF Knows, j
  <2>8. Promise'
    BY <1>1, <1>5, <2>1, <2>6, <2>7 DEF UInv, Promise
  <2> QED
    BY <1>1, <1>2, <2>5, <2>8, UFrame
<1>7. CASE AppendFails(p) /\ Goto(p, "ready")
  <2>1. pend' = pend /\ pc'[p] = "ready"
    BY <1>1, <1>7 DEF AppendFails, Goto, IInv, TypeInv, TypeOK
  <2>2. HeldFromTheTop(p)'
    BY <1>1, <1>2, <2>1, HeldStays DEF Working
  <2> QED
    BY <1>1, <1>2, <2>1, <2>2, Rests DEF Working
<1> QED
  BY <1>6, <1>7 DEF Begin

\* A change by somebody else while a record is outstanding is not promised
\* back; with none outstanding it is the user's new choice.
LEMMA OutsideUser ==
  ASSUME IInv, UInv, NEW o \in Ops, NEW s \in Services, Outside(o, s) PROVE UInv'
<1>1. UNCHANGED <<pend, pc, held, job, left, err>> /\ disturbed \subseteq disturbed'
  BY DEF Outside, file, proc
<1>2. PICK v \in Values :
        /\ setting' = [setting EXCEPT ![o][s] = v] /\ wanted' = [wanted EXCEPT ![o][s] = v]
        /\ o \in Absolute => v \in UserSide
  BY DEF Outside
<1>3. setting \in [Ops -> [Services -> Values]] /\ wanted \in [Ops -> [Services -> Values]]
  BY DEF IInv, TypeInv, TypeOK
<1>4. /\ \A x \in Ops : x # o => setting'[x] = setting[x] /\ wanted'[x] = wanted[x]
      /\ setting'[o] = [setting[o] EXCEPT ![s] = v]
      /\ wanted'[o] = [wanted[o] EXCEPT ![s] = v]
      /\ wanted' \in [Ops -> [Services -> Values]]
  BY <1>2, <1>3
<1>5. \A x \in Absolute, t \in Services : wanted'[x][t] \in UserSide
  BY <1>2, <1>3, <1>4 DEF UInv, Ops
<1>6. o \in Undisturbed' => ~Busy(o)
  BY DEF Outside, Undisturbed
<1>7. ASSUME NEW x \in Undisturbed' PROVE Recoverable(x)'
  <2>1. x \in Undisturbed /\ Recoverable(x) /\ x \in Ops
    BY <1>1 DEF UInv, Undisturbed, Ops
  <2>2. CASE x # o
    BY <1>1, <1>4, <2>1, <2>2 DEF Recoverable
  <2>3. CASE x = o
    <3>1. (\A r \in pend : r.op # o) /\ setting[o] = wanted[o]
      BY <1>6, <2>1, <2>3 DEF Busy, Recoverable
    <3> QED
      BY <1>1, <1>4, <2>3, <3>1 DEF Recoverable
  <2> QED
    BY <2>2, <2>3
<1>8. Promise'
  BY <1>1, <1>4, <1>5, <1>7 DEF UInv, Promise
<1>9. ASSUME NEW p \in Procs, Active(p)' PROVE Knows(p)'
  <2>1. Active(p) /\ Knows(p) /\ Local(p)
    BY <1>1, <1>9 DEF Active, UInv, IInv
  <2>2. Undisturbed' \subseteq Undisturbed
    BY <1>1 DEF Undisturbed
  <2>3. HeldFromTheTop(p)' /\ (job[p].op \in Undisturbed' /\ pc[p] \in Working => InHandNewest(p)')
    BY <1>1, <2>1, <2>2 DEF Knows, HeldFromTheTop, InHandNewest
  <2>4. job[p].op \in Undisturbed' /\ pc[p] \in Working => job[p].op # o /\ job[p].op \in Ops
    BY <1>6, <2>1 DEF Local, Busy, Undisturbed, Ops
  <2>5. job[p].op \in Undisturbed' /\ pc[p] = "begin" => job[p].op # o /\ job[p].op \in Ops
    BY <1>6, <2>1 DEF Busy, Undisturbed, Ops
  <2>6. pc[p] \in {"check", "close"} /\ job[p].op \in Undisturbed' => GivenBack(job[p])'
    BY <1>1, <1>4, <2>1, <2>2, <2>4 DEF Knows, GivenBack, Working
  <2>7. pc[p] = "revert" /\ job[p].op \in Undisturbed' /\ ~err[p] =>
          \A t \in Services \ left[p] : setting'[job[p].op][t] = job[p].prev[t]
    BY <1>1, <1>4, <2>1, <2>2, <2>4 DEF Knows, Working
  <2>8. pc[p] = "begin" /\ job[p].op \in Undisturbed'
          /\ (\A r \in pend : r.op # job[p].op) => job[p].prev = wanted'[job[p].op]
    BY <1>1, <1>4, <2>1, <2>2, <2>5 DEF Knows
  <2> QED
    BY <1>1, <2>1, <2>3, <2>6, <2>7, <2>8 DEF Knows
<1> QED
  BY <1>8, <1>9 DEF UInv, Promise

LEMMA InitUser == Init => UInv
<1>1. SUFFICES ASSUME Init PROVE UInv
  OBVIOUS
<1>2. \A p \in Procs : ~Active(p)
  BY <1>1 DEF Init, Active
<1>3. UserSide \subseteq Values
  BY DEF Values
<1>4. wanted \in [Ops -> [Services -> UserSide]]
  BY <1>1 DEF Init
<1>5. wanted \in [Ops -> [Services -> Values]]
      /\ \A o \in Absolute, s \in Services : wanted[o][s] \in UserSide
  BY <1>3, <1>4 DEF Ops
<1> QED
  BY <1>1, <1>2, <1>5 DEF Init, UInv, Recoverable

LEMMA StepUser == Hazards = {} /\ IInv /\ UInv /\ [Next]_vars => UInv'
<1>1. SUFFICES ASSUME Hazards = {}, IInv, UInv, [Next]_vars PROVE UInv'
  OBVIOUS
<1>2. ASSUME NEW p \in Runs, RunStep(p) PROVE UInv'
  <2>1. p \in Procs
    BY RunsAreProcs
  <2>2. CASE Signal(p)
    BY <1>1, <2>2, SameUser DEF Signal
  <2> QED
    BY <1>1, <1>2, <2>1, <2>2, OpenUser, BeginUser, ApplyErrUser, CommitUser, UndoUser,
       RestingUser, PrepareUser, WriteUser
       DEF RunStep
<1>3. ASSUME NEW p \in Repairers, ReplayStep(p) PROVE UInv'
  BY <1>1, <1>3, RunsAreProcs, OpenUser, ReplayUser, ReplayEndUser DEF ReplayStep
<1>4. ASSUME NEW p \in Procs, RevertStep(p) \/ Kill(p) PROVE UInv'
  BY <1>1, <1>4, CheckUser, CloseUser, ScanUser, RevertSlotUser, KillUser DEF RevertStep
<1>5. CASE \E o \in Ops, s \in Services : Outside(o, s)
  BY <1>1, <1>5, OutsideUser
<1>6. CASE UNCHANGED vars
  BY <1>1, <1>6, SameUser DEF vars, proc
<1> QED
  BY <1>1, <1>2, <1>3, <1>4, <1>5, <1>6 DEF Next

\* The user's value survives: for any number of runs, repairers, services and
\* Ops, any faults, kills and outside changes, as long as no replay runs beside
\* a live run and appends are all-or-nothing, a setting without an outstanding
\* record is what the user chose, and otherwise the oldest record, which every
\* rollback, UndoAll and Replay reverts last, holds it (manager.go, journal.go).
THEOREM UserValueKept ==
  ASSUME Hazards = {} PROVE Spec => []UserValueRecoverable
<1>1. UInv => UserValueRecoverable
  BY RecoverableIsTheProperty DEF UInv
<1>2. IInv /\ UInv /\ [Next]_vars => IInv' /\ UInv'
  BY StepInv, StepUser
<1>3. Init => IInv /\ UInv
  BY InitInv, InitUser
<1> QED
  BY <1>1, <1>2, <1>3, PTL DEF Spec
=============================================================================
