-------------------------------- MODULE Tune --------------------------------
(***************************************************************************)
(* `dpb tune` and `dpb apply` (probe/*.go, cliapp/tune.go, apply.go,       *)
(* config/tuned.go): measure the line and write a profile of it.           *)
(*                                                                         *)
(* preflight, baseline (which targets are blocked), classify (which        *)
(* mechanism works), the sweep in rounds with a plain control in each, the *)
(* ranking, and the profile's save.  The line has a truth the tool does    *)
(* not see - which targets are censored and how, what each strategy does   *)
(* - and noise: single attempts are lost, and the whole line goes down     *)
(* between rounds.                                                         *)
(***************************************************************************)
EXTENDS FoldSeqs, Integers, FiniteSets, SequencesExt, FiniteSetsExt

CONSTANTS
  Jobs,              \* the measurements, each a record (see JobType)
  Registry,          \* what each strategy does
  DefaultReps, ConfidentTargets, ConfidentReps,
  MaxTrials          \* bounds the table of Wilson intervals

(* A target: what it is probed for, how it is censored, how it is pinned.  *)
(* A strategy: whether it beats the censor and whether it can be built,    *)
(* the kinds of host it breaks, and what the ranking sees of it.           *)
(* A job: cmd and force (`dpb apply --force`), its targets, the truth of   *)
(* each resolver, the specs asked for, and the bounds on noise: attempts   *)
(* lost, outages begun or ended; whether the budget may expire, the user   *)
(* may interrupt, and the process may die.                                 *)
Targets == [host : STRING, kind : {"blocked", "control", "fragile"},
            truth : {"open", "sni", "ip"}, pin : {"origin", "sinkhole", ""}]
JobType == [cmd : {"tune", "apply"}, force : BOOLEAN, targets : Seq(Targets),
            resolvers : Seq({"clean", "poisoned", "live", "dead"}), specs : Seq(STRING),
            reps : Nat, limit : Nat, loss : Nat, outages : Nat, may : SUBSET STRING]
Strategies == [works : BOOLEAN, breaks : SUBSET STRING, builds : BOOLEAN, family : STRING,
               det : Int, margin : Int, segs : Int, lex : Int]

\* What `dpb apply' is given compiles.
ASSUME JobsAssumption ==
  /\ Jobs \subseteq JobType
  /\ \A j \in Jobs : j.cmd = "apply" => Len(j.specs) = 2 /\ Range(j.specs) \subseteq DOMAIN Registry
\* Plain sends a message as it is: it is always built and breaks nothing.
ASSUME RegistryAssumption ==
  /\ Registry \in [DOMAIN Registry -> Strategies]
  /\ "plain" \in DOMAIN Registry /\ Registry["plain"].builds /\ Registry["plain"].breaks = {}
ASSUME BoundsAreNumbers ==
  {DefaultReps, ConfidentTargets, ConfidentReps, MaxTrials} \subseteq Nat \ {0}

VARIABLES
  job, at,
  up, loss, outages, cancelled,      \* the line's noise, and the context
  todo, blocked, notBlocked, ipBlocked,  \* baseline: targets, by index
  retried,                           \* this target, or this round, is a retry
  limit,                             \* the classification's first-record limit
  cands, rep, ci,                    \* the sweep: its order, and where it is
  round,                             \* this round's trials: job -> verdict
  acc, elim,                         \* the scores; what is eliminated
  rounds,                            \* rounds attempted and discarded
  report,                            \* what the run concluded
  disk                               \* the profile's path, and its temp file

tuneVars == <<job, at, up, loss, outages, cancelled, todo, blocked, notBlocked, ipBlocked,
              retried, limit, cands, rep, ci, round, acc, elim, rounds, report, disk>>

noise    == <<up, loss, outages, cancelled>>
baseline == <<todo, blocked, notBlocked, ipBlocked>>
sweep    == <<cands, rep, ci, round, acc, elim, rounds>>

None == "none"
May(f) == f \in job.may
T(i) == job.targets[i]
OfKind(k) ==
  Kept([i \in DOMAIN job.targets |-> i], {i \in DOMAIN job.targets : T(i).kind = k})
Controls == OfKind("control")
Reps == IF job.reps > 0 THEN job.reps ELSE DefaultReps

(* An attempt's verdict.                                                   *)
Scorable(v) == v \in {"pass", "reset", "timeout", "blockpage"}

(* RunTrial: a sinkhole is not dialled; what the emitter will not build is *)
(* ours and outranks the handshake; then the line, the origin, the censor. *)
IsSinkhole(t) == t.pin = "sinkhole"
Emits(s) == Registry[s].builds
ClassifyHandshake(s, t) ==
  IF t.kind \in Registry[s].breaks THEN "handshakefail"
  ELSE IF t.truth = "sni" /\ ~Registry[s].works THEN "reset"
  ELSE "pass"
RunTrial(s, t, bad) ==
  IF IsSinkhole(t) THEN "blockpage"
  ELSE IF t.truth = "ip" THEN "dialfail"
  ELSE IF ~Emits(s) THEN "localerr"
  ELSE IF bad THEN "timeout"
  ELSE ClassifyHandshake(s, t)

NoScore == [bp |-> 0, bt |-> 0, cp |-> 0, ct |-> 0, fp |-> 0, ft |-> 0,
            local |-> 0, first |-> 0, firstPass |-> 0]
OldProfile == [strategy |-> "old", ladder |-> <<>>, confidence |-> "low"]
Torn == [OldProfile EXCEPT !.strategy = "torn"]
NoReport == [end |-> "", ranked |-> <<>>, winner |-> None, ladder |-> <<>>, confidence |-> "low"]

TuneInit ==
  /\ job \in Jobs
  /\ at = "preflight"
  /\ up = TRUE /\ loss = job.loss /\ outages = job.outages /\ cancelled = FALSE
  /\ todo = OfKind("blocked")
  /\ blocked = <<>> /\ notBlocked = {} /\ ipBlocked = {}
  /\ retried = FALSE /\ limit = 0
  /\ cands = <<>> /\ rep = 1 /\ ci = 1 /\ round = <<>>
  /\ acc = [s \in DOMAIN Registry |-> NoScore] /\ elim = {}
  /\ rounds = [attempted |-> 0, discarded |-> 0]
  /\ report = NoReport
  /\ disk = [profile |-> OldProfile, temp |-> None]

Stop(why) == report' = [report EXCEPT !.end = why] /\ at' = "done"

(* The line goes down or comes back between rounds; Ctrl-C.                *)
Weather ==
  /\ at = "sweep" /\ round = <<>> /\ outages > 0
  /\ up' = ~up /\ outages' = outages - 1
  /\ UNCHANGED <<job, at, loss, cancelled, retried, limit, report, disk>>
  /\ UNCHANGED baseline /\ UNCHANGED sweep

Interrupt ==
  /\ May("interrupt") /\ ~cancelled /\ at # "done"
  /\ cancelled' = TRUE
  /\ UNCHANGED <<job, at, up, loss, outages, retried, limit, report, disk>>
  /\ UNCHANGED baseline /\ UNCHANGED sweep

-----------------------------------------------------------------------------
(* Preflight: every transport against the control name and the names of    *)
(* the blocked targets.                                                    *)
Cell(res, isControl) ==
  CASE res = "dead" \/ cancelled -> "timeout"
    [] res = "clean" \/ isControl -> "ok"
    [] res = "poisoned" -> "sinkhole"
    [] OTHER -> "timeout"
RowClean(res) ==
  /\ Cell(res, TRUE) = "ok"
  /\ OfKind("blocked") # <<>> => Cell(res, FALSE) = "ok"

Preflight ==
  /\ at = "preflight"
  /\ \/ /\ \/ job.resolvers = <<>>
           \/ \E i \in DOMAIN job.resolvers : RowClean(job.resolvers[i])
        /\ at' = "baseline" /\ UNCHANGED report
     \/ /\ job.resolvers # <<>>
        /\ \A i \in DOMAIN job.resolvers : ~RowClean(job.resolvers[i])
        /\ Stop("no clean transport")
  /\ UNCHANGED <<job, retried, limit, disk>>
  /\ UNCHANGED noise /\ UNCHANGED baseline /\ UNCHANGED sweep

-----------------------------------------------------------------------------
(* Baseline: the same address dialled with a benign name and with the      *)
(* real one.                                                               *)
BaselineReps == Min({Max({Reps, 2}), 3})

(* benignFor: the control's name at this target's address.                 *)
HaveControl(i) == Controls # <<>> /\ T(i).pin # ""
Benign(i) == [T(i) EXCEPT !.kind = "control",
                          !.truth = IF @ = "ip" THEN "ip" ELSE "open"]

(* attempts and tallyReach: of n attempts the line lost so many; a dial    *)
(* failure counts here, an origin's refusal does not.  An interrupt leaves *)
(* one, that fails.                                                        *)
TallyReach(t, lost) ==
  IF cancelled THEN [pass |-> 0, total |-> 1]
  ELSE [pass |-> IF RunTrial("plain", t, FALSE) = "pass" THEN BaselineReps - lost ELSE 0,
        total |-> BaselineReps]

\* (mutant of BaselineOne: one failed attempt is enough to call it blocked)
BaselineOneHasty(i, b, r) ==
  IF HaveControl(i) /\ b.total >= 2 /\ b.pass = 0 THEN "ip"
  ELSE IF r.pass < r.total THEN "blocked"
  ELSE "not blocked"
BaselineOne(i, b, r) ==
  IF HaveControl(i) /\ b.total >= 2 /\ b.pass = 0 THEN "ip"
  ELSE IF r.total >= 2 /\ r.pass = 0 /\ (HaveControl(i) => b.pass = b.total) THEN "blocked"
  ELSE IF HaveControl(i) /\ b.pass < b.total /\ ~retried THEN "retry"
  ELSE "not blocked"

Judge(i, v) ==
  /\ retried' = (v = "retry")
  /\ todo' = IF v = "retry" THEN todo ELSE Tail(todo)
  /\ blocked' = IF v = "blocked" THEN Append(blocked, i) ELSE blocked
  /\ notBlocked' = IF v = "not blocked" THEN notBlocked \cup {i} ELSE notBlocked
  /\ ipBlocked' = IF v = "ip" THEN ipBlocked \cup {i} ELSE ipBlocked

Baseline ==
  /\ at = "baseline" /\ todo # <<>>
  /\ \E lb, lr \in 0..BaselineReps :
       /\ lb + lr <= loss
       /\ loss' = loss - lb - lr
       /\ LET i == Head(todo) IN
          Judge(i, BaselineOne(i, TallyReach(Benign(i), lb), TallyReach(T(i), lr)))
  /\ UNCHANGED <<job, at, up, outages, cancelled, limit, report, disk>> /\ UNCHANGED sweep

(* Everything unreachable whatever the name: stop.                         *)
BaselineEnds ==
  /\ at = "baseline" /\ todo = <<>>
  /\ IF ipBlocked # {} /\ blocked = <<>> /\ notBlocked = {}
     THEN Stop("ip block")
     ELSE IF job.cmd = "apply" /\ blocked = <<>> THEN Stop("nothing blocked")
     ELSE /\ at' = IF job.cmd = "apply" THEN "sweep" ELSE "classify"
          /\ UNCHANGED report
  /\ cands' = IF job.cmd = "apply" THEN job.specs ELSE cands
  /\ UNCHANGED <<job, retried, limit, disk, rep, ci, round, acc, elim, rounds>>
  /\ UNCHANGED noise /\ UNCHANGED baseline

-----------------------------------------------------------------------------
(* Classify: which axis works, every attempt of it, and how far the first  *)
(* record may reach.                                                       *)
SniEnd == 8

(* The binary search over the cuts the emitter will build.                 *)
FirstRecordLimit(passing) ==
  LET search[lo \in 1..SniEnd, hi \in 0..SniEnd, best \in 0..SniEnd] ==
        IF lo > hi THEN best
        ELSE LET mid == lo + (hi - lo) \div 2 IN
             IF mid \in passing THEN search[mid + 1, hi, mid] ELSE search[lo, mid - 1, best]
  IN search[1, SniEnd - 1, 0]

(* Plain first, then the families that worked, the rest as they stand.     *)
OrderByClassification(specs, live) ==
  LET families == << "frag", "chunk", "split" >>
      prio(s) == IF s = "plain" THEN 0
                 ELSE IF Registry[s].family \in live
                      THEN SelectInSeq(families, LAMBDA f : f = Registry[s].family)
                 ELSE 4
      ofPrio(p) == Kept(specs, {s \in Range(specs) : prio(s) = p})
  IN ofPrio(0) \o ofPrio(1) \o ofPrio(2) \o ofPrio(3) \o ofPrio(4)
(* What this build does not register never enters the sweep.               *)
Registered == Kept(job.specs, DOMAIN Registry)
Candidates(live) == OrderByClassification(Registered, live)

(* The families whose probe bypasses when no attempt is lost.              *)
Axes == {Registry[s].family : s \in {x \in Range(Registered) : Registry[x].works /\ Emits(x)}}

(* A lost attempt turns an axis, or a cut, into one that does not work.    *)
Classify ==
  /\ at = "classify"
  /\ IF blocked = <<>> THEN Stop("nothing blocked") /\ UNCHANGED <<cands, limit, loss>>
     ELSE \E lost \in IF cancelled THEN {Axes} ELSE {l \in SUBSET Axes : Cardinality(l) <= loss},
             bad \in 0..SniEnd - 1 :
            LET live == Axes \ lost
                spent == Cardinality(lost) + (IF bad > 0 THEN 1 ELSE 0) IN
            /\ bad > 0 => "frag" \in live /\ ~cancelled /\ spent <= loss
            /\ cands' = Candidates(live)
            /\ limit' = IF "frag" \in live
                        THEN FirstRecordLimit((1..job.limit) \ {bad}) ELSE 0
            /\ loss' = IF cancelled THEN loss ELSE loss - spent
            /\ at' = "sweep" /\ UNCHANGED report
  /\ UNCHANGED <<job, up, outages, cancelled, retried, disk, rep, ci, round, acc, elim, rounds>>
  /\ UNCHANGED baseline

-----------------------------------------------------------------------------
(* Evaluate: a round is one candidate, one rep, every target, and a plain  *)
(* probe of the first control (job 0) that is nobody's score.              *)
RoundJobs == Range(blocked) \cup Range(OfKind("fragile")) \cup Range(Controls)
             \cup (IF Controls # <<>> THEN {0} ELSE {})
Running == round # <<>>
Pending == "pending"
Cand == cands[ci]

Advance == IF ci < Len(cands) THEN ci' = ci + 1 /\ UNCHANGED rep
           ELSE ci' = 1 /\ rep' = rep + 1

(* The next candidate: interrupted, out of budget, or eliminated.          *)
NextCandidate ==
  /\ at = "sweep" /\ ~Running /\ rep <= Reps
  /\ \/ /\ cancelled /\ report' = [report EXCEPT !.end = "interrupted"]
        /\ at' = "rank" /\ UNCHANGED <<rep, ci, round>>
     \/ /\ ~cancelled /\ May("budget")
        /\ at' = "rank" /\ UNCHANGED <<rep, ci, round, report>>
     \/ /\ ~cancelled /\ Cand \in elim
        /\ Advance /\ UNCHANGED <<at, round, report>>
     \/ /\ ~cancelled /\ Cand \notin elim
        /\ round' = [j \in RoundJobs |-> Pending]
        /\ UNCHANGED <<at, rep, ci, report>>
  /\ retried' = FALSE
  /\ UNCHANGED <<job, limit, disk, cands, acc, elim, rounds>>
  /\ UNCHANGED noise /\ UNCHANGED baseline

(* What an attempt comes to that an interrupt reaches: not begun, or cut   *)
(* off in its dial, or in its handshake, which reads as a reset.           *)
CutShort(t) == {"localerr"} \cup (IF IsSinkhole(t) THEN {"blockpage"} ELSE {"dialfail", "reset"})

(* runJobs: the trials of a round, in any order; one may be lost.          *)
Trial ==
  /\ at = "sweep"
  /\ \E j \in {x \in DOMAIN round : round[x] = Pending}, lost \in {0, 1} :
       /\ lost <= loss /\ loss' = loss - lost
       /\ LET s == IF j = 0 THEN "plain" ELSE Cand
              t == IF j = 0 THEN T(Controls[1]) ELSE T(j)
              outcomes == IF cancelled THEN CutShort(t) ELSE {RunTrial(s, t, ~up \/ lost = 1)}
          IN \E v \in outcomes : round' = [round EXCEPT ![j] = v]
  /\ UNCHANGED <<job, at, up, outages, cancelled, retried, limit, report, disk,
                 cands, rep, ci, acc, elim, rounds>>
  /\ UNCHANGED baseline

\* (mutant of Live: the candidate's own control trials decide)
LiveByCandidate == \A j \in DOMAIN round \ {0} : T(j).kind = "control" => round[j] = "pass"
\* (mutant of Live: every round counts, whatever the plain probe says)
LiveUnprobed == TRUE
Live == 0 \in DOMAIN round => round[0] = "pass"

(* scorableFor: on the compatibility axes an origin's refusal is the       *)
(* measurement.                                                            *)
ScorableFor(j) ==
  Scorable(round[j]) \/ (T(j).kind # "blocked" /\ round[j] = "handshakefail")

(* accum.add over the round's trials, and the counts elimination keeps.    *)
Scored(a) ==
  LET n(k, v) == Cardinality({j \in DOMAIN round \ {0} :
                   T(j).kind = k /\ ScorableFor(j) /\ (v => round[j] = "pass")})
      f == blocked[1]
  IN [bp |-> a.bp + n("blocked", TRUE), bt |-> a.bt + n("blocked", FALSE),
      cp |-> a.cp + n("control", TRUE), ct |-> a.ct + n("control", FALSE),
      fp |-> a.fp + n("fragile", TRUE), ft |-> a.ft + n("fragile", FALSE),
      local |-> a.local + Cardinality({j \in DOMAIN round \ {0} : round[j] = "localerr"}),
      first |-> a.first + (IF Scorable(round[f]) THEN 1 ELSE 0),
      firstPass |-> a.firstPass + (IF round[f] = "pass" THEN 1 ELSE 0)]

(* Two scorable failures against the first target and no pass, or two      *)
(* local errors and nothing measured.                                      *)
Eliminated(a) ==
  \/ a.first >= 2 /\ a.firstPass = 0
  \/ a.local >= 2 /\ a.first = 0

MayRetry == ~retried /\ ~cancelled

RoundEnds ==
  /\ at = "sweep" /\ Running /\ \A j \in DOMAIN round : round[j] # Pending
  /\ rounds' = [attempted |-> rounds.attempted + 1,
                discarded |-> rounds.discarded + (IF Live THEN 0 ELSE 1)]
  /\ \/ /\ Live
        /\ acc' = [acc EXCEPT ![Cand] = Scored(@)]
        /\ elim' = IF Eliminated(acc'[Cand]) THEN elim \cup {Cand} ELSE elim
        /\ round' = <<>> /\ Advance /\ retried' = FALSE
     \/ /\ ~Live /\ MayRetry
        /\ round' = [j \in RoundJobs |-> Pending] /\ retried' = TRUE
        /\ UNCHANGED <<acc, elim, rep, ci>>
     \/ /\ ~Live /\ ~MayRetry
        /\ round' = <<>> /\ Advance /\ retried' = FALSE
        /\ UNCHANGED <<acc, elim>>
  /\ UNCHANGED <<job, at, limit, report, disk, cands>>
  /\ UNCHANGED noise /\ UNCHANGED baseline

SweepEnds ==
  /\ at = "sweep" /\ ~Running /\ rep > Reps
  /\ at' = "rank"
  /\ UNCHANGED <<job, retried, limit, report, disk>>
  /\ UNCHANGED noise /\ UNCHANGED baseline /\ UNCHANGED sweep

-----------------------------------------------------------------------------
(* Rank: the 95% Wilson interval in thousandths, over the bounded counts.  *)
Isqrt(x) == CHOOSE r \in 0..16000 : r * r <= x /\ x < (r + 1) * (r + 1)
Wilson ==
  [n \in 1..MaxTrials |-> [p \in 0..n |->
    LET z2 == 3842
        root == Isqrt(z2 * (z2 + (4000 * p * (n - p)) \div n))
        thousandths(x) == Max({0, Min({1000, (1000 * x) \div (2 * (1000 * n + z2))})})
    IN [lo |-> thousandths(2000 * p + z2 - root), hi |-> thousandths(2000 * p + z2 + root)]]]

(* A rate with no trials is 1; whole fractions are compared crosswise.     *)
CmpRate(a, b) ==
  LET pass(x) == IF x.ct = 0 THEN 1 ELSE x.cp
      total(x) == IF x.ct = 0 THEN 1 ELSE x.ct
  IN pass(a) * total(b) - pass(b) * total(a)
WilsonLo(x) == IF x.bt = 0 THEN 0 ELSE Wilson[x.bt][x.bp].lo

(* A difference on the fragile axis counts when the intervals are apart.   *)
CmpFragile(a, b) ==
  IF a.ft = 0 \/ b.ft = 0 THEN 0
  ELSE IF Wilson[a.ft][a.fp].lo > Wilson[b.ft][b.fp].hi THEN 1
  ELSE IF Wilson[b.ft][b.fp].lo > Wilson[a.ft][a.fp].hi THEN -1
  ELSE 0

(* less: the first key that differs decides.  The last stands for latency  *)
(* and the alphabet.                                                       *)
Less(s, t) ==
  LET a == acc[s]  b == acc[t]
      keys == << (IF a.bt > 0 THEN 1 ELSE 0) - (IF b.bt > 0 THEN 1 ELSE 0),
                 CmpRate(a, b),
                 WilsonLo(a) - WilsonLo(b),
                 Registry[s].det - Registry[t].det,
                 CmpFragile(a, b),
                 Registry[s].margin - Registry[t].margin,
                 Registry[t].segs - Registry[s].segs,
                 Registry[t].lex - Registry[s].lex >>
  IN \E i \in DOMAIN keys : keys[i] > 0 /\ \A j \in 1..i - 1 : keys[j] = 0

(* The stable sort of what was tried, in the order it was first seen: each *)
(* goes in after the last that is not behind it.                           *)
Ranking ==
  LET insert == [sorted \in Seq(DOMAIN Registry) |-> [x \in DOMAIN Registry |->
        InsertAt(sorted, SelectLastInSeq(sorted, LAMBDA y : ~Less(x, y)) + 1, x)]]
  IN Folded(insert, <<>>, Kept(cands, {s \in DOMAIN Registry : acc[s] # NoScore}))

Bypassed(s) == s # "plain" /\ acc[s].bt > 0 /\ acc[s].bp > 0

Winner(ranked) ==
  LET w == SelectInSeq(ranked, Bypassed) IN IF w = 0 THEN None ELSE ranked[w]

(* LadderFrom: plain, then the best of each mechanism.                     *)
LadderDepth == 4
LadderFrom(ranked) ==
  LET extend == [ladder \in Seq(DOMAIN Registry) |-> [s \in DOMAIN Registry |->
        IF /\ Len(ladder) < LadderDepth /\ Bypassed(s)
           /\ \A i \in DOMAIN ladder : Registry[ladder[i]].family # Registry[s].family
        THEN Append(ladder, s) ELSE ladder]]
  IN Folded(extend, <<"plain">>, ranked)

(* apply hands over the reps asked for and never counts its noise.         *)
Confidence(best) ==
  LET a == acc[best]
      noisy(per) == job.cmd = "tune" /\ 100 * rounds.discarded >= per * rounds.attempted
                    /\ rounds.attempted > 0
      reps == IF job.cmd = "tune" THEN Reps ELSE job.reps
  IN IF noisy(20) THEN "low"
     ELSE IF /\ Len(blocked) >= ConfidentTargets /\ reps >= ConfidentReps
             /\ a.bp = a.bt /\ a.bt >= Len(blocked) * ConfidentReps
             /\ a.cp = a.ct /\ ~noisy(5)
     THEN "high" ELSE "medium"

(* The sweep, whole, cut short or interrupted, is ranked; only one without *)
(* an error is written.                                                    *)
Rank ==
  /\ at = "rank"
  /\ LET concluded[ranked \in Seq(DOMAIN Registry)] ==
           [report EXCEPT !.ranked = ranked, !.winner = Winner(ranked),
              !.ladder = IF job.cmd = "tune" THEN LadderFrom(ranked) ELSE job.specs,
              !.confidence = IF Winner(ranked) = None THEN "low" ELSE Confidence(Winner(ranked))]
     IN report' = concluded[Ranking]
  /\ at' = IF report.end = "interrupted" THEN "done" ELSE "decide"
  /\ UNCHANGED <<job, retried, limit, disk>>
  /\ UNCHANGED noise /\ UNCHANGED baseline /\ UNCHANGED sweep

-----------------------------------------------------------------------------
(* What is written: tune writes what it found, found or not; apply writes  *)
(* the strategy that was asked for, verified or forced.                    *)
Asked == job.specs[2]
Verified == report.winner = Asked
Decide ==
  /\ at = "decide"
  /\ IF job.cmd = "apply" /\ ~Verified /\ ~job.force
     THEN Stop("not verified")
     ELSE /\ at' = "save"
          /\ report' = [report EXCEPT
               !.confidence = IF job.cmd = "apply" /\ ~Verified THEN "low" ELSE @]
  /\ UNCHANGED <<job, retried, limit, disk>>
  /\ UNCHANGED noise /\ UNCHANGED baseline /\ UNCHANGED sweep

Tuned == [strategy |-> report.winner, ladder |-> report.ladder, confidence |-> report.confidence]
Applied == [Tuned EXCEPT !.strategy = Asked]
Profile == IF job.cmd = "tune" THEN Tuned ELSE Applied

\* (mutant of CreateTemp: the profile itself is opened and truncated)
CreateInPlace ==
  /\ at = "save" /\ at' = "write" /\ disk' = [disk EXCEPT !.temp = "torn", !.profile = Torn]
  /\ UNCHANGED <<job, retried, limit, report>>
  /\ UNCHANGED noise /\ UNCHANGED baseline /\ UNCHANGED sweep
(* Save: a temporary file is made, written and synced, then renamed over   *)
(* the profile; on an error it is removed.                                 *)
CreateTemp ==
  /\ at = "save" /\ at' = "write" /\ disk' = [disk EXCEPT !.temp = "torn"]
  /\ UNCHANGED <<job, retried, limit, report>>
  /\ UNCHANGED noise /\ UNCHANGED baseline /\ UNCHANGED sweep

WriteTemp ==
  /\ at = "write"
  /\ \/ /\ disk' = [disk EXCEPT !.temp = "whole"]
        /\ at' = "rename" /\ UNCHANGED report
     \/ /\ May("diskfull")
        /\ disk' = [disk EXCEPT !.temp = None] /\ Stop("save failed")
  /\ UNCHANGED <<job, retried, limit>>
  /\ UNCHANGED noise /\ UNCHANGED baseline /\ UNCHANGED sweep

Rename ==
  /\ at = "rename"
  /\ disk.temp = "whole" /\ disk' = [profile |-> Profile, temp |-> None]
  /\ Stop("written")
  /\ UNCHANGED <<job, retried, limit>>
  /\ UNCHANGED noise /\ UNCHANGED baseline /\ UNCHANGED sweep

(* The process dies inside the save.                                       *)
Crash ==
  /\ May("crash") /\ at \in {"save", "write", "rename"}
  /\ Stop("crashed")
  /\ UNCHANGED <<job, retried, limit, disk>>
  /\ UNCHANGED noise /\ UNCHANGED baseline /\ UNCHANGED sweep

Done == at = "done" /\ UNCHANGED tuneVars

-----------------------------------------------------------------------------
Work == \/ Preflight \/ Baseline \/ BaselineEnds \/ Classify
        \/ NextCandidate \/ Trial \/ RoundEnds \/ SweepEnds \/ Rank
        \/ Decide \/ CreateTemp \/ WriteTemp \/ Rename
TuneNext == Work \/ Weather \/ Interrupt \/ Crash \/ Done

TuneSpec == TuneInit /\ [][TuneNext]_tuneVars

-----------------------------------------------------------------------------
(* A strategy `dpb tune` or a verifying `dpb apply` records as working     *)
(* does beat the censor, unless two attempts of the same host were lost:   *)
(* one lost attempt never makes a host blocked, nor a strategy a winner.   *)
NoInventedWinner ==
  report.winner # None /\ job.loss <= 1 => Registry[report.winner].works

(* The line reaches every control.                                         *)
ControlsReached == \A i \in Range(Controls) : RunTrial("plain", T(i), FALSE) = "pass"

(* A strategy that breaks ordinary sites does not erase its own evidence:  *)
(* with controls that the line reaches and a sweep that nobody interrupts, *)
(* its broken ones are counted against it when the line stayed up, and one *)
(* that breaks none and works is preferred to it.                          *)
HarmIsSeen ==
  /\ report.end = "written" /\ job.loss = 0 /\ ~May("budget") /\ ~cancelled
  /\ Controls # <<>> /\ ControlsReached
  => \A s \in {x \in Range(cands) : Registry[x].builds /\ "control" \in Registry[x].breaks} :
       /\ outages = job.outages => acc[s].ct > 0 /\ acc[s].cp = 0
       /\ report.winner = s =>
            \A x \in Range(cands) : Bypassed(x) => "control" \in Registry[x].breaks

(* An outage of the line is nobody's failure: where there is a control and *)
(* no attempt is lost alone, a strategy that works has no failure scored   *)
(* against it and is not eliminated.  Not so once the user interrupts: a   *)
(* handshake that Ctrl-C cuts off is scored as a reset if the plain probe  *)
(* of its round was over by then (trial.go:343, against 59-61).            *)
WeatherIsNotBlame ==
  job.loss = 0 /\ Controls # <<>> /\ ~cancelled => \A s \in DOMAIN Registry :
    Registry[s].works /\ Registry[s].builds => acc[s].bp = acc[s].bt /\ s \notin elim

(* Whenever the process dies, the profile is the old one or the whole new  *)
(* one.                                                                    *)
ProfileIsWhole == disk.profile \in {OldProfile, Profile}

=============================================================================
