-------------------------- MODULE LifecycleProofs --------------------------
(***************************************************************************)
(* Proofs about Lifecycle for every set of runs: whatever their flags,     *)
(* whatever routes were there before them, whatever macOS flushes, and     *)
(* whatever fails, dies, is asked or is signalled, at any step.            *)
(*                                                                         *)
(* The theorems are about a run of which not both a `dpb panic` and a      *)
(* re-apply are asked (NotBoth).  The condition is needed: a re-apply      *)
(* after the panic's revert puts settings back which revertOnce, used up,  *)
(* no longer reverts, and TLC finds ExitIsClean violated.                  *)
(***************************************************************************)
EXTENDS Lifecycle, SequenceTheorems, TLAPS

NotBoth == ~("panic" \in job.may /\ "reapply" \in job.may)

-----------------------------------------------------------------------------
(* The inductive invariant.                                                *)

\* The steps of the teardown, from the bottom of the stack up.
Floor2 == {"lock", "journal"}
Floor3 == Floor2 \cup {"janitor"}
Floor4 == Floor3 \cup {"store"}
Floor5 == Floor4 \cup {"listeners"}
Floor6 == Floor5 \cup {"settings"}
Floor7 == Floor6 \cup {"tunnel"}
Floor8 == Floor7 \cup {"watcher"}
Steps  == Floor8 \cup {"control"}

\* What may lie under a step.
Under(x) ==
  CASE x = "lock" -> {}             [] x = "journal" -> {"lock"}
    [] x = "janitor" -> Floor2      [] x = "store" -> Floor3
    [] x = "listeners" -> Floor4    [] x = "settings" -> Floor5
    [] x = "tunnel" -> Floor6       [] x = "watcher" -> Floor7
    [] OTHER -> Floor8

Stacked(s) == \A i, j \in DOMAIN s : i < j => s[i] \in Under(s[j])

On == ToSet(stack)

\* What the Manager's list and an UndoAll's remainder name; what is begun.
Rec      == [op : Ops, adopted : BOOLEAN]
OpsOf(s) == {s[i].op : i \in DOMAIN s}
Touched  == OpsOf(done) \cup OpsOf(undoing) \cup ({doing} \ {"none"})
Recorded == Ours(done) \cup Ours(undoing)
Captures == Touched \cap CaptureOps # {}

Places == {"start", "janitor", "bind", "build", "listen", "settings", "apply", "tun",
           "serving", "drain", "untun", "unset", "gone"}
PlanOps == Ops \cup {"start", "gate"}

Typed ==
  /\ job \in JobType /\ pc \in Places
  /\ todo \in Seq(PlanOps) /\ again \in Seq(ProxyOps)
  /\ stack \in Seq(Steps) /\ up \subseteq Resources
  /\ force \subseteq Ops /\ owed \subseteq Ops
  /\ done \in Seq(Rec) /\ undoing \in Seq(Rec)
  /\ holder \in Actors \cup {"nobody"} /\ doing \in Ops \cup {"none"}
  /\ once \in {"fresh", "running", "used"}
  /\ failed \in BOOLEAN
  /\ asked \in [{"panic", "reapply"} -> {"idle", "running", "replied"}]

\* How high the stack may be where the main goroutine is.
Ceiling ==
  /\ pc = "start" => On = {}
  /\ pc = "janitor" => On \subseteq Floor2
  /\ pc \in {"bind", "build"} => On \subseteq Floor3
  /\ pc = "listen" => On \subseteq Floor4
  /\ pc = "settings" => On \subseteq Floor5
  /\ pc \in {"apply", "unset"} => On \subseteq Floor6
  /\ pc \in {"tun", "untun"} => On \subseteq Floor7

\* What a place needs, and what a step of the stack needs, lies under it.
Footing ==
  /\ pc \in {"janitor", "bind", "build", "listen", "settings", "apply", "tun", "serving"}
       \/ ~(On \subseteq Floor2) => "lock" \in On /\ "journal" \in On
  /\ pc \in {"bind", "build", "listen", "settings", "apply", "tun", "serving"}
       \/ ~(On \subseteq Floor3) =>
          "janitor" \in On \/ ~WillMutate(job) \/ "nospawn" \in job.may
  /\ pc \in {"settings", "apply", "tun", "serving"} \/ ~(On \subseteq Floor5)
       => "listeners" \in On
  /\ pc \in {"apply", "tun", "serving"} \/ ~(On \subseteq Floor6)
       => (ChangesSettings(job) => "settings" \in On)
  /\ "settings" \in On => ChangesSettings(job)
  /\ "tunnel" \in On => job.tun
  /\ pc \in {"tun", "untun"} => "tunnel" \in On
  /\ pc = "unset" => "settings" \in On

Requests ==
  /\ pc \in {"start", "janitor", "bind", "build", "listen", "settings"} => todo = <<>>
  /\ pc = "apply" => todo = <<>> \/ ChangesSettings(job)
  /\ \A r \in {"panic", "reapply"} :
        asked[r] = "running" => "control" \in On /\ r \in job.may
  /\ asked["reapply"] = "running" => ChangesSettings(job)

StackOK == Stacked(stack) /\ Ceiling /\ Footing /\ Requests

\* What is up has its step, and what a step closes is up.
UpOK ==
  /\ \A r \in up : \/ r \in On
                   \/ r \in {"device", "datapath"} /\ "tunnel" \in On
                   \/ r = "listeners" /\ pc \in {"build", "listen"}
  /\ "lock" \in On => "lock" \in up
  /\ "journal" \in On => "journal" \in up
  /\ "janitor" \in On => "janitor" \in up
  /\ "listeners" \in On \/ pc \in {"build", "listen"} => "listeners" \in up \/ failed
  /\ "tunnel" \in On /\ ~job.dry => "device" \in up

\* One goroutine in the Manager, and nothing of this run without a record.
ManagerOK ==
  /\ force \subseteq Recorded \cup owed
  /\ Touched # {} => ~job.dry /\ ("settings" \in On \/ "tunnel" \in On)
  /\ holder = "nobody" => doing = "none" /\ undoing = <<>>
  /\ holder = "main" =>
       \/ pc \in {"apply", "tun"} /\ doing # "none" /\ undoing = <<>>
       \/ pc \in {"untun", "unset"} /\ doing = "none" /\ done = <<>>
  /\ pc \in {"untun", "unset"} => holder = "main"
  /\ holder = "panic" => doing = "none" /\ done = <<>> /\ asked["panic"] = "running"
                         /\ once = "running"
  /\ holder = "reapply" => doing # "none" /\ undoing = <<>> /\ asked["reapply"] = "running"
  /\ once = "running" => holder = "panic" \/ pc = "unset"
  /\ pc = "unset" => once = "running"
  /\ once # "fresh" => /\ pc \in {"serving", "drain", "untun", "unset"}
                       /\ "panic" \in job.may \/ "control" \notin On
                       /\ ChangesSettings(job)
  /\ once = "used" => Touched = {}

\* The captures come after the escape route and the datapath: in the plan,
\* in the Manager's lists, and on the machine.
Precede(s) ==
  \A i, j \in DOMAIN s : s[i] \in CaptureOps /\ s[j] \in {"scope4", "start"} => j < i
CapturesLast(s) ==
  \A i, j \in DOMAIN s : s[i].op \in CaptureOps /\ s[j].op = "scope4" => j < i

Escape == force \cup job.flushes \cup job.present

TunnelOK ==
  /\ Touched \subseteq ProxyOps \/ "tunnel" \in On
  /\ pc = "apply" => ToSet(todo) \subseteq ProxyOps
  /\ pc = "apply" => doing \in ProxyOps \cup {"none"}
  /\ holder = "reapply" => doing \in ProxyOps
  /\ CapturesLast(done) /\ CapturesLast(undoing)
  /\ Captures => /\ "datapath" \in up \/ failed
                 /\ "scope4" \in Escape
                 /\ doing # "scope4"
  /\ pc = "tun" =>
       /\ Precede(todo)
       /\ Captures => "scope4" \notin ToSet(todo) /\ "start" \notin ToSet(todo)
       /\ "start" \in ToSet(todo) \/ "datapath" \in up \/ failed \/ job.dry
       /\ "scope4" \in ToSet(todo) \/ doing = "scope4" \/ job.dry \/ "scope4" \in Escape

Live == Typed /\ StackOK /\ UpOK /\ ManagerOK /\ TunnelOK

IInv ==
  /\ Typed /\ exit \in {"none", "returned", "killed"}
  /\ exit = "none" <=> pc # "gone"
  /\ exit = "none" => Live
  /\ exit = "returned" => force \subseteq owed /\ up = {} /\ done = <<>>

-----------------------------------------------------------------------------
(* Sequences, as the model uses them.                                      *)

\* The empty sequence has no element.
LEMMA EmptyHasNone == ToSet(<<>>) = {}
  BY DEF ToSet

\* The elements of a sequence are those at 1..Len.
LEMMA SetByIndex ==
  ASSUME NEW S, NEW s \in Seq(S)
  PROVE  ToSet(s) = {s[i] : i \in 1..Len(s)}
  BY LenProperties DEF ToSet

\* The elements of a concatenation are those of its parts.
LEMMA JoinSet ==
  ASSUME NEW S, NEW s \in Seq(S), NEW t \in Seq(S)
  PROVE  s \o t \in Seq(S) /\ ToSet(s \o t) = ToSet(s) \cup ToSet(t)
<1>1. /\ s \o t \in Seq(S) /\ Len(s) \in Nat /\ Len(t) \in Nat
      /\ Len(s \o t) = Len(s) + Len(t)
      /\ \A i \in 1..(Len(s) + Len(t)) :
            (s \o t)[i] = IF i <= Len(s) THEN s[i] ELSE t[i - Len(s)]
  BY ConcatProperties, LenProperties
<1>2. /\ ToSet(s) = {s[i] : i \in 1..Len(s)} /\ ToSet(t) = {t[i] : i \in 1..Len(t)}
      /\ ToSet(s \o t) = {(s \o t)[i] : i \in 1..(Len(s) + Len(t))}
  BY <1>1, SetByIndex
<1>3. ASSUME NEW i \in 1..Len(s) PROVE i \in 1..(Len(s) + Len(t)) /\ (s \o t)[i] = s[i]
  BY <1>1
<1>4. ASSUME NEW i \in 1..Len(t)
      PROVE  Len(s) + i \in 1..(Len(s) + Len(t)) /\ (s \o t)[Len(s) + i] = t[i]
  BY <1>1
<1>5. ASSUME NEW i \in 1..(Len(s) + Len(t)), ~(i <= Len(s))
      PROVE  i - Len(s) \in 1..Len(t)
  BY <1>1, <1>5
<1>6. ToSet(s) \cup ToSet(t) \subseteq ToSet(s \o t)
  BY <1>2, <1>3, <1>4
<1>7. ToSet(s \o t) \subseteq ToSet(s) \cup ToSet(t)
  BY <1>1, <1>2, <1>5
<1> QED BY <1>1, <1>6, <1>7

\* Append adds one element at the end.
LEMMA AppendSet ==
  ASSUME NEW S, NEW s \in Seq(S), NEW x \in S
  PROVE  ToSet(Append(s, x)) = ToSet(s) \cup {x}
<1>1. /\ Append(s, x) \in Seq(S) /\ Len(s) \in Nat
      /\ Len(Append(s, x)) = Len(s) + 1
      /\ \A i \in 1..Len(s) : Append(s, x)[i] = s[i]
      /\ Append(s, x)[Len(s) + 1] = x
  BY AppendProperties, LenProperties
<1>2. /\ ToSet(s) = {s[i] : i \in 1..Len(s)}
      /\ ToSet(Append(s, x)) = {Append(s, x)[i] : i \in 1..(Len(s) + 1)}
  BY <1>1, SetByIndex
<1>3. 1..(Len(s) + 1) = 1..Len(s) \cup {Len(s) + 1}
  BY <1>1
<1> QED BY <1>1, <1>2, <1>3

\* Front drops the last element, and keeps the others where they are.
LEMMA FrontKeeps ==
  ASSUME NEW S, NEW s \in Seq(S), s # <<>>
  PROVE  /\ Front(s) \in Seq(S) /\ Len(Front(s)) = Len(s) - 1
         /\ Len(s) \in Nat \ {0}
         /\ \A i \in 1..(Len(s) - 1) : Front(s)[i] = s[i]
         /\ Last(s) = s[Len(s)] /\ Last(s) \in S
<1>1. Len(s) \in Nat \ {0}
  BY EmptySeq
<1>2. Last(s) = s[Len(s)]
  BY DEF Last
<1>3. \A i \in 1..Len(s) : s[i] \in S
  BY ElementOfSeq
<1>4. Front(s) = SubSeq(s, 1, Len(s) - 1)
  BY DEF Front
<1>5. Len(s) - 1 \in Int /\ (\A i \in 1..(Len(s) - 1) : s[i] \in S) /\ s[Len(s)] \in S
  BY <1>1, <1>3
<1>6. /\ SubSeq(s, 1, Len(s) - 1) \in Seq(S)
      /\ Len(SubSeq(s, 1, Len(s) - 1)) = IF 1 <= Len(s) - 1 THEN (Len(s) - 1) - 1 + 1 ELSE 0
      /\ \A i \in 1..((Len(s) - 1) - 1 + 1) : SubSeq(s, 1, Len(s) - 1)[i] = s[1 + i - 1]
  BY <1>5, SubSeqProperties
<1>7. Front(s) \in Seq(S) /\ Len(Front(s)) = Len(s) - 1
  <2>1. CASE 1 <= Len(s) - 1
    <3>1. Len(SubSeq(s, 1, Len(s) - 1)) = (Len(s) - 1) - 1 + 1
      BY <1>6, <2>1, Zenon
    <3>2. (Len(s) - 1) - 1 + 1 = Len(s) - 1
      BY <1>1
    <3> QED BY <1>4, <1>6, <3>1, <3>2, Zenon
  <2>2. CASE ~(1 <= Len(s) - 1)
    <3>1. Len(SubSeq(s, 1, Len(s) - 1)) = 0
      BY <1>6, <2>2, Zenon
    <3>2. Len(s) - 1 = 0
      <4>1. \A n \in Nat \ {0} : ~(1 <= n - 1) => n - 1 = 0
        OBVIOUS
      <4> QED BY ONLY <1>1, <2>2, <4>1, Zenon
    <3> QED BY <1>4, <1>6, <3>1, <3>2, Zenon
  <2> QED BY <2>1, <2>2
<1>8. ASSUME NEW i \in 1..(Len(s) - 1) PROVE Front(s)[i] = s[i]
  <2>1. i \in 1..((Len(s) - 1) - 1 + 1) /\ 1 + i - 1 = i
    BY <1>1
  <2>2. SubSeq(s, 1, Len(s) - 1)[i] = s[1 + i - 1]
    BY <1>6, <2>1
  <2> QED BY <1>4, <2>1, <2>2
<1> QED BY <1>1, <1>2, <1>5, <1>7, <1>8

\* The elements of a sequence are those of its front and the last.
LEMMA FrontSet ==
  ASSUME NEW S, NEW s \in Seq(S), s # <<>>
  PROVE  ToSet(s) = ToSet(Front(s)) \cup {Last(s)}
<1>1. /\ Front(s) \in Seq(S) /\ Len(Front(s)) = Len(s) - 1 /\ Len(s) \in Nat \ {0}
      /\ \A i \in 1..(Len(s) - 1) : Front(s)[i] = s[i]
      /\ Last(s) = s[Len(s)]
  BY FrontKeeps
<1>2. /\ ToSet(s) = {s[i] : i \in 1..Len(s)}
      /\ ToSet(Front(s)) = {Front(s)[i] : i \in 1..(Len(s) - 1)}
  BY <1>1, SetByIndex
<1>3. 1..Len(s) = 1..(Len(s) - 1) \cup {Len(s)}
  BY <1>1
<1> QED BY <1>1, <1>2, <1>3

\* The elements of a sequence are its head and those of the tail.
LEMMA TailSet ==
  ASSUME NEW S, NEW s \in Seq(S), s # <<>>
  PROVE  /\ Head(s) \in S /\ Tail(s) \in Seq(S)
         /\ Head(s) = s[1] /\ Len(s) \in Nat \ {0} /\ Len(Tail(s)) = Len(s) - 1
         /\ \A i \in 1..(Len(s) - 1) : Tail(s)[i] = s[i + 1]
         /\ ToSet(s) = ToSet(Tail(s)) \cup {Head(s)}
<1>1. /\ Len(s) \in Nat \ {0} /\ Len(Tail(s)) = Len(s) - 1 /\ Tail(s) \in Seq(S)
      /\ Head(s) \in S /\ \A i \in 1..Len(Tail(s)) : Tail(s)[i] = s[i + 1]
  BY HeadTailProperties, EmptySeq
<1>2. Head(s) = s[1]
  OBVIOUS
<1>3. /\ ToSet(s) = {s[i] : i \in 1..Len(s)}
      /\ ToSet(Tail(s)) = {Tail(s)[i] : i \in 1..(Len(s) - 1)}
  BY <1>1, SetByIndex
<1>4. ASSUME NEW i \in 1..Len(s), i # 1
      PROVE  i - 1 \in 1..(Len(s) - 1) /\ Tail(s)[i - 1] = s[i]
  <2>1. i - 1 \in 1..(Len(s) - 1) /\ (i - 1) + 1 = i
    BY <1>1, <1>4
  <2> QED BY <1>1, <2>1
<1>5. ASSUME NEW i \in 1..(Len(s) - 1) PROVE i + 1 \in 1..Len(s) /\ Tail(s)[i] = s[i + 1]
  BY <1>1
<1>6. 1 \in 1..Len(s)
  BY <1>1
<1>7. ToSet(s) \subseteq ToSet(Tail(s)) \cup {Head(s)}
  BY <1>2, <1>3, <1>4
<1>8. ToSet(Tail(s)) \cup {Head(s)} \subseteq ToSet(s)
  BY <1>2, <1>3, <1>5, <1>6
<1> QED BY <1>1, <1>2, <1>5, <1>7, <1>8

-----------------------------------------------------------------------------
(* The stack.                                                              *)

\* No step lies under itself.
LEMMA NotUnderItself == \A x \in Steps : x \notin Under(x)
  BY DEF Steps, Floor8, Floor7, Floor6, Floor5, Floor4, Floor3, Floor2, Under

\* A step pushed on what may lie under it keeps the stack in order.
LEMMA PushStacked ==
  ASSUME NEW s \in Seq(Steps), NEW x \in Steps, Stacked(s), ToSet(s) \subseteq Under(x)
  PROVE  /\ Append(s, x) \in Seq(Steps) /\ Stacked(Append(s, x))
         /\ ToSet(Append(s, x)) = ToSet(s) \cup {x}
<1> DEFINE n == Len(s)
           a == Append(s, x)
<1>1. /\ a \in Seq(Steps) /\ n \in Nat /\ Len(a) = n + 1 /\ DOMAIN a = 1..(n + 1)
      /\ DOMAIN s = 1..n /\ (\A i \in 1..n : a[i] = s[i]) /\ a[n + 1] = x
  BY AppendProperties, LenProperties
<1>2. ToSet(a) = ToSet(s) \cup {x}
  BY AppendSet
<1>3. \A i \in 1..n : s[i] \in Under(x)
  BY SetByIndex
<1> HIDE DEF n, a
<1>4. ASSUME NEW i \in DOMAIN a, NEW j \in DOMAIN a, i < j PROVE a[i] \in Under(a[j])
  <2>1. i \in 1..n
    BY <1>1, <1>4
  <2>2. CASE j \in 1..n
    BY <1>1, <1>4, <2>1, <2>2 DEF Stacked
  <2>3. CASE j = n + 1
    BY <1>1, <1>3, <2>1, <2>3
  <2> QED BY <1>1, <1>4, <2>2, <2>3
<1>5. Stacked(a)
  BY <1>4 DEF Stacked
<1> QED BY <1>1, <1>2, <1>5 DEF a

\* The top of the stack popped, what is left is what may lie under it.
LEMMA PopStacked ==
  ASSUME NEW s \in Seq(Steps), s # <<>>, Stacked(s)
  PROVE  /\ Front(s) \in Seq(Steps) /\ Stacked(Front(s))
         /\ Last(s) \in ToSet(s) /\ Last(s) \in Steps
         /\ ToSet(Front(s)) = ToSet(s) \ {Last(s)}
         /\ ToSet(Front(s)) \subseteq Under(Last(s))
<1> DEFINE n == Len(s)
           f == Front(s)
           x == Last(s)
<1>1. /\ f \in Seq(Steps) /\ Len(f) = n - 1 /\ n \in Nat \ {0}
      /\ (\A i \in 1..(n - 1) : f[i] = s[i]) /\ x = s[n] /\ x \in Steps
  BY FrontKeeps
<1>2. ToSet(s) = ToSet(f) \cup {x}
  BY FrontSet
<1>3. DOMAIN s = 1..n /\ DOMAIN f = 1..(n - 1) /\ ToSet(f) = {f[i] : i \in 1..(n - 1)}
  BY <1>1, LenProperties, SetByIndex
<1> HIDE DEF n, f, x
<1>4. Stacked(f)
  BY <1>1, <1>3 DEF Stacked
<1>5. ASSUME NEW i \in 1..(n - 1) PROVE f[i] \in Under(x)
  <2>1. i \in 1..n /\ n \in 1..n /\ i < n
    BY <1>1
  <2>2. s[i] \in Under(s[n])
    BY <1>3, <2>1 DEF Stacked
  <2> QED BY <1>1, <2>2
<1>6. ToSet(f) \subseteq Under(x)
  BY <1>3, <1>5
<1>7. x \notin ToSet(f)
  BY <1>1, <1>6, NotUnderItself
<1> QED BY <1>1, <1>2, <1>4, <1>6, <1>7 DEF f, x

-----------------------------------------------------------------------------
(* The Manager's lists.                                                    *)

\* An empty list names nothing.
LEMMA EmptyNames == OpsOf(<<>>) = {} /\ Ours(<<>>) = {} /\ CapturesLast(<<>>)
  BY DEF OpsOf, Ours, CapturesLast

\* A list that names nothing is empty.
LEMMA NamesNothing == ASSUME NEW s \in Seq(Rec), OpsOf(s) = {} PROVE s = <<>>
<1>1. ASSUME s # <<>> PROVE FALSE
  <2>1. Len(s) \in Nat \ {0} /\ DOMAIN s = 1..Len(s)
    BY <1>1, EmptySeq, LenProperties
  <2>2. 1 \in DOMAIN s
    BY <2>1
  <2> QED BY <2>2 DEF OpsOf
<1> QED BY <1>1

\* What is ours is named; what is named is an Op.
LEMMA OursIsNamed ==
  ASSUME NEW s \in Seq(Rec) PROVE Ours(s) \subseteq OpsOf(s) /\ OpsOf(s) \subseteq Ops
<1>1. DOMAIN s = 1..Len(s) /\ \A i \in 1..Len(s) : s[i] \in Rec
  BY LenProperties, ElementOfSeq
<1> QED BY <1>1 DEF Ours, OpsOf, Rec

\* A record at the end of a list adds its Op; a captured route may come
\* after the escape route and not before it.
LEMMA AppendNames ==
  ASSUME NEW s \in Seq(Rec), NEW o \in Ops, NEW b \in BOOLEAN
  PROVE  LET a == Append(s, [op |-> o, adopted |-> b]) IN
         /\ a \in Seq(Rec)
         /\ OpsOf(a) = OpsOf(s) \cup {o}
         /\ Ours(a) = Ours(s) \cup (IF b THEN {} ELSE {o})
         /\ CapturesLast(s) /\ (o = "scope4" => OpsOf(s) \cap CaptureOps = {})
              => CapturesLast(a)
<1> DEFINE r == [op |-> o, adopted |-> b]
           a == Append(s, r)
           n == Len(s)
<1>1. r \in Rec /\ r.op = o /\ r.adopted = b
  BY DEF Rec
<1> HIDE DEF r
<1>2. /\ a \in Seq(Rec) /\ n \in Nat /\ DOMAIN s = 1..n /\ DOMAIN a = 1..(n + 1)
      /\ (\A i \in 1..n : a[i] = s[i]) /\ a[n + 1] = r
  BY <1>1, AppendProperties, LenProperties
<1> HIDE DEF a, n
<1>3. 1..(n + 1) = 1..n \cup {n + 1}
  BY <1>2
<1>4. OpsOf(a) = OpsOf(s) \cup {o}
  BY <1>1, <1>2, <1>3 DEF OpsOf
<1>5. Ours(a) = Ours(s) \cup (IF b THEN {} ELSE {o})
  <2>1. CASE b
    <3>1. {k \in DOMAIN a : ~a[k].adopted} = {k \in DOMAIN s : ~s[k].adopted}
      BY <1>1, <1>2, <1>3, <2>1
    <3>2. \A i \in {k \in DOMAIN s : ~s[k].adopted} : a[i].op = s[i].op
      BY <1>2
    <3> QED BY <2>1, <3>1, <3>2 DEF Ours
  <2>2. CASE ~b
    <3>1. {k \in DOMAIN a : ~a[k].adopted} = {k \in DOMAIN s : ~s[k].adopted} \cup {n + 1}
      BY <1>1, <1>2, <1>3, <2>2
    <3>2. \A i \in {k \in DOMAIN s : ~s[k].adopted} : a[i].op = s[i].op
      BY <1>2
    <3> QED BY <1>1, <1>2, <2>2, <3>1, <3>2 DEF Ours
  <2> QED BY <2>1, <2>2
<1>6. ASSUME CapturesLast(s), o = "scope4" => OpsOf(s) \cap CaptureOps = {}
      PROVE  CapturesLast(a)
  <2>1. ASSUME NEW i \in 1..(n + 1), NEW j \in 1..(n + 1),
               a[i].op \in CaptureOps, a[j].op = "scope4"
        PROVE  j < i
    <3>1. CASE j = n + 1
      <4>1. o = "scope4" /\ "scope4" \notin CaptureOps
        BY <1>1, <1>2, <2>1, <3>1 DEF CaptureOps, Capture6
      <4>2. i \in 1..n /\ a[i].op \in OpsOf(s)
        BY <1>1, <1>2, <1>3, <2>1, <4>1 DEF OpsOf
      <4> QED BY <1>6, <2>1, <4>1, <4>2
    <3>2. CASE j \in 1..n /\ i = n + 1
      BY <1>2, <3>2
    <3>3. CASE j \in 1..n /\ i \in 1..n
      BY <1>2, <1>6, <2>1, <3>3 DEF CapturesLast
    <3> QED BY <1>3, <2>1, <3>1, <3>2, <3>3
  <2> QED BY <1>2, <2>1 DEF CapturesLast
<1>7. a \in Seq(Rec)
  BY <1>2
<1> QED BY <1>4, <1>5, <1>6, <1>7 DEF a, r

\* A list without its last record; an escape route that comes last has no
\* capture before it.
LEMMA FrontNames ==
  ASSUME NEW s \in Seq(Rec), s # <<>>
  PROVE  LET f == Front(s)  r == Last(s) IN
         /\ f \in Seq(Rec) /\ r \in Rec
         /\ OpsOf(s) = OpsOf(f) \cup {r.op}
         /\ Ours(s) = Ours(f) \cup (IF r.adopted THEN {} ELSE {r.op})
         /\ CapturesLast(s) =>
              CapturesLast(f) /\ (r.op = "scope4" => OpsOf(f) \cap CaptureOps = {})
<1> DEFINE f == Front(s)
           r == Last(s)
           n == Len(s)
<1>1. /\ f \in Seq(Rec) /\ Len(f) = n - 1 /\ n \in Nat \ {0} /\ r \in Rec
      /\ (\A i \in 1..(n - 1) : f[i] = s[i]) /\ s[n] = r
  BY FrontKeeps
<1>2. DOMAIN s = 1..n /\ DOMAIN f = 1..(n - 1)
  BY <1>1, LenProperties
<1> HIDE DEF f, r, n
<1>3. 1..n = 1..(n - 1) \cup {n}
  BY <1>1
<1>4. OpsOf(s) = OpsOf(f) \cup {r.op}
  BY <1>1, <1>2, <1>3 DEF OpsOf
<1>5. Ours(s) = Ours(f) \cup (IF r.adopted THEN {} ELSE {r.op})
  <2>1. CASE r.adopted
    <3>1. {k \in DOMAIN s : ~s[k].adopted} = {k \in DOMAIN f : ~f[k].adopted}
      BY <1>1, <1>2, <1>3, <2>1
    <3>2. \A i \in {k \in DOMAIN f : ~f[k].adopted} : f[i].op = s[i].op
      BY <1>1, <1>2
    <3> QED BY <2>1, <3>1, <3>2 DEF Ours
  <2>2. CASE ~r.adopted
    <3>1. {k \in DOMAIN s : ~s[k].adopted} = {k \in DOMAIN f : ~f[k].adopted} \cup {n}
      BY <1>1, <1>2, <1>3, <2>2
    <3>2. \A i \in {k \in DOMAIN f : ~f[k].adopted} : f[i].op = s[i].op
      BY <1>1, <1>2
    <3> QED BY <1>1, <1>2, <2>2, <3>1, <3>2 DEF Ours
  <2> QED BY <2>1, <2>2
<1>6. ASSUME CapturesLast(s) PROVE CapturesLast(f)
  BY <1>1, <1>2, <1>3, <1>6 DEF CapturesLast
<1>7. ASSUME CapturesLast(s), r.op = "scope4" PROVE OpsOf(f) \cap CaptureOps = {}
  <2>1. ASSUME NEW i \in 1..(n - 1), f[i].op \in CaptureOps PROVE FALSE
    <3>1. i \in 1..n /\ n \in 1..n /\ ~(n < i)
      BY <1>1
    <3>2. s[i].op \in CaptureOps /\ s[n].op = "scope4"
      BY <1>1, <1>7, <2>1
    <3> QED BY <1>2, <1>7, <3>1, <3>2 DEF CapturesLast
  <2> QED BY <1>2, <2>1 DEF OpsOf
<1> QED BY <1>1, <1>4, <1>5, <1>6, <1>7 DEF f, r

-----------------------------------------------------------------------------
(* The plans.                                                              *)

\* A section of a plan that a flag leaves out is empty.
LEMMA OptionalSection ==
  ASSUME NEW S, NEW s \in Seq(S), NEW c
  PROVE  If(c, s) \in Seq(S) /\ (If(c, s) = s \/ If(c, s) = <<>>)
  BY EmptySeq DEF If

\* The settings of every style are proxy settings.
LEMMA ProxyPlanTyped == ASSUME NEW j PROVE ProxyPlan(j) \in Seq(ProxyOps)
<1>1. /\ <<"pacfile", "autoproxy">> \in Seq(ProxyOps) /\ <<"webproxy">> \in Seq(ProxyOps)
      /\ <<"launchenv">> \in Seq(ProxyOps)
  BY DEF ProxyOps
<1>2. /\ If("pac" \in j.styles, <<"pacfile", "autoproxy">>) \in Seq(ProxyOps)
      /\ If("explicit" \in j.styles, <<"webproxy">>) \in Seq(ProxyOps)
      /\ If("env" \in j.styles, <<"launchenv">>) \in Seq(ProxyOps)
  BY <1>1, OptionalSection
<1> QED BY <1>2, ConcatProperties DEF ProxyPlan

\* Two plans in order, of which the first captures nothing or the second
\* neither escapes nor starts, are one plan in order.
LEMMA JoinPrecedes ==
  ASSUME NEW s \in Seq(PlanOps), NEW t \in Seq(PlanOps), Precede(s), Precede(t),
         \/ ToSet(s) \cap CaptureOps = {}
         \/ "scope4" \notin ToSet(t) /\ "start" \notin ToSet(t)
  PROVE  /\ s \o t \in Seq(PlanOps) /\ Precede(s \o t)
         /\ ToSet(s \o t) = ToSet(s) \cup ToSet(t)
<1> DEFINE m == Len(s)
           n == Len(t)
           a == s \o t
<1>1. /\ a \in Seq(PlanOps) /\ m \in Nat /\ n \in Nat /\ DOMAIN a = 1..(m + n)
      /\ DOMAIN s = 1..m /\ DOMAIN t = 1..n
      /\ \A i \in 1..(m + n) : a[i] = IF i <= m THEN s[i] ELSE t[i - m]
      /\ ToSet(a) = ToSet(s) \cup ToSet(t)
  BY ConcatProperties, LenProperties, JoinSet
<1>2. /\ ToSet(s) = {s[i] : i \in 1..m} /\ ToSet(t) = {t[i] : i \in 1..n}
  BY SetByIndex
<1> HIDE DEF m, n, a
<1>3. ASSUME NEW i \in 1..(m + n), NEW j \in 1..(m + n),
             a[i] \in CaptureOps, a[j] \in {"scope4", "start"}
      PROVE  j < i
  <2>1. CASE i <= m /\ j <= m
    BY <1>1, <1>3, <2>1 DEF Precede
  <2>2. CASE i <= m /\ ~(j <= m)
    <3>1. a[i] = s[i] /\ i \in 1..m /\ a[j] = t[j - m] /\ j - m \in 1..n
      BY <1>1, <2>2
    <3> QED BY <1>2, <1>3, <3>1
  <2>3. CASE ~(i <= m) /\ j <= m
    BY <1>1, <2>3
  <2>4. CASE ~(i <= m) /\ ~(j <= m)
    <3>1. a[i] = t[i - m] /\ i - m \in 1..n /\ a[j] = t[j - m] /\ j - m \in 1..n
      BY <1>1, <2>4
    <3>2. j - m < i - m
      BY <1>1, <1>3, <3>1 DEF Precede
    <3> QED BY <1>1, <3>2
  <2> QED BY <2>1, <2>2, <2>3, <2>4
<1>4. Precede(a)
  BY <1>1, <1>3 DEF Precede
<1> QED BY <1>1, <1>4 DEF a

\* What is left of a plan in order is in order; at a capture neither the
\* escape route nor the datapath is still to come.
LEMMA TailPrecedes ==
  ASSUME NEW s \in Seq(PlanOps), s # <<>>, Precede(s)
  PROVE  /\ Precede(Tail(s))
         /\ Head(s) \in CaptureOps => "scope4" \notin ToSet(s) /\ "start" \notin ToSet(s)
<1> DEFINE n == Len(s)
           t == Tail(s)
<1>1. /\ Head(s) = s[1] /\ n \in Nat \ {0} /\ t \in Seq(PlanOps) /\ Len(t) = n - 1
      /\ \A i \in 1..(n - 1) : t[i] = s[i + 1]
  BY TailSet
<1>2. DOMAIN s = 1..n /\ DOMAIN t = 1..(n - 1) /\ ToSet(s) = {s[i] : i \in 1..n}
  BY <1>1, LenProperties, SetByIndex
<1> HIDE DEF n, t
<1>3. ASSUME NEW i \in 1..(n - 1), NEW j \in 1..(n - 1),
             t[i] \in CaptureOps, t[j] \in {"scope4", "start"}
      PROVE  j < i
  <2>1. i + 1 \in 1..n /\ j + 1 \in 1..n
    BY <1>1
  <2>2. j + 1 < i + 1
    BY <1>1, <1>2, <1>3, <2>1 DEF Precede
  <2> QED BY <1>1, <2>2
<1>4. ASSUME Head(s) \in CaptureOps, NEW j \in 1..n, s[j] \in {"scope4", "start"} PROVE FALSE
  <2>1. 1 \in 1..n /\ ~(j < 1)
    BY <1>1
  <2> QED BY <1>1, <1>2, <1>4, <2>1 DEF Precede
<1> QED BY <1>2, <1>3, <1>4 DEF Precede, t

\* The plan of the tunnel is in order, and has both.
LEMMA TunPlanInOrder ==
  ASSUME NEW j
  PROVE  /\ TunPlan(j) \in Seq(PlanOps) /\ Precede(TunPlan(j))
         /\ "scope4" \in ToSet(TunPlan(j)) /\ "start" \in ToSet(TunPlan(j))
<1> USE DEF PlanOps, Ops, ProxyOps, DeviceOps, CaptureOps, Capture6
<1> DEFINE s1 == <<"if4">>
           s2 == If(j.v6, <<"if6">>)
           s3 == <<"scope4">>
           s4 == If(j.v6, <<"scope6">>)
           s5 == <<"start", "cap4a", "cap4b">>
           s6 == If(j.v6, <<"cap6a", "cap6b", "gate">>)
           s7 == <<"ns">>
           s8 == If(j.dns, <<"dns">>)
           p4 == s1 \o s2 \o s3 \o s4
<1> DEFINE Good(s) == s \in Seq(PlanOps) /\ Precede(s)
           Late(s) == "scope4" \notin ToSet(s) /\ "start" \notin ToSet(s)
           Early(s) == ToSet(s) \cap CaptureOps = {}
<1>1. Good(s1) /\ Good(s3) /\ Good(s5) /\ Good(s7)
  BY DEF Precede
<1>2. Good(<<"if6">>) /\ Good(<<"scope6">>) /\ Good(<<"cap6a", "cap6b", "gate">>)
        /\ Good(<<"dns">>) /\ Good(<<>>)
  BY DEF Precede
<1>3. Good(s2) /\ Good(s4) /\ Good(s6) /\ Good(s8)
  BY <1>2, Zenon DEF If
<1>4. Early(s1) /\ Early(s3) /\ Early(<<"if6">>) /\ Early(<<"scope6">>) /\ Early(<<>>)
  BY DEF ToSet
<1>5. Late(<<"cap6a", "cap6b", "gate">>) /\ Late(s7) /\ Late(<<"dns">>) /\ Late(<<>>)
  BY DEF ToSet
<1>6. Early(s2) /\ Early(s4) /\ Late(s6) /\ Late(s8)
  BY <1>4, <1>5, Zenon DEF If
<1>7. "scope4" \in ToSet(s3) /\ "start" \in ToSet(s5)
  BY DEF ToSet
<1> HIDE DEF s1, s2, s3, s4, s5, s6, s7, s8, PlanOps, Ops, ProxyOps, DeviceOps, CaptureOps, Capture6
<1>8. Good(s1 \o s2) /\ Early(s1 \o s2)
  BY <1>1, <1>3, <1>4, <1>6, JoinPrecedes
<1>9. Good(s1 \o s2 \o s3) /\ Early(s1 \o s2 \o s3) /\ "scope4" \in ToSet(s1 \o s2 \o s3)
  BY <1>8, <1>1, <1>4, <1>7, JoinPrecedes
<1>10. Good(p4) /\ Early(p4) /\ "scope4" \in ToSet(p4)
  BY <1>9, <1>3, <1>6, JoinPrecedes
<1>11. Good(p4 \o s5) /\ "scope4" \in ToSet(p4 \o s5) /\ "start" \in ToSet(p4 \o s5)
  <2> HIDE DEF p4
  <2> QED BY <1>10, <1>1, <1>7, JoinPrecedes
<1> DEFINE p5 == p4 \o s5
<1> HIDE DEF p4, p5
<1>12. Good(p5 \o s6) /\ "scope4" \in ToSet(p5 \o s6) /\ "start" \in ToSet(p5 \o s6)
  BY <1>11, <1>3, <1>6, JoinPrecedes DEF p5
<1> DEFINE p6 == p5 \o s6
<1> HIDE DEF p6
<1>13. Good(p6 \o s7) /\ "scope4" \in ToSet(p6 \o s7) /\ "start" \in ToSet(p6 \o s7)
  BY <1>12, <1>1, <1>5, JoinPrecedes DEF p6, s7
<1> DEFINE p7 == p6 \o s7
<1> HIDE DEF p7
<1>14. Good(p7 \o s8) /\ "scope4" \in ToSet(p7 \o s8) /\ "start" \in ToSet(p7 \o s8)
  BY <1>13, <1>3, <1>6, JoinPrecedes DEF p7
<1>15. TunPlan(j) = p7 \o s8
  BY DEF TunPlan, p4, p5, p6, p7, s1, s2, s3, s4, s5, s6, s7, s8
<1> QED BY <1>14, <1>15

-----------------------------------------------------------------------------
(* What an operation of the Manager does to what is touched and recorded.  *)

\* Nobody touches: the lists say what they said.
LEMMA Untouched ==
  ASSUME UNCHANGED manager
  PROVE  Touched' = Touched /\ Recorded' = Recorded
  BY DEF manager, Touched, Recorded

\* A Do begins.
LEMMA BeginDoDoes ==
  ASSUME Typed, ManagerOK, NEW who, NEW o \in Ops, BeginDo(who, o), job' = job
  PROVE  /\ holder = "nobody" /\ doing = "none" /\ undoing = <<>>
         /\ owed' = owed /\ undoing' = undoing /\ done' \in Seq(Rec)
         /\ Recorded' = Recorded
         /\ \/ job.dry /\ holder' = holder /\ doing' = doing /\ done' = done
                       /\ Touched' = Touched
            \/ ~job.dry /\ o \in job.present /\ holder' = holder /\ doing' = doing
                        /\ Touched' = Touched \cup {o}
            \/ ~job.dry /\ holder' = who /\ doing' = o /\ done' = done
                        /\ Touched' = Touched \cup {o}
         /\ CapturesLast(done) /\ (o = "scope4" => ~Captures) => CapturesLast(done')
<1>1. holder = "nobody" /\ doing = "none" /\ undoing = <<>> /\ done \in Seq(Rec)
  BY DEF BeginDo, ManagerOK, Typed
<1>2. o # "none"
  BY DEF Ops, ProxyOps, DeviceOps, CaptureOps, Capture6
<1>3. CASE job.dry
  <2>1. UNCHANGED manager
    BY <1>3 DEF BeginDo
  <2> QED BY <1>1, <1>3, <2>1, Untouched DEF manager
<1>4. CASE ~job.dry /\ o \in job.present \ NeverAdopted
  <2>1. /\ done' = Append(done, [op |-> o, adopted |-> TRUE])
        /\ UNCHANGED <<owed, holder, doing, undoing>>
    BY <1>4 DEF BeginDo
  <2>2. /\ done' \in Seq(Rec)
        /\ OpsOf(done') = OpsOf(done) \cup {o}
        /\ Ours(done') = Ours(done)
        /\ CapturesLast(done) /\ (o = "scope4" => OpsOf(done) \cap CaptureOps = {})
              => CapturesLast(done')
    <3> DEFINE a == Append(done, [op |-> o, adopted |-> TRUE])
    <3>1. TRUE \in BOOLEAN
      OBVIOUS
    <3>2. /\ a \in Seq(Rec)
          /\ OpsOf(a) = OpsOf(done) \cup {o}
          /\ Ours(a) = Ours(done) \cup (IF TRUE THEN {} ELSE {o})
          /\ CapturesLast(done) /\ (o = "scope4" => OpsOf(done) \cap CaptureOps = {})
               => CapturesLast(a)
      BY ONLY <1>1, <3>1, o \in Ops, AppendNames, Zenon
    <3>3. Ours(a) = Ours(done)
      BY <3>2
    <3> HIDE DEF a
    <3> QED BY <2>1, <3>2, <3>3 DEF a
  <2>3. Touched' = Touched \cup {o} /\ Recorded' = Recorded
    BY <2>1, <2>2 DEF Touched, Recorded
  <2>4. ~Captures => OpsOf(done) \cap CaptureOps = {}
    BY DEF Captures, Touched
  <2> QED BY <1>1, <1>4, <2>1, <2>2, <2>3, <2>4
<1>5. CASE ~job.dry /\ ~(o \in job.present \ NeverAdopted)
  <2>1. holder' = who /\ doing' = o /\ UNCHANGED <<done, owed, undoing>>
    BY <1>5 DEF BeginDo
  <2>2. Touched' = Touched \cup {o} /\ Recorded' = Recorded
    BY <1>1, <1>2, <2>1 DEF Touched, Recorded
  <2> QED BY <1>1, <1>5, <2>1, <2>2
<1> QED BY <1>3, <1>4, <1>5

\* A Do is committed.
LEMMA DoWorksDoes ==
  ASSUME Typed, ManagerOK, NEW who, DoWorks(who)
  PROVE  /\ holder = who /\ doing \in Ops /\ doing # "none" /\ holder' = "nobody"
         /\ doing' = "none" /\ undoing' = undoing /\ owed' = owed /\ done' \in Seq(Rec)
         /\ force' = force \cup {doing} /\ force' \subseteq Recorded' \cup owed'
         /\ Touched' = Touched
         /\ CapturesLast(done) /\ (doing = "scope4" => ~Captures) => CapturesLast(done')
<1>1. /\ holder = who /\ doing # "none" /\ force' = force \cup {doing}
      /\ done' = Append(done, [op |-> doing, adopted |-> FALSE])
      /\ holder' = "nobody" /\ doing' = "none" /\ owed' = owed /\ undoing' = undoing
  BY DEF DoWorks
<1>2. doing \in Ops /\ done \in Seq(Rec)
  BY <1>1 DEF Typed
<1>3. /\ done' \in Seq(Rec)
      /\ OpsOf(done') = OpsOf(done) \cup {doing}
      /\ Ours(done') = Ours(done) \cup {doing}
      /\ CapturesLast(done) /\ (doing = "scope4" => OpsOf(done) \cap CaptureOps = {})
            => CapturesLast(done')
  BY <1>1, <1>2, AppendNames
<1>4. Touched' = Touched /\ Recorded' = Recorded \cup {doing}
  BY <1>1, <1>3 DEF Touched, Recorded
<1>5. force \subseteq Recorded \cup owed
  BY DEF ManagerOK
<1>6. ~Captures => OpsOf(done) \cap CaptureOps = {}
  BY DEF Captures, Touched
<1> QED BY <1>1, <1>2, <1>3, <1>4, <1>5, <1>6

\* A Do fails.
LEMMA DoFailsDoes ==
  ASSUME Typed, ManagerOK, NEW who, NEW c, DoFails(who, c)
  PROVE  /\ holder = who /\ doing \in Ops /\ doing # "none" /\ holder' = "nobody"
         /\ doing' = "none" /\ undoing' = undoing /\ done' = done
         /\ force' \subseteq Ops /\ owed' \subseteq Ops
         /\ force \ {doing} \subseteq force' /\ force' \subseteq Recorded' \cup owed'
         /\ Touched' \subseteq Touched
<1>1. /\ holder = who /\ doing # "none" /\ holder' = "nobody" /\ doing' = "none"
      /\ done' = done /\ undoing' = undoing
      /\ \/ force' = force /\ owed' = owed
         \/ force' = force \ {doing} /\ owed' = owed
         \/ force' = force \cup {doing} /\ owed' = owed \cup {doing}
  BY DEF DoFails
<1>2. doing \in Ops /\ force \subseteq Ops /\ owed \subseteq Ops
  BY <1>1 DEF Typed
<1>3. Touched' \subseteq Touched /\ Recorded' = Recorded
  BY <1>1 DEF Touched, Recorded
<1>4. force \subseteq Recorded \cup owed
  BY DEF ManagerOK
<1> QED BY <1>1, <1>2, <1>3, <1>4

\* An UndoAll takes the list.
LEMMA BeginUndoDoes ==
  ASSUME Typed, ManagerOK, NEW who, BeginUndo(who)
  PROVE  /\ holder = "nobody" /\ doing = "none" /\ doing' = "none" /\ holder' = who
         /\ undoing' = done /\ done' = <<>> /\ owed' = owed
         /\ Touched' = Touched /\ Recorded' = Recorded
         /\ CapturesLast(done) => CapturesLast(undoing') /\ CapturesLast(done')
<1>1. /\ holder = "nobody" /\ doing = "none" /\ undoing = <<>>
      /\ holder' = who /\ undoing' = done /\ done' = <<>> /\ owed' = owed /\ doing' = doing
  BY DEF BeginUndo, ManagerOK
<1>2. Touched' = Touched /\ Recorded' = Recorded
  BY <1>1, EmptyNames DEF Touched, Recorded
<1> QED BY <1>1, <1>2, EmptyNames

\* An UndoAll takes one step; with nothing else in hand, the escape route
\* goes after the last capture.
LEMMA UndoOneDoes ==
  ASSUME Typed, ManagerOK, NEW who, UndoOne(who)
  PROVE  /\ holder = who /\ holder' = holder /\ doing' = doing /\ done' = done
         /\ undoing # <<>> /\ undoing' \in Seq(Rec)
         /\ force' \subseteq force /\ owed' \subseteq Ops /\ owed \subseteq owed'
         /\ force' \subseteq Recorded' \cup owed'
         /\ Touched' \subseteq Touched
         /\ CapturesLast(undoing) => CapturesLast(undoing')
         /\ /\ CapturesLast(undoing) /\ done = <<>> /\ doing = "none"
            /\ Captures' /\ "scope4" \in force
            => "scope4" \in force'
<1> DEFINE f == Front(undoing)
           r == Last(undoing)
<1>1. /\ holder = who /\ undoing # <<>> /\ undoing' = f
      /\ done' = done /\ holder' = holder /\ doing' = doing
      /\ \/ r.adopted /\ force' = force /\ owed' = owed
         \/ ~r.adopted /\ force' = force \ {r.op} /\ owed' = owed
         \/ ~r.adopted /\ force' = force /\ owed' = owed \cup {r.op}
  BY DEF UndoOne
<1>2. undoing \in Seq(Rec) /\ force \subseteq Ops /\ owed \subseteq Ops
        /\ force \subseteq Recorded \cup owed
  BY DEF Typed, ManagerOK
<1>3. /\ f \in Seq(Rec) /\ r \in Rec
      /\ OpsOf(undoing) = OpsOf(f) \cup {r.op}
      /\ Ours(undoing) = Ours(f) \cup (IF r.adopted THEN {} ELSE {r.op})
      /\ CapturesLast(undoing) =>
            CapturesLast(f) /\ (r.op = "scope4" => OpsOf(f) \cap CaptureOps = {})
  BY <1>1, <1>2, FrontNames
<1>4. r.op \in Ops
  BY <1>3 DEF Rec
<1> HIDE DEF f, r
<1>5. Touched' \subseteq Touched
  BY <1>1, <1>3 DEF Touched
<1>6. Recorded \subseteq Recorded' \cup (IF r.adopted THEN {} ELSE {r.op})
  BY <1>1, <1>3 DEF Recorded
<1>7. force' \subseteq Recorded' \cup owed'
  BY <1>1, <1>2, <1>6
<1>8. ASSUME done = <<>>, doing = "none" PROVE Captures' => OpsOf(f) \cap CaptureOps # {}
  BY <1>1, <1>8, EmptyNames DEF Captures, Touched
<1> QED BY <1>1, <1>2, <1>3, <1>4, <1>5, <1>7, <1>8

\* An UndoAll is over.
LEMMA UndoneDoes ==
  ASSUME Typed, ManagerOK, NEW who, Undone(who)
  PROVE  /\ holder = who /\ undoing = <<>> /\ doing = "none" /\ holder' = "nobody"
         /\ UNCHANGED <<done, owed, doing, undoing>>
         /\ Touched' = Touched /\ Recorded' = Recorded
         /\ done = <<>> => Touched = {}
<1>1. /\ holder = who /\ undoing = <<>> /\ doing = "none" /\ holder' = "nobody"
      /\ UNCHANGED <<done, owed, doing, undoing>>
  BY DEF Undone
<1> QED BY <1>1, EmptyNames DEF Touched, Recorded

-----------------------------------------------------------------------------
(* The main goroutine: bring-up.                                           *)

\* Before the settings nothing is touched, and nobody is in the Manager.
LEMMA EarlyIsIdle ==
  ASSUME Live, pc \in {"start", "janitor", "bind", "build", "listen", "settings"}
  PROVE  /\ Touched = {} /\ holder = "nobody" /\ once = "fresh" /\ todo = <<>>
         /\ On \subseteq Floor5
         /\ asked["panic"] # "running" /\ asked["reapply"] # "running"
<1>1. On \subseteq Floor5
  BY DEF Live, StackOK, Ceiling, Floor5, Floor4, Floor3, Floor2
<1>2. "settings" \notin On /\ "tunnel" \notin On /\ "control" \notin On
  BY <1>1 DEF Floor5, Floor4, Floor3, Floor2
<1>3. Touched = {} /\ once = "fresh"
  BY <1>2 DEF Live, ManagerOK
<1>4. asked["panic"] # "running" /\ asked["reapply"] # "running" /\ todo = <<>>
  BY <1>2 DEF Live, StackOK, Requests
<1>5. holder = "nobody"
  BY <1>4 DEF Live, Typed, ManagerOK, Actors
<1> QED BY <1>1, <1>3, <1>4, <1>5

\* The step goes to the teardown, and changes nothing else.
LEMMA RetreatKeeps ==
  ASSUME Live, pc \in {"start", "bind", "apply", "tun", "serving"}, holder # "main",
         pc' = "drain", todo' = <<>>,
         UNCHANGED <<job, stack, up, force, manager, once, failed, asked, again>>
  PROVE  Live'
<1>1. On' = On
  BY DEF On
<1>2. Touched' = Touched /\ Recorded' = Recorded /\ Escape' = Escape
  BY Untouched DEF Escape
<1>3. Typed'
  BY EmptySeq DEF Live, Typed, manager, Places
<1>4. StackOK'
  BY <1>1 DEF Live, StackOK, Ceiling, Footing, Requests
<1>5. UpOK'
  BY <1>1 DEF Live, UpOK
<1>6. ManagerOK'
  BY <1>1, <1>2 DEF Live, ManagerOK, manager
<1>7. TunnelOK'
  BY <1>1, <1>2 DEF Live, TunnelOK, Captures, manager
<1> QED BY <1>3, <1>4, <1>5, <1>6, <1>7 DEF Live

\* A run without root, a lock that is held, a VPN, a port that is taken, the
\* end of the serving: to the teardown.
LEMMA RequireRootKeeps == ASSUME Live, RequireRoot PROVE Live'
  BY RetreatKeeps, EarlyIsIdle DEF RequireRoot, Unwind, Goto, outside
LEMMA LockRefusedKeeps == ASSUME Live, LockRefused PROVE Live'
  BY RetreatKeeps, EarlyIsIdle DEF LockRefused, Unwind, Goto, outside
LEMMA RefuseVPNKeeps == ASSUME Live, RefuseVPN PROVE Live'
  BY RetreatKeeps, EarlyIsIdle DEF RefuseVPN, Unwind, Goto, outside
LEMMA BindFailsKeeps == ASSUME Live, BindFails PROVE Live'
  BY RetreatKeeps, EarlyIsIdle DEF BindFails, Unwind, Goto, outside
LEMMA StopKeeps == ASSUME Live, Stop PROVE Live'
  BY RetreatKeeps DEF Stop, Unwind, Goto, outside, Live, ManagerOK

\* The journal cannot be opened: the lock alone is held.
LEMMA JournalFailsKeeps == ASSUME Live, JournalFails PROVE Live'
<1>1. /\ pc = "start" /\ pc' = "drain" /\ up' = up \cup {"lock"}
      /\ stack' = Append(stack, "lock")
      /\ UNCHANGED <<job, todo, force, manager, once, failed, asked, again>>
  BY DEF JournalFails, Push, Goto, outside
<1>2. Touched = {} /\ holder = "nobody" /\ once = "fresh" /\ todo = <<>> /\ On = {}
        /\ asked["panic"] # "running" /\ asked["reapply"] # "running"
  BY <1>1, EarlyIsIdle DEF Live, StackOK, Ceiling
<1>3. stack' \in Seq(Steps) /\ Stacked(stack') /\ On' = {"lock"}
  BY <1>1, <1>2, PushStacked DEF Live, Typed, StackOK, On, Steps, Floor8, Floor7, Floor6,
     Floor5, Floor4, Floor3, Floor2
<1>4. Touched' = Touched /\ Recorded' = Recorded /\ Escape' = Escape
  BY <1>1, Untouched DEF Escape
<1>5. Typed'
  BY <1>1, <1>3 DEF Live, Typed, manager, Places, Resources
<1>6. StackOK'
  BY <1>1, <1>2, <1>3 DEF Live, StackOK, Ceiling, Footing, Requests, Floor7, Floor6,
     Floor5, Floor4, Floor3, Floor2
<1>7. UpOK'
  BY <1>1, <1>2, <1>3 DEF Live, UpOK
<1>8. ManagerOK'
  BY <1>1, <1>2, <1>4 DEF Live, ManagerOK, manager
<1>9. TunnelOK'
  BY <1>1, <1>2, <1>4 DEF Live, TunnelOK, Captures, manager
<1> QED BY <1>5, <1>6, <1>7, <1>8, <1>9 DEF Live

\* A sequence without an element is empty.
LEMMA NoneIsEmpty == ASSUME NEW S, NEW s \in Seq(S), ToSet(s) = {} PROVE s = <<>>
<1>1. ASSUME s # <<>> PROVE FALSE
  <2>1. 1 \in 1..Len(s)
    BY <1>1, EmptySeq
  <2> QED BY <2>1, SetByIndex
<1> QED BY <1>1

\* The run lock and the journal, one on the other.
LEMMA AcquireKeeps == ASSUME Live, Acquire PROVE Live'
<1>1. /\ pc = "start" /\ pc' = "janitor" /\ up' = up \cup {"lock", "journal"}
      /\ stack' = stack \o <<"lock", "journal">> /\ todo' = todo
      /\ UNCHANGED <<job, force, manager, once, failed, asked, again>>
  BY DEF Acquire, Goto, Unwind, outside
<1>2. /\ Touched = {} /\ holder = "nobody" /\ once = "fresh" /\ todo = <<>>
      /\ On \subseteq Floor5 /\ Ceiling
      /\ asked["panic"] # "running" /\ asked["reapply"] # "running"
  BY <1>1, EarlyIsIdle DEF Live, StackOK
<1>3. stack' \in Seq(Steps) /\ Stacked(stack') /\ On' = {"lock", "journal"}
  <2>1. ToSet(stack) = {} /\ stack \in Seq(Steps)
    BY <1>1, <1>2 DEF Ceiling, On, Live, Typed
  <2>2. "lock" \in Steps /\ "journal" \in Steps
    BY DEF Steps, Floor8, Floor7, Floor6, Floor5, Floor4, Floor3, Floor2
  <2>3. <<"lock", "journal">> \in Seq(Steps)
    BY <2>2
  <2>4. stack' = <<"lock", "journal">>
    <3>1. stack = <<>>
      BY <2>1, NoneIsEmpty
    <3>2. <<>> \o <<"lock", "journal">> = <<"lock", "journal">>
      BY <2>3, ConcatEmptySeq
    <3> QED BY <1>1, <3>1, <3>2
  <2> QED BY <2>3, <2>4 DEF Stacked, On, ToSet, Under
<1>4. Touched' = Touched /\ Recorded' = Recorded /\ Escape' = Escape
  BY <1>1, Untouched DEF Escape
<1>5. Typed'
  BY <1>1, <1>2, <1>3 DEF Live, Typed, manager, Places, Resources
<1>6. StackOK'
  BY <1>1, <1>2, <1>3 DEF Live, StackOK, Ceiling, Footing, Requests, Floor8, Floor7,
     Floor6, Floor5, Floor4, Floor3, Floor2
<1>7. UpOK'
  BY <1>1, <1>2, <1>3 DEF Live, UpOK, Ceiling, Floor8, Floor7, Floor6, Floor5,
     Floor4, Floor3, Floor2
<1>8. ManagerOK'
  BY <1>1, <1>2, <1>4 DEF Live, ManagerOK, manager
<1>9. TunnelOK'
  BY <1>1, <1>2, <1>4 DEF Live, TunnelOK, Captures, manager
<1> QED BY <1>5, <1>6, <1>7, <1>8, <1>9 DEF Live

\* The listeners are bound; their step is pushed when they are served.
LEMMA BindListenersKeeps == ASSUME Live, BindListeners PROVE Live'
<1>1. /\ pc = "bind" /\ pc' = "build" /\ up' = up \cup {"listeners"}
      /\ stack' = stack /\ todo' = todo
      /\ UNCHANGED <<job, force, manager, once, failed, asked, again>>
  BY DEF BindListeners, Goto, Unwind, outside
<1>2. /\ Touched = {} /\ holder = "nobody" /\ once = "fresh" /\ todo = <<>>
      /\ On \subseteq Floor5 /\ Ceiling
      /\ asked["panic"] # "running" /\ asked["reapply"] # "running"
  BY <1>1, EarlyIsIdle DEF Live, StackOK
<1>3. stack' \in Seq(Steps) /\ Stacked(stack') /\ On' = On
  BY <1>1 DEF Live, Typed, StackOK, On
<1>4. Touched' = Touched /\ Recorded' = Recorded /\ Escape' = Escape
  BY <1>1, Untouched DEF Escape
<1>5. Typed'
  BY <1>1, <1>2, <1>3 DEF Live, Typed, manager, Places, Resources
<1>6. StackOK'
  BY <1>1, <1>2, <1>3 DEF Live, StackOK, Ceiling, Footing, Requests, Floor8, Floor7,
     Floor6, Floor5, Floor4, Floor3, Floor2
<1>7. UpOK'
  BY <1>1, <1>2, <1>3 DEF Live, UpOK, Ceiling, Floor8, Floor7, Floor6, Floor5,
     Floor4, Floor3, Floor2
<1>8. ManagerOK'
  BY <1>1, <1>2, <1>4 DEF Live, ManagerOK, manager
<1>9. TunnelOK'
  BY <1>1, <1>2, <1>4 DEF Live, TunnelOK, Captures, manager
<1> QED BY <1>5, <1>6, <1>7, <1>8, <1>9 DEF Live

\* What was bound is closed again.
LEMMA BuildFailsKeeps == ASSUME Live, BuildFails PROVE Live'
<1>1. /\ pc = "build" /\ pc' = "drain" /\ up' = up \ {"listeners"}
      /\ stack' = stack /\ todo' = <<>>
      /\ UNCHANGED <<job, force, manager, once, failed, asked, again>>
  BY DEF BuildFails, Goto, Unwind, outside
<1>2. /\ Touched = {} /\ holder = "nobody" /\ once = "fresh" /\ todo = <<>>
      /\ On \subseteq Floor5 /\ Ceiling
      /\ asked["panic"] # "running" /\ asked["reapply"] # "running"
  BY <1>1, EarlyIsIdle DEF Live, StackOK
<1>3. stack' \in Seq(Steps) /\ Stacked(stack') /\ On' = On
  BY <1>1 DEF Live, Typed, StackOK, On
<1>4. Touched' = Touched /\ Recorded' = Recorded /\ Escape' = Escape
  BY <1>1, Untouched DEF Escape
<1>5. Typed'
  BY <1>1, <1>2, <1>3 DEF Live, Typed, manager, Places, Resources
<1>6. StackOK'
  BY <1>1, <1>2, <1>3 DEF Live, StackOK, Ceiling, Footing, Requests, Floor8, Floor7,
     Floor6, Floor5, Floor4, Floor3, Floor2
<1>7. UpOK'
  BY <1>1, <1>2, <1>3 DEF Live, UpOK, Ceiling, Floor8, Floor7, Floor6, Floor5,
     Floor4, Floor3, Floor2
<1>8. ManagerOK'
  BY <1>1, <1>2, <1>4 DEF Live, ManagerOK, manager
<1>9. TunnelOK'
  BY <1>1, <1>2, <1>4 DEF Live, TunnelOK, Captures, manager
<1> QED BY <1>5, <1>6, <1>7, <1>8, <1>9 DEF Live

\* The store's saver, and its step.
LEMMA BuildSubsystemsKeeps == ASSUME Live, BuildSubsystems PROVE Live'
<1>1. /\ pc = "build" /\ pc' = "listen" /\ up' = up \cup {"store"}
      /\ stack' = Append(stack, "store") /\ todo' = todo
      /\ UNCHANGED <<job, force, manager, once, failed, asked, again>>
  BY DEF BuildSubsystems, Push, Goto, Unwind, outside
<1>2. /\ Touched = {} /\ holder = "nobody" /\ once = "fresh" /\ todo = <<>>
      /\ On \subseteq Floor5 /\ Ceiling
      /\ asked["panic"] # "running" /\ asked["reapply"] # "running"
  BY <1>1, EarlyIsIdle DEF Live, StackOK
<1>3. stack' \in Seq(Steps) /\ Stacked(stack') /\ On' = On \cup {"store"}
  <2>1. ToSet(stack) \subseteq Under("store") /\ "store" \in Steps
    BY <1>1, <1>2 DEF Ceiling, On, Under, Steps, Floor8, Floor7, Floor6, Floor5,
       Floor4, Floor3, Floor2
  <2> QED BY <1>1, <2>1, PushStacked DEF Live, Typed, StackOK, On
<1>4. Touched' = Touched /\ Recorded' = Recorded /\ Escape' = Escape
  BY <1>1, Untouched DEF Escape
<1>5. Typed'
  BY <1>1, <1>2, <1>3 DEF Live, Typed, manager, Places, Resources
<1>6. StackOK'
  BY <1>1, <1>2, <1>3 DEF Live, StackOK, Ceiling, Footing, Requests, Floor8, Floor7,
     Floor6, Floor5, Floor4, Floor3, Floor2
<1>7. UpOK'
  BY <1>1, <1>2, <1>3 DEF Live, UpOK, Ceiling, Floor8, Floor7, Floor6, Floor5,
     Floor4, Floor3, Floor2
<1>8. ManagerOK'
  BY <1>1, <1>2, <1>4 DEF Live, ManagerOK, manager
<1>9. TunnelOK'
  BY <1>1, <1>2, <1>4 DEF Live, TunnelOK, Captures, manager
<1> QED BY <1>5, <1>6, <1>7, <1>8, <1>9 DEF Live

\* The listeners are served, and have their step.
LEMMA StartListenersKeeps == ASSUME Live, StartListeners PROVE Live'
<1>1. /\ pc = "listen" /\ pc' = "settings" /\ up' = up
      /\ stack' = Append(stack, "listeners") /\ todo' = todo
      /\ UNCHANGED <<job, force, manager, once, failed, asked, again>>
  BY DEF StartListeners, Push, Goto, Unwind, outside
<1>2. /\ Touched = {} /\ holder = "nobody" /\ once = "fresh" /\ todo = <<>>
      /\ On \subseteq Floor5 /\ Ceiling
      /\ asked["panic"] # "running" /\ asked["reapply"] # "running"
  BY <1>1, EarlyIsIdle DEF Live, StackOK
<1>3. stack' \in Seq(Steps) /\ Stacked(stack') /\ On' = On \cup {"listeners"}
  <2>1. ToSet(stack) \subseteq Under("listeners") /\ "listeners" \in Steps
    BY <1>1, <1>2 DEF Ceiling, On, Under, Steps, Floor8, Floor7, Floor6, Floor5,
       Floor4, Floor3, Floor2
  <2> QED BY <1>1, <2>1, PushStacked DEF Live, Typed, StackOK, On
<1>4. Touched' = Touched /\ Recorded' = Recorded /\ Escape' = Escape
  BY <1>1, Untouched DEF Escape
<1>5. Typed'
  BY <1>1, <1>2, <1>3 DEF Live, Typed, manager, Places, Resources
<1>6. StackOK'
  BY <1>1, <1>2, <1>3 DEF Live, StackOK, Ceiling, Footing, Requests, Floor8, Floor7,
     Floor6, Floor5, Floor4, Floor3, Floor2
<1>7. UpOK'
  BY <1>1, <1>2, <1>3 DEF Live, UpOK, Ceiling, Floor8, Floor7, Floor6, Floor5,
     Floor4, Floor3, Floor2
<1>8. ManagerOK'
  BY <1>1, <1>2, <1>4 DEF Live, ManagerOK, manager
<1>9. TunnelOK'
  BY <1>1, <1>2, <1>4 DEF Live, TunnelOK, Captures, manager
<1> QED BY <1>5, <1>6, <1>7, <1>8, <1>9 DEF Live

\* The janitor watches, or the run changes nothing, or it could not be
\* spawned.
LEMMA StartJanitorKeeps == ASSUME Live, StartJanitor PROVE Live'
<1>1. /\ pc = "janitor" /\ pc' = "bind" /\ todo' = todo
      /\ \/ up' = up \cup {"janitor"} /\ stack' = Append(stack, "janitor")
         \/ (~WillMutate(job) \/ "nospawn" \in job.may) /\ up' = up /\ stack' = stack
      /\ UNCHANGED <<job, force, manager, once, failed, asked, again>>
  BY DEF StartJanitor, Spawn, Push, Goto, outside, May
<1>2. /\ Touched = {} /\ holder = "nobody" /\ once = "fresh" /\ todo = <<>>
      /\ On \subseteq Floor5 /\ Ceiling /\ On \subseteq Floor2
      /\ asked["panic"] # "running" /\ asked["reapply"] # "running"
  BY <1>1, EarlyIsIdle DEF Live, StackOK, Ceiling
<1>3. /\ stack' \in Seq(Steps) /\ Stacked(stack')
      /\ \/ up' = up \cup {"janitor"} /\ On' = On \cup {"janitor"}
         \/ (~WillMutate(job) \/ "nospawn" \in job.may) /\ up' = up /\ On' = On
  <2>1. ToSet(stack) \subseteq Under("janitor") /\ "janitor" \in Steps
    BY <1>1, <1>2 DEF Ceiling, On, Under, Steps, Floor8, Floor7, Floor6,
     Floor5, Floor4, Floor3, Floor2
  <2> QED BY <1>1, <2>1, PushStacked DEF Live, Typed, StackOK, On
<1>4. Touched' = Touched /\ Recorded' = Recorded /\ Escape' = Escape
  BY <1>1, Untouched DEF Escape
<1>5. Typed'
  BY <1>1, <1>2, <1>3 DEF Live, Typed, manager, Places, Resources
<1>6. StackOK'
  BY <1>1, <1>2, <1>3 DEF Live, StackOK, Ceiling, Footing, Requests, Floor7, Floor6,
     Floor5, Floor4, Floor3, Floor2
<1>7. UpOK'
  BY <1>1, <1>2, <1>3 DEF Live, UpOK, Ceiling, Floor7, Floor6,
     Floor5, Floor4, Floor3, Floor2
<1>8. ManagerOK'
  BY <1>1, <1>2, <1>4 DEF Live, ManagerOK, manager
<1>9. TunnelOK'
  BY <1>1, <1>2, <1>4 DEF Live, TunnelOK, Captures, manager
<1> QED BY <1>5, <1>6, <1>7, <1>8, <1>9 DEF Live

\* The revert has its step before the first setting is changed.
LEMMA ApplySystemStateKeeps == ASSUME Live, ApplySystemState PROVE Live'
<1>1. /\ pc = "settings" /\ pc' = "apply" /\ up' = up
      /\ \/ /\ ChangesSettings(job) /\ stack' = Append(stack, "settings")
            /\ todo' = ProxyPlan(job)
         \/ ~ChangesSettings(job) /\ stack' = stack /\ todo' = todo
      /\ UNCHANGED <<job, force, manager, once, failed, asked, again>>
  BY DEF ApplySystemState, Push, Goto, outside
<1>2. /\ Touched = {} /\ holder = "nobody" /\ once = "fresh" /\ todo = <<>>
      /\ On \subseteq Floor5 /\ Ceiling
      /\ asked["panic"] # "running" /\ asked["reapply"] # "running"
  BY <1>1, EarlyIsIdle DEF Live, StackOK
<1>3. /\ stack' \in Seq(Steps) /\ Stacked(stack')
      /\ \/ ChangesSettings(job) /\ On' = On \cup {"settings"}
         \/ ~ChangesSettings(job) /\ On' = On
  <2>1. ToSet(stack) \subseteq Under("settings") /\ "settings" \in Steps
    BY <1>1, <1>2 DEF Ceiling, On, Under, Steps, Floor8, Floor7, Floor6,
     Floor5, Floor4, Floor3, Floor2
  <2> QED BY <1>1, <2>1, PushStacked DEF Live, Typed, StackOK, On
<1>4. Touched' = Touched /\ Recorded' = Recorded /\ Escape' = Escape
  BY <1>1, Untouched DEF Escape
<1>5. todo' \in Seq(ProxyOps) /\ todo' \in Seq(PlanOps) /\ ToSet(todo') \subseteq ProxyOps
  <2>1. todo' \in Seq(ProxyOps)
    BY <1>1, <1>2, ProxyPlanTyped, EmptySeq
  <2>2. ProxyOps \subseteq PlanOps
    BY DEF ProxyOps, PlanOps, Ops
  <2>3. ToSet(todo') = {todo'[i] : i \in 1..Len(todo')}
    BY <2>1, SetByIndex
  <2> QED BY <2>1, <2>2, <2>3, SeqMonotonic, ElementOfSeq
<1>6. Typed'
  BY <1>1, <1>2, <1>3, <1>5 DEF Live, Typed, manager, Places, Resources
<1>7. StackOK'
  BY <1>1, <1>2, <1>3 DEF Live, StackOK, Ceiling, Footing, Requests, Floor7, Floor6,
     Floor5, Floor4, Floor3, Floor2
<1>8. UpOK'
  BY <1>1, <1>2, <1>3 DEF Live, UpOK, Ceiling, Floor7, Floor6,
     Floor5, Floor4, Floor3, Floor2
<1>9. ManagerOK'
  BY <1>1, <1>2, <1>4 DEF Live, ManagerOK, manager
<1>10. TunnelOK'
  BY <1>1, <1>2, <1>4, <1>5 DEF Live, TunnelOK, Captures, manager, ManagerOK
<1> QED BY <1>6, <1>7, <1>8, <1>9, <1>10 DEF Live

\* While the settings or the tunnel go up, no request runs: its socket is
\* not there.
LEMMA NobodyAsksYet ==
  ASSUME Live, pc \in {"apply", "tun"}
  PROVE  /\ asked["panic"] # "running" /\ asked["reapply"] # "running"
         /\ holder \in {"main", "nobody"} /\ once = "fresh" /\ "control" \notin On
<1>1. "control" \notin On
  BY DEF Live, StackOK, Ceiling, Floor7, Floor6, Floor5, Floor4, Floor3, Floor2
<1>2. asked["panic"] # "running" /\ asked["reapply"] # "running"
  BY <1>1 DEF Live, StackOK, Requests
<1> QED BY <1>1, <1>2 DEF Live, Typed, ManagerOK, Actors

\* One setting begins.
LEMMA ApplySettingKeeps == ASSUME Live, ApplySetting PROVE Live'
<1>1. /\ pc = "apply" /\ todo # <<>> /\ holder # "main" /\ todo' = Tail(todo)
      /\ UNCHANGED manager \/ BeginDo("main", Head(todo))
      /\ UNCHANGED <<job, pc, stack, up, force, once, failed, asked, again>>
  BY DEF ApplySetting, outside
<1>2. Typed /\ ManagerOK /\ todo \in Seq(PlanOps)
  BY DEF Live, Typed
<1>3. /\ holder = "nobody" /\ doing = "none" /\ once = "fresh" /\ On' = On
      /\ asked["panic"] # "running" /\ asked["reapply"] # "running"
      /\ "settings" \in On /\ ChangesSettings(job) /\ "control" \notin On
  BY <1>1, NobodyAsksYet DEF Live, StackOK, Footing, Requests, ManagerOK, On
<1>4. /\ todo' \in Seq(PlanOps) /\ ToSet(todo') \subseteq ToSet(todo)
      /\ Head(todo) \in ToSet(todo) /\ ToSet(todo) \subseteq ProxyOps
  BY <1>1, <1>2, TailSet DEF Live, TunnelOK
<1>5. Head(todo) \in ProxyOps /\ Head(todo) \in Ops /\ Head(todo) # "none"
        /\ Head(todo) # "scope4" /\ Head(todo) \notin CaptureOps
  BY <1>4 DEF Ops, ProxyOps, CaptureOps, Capture6
<1>6. /\ Recorded' = Recorded /\ owed' = owed /\ undoing' = undoing /\ done' \in Seq(Rec)
      /\ \/ Touched' = Touched
         \/ ~job.dry /\ Touched' = Touched \cup {Head(todo)}
      /\ \/ holder' = holder /\ doing' = doing
         \/ holder' = "main" /\ doing' = Head(todo)
      /\ CapturesLast(done) => CapturesLast(done')
  <2>1. CASE UNCHANGED manager
    BY <1>2, <2>1, Untouched DEF manager, Typed
  <2>2. CASE BeginDo("main", Head(todo))
    BY <1>1, <1>2, <1>5, <2>2, BeginDoDoes
  <2> QED BY <1>1, <2>1, <2>2
<1>7. Typed'
  BY <1>1, <1>4, <1>5, <1>6 DEF Live, Typed, Actors
<1>8. StackOK'
  BY <1>1, <1>3 DEF Live, StackOK, Ceiling, Footing, Requests
<1>9. UpOK'
  BY <1>1, <1>3 DEF Live, UpOK
<1>10. ManagerOK'
  BY <1>1, <1>3, <1>5, <1>6 DEF Live, ManagerOK
<1>11. TunnelOK'
  BY <1>1, <1>3, <1>4, <1>5, <1>6 DEF Live, TunnelOK, Captures, Escape
<1> QED BY <1>7, <1>8, <1>9, <1>10, <1>11 DEF Live

\* The setting is in force and committed, or it failed.
LEMMA SettingAppliedKeeps == ASSUME Live, SettingApplied PROVE Live'
<1>1. /\ pc = "apply" /\ (DoWorks("main") \/ DoFails("main", Cancelled))
      /\ UNCHANGED <<job, pc, todo, stack, up, once, failed, asked, again>>
  BY DEF SettingApplied, outside, process
<1>2. Typed /\ ManagerOK /\ CapturesLast(done) /\ CapturesLast(undoing)
  BY DEF Live, TunnelOK
<1>3. /\ once = "fresh" /\ On' = On
      /\ asked["panic"] # "running" /\ asked["reapply"] # "running"
  BY <1>1, NobodyAsksYet DEF On
<1>4. holder = "main" /\ doing # "none" /\ doing \in Ops
  BY <1>1, <1>2 DEF DoWorks, DoFails, Typed
<1>5. doing \in ProxyOps /\ doing # "scope4"
  BY <1>1, <1>4 DEF Live, TunnelOK, ProxyOps
<1>6. /\ holder' = "nobody" /\ doing' = "none" /\ undoing' = undoing /\ done' \in Seq(Rec)
      /\ force' \subseteq Ops /\ owed' \subseteq Ops /\ force' \subseteq Recorded' \cup owed'
      /\ force \ {doing} \subseteq force'
      /\ Touched' \subseteq Touched /\ CapturesLast(done')
  <2>1. CASE DoWorks("main")
    BY <1>2, <1>5, <2>1, DoWorksDoes DEF Typed
  <2>2. CASE DoFails("main", Cancelled)
    BY <1>2, <2>2, DoFailsDoes DEF Typed
  <2> QED BY <1>1, <2>1, <2>2
<1>7. undoing = <<>>
  BY <1>2, <1>4 DEF ManagerOK
<1>8. Typed'
  BY <1>1, <1>2, <1>6 DEF Typed
<1>9. StackOK'
  BY <1>1, <1>3 DEF Live, StackOK, Ceiling, Footing, Requests
<1>10. UpOK'
  BY <1>1, <1>3 DEF Live, UpOK
<1>11. ManagerOK'
  BY <1>1, <1>3, <1>6, <1>7 DEF Live, ManagerOK
<1>12. TunnelOK'
  BY <1>1, <1>2, <1>3, <1>5, <1>6 DEF Live, TunnelOK, Captures, Escape
<1> QED BY <1>8, <1>9, <1>10, <1>11, <1>12 DEF Live

\* The device is opened, its step pushed, nothing of the tunnel is touched.
LEMMA StartTunKeeps == ASSUME Live, StartTun PROVE Live'
<1>1. /\ pc = "apply" /\ holder # "main" /\ job.tun /\ todo = <<>>
      /\ UNCHANGED <<job, force, manager, once, failed, asked, again>>
  BY DEF StartTun, outside
<1>2. CASE Unwind /\ UNCHANGED <<stack, up, gate>>
  BY <1>1, <1>2, RetreatKeeps DEF Unwind, Goto
<1>3. CASE /\ Push("tunnel") /\ todo' = TunPlan(job) /\ Goto("tun")
           /\ up' = IF job.dry THEN up ELSE up \cup {"device"}
  <2>1. /\ pc' = "tun" /\ todo' = TunPlan(job) /\ stack' = Append(stack, "tunnel")
        /\ up \subseteq up' /\ up' \subseteq up \cup {"device"} /\ (~job.dry => "device" \in up')
    BY <1>3 DEF Push, Goto
  <2>2. /\ once = "fresh" /\ holder = "nobody" /\ doing = "none"
        /\ asked["panic"] # "running" /\ asked["reapply"] # "running"
        /\ On \subseteq Floor6 /\ "tunnel" \notin On
    BY <1>1, NobodyAsksYet DEF Live, StackOK, Ceiling, ManagerOK, Floor6, Floor5, Floor4,
       Floor3, Floor2
  <2>3. stack' \in Seq(Steps) /\ Stacked(stack') /\ On' = On \cup {"tunnel"}
    <3>1. ToSet(stack) \subseteq Under("tunnel") /\ "tunnel" \in Steps
      BY <2>2 DEF On, Under, Steps, Floor8, Floor7
    <3> QED BY <2>1, <3>1, PushStacked DEF Live, Typed, StackOK, On
  <2>4. Touched' = Touched /\ Recorded' = Recorded /\ Escape' = Escape
    BY <1>1, Untouched DEF Escape
  <2>5. ~Captures
    <3>1. Touched \subseteq ProxyOps
      BY <2>2 DEF Live, TunnelOK
    <3> QED BY <3>1 DEF Captures, CaptureOps, Capture6, ProxyOps
  <2>6. /\ todo' \in Seq(PlanOps) /\ Precede(todo')
        /\ "scope4" \in ToSet(todo') /\ "start" \in ToSet(todo')
    BY <2>1, TunPlanInOrder
  <2>7. Typed'
    BY <1>1, <2>1, <2>3, <2>6 DEF Live, Typed, manager, Places, Resources
  <2>8. StackOK'
    BY <1>1, <2>1, <2>2, <2>3 DEF Live, StackOK, Ceiling, Footing, Requests, Floor7, Floor6,
       Floor5, Floor4, Floor3, Floor2
  <2>9. UpOK'
    BY <1>1, <2>1, <2>3 DEF Live, UpOK
  <2>10. ManagerOK'
    BY <1>1, <2>1, <2>2, <2>3, <2>4 DEF Live, ManagerOK, manager
  <2>11. TunnelOK'
    BY <1>1, <2>1, <2>2, <2>3, <2>4, <2>5, <2>6 DEF Live, TunnelOK, Captures, manager
  <2> QED BY <2>7, <2>8, <2>9, <2>10, <2>11 DEF Live
<1> QED BY <1>2, <1>3 DEF StartTun

\* One change of the tunnel begins: the escape route and the datapath are
\* there before the first capture.
LEMMA BringUpOpKeeps == ASSUME Live, BringUpOp PROVE Live'
<1>1. /\ pc = "tun" /\ todo # <<>> /\ Head(todo) \in Ops /\ holder # "main"
      /\ UNCHANGED <<job, stack, up, force, once, failed, asked, again>>
  BY DEF BringUpOp, outside
<1>2. CASE Unwind /\ UNCHANGED manager
  BY <1>1, <1>2, RetreatKeeps DEF Unwind, Goto
<1>3. CASE BeginDo("main", Head(todo)) /\ todo' = Tail(todo) /\ UNCHANGED pc
  <2>1. Typed /\ ManagerOK /\ todo \in Seq(PlanOps)
    BY DEF Live, Typed
  <2>2. /\ holder = "nobody" /\ doing = "none" /\ once = "fresh" /\ On' = On
        /\ asked["panic"] # "running" /\ asked["reapply"] # "running"
        /\ "tunnel" \in On /\ "control" \notin On
    BY <1>1, NobodyAsksYet DEF Live, StackOK, Footing, ManagerOK, On
  <2>3. /\ todo' \in Seq(PlanOps) /\ ToSet(todo) = ToSet(todo') \cup {Head(todo)}
        /\ Precede(todo')
        /\ Head(todo) \in CaptureOps => "scope4" \notin ToSet(todo) /\ "start" \notin ToSet(todo)
    BY <1>1, <1>3, <2>1, TailSet, TailPrecedes DEF Live, TunnelOK
  <2>4. /\ Recorded' = Recorded /\ owed' = owed /\ undoing' = undoing /\ done' \in Seq(Rec)
        /\ \/ job.dry /\ holder' = holder /\ doing' = doing /\ done' = done
                      /\ Touched' = Touched
           \/ ~job.dry /\ Head(todo) \in job.present /\ holder' = holder /\ doing' = doing
                       /\ Touched' = Touched \cup {Head(todo)}
           \/ ~job.dry /\ holder' = "main" /\ doing' = Head(todo) /\ done' = done
                       /\ Touched' = Touched \cup {Head(todo)}
        /\ CapturesLast(done) /\ (Head(todo) = "scope4" => ~Captures) => CapturesLast(done')
    BY <1>1, <1>3, <2>1, BeginDoDoes
  <2>5. Head(todo) # "none" /\ Head(todo) # "start" /\ "scope4" \notin CaptureOps
    BY <1>1 DEF Ops, ProxyOps, DeviceOps, CaptureOps, Capture6
  <2>6. Typed'
    BY <1>1, <1>3, <2>1, <2>3, <2>4 DEF Typed, Actors
  <2>7. StackOK'
    BY <1>1, <1>3, <2>2 DEF Live, StackOK, Ceiling, Footing, Requests
  <2>8. UpOK'
    BY <1>1, <1>3, <2>2 DEF Live, UpOK
  <2>9. ManagerOK'
    BY <1>1, <1>3, <2>2, <2>4, <2>5 DEF Live, ManagerOK
  <2>10. TunnelOK'
    BY <1>1, <1>3, <2>2, <2>3, <2>4, <2>5 DEF Live, TunnelOK, Captures, Escape
  <2> QED BY <2>6, <2>7, <2>8, <2>9, <2>10 DEF Live
<1> QED BY <1>2, <1>3 DEF BringUpOp

\* The datapath starts.
LEMMA StartDatapathKeeps == ASSUME Live, StartDatapath PROVE Live'
<1>1. /\ pc = "tun" /\ todo # <<>> /\ Head(todo) = "start" /\ holder # "main"
      /\ todo' = Tail(todo) /\ up \subseteq up' /\ up' \subseteq up \cup {"datapath"}
      /\ job.dry \/ "datapath" \in up'
      /\ UNCHANGED <<job, pc, stack, force, manager, once, failed, asked, again>>
  BY DEF StartDatapath, outside
<1>2. /\ todo' \in Seq(PlanOps) /\ ToSet(todo) = ToSet(todo') \cup {Head(todo)}
      /\ Precede(todo')
  BY <1>1, TailSet, TailPrecedes DEF Live, Typed, TunnelOK
<1>3. On' = On /\ "tunnel" \in On
  BY <1>1 DEF On, Live, StackOK, Footing
<1>4. Touched' = Touched /\ Recorded' = Recorded /\ Escape' = Escape
  BY <1>1, Untouched DEF Escape
<1>5. Typed'
  BY <1>1, <1>2 DEF Live, Typed, manager, Resources
<1>6. StackOK'
  BY <1>1, <1>3 DEF Live, StackOK, Ceiling, Footing, Requests
<1>7. UpOK'
  BY <1>1, <1>3 DEF Live, UpOK
<1>8. ManagerOK'
  BY <1>1, <1>3, <1>4 DEF Live, ManagerOK, manager
<1>9. TunnelOK'
  BY <1>1, <1>2, <1>3, <1>4 DEF Live, TunnelOK, Captures, manager
<1> QED BY <1>5, <1>6, <1>7, <1>8, <1>9 DEF Live

\* The gate opens.
LEMMA OpenGateKeeps == ASSUME Live, OpenGate PROVE Live'
<1>1. /\ pc = "tun" /\ todo # <<>> /\ Head(todo) = "gate" /\ holder # "main"
      /\ todo' = Tail(todo)
      /\ UNCHANGED <<job, pc, stack, up, force, manager, once, failed, asked, again>>
  BY DEF OpenGate, outside
<1>2. /\ todo' \in Seq(PlanOps) /\ ToSet(todo) = ToSet(todo') \cup {"gate"}
      /\ Precede(todo')
  BY <1>1, TailSet, TailPrecedes DEF Live, Typed, TunnelOK
<1>3. On' = On
  BY <1>1 DEF On
<1>4. Touched' = Touched /\ Recorded' = Recorded /\ Escape' = Escape
  BY <1>1, Untouched DEF Escape
<1>5. Typed'
  BY <1>1, <1>2 DEF Live, Typed, manager
<1>6. StackOK'
  BY <1>1, <1>3 DEF Live, StackOK, Ceiling, Footing, Requests
<1>7. UpOK'
  BY <1>1, <1>3 DEF Live, UpOK
<1>8. ManagerOK'
  BY <1>1, <1>3, <1>4 DEF Live, ManagerOK, manager
<1>9. TunnelOK'
  BY <1>1, <1>2, <1>3, <1>4 DEF Live, TunnelOK, Captures, manager
<1> QED BY <1>5, <1>6, <1>7, <1>8, <1>9 DEF Live

\* The change is in force, or it failed and the run goes to its teardown.
LEMMA BroughtUpKeeps == ASSUME Live, BroughtUp PROVE Live'
<1>1. /\ pc = "tun" /\ UNCHANGED <<job, stack, up, once, failed, asked, again>>
      /\ \/ DoWorks("main") /\ UNCHANGED <<pc, todo>>
         \/ DoFails("main", Cancelled) /\ pc' = "drain" /\ todo' = <<>>
  BY DEF BroughtUp, Unwind, Goto, outside
<1>2. Typed /\ ManagerOK /\ CapturesLast(done) /\ CapturesLast(undoing)
  BY DEF Live, TunnelOK
<1>3. /\ once = "fresh" /\ On' = On /\ "tunnel" \in On
      /\ asked["panic"] # "running" /\ asked["reapply"] # "running"
  BY <1>1, NobodyAsksYet DEF On, Live, StackOK, Footing
<1>4. holder = "main" /\ doing # "none" /\ doing \in Ops
  BY <1>1, <1>2 DEF DoWorks, DoFails, Typed
<1>5. undoing = <<>>
  BY <1>2, <1>4 DEF ManagerOK
<1>6. Captures => doing # "scope4"
  BY DEF Live, TunnelOK
<1>7. CASE DoWorks("main") /\ UNCHANGED <<pc, todo>>
  <2>1. /\ holder' = "nobody" /\ doing' = "none" /\ undoing' = undoing /\ done' \in Seq(Rec)
        /\ owed' = owed /\ force' = force \cup {doing} /\ force' \subseteq Recorded' \cup owed'
        /\ Touched' = Touched /\ CapturesLast(done')
    BY <1>2, <1>6, <1>7, DoWorksDoes
  <2>2. Typed'
    BY <1>1, <1>2, <1>4, <1>7, <2>1 DEF Typed
  <2>3. StackOK'
    BY <1>1, <1>3, <1>7 DEF Live, StackOK, Ceiling, Footing, Requests
  <2>4. UpOK'
    BY <1>1, <1>3, <1>7 DEF Live, UpOK
  <2>5. ManagerOK'
    BY <1>1, <1>3, <1>5, <1>7, <2>1 DEF Live, ManagerOK
  <2>6. TunnelOK'
    BY <1>1, <1>2, <1>3, <1>4, <1>7, <2>1 DEF Live, TunnelOK, Captures, Escape
  <2> QED BY <2>2, <2>3, <2>4, <2>5, <2>6 DEF Live
<1>8. CASE DoFails("main", Cancelled) /\ pc' = "drain" /\ todo' = <<>>
  <2>1. /\ holder' = "nobody" /\ doing' = "none" /\ undoing' = undoing /\ done' = done
        /\ force' \subseteq Ops /\ owed' \subseteq Ops /\ force' \subseteq Recorded' \cup owed'
        /\ force \ {doing} \subseteq force' /\ Touched' \subseteq Touched
    BY <1>2, <1>8, DoFailsDoes
  <2>2. Typed'
    BY <1>1, <1>2, <1>8, <2>1, EmptySeq DEF Typed, Places
  <2>3. StackOK'
    BY <1>1, <1>3, <1>8 DEF Live, StackOK, Ceiling, Footing, Requests
  <2>4. UpOK'
    BY <1>1, <1>3, <1>8 DEF Live, UpOK
  <2>5. ManagerOK'
    BY <1>1, <1>3, <1>5, <1>8, <2>1 DEF Live, ManagerOK
  <2>6. TunnelOK'
    BY <1>1, <1>2, <1>3, <1>6, <1>8, <2>1 DEF Live, TunnelOK, Captures, Escape
  <2> QED BY <2>2, <2>3, <2>4, <2>5, <2>6 DEF Live
<1> QED BY <1>1, <1>7, <1>8

\* The watcher, and on it the control socket, if it could be bound.
LEMMA StartServingKeeps == ASSUME Live, StartServing PROVE Live'
<1>1. /\ holder # "main" /\ (pc = "tun" \/ (pc = "apply" /\ ~job.tun)) /\ pc' = "serving"
      /\ todo' = todo
      /\ UNCHANGED <<job, force, manager, once, failed, asked, again>>
  BY DEF StartServing, Goto, outside
<1>2. PICK s \in ControlSocket : /\ up' = up \cup {"watcher"} \cup ToSet(s)
                                 /\ stack' = stack \o <<"watcher">> \o s
  BY DEF StartServing
<1>3. /\ once = "fresh" /\ holder = "nobody" /\ "control" \notin On
      /\ asked["panic"] # "running" /\ asked["reapply"] # "running"
      /\ On \subseteq Floor7 /\ stack \in Seq(Steps) /\ Stacked(stack)
  BY <1>1, NobodyAsksYet DEF Live, Typed, StackOK, Ceiling, ManagerOK, Floor7
<1>4. "watcher" \in Steps /\ "control" \in Steps
  BY DEF Steps, Floor8
<1>5. stack \o <<"watcher">> = Append(stack, "watcher")
  BY <1>3, <1>4, AppendIsConcat
<1> DEFINE w == Append(stack, "watcher")
<1>6. w \in Seq(Steps) /\ Stacked(w) /\ ToSet(w) = On \cup {"watcher"}
  <2>1. ToSet(stack) \subseteq Under("watcher")
    BY <1>3 DEF On, Under
  <2> QED BY <1>3, <1>4, <2>1, PushStacked DEF On
<1> HIDE DEF w
<1>7. /\ stack' \in Seq(Steps) /\ Stacked(stack')
      /\ \/ On' = On \cup {"watcher"} /\ up' = up \cup {"watcher"}
         \/ On' = On \cup {"watcher", "control"} /\ up' = up \cup {"watcher", "control"}
  <2>1. stack' = w \o s
    BY <1>2, <1>5 DEF w
  <2>2. CASE s = <<>>
    <3>1. stack' = w
      BY <1>6, <2>1, <2>2, ConcatEmptySeq
    <3> QED BY <1>2, <1>6, <2>2, <3>1, EmptyHasNone DEF On
  <2>3. CASE s = <<"control">>
    <3>1. stack' = Append(w, "control")
      BY <1>4, <1>6, <2>1, <2>3, AppendIsConcat
    <3>2. ToSet(w) \subseteq Under("control")
      BY <1>3, <1>6 DEF Under, Floor8
    <3>3. stack' \in Seq(Steps) /\ Stacked(stack') /\ ToSet(stack') = ToSet(w) \cup {"control"}
      BY <1>4, <1>6, <3>1, <3>2, PushStacked
    <3>4. ToSet(s) = {"control"}
      BY <2>3 DEF ToSet
    <3> QED BY <1>2, <1>6, <3>3, <3>4 DEF On
  <2> QED BY <1>2, <2>2, <2>3 DEF ControlSocket
<1>8. Touched' = Touched /\ Recorded' = Recorded /\ Escape' = Escape
  BY <1>1, Untouched DEF Escape
<1>9. Typed'
  BY <1>1, <1>7 DEF Live, Typed, manager, Places, Resources
<1>10. StackOK'
  BY <1>1, <1>3, <1>7 DEF Live, StackOK, Ceiling, Footing, Requests, Floor7, Floor6, Floor5,
     Floor4, Floor3, Floor2
<1>11. UpOK'
  BY <1>1, <1>7 DEF Live, UpOK
<1>12. ManagerOK'
  BY <1>1, <1>3, <1>7, <1>8 DEF Live, ManagerOK, manager
<1>13. TunnelOK'
  BY <1>1, <1>7, <1>8 DEF Live, TunnelOK, Captures, manager
<1> QED BY <1>9, <1>10, <1>11, <1>12, <1>13 DEF Live

-----------------------------------------------------------------------------
(* The main goroutine: the teardown.                                       *)

\* The top of the stack is popped: what lay under it is left.
LEMMA PopDoes ==
  ASSUME Live, NEW x, Draining(x), Pop
  PROVE  /\ pc = "drain" /\ pc' = "drain" /\ x \in On /\ x \in Steps
         /\ stack' \in Seq(Steps) /\ Stacked(stack')
         /\ On' = On \ {x} /\ On' \subseteq Under(x)
  BY PopStacked DEF Live, Typed, StackOK, Draining, Pop, Goto, On

\* The control socket is closed, the requests it took answered.
LEMMA CloseControlKeeps == ASSUME Live, CloseControl PROVE Live'
<1>1. /\ Draining("control") /\ Pop /\ up' = up \ {"control"}
      /\ (\A r \in DOMAIN asked : asked[r] # "running")
      /\ UNCHANGED <<job, todo, force, manager, once, failed, asked, again>>
  BY DEF CloseControl, outside
<1>2. /\ pc = "drain" /\ pc' = "drain" /\ stack' \in Seq(Steps) /\ Stacked(stack')
      /\ On' = On \ {"control"} /\ On' \subseteq Floor8
  BY <1>1, PopDoes DEF Under
<1>3. asked["panic"] # "running" /\ asked["reapply"] # "running"
  BY <1>1 DEF Live, Typed
<1>4. Touched' = Touched /\ Recorded' = Recorded /\ Escape' = Escape
  BY <1>1, Untouched DEF Escape
<1>5. Typed'
  BY <1>1, <1>2 DEF Live, Typed, manager
<1>6. StackOK'
  BY <1>1, <1>2, <1>3 DEF Live, StackOK, Ceiling, Footing, Requests
<1>7. UpOK'
  BY <1>1, <1>2 DEF Live, UpOK
<1>8. ManagerOK'
  BY <1>1, <1>2, <1>4 DEF Live, ManagerOK, manager
<1>9. TunnelOK'
  BY <1>1, <1>2, <1>4 DEF Live, TunnelOK, Captures, manager
<1> QED BY <1>5, <1>6, <1>7, <1>8, <1>9 DEF Live

\* A resource is released: the watcher while the settings still stand, the
\* others when nothing is touched any more.
LEMMA ReleaseKeeps == ASSUME Live, Release PROVE Live'
<1>1. Pop /\ UNCHANGED <<job, todo, force, manager, once, failed, asked, again>>
  BY DEF Release, outside
<1>2. PICK r \in {"watcher", "listeners", "store", "journal", "lock"} :
         Draining(r) /\ up' = up \ {r}
  BY DEF Release
<1>3. /\ pc = "drain" /\ pc' = "drain" /\ stack' \in Seq(Steps) /\ Stacked(stack')
      /\ On' = On \ {r} /\ On' \subseteq Under(r) /\ r \in On
  BY <1>1, <1>2, PopDoes
<1>4. /\ On' \subseteq Floor7 /\ "control" \notin On'
      /\ r # "watcher" => On' \subseteq Floor4 /\ "settings" \notin On /\ "tunnel" \notin On
      /\ r \in {"journal", "lock"} => On' \subseteq {"lock"}
      /\ r = "lock" => On' = {}
      /\ r = "store" => On' \subseteq Floor3
  BY <1>2, <1>3 DEF Under, Floor7, Floor6, Floor5, Floor4, Floor3, Floor2
<1>5. "control" \notin On
  BY <1>2, <1>3, <1>4
<1>6. asked["panic"] # "running" /\ asked["reapply"] # "running"
  BY <1>5 DEF Live, StackOK, Requests
<1>7. Touched' = Touched /\ Recorded' = Recorded /\ Escape' = Escape
  BY <1>1, Untouched DEF Escape
<1>8. r # "watcher" => Touched = {}
  BY <1>4 DEF Live, ManagerOK
<1>9. Typed'
  BY <1>1, <1>2, <1>3 DEF Live, Typed, manager
<1>10. StackOK'
  BY <1>1, <1>2, <1>3, <1>4, <1>6 DEF Live, StackOK, Ceiling, Footing, Requests, Floor7,
     Floor6, Floor5, Floor4, Floor3, Floor2
<1>11. UpOK'
  BY <1>1, <1>2, <1>3 DEF Live, UpOK
<1>12. ManagerOK'
  BY <1>1, <1>2, <1>3, <1>4, <1>5, <1>7, <1>8 DEF Live, ManagerOK, manager
<1>13. TunnelOK'
  BY <1>1, <1>2, <1>3, <1>7, <1>8 DEF Live, TunnelOK, Captures, manager
<1> QED BY <1>9, <1>10, <1>11, <1>12, <1>13 DEF Live

\* The janitor goes after the revert and before the journal.
LEMMA StopJanitorKeeps == ASSUME Live, StopJanitor PROVE Live'
<1>1. /\ Draining("janitor") /\ Pop /\ up' = up \ {"janitor"}
      /\ UNCHANGED <<job, todo, force, manager, once, failed, asked, again>>
  BY DEF StopJanitor, outside
<1>2. /\ pc = "drain" /\ pc' = "drain" /\ stack' \in Seq(Steps) /\ Stacked(stack')
      /\ On' = On \ {"janitor"} /\ On' \subseteq Floor2 /\ "janitor" \in On
  BY <1>1, PopDoes DEF Under
<1>3. "control" \notin On /\ "settings" \notin On /\ "tunnel" \notin On
  BY <1>2 DEF Floor2
<1>4. asked["panic"] # "running" /\ asked["reapply"] # "running" /\ Touched = {}
  BY <1>3 DEF Live, StackOK, Requests, ManagerOK
<1>5. Touched' = Touched /\ Recorded' = Recorded /\ Escape' = Escape
  BY <1>1, Untouched DEF Escape
<1>6. Typed'
  BY <1>1, <1>2 DEF Live, Typed, manager
<1>7. StackOK'
  BY <1>1, <1>2, <1>3, <1>4 DEF Live, StackOK, Ceiling, Footing, Requests, Floor7,
     Floor6, Floor5, Floor4, Floor3, Floor2
<1>8. UpOK'
  BY <1>1, <1>2 DEF Live, UpOK
<1>9. ManagerOK'
  BY <1>1, <1>2, <1>3, <1>4, <1>5 DEF Live, ManagerOK, manager
<1>10. TunnelOK'
  BY <1>1, <1>2, <1>4, <1>5 DEF Live, TunnelOK, Captures, manager
<1> QED BY <1>6, <1>7, <1>8, <1>9, <1>10 DEF Live

\* The tunnel's teardown takes the Manager.
LEMMA TearDownKeeps == ASSUME Live, TearDown PROVE Live'
<1>1. /\ pc = "drain" /\ pc' = "untun" /\ stack # <<>> /\ Last(stack) = "tunnel"
      /\ BeginUndo("main")
      /\ UNCHANGED <<job, todo, stack, up, force, once, failed, asked, again>>
  BY DEF TearDown, Draining, Goto, process, outside
<1>2. Typed /\ ManagerOK /\ CapturesLast(done)
  BY DEF Live, TunnelOK
<1>3. On' = On /\ "tunnel" \in On /\ On \subseteq Floor7
  <2>1. "tunnel" \in ToSet(stack) /\ ToSet(Front(stack)) \subseteq Under("tunnel")
          /\ ToSet(stack) = ToSet(Front(stack)) \cup {"tunnel"}
    BY <1>1, PopStacked, FrontSet DEF Live, Typed, StackOK
  <2> QED BY <1>1, <2>1 DEF On, Under, Floor7
<1>4. /\ holder = "nobody" /\ doing = "none" /\ doing' = "none" /\ holder' = "main"
      /\ undoing' = done /\ done' = <<>> /\ owed' = owed
      /\ Touched' = Touched /\ Recorded' = Recorded
      /\ CapturesLast(undoing') /\ CapturesLast(done')
  BY <1>1, <1>2, BeginUndoDoes
<1>5. "control" \notin On
  BY <1>3 DEF Floor7, Floor6, Floor5, Floor4, Floor3, Floor2
<1>6. Typed'
  BY <1>1, <1>2, <1>4, EmptySeq DEF Typed, Places, Actors
<1>7. StackOK'
  BY <1>1, <1>3 DEF Live, StackOK, Ceiling, Footing, Requests
<1>8. UpOK'
  BY <1>1, <1>3 DEF Live, UpOK
<1>9. ManagerOK'
  BY <1>1, <1>3, <1>4 DEF Live, ManagerOK
<1>10. TunnelOK'
  BY <1>1, <1>3, <1>4 DEF Live, TunnelOK, Captures, Escape
<1> QED BY <1>6, <1>7, <1>8, <1>9, <1>10 DEF Live

\* Every change reverted, the datapath and the device go.
LEMMA CloseDeviceKeeps == ASSUME Live, CloseDevice PROVE Live'
<1>1. /\ pc = "untun" /\ pc' = "drain" /\ stack' = Front(stack) /\ Undone("main")
      /\ up' = up \ {"datapath", "device"} /\ force' = force \ DeviceOps
      /\ UNCHANGED <<job, todo, once, failed, asked, again>>
  BY DEF CloseDevice, Pop, Goto, outside
<1>2. Typed /\ ManagerOK /\ CapturesLast(done) /\ CapturesLast(undoing)
  BY DEF Live, TunnelOK
<1>3. /\ holder = "main" /\ undoing = <<>> /\ doing = "none" /\ holder' = "nobody"
      /\ UNCHANGED <<done, owed, doing, undoing>>
      /\ Touched' = {} /\ Recorded' = Recorded /\ done = <<>>
  BY <1>1, <1>2, UndoneDoes DEF ManagerOK
<1>4. /\ stack' \in Seq(Steps) /\ Stacked(stack') /\ On' = On \ {Last(stack)}
      /\ On' \subseteq Under(Last(stack)) /\ Last(stack) \in On /\ Last(stack) \in Steps
  <2>1. stack # <<>>
    BY <1>1, EmptyHasNone DEF Live, StackOK, Footing, On
  <2> QED BY <1>1, <2>1, PopStacked DEF Live, Typed, StackOK, On
<1>5. Last(stack) = "tunnel"
  <2>1. On \subseteq Floor7 /\ "tunnel" \in On
    BY <1>1 DEF Live, StackOK, Ceiling, Footing
  <2>2. \A x \in Floor6 : "tunnel" \notin Under(x)
    BY DEF Under, Floor6, Floor5, Floor4, Floor3, Floor2
  <2> QED BY <1>4, <2>1, <2>2 DEF Floor7
<1>6. On' \subseteq Floor6 /\ "control" \notin On /\ "control" \notin On' /\ "watcher" \notin On'
  BY <1>1, <1>4, <1>5 DEF Under, Floor7, Floor6, Floor5, Floor4, Floor3, Floor2, Live, StackOK,
     Ceiling
<1>7. asked["panic"] # "running" /\ asked["reapply"] # "running"
  BY <1>6 DEF Live, StackOK, Requests
<1>8. Typed'
  BY <1>1, <1>2, <1>3, <1>4 DEF Typed, Places
<1>9. StackOK'
  BY <1>1, <1>4, <1>5, <1>6, <1>7 DEF Live, StackOK, Ceiling, Footing, Requests, Floor7,
     Floor6
<1>10. UpOK'
  BY <1>1, <1>4, <1>5 DEF Live, UpOK, Typed, Resources
<1>11. ManagerOK'
  BY <1>1, <1>3, <1>6, <1>7 DEF Live, ManagerOK
<1>12. TunnelOK'
  BY <1>1, <1>2, <1>3 DEF Live, TunnelOK, Captures
<1> QED BY <1>8, <1>9, <1>10, <1>11, <1>12 DEF Live

\* The settings' step: it takes the Manager, or finds the revert done.
LEMMA RevertSettingsKeeps == ASSUME Live, RevertSettings PROVE Live'
<1>1. /\ Draining("settings")
      /\ UNCHANGED <<job, todo, up, force, failed, asked, again>>
  BY DEF RevertSettings, outside
<1>2. Typed /\ ManagerOK /\ CapturesLast(done) /\ CapturesLast(undoing)
  BY DEF Live, TunnelOK
<1>3. /\ pc = "drain" /\ "settings" \in On /\ On \subseteq Floor6
  <2>1. "settings" \in ToSet(stack) /\ ToSet(Front(stack)) \subseteq Under("settings")
          /\ ToSet(stack) = ToSet(Front(stack)) \cup {"settings"}
    BY <1>1, PopStacked, FrontSet DEF Live, Typed, StackOK, Draining
  <2> QED BY <1>1, <2>1 DEF On, Under, Floor6, Draining
<1>4. "control" \notin On /\ "tunnel" \notin On
  BY <1>3 DEF Floor6, Floor5, Floor4, Floor3, Floor2
<1>5. CASE once = "fresh" /\ once' = "running" /\ BeginUndo("main") /\ Goto("unset")
           /\ UNCHANGED stack
  <2>1. On' = On /\ pc' = "unset"
    BY <1>5 DEF On, Goto
  <2>2. /\ holder = "nobody" /\ doing = "none" /\ doing' = "none" /\ holder' = "main"
        /\ undoing' = done /\ done' = <<>> /\ owed' = owed
        /\ Touched' = Touched /\ Recorded' = Recorded
        /\ CapturesLast(undoing') /\ CapturesLast(done')
    BY <1>2, <1>5, BeginUndoDoes
  <2>3. Typed'
    BY <1>1, <1>2, <1>5, <2>1, <2>2, EmptySeq DEF Typed, Places, Actors
  <2>4. StackOK'
    BY <1>1, <1>3, <1>5, <2>1 DEF Live, StackOK, Ceiling, Footing, Requests
  <2>5. UpOK'
    BY <1>1, <1>3, <2>1 DEF Live, UpOK
  <2>6. ManagerOK'
    BY <1>1, <1>3, <1>4, <1>5, <2>1, <2>2 DEF Live, ManagerOK, StackOK, Footing
  <2>7. TunnelOK'
    BY <1>1, <1>3, <1>4, <2>1, <2>2 DEF Live, TunnelOK, Captures, Escape
  <2> QED BY <2>3, <2>4, <2>5, <2>6, <2>7 DEF Live
<1>6. CASE once = "used" /\ Pop /\ UNCHANGED <<once, manager>>
  <2>1. /\ pc' = "drain" /\ stack' \in Seq(Steps) /\ Stacked(stack')
        /\ On' = On \ {"settings"} /\ On' \subseteq Floor5
    BY <1>1, <1>6, PopDoes DEF Under
  <2>2. Touched' = Touched /\ Recorded' = Recorded /\ Touched = {}
    BY <1>2, <1>6, Untouched DEF ManagerOK
  <2>3. asked["panic"] # "running" /\ asked["reapply"] # "running"
    BY <1>4 DEF Live, StackOK, Requests
  <2>4. Typed'
    BY <1>1, <1>2, <1>6, <2>1 DEF Typed, manager, Places
  <2>5. StackOK'
    BY <1>1, <1>3, <1>4, <2>1, <2>3 DEF Live, StackOK, Ceiling, Footing, Requests, Floor6
  <2>6. UpOK'
    BY <1>1, <1>3, <2>1 DEF Live, UpOK, Typed, Resources
  <2>7. ManagerOK'
    BY <1>1, <1>3, <1>4, <1>6, <2>1, <2>2 DEF Live, ManagerOK, manager
  <2>8. TunnelOK'
    BY <1>1, <1>6, <2>1, <2>2 DEF Live, TunnelOK, Captures, manager
  <2> QED BY <2>4, <2>5, <2>6, <2>7, <2>8 DEF Live
<1> QED BY <1>5, <1>6 DEF RevertSettings

\* The settings are reverted, and revertOnce is used up.
LEMMA SettingsRevertedKeeps == ASSUME Live, SettingsReverted PROVE Live'
<1>1. /\ pc = "unset" /\ pc' = "drain" /\ stack' = Front(stack) /\ Undone("main")
      /\ once' = "used"
      /\ UNCHANGED <<job, todo, up, force, failed, asked, again>>
  BY DEF SettingsReverted, Pop, Goto, outside
<1>2. Typed /\ ManagerOK /\ CapturesLast(done) /\ CapturesLast(undoing)
  BY DEF Live, TunnelOK
<1>3. /\ holder = "main" /\ undoing = <<>> /\ doing = "none" /\ holder' = "nobody"
      /\ UNCHANGED <<done, owed, doing, undoing>>
      /\ Touched' = {} /\ Recorded' = Recorded /\ done = <<>>
  BY <1>1, <1>2, UndoneDoes DEF ManagerOK
<1>4. /\ stack' \in Seq(Steps) /\ Stacked(stack') /\ On' = On \ {Last(stack)}
      /\ On' \subseteq Under(Last(stack)) /\ Last(stack) \in On /\ Last(stack) \in Steps
  <2>1. stack # <<>>
    BY <1>1, EmptyHasNone DEF Live, StackOK, Footing, On
  <2> QED BY <1>1, <2>1, PopStacked DEF Live, Typed, StackOK, On
<1>5. Last(stack) = "settings"
  <2>1. On \subseteq Floor6 /\ "settings" \in On
    BY <1>1 DEF Live, StackOK, Ceiling, Footing
  <2>2. \A x \in Floor5 : "settings" \notin Under(x)
    BY DEF Under, Floor5, Floor4, Floor3, Floor2
  <2> QED BY <1>4, <2>1, <2>2 DEF Floor6
<1>6. /\ On' \subseteq Floor5 /\ "control" \notin On /\ "tunnel" \notin On
      /\ On \subseteq Floor6 /\ ChangesSettings(job) /\ "control" \notin On'
  BY <1>1, <1>4, <1>5 DEF Under, Floor6, Floor5, Floor4, Floor3, Floor2, Live, StackOK,
     Ceiling, Footing
<1>7. asked["panic"] # "running" /\ asked["reapply"] # "running"
  BY <1>6 DEF Live, StackOK, Requests
<1>8. Typed'
  BY <1>1, <1>2, <1>3, <1>4 DEF Typed, Places
<1>9. StackOK'
  BY <1>1, <1>4, <1>5, <1>6, <1>7 DEF Live, StackOK, Ceiling, Footing, Requests, Floor6
<1>10. UpOK'
  BY <1>1, <1>4, <1>5 DEF Live, UpOK, Typed, Resources
<1>11. ManagerOK'
  BY <1>1, <1>3, <1>6, <1>7 DEF Live, ManagerOK
<1>12. TunnelOK'
  BY <1>1, <1>2, <1>3 DEF Live, TunnelOK, Captures
<1> QED BY <1>8, <1>9, <1>10, <1>11, <1>12 DEF Live

\* A revert of the main goroutine takes one step.
LEMMA RevertNextKeeps == ASSUME Live, RevertNext PROVE Live'
<1>1. /\ pc \in {"untun", "unset"} /\ UndoOne("main")
      /\ UNCHANGED <<job, pc, todo, stack, up, once, failed, asked, again>>
  BY DEF RevertNext, process, outside
<1>2. Typed /\ ManagerOK /\ CapturesLast(done) /\ CapturesLast(undoing)
  BY DEF Live, TunnelOK
<1>3. doing = "none" /\ done = <<>> /\ holder = "main" /\ On' = On
  BY <1>1, <1>2 DEF ManagerOK, On
<1>4. /\ holder' = holder /\ doing' = doing /\ done' = done /\ undoing' \in Seq(Rec)
      /\ force' \subseteq force /\ owed' \subseteq Ops /\ force' \subseteq Recorded' \cup owed'
      /\ Touched' \subseteq Touched /\ CapturesLast(undoing')
      /\ Captures' /\ "scope4" \in force => "scope4" \in force'
  BY <1>1, <1>2, <1>3, UndoOneDoes
<1>5. Typed'
  BY <1>1, <1>2, <1>4 DEF Typed
<1>6. StackOK'
  BY <1>1, <1>3 DEF Live, StackOK, Ceiling, Footing, Requests
<1>7. UpOK'
  BY <1>1, <1>3 DEF Live, UpOK
<1>8. ManagerOK'
  BY <1>1, <1>3, <1>4 DEF Live, ManagerOK
<1>9. TunnelOK'
  BY <1>1, <1>2, <1>3, <1>4 DEF Live, TunnelOK, Captures, Escape
<1> QED BY <1>5, <1>6, <1>7, <1>8, <1>9 DEF Live

-----------------------------------------------------------------------------
(* The requests on the control socket.                                     *)

\* A request is taken.
LEMMA AskKeeps ==
  ASSUME Live, NEW r \in {"panic", "reapply"}, Ask(r) PROVE Live'
<1>1. /\ r \in job.may /\ "control" \in up /\ asked[r] = "idle"
      /\ r = "reapply" => ChangesSettings(job)
      /\ asked' = [asked EXCEPT ![r] = "running"]
      /\ again' = IF r = "reapply" THEN ProxyPlan(job) ELSE again
      /\ UNCHANGED <<job, pc, todo, stack, up, force, manager, once, failed>>
  BY DEF Ask, May, process
<1>2. /\ asked' \in [{"panic", "reapply"} -> {"idle", "running", "replied"}]
      /\ asked'[r] = "running"
      /\ \A q \in {"panic", "reapply"} : q # r => asked'[q] = asked[q]
  BY <1>1 DEF Live, Typed
<1>3. On' = On /\ "control" \in On
  BY <1>1 DEF On, Live, UpOK
<1>4. Touched' = Touched /\ Recorded' = Recorded /\ Escape' = Escape
  BY <1>1, Untouched DEF Escape
<1>5. again' \in Seq(ProxyOps)
  BY <1>1, ProxyPlanTyped DEF Live, Typed
<1>6. Typed'
  BY <1>1, <1>2, <1>5 DEF Live, Typed, manager
<1>7. StackOK'
  <2>1. Requests'
    BY <1>1, <1>2, <1>3 DEF Live, StackOK, Requests
  <2> QED BY <1>1, <1>3, <2>1 DEF Live, StackOK, Ceiling, Footing
<1>8. UpOK'
  BY <1>1, <1>3 DEF Live, UpOK
<1>9. ManagerOK'
  BY <1>1, <1>2, <1>3, <1>4 DEF Live, ManagerOK, manager
<1>10. TunnelOK'
  BY <1>1, <1>3, <1>4 DEF Live, TunnelOK, Captures, manager
<1> QED BY <1>6, <1>7, <1>8, <1>9, <1>10 DEF Live

\* Where the main goroutine may be while a request runs.
LEMMA WhileAsked ==
  ASSUME Live, NEW r \in {"panic", "reapply"}, asked[r] = "running"
  PROVE  /\ pc \in {"serving", "drain", "gone"} /\ "control" \in On /\ r \in job.may
         /\ "settings" \in On \/ ~ChangesSettings(job)
<1>1. "control" \in On /\ r \in job.may
  BY DEF Live, StackOK, Requests
<1>2. /\ "control" \notin Floor7 /\ "control" \notin Floor6 /\ "control" \notin Floor5
      /\ "control" \notin Floor4 /\ "control" \notin Floor3 /\ "control" \notin Floor2
  BY DEF Floor7, Floor6, Floor5, Floor4, Floor3, Floor2
<1>3. pc \in {"serving", "drain", "gone"}
  BY <1>1, <1>2 DEF Live, Typed, Places, StackOK, Ceiling
<1> QED BY <1>1, <1>2, <1>3 DEF Live, StackOK, Footing

\* The panic takes revertOnce and the Manager.
LEMMA PanicRevertsKeeps == ASSUME Live, pc # "gone", PanicReverts PROVE Live'
<1>1. /\ asked["panic"] = "running" /\ ChangesSettings(job)
      /\ once = "fresh" /\ once' = "running" /\ BeginUndo("panic")
      /\ UNCHANGED <<job, pc, todo, stack, up, force, failed, asked, again>>
  BY DEF PanicReverts, Running, process, outside
<1>2. Typed /\ ManagerOK /\ CapturesLast(done)
  BY DEF Live, TunnelOK
<1>3. On' = On /\ pc \in {"serving", "drain"} /\ "panic" \in job.may
  BY <1>1, WhileAsked DEF On
<1>4. /\ holder = "nobody" /\ doing = "none" /\ doing' = "none" /\ holder' = "panic"
      /\ undoing' = done /\ done' = <<>> /\ owed' = owed
      /\ Touched' = Touched /\ Recorded' = Recorded
      /\ CapturesLast(undoing') /\ CapturesLast(done')
  BY <1>1, <1>2, BeginUndoDoes
<1>5. Typed'
  BY <1>1, <1>2, <1>4, EmptySeq DEF Typed, Actors
<1>6. StackOK'
  BY <1>1, <1>3 DEF Live, StackOK, Ceiling, Footing, Requests
<1>7. UpOK'
  BY <1>1, <1>3 DEF Live, UpOK
<1>8. ManagerOK'
  BY <1>1, <1>3, <1>4 DEF Live, ManagerOK
<1>9. TunnelOK'
  BY <1>1, <1>3, <1>4 DEF Live, TunnelOK, Captures, Escape
<1> QED BY <1>5, <1>6, <1>7, <1>8, <1>9 DEF Live

\* The panic's revert takes one step.
LEMMA PanicNextKeeps == ASSUME Live, PanicNext PROVE Live'
<1>1. /\ UndoOne("panic")
      /\ UNCHANGED <<job, pc, todo, stack, up, once, failed, asked, again>>
  BY DEF PanicNext, process, outside
<1>2. Typed /\ ManagerOK /\ CapturesLast(done) /\ CapturesLast(undoing)
  BY DEF Live, TunnelOK
<1>3. doing = "none" /\ done = <<>> /\ holder = "panic" /\ On' = On /\ pc # "tun"
  BY <1>1, <1>2, UndoOneDoes DEF ManagerOK, On
<1>4. /\ holder' = holder /\ doing' = doing /\ done' = done /\ undoing' \in Seq(Rec)
      /\ force' \subseteq force /\ owed' \subseteq Ops /\ force' \subseteq Recorded' \cup owed'
      /\ Touched' \subseteq Touched /\ CapturesLast(undoing')
      /\ Captures' /\ "scope4" \in force => "scope4" \in force'
  BY <1>1, <1>2, <1>3, UndoOneDoes
<1>5. Typed'
  BY <1>1, <1>2, <1>4 DEF Typed
<1>6. StackOK'
  BY <1>1, <1>3 DEF Live, StackOK, Ceiling, Footing, Requests
<1>7. UpOK'
  BY <1>1, <1>3 DEF Live, UpOK
<1>8. ManagerOK'
  BY <1>1, <1>3, <1>4 DEF Live, ManagerOK
<1>9. TunnelOK'
  BY <1>1, <1>2, <1>3, <1>4 DEF Live, TunnelOK, Captures, Escape
<1> QED BY <1>5, <1>6, <1>7, <1>8, <1>9 DEF Live

\* The panic answers: its revert is over, or there was nothing to revert.
LEMMA PanicRepliesKeeps == ASSUME Live, pc # "gone", PanicReplies PROVE Live'
<1>1. /\ asked["panic"] = "running" /\ asked' = [asked EXCEPT !["panic"] = "replied"]
      /\ \/ Undone("panic") /\ once' = "used"
         \/ ~ChangesSettings(job) /\ UNCHANGED <<manager, once>>
      /\ UNCHANGED <<job, pc, todo, stack, up, force, failed, again>>
  BY DEF PanicReplies, Running, Reply, process
<1>2. Typed /\ ManagerOK /\ CapturesLast(done) /\ CapturesLast(undoing)
  BY DEF Live, TunnelOK
<1>3. /\ asked' \in [{"panic", "reapply"} -> {"idle", "running", "replied"}]
      /\ asked'["panic"] = "replied" /\ asked'["reapply"] = asked["reapply"]
  BY <1>1, <1>2 DEF Typed
<1>4. On' = On /\ pc \in {"serving", "drain"} /\ "panic" \in job.may
  BY <1>1, WhileAsked DEF On
<1>5. StackOK'
  <2>1. Requests'
    BY <1>1, <1>3, <1>4 DEF Live, StackOK, Requests
  <2> QED BY <1>1, <1>4, <2>1 DEF Live, StackOK, Ceiling, Footing
<1>6. UpOK'
  BY <1>1, <1>4 DEF Live, UpOK
<1>7. CASE Undone("panic") /\ once' = "used"
  <2>1. /\ holder = "panic" /\ undoing = <<>> /\ doing = "none" /\ holder' = "nobody"
        /\ UNCHANGED <<done, owed, doing, undoing>>
        /\ Touched' = Touched /\ Recorded' = Recorded
        /\ done = <<>> => Touched = {}
    BY <1>2, <1>7, UndoneDoes
  <2>2. Touched = {} /\ once # "fresh"
    BY <1>2, <2>1 DEF ManagerOK
  <2>3. Typed'
    BY <1>1, <1>2, <1>3, <1>7, <2>1 DEF Typed
  <2>4. ManagerOK'
    BY <1>1, <1>3, <1>4, <1>7, <2>1, <2>2 DEF Live, ManagerOK
  <2>5. TunnelOK'
    BY <1>1, <1>2, <1>4, <2>1, <2>2 DEF Live, TunnelOK, Captures
  <2> QED BY <1>5, <1>6, <2>3, <2>4, <2>5 DEF Live
<1>8. CASE ~ChangesSettings(job) /\ UNCHANGED <<manager, once>>
  <2>1. once = "fresh" /\ holder # "panic"
    BY <1>2, <1>8 DEF ManagerOK
  <2>2. Touched' = Touched /\ Recorded' = Recorded
    BY <1>8, Untouched
  <2>3. Typed'
    BY <1>1, <1>2, <1>3, <1>8 DEF Typed, manager
  <2>4. ManagerOK'
    BY <1>1, <1>3, <1>4, <1>8, <2>1, <2>2 DEF Live, ManagerOK, manager
  <2>5. TunnelOK'
    BY <1>1, <1>2, <1>4, <1>8, <2>2 DEF Live, TunnelOK, Captures, Escape, manager
  <2> QED BY <1>5, <1>6, <2>3, <2>4, <2>5 DEF Live
<1> QED BY <1>1, <1>7, <1>8

\* The re-apply begins a setting.  Here the two requests must not both come.
LEMMA ReapplyKeeps == ASSUME Live, pc # "gone", NotBoth, Reapply PROVE Live'
<1>1. /\ asked["reapply"] = "running" /\ again # <<>> /\ BeginDo("reapply", Head(again))
      /\ again' = Tail(again)
      /\ UNCHANGED <<job, pc, todo, stack, up, force, once, failed, asked>>
  BY DEF Reapply, Running, process
<1>2. Typed /\ ManagerOK /\ CapturesLast(done) /\ CapturesLast(undoing)
  BY DEF Live, TunnelOK
<1>3. /\ On' = On /\ pc \in {"serving", "drain"} /\ "control" \in On /\ "settings" \in On
      /\ "reapply" \in job.may /\ "panic" \notin job.may /\ ChangesSettings(job)
  BY <1>1, WhileAsked DEF On, NotBoth, Live, StackOK, Requests
<1>4. once = "fresh"
  BY <1>2, <1>3 DEF ManagerOK, Typed
<1>5. again' \in Seq(ProxyOps) /\ Head(again) \in ProxyOps
  BY <1>1, <1>2, TailSet DEF Typed
<1>6. /\ Head(again) \in Ops /\ Head(again) # "none"
      /\ Head(again) # "scope4" /\ Head(again) \notin CaptureOps
  BY <1>5 DEF Ops, ProxyOps, CaptureOps, Capture6
<1>7. /\ holder = "nobody" /\ doing = "none" /\ undoing = <<>>
      /\ owed' = owed /\ undoing' = undoing /\ done' \in Seq(Rec)
      /\ Recorded' = Recorded
      /\ \/ Touched' = Touched
         \/ ~job.dry /\ Touched' = Touched \cup {Head(again)}
      /\ \/ holder' = holder /\ doing' = doing
         \/ holder' = "reapply" /\ doing' = Head(again)
      /\ CapturesLast(done')
  BY <1>1, <1>2, <1>6, BeginDoDoes
<1>8. Typed'
  BY <1>1, <1>2, <1>5, <1>6, <1>7 DEF Typed, Actors
<1>9. StackOK'
  BY <1>1, <1>3 DEF Live, StackOK, Ceiling, Footing, Requests
<1>10. UpOK'
  BY <1>1, <1>3 DEF Live, UpOK
<1>11. ManagerOK'
  BY <1>1, <1>3, <1>4, <1>6, <1>7 DEF Live, ManagerOK
<1>12. TunnelOK'
  BY <1>1, <1>2, <1>3, <1>5, <1>6, <1>7 DEF Live, TunnelOK, Captures, Escape
<1> QED BY <1>8, <1>9, <1>10, <1>11, <1>12 DEF Live

\* The re-applied setting is in force, or it failed.
LEMMA ReappliedKeeps == ASSUME Live, pc # "gone", NotBoth, Reapplied PROVE Live'
<1>1. /\ asked["reapply"] = "running" /\ (DoWorks("reapply") \/ DoFails("reapply", FALSE))
      /\ UNCHANGED <<job, pc, todo, stack, up, once, failed, asked, again>>
  BY DEF Reapplied, Running, process, outside
<1>2. Typed /\ ManagerOK /\ CapturesLast(done) /\ CapturesLast(undoing)
  BY DEF Live, TunnelOK
<1>3. /\ On' = On /\ pc \in {"serving", "drain"} /\ "control" \in On
      /\ "reapply" \in job.may /\ "panic" \notin job.may
  BY <1>1, WhileAsked DEF On, NotBoth
<1>4. once = "fresh" /\ holder = "reapply"
  BY <1>1, <1>2, <1>3 DEF ManagerOK, Typed, DoWorks, DoFails
<1>5. doing \in ProxyOps /\ doing # "scope4"
  BY <1>4 DEF Live, TunnelOK, ProxyOps
<1>6. /\ holder' = "nobody" /\ doing' = "none" /\ undoing' = undoing /\ done' \in Seq(Rec)
      /\ force' \subseteq Ops /\ owed' \subseteq Ops /\ force' \subseteq Recorded' \cup owed'
      /\ force \ {doing} \subseteq force'
      /\ Touched' \subseteq Touched /\ CapturesLast(done')
  <2>1. CASE DoWorks("reapply")
    BY <1>2, <1>5, <2>1, DoWorksDoes DEF Typed
  <2>2. CASE DoFails("reapply", FALSE)
    BY <1>2, <2>2, DoFailsDoes DEF Typed
  <2> QED BY <1>1, <2>1, <2>2
<1>7. undoing = <<>>
  BY <1>2, <1>4 DEF ManagerOK
<1>8. Typed'
  BY <1>1, <1>2, <1>6 DEF Typed
<1>9. StackOK'
  BY <1>1, <1>3 DEF Live, StackOK, Ceiling, Footing, Requests
<1>10. UpOK'
  BY <1>1, <1>3 DEF Live, UpOK
<1>11. ManagerOK'
  BY <1>1, <1>3, <1>4, <1>6, <1>7 DEF Live, ManagerOK
<1>12. TunnelOK'
  BY <1>1, <1>2, <1>3, <1>5, <1>6 DEF Live, TunnelOK, Captures, Escape
<1> QED BY <1>8, <1>9, <1>10, <1>11, <1>12 DEF Live

\* The re-apply answers.
LEMMA ReapplyRepliesKeeps == ASSUME Live, ReapplyReplies PROVE Live'
<1>1. /\ asked' = [asked EXCEPT !["reapply"] = "replied"] /\ holder # "reapply"
      /\ UNCHANGED <<job, pc, todo, stack, up, force, manager, once, failed, again>>
  BY DEF ReapplyReplies, Reply, process
<1>2. /\ asked' \in [{"panic", "reapply"} -> {"idle", "running", "replied"}]
      /\ asked'["reapply"] = "replied" /\ asked'["panic"] = asked["panic"]
  BY <1>1 DEF Live, Typed
<1>3. On' = On
  BY <1>1 DEF On
<1>4. Touched' = Touched /\ Recorded' = Recorded /\ Escape' = Escape
  BY <1>1, Untouched DEF Escape
<1>5. Typed'
  BY <1>1, <1>2 DEF Live, Typed, manager
<1>6. StackOK'
  <2>1. Requests'
    BY <1>1, <1>2, <1>3 DEF Live, StackOK, Requests
  <2> QED BY <1>1, <1>3, <2>1 DEF Live, StackOK, Ceiling, Footing
<1>7. UpOK'
  BY <1>1, <1>3 DEF Live, UpOK
<1>8. ManagerOK'
  BY <1>1, <1>2, <1>3, <1>4 DEF Live, ManagerOK, manager
<1>9. TunnelOK'
  BY <1>1, <1>3, <1>4 DEF Live, TunnelOK, Captures, manager
<1> QED BY <1>5, <1>6, <1>7, <1>8, <1>9 DEF Live

-----------------------------------------------------------------------------
(* The other goroutines, and what comes from outside.                      *)

\* A re-verification puts back only what is on the Manager's list.
LEMMA ReverifyKeeps == ASSUME Live, Reverify PROVE Live'
<1>1. UNCHANGED <<job, pc, todo, stack, up, manager, once, failed, asked, again>>
  BY DEF Reverify, process
<1>2. force \subseteq force' /\ force' \subseteq force \cup Ours(done)
  BY DEF Reverify
<1>3. On' = On
  BY <1>1 DEF On
<1>4. Touched' = Touched /\ Recorded' = Recorded
  BY <1>1, Untouched
<1>5. Ours(done) \subseteq Ops /\ Ours(done) \subseteq Recorded
  BY OursIsNamed DEF Live, Typed, Recorded
<1>6. Typed'
  BY <1>1, <1>2, <1>5 DEF Live, Typed, manager
<1>7. StackOK'
  BY <1>1, <1>3 DEF Live, StackOK, Ceiling, Footing, Requests
<1>8. UpOK'
  BY <1>1, <1>3 DEF Live, UpOK
<1>9. ManagerOK'
  BY <1>1, <1>2, <1>3, <1>4, <1>5 DEF Live, ManagerOK, manager
<1>10. TunnelOK'
  BY <1>1, <1>2, <1>3, <1>4 DEF Live, TunnelOK, Captures, Escape, manager
<1> QED BY <1>6, <1>7, <1>8, <1>9, <1>10 DEF Live

\* A server dies, and says so.
LEMMA DiesKeeps == ASSUME Live, NEW r \in {"listener", "datapath"}, Dies(r) PROVE Live'
<1>1. /\ pc \notin {"build", "listen"} /\ failed' = TRUE
      /\ up' = up \ {"listeners"} \/ up' = up \ {"datapath"}
      /\ UNCHANGED <<job, pc, todo, stack, force, manager, once, asked, again>>
  BY DEF Dies, ServeFailed
<1>2. On' = On
  BY <1>1 DEF On
<1>3. Touched' = Touched /\ Recorded' = Recorded /\ Escape' = Escape
  BY <1>1, Untouched DEF Escape
<1>4. Typed'
  BY <1>1 DEF Live, Typed, manager
<1>5. StackOK'
  BY <1>1, <1>2 DEF Live, StackOK, Ceiling, Footing, Requests
<1>6. UpOK'
  BY <1>1, <1>2 DEF Live, UpOK
<1>7. ManagerOK'
  BY <1>1, <1>2, <1>3 DEF Live, ManagerOK, manager
<1>8. TunnelOK'
  BY <1>1, <1>2, <1>3 DEF Live, TunnelOK, Captures, manager
<1> QED BY <1>4, <1>5, <1>6, <1>7, <1>8 DEF Live

\* A signal or the watcher's refusal: the main loop is told, no more.
LEMMA ToldKeeps ==
  ASSUME Live, failed' \in BOOLEAN, failed => failed',
         UNCHANGED <<job, pc, todo, stack, up, force, manager, once, asked, again>>
  PROVE  Live'
<1>1. On' = On
  BY DEF On
<1>2. Touched' = Touched /\ Recorded' = Recorded /\ Escape' = Escape
  BY Untouched DEF Escape
<1>3. Typed'
  BY DEF Live, Typed, manager
<1>4. StackOK'
  BY <1>1 DEF Live, StackOK, Ceiling, Footing, Requests
<1>5. UpOK'
  BY <1>1 DEF Live, UpOK
<1>6. ManagerOK'
  BY <1>1, <1>2 DEF Live, ManagerOK, manager
<1>7. TunnelOK'
  BY <1>1, <1>2 DEF Live, TunnelOK, Captures, manager
<1> QED BY <1>3, <1>4, <1>5, <1>6, <1>7 DEF Live

\* macOS drops a change.
LEMMA FlushKeeps == ASSUME Live, Flush PROVE Live'
<1>1. UNCHANGED <<job, pc, todo, stack, up, manager, once, failed, asked, again>>
  BY DEF Flush, process
<1>2. PICK op \in job.flushes \cap force : force' = force \ {op}
  BY DEF Flush
<1>3. On' = On
  BY <1>1 DEF On
<1>4. Touched' = Touched /\ Recorded' = Recorded
  BY <1>1, Untouched
<1>5. Escape' = Escape
  BY <1>1, <1>2 DEF Escape
<1>6. Typed'
  BY <1>1, <1>2 DEF Live, Typed, manager
<1>7. StackOK'
  BY <1>1, <1>3 DEF Live, StackOK, Ceiling, Footing, Requests
<1>8. UpOK'
  BY <1>1, <1>3 DEF Live, UpOK
<1>9. ManagerOK'
  BY <1>1, <1>2, <1>3, <1>4 DEF Live, ManagerOK, manager
<1>10. TunnelOK'
  BY <1>1, <1>3, <1>4, <1>5 DEF Live, TunnelOK, Captures, manager
<1> QED BY <1>6, <1>7, <1>8, <1>9, <1>10 DEF Live

-----------------------------------------------------------------------------
(* The end of the process, and what comes after it.                        *)

\* The stack unwound, nothing is up and nothing is in force that could be
\* reverted.
LEMMA ReturnIsClean ==
  ASSUME Live, Return
  PROVE  Typed' /\ force' \subseteq owed' /\ up' = {} /\ done' = <<>>
<1>1. /\ pc = "drain" /\ stack = <<>> /\ pc' = "gone"
      /\ UNCHANGED <<job, todo, stack, up, force, manager, once, failed, asked, again>>
  BY DEF Return, Goto, process, outside
<1>2. On = {}
  BY <1>1, EmptyHasNone DEF On
<1>3. Touched = {}
  BY <1>2 DEF Live, ManagerOK
<1>4. done \in Seq(Rec) /\ undoing \in Seq(Rec)
  BY DEF Live, Typed
<1>5. done = <<>> /\ undoing = <<>>
  BY <1>3, <1>4, NamesNothing DEF Touched
<1>6. Recorded = {}
  BY <1>5, EmptyNames DEF Recorded
<1>7. force \subseteq owed
  BY <1>6 DEF Live, ManagerOK
<1>8. up = {}
  BY <1>1, <1>2 DEF Live, UpOK
<1>9. Typed'
  BY <1>1 DEF Live, Typed, manager, Places
<1> QED BY <1>1, <1>5, <1>7, <1>8, <1>9 DEF manager

\* The death of the process breaks no type.
LEMMA DeathTyped ==
  ASSUME Typed, Death, UNCHANGED <<job, failed, asked, again>>
  PROVE  Typed' /\ exit' = "killed" /\ pc' = "gone"
<1>1. /\ exit' = "killed" /\ pc' = "gone" /\ up' = up \cap {"janitor"}
      /\ UNCHANGED <<todo, stack, manager, once>>
  BY DEF Death, Goto
<1>2. PICK made \in SUBSET ({doing} \ {"none"}) : force' = (force \cup made) \ DeviceOps
  BY DEF Death
<1>3. force' \subseteq Ops
  BY <1>2 DEF Typed
<1> QED BY <1>1, <1>3 DEF Typed, manager, Places

\* What a replay leaves in force and recorded is what was stuck: after a
\* clean end nothing else is in force.
LEMMA ReplayLeavesOwed ==
  ASSUME Typed, Replay, UNCHANGED <<job, pc, todo, stack, once, failed, asked, again>>,
         up' \subseteq up
  PROVE  /\ Typed' /\ done' = <<>>
         /\ force \subseteq owed => force' \subseteq owed'
<1>1. PICK left \in SUBSET (force \cap Journalled) :
         /\ force' = (force \ Journalled) \cup left
         /\ owed' = left
  BY DEF Replay
<1>2. done' = <<>> /\ undoing' = <<>> /\ doing' = "none" /\ holder' = "nobody"
  BY DEF Replay
<1>3. owed \subseteq Journalled
  BY DEF Journalled
<1>4. Typed'
  BY <1>1, <1>2, EmptySeq DEF Typed
<1> QED BY <1>1, <1>2, <1>3, <1>4

-----------------------------------------------------------------------------
(* Every step.                                                             *)

\* The main goroutine, short of the return: it is alive before and after.
LEMMA MainKeeps ==
  ASSUME Live, Main, ~Return
  PROVE  Live' /\ exit' = exit /\ pc # "gone" /\ pc' # "gone"
<1>1. CASE RequireRoot
  <2>1. exit' = exit /\ pc # "gone" /\ pc' # "gone"
    BY <1>1 DEF RequireRoot, Goto, Unwind, process, outside
  <2> QED BY <1>1, <2>1, RequireRootKeeps
<1>2. CASE LockRefused
  <2>1. exit' = exit /\ pc # "gone" /\ pc' # "gone"
    BY <1>2 DEF LockRefused, Goto, Unwind, process, outside
  <2> QED BY <1>2, <2>1, LockRefusedKeeps
<1>3. CASE JournalFails
  <2>1. exit' = exit /\ pc # "gone" /\ pc' # "gone"
    BY <1>3 DEF JournalFails, Goto, Unwind, process, outside
  <2> QED BY <1>3, <2>1, JournalFailsKeeps
<1>4. CASE Acquire
  <2>1. exit' = exit /\ pc # "gone" /\ pc' # "gone"
    BY <1>4 DEF Acquire, Goto, Unwind, process, outside
  <2> QED BY <1>4, <2>1, AcquireKeeps
<1>5. CASE StartJanitor
  <2>1. exit' = exit /\ pc # "gone" /\ pc' # "gone"
    BY <1>5 DEF StartJanitor, Goto, Unwind, process, outside
  <2> QED BY <1>5, <2>1, StartJanitorKeeps
<1>6. CASE RefuseVPN
  <2>1. exit' = exit /\ pc # "gone" /\ pc' # "gone"
    BY <1>6 DEF RefuseVPN, Goto, Unwind, process, outside
  <2> QED BY <1>6, <2>1, RefuseVPNKeeps
<1>7. CASE BindFails
  <2>1. exit' = exit /\ pc # "gone" /\ pc' # "gone"
    BY <1>7 DEF BindFails, Goto, Unwind, process, outside
  <2> QED BY <1>7, <2>1, BindFailsKeeps
<1>8. CASE BindListeners
  <2>1. exit' = exit /\ pc # "gone" /\ pc' # "gone"
    BY <1>8 DEF BindListeners, Goto, Unwind, process, outside
  <2> QED BY <1>8, <2>1, BindListenersKeeps
<1>9. CASE BuildFails
  <2>1. exit' = exit /\ pc # "gone" /\ pc' # "gone"
    BY <1>9 DEF BuildFails, Goto, Unwind, process, outside
  <2> QED BY <1>9, <2>1, BuildFailsKeeps
<1>10. CASE BuildSubsystems
  <2>1. exit' = exit /\ pc # "gone" /\ pc' # "gone"
    BY <1>10 DEF BuildSubsystems, Goto, Unwind, process, outside
  <2> QED BY <1>10, <2>1, BuildSubsystemsKeeps
<1>11. CASE StartListeners
  <2>1. exit' = exit /\ pc # "gone" /\ pc' # "gone"
    BY <1>11 DEF StartListeners, Goto, Unwind, process, outside
  <2> QED BY <1>11, <2>1, StartListenersKeeps
<1>12. CASE ApplySystemState
  <2>1. exit' = exit /\ pc # "gone" /\ pc' # "gone"
    BY <1>12 DEF ApplySystemState, Goto, Unwind, process, outside
  <2> QED BY <1>12, <2>1, ApplySystemStateKeeps
<1>13. CASE ApplySetting
  <2>1. exit' = exit /\ pc # "gone" /\ pc' # "gone"
    BY <1>13 DEF ApplySetting, Goto, Unwind, process, outside
  <2> QED BY <1>13, <2>1, ApplySettingKeeps
<1>14. CASE SettingApplied
  <2>1. exit' = exit /\ pc # "gone" /\ pc' # "gone"
    BY <1>14 DEF SettingApplied, Goto, Unwind, process, outside
  <2> QED BY <1>14, <2>1, SettingAppliedKeeps
<1>15. CASE StartTun
  <2>1. exit' = exit /\ pc # "gone" /\ pc' # "gone"
    BY <1>15 DEF StartTun, Goto, Unwind, process, outside
  <2> QED BY <1>15, <2>1, StartTunKeeps
<1>16. CASE BringUpOp
  <2>1. exit' = exit /\ pc # "gone" /\ pc' # "gone"
    BY <1>16 DEF BringUpOp, Goto, Unwind, process, outside
  <2> QED BY <1>16, <2>1, BringUpOpKeeps
<1>17. CASE StartDatapath
  <2>1. exit' = exit /\ pc # "gone" /\ pc' # "gone"
    BY <1>17 DEF StartDatapath, Goto, Unwind, process, outside
  <2> QED BY <1>17, <2>1, StartDatapathKeeps
<1>18. CASE OpenGate
  <2>1. exit' = exit /\ pc # "gone" /\ pc' # "gone"
    BY <1>18 DEF OpenGate, Goto, Unwind, process, outside
  <2> QED BY <1>18, <2>1, OpenGateKeeps
<1>19. CASE BroughtUp
  <2>1. exit' = exit /\ pc # "gone" /\ pc' # "gone"
    BY <1>19 DEF BroughtUp, Goto, Unwind, process, outside
  <2> QED BY <1>19, <2>1, BroughtUpKeeps
<1>20. CASE StartServing
  <2>1. exit' = exit /\ pc # "gone" /\ pc' # "gone"
    BY <1>20 DEF StartServing, Goto, Unwind, process, outside
  <2> QED BY <1>20, <2>1, StartServingKeeps
<1>21. CASE Stop
  <2>1. exit' = exit /\ pc # "gone" /\ pc' # "gone"
    BY <1>21 DEF Stop, Goto, Unwind, process, outside
  <2> QED BY <1>21, <2>1, StopKeeps
<1>22. CASE CloseControl
  <2>1. exit' = exit /\ pc # "gone" /\ pc' # "gone"
    BY <1>22 DEF CloseControl, Goto, Unwind, process, outside, Draining, Pop
  <2> QED BY <1>22, <2>1, CloseControlKeeps
<1>23. CASE Release
  <2>1. exit' = exit /\ pc # "gone" /\ pc' # "gone"
    BY <1>23 DEF Release, Goto, Unwind, process, outside, Draining, Pop
  <2> QED BY <1>23, <2>1, ReleaseKeeps
<1>24. CASE StopJanitor
  <2>1. exit' = exit /\ pc # "gone" /\ pc' # "gone"
    BY <1>24 DEF StopJanitor, Goto, Unwind, process, outside, Draining, Pop
  <2> QED BY <1>24, <2>1, StopJanitorKeeps
<1>25. CASE TearDown
  <2>1. exit' = exit /\ pc # "gone" /\ pc' # "gone"
    BY <1>25 DEF TearDown, Goto, Unwind, process, outside, Draining
  <2> QED BY <1>25, <2>1, TearDownKeeps
<1>26. CASE CloseDevice
  <2>1. exit' = exit /\ pc # "gone" /\ pc' # "gone"
    BY <1>26 DEF CloseDevice, Goto, Unwind, process, outside, Pop
  <2> QED BY <1>26, <2>1, CloseDeviceKeeps
<1>27. CASE RevertSettings
  <2>1. exit' = exit /\ pc # "gone" /\ pc' # "gone"
    BY <1>27 DEF RevertSettings, Goto, Unwind, process, outside, Draining, Pop
  <2> QED BY <1>27, <2>1, RevertSettingsKeeps
<1>28. CASE SettingsReverted
  <2>1. exit' = exit /\ pc # "gone" /\ pc' # "gone"
    BY <1>28 DEF SettingsReverted, Goto, Unwind, process, outside, Pop
  <2> QED BY <1>28, <2>1, SettingsRevertedKeeps
<1>29. CASE RevertNext
  <2>1. exit' = exit /\ pc # "gone" /\ pc' # "gone"
    BY <1>29 DEF RevertNext, Goto, Unwind, process, outside
  <2> QED BY <1>29, <2>1, RevertNextKeeps
<1> QED BY <1>1, <1>2, <1>3, <1>4, <1>5, <1>6, <1>7, <1>8, <1>9, <1>10, <1>11,
       <1>12, <1>13, <1>14, <1>15, <1>16, <1>17, <1>18, <1>19, <1>20, <1>21, <1>22,
       <1>23, <1>24, <1>25, <1>26, <1>27, <1>28, <1>29 DEF Main

\* The requests, likewise.
LEMMA RequestsKeep ==
  ASSUME Live, pc # "gone", NotBoth, Panic \/ CoverFix
  PROVE  Live' /\ exit' = exit /\ pc' = pc
<1>1. CASE Ask("panic") \/ Ask("reapply")
  <2>1. "panic" \in {"panic", "reapply"} /\ "reapply" \in {"panic", "reapply"}
    OBVIOUS
  <2>2. Live'
    BY <1>1, <2>1, AskKeeps
  <2> QED BY <1>1, <2>2 DEF Ask
<1>2. CASE PanicReverts
  BY <1>2, PanicRevertsKeeps DEF PanicReverts, outside
<1>3. CASE PanicNext
  BY <1>3, PanicNextKeeps DEF PanicNext, outside
<1>4. CASE PanicReplies
  BY <1>4, PanicRepliesKeeps DEF PanicReplies
<1>5. CASE Reapply
  BY <1>5, ReapplyKeeps DEF Reapply
<1>6. CASE Reapplied
  BY <1>6, ReappliedKeeps DEF Reapplied, outside
<1>7. CASE ReapplyReplies
  BY <1>7, ReapplyRepliesKeeps DEF ReapplyReplies
<1> QED BY <1>1, <1>2, <1>3, <1>4, <1>5, <1>6, <1>7 DEF Panic, CoverFix

\* The other goroutines and what comes from outside, short of a death.
LEMMA OthersKeep ==
  ASSUME Live,
         \/ Reverify \/ (\E r \in {"listener", "datapath"} : Dies(r)) \/ WatcherRefuses
         \/ Flush \/ Signal
  PROVE  Live' /\ exit' = exit /\ pc' = pc
<1>1. CASE Reverify
  BY <1>1, ReverifyKeeps DEF Reverify
<1>2. CASE \E r \in {"listener", "datapath"} : Dies(r)
  BY <1>2, DiesKeeps DEF Dies
<1>3. CASE WatcherRefuses
  BY <1>3, ToldKeeps DEF WatcherRefuses, ServeFailed, process
<1>4. CASE Flush
  BY <1>4, FlushKeeps DEF Flush
<1>5. CASE Signal
  BY <1>5, ToldKeeps DEF Signal, process, Live, Typed
<1> QED BY <1>1, <1>2, <1>3, <1>4, <1>5

\* The run is what it is.
LEMMA JobFixed == ASSUME [Next]_vars PROVE job' = job
<1>1. CASE Main
  BY <1>1 DEF Main, RequireRoot, LockRefused, JournalFails, Acquire, StartJanitor, RefuseVPN,
     BindFails, BindListeners, BuildFails, BuildSubsystems, StartListeners, ApplySystemState,
     ApplySetting, SettingApplied, StartTun, BringUpOp, StartDatapath, OpenGate, BroughtUp,
     StartServing, Stop, CloseControl, Release, StopJanitor, TearDown, CloseDevice,
     RevertSettings, SettingsReverted, RevertNext, Return, outside
<1>2. CASE Panic \/ CoverFix
  BY <1>2 DEF Panic, CoverFix, Ask, PanicReverts, PanicNext, PanicReplies, Reapply, Reapplied,
     ReapplyReplies, outside
<1>3. CASE Reverify \/ (\E r \in {"listener", "datapath"} : Dies(r)) \/ WatcherRefuses
             \/ Flush \/ Signal
  BY <1>3 DEF Reverify, Dies, WatcherRefuses, Flush, Signal
<1>4. CASE SecondSignal \/ Kill \/ JanitorReplays \/ PanicReplays
  BY <1>4 DEF SecondSignal, Kill, JanitorReplays, PanicReplays, outside
<1>5. CASE UNCHANGED vars
  BY <1>5 DEF vars
<1> QED BY <1>1, <1>2, <1>3, <1>4, <1>5 DEF Next

\* Every step keeps the invariant.
LEMMA StepKeepsInvariant == ASSUME IInv, NotBoth, [Next]_vars PROVE IInv'
<1>1. CASE Main
  <2>1. pc # "gone"
    BY <1>1 DEF Main, RequireRoot, LockRefused, JournalFails, Acquire, StartJanitor,
       RefuseVPN, BindFails, BindListeners, BuildFails, BuildSubsystems, StartListeners,
       ApplySystemState, ApplySetting, SettingApplied, StartTun, BringUpOp, StartDatapath,
       OpenGate, BroughtUp, StartServing, Stop, CloseControl, Release, StopJanitor,
       TearDown, CloseDevice, RevertSettings, SettingsReverted, RevertNext, Draining, Return
  <2>2. Live /\ exit = "none"
    BY <2>1 DEF IInv
  <2>3. CASE Return
    BY <2>2, <2>3, ReturnIsClean DEF IInv, Return, Goto
  <2>4. CASE ~Return
    BY <1>1, <2>2, <2>4, MainKeeps DEF IInv, Live
  <2> QED BY <2>3, <2>4
<1>2. CASE Panic \/ CoverFix
  <2>1. exit = "none" /\ pc # "gone" /\ Live
    BY <1>2 DEF IInv, Panic, CoverFix, Ask, PanicReverts, PanicNext, PanicReplies, Reapply,
       Reapplied, ReapplyReplies, Running, Alive
  <2> QED BY <1>2, <2>1, RequestsKeep DEF IInv, Live
<1>3. CASE Reverify \/ (\E r \in {"listener", "datapath"} : Dies(r)) \/ WatcherRefuses
             \/ Flush \/ Signal
  <2>1. exit = "none" /\ pc # "gone" /\ Live
    BY <1>3 DEF IInv, Reverify, Dies, WatcherRefuses, Flush, Signal, Alive
  <2> QED BY <1>3, <2>1, OthersKeep DEF IInv, Live
<1>4. CASE SecondSignal \/ Kill
  <2>1. Death /\ UNCHANGED <<job, failed, asked, again>>
    BY <1>4 DEF SecondSignal, Kill, outside
  <2> QED BY <2>1, DeathTyped DEF IInv
<1>5. CASE JanitorReplays \/ PanicReplays
  <2>1. /\ exit # "none" /\ exit' = exit /\ Replay /\ up' \subseteq up
        /\ UNCHANGED <<job, pc, todo, stack, once, failed, asked, again>>
    BY <1>5 DEF JanitorReplays, PanicReplays, ParentGone, Alive, process, outside
  <2>2. Typed' /\ done' = <<>> /\ (force \subseteq owed => force' \subseteq owed')
    BY <2>1, ReplayLeavesOwed DEF IInv
  <2> QED BY <2>1, <2>2 DEF IInv
<1>6. CASE UNCHANGED vars
  <2>1. /\ exit' = exit
        /\ UNCHANGED <<job, pc, todo, stack, up, force, manager, once, failed, asked, again>>
    BY <1>6 DEF vars, manager
  <2>2. Typed' /\ (Live => Live')
    BY <2>1, ToldKeeps DEF IInv, Typed, manager
  <2> QED BY <2>1, <2>2 DEF IInv, manager
<1> QED BY <1>1, <1>2, <1>3, <1>4, <1>5, <1>6 DEF Next

\* The run starts with nothing taken and nothing changed.
LEMMA InitGivesInvariant == Init => IInv
<1> SUFFICES ASSUME Init PROVE IInv
  OBVIOUS
<1>1. job \in JobType
  BY LifecycleAssumption DEF Init
<1>2. On = {}
  BY EmptyHasNone DEF On, Init
<1>3. Touched = {} /\ Recorded = {} /\ CapturesLast(done) /\ CapturesLast(undoing)
  BY EmptyNames DEF Init, Touched, Recorded
<1>4. Typed
  <2>1. asked \in [{"panic", "reapply"} -> {"idle", "running", "replied"}]
    BY DEF Init
  <2> QED BY <1>1, <2>1, EmptySeq DEF Init, Typed, Places, Actors
<1>5. StackOK
  <2>1. Stacked(stack)
    BY DEF Init, Stacked
  <2> QED BY <1>2, <2>1 DEF Init, StackOK, Ceiling, Footing, Requests
<1>6. UpOK
  BY <1>2 DEF Init, UpOK
<1>7. ManagerOK
  BY <1>2, <1>3 DEF Init, ManagerOK
<1>8. TunnelOK
  BY <1>3 DEF Init, TunnelOK, Captures
<1> QED BY <1>4, <1>5, <1>6, <1>7, <1>8 DEF IInv, Live, Init

\* In every run of which not both requests are asked, the invariant holds.
LEMMA Inductive == Spec => [](NotBoth => IInv)
<1>1. Init => (NotBoth => IInv)
  BY InitGivesInvariant
<1>2. ASSUME NotBoth => IInv, [Next]_vars PROVE (NotBoth => IInv)'
  BY <1>2, StepKeepsInvariant, JobFixed DEF NotBoth
<1> QED BY <1>1, <1>2, PTL DEF Spec

-----------------------------------------------------------------------------
(* The theorems.                                                           *)

\* The run is one of Jobs, and signals counts two of them.
LEMMA JobAndSignals == Spec => [](job \in Jobs /\ signals \in 0..2)
<1>1. Init => job \in Jobs /\ signals \in 0..2
  BY DEF Init
<1>2. ASSUME [Next]_vars PROVE signals' \in {signals, 1, 2}
  <2>1. CASE Main
    BY <2>1 DEF Main, RequireRoot, LockRefused, JournalFails, Acquire, StartJanitor, RefuseVPN,
       BindFails, BindListeners, BuildFails, BuildSubsystems, StartListeners, ApplySystemState,
       ApplySetting, SettingApplied, StartTun, BringUpOp, StartDatapath, OpenGate, BroughtUp,
       StartServing, Stop, CloseControl, Release, StopJanitor, TearDown, CloseDevice,
       RevertSettings, SettingsReverted, RevertNext, Return, outside
  <2>2. CASE Panic \/ CoverFix
    BY <2>2 DEF Panic, CoverFix, Ask, PanicReverts, PanicNext, PanicReplies, Reapply, Reapplied,
       ReapplyReplies, outside
  <2>3. CASE Reverify \/ (\E r \in {"listener", "datapath"} : Dies(r)) \/ WatcherRefuses
               \/ Flush \/ Signal
    BY <2>3 DEF Reverify, Dies, WatcherRefuses, Flush, Signal
  <2>4. CASE SecondSignal \/ Kill \/ JanitorReplays \/ PanicReplays
    BY <2>4 DEF SecondSignal, Kill, JanitorReplays, PanicReplays, outside
  <2>5. CASE UNCHANGED vars
    BY <2>5 DEF vars
  <2> QED BY <1>2, <2>1, <2>2, <2>3, <2>4, <2>5 DEF Next
<1>3. job \in Jobs /\ signals \in 0..2 /\ [Next]_vars => (job \in Jobs /\ signals \in 0..2)'
  BY <1>2, JobFixed
<1> QED BY <1>1, <1>3, PTL DEF Spec

\* Every variable keeps its type (TypeOK).
THEOREM TypeCorrect == Spec => [](NotBoth => TypeOK)
<1>1. ASSUME IInv PROVE stack \in Seq(Resources \cup {"settings", "tunnel"})
  <2>1. Steps \subseteq Resources \cup {"settings", "tunnel"}
    BY DEF Steps, Floor8, Floor7, Floor6, Floor5, Floor4, Floor3, Floor2, Resources
  <2> QED BY <1>1, <2>1, SeqMonotonic DEF IInv, Typed
<1>2. IInv /\ job \in Jobs /\ signals \in 0..2 => TypeOK
  BY <1>1 DEF IInv, Typed, TypeOK, Rec
<1> QED BY <1>2, Inductive, JobAndSignals, PTL

\* A run that has returned, from whatever half-made bring-up, has nothing up,
\* and leaves in force only what could not be reverted (run.go runRun,
\* stack.drain): ExitIsClean.
THEOREM CleanExit == Spec => [](NotBoth => ExitIsClean)
<1>1. IInv => ExitIsClean
  BY DEF IInv, ExitIsClean
<1> QED BY <1>1, Inductive, PTL

\* At every moment of a living run, what it has changed is covered: the lock,
\* the journal and the janitor are there before the first change and until
\* after the last revert (run.go, "up BEFORE the first mutation"):
\* ChangesAreCovered.
THEOREM Covered == Spec => [](NotBoth => ChangesAreCovered)
<1>1. ASSUME IInv, Alive, ((force \cup Journalled) \ owed) # {}
      PROVE  {"lock", "journal"} \subseteq up /\ ("janitor" \in up \/ May("nospawn"))
  <2>1. Live /\ Typed
    BY <1>1 DEF IInv, Alive
  <2>2. Ours(done) \subseteq OpsOf(done) /\ Ours(undoing) \subseteq OpsOf(undoing)
    BY <2>1, OursIsNamed DEF Typed
  <2>3. Recorded \subseteq Touched /\ Journalled \subseteq Touched \cup owed
    BY <2>2 DEF Recorded, Journalled, Touched
  <2>4. Touched # {}
    BY <1>1, <2>1, <2>3 DEF Live, ManagerOK
  <2>5. ~job.dry /\ ("settings" \in On \/ "tunnel" \in On)
    BY <2>1, <2>4 DEF Live, ManagerOK
  <2>6. WillMutate(job)
    BY <2>1, <2>5 DEF Live, StackOK, Footing, WillMutate, ChangesSettings
  <2>7. ~(On \subseteq Floor3) /\ ~(On \subseteq Floor2)
    BY <2>5 DEF Floor3, Floor2
  <2>8. "lock" \in On /\ "journal" \in On /\ ("janitor" \in On \/ "nospawn" \in job.may)
    BY <2>1, <2>6, <2>7 DEF Live, StackOK, Footing
  <2> QED BY <2>1, <2>8 DEF Live, UpOK, May
<1>2. IInv => ChangesAreCovered
  BY <1>1 DEF ChangesAreCovered
<1> QED BY <1>2, Inductive, PTL

\* No proxy setting in force without its listeners, no captured route
\* without its datapath, its device and the escape route of our own sockets,
\* unless they died and the run has been told (stack.go BringUp, TearDown):
\* NothingPointsNowhere.
THEOREM NeverBlackholed == Spec => [](NotBoth => NothingPointsNowhere)
<1>1. ASSUME IInv, Alive
      PROVE  LET live == force \ owed IN
             /\ live \cap (ProxyOps \ {"pacfile"}) # {} => "listeners" \in up \/ failed
             /\ live \cap CaptureOps # {} =>
                  /\ "datapath" \in up \/ failed
                  /\ "device" \in up
                  /\ "scope4" \in force \cup job.flushes \cup job.present
  <2> DEFINE live == force \ owed
  <2>1. Live /\ Typed
    BY <1>1 DEF IInv, Alive
  <2>2. Ours(done) \subseteq OpsOf(done) /\ Ours(undoing) \subseteq OpsOf(undoing)
    BY <2>1, OursIsNamed DEF Typed
  <2>3. live \subseteq Touched
    BY <2>1, <2>2 DEF Live, ManagerOK, Recorded, Touched
  <2>4. live # {} => ~job.dry /\ ("settings" \in On \/ "tunnel" \in On)
    BY <2>1, <2>3 DEF Live, ManagerOK
  <2>5. live # {} => "listeners" \in up \/ failed
    <3>1. live # {} => ~(On \subseteq Floor5)
      BY <2>4 DEF Floor5, Floor4, Floor3, Floor2
    <3> QED BY <2>1, <3>1 DEF Live, StackOK, Footing, UpOK
  <2>6. ASSUME live \cap CaptureOps # {} PROVE Captures /\ "tunnel" \in On /\ ~job.dry
    <3>1. Captures
      BY <2>3, <2>6 DEF Captures
    <3>2. ~(Touched \subseteq ProxyOps)
      BY <3>1 DEF Captures, CaptureOps, Capture6, ProxyOps
    <3> QED BY <2>1, <2>4, <2>6, <3>1, <3>2 DEF Live, TunnelOK
  <2>7. live \cap CaptureOps # {} =>
          /\ "datapath" \in up \/ failed
          /\ "device" \in up
          /\ "scope4" \in force \cup job.flushes \cup job.present
    BY <2>1, <2>6 DEF Live, TunnelOK, UpOK, Escape
  <2> QED BY <2>5, <2>7
<1>2. IInv => NothingPointsNowhere
  BY <1>1 DEF NothingPointsNowhere
<1> QED BY <1>2, Inductive, PTL

=============================================================================
