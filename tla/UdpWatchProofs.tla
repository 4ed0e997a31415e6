------------------------- MODULE UdpWatchProofs -------------------------
(***************************************************************************)
(* Proofs about the two components that are one loop over events: the UDP  *)
(* sessions (UdpSessions), for every workload -- any datagrams, policy,    *)
(* session cap and set of failures, through either front end -- and the    *)
(* network watcher (Netwatch), for every set of networks, every debounce   *)
(* window and any number of moves, VPN changes and failures.               *)
EXTENDS UdpSessions, Netwatch, FiniteSetTheorems, TLAPS

-----------------------------------------------------------------------------
(* Part one: UdpSessions.                                                   *)

Flow == [key: {SessionKey(d) : d \in Datagram}, to: Clients,
         at: {"new", "pump", "closing", "dns", "first", "dial", "send", "relay", "done"},
         queue: Seq(Datagram), client: BOOLEAN, up: BOOLEAN, carried: SUBSET Clients,
         decoyed: BOOLEAN, leaked: BOOLEAN, late: BOOLEAN]

\* A datagram that may be sent first: no query a resolver answers, no Initial
\* the policy refuses.
Sendable(d) ==
    /\ QuicAction(d) # "refuse"
    /\ d.kind = "query" => Socks /\ ~job.dns

FlowOK(f) ==
    /\ f \in Flow
    /\ f.key[1] = f.to
    /\ f.carried \subseteq {f.to}
    /\ ~f.leaked
    /\ \A j \in DOMAIN f.queue : SessionKey(f.queue[j]) = f.key
    /\ f.at \in {"first", "dial", "send"} => f.key[3] # 53
    /\ f.at \in {"dial", "send"} =>
          f.queue # <<>> /\ QuicAction(Head(f.queue)) # "refuse"

FlowsOK == flows \in Seq(Flow) /\ \A i \in DOMAIN flows : FlowOK(flows[i])

InboxOK ==
    /\ inbox \in Seq(Datagram)
    /\ \A i \in DOMAIN inbox : SessionKey(inbox[i]) \in Keys(job)

\* A session in the table is the one of its key.
TableOK ==
    /\ table \in [Keys(job) -> Nat]
    /\ \A k \in Keys(job) :
          table[k] # 0 => table[k] \in DOMAIN flows /\ flows[table[k]].key = k

\* The reader's datagram may be sent, and its session is the datagram's.
ReaderOK ==
    /\ reader \in [at: {"bind", "read", "lookup", "dial", "insert", "send", "ended"},
                   d: Datagram \cup {NoDatagram}, flow: Nat]
    /\ reader.at \in {"lookup", "dial", "insert", "send"} =>
          /\ reader.d \in Datagram /\ Sendable(reader.d)
          /\ SessionKey(reader.d) \in Keys(job)
    /\ reader.at \in {"insert", "send"} =>
          /\ reader.flow \in DOMAIN flows
          /\ flows[reader.flow].key = SessionKey(reader.d)

\* There is room for the session being dialled, though the lock is not held.
CapOK ==
    /\ Cardinality(Held) <= job.max
    /\ reader.at \in {"dial", "insert"} => Room

IInv ==
    /\ job \in JobType
    /\ FlowsOK /\ InboxOK /\ TableOK /\ ReaderOK /\ CapOK
-----------------------------------------------------------------------------
(* Datagrams and flows.                                                     *)

LEMMA KeyFacts ==
  ASSUME NEW d \in Datagram
  PROVE  /\ SessionKey(d)[1] = d.from
         /\ SessionKey(d)[3] = 53 <=> d.kind = "query"
BY DEF SessionKey, Datagram, Port, Kinds

(* An Initial for a judged name is refused or desynced, never passed.       *)
LEMMA NeverPassed ==
  ASSUME job \in JobType, NEW d \in Datagram,
         Initial(d), Judged(d), job.quic # "relay", QuicAction(d) # "refuse"
  PROVE  QuicAction(d) = "desync"
<1>1. d.kind \in {"initial", "initial2"}
  BY DEF Initial
<1>2. Port(d) = 443
  BY <1>1 DEF Port
<1>3. ParseQUICInitial(d)
  BY <1>1 DEF ParseQUICInitial, Header
<1> QED
  BY <1>2, <1>3 DEF QuicAction, JobType

LEMMA SendFirstOK ==
  ASSUME job \in JobType, NEW f, FlowOK(f), NEW d \in Datagram,
         SessionKey(d) = f.key, Sendable(d)
  PROVE  FlowOK(SendFirst(f, d)) /\ SendFirst(f, d).key = f.key
         /\ SendFirst(f, d).queue = f.queue /\ SendFirst(f, d).at = f.at
<1> DEFINE decoys == QuicAction(d) = "desync"
           leak == f.leaked \/ (d.kind = "query" /\ (job.dns \/ ~Socks))
                            \/ (Initial(d) /\ Judged(d) /\ job.quic # "relay"
                                /\ ~(f.decoyed \/ decoys))
           g == [f EXCEPT !.carried = f.carried \cup {d.from},
                          !.decoyed = f.decoyed \/ decoys, !.leaked = leak]
<1>1. SendFirst(f, d) = g
  BY DEF SendFirst, Carries
<1>2. ~leak
  BY NeverPassed DEF Sendable, FlowOK
<1>3. leak \in BOOLEAN /\ (f.decoyed \/ decoys) \in BOOLEAN /\ d.from \in Clients /\ d.from = f.to
  BY KeyFacts DEF FlowOK, Datagram
<1> HIDE DEF decoys, leak
<1>4. g \in Flow /\ g.key = f.key /\ g.queue = f.queue /\ g.at = f.at /\ g.to = f.to
      /\ g.leaked = leak /\ g.carried = f.carried \cup {d.from}
  BY <1>3 DEF FlowOK, Flow
<1> HIDE DEF g
<1> QED
  BY <1>1, <1>2, <1>3, <1>4 DEF FlowOK

LEMMA JobFixed ==
  ASSUME UNCHANGED job
  PROVE  /\ \A f : FlowOK(f)' <=> FlowOK(f)
         /\ \A d : Sendable(d)' <=> Sendable(d)
BY DEF FlowOK, Sendable, QuicAction, Judged, Socks

\* What every step but a refused one keeps of the flows.
SameKeys ==
    \A i \in DOMAIN flows : i \in DOMAIN flows' /\ flows'[i].key = flows[i].key

(* One flow changes and keeps its key.                                      *)
LEMMA OneFlow ==
  ASSUME FlowsOK, UNCHANGED job, NEW i \in DOMAIN flows, NEW g, FlowOK(g),
         g.key = flows[i].key, flows' = [flows EXCEPT ![i] = g]
  PROVE  FlowsOK' /\ SameKeys
<1>1. g \in Flow
  BY DEF FlowOK
<1>2. flows' \in Seq(Flow) /\ DOMAIN flows' = DOMAIN flows
  BY <1>1 DEF FlowsOK
<1>3. \A j \in DOMAIN flows : flows'[j] = IF j = i THEN g ELSE flows[j]
  BY DEF FlowsOK
<1>4. \A j \in DOMAIN flows' : FlowOK(flows'[j])
  BY <1>2, <1>3 DEF FlowsOK
<1> QED
  BY <1>2, <1>3, <1>4, JobFixed DEF FlowsOK, SameKeys

(* A flow is opened.                                                        *)
LEMMA NewFlowOK ==
  ASSUME FlowsOK, UNCHANGED job, NEW g, FlowOK(g), flows' = Append(flows, g)
  PROVE  FlowsOK' /\ SameKeys /\ Len(flows) + 1 \in DOMAIN flows'
         /\ flows'[Len(flows) + 1] = g
<1>1. g \in Flow
  BY DEF FlowOK
<1>2. flows' \in Seq(Flow) /\ Len(flows') = Len(flows) + 1 /\ Len(flows) \in Nat
  BY <1>1 DEF FlowsOK
<1>3. \A j \in DOMAIN flows' : flows'[j] = IF j = Len(flows) + 1 THEN g ELSE flows[j]
  BY <1>1, <1>2 DEF FlowsOK
<1>4. \A j \in DOMAIN flows' : j = Len(flows) + 1 \/ j \in DOMAIN flows
  BY <1>2 DEF FlowsOK
<1>5. \A j \in DOMAIN flows' : FlowOK(flows'[j])
  BY <1>3, <1>4 DEF FlowsOK
<1>6. \A j \in DOMAIN flows : j \in DOMAIN flows' /\ j # Len(flows) + 1
  BY <1>2 DEF FlowsOK
<1> QED
  BY <1>2, <1>3, <1>5, <1>6, JobFixed DEF FlowsOK, SameKeys

(* The table and the reader look at keys only.                              *)
LEMMA KeysKept ==
  ASSUME IInv, UNCHANGED <<job, table, reader>>, SameKeys
  PROVE  TableOK' /\ ReaderOK' /\ CapOK'
<1>1. TableOK'
  BY DEF IInv, TableOK, SameKeys
<1>2. ReaderOK'
  BY JobFixed DEF IInv, ReaderOK, SameKeys
<1>3. CapOK'
  BY DEF IInv, CapOK, Held, Room
<1> QED
  BY <1>1, <1>2, <1>3

LEMMA KeysFinite == ASSUME job \in JobType PROVE IsFiniteSet(Keys(job))
<1> DEFINE n == Len(job.inbox)
           f == [i \in 1 .. n |-> SessionKey(job.inbox[i])]
<1>1. job.inbox \in Seq(Datagram) /\ n \in Nat /\ DOMAIN job.inbox = 1 .. n
  BY DEF JobType
<1>2. f \in Surjection(1 .. n, Keys(job))
  BY <1>1 DEF Surjection, Keys
<1> QED
  BY <1>1, <1>2, FS_NatSurjection DEF ExistsSurjection

(* Forgetting a session makes room.                                         *)
LEMMA Shrinks ==
  ASSUME IInv, UNCHANGED job, DOMAIN table' = DOMAIN table,
         \A k \in DOMAIN table : table'[k] \in {0, table[k]}
  PROVE  Cardinality(Held') <= Cardinality(Held)
         /\ Cardinality(Held) \in Nat /\ Cardinality(Held') \in Nat
<1>1. Held \subseteq Keys(job) /\ Held' \subseteq Held
  BY DEF Held, IInv, TableOK
<1>2. IsFiniteSet(Held)
  BY <1>1, KeysFinite, FS_Subset DEF IInv
<1> QED
  BY <1>1, <1>2, FS_Subset, FS_CardinalityType

\* g is f but for where its goroutine is and what its sockets are.
AsBefore(g, f) ==
    /\ g \in Flow
    /\ g.key = f.key /\ g.to = f.to /\ g.carried = f.carried
    /\ g.leaked = f.leaked /\ g.queue = f.queue
    /\ g.at \in {f.at, "pump", "closing", "done"}

LEMMA StillOK == ASSUME NEW f, FlowOK(f), NEW g, AsBefore(g, f) PROVE FlowOK(g)
<1>1. /\ g \in Flow /\ g.key = f.key /\ g.to = f.to /\ g.carried = f.carried
      /\ g.leaked = f.leaked /\ g.queue = f.queue
      /\ g.at \in {"first", "dial", "send"} => g.at = f.at
  BY DEF AsBefore
<1> QED BY <1>1 DEF FlowOK

(* A flow stays in order when its goroutine or its sockets change.          *)
LEMMA FlowMoves ==
  ASSUME NEW f, FlowOK(f)
  PROVE  /\ FlowOK([f EXCEPT !.up = FALSE])
         /\ FlowOK([f EXCEPT !.up = FALSE, !.at = "done"])
         /\ FlowOK([f EXCEPT !.at = "pump"]) /\ FlowOK([f EXCEPT !.at = "done"])
         /\ FlowOK([f EXCEPT !.at = "closing", !.up = FALSE])
         /\ FlowOK([f EXCEPT !.client = FALSE])
         /\ FlowOK(Finished(f)) /\ Finished(f).key = f.key
         /\ [f EXCEPT !.up = FALSE].key = f.key
         /\ [f EXCEPT !.up = FALSE, !.at = "done"].key = f.key
         /\ [f EXCEPT !.at = "pump"].key = f.key /\ [f EXCEPT !.at = "done"].key = f.key
         /\ [f EXCEPT !.at = "closing", !.up = FALSE].key = f.key
         /\ [f EXCEPT !.client = FALSE].key = f.key
<1>1. f \in Flow /\ <<>> \in Seq(Datagram)
  BY DEF FlowOK
<1>2. /\ [f EXCEPT !.up = FALSE] \in Flow
      /\ [f EXCEPT !.up = FALSE, !.at = "done"] \in Flow
      /\ [f EXCEPT !.at = "pump"] \in Flow /\ [f EXCEPT !.at = "done"] \in Flow
      /\ [f EXCEPT !.at = "closing", !.up = FALSE] \in Flow
      /\ [f EXCEPT !.client = FALSE] \in Flow
  BY <1>1 DEF Flow
<1>3. FlowOK(Finished(f)) /\ Finished(f).key = f.key
  <2>1. Finished(f) \in Flow
    BY <1>1 DEF Flow, Finished
  <2>2. /\ Finished(f).key = f.key /\ Finished(f).to = f.to /\ Finished(f).at = "done"
        /\ Finished(f).carried = f.carried /\ Finished(f).leaked = f.leaked
        /\ Finished(f).queue = <<>>
    BY <1>1 DEF Flow, Finished
  <2> QED
    BY <2>1, <2>2 DEF FlowOK
<1>4. FlowOK([f EXCEPT !.up = FALSE])
  <2>1. PICK g : g = [f EXCEPT !.up = FALSE]
    OBVIOUS
  <2>2. g \in Flow
    BY <1>2, <2>1
  <2>3. /\ g.key = f.key /\ g.to = f.to /\ g.carried = f.carried
        /\ g.leaked = f.leaked /\ g.queue = f.queue
    BY <1>1, <2>1 DEF Flow
  <2>4. g.at \in {f.at, "pump", "closing", "done"}
    BY <1>1, <2>1 DEF Flow
  <2> QED BY <2>1, <2>2, <2>3, <2>4, StillOK DEF AsBefore
<1>5. FlowOK([f EXCEPT !.client = FALSE])
  <2>1. PICK g : g = [f EXCEPT !.client = FALSE]
    OBVIOUS
  <2>2. g \in Flow
    BY <1>2, <2>1
  <2>3. /\ g.key = f.key /\ g.to = f.to /\ g.carried = f.carried
        /\ g.leaked = f.leaked /\ g.queue = f.queue
    BY <1>1, <2>1 DEF Flow
  <2>4. g.at \in {f.at, "pump", "closing", "done"}
    BY <1>1, <2>1 DEF Flow
  <2> QED BY <2>1, <2>2, <2>3, <2>4, StillOK DEF AsBefore
<1>6. FlowOK([f EXCEPT !.at = "pump"])
  <2>1. PICK g : g = [f EXCEPT !.at = "pump"]
    OBVIOUS
  <2>2. g \in Flow
    BY <1>2, <2>1
  <2>3. /\ g.key = f.key /\ g.to = f.to /\ g.carried = f.carried
        /\ g.leaked = f.leaked /\ g.queue = f.queue
    BY <1>1, <2>1 DEF Flow
  <2>4. g.at \in {f.at, "pump", "closing", "done"}
    BY <1>1, <2>1 DEF Flow
  <2> QED BY <2>1, <2>2, <2>3, <2>4, StillOK DEF AsBefore
<1>7. FlowOK([f EXCEPT !.at = "done"])
  <2>1. PICK g : g = [f EXCEPT !.at = "done"]
    OBVIOUS
  <2>2. g \in Flow
    BY <1>2, <2>1
  <2>3. /\ g.key = f.key /\ g.to = f.to /\ g.carried = f.carried
        /\ g.leaked = f.leaked /\ g.queue = f.queue
    BY <1>1, <2>1 DEF Flow
  <2>4. g.at \in {f.at, "pump", "closing", "done"}
    BY <1>1, <2>1 DEF Flow
  <2> QED BY <2>1, <2>2, <2>3, <2>4, StillOK DEF AsBefore
<1>8. FlowOK([f EXCEPT !.up = FALSE, !.at = "done"])
  <2>1. PICK g : g = [f EXCEPT !.up = FALSE, !.at = "done"]
    OBVIOUS
  <2>2. g \in Flow
    BY <1>2, <2>1
  <2>3. /\ g.key = f.key /\ g.to = f.to /\ g.carried = f.carried
        /\ g.leaked = f.leaked /\ g.queue = f.queue
    BY <1>1, <2>1 DEF Flow
  <2>4. g.at \in {f.at, "pump", "closing", "done"}
    BY <1>1, <2>1 DEF Flow
  <2> QED BY <2>1, <2>2, <2>3, <2>4, StillOK DEF AsBefore
<1>9. FlowOK([f EXCEPT !.at = "closing", !.up = FALSE])
  <2>1. PICK g : g = [f EXCEPT !.at = "closing", !.up = FALSE]
    OBVIOUS
  <2>2. g \in Flow
    BY <1>2, <2>1
  <2>3. /\ g.key = f.key /\ g.to = f.to /\ g.carried = f.carried
        /\ g.leaked = f.leaked /\ g.queue = f.queue
    BY <1>1, <2>1 DEF Flow
  <2>4. g.at \in {f.at, "pump", "closing", "done"}
    BY <1>1, <2>1 DEF Flow
  <2> QED BY <2>1, <2>2, <2>3, <2>4, StillOK DEF AsBefore
<1>10. /\ [f EXCEPT !.up = FALSE].key = f.key
      /\ [f EXCEPT !.up = FALSE, !.at = "done"].key = f.key
      /\ [f EXCEPT !.at = "pump"].key = f.key /\ [f EXCEPT !.at = "done"].key = f.key
      /\ [f EXCEPT !.at = "closing", !.up = FALSE].key = f.key
      /\ [f EXCEPT !.client = FALSE].key = f.key
  BY <1>1 DEF Flow
<1> QED
  BY <1>3, <1>4, <1>5, <1>6, <1>7, <1>8, <1>9, <1>10

LEMMA NewFlowIsOK ==
  ASSUME NEW d \in Datagram, NEW up \in BOOLEAN,
         NEW at \in {"new", "dns", "first"}, at = "first" => d.kind # "query"
  PROVE  /\ FlowOK(NewFlow(d, at, up)) /\ NewFlow(d, at, up).key = SessionKey(d)
         /\ FlowOK([NewFlow(d, at, up) EXCEPT !.queue = <<d>>])
         /\ [NewFlow(d, at, up) EXCEPT !.queue = <<d>>].key = SessionKey(d)
<1>1. d.from \in Clients /\ <<d>> \in Seq(Datagram) /\ <<>> \in Seq(Datagram)
  BY DEF Datagram
<1>2. /\ NewFlow(d, at, up) \in Flow
      /\ [NewFlow(d, at, up) EXCEPT !.queue = <<d>>] \in Flow
  BY <1>1 DEF NewFlow, Flow
<1>3. FlowOK(NewFlow(d, at, up)) /\ NewFlow(d, at, up).key = SessionKey(d)
  BY <1>2, KeyFacts DEF NewFlow, FlowOK
<1>4. FlowOK([NewFlow(d, at, up) EXCEPT !.queue = <<d>>])
      /\ [NewFlow(d, at, up) EXCEPT !.queue = <<d>>].key = SessionKey(d)
  BY <1>2, KeyFacts DEF NewFlow, FlowOK
<1> QED
  BY <1>3, <1>4
-----------------------------------------------------------------------------
(* The association.                                                         *)

LEMMA InitOK == Init => IInv
<1> SUFFICES ASSUME Init PROVE IInv
  OBVIOUS
<1>1. job \in JobType
  BY UdpAssumption DEF Init
<1>3. FlowsOK
  BY DEF Init, FlowsOK
<1>4. InboxOK
  BY <1>1 DEF Init, InboxOK, JobType, Keys
<1>5. TableOK
  BY DEF Init, TableOK
<1>6. ReaderOK
  BY DEF Init, ReaderOK
<1>7. CapOK
  <2>1. Held = {}
    BY DEF Init, Held
  <2> QED
    BY <1>1, <2>1, FS_EmptySet DEF CapOK, Init, JobType
<1> QED
  BY <1>1, <1>3, <1>4, <1>5, <1>6, <1>7 DEF IInv

(* The reader puts its datagram away.                                       *)
LEMMA ReaderHome ==
  ASSUME IInv, NEW p \in {"read", "ended"}, ReaderTo(p) PROVE ReaderOK'
BY DEF ReaderTo, ReaderOK

LEMMA BackHome == ASSUME IInv, BackToRead PROVE ReaderOK' /\ reader'.at \in {"read", "ended"}
<1>1. ReaderTo("read") \/ ReaderTo("ended")
  BY DEF BackToRead
<1> QED
  BY <1>1, ReaderHome DEF ReaderTo

\* What a step that leaves flows and table alone keeps.
LEMMA FlowsAlone ==
  ASSUME IInv, UNCHANGED <<job, table, flows>>
  PROVE  /\ (job \in JobType)' /\ FlowsOK' /\ TableOK'
         /\ UNCHANGED inbox => InboxOK'
         /\ reader'.at \notin {"dial", "insert"} \/ reader.at \in {"dial", "insert"} \/ Room
               => CapOK'
<1>1. Held' = Held /\ (Room' <=> Room)
  BY DEF Held, Room
<1>2. FlowsOK' /\ TableOK'
  BY JobFixed DEF IInv, FlowsOK, TableOK
<1>3. UNCHANGED inbox => InboxOK'
  BY DEF IInv, InboxOK
<1>4. reader'.at \notin {"dial", "insert"} \/ reader.at \in {"dial", "insert"} \/ Room
        => CapOK'
  BY <1>1 DEF IInv, CapOK
<1>5. (job \in JobType)'
  BY DEF IInv
<1> QED
  BY <1>2, <1>3, <1>4, <1>5

LEMMA ReaderOnly ==
  ASSUME IInv, Associate \/ ReaderEnds \/ End PROVE IInv'
<1>1. UNCHANGED <<job, table, flows, inbox>>
  BY DEF Associate, ReaderEnds, End
<1>2. ReaderOK' /\ (reader'.at \in {"dial", "insert"} => reader.at \in {"dial", "insert"})
  <2>1. CASE End
    BY <2>1, JobFixed DEF End, IInv, ReaderOK
  <2>2. CASE ReaderTo("read") \/ ReaderTo("ended")
    BY <2>2, ReaderHome DEF ReaderTo
  <2> QED
    BY <2>1, <2>2 DEF Associate, ReaderEnds
<1> QED
  BY <1>1, <1>2, FlowsAlone DEF IInv

LEMMA HandleOK == ASSUME IInv, Handle PROVE IInv'
<1> DEFINE d == Head(inbox)
<1>1. /\ inbox \in Seq(Datagram) /\ inbox # <<>> /\ inbox' = Tail(inbox)
      /\ UNCHANGED <<job, table, flows>>
  BY DEF Handle, IInv, InboxOK
<1>2. d \in Datagram /\ SessionKey(d) \in Keys(job)
  BY <1>1 DEF IInv, InboxOK
<1>3. InboxOK'
  <2>1. inbox' \in Seq(Datagram) /\ \A i \in DOMAIN inbox' :
           i + 1 \in DOMAIN inbox /\ inbox'[i] = inbox[i + 1]
    BY <1>1
  <2> QED
    BY <1>1, <2>1 DEF IInv, InboxOK
<1>4. \/ BackToRead
      \/ /\ reader' = [at |-> "lookup", d |-> d, flow |-> 0]
         /\ ~Answered(d) /\ QuicAction(d) # "refuse" /\ Socks
  BY DEF Handle, ReaderAt
<1> HIDE DEF d
<1>5. ReaderOK' /\ reader'.at \notin {"dial", "insert"}
  <2>1. CASE BackToRead
    BY <2>1, BackHome
  <2>2. CASE ~BackToRead
    <3>1. Sendable(d)
      BY <1>4, <2>2 DEF Sendable, Answered
    <3>2. /\ reader'.at = "lookup" /\ reader'.d = d
          /\ reader' \in [at: {"bind", "read", "lookup", "dial", "insert", "send", "ended"},
                          d: Datagram \cup {NoDatagram}, flow: Nat]
      BY <1>2, <1>4, <2>2
    <3> QED
      BY <1>1, <1>2, <3>1, <3>2, JobFixed DEF ReaderOK
  <2> QED
    BY <2>1, <2>2
<1> QED
  BY <1>1, <1>3, <1>5, FlowsAlone DEF IInv

LEMMA LookupOK == ASSUME IInv, Lookup PROVE IInv'
<1> DEFINE k == SessionKey(reader.d)
<1>1. /\ reader.at = "lookup" /\ reader.d \in Datagram /\ Sendable(reader.d)
      /\ k \in Keys(job) /\ UNCHANGED <<job, table, flows, inbox>>
  BY DEF Lookup, ReaderAt, IInv, ReaderOK
<1>2. \/ BackToRead
      \/ /\ table[k] # 0 /\ reader' = [reader EXCEPT !.at = "send", !.flow = table[k]]
      \/ /\ Room /\ reader' = [reader EXCEPT !.at = "dial"]
  BY DEF Lookup
<1> HIDE DEF k
<1>3. ReaderOK' /\ (reader'.at \notin {"dial", "insert"} \/ Room)
  <2>1. CASE BackToRead
    BY <2>1, BackHome
  <2>2. CASE table[k] # 0 /\ reader' = [reader EXCEPT !.at = "send", !.flow = table[k]]
    <3>1. table[k] \in DOMAIN flows /\ flows[table[k]].key = k /\ table[k] \in Nat
      BY <1>1, <2>2 DEF IInv, TableOK
    <3>2. /\ reader' \in [at: {"bind", "read", "lookup", "dial", "insert", "send", "ended"},
                          d: Datagram \cup {NoDatagram}, flow: Nat]
          /\ reader'.at = "send" /\ reader'.d = reader.d /\ reader'.flow = table[k]
      BY <2>2, <3>1 DEF IInv, ReaderOK
    <3> QED
      BY <1>1, <3>1, <3>2, JobFixed DEF ReaderOK, k
  <2>3. CASE Room /\ reader' = [reader EXCEPT !.at = "dial"]
    <3>1. /\ reader' \in [at: {"bind", "read", "lookup", "dial", "insert", "send", "ended"},
                          d: Datagram \cup {NoDatagram}, flow: Nat]
          /\ reader'.at = "dial" /\ reader'.d = reader.d
      BY <2>3 DEF IInv, ReaderOK
    <3> QED
      BY <1>1, <2>3, <3>1, JobFixed DEF ReaderOK, k
  <2> QED
    BY <1>2, <2>1, <2>2, <2>3
<1> QED
  BY <1>1, <1>3, FlowsAlone DEF IInv

LEMMA DialOK == ASSUME IInv, Dial PROVE IInv'
<1>1. /\ reader.at = "dial" /\ reader.d \in Datagram /\ Sendable(reader.d)
      /\ SessionKey(reader.d) \in Keys(job) /\ UNCHANGED <<job, table, inbox>>
  BY DEF Dial, ReaderAt, IInv, ReaderOK
<1>2. CASE /\ flows' = Append(flows, NewFlow(reader.d, "new", TRUE))
           /\ reader' = [reader EXCEPT !.at = "insert", !.flow = Len(flows) + 1]
  <2> DEFINE g == NewFlow(reader.d, "new", TRUE)
  <2>1. FlowOK(g) /\ g.key = SessionKey(reader.d)
    BY <1>1, NewFlowIsOK
  <2> HIDE DEF g
  <2>2. FlowsOK' /\ SameKeys /\ Len(flows) + 1 \in DOMAIN flows'
        /\ flows'[Len(flows) + 1] = g
    BY <1>1, <1>2, <2>1, NewFlowOK DEF g, IInv
  <2>3. Len(flows) + 1 \in Nat
    BY DEF IInv, FlowsOK
  <2>4. /\ reader' \in [at: {"bind", "read", "lookup", "dial", "insert", "send", "ended"},
                        d: Datagram \cup {NoDatagram}, flow: Nat]
        /\ reader'.at = "insert" /\ reader'.d = reader.d /\ reader'.flow = Len(flows) + 1
    BY <1>2, <2>3 DEF IInv, ReaderOK
  <2>5. ReaderOK'
    BY <1>1, <2>1, <2>2, <2>4, JobFixed DEF ReaderOK
  <2>6. TableOK' /\ InboxOK'
    BY <1>1, <2>2 DEF IInv, TableOK, InboxOK, SameKeys
  <2>7. CapOK'
    BY <1>1 DEF IInv, CapOK, Held, Room
  <2> QED
    BY <1>1, <2>2, <2>5, <2>6, <2>7 DEF IInv
<1>3. CASE BackToRead /\ UNCHANGED flows
  BY <1>1, <1>3, BackHome, FlowsAlone DEF IInv
<1> QED
  BY <1>2, <1>3 DEF Dial

(* Under the lock again: the new session takes the room that was seen.      *)
LEMMA InsertOK == ASSUME IInv, Insert PROVE IInv'
<1> DEFINE k == SessionKey(reader.d)
           n == reader.flow
<1>1. /\ reader.at = "insert" /\ reader.d \in Datagram /\ Sendable(reader.d)
      /\ k \in Keys(job) /\ n \in DOMAIN flows /\ flows[n].key = k /\ n \in Nat
      /\ FlowOK(flows[n]) /\ UNCHANGED <<job, inbox>> /\ InboxOK' /\ Room
  BY DEF Insert, ReaderAt, IInv, ReaderOK, FlowsOK, InboxOK, CapOK
<1> HIDE DEF k, n
<1>2. CASE closed \/ table[k] # 0
  <2> DEFINE g == [flows[n] EXCEPT !.up = FALSE, !.at = "done"]
  <2>1. flows' = [flows EXCEPT ![n] = g] /\ UNCHANGED table
    BY <1>1, <1>2 DEF Insert, k, n, IInv, FlowsOK
  <2>2. FlowOK(g) /\ g.key = flows[n].key
    BY <1>1, FlowMoves
  <2> HIDE DEF g
  <2>3. FlowsOK' /\ SameKeys
    BY <1>1, <2>1, <2>2, OneFlow DEF IInv
  <2>4. TableOK'
    BY <1>1, <2>1, <2>3 DEF IInv, TableOK, SameKeys
  <2>5. \/ BackToRead
        \/ table[k] # 0 /\ reader' = [reader EXCEPT !.at = "send", !.flow = table[k]]
    BY <1>2 DEF Insert, k
  <2>6. ReaderOK' /\ reader'.at \notin {"dial", "insert"}
    <3>1. CASE BackToRead
      BY <3>1, BackHome
    <3>2. CASE table[k] # 0 /\ reader' = [reader EXCEPT !.at = "send", !.flow = table[k]]
      <4>1. table[k] \in DOMAIN flows' /\ flows'[table[k]].key = k /\ table[k] \in Nat
        BY <1>1, <2>1, <2>4, <3>2 DEF TableOK, IInv
      <4>2. /\ reader' \in [at: {"bind", "read", "lookup", "dial", "insert", "send", "ended"},
                            d: Datagram \cup {NoDatagram}, flow: Nat]
            /\ reader'.at = "send" /\ reader'.d = reader.d /\ reader'.flow = table[k]
        BY <3>2, <4>1 DEF IInv, ReaderOK
      <4> QED
        BY <1>1, <4>1, <4>2, JobFixed DEF ReaderOK, k
    <3> QED
      BY <2>5, <3>1, <3>2
  <2>7. CapOK'
    BY <1>1, <2>1, <2>6 DEF IInv, CapOK, Held
  <2> QED
    BY <1>1, <2>3, <2>4, <2>6, <2>7 DEF IInv
<1>3. CASE ~(closed \/ table[k] # 0)
  <2> DEFINE g == [flows[n] EXCEPT !.at = "pump"]
  <2>1. /\ flows' = [flows EXCEPT ![n] = g] /\ table' = [table EXCEPT ![k] = n]
        /\ reader' = [reader EXCEPT !.at = "send"]
    BY <1>1, <1>3 DEF Insert, k, n, IInv, FlowsOK
  <2>2. FlowOK(g) /\ g.key = flows[n].key
    BY <1>1, FlowMoves
  <2> HIDE DEF g
  <2>3. FlowsOK' /\ SameKeys
    BY <1>1, <2>1, <2>2, OneFlow DEF IInv
  <2>4. TableOK'
    BY <1>1, <2>1, <2>3 DEF IInv, TableOK, SameKeys
  <2>5. /\ reader' \in [at: {"bind", "read", "lookup", "dial", "insert", "send", "ended"},
                        d: Datagram \cup {NoDatagram}, flow: Nat]
        /\ reader'.at = "send" /\ reader'.d = reader.d /\ reader'.flow = n
    BY <2>1 DEF IInv, ReaderOK, n
  <2>6. ReaderOK'
    BY <1>1, <2>3, <2>5, JobFixed DEF ReaderOK, SameKeys, k
  <2>7. CapOK'
    <3>1. Held \subseteq Keys(job) /\ Held' \in SUBSET (Held \cup {k})
      BY <1>1, <2>1 DEF Held, IInv, TableOK
    <3>2. IsFiniteSet(Held)
      BY <3>1, KeysFinite, FS_Subset DEF IInv
    <3>3. Cardinality(Held \cup {k}) <= Cardinality(Held) + 1 /\ Cardinality(Held) \in Nat
      <4>1. Cardinality(Held) \in Nat
        BY <3>2, FS_CardinalityType
      <4>2. Cardinality(Held \cup {k}) \in {Cardinality(Held), Cardinality(Held) + 1}
        BY <3>2, FS_AddElement, Zenon
      <4> QED
        BY <4>1, <4>2
    <3>4. Cardinality(Held') <= Cardinality(Held \cup {k})
          /\ Cardinality(Held') \in Nat /\ Cardinality(Held \cup {k}) \in Nat
      BY <3>1, <3>2, FS_AddElement, FS_Subset, FS_CardinalityType
    <3>5. Cardinality(Held) < job.max /\ job.max \in Nat
      BY <1>1 DEF Room, IInv, JobType
    <3> QED
      BY <1>1, <2>5, <3>3, <3>4, <3>5 DEF CapOK
  <2> QED
    BY <1>1, <2>3, <2>4, <2>6, <2>7 DEF IInv
<1> QED
  BY <1>2, <1>3

LEMMA DropOK ==
  ASSUME IInv, UNCHANGED job, SameKeys, NEW k, NEW i, Drop(k, i),
         reader'.at \notin {"dial", "insert"} \/ UNCHANGED reader
  PROVE  TableOK' /\ CapOK'
<1>1. /\ DOMAIN table' = DOMAIN table /\ table' \in [Keys(job) -> Nat]
      /\ \A x \in DOMAIN table : table'[x] \in {0, table[x]}
  BY DEF Drop, IInv, TableOK
<1>2. TableOK'
  BY <1>1 DEF IInv, TableOK, SameKeys
<1>3. Cardinality(Held') <= Cardinality(Held)
      /\ Cardinality(Held) \in Nat /\ Cardinality(Held') \in Nat
  BY <1>1, Shrinks
<1>4. job.max \in Nat
  BY DEF IInv, JobType
<1> QED
  BY <1>2, <1>3, <1>4 DEF IInv, CapOK, Room

LEMMA SendOK == ASSUME IInv, Send PROVE IInv'
<1> DEFINE d == reader.d
           i == reader.flow
<1>1. /\ d \in Datagram /\ Sendable(d) /\ i \in DOMAIN flows
      /\ flows[i].key = SessionKey(d) /\ FlowOK(flows[i]) /\ job \in JobType
      /\ UNCHANGED <<job, inbox>> /\ InboxOK'
  BY DEF Send, ReaderAt, IInv, ReaderOK, FlowsOK, InboxOK
<1>2. ReaderOK' /\ reader'.at \notin {"dial", "insert"}
  BY BackHome DEF Send
<1> HIDE DEF d, i
<1>3. CASE flows' = [flows EXCEPT ![i] = SendFirst(flows[i], d)] /\ UNCHANGED table
  <2> DEFINE g == SendFirst(flows[i], d)
  <2>1. FlowOK(g) /\ g.key = flows[i].key
    BY <1>1, SendFirstOK
  <2> HIDE DEF g
  <2>2. FlowsOK' /\ SameKeys
    BY <1>1, <1>3, <2>1, OneFlow DEF g, IInv
  <2>3. TableOK' /\ CapOK'
    BY <1>1, <1>2, <1>3, <2>2 DEF IInv, TableOK, SameKeys, CapOK, Held
  <2> QED
    BY <1>1, <1>2, <2>2, <2>3 DEF IInv
<1>4. CASE flows' = [flows EXCEPT ![i].up = FALSE] /\ Drop(SessionKey(d), i)
  <2> DEFINE g == [flows[i] EXCEPT !.up = FALSE]
  <2>1. FlowOK(g) /\ g.key = flows[i].key
    BY <1>1, FlowMoves
  <2>2. flows' = [flows EXCEPT ![i] = g]
    BY <1>1, <1>4 DEF IInv, FlowsOK
  <2> HIDE DEF g
  <2>3. FlowsOK' /\ SameKeys
    BY <1>1, <2>1, <2>2, OneFlow DEF IInv
  <2>4. TableOK' /\ CapOK'
    BY <1>1, <1>2, <1>4, <2>3, DropOK
  <2> QED
    BY <1>1, <1>2, <2>3, <2>4 DEF IInv
<1> QED
  BY <1>3, <1>4 DEF Send, d, i

(* A step of one flow's own goroutine that leaves the rest alone.           *)
LEMMA FlowStep ==
  ASSUME IInv, NEW i \in DOMAIN flows, NEW g, FlowOK(g), g.key = flows[i].key,
         flows' = [flows EXCEPT ![i] = g], UNCHANGED <<job, table, reader, inbox>>
  PROVE  IInv'
<1>1. FlowsOK' /\ SameKeys
  BY OneFlow DEF IInv
<1>2. TableOK' /\ ReaderOK' /\ CapOK'
  BY <1>1, KeysKept
<1> QED
  BY <1>1, <1>2 DEF IInv, InboxOK

LEMMA PumpOK ==
  ASSUME IInv, NEW i \in DOMAIN flows, PumpEnds(i) \/ PumpForgets(i) PROVE IInv'
<1>1. FlowOK(flows[i])
  BY DEF IInv, FlowsOK
<1>2. CASE PumpEnds(i)
  <2> DEFINE g == [flows[i] EXCEPT !.at = "closing", !.up = FALSE]
  <2>1. FlowOK(g) /\ g.key = flows[i].key
    BY <1>1, FlowMoves
  <2>2. flows' = [flows EXCEPT ![i] = g] /\ UNCHANGED <<job, table, reader, inbox>>
    BY <1>2 DEF PumpEnds, IInv, FlowsOK
  <2> QED
    BY <2>1, <2>2, FlowStep
<1>3. CASE PumpForgets(i)
  <2> DEFINE g == [flows[i] EXCEPT !.at = "done"]
  <2>1. FlowOK(g) /\ g.key = flows[i].key
    BY <1>1, FlowMoves
  <2>2. flows' = [flows EXCEPT ![i] = g] /\ UNCHANGED <<job, reader, inbox>>
    BY <1>3 DEF PumpForgets, IInv, FlowsOK
  <2> HIDE DEF g
  <2>3. FlowsOK' /\ SameKeys
    BY <2>1, <2>2, OneFlow DEF IInv
  <2>4. TableOK' /\ CapOK'
    BY <1>3, <2>2, <2>3, DropOK DEF PumpForgets
  <2>5. ReaderOK'
    BY <2>2, <2>3, JobFixed DEF IInv, ReaderOK, SameKeys
  <2> QED
    BY <2>2, <2>3, <2>4, <2>5 DEF IInv, InboxOK
<1> QED
  BY <1>2, <1>3

LEMMA CloseAllOK == ASSUME IInv, CloseAll PROVE IInv'
<1>1. UNCHANGED <<job, reader, inbox>>
  BY DEF CloseAll
<1>2. \A i \in DOMAIN flows : /\ i \in DOMAIN flows' /\ FlowOK(flows'[i])
                             /\ flows'[i].key = flows[i].key
  BY FlowMoves DEF CloseAll, IInv, FlowsOK
<1>3. DOMAIN flows' = DOMAIN flows /\ flows' \in Seq(Flow)
  <2>1. DOMAIN flows' = DOMAIN flows
    BY DEF CloseAll
  <2>2. \A i \in DOMAIN flows : flows'[i] \in Flow
    BY <1>2 DEF FlowOK
  <2>3. DOMAIN flows = 1 .. Len(flows) /\ Len(flows) \in Nat
    BY DEF IInv, FlowsOK
  <2>4. flows' = [i \in 1 .. Len(flows) |-> flows'[i]]
    BY <2>3 DEF CloseAll
  <2> QED
    BY <2>1, <2>2, <2>3, <2>4
<1>4. FlowsOK' /\ SameKeys
  BY <1>1, <1>2, <1>3, JobFixed DEF FlowsOK, SameKeys
<1>5. DOMAIN table' = DOMAIN table /\ table' \in [Keys(job) -> Nat]
      /\ \A k \in DOMAIN table : table'[k] = 0
  BY DEF CloseAll, IInv, TableOK
<1>6. TableOK'
  BY <1>1, <1>5 DEF TableOK, IInv
<1>7. CapOK'
  <2>1. Cardinality(Held') <= Cardinality(Held)
        /\ Cardinality(Held) \in Nat /\ Cardinality(Held') \in Nat
    BY <1>1, <1>5, Shrinks
  <2>2. job.max \in Nat
    BY DEF IInv, JobType
  <2> QED
    BY <1>1, <2>1, <2>2 DEF IInv, CapOK, Room
<1>8. ReaderOK'
  BY <1>1, <1>4, JobFixed DEF IInv, ReaderOK, SameKeys
<1> QED
  BY <1>1, <1>4, <1>6, <1>7, <1>8 DEF IInv, InboxOK
-----------------------------------------------------------------------------
(* The tunnel.                                                              *)

(* What a flow's queue holds is of the flow's own key: taking the first     *)
(* datagram or adding another of that key keeps it so.                      *)
LEMMA QueueMoves ==
  ASSUME NEW f, FlowOK(f), f.queue # <<>>
  PROVE  /\ Head(f.queue) \in Datagram /\ SessionKey(Head(f.queue)) = f.key
         /\ Tail(f.queue) \in Seq(Datagram)
         /\ \A j \in DOMAIN Tail(f.queue) : SessionKey(Tail(f.queue)[j]) = f.key
<1>1. f.queue \in Seq(Datagram) /\ \A j \in DOMAIN f.queue : SessionKey(f.queue[j]) = f.key
  BY DEF FlowOK, Flow
<1>2. Head(f.queue) = f.queue[1] /\ 1 \in DOMAIN f.queue
  BY <1>1
<1>3. Tail(f.queue) \in Seq(Datagram)
  BY <1>1
<1>4. \A j \in DOMAIN Tail(f.queue) :
        j + 1 \in DOMAIN f.queue /\ Tail(f.queue)[j] = f.queue[j + 1]
  BY <1>1
<1> QED
  BY <1>1, <1>2, <1>3, <1>4

LEMMA AppendKeepsHead ==
  ASSUME NEW q \in Seq(Datagram), NEW d \in Datagram
  PROVE  Append(q, d) # <<>> /\ (q # <<>> => Head(Append(q, d)) = Head(q))
<1> DEFINE r == Append(q, d)
<1>1. r \in Seq(Datagram) /\ Len(r) = Len(q) + 1 /\ Len(q) \in Nat
  OBVIOUS
<1>2. \A i \in 1 .. Len(q) : r[i] = q[i]
  OBVIOUS
<1>3. q # <<>> => Len(q) >= 1 /\ Head(q) = q[1]
  OBVIOUS
<1> HIDE DEF r
<1>4. r # <<>>
  BY <1>1
<1>5. Head(r) = r[1]
  BY <1>1, <1>4
<1>6. q # <<>> => Head(r) = Head(q)
  BY <1>1, <1>2, <1>3, <1>5
<1> QED
  BY <1>4, <1>6 DEF r

LEMMA QueueGrows ==
  ASSUME NEW f, FlowOK(f), NEW d \in Datagram, SessionKey(d) = f.key
  PROVE  /\ FlowOK([f EXCEPT !.queue = Append(f.queue, d)])
         /\ [f EXCEPT !.queue = Append(f.queue, d)].key = f.key
<1> DEFINE q == Append(f.queue, d)
           g == [f EXCEPT !.queue = q]
<1>1. f.queue \in Seq(Datagram) /\ \A j \in DOMAIN f.queue : SessionKey(f.queue[j]) = f.key
  BY DEF FlowOK, Flow
<1>2. q \in Seq(Datagram) /\ \A j \in DOMAIN q : SessionKey(q[j]) = f.key
  BY <1>1
<1>3. q # <<>> /\ (f.queue # <<>> => Head(q) = Head(f.queue))
  BY <1>1, AppendKeepsHead
<1> HIDE DEF q
<1>4. g \in Flow /\ g.key = f.key /\ g.to = f.to /\ g.at = f.at /\ g.queue = q
      /\ g.carried = f.carried /\ g.leaked = f.leaked
  BY <1>2 DEF FlowOK, Flow
<1> HIDE DEF g
<1>5. FlowOK(g)
  BY <1>2, <1>3, <1>4 DEF FlowOK
<1> QED
  BY <1>4, <1>5 DEF g, q

LEMMA ArriveOK == ASSUME IInv, Arrive PROVE IInv'
<1> DEFINE d == Head(inbox)
           new == NewFlow(d, IF Port(d) = 53 THEN "dns" ELSE "first", FALSE)
<1>1. /\ inbox \in Seq(Datagram) /\ inbox # <<>> /\ inbox' = Tail(inbox)
      /\ UNCHANGED <<job, reader, table>>
  BY DEF Arrive, tunnelRest, IInv, InboxOK
<1>2. d \in Datagram
  BY <1>1
<1>3. InboxOK'
  <2>1. inbox' \in Seq(Datagram) /\ \A i \in DOMAIN inbox' :
           i + 1 \in DOMAIN inbox /\ inbox'[i] = inbox[i + 1]
    BY <1>1
  <2> QED
    BY <1>1, <2>1 DEF IInv, InboxOK
<1>4. FlowsOK' /\ SameKeys
  <2>1. CASE \E i \in Live(SessionKey(d)) :
               Set(i, [flows[i] EXCEPT !.queue = Append(@, d)])
    <3>1. PICK i \in DOMAIN flows :
            flows[i].key = SessionKey(d) /\ Set(i, [flows[i] EXCEPT !.queue = Append(@, d)])
      BY <2>1 DEF Live
    <3>2. FlowOK(flows[i])
      BY DEF IInv, FlowsOK
    <3> DEFINE g == [flows[i] EXCEPT !.queue = Append(flows[i].queue, d)]
    <3>3. FlowOK(g) /\ g.key = flows[i].key
      BY <1>2, <3>1, <3>2, QueueGrows
    <3>4. flows' = [flows EXCEPT ![i] = g]
      BY <3>1 DEF Set
    <3> HIDE DEF g
    <3> QED
      BY <1>1, <3>3, <3>4, OneFlow DEF IInv
  <2>2. CASE flows' = Append(flows, [new EXCEPT !.queue = <<d>>])
    <3> DEFINE at == IF Port(d) = 53 THEN "dns" ELSE "first"
               g == [new EXCEPT !.queue = <<d>>]
    <3>1. at \in {"dns", "first"} /\ (at = "first" => d.kind # "query")
      BY DEF Port
    <3> HIDE DEF at
    <3>2. FlowOK([NewFlow(d, at, FALSE) EXCEPT !.queue = <<d>>])
      BY <1>2, <3>1, NewFlowIsOK
    <3>3. FlowOK(g)
      BY <3>2 DEF at
    <3> HIDE DEF g
    <3> QED
      BY <1>1, <2>2, <3>3, NewFlowOK DEF IInv, g
  <2>3. CASE UNCHANGED flows
    BY <1>1, <2>3, JobFixed DEF IInv, FlowsOK, SameKeys
  <2> QED
    BY <2>1, <2>2, <2>3 DEF Arrive
<1>5. TableOK' /\ ReaderOK' /\ CapOK'
  BY <1>1, <1>4, KeysKept
<1> QED
  BY <1>1, <1>3, <1>4, <1>5 DEF IInv

(* One lemma for the sessions' ways out.                                    *)
LEMMA FinishedOK ==
  ASSUME IInv, NEW i \in DOMAIN flows, UNCHANGED <<job, table, reader, inbox>>,
         Set(i, Finished(flows[i])) \/ Set(i, [flows[i] EXCEPT !.client = FALSE])
  PROVE  IInv'
<1>1. FlowOK(flows[i])
  BY DEF IInv, FlowsOK
<1>2. CASE Set(i, Finished(flows[i]))
  <2> DEFINE g == Finished(flows[i])
  <2>1. FlowOK(g) /\ g.key = flows[i].key /\ flows' = [flows EXCEPT ![i] = g]
    BY <1>1, <1>2, FlowMoves DEF Set
  <2> HIDE DEF g
  <2> QED
    BY <2>1, FlowStep
<1>3. CASE Set(i, [flows[i] EXCEPT !.client = FALSE])
  <2> DEFINE g == [flows[i] EXCEPT !.client = FALSE]
  <2>1. FlowOK(g) /\ g.key = flows[i].key /\ flows' = [flows EXCEPT ![i] = g]
    BY <1>1, <1>3, FlowMoves DEF Set
  <2> HIDE DEF g
  <2> QED
    BY <2>1, FlowStep
<1> QED
  BY <1>2, <1>3

LEMMA AnswerQueryOK ==
  ASSUME IInv, NEW i \in DOMAIN flows, AnswerQuery(i) PROVE IInv'
<1>1. /\ FlowOK(flows[i]) /\ flows[i].at = "dns" /\ flows[i].queue # <<>>
      /\ UNCHANGED <<job, table, reader, inbox>>
  BY DEF AnswerQuery, At, tunnelRest, IInv, FlowsOK
<1>2. CASE Set(i, [flows[i] EXCEPT !.queue = Tail(flows[i].queue)])
  <2> DEFINE g == [flows[i] EXCEPT !.queue = Tail(flows[i].queue)]
  <2>1. FlowOK(g) /\ g.key = flows[i].key
    <3>1. g \in Flow
      BY <1>1, QueueMoves DEF FlowOK, Flow
    <3>2. /\ g.key = flows[i].key /\ g.to = flows[i].to /\ g.at = flows[i].at
          /\ g.queue = Tail(flows[i].queue) /\ g.carried = flows[i].carried
          /\ g.leaked = flows[i].leaked
      BY <1>1 DEF FlowOK, Flow
    <3> HIDE DEF g
    <3> QED
      BY <1>1, <3>1, <3>2, QueueMoves DEF FlowOK
  <2>2. flows' = [flows EXCEPT ![i] = g]
    BY <1>2 DEF Set
  <2> HIDE DEF g
  <2> QED
    BY <1>1, <2>1, <2>2, FlowStep
<1>3. CASE Set(i, Finished(flows[i]))
  BY <1>1, <1>3, FinishedOK
<1> QED
  BY <1>2, <1>3 DEF AnswerQuery

LEMMA ServeFirstOK ==
  ASSUME IInv, NEW i \in DOMAIN flows, ServeFirst(i) PROVE IInv'
<1>1. /\ FlowOK(flows[i]) /\ flows[i].at = "first" /\ flows[i].queue # <<>>
      /\ UNCHANGED <<job, table, reader, inbox>>
  BY DEF ServeFirst, At, tunnelRest, IInv, FlowsOK
<1>2. CASE QuicAction(Head(flows[i].queue)) # "refuse"
  <2> DEFINE g == [flows[i] EXCEPT !.at = "dial"]
  <2>1. /\ g \in Flow /\ g.key = flows[i].key /\ g.to = flows[i].to /\ g.at = "dial"
        /\ g.queue = flows[i].queue /\ g.carried = flows[i].carried
        /\ g.leaked = flows[i].leaked
    BY <1>1 DEF FlowOK, Flow
  <2>2. flows' = [flows EXCEPT ![i] = g]
    BY <1>2 DEF ServeFirst, Set
  <2> HIDE DEF g
  <2>3. FlowOK(g)
    BY <1>1, <1>2, <2>1 DEF FlowOK
  <2> QED
    BY <1>1, <2>1, <2>2, <2>3, FlowStep
<1>3. CASE QuicAction(Head(flows[i].queue)) = "refuse"
  BY <1>1, <1>3, FinishedOK DEF ServeFirst
<1> QED
  BY <1>2, <1>3

LEMMA DialFirstOK ==
  ASSUME IInv, NEW i \in DOMAIN flows, DialFirst(i) PROVE IInv'
<1>1. /\ FlowOK(flows[i]) /\ flows[i].at = "dial"
      /\ UNCHANGED <<job, table, reader, inbox>>
  BY DEF DialFirst, At, tunnelRest, IInv, FlowsOK
<1>2. CASE Set(i, [flows[i] EXCEPT !.at = "send", !.up = TRUE])
  <2> DEFINE g == [flows[i] EXCEPT !.at = "send", !.up = TRUE]
  <2>1. /\ g \in Flow /\ g.key = flows[i].key /\ g.to = flows[i].to /\ g.at = "send"
        /\ g.queue = flows[i].queue /\ g.carried = flows[i].carried
        /\ g.leaked = flows[i].leaked
    BY <1>1 DEF FlowOK, Flow
  <2>2. flows' = [flows EXCEPT ![i] = g]
    BY <1>2 DEF Set
  <2> HIDE DEF g
  <2>3. FlowOK(g)
    BY <1>1, <2>1 DEF FlowOK
  <2> QED
    BY <1>1, <2>1, <2>2, <2>3, FlowStep
<1>3. CASE Set(i, Finished(flows[i]))
  BY <1>1, <1>3, FinishedOK
<1> QED
  BY <1>2, <1>3 DEF DialFirst

LEMMA RelayFirstOK ==
  ASSUME IInv, NEW i \in DOMAIN flows, RelayFirst(i) PROVE IInv'
<1> DEFINE f == flows[i]
           d == Head(f.queue)
<1>1. /\ FlowOK(f) /\ f.at = "send" /\ job \in JobType
      /\ UNCHANGED <<job, table, reader, inbox>>
  BY DEF RelayFirst, At, tunnelRest, IInv, FlowsOK
<1>2. f.queue # <<>> /\ f.key[3] # 53 /\ QuicAction(d) # "refuse"
  BY <1>1 DEF FlowOK
<1>3. /\ d \in Datagram /\ SessionKey(d) = f.key /\ Tail(f.queue) \in Seq(Datagram)
      /\ \A j \in DOMAIN Tail(f.queue) : SessionKey(Tail(f.queue)[j]) = f.key
  BY <1>1, <1>2, QueueMoves
<1>4. Sendable(d)
  BY <1>2, <1>3, KeyFacts DEF Sendable
<1>5. CASE Set(i, [SendFirst(f, d) EXCEPT !.at = "relay", !.queue = Tail(@)])
  <2> DEFINE h == SendFirst(f, d)
             q == Tail(f.queue)
             g == [h EXCEPT !.at = "relay", !.queue = q]
  <2>1. FlowOK(h) /\ h.key = f.key /\ h.queue = f.queue
    BY <1>1, <1>3, <1>4, SendFirstOK
  <2>2. flows' = [flows EXCEPT ![i] = g]
    <3>1. flows' = [flows EXCEPT ![i] = [h EXCEPT !.at = "relay", !.queue = Tail(h.queue)]]
      BY <1>5, <2>1 DEF Set, FlowOK, Flow
    <3> QED
      BY <2>1, <3>1
  <2> HIDE DEF h, q
  <2>3. /\ g \in Flow /\ g.key = h.key /\ g.to = h.to /\ g.at = "relay" /\ g.queue = q
        /\ g.carried = h.carried /\ g.leaked = h.leaked
    BY <1>3, <2>1 DEF FlowOK, Flow, q
  <2> HIDE DEF g
  <2>4. FlowOK(g)
    BY <1>3, <2>1, <2>3 DEF FlowOK, q
  <2> QED
    BY <1>1, <2>1, <2>2, <2>3, <2>4, FlowStep
<1>6. CASE Set(i, Finished(f))
  BY <1>1, <1>6, FinishedOK
<1> QED
  BY <1>5, <1>6 DEF RelayFirst

(* A later datagram goes out on the socket of the first, from its port; it  *)
(* can be late, not leaked.                                                 *)
LEMMA RelayUpOK ==
  ASSUME IInv, NEW i \in DOMAIN flows, RelayUp(i) PROVE IInv'
<1> DEFINE f == flows[i]
           d == Head(f.queue)
           q == Tail(f.queue)
           leak == (f.leaked \/ (d.kind = "query" /\ (job.dns \/ ~Socks))
                             \/ (Initial(d) /\ Judged(d) /\ job.quic # "relay"
                                   /\ ~(f.decoyed \/ FALSE)))
           deco == f.decoyed \/ FALSE
           late == f.late \/ leak
           g == [f EXCEPT !.carried = f.carried \cup {d.from}, !.decoyed = deco,
                          !.leaked = f.leaked, !.queue = q, !.late = late]
<1>1. /\ FlowOK(f) /\ f.at = "relay" /\ f.queue # <<>> /\ f \in Flow
      /\ UNCHANGED <<job, table, reader, inbox>>
  BY DEF RelayUp, At, tunnelRest, IInv, FlowsOK, FlowOK
<1>2. /\ d \in Datagram /\ SessionKey(d) = f.key /\ q \in Seq(Datagram)
      /\ \A j \in DOMAIN q : SessionKey(q[j]) = f.key
  BY <1>1, QueueMoves
<1>3. d.from = f.to /\ d.from \in Clients
  BY <1>1, <1>2, KeyFacts DEF FlowOK, Datagram
<1>4. flows' = [flows EXCEPT ![i] = g]
  <2>1. PICK c : c = Carries(f, d, FALSE)
    OBVIOUS
  <2>2. flows' = [flows EXCEPT ![i] = [c EXCEPT !.queue = Tail(@), !.leaked = f.leaked,
                                                !.late = f.late \/ c.leaked]]
    BY <2>1 DEF RelayUp, Set
  <2>3. c = [f EXCEPT !.carried = f.carried \cup {d.from}, !.decoyed = deco, !.leaked = leak]
    BY <1>1, <2>1 DEF Carries, Flow
  <2> HIDE DEF leak, deco, d
  <2>4. c.queue = f.queue /\ c.leaked = leak
    BY <1>1, <2>3 DEF Flow
  <2>5. [c EXCEPT !.queue = q, !.leaked = f.leaked, !.late = late] = g
    BY <1>1, <2>3 DEF Flow
  <2>6. [c EXCEPT !.queue = Tail(@), !.leaked = f.leaked, !.late = f.late \/ c.leaked]
          = [c EXCEPT !.queue = q, !.leaked = f.leaked, !.late = late]
    BY <2>4
  <2> QED BY <2>2, <2>5, <2>6
<1>5. deco \in BOOLEAN /\ late \in BOOLEAN
  BY <1>1 DEF Flow
<1> HIDE DEF leak, late, deco, q, d
<1>6. /\ g \in Flow /\ g.key = f.key /\ g.to = f.to /\ g.at = f.at /\ g.queue = q
      /\ g.carried = f.carried \cup {d.from} /\ g.leaked = f.leaked
  BY <1>1, <1>2, <1>3, <1>5 DEF Flow
<1> HIDE DEF g
<1>7. FlowOK(g)
  BY <1>1, <1>2, <1>3, <1>6 DEF FlowOK
<1> QED
  BY <1>1, <1>4, <1>6, <1>7, FlowStep

LEMMA SessionOK ==
  ASSUME IInv, NEW i \in DOMAIN flows, Session(i) \/ Idle(i) \/ CloseOnCancel(i)
  PROVE  IInv'
<1>1. CASE Idle(i) \/ ReadFails(i) \/ CloseOnCancel(i)
  BY <1>1, FinishedOK DEF Idle, ReadFails, CloseOnCancel, tunnelRest
<1> QED
  BY <1>1, AnswerQueryOK, ServeFirstOK, DialFirstOK, RelayFirstOK, RelayUpOK DEF Session

-----------------------------------------------------------------------------
(* The whole.                                                               *)

LEMMA StepOK == ASSUME IInv, [Next]_vars PROVE IInv'
<1>1. CASE Association
  BY <1>1, ReaderOnly, HandleOK, LookupOK, DialOK, InsertOK, SendOK, CloseAllOK
     DEF Association
<1>2. CASE Drain \/ End \/ UNCHANGED vars
  <2>1. UNCHANGED <<job, inbox, reader, table, flows>>
    BY <1>2 DEF Drain, End, vars
  <2>2. FlowsOK' /\ SameKeys /\ InboxOK'
    BY <2>1, JobFixed DEF IInv, FlowsOK, SameKeys, InboxOK
  <2> QED
    BY <2>1, <2>2, KeysKept DEF IInv
<1>3. CASE \E i \in DOMAIN flows :
             \/ PumpEnds(i) \/ PumpForgets(i)
             \/ Session(i) \/ Idle(i) \/ CloseOnCancel(i)
  BY <1>3, PumpOK, SessionOK
<1> QED
  BY <1>1, <1>2, <1>3, ArriveOK DEF Next

LEMMA Inductive == Spec => []IInv
<1>1. Init => IInv
  BY InitOK
<1>2. IInv /\ [Next]_vars => IInv'
  BY StepOK
<1> QED
  BY <1>1, <1>2, PTL DEF Spec
-----------------------------------------------------------------------------
(* The theorems.                                                            *)

(* No query leaves the process where it can be answered there, and no       *)
(* Initial for a judged name leaves as the first datagram of a session, or  *)
(* through the association at all, without decoys (proxyfe/socks5udp.go       *)
(* handle and tunfe/udp.go serveUDP, with flow/udpflow.go).                 *)
THEOREM Confined == Spec => []NothingLeaks
<1>1. IInv => NothingLeaks
  BY DEF IInv, FlowsOK, FlowOK, NothingLeaks
<1> QED
  BY <1>1, Inductive, PTL

(* An upstream socket carries the datagrams of one client port only, so     *)
(* every reply goes to the port that asked (proxyfe/socks5udp.go session).  *)
THEOREM RepliesToTheAsker == Spec => []RepliesGoHome
<1>1. IInv => RepliesGoHome
  BY DEF IInv, FlowsOK, FlowOK, RepliesGoHome
<1> QED
  BY <1>1, Inductive, PTL

(* The association never holds more sessions than its cap, although the     *)
(* lock under which room was found is dropped for the resolution and the    *)
(* dial: nobody but the one reader fills the table                          *)
(* (proxyfe/socks5udp.go session).                                          *)
THEOREM TableIsBounded == Spec => [](Cardinality(Held) <= job.max)
<1>1. IInv => Cardinality(Held) <= job.max
  BY DEF IInv, CapOK
<1> QED
  BY <1>1, Inductive, PTL

(* A session in the table is a flow of its own key: a datagram never  *)
(* goes out on another destination's socket (proxyfe/socks5udp.go session). *)
THEOREM SessionsAreOfTheirKey ==
  Spec => [](\A k \in DOMAIN table : table[k] # 0 =>
                table[k] \in DOMAIN flows /\ flows[table[k]].key = k)
<1>1. IInv => \A k \in DOMAIN table : table[k] # 0 =>
                table[k] \in DOMAIN flows /\ flows[table[k]].key = k
  BY DEF IInv, TableOK
<1> QED
  BY <1>1, Inductive, PTL
-----------------------------------------------------------------------------
(* Part two: Netwatch.                                                      *)

Stages  == {"idle", "read", "facts", "judge", "quiesce", "swap", "reverify",
            "probe", "resume", "stopped"}
Reasons == {"uplink", "portal", "settling"}

\* The types the argument needs.
WatchTypeInv ==
    /\ net \in Places /\ ns \in Nets /\ holds \subseteq Reasons
    /\ pc \in Stages /\ why \in {"change", "settle", "poll"} /\ seen.at \in Places
    /\ timer \in [on: BOOLEAN, left: 0 .. MaxDebounce, age: 0 .. MaxDebounce]

\* Another reaction is owed: a signal waits, or one went unheard.
Owed == raw \/ timer.on \/ missed

\* What the datapath believes, but for the hold of a settling network.
Believes ==
    IF net = NoUplink THEN "uplink" \in holds
    ELSE ns = net /\ holds \subseteq {"portal", "settling"}

\* The facts in hand, and the belief, at each step of a reaction.
Reaction ==
    /\ pc \in {"idle", "read", "facts"} => "settling" \notin holds
    /\ pc = "idle" => Owed \/ Believes
    /\ pc \in {"read", "facts", "judge"} => why = "change"
    /\ pc = "facts" => Owed \/ seen.at = net
    /\ pc = "judge" => /\ seen.at # NoUplink /\ holds \subseteq {"portal"}
                       /\ Owed \/ seen.at = net
    /\ pc \in {"quiesce", "swap"} =>
          /\ why = "settle" /\ seen.at # NoUplink
          /\ "settling" \in holds /\ holds \subseteq {"portal", "settling"}
          /\ Owed \/ seen.at = net
    /\ pc = "swap" => cached \subseteq {net} \/ raw \/ missed
    /\ pc \in {"reverify", "probe"} =>
          /\ Owed \/ Believes
          /\ "settling" \in holds => why = "settle"
    /\ pc = "resume" => Owed \/ Believes

\* The quiet window is extended, but never past its cap.
Capped == timer.on => timer.left + timer.age <= MaxDebounce

WatchInv == WatchTypeInv /\ Capped /\ Reaction
-----------------------------------------------------------------------------

LEMMA WatchInitOK == WatchInit => WatchInv
<1> SUFFICES ASSUME WatchInit PROVE WatchInv
  OBVIOUS
<1>1. WatchTypeInv
  BY WatchAssumption DEF WatchInit, WatchTypeInv, Places, NoTimer, Stages, Reasons
<1>2. Capped
  BY DEF WatchInit, Capped, NoTimer
<1>3. Reaction
  BY WatchAssumption DEF WatchInit, Reaction, Believes, Owed
<1> QED
  BY <1>1, <1>2, <1>3 DEF WatchInv

(* Whatever the machine does while a reaction is under way leaves a signal, *)
(* or is remembered as missed.                                              *)
LEMMA EnvironmentOK == ASSUME WatchInv, Environment PROVE WatchInv'
<1> USE DEF WatchInv, WatchTypeInv, machine, signals, local, datapath, bounds
<1>1. CASE Move \/ Tunnel
  <2>1. (raw \/ missed)' /\ UNCHANGED <<local, datapath>>
    BY <1>1 DEF Move, Tunnel, Signal
  <2>2. WatchTypeInv' /\ Capped'
    BY <1>1, <2>1 DEF Move, Tunnel, Signal, Capped
  <2>3. Reaction'
    BY <2>1 DEF Reaction, Owed
  <2> QED
    BY <2>2, <2>3
<1>2. CASE Churn
  <2>1. WatchTypeInv' /\ Capped'
    BY <1>2 DEF Churn, Capped
  <2>2. Reaction'
    BY <1>2 DEF Churn, Reaction, Owed
  <2> QED
    BY <2>1, <2>2
<1>3. CASE Sleep \/ (\E n \in Nets : Login(n)) \/ SocketFails \/ SocketReopens \/ ProbeAges
  <2>1. WatchTypeInv' /\ Capped'
    BY <1>3 DEF Sleep, Login, SocketFails, SocketReopens, ProbeAges, Capped
  <2>2. UNCHANGED <<net, raw, missed, timer, pc, why, seen, datapath>>
    BY <1>3 DEF Sleep, Login, SocketFails, SocketReopens, ProbeAges
  <2>3. Reaction'
    BY <2>2 DEF Reaction, Owed, Believes
  <2> QED
    BY <2>1, <2>3
<1>4. CASE Resolve
  <2>1. WatchTypeInv' /\ Capped'
    BY <1>4 DEF Resolve, Capped
  <2>2. Reaction'
    BY <1>4 DEF Resolve, Reaction, Owed, Believes
  <2> QED
    BY <2>1, <2>2
<1> QED
  BY <1>1, <1>2, <1>3, <1>4 DEF Environment

(* The select: a signal taken from the channel lives on in the timer.       *)
LEMMA SelectOK ==
  ASSUME WatchInv, Receive \/ Tick \/ Fire \/ Wake \/ Repoll PROVE WatchInv'
<1> USE DEF WatchInv, WatchTypeInv, machine, signals, local, datapath, bounds
<1>1. CASE Receive
  <2> DEFINE t == IF timer.on THEN [timer EXCEPT !.left = Deadline(timer.age)]
                  ELSE [on |-> TRUE, left |-> Debounce, age |-> 0]
  <2>1. /\ timer.age \in 0 .. MaxDebounce /\ Debounce \in 0 .. MaxDebounce
        /\ MaxDebounce \in Nat
    BY WatchAssumption
  <2>2. /\ Deadline(timer.age) \in 0 .. MaxDebounce
        /\ Deadline(timer.age) + timer.age <= MaxDebounce
    BY <2>1 DEF Deadline
  <2>3. /\ t \in [on: BOOLEAN, left: 0 .. MaxDebounce, age: 0 .. MaxDebounce]
        /\ t.on /\ t.left + t.age <= MaxDebounce
    BY <2>1, <2>2
  <2> HIDE DEF t
  <2>4. timer' = t /\ raw' = FALSE /\ pc' = pc /\ pc = "idle"
    BY <1>1 DEF Receive, Waiting, t
  <2>5. WatchTypeInv' /\ Capped'
    BY <1>1, <2>3, <2>4 DEF Receive, Capped
  <2>6. Reaction'
    BY <1>1, <2>3, <2>4 DEF Receive, Reaction, Owed
  <2> QED
    BY <2>5, <2>6
<1>2. CASE Tick
  <2> DEFINE t == [timer EXCEPT !.left = timer.left - 1,
                     !.age = IF timer.age < MaxDebounce THEN timer.age + 1 ELSE timer.age]
  <2>1. /\ timer.age \in 0 .. MaxDebounce /\ timer.left \in 1 .. MaxDebounce
        /\ timer.left + timer.age <= MaxDebounce /\ MaxDebounce \in Nat
    BY <1>2, WatchAssumption DEF Tick, Capped
  <2>2. /\ t \in [on: BOOLEAN, left: 0 .. MaxDebounce, age: 0 .. MaxDebounce]
        /\ t.on = timer.on /\ t.left + t.age <= MaxDebounce
    <3>1. /\ timer.left - 1 \in 0 .. MaxDebounce
          /\ (IF timer.age < MaxDebounce THEN timer.age + 1 ELSE timer.age)
                \in 0 .. MaxDebounce
          /\ (IF timer.age < MaxDebounce THEN timer.age + 1 ELSE timer.age)
                <= timer.age + 1
      BY <2>1
    <3>2. /\ t.on = timer.on /\ t.left = timer.left - 1
          /\ t.age = IF timer.age < MaxDebounce THEN timer.age + 1 ELSE timer.age
          /\ t \in [on: BOOLEAN, left: 0 .. MaxDebounce, age: 0 .. MaxDebounce]
      BY <3>1
    <3> QED
      BY <2>1, <3>1, <3>2
  <2> HIDE DEF t
  <2>3. timer' = t
    BY <1>2 DEF Tick, t
  <2>4. WatchTypeInv' /\ Capped'
    BY <1>2, <2>2, <2>3 DEF Tick, Capped
  <2>5. Reaction'
    BY <1>2, <2>2, <2>3 DEF Tick, Reaction, Owed, Believes
  <2> QED
    BY <2>4, <2>5
<1>3. CASE Fire \/ Wake
  <2>1. /\ NoTimer \in [on: BOOLEAN, left: 0 .. MaxDebounce, age: 0 .. MaxDebounce]
        /\ ~NoTimer.on
    BY WatchAssumption DEF NoTimer
  <2>2. /\ pc = "idle" /\ pc' = "read" /\ why' = "change" /\ timer' \in {timer, NoTimer}
        /\ UNCHANGED <<net, ns, holds, seen>>
    BY <1>3 DEF Fire, Wake, Reacts, Waiting
  <2>3. WatchTypeInv' /\ Capped'
    BY <2>1, <2>2 DEF Stages, Capped
  <2>4. Reaction'
    BY <2>2 DEF Reaction
  <2> QED
    BY <2>3, <2>4
<1>4. CASE Repoll
  <2>1. WatchTypeInv' /\ Capped'
    BY <1>4 DEF Repoll, Stages, Capped
  <2>2. Reaction'
    BY <1>4 DEF Repoll, Waiting, Reaction, Owed, Believes
  <2> QED
    BY <2>1, <2>2
<1> QED
  BY <1>1, <1>2, <1>3, <1>4

(* The facts are read, lost, or lead to a decision.                         *)
LEMMA ReadingOK ==
  ASSUME WatchInv, Read \/ FactsUnread \/ UplinkLost \/ UplinkBack PROVE WatchInv'
<1> USE DEF WatchInv, WatchTypeInv, machine, signals, local, datapath, bounds
<1>1. CASE Read
  <2>1. WatchTypeInv' /\ Capped'
    BY <1>1 DEF Read, Stages, Capped
  <2>2. Reaction'
    BY <1>1 DEF Read, Reaction
  <2> QED
    BY <2>1, <2>2
<1>2. CASE FactsUnread
  <2>1. WatchTypeInv' /\ Capped'
    BY <1>2 DEF FactsUnread, BackToLoop, Stages, Capped
  <2>2. Reaction'
    BY <1>2 DEF FactsUnread, BackToLoop, Reaction, Owed
  <2> QED
    BY <2>1, <2>2
<1>3. CASE UplinkLost
  <2>1. WatchTypeInv' /\ Capped'
    BY <1>3 DEF UplinkLost, BackToLoop, Holding, Stages, Reasons, Capped
  <2>2. Reaction'
    BY <1>3 DEF UplinkLost, BackToLoop, Holding, Reaction, Owed, Believes
  <2> QED
    BY <2>1, <2>2
<1>4. CASE UplinkBack
  <2>1. WatchTypeInv' /\ Capped'
    BY <1>4 DEF UplinkBack, Released, Stages, Reasons, Capped
  <2>2. Reaction'
    BY <1>4 DEF UplinkBack, Released, Reaction, Owed, Reasons
  <2> QED
    BY <2>1, <2>2
<1> QED
  BY <1>1, <1>2, <1>3, <1>4

(* The same network, another one, or the end of the run.                    *)
LEMMA SettlingOK ==
  ASSUME WatchInv, Stop \/ SameNetwork \/ Settle \/ Quiesce \/ Swap PROVE WatchInv'
<1> USE DEF WatchInv, WatchTypeInv, machine, signals, local, datapath, bounds
<1>1. CASE Stop \/ SameNetwork
  <2>1. WatchTypeInv' /\ Capped'
    BY <1>1 DEF Stop, SameNetwork, Stages, Capped
  <2>2. Reaction'
    BY <1>1, WatchAssumption DEF Stop, SameNetwork, Reaction, Owed, Believes
  <2> QED
    BY <2>1, <2>2
<1>2. CASE Settle
  <2>1. WatchTypeInv' /\ Capped'
    BY <1>2 DEF Settle, Holding, Stages, Reasons, Capped
  <2>2. Reaction'
    BY <1>2 DEF Settle, Holding, Reaction, Owed
  <2> QED
    BY <2>1, <2>2
<1>3. CASE Quiesce
  <2>1. WatchTypeInv' /\ Capped'
    BY <1>3 DEF Quiesce, Stages, Capped
  <2>2. Reaction'
    BY <1>3 DEF Quiesce, Reaction, Owed
  <2> QED
    BY <2>1, <2>2
<1>4. CASE Swap
  <2>1. WatchTypeInv' /\ Capped'
    BY <1>4 DEF Swap, Stages, Capped, Reaction, Places
  <2>2. Reaction'
    BY <1>4 DEF Swap, Reaction, Owed, Believes
  <2> QED
    BY <2>1, <2>2
<1> QED
  BY <1>1, <1>2, <1>3, <1>4

(* The settings, the portal probe and the end of the hold: none of them     *)
(* loses what the datapath believes.                                        *)
LEMMA FinishingOK ==
  ASSUME WatchInv, Reverify \/ ReverifyFails \/ Probe \/ SkipProbe \/ Resume PROVE WatchInv'
<1> USE DEF WatchInv, WatchTypeInv, machine, signals, local, datapath, bounds
<1>1. CASE Reverify \/ ReverifyFails
  <2>1. /\ pc = "reverify" /\ UNCHANGED <<net, ns, holds, why, seen, timer, raw>>
        /\ missed => missed'
        /\ \/ why = "poll" /\ pc' = "idle"
           \/ why # "poll" /\ pc' = "probe"
    BY <1>1 DEF Reverify, ReverifyFails, AfterReverify, BackToLoop
  <2>2. WatchTypeInv' /\ Capped'
    BY <2>1 DEF Stages, Capped
  <2>3. Reaction'
    BY <2>1 DEF Reaction, Owed, Believes
  <2> QED
    BY <2>2, <2>3
<1>2. CASE Probe
  <2>1. PICK hs \in {Holding("portal"), Released("portal")} :
          holds' = hs /\ AfterHold(hs)
    BY <1>2 DEF Probe, AfterProbe
  <2>2. /\ pc = "probe" /\ UNCHANGED <<net, ns, why, seen, timer, raw, missed>>
        /\ \/ why = "settle" /\ pc' = "resume"
           \/ why # "settle" /\ pc' \in {"reverify", "idle"}
    BY <1>2, <2>1 DEF Probe, AfterHold, BackToLoop
  <2>3. WatchTypeInv' /\ Capped'
    BY <2>1, <2>2 DEF Holding, Released, Stages, Reasons, Capped
  <2>4. (Owed \/ Believes)' /\ ("settling" \in holds' => "settling" \in holds)
    BY <2>1, <2>2 DEF Holding, Released, Reaction, Owed, Believes
  <2>5. Reaction'
    BY <2>2, <2>4 DEF Reaction
  <2> QED
    BY <2>3, <2>5
<1>3. CASE SkipProbe
  <2>1. WatchTypeInv' /\ Capped'
    BY <1>3 DEF SkipProbe, BackToLoop, Stages, Capped
  <2>2. Reaction'
    BY <1>3 DEF SkipProbe, BackToLoop, Reaction, Owed, Believes
  <2> QED
    BY <2>1, <2>2
<1>4. CASE Resume
  <2>1. WatchTypeInv' /\ Capped'
    BY <1>4 DEF Resume, BackToLoop, Released, Stages, Reasons, Capped
  <2>2. Reaction'
    BY <1>4 DEF Resume, BackToLoop, Released, Reaction, Owed, Believes
  <2> QED
    BY <2>1, <2>2
<1> QED
  BY <1>1, <1>2, <1>3, <1>4

LEMMA WatchStepOK == WatchInv /\ [WatchNext]_watchVars => WatchInv'
<1> SUFFICES ASSUME WatchInv, [WatchNext]_watchVars PROVE WatchInv'
  OBVIOUS
<1>1. CASE Step
  BY <1>1, ReadingOK, SettlingOK, FinishingOK DEF Step
<1>2. CASE UNCHANGED watchVars
  BY <1>2 DEF watchVars, machine, signals, local, datapath, bounds,
              WatchInv, WatchTypeInv, Capped, Reaction, Owed, Believes
<1> QED
  BY <1>1, <1>2, EnvironmentOK, SelectOK DEF WatchNext

LEMMA WatchInductive == WatchSpec => []WatchInv
BY WatchInitOK, WatchStepOK, PTL DEF WatchSpec
-----------------------------------------------------------------------------

(* No wakeup is lost: for any number of moves at any moment of a reaction,  *)
(* when the watcher rests and owes nothing, namespace and holds are those   *)
(* of the network the machine is on.                                        *)
THEOREM NoLostWakeup == WatchSpec => []BeliefIsCurrent
<1>1. WatchInv => BeliefIsCurrent
  BY DEF WatchInv, Reaction, Owed, Believes, BeliefIsCurrent, Waiting
<1> QED
  BY <1>1, WatchInductive, PTL

(* The namespace changes in Swap alone, after the hold was taken and the    *)
(* resolver flushed.                                                        *)
THEOREM CleanSwap == WatchSpec => SwapIsClean
<1>1. WatchInv /\ [WatchNext]_watchVars =>
        [ns' # ns => /\ "settling" \in holds \cap holds'
                     /\ cached \subseteq {net} \/ raw \/ missed]_watchVars
  <2> SUFFICES ASSUME WatchInv, WatchNext, ns' # ns
               PROVE  /\ "settling" \in holds \cap holds'
                      /\ cached \subseteq {net} \/ raw \/ missed
    OBVIOUS
  <2>1. Swap
    BY DEF WatchNext, Environment, Step, Move, Tunnel, Churn, Sleep, Login, Resolve,
           SocketFails, SocketReopens, ProbeAges, Receive, Tick, Fire, Wake, Repoll,
           Read, FactsUnread, UplinkLost, UplinkBack, Stop, SameNetwork, Settle, Quiesce,
           Reverify, ReverifyFails, Probe, SkipProbe, Resume, datapath
  <2> QED
    BY <2>1 DEF Swap, WatchInv, Reaction
<1> QED
  BY <1>1, WatchInductive, PTL DEF WatchSpec, SwapIsClean

(* Routing churn cannot put a reaction off for ever: the ticks an armed     *)
(* timer has left and those since its first signal never exceed the cap.    *)
THEOREM WindowIsCapped ==
  WatchSpec => [](timer.on => timer.left + timer.age <= MaxDebounce)
<1>1. WatchInv => (timer.on => timer.left + timer.age <= MaxDebounce)
  BY DEF WatchInv, Capped
<1> QED
  BY <1>1, WatchInductive, PTL
=============================================================================
