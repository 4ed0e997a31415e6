------------------------- MODULE VerdictStoreProofs -------------------------
(***************************************************************************)
(* Proofs about VerdictStore for any goroutines and CLI processes, any     *)
(* networks and hosts, every cap, threshold and lifetime, and any number   *)
(* of updates, faults and kills.                                           *)
EXTENDS VerdictStore, FiniteSetTheorems, TLAPS

HostRecord == [used: Nat, verdict: Verdict]

\* A finite map whose records are ranked no higher than there are records, and
\* which maps hosts to records of verdicts; a table of such maps.
IsRanked(m) ==
    /\ IsFiniteSet(DOMAIN m)
    /\ \A x \in DOMAIN m : m[x].used \in Nat /\ m[x].used <= Cardinality(DOMAIN m)
IsHosts(hs) == IsRanked(hs) /\ \A h \in DOMAIN hs : hs[h] \in HostRecord
IsNet(r)    == r = [used |-> r.used, hosts |-> r.hosts] /\ IsHosts(r.hosts)
IsTable(tb) == IsRanked(tb) /\ \A n \in DOMAIN tb : IsNet(tb[n])

Phases == {"idle", "copy", "create", "write", "rename", "mark"}

TypeOK ==
    /\ table = [s \in Stores |-> table[s]] /\ \A s \in Stores : IsTable(table[s])
    /\ snap = [t \in Threads |-> snap[t]] /\ \A t \in Threads : IsTable(snap[t])
    /\ IsTable(disk)
    /\ state \in [Stores -> {"absent", "open", "closed", "ended"}]
    /\ dirty \in [Stores -> BOOLEAN]
    /\ temp \in [Threads -> {"none", "partial", "full"}]
    /\ pc \in [Threads -> Phases]
    /\ now \in Nat /\ raced \in BOOLEAN

\* What a Get at the given time finds, and two tables in which it finds the same.
FoundAt(time, tb, n, h) ==
    IF Has(tb, n, h) /\ ~(time > tb[n].hosts[h].verdict.until)
    THEN {tb[n].hosts[h].verdict} ELSE {}
Same(time, a, b) ==
    \A n \in Nets, h \in Hosts : FoundAt(time, a, n, h) = FoundAt(time, b, n, h)

\* Only a running process flushes, and no half-written file is renamed.
Flow ==
    /\ \A t \in Threads : pc[t] # "idle" => Running(StoreOf(t))
    /\ \A t \in Threads : pc[t] = "rename" => temp[t] # "partial"

\* Unless something else moved, there is one store and one Flush at work, ...
Alone ==
    /\ \A s, o \in Stores : Running(s) /\ Running(o) => s = o
    /\ \A t, u \in Flushing : t = u

\* ... and what it carries to the file is what the store holds.
Carried ==
    /\ \A t \in Flushing :
          IF pc[t] = "mark" THEN Same(now, table[StoreOf(t)], disk)
          ELSE dirty[StoreOf(t)] /\ Same(now, table[StoreOf(t)], snap[t])
    /\ Flushing = {} => \A s \in Stores :
          Running(s) /\ ~dirty[s] => Same(now, table[s], disk)

Quiet == ~raced => Alone /\ Carried
IInv  == TypeOK /\ Flow /\ Quiet

-----------------------------------------------------------------------------
(* The maps.                                                               *)

\* Counting the ranks of a finite map anew ranks it, and changes nothing else.
LEMMA RankedIsRanked ==
    ASSUME NEW m, IsFiniteSet(DOMAIN m),
           \A x \in DOMAIN m : "used" \in DOMAIN m[x]
    PROVE  /\ DOMAIN Ranked(m) = DOMAIN m
           /\ IsRanked(Ranked(m))
           /\ \A x \in DOMAIN m :
                 Ranked(m)[x] = [m[x] EXCEPT !.used = Ranked(m)[x].used]
<1> DEFINE upTo(x) == {y \in DOMAIN m : m[y].used <= m[x].used}
<1>1. Ranked(m) = [x \in DOMAIN m |-> [m[x] EXCEPT !.used = Cardinality(upTo(x))]]
  BY DEF Ranked
<1> HIDE DEF upTo
<1>2. ASSUME NEW x \in DOMAIN m
      PROVE  /\ Ranked(m)[x] = [m[x] EXCEPT !.used = Cardinality(upTo(x))]
             /\ Ranked(m)[x].used = Cardinality(upTo(x))
  BY <1>1
<1>3. ASSUME NEW x \in DOMAIN m
      PROVE  Cardinality(upTo(x)) \in Nat /\ Cardinality(upTo(x)) <= Cardinality(DOMAIN m)
  <2>1. upTo(x) \in SUBSET DOMAIN m
    BY DEF upTo
  <2> QED
    BY <2>1, FS_Subset, FS_CardinalityType
<1> QED
  BY <1>1, <1>2, <1>3 DEF IsRanked

\* Some of the records of a map.
LEMMA OnlyIsRanked ==
    ASSUME NEW m, IsRanked(m), \A x \in DOMAIN m : "used" \in DOMAIN m[x],
           NEW S \in SUBSET DOMAIN m
    PROVE  /\ DOMAIN Only(m, S) = S
           /\ IsRanked(Only(m, S))
           /\ \A x \in S : Only(m, S)[x] = [m[x] EXCEPT !.used = Only(m, S)[x].used]
<1> DEFINE r == [x \in S |-> m[x]]
<1>1. DOMAIN r = S /\ \A x \in S : r[x] = m[x]
  OBVIOUS
<1>2. Only(m, S) = Ranked(r)
  BY DEF Only
<1> HIDE DEF r
<1>3. IsFiniteSet(DOMAIN r)
  BY <1>1, FS_Subset DEF IsRanked
<1> QED
  BY <1>1, <1>2, <1>3, RankedIsRanked

\* A map with a record put last of all: it has the highest rank.
LEMMA LatestIsRanked ==
    ASSUME NEW m, IsRanked(m), \A y \in DOMAIN m : "used" \in DOMAIN m[y],
           NEW x, NEW r, "used" \in DOMAIN r
    PROVE  /\ DOMAIN Latest(m, x, r) = DOMAIN m \cup {x}
           /\ IsRanked(Latest(m, x, r))
           /\ \A y \in DOMAIN m \ {x} :
                 Latest(m, x, r)[y] = [m[y] EXCEPT !.used = Latest(m, x, r)[y].used]
           /\ Latest(m, x, r)[x] = [r EXCEPT !.used = Latest(m, x, r)[x].used]
           /\ Latest(m, x, r)[x].used = Cardinality(DOMAIN m \cup {x})
<1> DEFINE top == Cardinality(DOMAIN m) + 1
           put == [y \in DOMAIN m \cup {x} |->
                      IF y = x THEN [r EXCEPT !.used = top] ELSE m[y]]
<1>1. /\ DOMAIN put = DOMAIN m \cup {x}
      /\ put[x] = [r EXCEPT !.used = top] /\ put[x].used = top
      /\ \A y \in DOMAIN m \ {x} : put[y] = m[y]
  OBVIOUS
<1>2. Latest(m, x, r) = Ranked(put)
  BY DEF Latest
<1>3. IsFiniteSet(DOMAIN m \cup {x})
  BY FS_AddElement DEF IsRanked
<1>4. \A y \in DOMAIN put : put[y].used <= top
  BY <1>1, FS_CardinalityType DEF IsRanked
<1>5. Ranked(put)[x] = [put[x] EXCEPT !.used = Cardinality(DOMAIN put)]
  <2>1. {y \in DOMAIN put : put[y].used <= put[x].used} = DOMAIN put
    BY <1>1, <1>4
  <2> QED
    BY <1>1, <2>1 DEF Ranked
<1>6. \A y \in DOMAIN put : "used" \in DOMAIN put[y]
  BY <1>1
<1>7. /\ DOMAIN Ranked(put) = DOMAIN put /\ IsRanked(Ranked(put))
      /\ \A y \in DOMAIN put : Ranked(put)[y] = [put[y] EXCEPT !.used = Ranked(put)[y].used]
  BY <1>1, <1>3, <1>6, RankedIsRanked
<1> HIDE DEF put
<1>8. Ranked(put)[x].used = Cardinality(DOMAIN put)
  BY <1>5, <1>6, <1>1
<1>9. Ranked(put)[x] = [r EXCEPT !.used = Ranked(put)[x].used]
  <2>1. [put[x] EXCEPT !.used = Cardinality(DOMAIN put)]
            = [r EXCEPT !.used = Cardinality(DOMAIN put)]
    BY <1>1
  <2> QED
    BY <1>5, <1>8, <2>1
<1> QED
  BY <1>1, <1>2, <1>7, <1>8, <1>9

\* The hosts of a network: some of them, and with one used last.
LEMMA OnlyHosts ==
    ASSUME NEW hs, IsHosts(hs), NEW S \in SUBSET DOMAIN hs
    PROVE  /\ IsHosts(Only(hs, S)) /\ DOMAIN Only(hs, S) = S
           /\ \A h \in S : Only(hs, S)[h].verdict = hs[h].verdict
<1>1. \A h \in DOMAIN hs : hs[h] \in HostRecord /\ "used" \in DOMAIN hs[h]
  BY DEF IsHosts, HostRecord
<1>2. /\ DOMAIN Only(hs, S) = S /\ IsRanked(Only(hs, S))
      /\ \A h \in S : Only(hs, S)[h] = [hs[h] EXCEPT !.used = Only(hs, S)[h].used]
  BY <1>1, OnlyIsRanked DEF IsHosts
<1>3. ASSUME NEW h \in S
      PROVE  /\ Only(hs, S)[h] \in HostRecord
             /\ Only(hs, S)[h].verdict = hs[h].verdict
  <2> DEFINE u == Only(hs, S)[h].used
  <2>1. u \in Nat
    BY <1>2 DEF IsRanked
  <2> HIDE DEF u
  <2> QED
    BY <1>1, <1>2, <2>1 DEF HostRecord, u
<1> QED
  BY <1>2, <1>3 DEF IsHosts

LEMMA LatestHosts ==
    ASSUME NEW hs, IsHosts(hs), NEW h, NEW r, r \in HostRecord
    PROVE  /\ IsHosts(Latest(hs, h, r)) /\ DOMAIN Latest(hs, h, r) = DOMAIN hs \cup {h}
           /\ \A g \in DOMAIN hs \ {h} : Latest(hs, h, r)[g].verdict = hs[g].verdict
           /\ Latest(hs, h, r)[h].verdict = r.verdict
           /\ Latest(hs, h, r)[h].used = Cardinality(DOMAIN hs \cup {h})
<1>1. \A g \in DOMAIN hs : hs[g] \in HostRecord
  BY DEF IsHosts
<1>u. (\A g \in DOMAIN hs : "used" \in DOMAIN hs[g]) /\ "used" \in DOMAIN r
  BY <1>1 DEF HostRecord
<1>r. IsRanked(hs)
  BY DEF IsHosts
<1>2. /\ DOMAIN Latest(hs, h, r) = DOMAIN hs \cup {h}
      /\ IsRanked(Latest(hs, h, r))
      /\ \A g \in DOMAIN hs \ {h} :
            Latest(hs, h, r)[g] = [hs[g] EXCEPT !.used = Latest(hs, h, r)[g].used]
      /\ Latest(hs, h, r)[h] = [r EXCEPT !.used = Latest(hs, h, r)[h].used]
      /\ Latest(hs, h, r)[h].used = Cardinality(DOMAIN hs \cup {h})
  BY <1>u, <1>r, LatestIsRanked
<1> DEFINE new == Latest(hs, h, r)
<1>n. /\ DOMAIN new = DOMAIN hs \cup {h} /\ IsRanked(new)
      /\ \A g \in DOMAIN hs \ {h} : new[g] = [hs[g] EXCEPT !.used = new[g].used]
      /\ new[h] = [r EXCEPT !.used = new[h].used]
      /\ new[h].used = Cardinality(DOMAIN hs \cup {h})
  BY <1>2
<1> HIDE DEF new
<1>3. \A g \in DOMAIN new : new[g].used \in Nat
  BY <1>n DEF IsRanked
<1>4. \A g \in DOMAIN hs \ {h} : new[g] \in HostRecord /\ new[g].verdict = hs[g].verdict
  BY <1>1, <1>n, <1>3 DEF HostRecord
<1>5. new[h] \in HostRecord /\ new[h].verdict = r.verdict
  BY <1>n, <1>3 DEF HostRecord
<1> QED
  BY <1>n, <1>4, <1>5 DEF IsHosts, new

\* The networks of a table: some of them, and with one used last.
LEMMA OnlyNets ==
    ASSUME NEW tb, IsTable(tb), NEW S \in SUBSET DOMAIN tb
    PROVE  /\ IsTable(Only(tb, S)) /\ DOMAIN Only(tb, S) = S
           /\ \A n \in S : Only(tb, S)[n].hosts = tb[n].hosts
<1>1. \A n \in DOMAIN tb : IsNet(tb[n])
  BY DEF IsTable
<1>u. \A n \in DOMAIN tb : "used" \in DOMAIN tb[n]
  BY <1>1 DEF IsNet
<1>r. IsRanked(tb)
  BY DEF IsTable
<1>2. /\ DOMAIN Only(tb, S) = S /\ IsRanked(Only(tb, S))
      /\ \A n \in S : Only(tb, S)[n] = [tb[n] EXCEPT !.used = Only(tb, S)[n].used]
  BY <1>u, <1>r, OnlyIsRanked
<1>3. ASSUME NEW n \in S
      PROVE  IsNet(Only(tb, S)[n]) /\ Only(tb, S)[n].hosts = tb[n].hosts
  BY <1>1, <1>2 DEF IsNet
<1> QED
  BY <1>2, <1>3 DEF IsTable

\* new is tb, in which n was used last, with the hosts hs.
IsUse(new, tb, n, hs) ==
    /\ IsTable(new) /\ DOMAIN new = DOMAIN tb \cup {n}
    /\ \A m \in DOMAIN tb \ {n} : new[m].hosts = tb[m].hosts
    /\ new[n].hosts = hs

LEMMA UseNetNets ==
    ASSUME NEW tb, IsTable(tb), NEW n, NEW hs, IsHosts(hs)
    PROVE  IsUse(UseNet(tb, n, hs), tb, n, hs)
<1>1. \A m \in DOMAIN tb : IsNet(tb[m])
  BY DEF IsTable
<1>u. \A m \in DOMAIN tb : "used" \in DOMAIN tb[m]
  BY <1>1 DEF IsNet
<1>r. IsRanked(tb)
  BY DEF IsTable
<1> DEFINE r == [used |-> 0, hosts |-> hs]
<1>o. "used" \in DOMAIN r
  OBVIOUS
<1>s. r.hosts = hs /\ r = [used |-> r.used, hosts |-> r.hosts]
  OBVIOUS
<1>d. UseNet(tb, n, hs) = Latest(tb, n, r)
  BY DEF UseNet
<1> HIDE DEF r
<1>2. /\ DOMAIN Latest(tb, n, r) = DOMAIN tb \cup {n}
      /\ IsRanked(Latest(tb, n, r))
      /\ \A m \in DOMAIN tb \ {n} :
            Latest(tb, n, r)[m] = [tb[m] EXCEPT !.used = Latest(tb, n, r)[m].used]
      /\ Latest(tb, n, r)[n] = [r EXCEPT !.used = Latest(tb, n, r)[n].used]
  BY <1>u, <1>r, <1>o, LatestIsRanked, Z3
<1> DEFINE new == Latest(tb, n, r)
<1>n. /\ DOMAIN new = DOMAIN tb \cup {n} /\ IsRanked(new)
      /\ \A m \in DOMAIN tb \ {n} : new[m] = [tb[m] EXCEPT !.used = new[m].used]
      /\ new[n] = [r EXCEPT !.used = new[n].used]
  BY <1>2
<1> HIDE DEF new
<1>3. \A m \in DOMAIN tb \ {n} : IsNet(new[m]) /\ new[m].hosts = tb[m].hosts
  BY <1>1, <1>n DEF IsNet
<1>4. IsNet(new[n]) /\ new[n].hosts = hs
  BY <1>s, <1>n DEF IsNet
<1>5. IsTable(new)
  BY <1>n, <1>3, <1>4 DEF IsTable
<1>6. IsUse(new, tb, n, hs)
  BY <1>n, <1>3, <1>4, <1>5 DEF IsUse
<1> QED
  BY <1>d, <1>6 DEF new

LEMMA EmptyMaps == IsHosts(NoRecords) /\ IsTable(EmptyTable)
<1>1. DOMAIN NoRecords = {}
  BY DEF NoRecords
<1>2. IsRanked(NoRecords)
  BY <1>1, FS_EmptySet DEF IsRanked
<1> QED
  BY <1>1, <1>2 DEF IsHosts, IsTable, EmptyTable

\* The host used last is not the one evicted.
LEMMA EvictHostsKeeps ==
    ASSUME NEW hs, IsHosts(hs)
    PROVE  /\ IsHosts(EvictHosts(hs))
           /\ \A h \in DOMAIN hs : hs[h].used = Cardinality(DOMAIN hs)
                                       => h \in DOMAIN EvictHosts(hs)
<1> DEFINE S == {h \in DOMAIN hs : hs[h].used + HostCap > Cardinality(DOMAIN hs)}
<1>1. EvictHosts(hs) = Only(hs, S) /\ S \in SUBSET DOMAIN hs
  BY DEF EvictHosts
<1>2. Cardinality(DOMAIN hs) \in Nat /\ HostCap \in Nat \ {0}
  BY CapsPositive, FS_CardinalityType DEF IsHosts, IsRanked
<1>3. \A h \in DOMAIN hs : hs[h].used = Cardinality(DOMAIN hs) => h \in S
  BY <1>2
<1> HIDE DEF S
<1> QED
  BY <1>1, <1>3, OnlyHosts

\* A network not there yet is made room for, and is there then.
LEMMA EvictNetworksHas ==
    ASSUME NEW tb, IsTable(tb), NEW n
    PROVE  IsTable(EvictNetworks(tb, n)) /\ n \in DOMAIN EvictNetworks(tb, n)
<1> DEFINE S == {m \in DOMAIN tb : tb[m].used + NetworkCap > Cardinality(DOMAIN tb) + 1}
<1>1. S \in SUBSET DOMAIN tb
  OBVIOUS
<1>2. EvictNetworks(tb, n) = UseNet(Only(tb, S), n, NoRecords)
  BY DEF EvictNetworks
<1> HIDE DEF S
<1>3. IsTable(Only(tb, S))
  BY <1>1, OnlyNets
<1>4. IsHosts(NoRecords)
  BY EmptyMaps
<1>5. PICK kept : kept = Only(tb, S)
  OBVIOUS
<1>6. /\ IsTable(UseNet(kept, n, NoRecords))
      /\ DOMAIN UseNet(kept, n, NoRecords) = DOMAIN kept \cup {n}
  BY <1>3, <1>4, <1>5, UseNetNets DEF IsUse
<1> QED
  BY <1>2, <1>5, <1>6

\* A verdict put can be found.
LEMMA PutInHas ==
    ASSUME NEW tb, IsTable(tb), NEW n, NEW h, NEW v, v \in Verdict
    PROVE  IsTable(PutIn(tb, n, h, v)) /\ Has(PutIn(tb, n, h, v), n, h)
<1> DEFINE room == IF n \in DOMAIN tb THEN tb ELSE EvictNetworks(tb, n)
           r    == [used |-> 0, verdict |-> v]
           hs   == Latest(room[n].hosts, h, r)
<1>1. IsTable(room) /\ n \in DOMAIN room
  <2>1. CASE n \in DOMAIN tb
    BY <2>1
  <2>2. CASE n \notin DOMAIN tb
    <3>1. IsTable(EvictNetworks(tb, n)) /\ n \in DOMAIN EvictNetworks(tb, n)
      BY EvictNetworksHas
    <3> QED
      BY <2>2, <3>1
  <2> QED
    BY <2>1, <2>2
<1>2. PutIn(tb, n, h, v) = IF n \notin DOMAIN room THEN room
                           ELSE UseNet(room, n, EvictHosts(hs))
  BY DEF PutIn
<1>3. r \in HostRecord
  BY DEF HostRecord
<1> HIDE DEF room, r
<1>4. IsHosts(room[n].hosts)
  BY <1>1 DEF IsTable, IsNet
<1>5. /\ IsHosts(hs) /\ h \in DOMAIN hs
      /\ DOMAIN hs = DOMAIN room[n].hosts \cup {h}
      /\ hs[h].used = Cardinality(DOMAIN room[n].hosts \cup {h})
  BY <1>3, <1>4, LatestHosts
<1> HIDE DEF hs
<1>6. IsHosts(EvictHosts(hs)) /\ h \in DOMAIN EvictHosts(hs)
  BY <1>5, EvictHostsKeeps
<1>7. LET new == UseNet(room, n, EvictHosts(hs))
      IN  IsTable(new) /\ n \in DOMAIN new /\ new[n].hosts = EvictHosts(hs)
  <2>1. PICK rm, to : rm = room /\ to = EvictHosts(hs)
    OBVIOUS
  <2>2. IsHosts(to) /\ IsTable(rm)
    BY <1>1, <1>6, <2>1
  <2>3. IsUse(UseNet(rm, n, to), rm, n, to)
    BY <2>2, UseNetNets
  <2> QED BY <2>1, <2>3 DEF IsUse
<1> QED
  BY <1>1, <1>2, <1>6, <1>7 DEF Has

LEMMA DemoteInTable ==
    ASSUME NEW tb, IsTable(tb), NEW n, NEW h, Has(tb, n, h), NEW losses \in Nat
    PROVE  IsTable(DemoteIn(tb, n, h, losses))
<1> DEFINE v   == [tb[n].hosts[h].verdict EXCEPT !.losses = @ + losses]
           r   == [used |-> 0, verdict |-> v]
           hs  == tb[n].hosts
           out == IF v.losses >= DemoteThreshold THEN Without(hs, h) ELSE Latest(hs, h, r)
<1>1. DemoteIn(tb, n, h, losses) = UseNet(tb, n, out)
  BY DEF DemoteIn
<1>2. IsHosts(hs) /\ h \in DOMAIN hs
  BY DEF Has, IsTable, IsNet
<1>3. hs[h].verdict \in Verdict
  BY <1>2 DEF IsHosts, HostRecord
<1>4. v \in Verdict \/ v.losses >= DemoteThreshold
  BY <1>3, CapsPositive DEF Verdict
<1> HIDE DEF v, hs
<1>5. IsHosts(out)
  <2>1. CASE v.losses >= DemoteThreshold
    <3>1. DOMAIN hs \ {h} \in SUBSET DOMAIN hs
      OBVIOUS
    <3>2. IsHosts(Without(hs, h))
      BY <1>2, <3>1, OnlyHosts DEF Without
    <3> QED
      BY <2>1, <3>2
  <2>2. CASE ~(v.losses >= DemoteThreshold)
    <3>1. r \in HostRecord
      BY <1>4, <2>2 DEF HostRecord
    <3> HIDE DEF r
    <3>2. IsHosts(Latest(hs, h, r))
      BY <1>2, <3>1, LatestHosts
    <3> QED
      BY <2>2, <3>2
  <2> QED
    BY <2>1, <2>2
<1> HIDE DEF out, r
<1>6. PICK left : left = out
  OBVIOUS
<1>7. IsTable(UseNet(tb, n, left))
  BY <1>5, <1>6, UseNetNets DEF IsUse
<1> QED
  BY <1>1, <1>6, <1>7

\* The host dropped from its network on the spot.
LEMMA DropTable ==
    ASSUME NEW tb, IsTable(tb), NEW n, NEW h, Has(tb, n, h)
    PROVE  IsTable([tb EXCEPT ![n].hosts = Without(@, h)])
<1> DEFINE new == [tb EXCEPT ![n].hosts = Without(@, h)]
<1>1. n \in DOMAIN tb /\ IsRanked(tb) /\ \A m \in DOMAIN tb : IsNet(tb[m])
  BY DEF Has, IsTable
<1>2. IsHosts(tb[n].hosts) /\ DOMAIN tb[n].hosts \ {h} \in SUBSET DOMAIN tb[n].hosts
  BY <1>1 DEF IsNet
<1>3. IsHosts(Without(tb[n].hosts, h))
  BY <1>2, OnlyHosts DEF Without
<1>4. /\ DOMAIN new = DOMAIN tb
      /\ \A m \in DOMAIN tb \ {n} : new[m] = tb[m]
      /\ new[n] = [tb[n] EXCEPT !.hosts = Without(tb[n].hosts, h)]
  BY <1>1
<1>5. new[n].used = tb[n].used /\ IsNet(new[n])
  <2> DEFINE w == Without(tb[n].hosts, h)
  <2> HIDE DEF w
  <2>1. new[n] = [tb[n] EXCEPT !.hosts = w]
    BY <1>4 DEF w
  <2>2. tb[n] = [used |-> tb[n].used, hosts |-> tb[n].hosts] /\ IsHosts(w)
    BY <1>1, <1>3 DEF IsNet, w
  <2> HIDE DEF new
  <2> QED
    BY <2>1, <2>2 DEF IsNet
<1> HIDE DEF new
<1>6. \A m \in DOMAIN tb : new[m].used = tb[m].used /\ IsNet(new[m])
  BY <1>1, <1>4, <1>5
<1> QED
  BY <1>1, <1>4, <1>6 DEF IsTable, IsRanked, new

\* A verdict found and touched leaves what there is to find as it was.
LEMMA TouchTable ==
    ASSUME NEW tb, IsTable(tb), NEW n, NEW h, Has(tb, n, h)
    PROVE  LET hs == tb[n].hosts
               to == UseNet(tb, n, Latest(hs, h, hs[h]))
           IN  IsTable(to) /\ \A time : Same(time, to, tb)
<1> DEFINE hs   == tb[n].hosts
           last == Latest(hs, h, hs[h])
           to   == UseNet(tb, n, last)
<1>1. IsHosts(hs) /\ n \in DOMAIN tb /\ h \in DOMAIN hs
  BY DEF Has, IsTable, IsNet
<1>2. hs[h] \in HostRecord
  BY <1>1 DEF IsHosts
<1> HIDE DEF hs
<1>3. /\ IsHosts(last) /\ DOMAIN last = DOMAIN hs
      /\ \A g \in DOMAIN hs : last[g].verdict = hs[g].verdict
  <2>1. PICK r : r = hs[h]
    OBVIOUS
  <2>2. /\ IsHosts(Latest(hs, h, r)) /\ DOMAIN Latest(hs, h, r) = DOMAIN hs \cup {h}
        /\ \A g \in DOMAIN hs \ {h} : Latest(hs, h, r)[g].verdict = hs[g].verdict
        /\ Latest(hs, h, r)[h].verdict = r.verdict
    BY <1>1, <1>2, <2>1, LatestHosts
  <2> QED
    BY <1>1, <2>1, <2>2
<1> HIDE DEF last
<1>4. /\ IsTable(to) /\ DOMAIN to = DOMAIN tb
      /\ \A m \in DOMAIN tb \ {n} : to[m].hosts = tb[m].hosts
      /\ to[n].hosts = last
  BY <1>1, <1>3, UseNetNets DEF IsUse
<1> HIDE DEF to
<1>5. ASSUME NEW m \in Nets, NEW g \in Hosts
      PROVE  /\ Has(to, m, g) <=> Has(tb, m, g)
             /\ Has(tb, m, g) => to[m].hosts[g].verdict = tb[m].hosts[g].verdict
  <2>1. CASE m = n
    BY <1>1, <1>3, <1>4, <2>1 DEF Has, hs
  <2>2. CASE m # n
    BY <1>4, <2>2 DEF Has
  <2> QED
    BY <2>1, <2>2
<1>6. \A time : Same(time, to, tb)
  BY <1>5 DEF Same, FoundAt
<1> QED
  BY <1>4, <1>6 DEF to, last, hs

\* What a Flush copies is what there is to find.
LEMMA LiveTable ==
    ASSUME NEW tb, IsTable(tb), now \in Nat
    PROVE  IsTable(Live(tb)) /\ Same(now, Live(tb), tb)
<1> DEFINE S(n)  == {h \in DOMAIN tb[n].hosts : ~Expired(tb[n].hosts[h].verdict)}
           hs(n) == Only(tb[n].hosts, S(n))
<1>1. /\ DOMAIN Live(tb) = DOMAIN tb
      /\ \A n \in DOMAIN tb : Live(tb)[n] = [tb[n] EXCEPT !.hosts = hs(n)]
  BY DEF Live
<1>2. ASSUME NEW n \in DOMAIN tb
      PROVE  /\ IsHosts(hs(n)) /\ DOMAIN hs(n) = S(n)
             /\ \A h \in S(n) : hs(n)[h].verdict = tb[n].hosts[h].verdict
  <2>1. IsHosts(tb[n].hosts) /\ S(n) \in SUBSET DOMAIN tb[n].hosts
    BY DEF IsTable, IsNet
  <2> HIDE DEF S
  <2> QED
    BY <2>1, OnlyHosts
<1> HIDE DEF hs
<1>3. ASSUME NEW n \in DOMAIN tb
      PROVE  /\ IsNet(Live(tb)[n]) /\ Live(tb)[n].used = tb[n].used
             /\ Live(tb)[n].hosts = hs(n)
  <2>1. tb[n] = [used |-> tb[n].used, hosts |-> tb[n].hosts]
    BY DEF IsTable, IsNet
  <2>2. PICK r : r = Live(tb)[n]
    OBVIOUS
  <2>3. r = [used |-> tb[n].used, hosts |-> hs(n)]
    BY <1>1, <2>1, <2>2
  <2>4. r.used = tb[n].used /\ r.hosts = hs(n) /\ IsNet(r)
    BY <1>2, <2>3 DEF IsNet
  <2> QED
    BY <2>2, <2>4
<1>4. IsTable(Live(tb))
  BY <1>1, <1>3 DEF IsTable, IsRanked
<1>5. ASSUME NEW m \in Nets, NEW g \in Hosts
      PROVE  FoundAt(now, Live(tb), m, g) = FoundAt(now, tb, m, g)
  <2>1. CASE m \notin DOMAIN tb
    BY <1>1, <2>1 DEF FoundAt, Has
  <2>2. CASE m \in DOMAIN tb /\ g \notin S(m)
    <3>1. g \notin DOMAIN Live(tb)[m].hosts
      BY <1>2, <1>3, <2>2
    <3> QED
      BY <1>1, <2>2, <3>1 DEF FoundAt, Has, Expired
  <2>3. CASE m \in DOMAIN tb /\ g \in S(m)
    <3>1. /\ g \in DOMAIN Live(tb)[m].hosts
          /\ Live(tb)[m].hosts[g].verdict = tb[m].hosts[g].verdict
      BY <1>2, <1>3, <2>3
    <3> QED
      BY <1>1, <2>3, <3>1 DEF FoundAt, Has, Expired
  <2> QED
    BY <2>1, <2>2, <2>3
<1> QED
  BY <1>4, <1>5 DEF Same

\* Two tables in which the same is found stay so as verdicts expire.
LEMMA SameLater ==
    ASSUME NEW a, IsTable(a), NEW b, IsTable(b), NEW time \in Nat, Same(time, a, b)
    PROVE  Same(time + 1, a, b)
<1> SUFFICES ASSUME NEW n \in Nets, NEW h \in Hosts
             PROVE  FoundAt(time + 1, a, n, h) = FoundAt(time + 1, b, n, h)
  BY DEF Same
<1>1. FoundAt(time, a, n, h) = FoundAt(time, b, n, h)
  BY DEF Same
<1>2. ASSUME NEW tb, IsTable(tb)
      PROVE  FoundAt(time + 1, tb, n, h)
                 = {v \in FoundAt(time, tb, n, h) : ~(time + 1 > v.until)}
  <2>1. CASE Has(tb, n, h)
    <3>1. tb[n].hosts[h] \in HostRecord
      BY <1>2, <2>1 DEF Has, IsTable, IsNet, IsHosts
    <3>2. PICK v : v = tb[n].hosts[h].verdict
      OBVIOUS
    <3>3. v.until \in Nat
      BY <3>1, <3>2 DEF HostRecord, Verdict
    <3> QED
      BY <2>1, <3>2, <3>3 DEF FoundAt
  <2>2. CASE ~Has(tb, n, h)
    BY <2>2 DEF FoundAt
  <2> QED
    BY <2>1, <2>2
<1> QED
  BY <1>1, <1>2

-----------------------------------------------------------------------------
(* The stores.                                                             *)

LEMMA StoreOfThread == \A t \in Threads : StoreOf(t) \in Stores
BY DEF Threads, Stores, StoreOf

LEMMA InitOK == Init => IInv
<1> SUFFICES ASSUME Init PROVE IInv
  OBVIOUS
<1>1. \A s \in Stores : ~Running(s)
  BY DEF Init, Running
<1>2. IsTable(disk)
  <2>1. ASSUME NEW n \in Nets, NEW h \in Hosts, NEW v \in Verdict
        PROVE  IsTable(OneHost(n, h, v))
    <3> DEFINE hs == [x \in {h} |-> [used |-> 1, verdict |-> v]]
               tb == [m \in {n} |-> [used |-> 1, hosts |-> hs]]
    <3>s. \A x : IsFiniteSet({x}) /\ Cardinality({x}) = 1
      BY FS_Singleton
    <3>1. DOMAIN hs = {h}
      OBVIOUS
    <3>2. \A x \in DOMAIN hs : hs[x] \in HostRecord /\ hs[x].used = 1
      BY DEF HostRecord
    <3> HIDE DEF hs
    <3>3. IsFiniteSet(DOMAIN hs) /\ Cardinality(DOMAIN hs) = 1
      BY <3>s, <3>1, Zenon
    <3>4. IsHosts(hs)
      BY <3>2, <3>3 DEF IsHosts, IsRanked
    <3>5. DOMAIN tb = {n}
      OBVIOUS
    <3>6. \A m \in DOMAIN tb : tb[m].used = 1 /\ IsNet(tb[m])
      BY <3>4 DEF IsNet
    <3> HIDE DEF tb
    <3>7. IsFiniteSet(DOMAIN tb) /\ Cardinality(DOMAIN tb) = 1
      BY <3>s, <3>5, Zenon
    <3>8. IsTable(tb)
      BY <3>6, <3>7 DEF IsTable, IsRanked
    <3> QED
      BY <3>8 DEF OneHost, hs, tb
  <2>2. \A k \in Kinds : OneLossLeft(k) \in Verdict
    BY CapsPositive, TTLIsTime DEF Verdict, OneLossLeft
  <2>3. disk = EmptyTable \/ disk \in LeftBehind
    BY DEF Init
  <2>4. CASE disk \in LeftBehind
    <3>1. PICK n \in Nets, h \in Hosts, k \in Kinds :
              disk = OneHost(n, h, OneLossLeft(k))
      BY <2>4 DEF LeftBehind
    <3> QED
      BY <2>1, <2>2, <3>1
  <2> QED
    BY <2>3, <2>4, EmptyMaps
<1>3. TypeOK
  BY <1>2, EmptyMaps DEF Init, TypeOK, Phases
<1>4. Flow /\ Flushing = {}
  BY DEF Init, Flow, Flushing
<1> QED
  BY <1>1, <1>3, <1>4 DEF IInv, Quiet, Alone, Carried

\* A change of what a store holds, by a thread that is not flushing: a Flush at
\* work has been overtaken, and otherwise the store is dirty.
LEMMA UpdateKeeps ==
    ASSUME IInv, NEW t \in Threads, pc[t] = "idle", Running(StoreOf(t)),
           NEW tb, IsTable(tb), table' = [table EXCEPT ![StoreOf(t)] = tb],
           dirty' = [dirty EXCEPT ![StoreOf(t)] = TRUE], Race,
           pc' \in {pc, [pc EXCEPT ![t] = "copy"]},
           UNCHANGED <<state, disk, temp, snap, now>>
    PROVE  IInv'
<1>1. TypeOK'
  BY StoreOfThread DEF IInv, TypeOK, Race, Phases
<1>2. Flushing' = Flushing
  BY DEF IInv, TypeOK, Flushing
<1>3. Flow'
  BY StoreOfThread DEF IInv, TypeOK, Flow, Running
<1>4. ASSUME ~raced' PROVE Alone' /\ Carried'
  <2>1. ~raced /\ Flushing = {}
    BY <1>4 DEF Race
  <2>2. Alone'
    BY <1>2, <2>1 DEF IInv, Quiet, Alone, Running
  <2>3. \A s \in Stores : Running(s) => s = StoreOf(t)
    BY <2>1, StoreOfThread DEF IInv, Quiet, Alone
  <2>4. dirty'[StoreOf(t)]
    BY StoreOfThread DEF IInv, TypeOK
  <2>5. \A s \in Stores : Running(s)' => dirty'[s]
    BY <2>3, <2>4 DEF Running
  <2> QED
    BY <1>2, <2>1, <2>2, <2>5 DEF Carried
<1> QED
  BY <1>1, <1>3, <1>4 DEF IInv, Quiet

LEMMA GetKeeps ==
    ASSUME IInv, NEW t \in Threads, NEW n \in Nets, NEW h \in Hosts, Get(t, n, h)
    PROVE  IInv'
<1> DEFINE s  == StoreOf(t)
           hs == table[s][n].hosts
           to == UseNet(table[s], n, Latest(hs, h, hs[h]))
<1>1. /\ s \in Stores /\ pc[t] = "idle" /\ Running(s) /\ Has(table[s], n, h)
      /\ IsTable(table[s]) /\ UNCHANGED <<state, pending, shared, pc, snap, bounds>>
  BY StoreOfThread DEF Get, IInv, TypeOK
<1>2. CASE Expired(hs[h].verdict)
  <2> DEFINE tb == [table[s] EXCEPT ![n].hosts = Without(@, h)]
  <2>1. /\ table' = [table EXCEPT ![s] = tb]
        /\ dirty' = [dirty EXCEPT ![s] = TRUE] /\ Race
    BY <1>2 DEF Get
  <2>2. IsTable(tb)
    BY <1>1, DropTable
  <2> HIDE DEF tb
  <2> QED
    BY <1>1, <2>1, <2>2, UpdateKeeps DEF shared, bounds
<1>3. CASE ~Expired(hs[h].verdict)
  <2>1. table' = [table EXCEPT ![s] = to] /\ UNCHANGED <<dirty, raced>>
    BY <1>3 DEF Get
  <2>2. IsTable(to) /\ Same(now, to, table[s])
    BY <1>1, TouchTable
  <2> HIDE DEF to, s
  <2>3. TypeOK'
    BY <1>1, <2>1, <2>2 DEF IInv, TypeOK, shared, bounds
  <2>4. Flow' /\ Flushing' = Flushing
    BY <1>1 DEF IInv, Flow, Running, Flushing, shared
  <2>5. ASSUME NEW o \in Stores PROVE Same(now, table'[o], table[o])
    BY <1>1, <2>1, <2>2 DEF IInv, TypeOK, Same
  <2>6. ASSUME ~raced' PROVE Alone' /\ Carried'
    <3>1. Alone'
      BY <1>1, <2>1, <2>4, <2>6 DEF IInv, Quiet, Alone, Running
    <3>2. Carried
      BY <2>1, <2>6 DEF IInv, Quiet
    <3>3. \A o \in Stores : \A tb : Same(now, table[o], tb) => Same(now, table'[o], tb)
      BY <2>5 DEF Same
    <3>4. \A u \in Flushing : IF pc'[u] = "mark" THEN Same(now, table'[StoreOf(u)], disk)
              ELSE dirty'[StoreOf(u)] /\ Same(now, table'[StoreOf(u)], snap[u])
      BY <1>1, <2>1, <3>2, <3>3, StoreOfThread DEF Carried, Flushing
    <3>5. Flushing = {} => \A o \in Stores :
              Running(o) /\ ~dirty[o] => Same(now, table'[o], disk)
      BY <3>2, <3>3 DEF Carried
    <3>6. Carried'
      BY <1>1, <2>1, <2>4, <3>4, <3>5 DEF Carried, Running, shared, bounds
    <3> QED
      BY <3>1, <3>6
  <2> QED
    BY <2>3, <2>4, <2>6 DEF IInv, Quiet
<1> QED
  BY <1>2, <1>3

LEMMA PutKeeps ==
    ASSUME IInv, NEW t \in Threads, NEW n \in Nets, NEW h \in Hosts, NEW k \in Kinds,
           Put(t, n, h, k)
    PROVE  IInv'
<1> DEFINE s  == StoreOf(t)
           v  == [kind |-> k, losses |-> 0, until |-> now + TTL]
           tb == PutIn(table[s], n, h, v)
<1>1. v \in Verdict
  BY CapsPositive, TTLIsTime DEF IInv, TypeOK, Verdict
<1>2. /\ table' = [table EXCEPT ![s] = tb] /\ dirty' = [dirty EXCEPT ![s] = TRUE]
      /\ pc[t] = "idle" /\ Running(s) /\ Race
      /\ UNCHANGED <<state, disk, temp, snap, now>>
  BY DEF Put, Idle, Running, shared
<1>3. pc' \in {pc, [pc EXCEPT ![t] = "copy"]}
  BY DEF Put, MaybeFlush
<1>4. IsTable(table[s])
  BY StoreOfThread DEF IInv, TypeOK
<1> HIDE DEF v
<1>5. IsTable(tb)
  BY <1>1, <1>4, PutInHas
<1> HIDE DEF tb
<1> QED
  BY <1>2, <1>3, <1>5, UpdateKeeps

LEMMA DemoteKeeps ==
    ASSUME IInv, NEW t \in Threads, NEW n \in Nets, NEW h \in Hosts, Demote(t, n, h)
    PROVE  IInv'
<1> DEFINE s  == StoreOf(t)
           tb == DemoteIn(table[s], n, h, 1)
<1>1. /\ table' = [table EXCEPT ![s] = tb] /\ dirty' = [dirty EXCEPT ![s] = TRUE]
      /\ pc[t] = "idle" /\ Running(s) /\ Race /\ Has(table[s], n, h)
      /\ UNCHANGED <<state, disk, temp, snap, now>>
  BY DEF Demote, Idle, Running, shared
<1>2. pc' \in {pc, [pc EXCEPT ![t] = "copy"]}
  BY DEF Demote, MaybeFlush
<1>3. IsTable(table[s])
  BY StoreOfThread DEF IInv, TypeOK
<1>4. IsTable(tb)
  BY <1>1, <1>3, DemoteInTable
<1> HIDE DEF tb
<1> QED
  BY <1>1, <1>2, <1>4, UpdateKeeps

LEMMA ForgetKeeps ==
    ASSUME IInv, NEW t \in Threads, NEW h \in Hosts, Forget(t, h)
    PROVE  IInv'
<1> DEFINE s  == StoreOf(t)
           tb == DemoteIn(table[s], DefaultNet, h, DemoteThreshold)
<1>1. s = t
  BY ToolsApart DEF Forget, StoreOf
<1>2. /\ table' = [table EXCEPT ![s] = tb] /\ dirty' = [dirty EXCEPT ![s] = TRUE]
      /\ pc[t] = "idle" /\ Running(s) /\ Race /\ Has(table[s], DefaultNet, h)
      /\ pc' \in {pc, [pc EXCEPT ![t] = "copy"]}
      /\ UNCHANGED <<state, disk, temp, snap, now>>
  BY <1>1 DEF Forget, Idle, Running, shared, bounds
<1>3. IsTable(table[s])
  BY StoreOfThread DEF IInv, TypeOK
<1>4. DemoteThreshold \in Nat
  BY CapsPositive
<1>5. IsTable(tb)
  BY <1>2, <1>3, <1>4, DemoteInTable
<1> HIDE DEF tb
<1> QED
  BY <1>2, <1>5, UpdateKeeps
-----------------------------------------------------------------------------
(* A Flush.                                                                *)

\* Unless something else moved, a Flush is alone, and so is its store.
LEMMA FlushIsAlone ==
    ASSUME IInv, ~raced, NEW t \in Flushing
    PROVE  /\ Flushing = {t} /\ Running(StoreOf(t)) /\ StoreOf(t) \in Stores
           /\ \A s \in Stores : Running(s) => s = StoreOf(t)
BY StoreOfThread DEF IInv, Flow, Quiet, Alone, Flushing

LEMMA CopyKeeps ==
    ASSUME IInv, NEW t \in Threads, Copy(t)
    PROVE  IInv'
<1> DEFINE s  == StoreOf(t)
           tb == Live(table[s])
<1>1. /\ s \in Stores /\ IsTable(table[s]) /\ now \in Nat /\ pc[t] = "copy"
      /\ UNCHANGED <<table, state, dirty, disk, temp, now>>
  BY StoreOfThread DEF Copy, Step, IInv, TypeOK, shared, bounds
<1>2. CASE ~dirty[s]
  <2>1. pc' = [pc EXCEPT ![t] = "idle"] /\ snap' = snap /\ raced' = raced
    BY <1>2 DEF Copy, Step, IInv, TypeOK
  <2>2. TypeOK'
    BY <1>1, <2>1 DEF IInv, TypeOK, Phases
  <2>3. Flow' /\ Flushing' = Flushing /\ \A u \in Flushing : pc'[u] = pc[u]
    BY <1>1, <2>1 DEF IInv, TypeOK, Flow, Running, Flushing
  <2>4. Quiet'
    BY <1>1, <2>1, <2>3 DEF IInv, Quiet, Alone, Carried, Running
  <2> QED
    BY <2>2, <2>3, <2>4 DEF IInv
<1>3. CASE dirty[s]
  <2>1. /\ pc' = [pc EXCEPT ![t] = "create"] /\ snap' = [snap EXCEPT ![t] = tb]
        /\ raced' = (raced \/ Flushing # {})
    BY <1>3 DEF Copy, Step
  <2>2. IsTable(tb) /\ Same(now, tb, table[s])
    BY <1>1, LiveTable
  <2> HIDE DEF tb, s
  <2>3. TypeOK'
    BY <1>1, <2>1, <2>2 DEF IInv, TypeOK, Phases
  <2>4. Flow'
    BY <1>1, <2>1 DEF IInv, TypeOK, Flow, Running
  <2>5. Flushing' = Flushing \cup {t}
    BY <2>1 DEF IInv, TypeOK, Flushing
  <2>6. ASSUME ~raced' PROVE Alone' /\ Carried'
    <3>1. ~raced /\ Flushing' = {t}
      BY <2>1, <2>5, <2>6
    <3>2. Alone'
      BY <1>1, <3>1 DEF IInv, Quiet, Alone, Running
    <3>3. pc'[t] = "create" /\ snap'[t] = tb
      BY <2>1 DEF IInv, TypeOK
    <3>4. Same(now, table[s], tb)
      BY <2>2 DEF Same
    <3>5. Carried'
      BY <1>1, <1>3, <3>1, <3>3, <3>4 DEF Carried, s
    <3> QED
      BY <3>2, <3>5
  <2> QED
    BY <2>3, <2>4, <2>6 DEF IInv, Quiet
<1> QED
  BY <1>2, <1>3 DEF IInv, TypeOK

\* On the way to the file: the temp file is created and written.
LEMMA CreateWriteKeeps ==
    ASSUME IInv, NEW t \in Threads, Create(t) \/ Write(t)
    PROVE  IInv'
<1>1. /\ UNCHANGED <<table, state, dirty, disk, snap, now, raced>>
      /\ \/ pc[t] = "create" /\ pc' = [pc EXCEPT ![t] = "write"]
         \/ pc[t] = "write" /\ pc' = [pc EXCEPT ![t] = "rename"]
  BY DEF Create, Write, Step, bounds
<1>2. TypeOK'
  BY <1>1 DEF Create, Write, IInv, TypeOK, Phases
<1>3. Flow'
  BY <1>1 DEF Create, Write, Step, IInv, TypeOK, Flow, Running
<1>4. /\ Flushing' = Flushing
      /\ \A u \in Flushing : (pc'[u] = "mark") <=> (pc[u] = "mark")
  BY <1>1 DEF IInv, TypeOK, Flushing
<1>5. Quiet'
  BY <1>1, <1>4 DEF IInv, Quiet, Alone, Carried, Running
<1> QED
  BY <1>2, <1>3, <1>5 DEF IInv

\* A Flush given up, the store still dirty.
LEMMA GiveUpKeeps ==
    ASSUME IInv, NEW t \in Threads, pc[t] \in {"create", "write", "rename"},
           pc' = [pc EXCEPT ![t] = "idle"], temp' = [temp EXCEPT ![t] = "none"],
           snap' = [snap EXCEPT ![t] = EmptyTable],
           UNCHANGED <<table, state, dirty, disk, now, raced>>
    PROVE  IInv'
<1>1. TypeOK'
  BY EmptyMaps DEF IInv, TypeOK, Phases
<1>2. Flow'
  BY DEF IInv, TypeOK, Flow, Running
<1>3. Flushing' = Flushing \ {t} /\ t \in Flushing
  BY DEF IInv, TypeOK, Flushing
<1>4. ASSUME ~raced' PROVE Alone' /\ Carried'
  <2>1. Flushing' = {} /\ \A s \in Stores : Running(s)' => s = StoreOf(t)
    BY <1>3, <1>4, FlushIsAlone DEF Running
  <2>2. dirty[StoreOf(t)]
    BY <1>3, <1>4 DEF IInv, Quiet, Carried
  <2> QED
    BY <2>1, <2>2 DEF Alone, Carried
<1> QED
  BY <1>1, <1>2, <1>4 DEF IInv, Quiet

LEMMA RenameKeeps ==
    ASSUME IInv, NEW t \in Threads, Rename(t)
    PROVE  IInv'
<1>1. /\ pc[t] = "rename" /\ temp[t] # "partial"
      /\ UNCHANGED <<table, state, dirty, now, raced>>
      /\ snap' = [snap EXCEPT ![t] = EmptyTable] /\ temp' = [temp EXCEPT ![t] = "none"]
  BY DEF Rename, Step, IInv, Flow, bounds
<1>2. CASE temp[t] = "none"
  <2>1. pc' = [pc EXCEPT ![t] = "idle"] /\ disk' = disk
    BY <1>2 DEF Rename, Step
  <2> QED
    BY <1>1, <2>1, GiveUpKeeps
<1>3. CASE temp[t] # "none"
  <2>1. pc' = [pc EXCEPT ![t] = "mark"] /\ disk' = snap[t]
    BY <1>1, <1>3 DEF Rename, Step
  <2>2. TypeOK'
    BY <1>1, <2>1, EmptyMaps DEF IInv, TypeOK, Phases
  <2>3. Flow'
    BY <1>1, <2>1 DEF IInv, TypeOK, Flow, Running
  <2>4. Flushing' = Flushing /\ t \in Flushing /\ pc'[t] = "mark"
    BY <1>1, <2>1 DEF IInv, TypeOK, Flushing
  <2>5. ASSUME ~raced' PROVE Alone' /\ Carried'
    <3>1. Flushing = {t}
      BY <1>1, <2>4, <2>5, FlushIsAlone
    <3>2. Same(now, table[StoreOf(t)], snap[t])
      BY <1>1, <2>4, <2>5 DEF IInv, Quiet, Carried
    <3>3. Alone'
      BY <1>1, <2>4, <2>5 DEF IInv, Quiet, Alone, Running
    <3>4. Carried'
      BY <1>1, <2>1, <2>4, <3>1, <3>2 DEF Carried
    <3> QED
      BY <3>3, <3>4
  <2> QED
    BY <2>2, <2>3, <2>5 DEF IInv, Quiet
<1> QED
  BY <1>2, <1>3

LEMMA MarkKeeps ==
    ASSUME IInv, NEW t \in Threads, Mark(t)
    PROVE  IInv'
<1>1. /\ pc[t] = "mark" /\ pc' = [pc EXCEPT ![t] = "idle"]
      /\ dirty' = [dirty EXCEPT ![StoreOf(t)] = FALSE]
      /\ snap' = [snap EXCEPT ![t] = EmptyTable]
      /\ UNCHANGED <<table, state, disk, temp, now, raced>>
  BY DEF Mark, Step, shared, bounds
<1>2. TypeOK'
  BY <1>1, EmptyMaps DEF IInv, TypeOK, Phases
<1>3. Flow'
  BY <1>1 DEF IInv, TypeOK, Flow, Running
<1>4. Flushing' = Flushing \ {t} /\ t \in Flushing
  BY <1>1 DEF IInv, TypeOK, Flushing
<1>5. ASSUME ~raced' PROVE Alone' /\ Carried'
  <2>1. Flushing' = {} /\ \A s \in Stores : Running(s)' => s = StoreOf(t)
    BY <1>1, <1>4, <1>5, FlushIsAlone DEF Running
  <2>2. Same(now, table[StoreOf(t)], disk)
    BY <1>1, <1>4, <1>5 DEF IInv, Quiet, Carried
  <2> QED
    BY <1>1, <2>1, <2>2 DEF Alone, Carried
<1> QED
  BY <1>2, <1>3, <1>5 DEF IInv, Quiet

LEMMA CloseKeeps ==
    ASSUME IInv, NEW t \in Threads, Close(t)
    PROVE  IInv'
<1>1. /\ pc[t] = "idle" /\ Running(StoreOf(t)) /\ StoreOf(t) \in Stores
      /\ pc' = [pc EXCEPT ![t] = "copy"]
      /\ state' = [state EXCEPT ![StoreOf(t)] = "closed"]
      /\ UNCHANGED <<table, dirty, disk, temp, snap, now, raced>>
  BY StoreOfThread DEF Close, Idle, Running, shared, bounds
<1>2. TypeOK'
  BY <1>1 DEF IInv, TypeOK, Phases
<1>3. \A s \in Stores : Running(s)' = Running(s)
  BY <1>1 DEF IInv, TypeOK, Running
<1>4. Flow'
  BY <1>1, <1>3, StoreOfThread DEF IInv, TypeOK, Flow
<1>5. Flushing' = Flushing /\ \A u \in Flushing : pc'[u] = pc[u]
  BY <1>1 DEF IInv, TypeOK, Flushing
<1>6. Quiet'
  BY <1>1, <1>3, <1>5 DEF IInv, Quiet, Alone, Carried
<1> QED
  BY <1>2, <1>4, <1>6 DEF IInv
-----------------------------------------------------------------------------
(* Processes, and time.                                                    *)

\* Where no store runs, none flushes.
LEMMA NoneAtWork ==
    ASSUME Flow, \A s \in Stores : ~Running(s)
    PROVE  Flushing = {}
BY StoreOfThread DEF Flow, Flushing

LEMMA OpenStoreKeeps ==
    ASSUME IInv, NEW s \in Stores, OpenStore(s)
    PROVE  IInv'
<1> DEFINE tb == IF disk = Torn THEN EmptyTable ELSE disk
<1>1. /\ state[s] = "absent" /\ state' = [state EXCEPT ![s] = "open"]
      /\ temp' = [t \in Threads |-> "none"]
      /\ table' = [table EXCEPT ![s] = tb] /\ disk' = tb
      /\ raced' = (raced \/ \E o \in Stores : Running(o))
      /\ UNCHANGED <<dirty, pc, snap, now>>
  BY DEF OpenStore, bounds
<1>2. IsTable(tb)
  BY EmptyMaps DEF IInv, TypeOK
<1> HIDE DEF tb
<1>3. TypeOK'
  BY <1>1, <1>2 DEF IInv, TypeOK
<1>4. /\ Running(s)' /\ ~Running(s)
      /\ \A o \in Stores \ {s} : Running(o)' = Running(o)
  BY <1>1 DEF IInv, TypeOK, Running
<1>5. Flow'
  BY <1>1, <1>4, StoreOfThread DEF IInv, TypeOK, Flow
<1>6. ASSUME ~raced' PROVE Alone' /\ Carried'
  <2>1. \A o \in Stores : ~Running(o)
    BY <1>1, <1>6
  <2>2. Flushing' = {}
    BY <1>1, <2>1, NoneAtWork DEF IInv, Flushing
  <2>3. \A o \in Stores : Running(o)' => o = s
    BY <1>4, <2>1
  <2>4. table'[s] = disk'
    BY <1>1 DEF IInv, TypeOK
  <2> QED
    BY <2>2, <2>3, <2>4 DEF Alone, Carried, Same
<1> QED
  BY <1>3, <1>5, <1>6 DEF IInv, Quiet

LEMMA ClearKeeps ==
    ASSUME IInv, NEW t \in Threads, Clear(t)
    PROVE  IInv'
<1>1. /\ t \in Stores /\ state[t] = "absent" /\ state' = [state EXCEPT ![t] = "ended"]
      /\ disk' = EmptyTable /\ raced' = (raced \/ \E o \in Stores : Running(o))
      /\ UNCHANGED <<table, dirty, temp, pc, snap, now>>
  BY DEF Clear, Stores, bounds
<1>2. TypeOK'
  BY <1>1, EmptyMaps DEF IInv, TypeOK
<1>3. \A o \in Stores : Running(o)' = Running(o)
  BY <1>1 DEF IInv, TypeOK, Running
<1>4. Flow'
  BY <1>1, <1>3, StoreOfThread DEF IInv, Flow
<1>5. ASSUME ~raced' PROVE Alone' /\ Carried'
  <2>1. \A o \in Stores : ~Running(o)
    BY <1>1, <1>5
  <2>2. Flushing' = {}
    BY <1>1, <2>1, NoneAtWork DEF IInv, Flushing
  <2> QED
    BY <1>3, <2>1, <2>2 DEF Alone, Carried
<1> QED
  BY <1>2, <1>4, <1>5 DEF IInv, Quiet

LEMMA GoneKeeps ==
    ASSUME IInv, NEW s \in Stores, Gone(s)
    PROVE  IInv'
<1> DEFINE mine == {t \in Threads : StoreOf(t) = s}
<1>1. /\ state' = [state EXCEPT ![s] = IF s \in Tools THEN "ended" ELSE "absent"]
      /\ table' = [table EXCEPT ![s] = EmptyTable]
      /\ dirty' = [dirty EXCEPT ![s] = FALSE]
      /\ pc' = [t \in Threads |-> IF t \in mine THEN "idle" ELSE pc[t]]
      /\ snap' = [t \in Threads |-> IF t \in mine THEN EmptyTable ELSE snap[t]]
      /\ raced' = (\E o \in Stores \ {s} : Running(o))
      /\ UNCHANGED <<disk, temp, now>>
  BY DEF Gone, shared
<1>2. TypeOK'
  BY <1>1, EmptyMaps DEF IInv, TypeOK, Phases
<1>3. ~Running(s)' /\ \A o \in Stores \ {s} : Running(o)' = Running(o)
  BY <1>1 DEF IInv, TypeOK, Running
<1>4. Flow'
  BY <1>1, <1>3, StoreOfThread DEF IInv, Flow
<1>5. ASSUME ~raced' PROVE Alone' /\ Carried'
  <2>1. \A o \in Stores : ~Running(o)'
    BY <1>1, <1>3, <1>5
  <2>2. Flushing' = {}
    BY <1>4, <2>1, StoreOfThread DEF Flow, Flushing
  <2> QED
    BY <2>1, <2>2 DEF Alone, Carried
<1> QED
  BY <1>2, <1>4, <1>5 DEF IInv, Quiet

LEMMA TickKeeps ==
    ASSUME IInv, Tick
    PROVE  IInv'
<1>1. /\ now' = now + 1 /\ now \in Nat
      /\ UNCHANGED <<table, state, dirty, disk, temp, pc, snap, raced>>
  BY DEF Tick, IInv, TypeOK, shared
<1>2. TypeOK'
  BY <1>1 DEF IInv, TypeOK
<1>3. Flow' /\ Flushing' = Flushing
  BY <1>1 DEF IInv, Flow, Flushing, Running
<1>4. ASSUME NEW a, IsTable(a), NEW b, IsTable(b), Same(now, a, b)
      PROVE  Same(now', a, b)
  BY <1>1, <1>4, SameLater
<1>5. Quiet'
  <2>1. /\ IsTable(disk) /\ \A s \in Stores : IsTable(table[s])
        /\ \A t \in Threads : IsTable(snap[t])
    BY DEF IInv, TypeOK
  <2>2. \A t \in Flushing : t \in Threads /\ StoreOf(t) \in Stores
    BY StoreOfThread DEF Flushing
  <2>3. Carried => Carried'
    BY <1>1, <1>3, <1>4, <2>1, <2>2 DEF Carried, Running
  <2>4. Alone => Alone'
    BY <1>1, <1>3 DEF Alone, Running
  <2> QED
    BY <1>1, <2>3, <2>4 DEF IInv, Quiet
<1> QED
  BY <1>2, <1>3, <1>5 DEF IInv

LEMMA StepOK == IInv /\ [Next]_vars => IInv'
<1> SUFFICES ASSUME IInv, [Next]_vars PROVE IInv'
  OBVIOUS
<1>1. CASE \E t \in Threads, n \in Nets, h \in Hosts :
              Get(t, n, h) \/ Demote(t, n, h) \/ \E k \in Kinds : Put(t, n, h, k)
  BY <1>1, GetKeeps, DemoteKeeps, PutKeeps
<1>2. CASE \E t \in Threads, h \in Hosts : Forget(t, h)
  BY <1>2, ForgetKeeps
<1>3. ASSUME NEW t \in Threads, WriteFails(t) PROVE IInv'
  BY <1>3, GiveUpKeeps DEF WriteFails, Step
<1>4. CASE \E t \in Threads : Copy(t) \/ Create(t) \/ Write(t) \/ Rename(t) \/ Mark(t)
                                \/ WriteFails(t) \/ Close(t) \/ Clear(t)
  BY <1>3, <1>4, CopyKeeps, CreateWriteKeeps, RenameKeeps, MarkKeeps, CloseKeeps, ClearKeeps
<1>5. CASE \E s \in Stores : OpenStore(s) \/ Gone(s)
  BY <1>5, OpenStoreKeeps, GoneKeeps
<1>6. CASE Tick
  BY <1>6, TickKeeps
<1>7. CASE UNCHANGED vars
  <2>1. UNCHANGED <<table, state, dirty, disk, temp, pc, snap, now, raced>>
    BY <1>7 DEF vars, shared, bounds
  <2>2. TypeOK' /\ Flow'
    BY <2>1 DEF IInv, TypeOK, Flow, Running
  <2>3. Quiet'
    BY <2>1 DEF IInv, Quiet, Alone, Carried, Running, Flushing
  <2> QED
    BY <2>2, <2>3 DEF IInv
<1> QED
  BY <1>1, <1>2, <1>4, <1>5, <1>6, <1>7 DEF Next

LEMMA Inductive == Spec => []IInv
<1> QED
  BY InitOK, StepOK, PTL DEF Spec
-----------------------------------------------------------------------------

\* A store that believes itself clean is on disk: no Flush that failed, was
\* overtaken by a sweep or was cut short by a kill leaves a clean store whose
\* verdicts the file has not.
THEOREM CleanIsSaved == Spec => []CleanMeansSaved
<1>1. IInv => CleanMeansSaved
  <2> SUFFICES ASSUME IInv, NEW s \in Stores, Running(s), ~dirty[s], ~raced, Flushing = {},
                      NEW n \in Nets, NEW h \in Hosts
               PROVE  Found(table[s], n, h) = Found(disk, n, h)
    BY DEF CleanMeansSaved
  <2>1. Same(now, table[s], disk)
    BY DEF IInv, Quiet, Carried
  <2>2. FoundAt(now, table[s], n, h) = FoundAt(now, disk, n, h)
    BY <2>1 DEF Same
  <2> QED
    BY <2>2 DEF Found, FoundAt, Expired
<1> QED
  BY <1>1, Inductive, PTL

\* A verdict just put can be found, at whatever caps: the record used last has
\* the highest rank of its map, and eviction keeps the highest ranks.
THEOREM PutIsFound == Spec => PutIsVisible
<1>1. ASSUME IInv, NEW t \in Workers, NEW n \in Nets, NEW h \in Hosts, NEW k \in Kinds,
             Put(t, n, h, k)
      PROVE  Has(table["daemon"], n, h)'
  <2> DEFINE v  == [kind |-> k, losses |-> 0, until |-> now + TTL]
             tb == PutIn(table["daemon"], n, h, v)
  <2>1. StoreOf(t) = "daemon" /\ "daemon" \in Stores
    BY DEF StoreOf, Stores
  <2>2. table' = [table EXCEPT !["daemon"] = tb]
    BY <1>1, <2>1 DEF Put
  <2>3. v \in Verdict
    BY <1>1, CapsPositive, TTLIsTime DEF IInv, TypeOK, Verdict
  <2>4. IsTable(table["daemon"])
    BY <1>1, <2>1 DEF IInv, TypeOK
  <2> HIDE DEF v
  <2>5. Has(tb, n, h)
    BY <2>3, <2>4, PutInHas
  <2> HIDE DEF tb
  <2>6. table'["daemon"] = tb
    BY <1>1, <2>1, <2>2 DEF IInv, TypeOK
  <2> QED
    BY <2>5, <2>6 DEF Has
<1>2. IInv /\ [Next]_vars =>
        [\A t \in Workers, n \in Nets, h \in Hosts, k \in Kinds :
            Put(t, n, h, k) => Has(table["daemon"], n, h)']_vars
  BY <1>1
<1> QED
  BY <1>2, Inductive, PTL DEF Spec, PutIsVisible
=============================================================================
