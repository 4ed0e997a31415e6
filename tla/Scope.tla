------------------------------- MODULE Scope -------------------------------
(***************************************************************************)
(* internal/policy without its store, and the parts of internal/config,    *)
(* cliapp and proxyfe that feed it or restate it: how a flow is named, and  *)
(* what class a name or an address gets before any byte is read.            *)
(*                                                                          *)
(* A host is a record: a name is its sequence of labels, an address is its  *)
(* sequence of leading bits.  The prefixes of the rules and of the compiled *)
(* in bogon table are sequences of bits too, so a prefix contains an        *)
(* address exactly when it begins it, as in netip.Prefix.Contains.          *)
(* Of a list of rules what matters is which match and which comes first, so *)
(* it is a set of rules, each with the turn of the list it was read from:   *)
(* the rules of one list have one class and one origin.                     *)
(* The module has operators only; Session calls them.                       *)
(***************************************************************************)
EXTENDS Naturals, Sequences, FiniteSets, SequencesExt

CONSTANTS Folded,    \* the label each spelling of a label folds to
          Lowered,   \* the same in lower case only, without punycode
          Bogons,    \* the compiled-in prefixes, a sequence of bit sequences
          Loopback,  \* the prefix of 127.0.0.0/8 (and, longer, of ::1)
          V6         \* the bits every IPv6 address begins with here

Label == DOMAIN Folded
Bit == {0, 1}
Host ==
  {h \in [form : {"none", "name", "addr"}, labels : Seq(Label), bits : Seq(Bit)] :
     (h.form = "name" <=> h.labels # <<>>) /\ (h.form # "addr" => h.bits = <<>>)}

(* Folding twice is folding once, and lowering first makes no difference to *)
(* it; neither makes a label of an empty one, nor lowering the other way.   *)
ASSUME FoldingAssumption ==
  /\ Folded \in [Label -> Label] /\ Lowered \in [Label -> Label]
  /\ \A a \in Label : /\ Folded[Folded[a]] = Folded[a]
                       /\ (a = "" => Folded[a] = "") /\ (Lowered[a] = "" <=> a = "")
  /\ \A a, b \in Label : Lowered[a] = Lowered[b] => Folded[a] = Folded[b]

ASSUME BogonsAssumption == Bogons \in Seq(Seq(Bit))

NoHost == [form |-> "none", labels |-> <<>>, bits |-> <<>>]
Named(l) == [form |-> "name", labels |-> l, bits |-> <<>>]
Literal(b) == [form |-> "addr", labels |-> <<>>, bits |-> b]

(* toASCII: what the punycode of a label is, the instance says.              *)
Fold(label) == Folded[label]

(* policy.Normalize: the one canonical form of a host.  A trailing root dot *)
(* (a last label "") goes, every label folds, and a name left with an empty *)
(* label is no name at all.                                                 *)
Normalize(h) ==
  IF h.form # "name" \/ h.labels = <<>> THEN h
  ELSE LET bare == IF Last(h.labels) = "" THEN Front(h.labels) ELSE h.labels
           low  == [i \in DOMAIN bare |-> Fold(bare[i])]
       IN IF low = <<>> \/ \E i \in DOMAIN low : low[i] = "" THEN NoHost ELSE Named(low)

--------------------------------------------------------------------------
(* Name rules.  A pattern is [mark, host]; the mark is what precedes the    *)
(* name: "" or "." (anchored), "*." (subdomains only), "=" (this host).     *)
Pattern == [mark : {"", ".", "*.", "="}, host : {h \in Host : h.form # "none"}]

PatternKind(p) ==
  CASE p.mark = "="  -> "exact"
    [] p.mark = "*." -> "wildcard"
    [] OTHER         -> "anchored"

(* config.Rules refuses nothing silently: addresses go to the IP rules, the *)
(* rest must be a usable name.                                              *)
IsAddress(p) == p.host.form = "addr"

Rule(p, class, from, turn) == [pattern |-> p, class |-> class, from |-> from, turn |-> turn]
Compiled(ps, class, from, turn) == {Rule(ps[i], class, from, turn) : i \in DOMAIN ps}

(* The compiled-in list, then the bypasses, then the include set.           *)
Rules(c) ==
  Compiled(c.mandatory, "bypass", "compiled-in", 1)
  \cup {r \in Compiled(c.bypass, "bypass", "config", 2) : ~IsAddress(r.pattern)}
  \cup Compiled(c.include, "watch", "config", 3)

IPRules(c) == {r \in Compiled(c.bypass, "bypass", "config", 1) : IsAddress(r.pattern)}

IncludeOnly(c) == c.include # <<>>

(* Match: walk the label suffixes of the name, longest first, and take the  *)
(* rules written on each; the first suffix is the name itself.              *)
MatchesAt(kind, exact) ==
  CASE kind = "exact"    -> exact
    [] kind = "wildcard" -> ~exact
    [] OTHER             -> TRUE

Base(p) == Normalize(p.host).labels

Match(rules, h) ==
  LET l == Normalize(h).labels
  IN {r \in rules : \E i \in DOMAIN l : /\ Base(r.pattern) = SubSeq(l, i, Len(l))
                                       /\ MatchesAt(PatternKind(r.pattern), i = 1)}

(* MatchLabel, the same question asked of one pattern.                      *)
IsSubdomain(l, base) ==
  Len(l) > Len(base) /\ SubSeq(l, Len(l) - Len(base) + 1, Len(l)) = base

MatchLabel(p, h) ==
  LET l == Normalize(h).labels
  IN /\ l # <<>> /\ Base(p) # <<>>
     /\ CASE PatternKind(p) = "exact"    -> l = Base(p)
          [] PatternKind(p) = "wildcard" -> IsSubdomain(l, Base(p))
          [] OTHER                       -> l = Base(p) \/ IsSubdomain(l, Base(p))

--------------------------------------------------------------------------
(* Address rules, the bogon table always among them (WithBogons, on          *)
(* construction and on every reload).                                       *)

WithBogons(rules) ==
  rules \cup {Rule([mark |-> "", host |-> Literal(Bogons[i])], "bypass", "compiled-in", 2)
               : i \in DOMAIN Bogons}

IPMatch(rules, bits) == {r \in rules : IsPrefix(r.pattern.host.bits, bits)}

(* matched[0]: the most specific rules come first, which is how the suffixes *)
(* are walked and the prefixes sorted, and among them those read first.     *)
Size(r) == IF IsAddress(r.pattern) THEN Len(r.pattern.host.bits) ELSE Len(Base(r.pattern))
Longest(matched) == {r \in matched : \A s \in matched : Size(s) <= Size(r)}
First(matched) ==
  CHOOSE r \in Longest(matched) : \A s \in Longest(matched) : r.turn <= s.turn

--------------------------------------------------------------------------
(* The engine.  c is the configuration and what the engine may consult:     *)
(* inspect, the ports whose first message is read; suspended, the kill      *)
(* switch or a hold; cache, what the store knows of a host on this network. *)

Verdict(class, source) == [class |-> class, source |-> source]

Inspected(c, port) == port \in c.inspect

DefaultVerdict(c, port) ==
  IF Inspected(c, port) THEN Verdict("watch", "default") ELSE Verdict("direct", "default")

(* A bypass or a direct rule decides; an include rule falls through.        *)
RuleDecides(matched) ==
  matched # {} /\ First(matched).class \in {"bypass", "direct"}

RuleVerdict(r) ==
  Verdict(r.class, IF r.from = "compiled-in" /\ r.class = "bypass"
                   THEN "builtin-bypass" ELSE "user-bypass")

HasClass(matched, class) == \E r \in matched : r.class = class

Known(c, key) == IF key \in DOMAIN c.cache THEN c.cache[key] ELSE "nothing"

Cached(c, key) ==
  CASE Known(c, key) = "plain"  -> Verdict("direct", "learned-plain")
    [] Known(c, key) = "desync" -> Verdict("desync", "learned-desync")
    [] OTHER                    -> Verdict("none", "none")

(* What follows the rules, for a name and for an address alike: the port    *)
(* filter, the include set, the learned cache, the default.                 *)
AfterRules(c, matched, key, port) ==
  IF ~Inspected(c, port) THEN Verdict("direct", "default")
  ELSE IF IncludeOnly(c) /\ ~HasClass(matched, "watch") THEN Verdict("direct", "default")
  ELSE IF Cached(c, key).class # "none" THEN Cached(c, key)
  ELSE DefaultVerdict(c, port)

ForAddr(c, bits, port) ==
  LET matched == IPMatch(WithBogons(IPRules(c)), bits)
  IN IF c.suspended THEN Verdict("direct", "default")
     ELSE IF RuleDecides(matched) THEN RuleVerdict(First(matched))
     ELSE AfterRules(c, matched, Literal(bits), port)

ForName(c, host, port) ==
  LET h == Normalize(host)
      matched == Match(Rules(c), h)
  IN IF c.suspended THEN Verdict("direct", "default")
     ELSE IF h = NoHost THEN DefaultVerdict(c, port)
     ELSE IF h.form = "addr" THEN ForAddr(c, h.bits, port)
     ELSE IF RuleDecides(matched) THEN RuleVerdict(First(matched))
     ELSE AfterRules(c, matched, h, port)

(* The front ends' judged: buffer the first message, let the ladder decide. *)
Judged(v) == v.class \in {"watch", "desync"}

--------------------------------------------------------------------------
(* The reverse table: which name our own DNS answers gave an address.       *)

(* Learn: what was said of addresses, one at a time, by answers whose name  *)
(* is usable; the newest name wins.                                         *)
Learnt(answered) ==
  UNION {{<<i, j>> : j \in DOMAIN answered[i].addrs}
         : i \in {x \in DOMAIN answered : Normalize(answered[x].name) # NoHost}}
Of(answered, p) == answered[p[1]].addrs[p[2]]
Later(p, q) == p[1] > q[1] \/ (p[1] = q[1] /\ p[2] > q[2])

(* Lookup: an address is still there when fewer than max have been learned  *)
(* since it was.                                                            *)
Lookup(answered, bits, max) ==
  LET Since(p) == {q \in Learnt(answered) : Later(q, p)}
      hit == {p \in Learnt(answered) :
                /\ Of(answered, p) = bits /\ \A q \in Since(p) : Of(answered, q) # bits
                /\ Cardinality({Of(answered, q) : q \in Since(p)}) < max}
  IN IF hit = {} THEN NoHost ELSE Normalize(answered[(CHOOSE p \in hit : TRUE)[1]].name)

--------------------------------------------------------------------------
(* The proxy auto-configuration script: which hosts a browser is told to    *)
(* reach without the proxy.  It is written from the bypass rules alone.     *)

BypassPatterns(c) ==
  {r.pattern : r \in {x \in Rules(c) \cup IPRules(c) : x.class = "bypass"}}

(* splitPatterns: the script compares text.  A pattern is lowered and       *)
(* trimmed of its mark, and neither folded to punycode nor freed of a root  *)
(* dot, where Normalize does both; an IPv6 prefix is left out.              *)
Lower(l) == [i \in DOMAIN l |-> Lowered[l[i]]]
EqualFold(g, h) ==
  g.form = h.form /\ Lower(g.labels) = Lower(h.labels) /\ g.bits = h.bits

IsV6(bits) == IsPrefix(V6, bits)

NamePatterns(pats) == {p \in pats : ~IsAddress(p)}
NetPatterns(pats) == {p \in pats : IsAddress(p) /\ ~IsV6(p.host.bits)}

PacCovers(p, l) ==
  LET base == Lower(p.host.labels)
  IN CASE PatternKind(p) = "exact"    -> l = base
       [] PatternKind(p) = "wildcard" -> IsSubdomain(l, base)
       [] OTHER                       -> l = base \/ IsSubdomain(l, base)

(* The script: lower the host, take one root dot off, and go DIRECT for an  *)
(* empty or unqualified name, a bypassed name, a bypassed IPv4 network and  *)
(* loopback; PROXY, and nothing after it, for the rest.                     *)
FindProxyForURL(c, host) ==
  LET low  == Lower(host.labels)
      l    == IF low # <<>> /\ Last(low) = "" THEN Front(low) ELSE low
      pats == BypassPatterns(c)
      Direct ==
        \/ c.suspended
        \/ host.form = "name" /\ Len(l) <= 1
        \/ host.form = "name" /\ \E p \in NamePatterns(pats) : PacCovers(p, l)
        \/ host.form = "addr" /\ IsPrefix(Loopback, host.bits)
        \/ /\ host.form = "addr" /\ ~IsV6(host.bits)
           /\ \E p \in NetPatterns(pats) : IsPrefix(p.host.bits, host.bits)
  IN IF Direct THEN "DIRECT" ELSE "PROXY"
=============================================================================
