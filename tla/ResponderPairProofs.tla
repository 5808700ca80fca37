-------------------------- MODULE ResponderPairProofs -------------------------
(*****************************************************************************)
(* Two responders on a quiet link.                                           *)
(*                                                                           *)
(* A host claims its names at the end of its third wait without a look at    *)
(* the packets that have arrived (do_responder), so two hosts may claim one  *)
(* name.  With no third party's packets and none lost they do not: the       *)
(* timers of two probers keep in step, so that the one whose records are     *)
(* greater always gets a probe through, or has claimed the name, before the  *)
(* other's third wait is over.                                               *)
(*****************************************************************************)
EXTENDS ResponderProofs

\* The record r is in the section s.
Holds(s, r) == \E j \in DOMAIN s : s[j] = r

\* Record i of section p is the only one of type t in p, and not in q.
Lone(p, i, t, q) ==
    /\ \A j \in DOMAIN p : p[j].type = t <=> j = i
    /\ \A j \in DOMAIN q : q[j] # p[i]

\* Sections with such a record differ for the responder.
LEMMA LoneRecord ==
    ASSUME NEW p \in Seq(Rrs), NEW q \in Seq(Rrs), NEW t \in {T_A, T_SRV}, NEW i \in DOMAIN p,
           Lone(p, i, t, q)
    PROVE  FindAuthorities(p) # FindAuthorities(q)
<1>1. Slot(p, t) = <<p[i]>>
  <2>1. {j \in DOMAIN p : p[j].type = t} = {i}
    BY ZenonT(30) DEF Lone
  <2>2. i \in 1 .. Len(p) /\ Len(p) \in Nat
    OBVIOUS
  <2>3. {i} \in SUBSET (1 .. Len(p)) /\ {i} # {}
    BY <2>2, ZenonT(30)
  <2>4. Max({i}) = i
    BY <2>2, <2>3, MaxInside, ZenonT(30)
  <2> QED  BY <2>1, <2>3, <2>4, ZenonT(30) DEF Slot
<1>2. \A u : Slot(p, u) \in Seq(Rrs)
  BY SlotFrom DEF From
<1>3. \A a, b \in Seq(Rrs) : a \o b \in Seq(Rrs)
  OBVIOUS
<1>4. \A a, b \in Seq(Rrs) : \A r : Holds(a, r) \/ Holds(b, r) => Holds(a \o b, r)
  <2> SUFFICES ASSUME NEW a \in Seq(Rrs), NEW b \in Seq(Rrs), NEW r, Holds(a, r) \/ Holds(b, r)
               PROVE  Holds(a \o b, r)
    OBVIOUS
  <2>1. /\ \A j \in DOMAIN a : j \in DOMAIN (a \o b) /\ (a \o b)[j] = a[j]
        /\ \A j \in DOMAIN b : j + Len(a) \in DOMAIN (a \o b) /\ (a \o b)[j + Len(a)] = b[j]
    OBVIOUS
  <2> QED  BY <2>1, Zenon DEF Holds
<1>5. Holds(Slot(p, t), p[i])
  BY <1>1 DEF Holds
<1>6. Holds(FindAuthorities(p), p[i])
  BY <1>2, <1>3, <1>4, <1>5, ZenonT(60) DEF FindAuthorities
<1>7. ~Holds(FindAuthorities(q), p[i])
  <2>1. From(FindAuthorities(q), q)
    BY AuthoritiesFrom, Zenon
  <2>2. ASSUME NEW j \in DOMAIN FindAuthorities(q) PROVE FindAuthorities(q)[j] # p[i]
    <3>1. PICK n \in DOMAIN q : FindAuthorities(q)[j] = q[n]
      BY <2>1, <2>2, ZenonT(60) DEF From
    <3> QED  BY <3>1, Zenon DEF Lone
  <2> QED  BY <2>2, Zenon DEF Holds
<1> QED  BY <1>6, <1>7, Zenon

\* The probe of w makes l give up its name of kind k, which is the name of w.
Overrules(w, l, k) ==
    /\ k \in Kinds(w) \cap Kinds(l) /\ name[w][k] = name[l][k]
    /\ << <<w, name[w].host>>, <<l, name[l].host>> >> \in Beats[k]

\* The authorities of a probe are resource records; those of two hosts for a name are not
\* the same, unless it is a service name and the hosts have the same host name too.
LEMMA AuthoritiesDiffer ==
    ASSUME NEW g \in Hosts, NEW h \in Hosts, g # h, NEW m \in 1 .. MaxSuffix,
           NEW n \in 1 .. MaxSuffix, NEW k \in {"host", "svc"}, k = "host" \/ m # n
    PROVE  /\ Authorities(g, m, k) \in Seq(Rrs) /\ Authorities(h, n, k) \in Seq(Rrs)
           /\ FindAuthorities(Authorities(g, m, k)) # FindAuthorities(Authorities(h, n, k))
<1>1. /\ Hosts \subseteq Int /\ (1 .. MaxSuffix) \subseteq Int /\ Port \in [Hosts -> Int]
      /\ Txt \in [Hosts -> Seq(Int)]
  <2>1. \A s \in Seq(Nat) : s \in Seq(Int)
    OBVIOUS
  <2> QED  BY <2>1, ResponderAssumption
<1>2. ASSUME NEW t \in Int, NEW d \in AnyRdata, d \in Rdata(t)
      PROVE  Rr(t, d) \in Rrs /\ Rr(t, d).type = t /\ Rr(t, d).rdata = d
  BY <1>2 DEF Rr, Rrs
<1>3. ASSUME NEW y \in Hosts PROVE Rr(T_A, y) \in Rrs /\ Rr(T_A, y).type = T_A /\ Rr(T_A, y).rdata = y
  <2>1. T_A \in Int /\ y \in AnyRdata /\ y \in Rdata(T_A)
    BY <1>1 DEF Rdata, AnyRdata, T_A, T_SRV, T_TXT
  <2> QED  BY <1>2, <2>1
<1>4. ASSUME NEW y \in Hosts
      PROVE  Rr(T_TXT, Txt[y]) \in Rrs /\ Rr(T_TXT, Txt[y]).type = T_TXT
  <2>1. T_TXT \in Int /\ Txt[y] \in AnyRdata /\ Txt[y] \in Rdata(T_TXT)
    BY <1>1 DEF Rdata, AnyRdata, T_SRV, T_TXT
  <2> QED  BY <1>2, <2>1
<1>5. ASSUME NEW y \in Hosts, NEW z \in 1 .. MaxSuffix
      PROVE  LET r == Rr(T_SRV, [fixed |-> Port[y], target |-> z])
             IN r \in Rrs /\ r.type = T_SRV /\ r.rdata.target = z
  <2>1. [fixed |-> Port[y], target |-> z] \in [fixed : Int, target : Int]
    BY <1>1
  <2>2. T_SRV \in Int /\ [fixed |-> Port[y], target |-> z] \in AnyRdata
        /\ [fixed |-> Port[y], target |-> z] \in Rdata(T_SRV)
    BY <2>1 DEF Rdata, AnyRdata, T_SRV
  <2> QED  BY <1>2, <2>2
<1>6. ASSUME NEW t \in {T_A, T_SRV}, NEW a \in Rrs, NEW b \in Rrs, NEW c \in Rrs, NEW d \in Rrs,
             a # b, a.type = t, c.type # t, d.type # t,
             NEW u \in {<<>>, <<c>>}, NEW v \in {<<>>, <<d>>}
      PROVE  /\ <<a>> \o u \in Seq(Rrs) /\ <<b>> \o v \in Seq(Rrs)
             /\ FindAuthorities(<<a>> \o u) # FindAuthorities(<<b>> \o v)
  <2>1. PICK p, q : p = <<a>> \o u /\ q = <<b>> \o v
    BY ZenonT(30)
  <2>2. /\ p \in Seq(Rrs) /\ 1 \in DOMAIN p /\ p[1] = a
        /\ \A j \in DOMAIN p : j = 1 \/ p[j] = c
    <3>1. CASE u = <<>>
      BY <2>1, <3>1
    <3>2. CASE u = <<c>>
      BY <2>1, <3>2
    <3> QED  BY <1>6, <3>1, <3>2, Zenon
  <2>3. q \in Seq(Rrs) /\ \A j \in DOMAIN q : q[j] \in {b, d}
    <3>1. CASE v = <<>>
      BY <2>1, <3>1
    <3>2. CASE v = <<d>>
      BY <2>1, <3>2
    <3> QED  BY <1>6, <3>1, <3>2, Zenon
  <2>4. Lone(p, 1, t, q)
    <3>1. ASSUME NEW j \in DOMAIN p PROVE p[j].type = t <=> j = 1
      BY <1>6, <2>2, <3>1, Zenon
    <3>2. b # a /\ d # a
      BY <1>6, Zenon
    <3>3. ASSUME NEW j \in DOMAIN q PROVE q[j] # p[1]
      BY <2>2, <2>3, <3>2, <3>3, ZenonT(60)
    <3> QED  BY <3>1, <3>3, ZenonT(60) DEF Lone
  <2>5. FindAuthorities(p) # FindAuthorities(q)
    BY <2>2, <2>3, <2>4, LoneRecord, ZenonT(30)
  <2> QED  BY <2>1, <2>2, <2>3, <2>5, Zenon
<1>7. T_A # T_TXT /\ T_SRV # T_TXT
  BY DEF T_A, T_SRV, T_TXT
<1>8. CASE k = "host"
  <2>1. PICK a, b, c, d : /\ a = Rr(T_A, g) /\ c = Rr(T_TXT, Txt[g])
                          /\ b = Rr(T_A, h) /\ d = Rr(T_TXT, Txt[h])
    OBVIOUS
  <2>2. /\ a \in Rrs /\ b \in Rrs /\ a.type = T_A /\ a # b
        /\ c \in Rrs /\ d \in Rrs /\ c.type # T_A /\ d.type # T_A
    BY <1>3, <1>4, <1>7, <2>1
  <2>3. Authorities(g, m, k) = <<a>> \o <<>> /\ Authorities(h, n, k) = <<b>> \o <<>>
    BY <1>8, <2>1, <2>2 DEF Authorities
  <2> QED  BY <1>6, <2>2, <2>3, ZenonT(30)
<1>9. CASE k = "svc" /\ m # n
  <2>1. PICK a, b, c, d : /\ a = Rr(T_SRV, [fixed |-> Port[g], target |-> m]) /\ c = Rr(T_TXT, Txt[g])
                          /\ b = Rr(T_SRV, [fixed |-> Port[h], target |-> n]) /\ d = Rr(T_TXT, Txt[h])
    OBVIOUS
  <2>2. /\ a \in Rrs /\ b \in Rrs /\ a.type = T_SRV /\ a # b
        /\ c \in Rrs /\ d \in Rrs /\ c.type # T_SRV /\ d.type # T_SRV
    BY <1>4, <1>5, <1>7, <1>9, <2>1
  <2>3. PICK u, v : u = (IF Txt[g] # <<>> THEN <<c>> ELSE <<>>) /\ v = (IF Txt[h] # <<>> THEN <<d>> ELSE <<>>)
    BY ZenonT(60)
  <2>4. u \in {<<>>, <<c>>} /\ v \in {<<>>, <<d>>}
    BY <2>3, Zenon
  <2>5. Authorities(g, m, k) = <<a>> \o u /\ Authorities(h, n, k) = <<b>> \o v
    BY <1>9, <2>1, <2>3 DEF Authorities
  <2> QED  BY <1>6, <2>2, <2>4, <2>5, ZenonT(120)
<1> QED  BY <1>8, <1>9

\* Of two hosts that share a name, one overrules the other, in that name or in the host
\* name that they share as well.
LEMMA SharedNameContested ==
    ASSUME RInv, NEW g \in Hosts, NEW h \in Hosts, g # h, NEW x \in OwnNames(g) \cap OwnNames(h)
    PROVE  \E k : Overrules(g, h, k) \/ Overrules(h, g, k)
<1>1. PICK k \in Kinds(g) \cap Kinds(h) : name[g][k] = name[h][k]
  BY DEF OwnNames
<1>2. /\ Kinds(g) \subseteq {"host", "svc"} /\ "host" \in Kinds(g) /\ "host" \in Kinds(h)
      /\ name[g].host = name[g]["host"] /\ name[h].host = name[h]["host"]
  BY DEF Kinds
<1>3. name[g].host \in 1 .. MaxSuffix /\ name[h].host \in 1 .. MaxSuffix
  BY <1>2, Zenon DEF RInv, NamesOK
<1>4. ASSUME NEW i \in Kinds(g) \cap Kinds(h), name[g][i] = name[h][i],
             i = "host" \/ name[g].host # name[h].host
      PROVE  Overrules(g, h, i) \/ Overrules(h, g, i)
  <2>1. PICK p, q : p = Authorities(g, name[g].host, i) /\ q = Authorities(h, name[h].host, i)
    OBVIOUS
  <2>2. i \in {"host", "svc"}
    BY <1>2
  <2>3. p \in Seq(Rrs) /\ q \in Seq(Rrs) /\ FindAuthorities(p) # FindAuthorities(q)
    BY <1>3, <1>4, <2>1, <2>2, AuthoritiesDiffer
  <2>4. AuthoritySetCmp(p, q) = 1 \/ AuthoritySetCmp(q, p) = 1
    BY <2>3, SomeoneGivesWay
  <2>5. /\ << <<g, name[g].host>>, <<h, name[h].host>> >> \in Beats[i] <=> AuthoritySetCmp(p, q) = 1
        /\ << <<h, name[h].host>>, <<g, name[g].host>> >> \in Beats[i] <=> AuthoritySetCmp(q, p) = 1
    BY <1>3, <2>1, <2>2, SMTT(30) DEF Beats
  <2> QED  BY <1>4, <2>4, <2>5, Zenon DEF Overrules
<1>5. CASE name[g].host = name[h].host
  BY <1>2, <1>4, <1>5, Zenon
<1>6. CASE name[g].host # name[h].host
  BY <1>1, <1>4, <1>6, Zenon
<1> QED  BY <1>5, <1>6

\* The packet m is a probe of w for the names that w has.
Voices(m, w) ==
    m.t = "probe" /\ m.from = w /\ m.name.host = name[w].host /\ OwnNames(w) \subseteq m.rrs

\* A probe of w, sent in this tick, is on its way to l.
Unread(w, l) == wait[w] = ProbeTicks /\ \E i \in DOMAIN inbox[l] : Voices(inbox[l][i], w)

\* After the first probe of l: w is ready for its next step when l is, at the latest.
Leads(w, l) ==
    /\ st[l] = "p1" /\ wait[w] <= wait[l] /\ since[w] + wait[l] >= ProbeTicks
    /\ wait[l] = ProbeTicks \/ (inbox[w] = <<>> /\ inbox[l] = <<>>)

\* After the second probe of l, in the same tick: w is ready, and the probe does not make it wait.
Due(w, l) ==
    /\ st[l] = "p2" /\ wait[l] = ProbeTicks /\ wait[w] = 0
    /\ Len(inbox[w]) = 0 \/ (Len(inbox[w]) = 1 /\ since[w] >= ProbeTicks)

Settled(w, l) == Unread(w, l) \/ Leads(w, l) \/ Due(w, l)

\* Of two probers that share a name, the one that overrules the other will be heard.
Contested ==
    \A w, l \in Hosts : w # l /\ st[w] \in Probing /\ st[l] \in Probing
                        /\ (\E k : Overrules(w, l, k)) => Settled(w, l)

\* The wait of a prober is not over when another host owns a name of it.
Warned ==
    \A g, h \in Hosts : g # h /\ st[g] \in Claimed /\ st[h] = "p3"
                        /\ OwnNames(g) \cap OwnNames(h) # {} => wait[h] > 0

\* What the proofs below know of the timers.
LEMMA Timers ==
    ASSUME DInv
    PROVE  /\ wait \in [Hosts -> Nat] /\ since \in [Hosts -> Nat] /\ ProbeTicks \in Nat /\ ProbeTicks > 0
           /\ st \in [Hosts -> States] /\ DOMAIN name = Hosts
           /\ \E P : inbox \in [Hosts -> Seq(P)]
BY ResponderAssumption, SMTT(60) DEF DInv, Clocks, RInv, Mailed

\* A prober makes itself heard by sending a probe.
LEMMA ProbeOfWinner ==
    ASSUME DInv, NEW w \in Hosts, NEW l \in Hosts, w # l, NEW s, SendProbe(w, s), st[l] # "off"
    PROVE  Unread(w, l)'
<1>1. PICK P : inbox \in [Hosts -> Seq(P)]
  BY Timers, Zenon
<1>2. PICK m : m = Probe(w)
  OBVIOUS
<1>3. m.t = "probe" /\ m.from = w /\ m.name.host = name[w].host /\ m.rrs = OwnNames(w)
  BY <1>2 DEF Probe
<1>4. name' = name /\ wait'[w] = ProbeTicks /\ inbox' = Post(inbox, w, m)
  BY <1>2, Timers DEF SendProbe
<1>5. Voices(m, w)'
  <2>1. OwnNames(w)' = OwnNames(w)
    BY <1>4, SameNames
  <2> QED  BY <1>3, <1>4, <2>1 DEF Voices
<1>6. inbox'[l] = Append(inbox[l], m)
  BY <1>4, Zenon DEF Post
<1>7. Len(inbox[l]) + 1 \in DOMAIN inbox'[l] /\ inbox'[l][Len(inbox[l]) + 1] = m
  BY <1>1, <1>6
<1> QED  BY <1>4, <1>5, <1>7, Zenon DEF Unread

\* A probe of the other does not make the first wait longer than it.
LEMMA ProbeOfLoser ==
    ASSUME DInv, NEW w \in Hosts, NEW l \in Hosts, w # l, st[w] \in Probing,
           FirstProbe(l) \/ SecondProbe(l) \/ ThirdProbe(l), st[l] \in Probing => Settled(w, l)
    PROVE  Settled(w, l)'
<1>1. PICK P : inbox \in [Hosts -> Seq(P)]
  BY Timers, Zenon
<1>2. PICK m : inbox' = Post(inbox, l, m)
  BY Zenon DEF FirstProbe, SecondProbe, ThirdProbe, SendProbe
<1>3. /\ name' = name /\ wait[l] = 0 /\ wait'[l] = ProbeTicks /\ wait'[w] = wait[w]
      /\ since'[w] = since[w]
  BY Timers DEF FirstProbe, SecondProbe, ThirdProbe, SendProbe, Expired
<1>4. /\ st[l] = "init" => st'[l] = "p1"
      /\ st[l] = "p1" => st'[l] = "p2"
  BY Timers DEF FirstProbe, SecondProbe, ThirdProbe, SendProbe
<1>5. st[l] \in {"init", "p1", "p2"}
  BY DEF FirstProbe, SecondProbe, ThirdProbe
<1>6. inbox'[l] = inbox[l] /\ inbox'[w] = Append(inbox[w], m)
  <2>1. st[w] # "off"
    BY DEF Probing
  <2> QED  BY <1>2, <2>1, Zenon DEF Post
<1>7. ProbeTicks > 0 /\ ProbeTicks \in Nat /\ wait[w] \in Nat /\ since[w] \in Nat
  BY Timers
<1>8. CASE st[l] = "init"
  <2>1. wait[w] + since[w] <= ProbeTicks
    BY DEF DInv, Clocks
  <2>2. Leads(w, l)'
    BY <1>3, <1>4, <1>7, <1>8, <2>1, SMTT(30) DEF Leads
  <2> QED  BY <2>2 DEF Settled
<1>9. CASE st[l] \in {"p1", "p2"}
  <2>1. Settled(w, l)
    BY <1>9 DEF Probing
  <2>2. CASE Unread(w, l)
    <3>1. OwnNames(w)' = OwnNames(w) /\ name'[w] = name[w]
      BY <1>3, SameNames
    <3>2. Unread(w, l)'
      BY <1>3, <1>6, <2>2, <3>1, Zenon DEF Unread, Voices
    <3> QED  BY <3>2, Zenon DEF Settled
  <2>3. CASE Leads(w, l)
    <3>1. inbox[w] = <<>> /\ wait[w] = 0 /\ since[w] >= ProbeTicks /\ st[l] = "p1"
      BY <1>3, <1>7, <2>3 DEF Leads
    <3>2. Len(inbox'[w]) = 1
      BY <1>6, <3>1
    <3>3. Due(w, l)'
      BY <1>3, <1>4, <3>1, <3>2, SMTT(30) DEF Due
    <3> QED  BY <3>3, Zenon DEF Settled
  <2>4. ~Due(w, l)
    BY <1>3, <1>7 DEF Due
  <2> QED  BY <2>1, <2>2, <2>3, <2>4, Zenon DEF Settled
<1> QED  BY <1>5, <1>8, <1>9

\* What a prober does with a packet that takes none of its names.
Unmoved(h) ==
    /\ inbox[h] # <<>> /\ Conflicts(h, Head(inbox[h])) = {}
    /\ st' = st /\ wait'[h] = Recalc(h) /\ since'[h] = 0 /\ inbox'[h] = Tail(inbox[h])
    /\ \A k \in {"host", "svc"} : name'[h][k] = name[h][k]
    /\ \A g \in Hosts \ {h} : /\ wait'[g] = wait[g] /\ since'[g] = since[g]
                              /\ inbox'[g] = inbox[g] /\ name'[g] = name[g]

\* A prober that goes on probing has kept its names.
LEMMA RxUnmoved ==
    ASSUME DInv, NEW h \in Hosts, RxProbing(h), st'[h] \in Probing
    PROVE  Unmoved(h)
<1>1. PICK P : inbox \in [Hosts -> Seq(P)]
  BY Timers, Zenon
<1>2. PICK C : /\ C = Conflicts(h, Head(inbox[h])) /\ inbox[h] # <<>>
               /\ st' = [st EXCEPT ![h] = IF C # {} THEN "init" ELSE @]
               /\ wait' = [wait EXCEPT ![h] = IF Exhausted(h, C) THEN BackoffTicks
                                              ELSE IF C # {} THEN 0 ELSE Recalc(h)]
               /\ name' = [name EXCEPT ![h] = Rename(h, C)]
               /\ since' = [since EXCEPT ![h] = 0] /\ inbox' = Taken(h)
  BY ZenonT(30) DEF RxProbing
<1>3. C = {}
  <2> SUFFICES ASSUME C # {} PROVE FALSE
    OBVIOUS
  <2>1. st' = [st EXCEPT ![h] = "init"]
    BY <1>2, Zenon
  <2> QED  BY <2>1, Timers DEF Probing
<1>4. st' = st
  <2>1. st' = [st EXCEPT ![h] = @]
    BY <1>2, <1>3, Zenon
  <2> QED  BY <2>1, Timers
<1>5. ~Exhausted(h, C)
  BY <1>3 DEF Exhausted
<1>6. wait' = [wait EXCEPT ![h] = Recalc(h)]
  BY <1>2, <1>3, <1>5, Zenon
<1>7. wait'[h] = Recalc(h) /\ \A g \in Hosts \ {h} : wait'[g] = wait[g]
  BY <1>6, Timers
<1>8. since'[h] = 0 /\ \A g \in Hosts \ {h} : since'[g] = since[g]
  BY <1>2, Timers
<1>9. inbox'[h] = Tail(inbox[h]) /\ \A g \in Hosts \ {h} : inbox'[g] = inbox[g]
  BY <1>1, <1>2 DEF Taken
<1>10. name'[h] = Rename(h, C) /\ \A g \in Hosts \ {h} : name'[g] = name[g]
  BY <1>2, Timers
<1>11. \A k \in {"host", "svc"} : name'[h][k] = name[h][k]
  BY <1>3, <1>10 DEF Rename
<1> QED  BY <1>2, <1>3, <1>4, <1>7, <1>8, <1>9, <1>10, <1>11, ZenonT(30) DEF Unmoved

\* So its names are the same, and it overrules whom it did.
LEMMA SameKinds ==
    ASSUME \A h \in Hosts : \A k \in {"host", "svc"} : name'[h][k] = name[h][k]
    PROVE  /\ \A h \in Hosts : OwnNames(h)' = OwnNames(h) /\ name'[h].host = name[h].host
           /\ \A w, l \in Hosts : \A k : Overrules(w, l, k)' => Overrules(w, l, k)
<1>1. \A h : Kinds(h) \subseteq {"host", "svc"} /\ Kinds(h)' = Kinds(h)
  BY DEF Kinds
<1>2. ASSUME NEW h \in Hosts PROVE OwnNames(h)' = OwnNames(h)
  <2>1. \A k \in Kinds(h) : name'[h][k] = name[h][k]
    BY <1>1
  <2> QED  BY <1>1, <2>1, ZenonT(30) DEF OwnNames
<1>3. ASSUME NEW h \in Hosts PROVE name'[h].host = name[h].host
  <2>1. name'[h]["host"] = name[h]["host"]
    BY Zenon
  <2> QED  BY <2>1
<1>4. ASSUME NEW w \in Hosts, NEW l \in Hosts, NEW k, Overrules(w, l, k)' PROVE Overrules(w, l, k)
  <2>1. /\ k \in Kinds(w) \cap Kinds(l) /\ name'[w][k] = name'[l][k]
        /\ << <<w, name'[w].host>>, <<l, name'[l].host>> >> \in Beats[k]
    BY <1>4, SMT DEF Overrules, Kinds
  <2>2. name'[w][k] = name[w][k] /\ name'[l][k] = name[l][k]
    BY <1>1, <2>1
  <2> QED  BY <1>3, <2>1, <2>2, Zenon DEF Overrules
<1> QED  BY <1>2, <1>3, <1>4

\* Packets do not hold up the one that overrules the other.
LEMMA RxOfWinner ==
    ASSUME DInv, NEW w \in Hosts, NEW l \in Hosts, w # l, st[w] \in Probing, Unmoved(w), Settled(w, l),
           OwnNames(w)' = OwnNames(w), name'[w].host = name[w].host
    PROVE  Settled(w, l)'
<1>1. /\ wait'[w] = Recalc(w) /\ since'[w] = 0 /\ inbox'[w] = Tail(inbox[w]) /\ inbox[w] # <<>>
      /\ wait'[l] = wait[l] /\ inbox'[l] = inbox[l] /\ st'[l] = st[l]
  BY DEF Unmoved
<1>2. /\ ProbeTicks \in Nat /\ wait[w] \in Nat /\ wait[l] \in Nat /\ since[w] \in Nat
      /\ wait[w] + since[w] <= ProbeTicks
  BY Timers DEF DInv, Clocks
<1>3. CASE Unread(w, l)
  <2>1. wait'[w] = ProbeTicks
    BY <1>1, <1>2, <1>3 DEF Unread, Recalc
  <2>2. Unread(w, l)'
    BY <1>1, <1>3, <2>1, Zenon DEF Unread, Voices
  <2> QED  BY <2>2, Zenon DEF Settled
<1>4. CASE Leads(w, l)
  <2>1. wait[l] = ProbeTicks
    BY <1>1, <1>4, Zenon DEF Leads
  <2>2. Leads(w, l)'
    BY <1>1, <1>2, <1>4, <2>1 DEF Leads, Recalc
  <2> QED  BY <2>2, Zenon DEF Settled
<1>5. CASE Due(w, l)
  <2>1. PICK P : inbox \in [Hosts -> Seq(P)]
    BY Timers, Zenon
  <2>2. Len(inbox[w]) = 1 /\ since[w] >= ProbeTicks
    <3>1. \A q \in Seq(P) : q # <<>> => Len(q) # 0
      OBVIOUS
    <3> QED  BY <1>1, <1>5, <2>1, <3>1, Zenon DEF Due
  <2>3. Len(Tail(inbox[w])) = 0
    BY <1>1, <2>1, <2>2
  <2>4. wait'[w] = 0
    BY <1>1, <2>2, Zenon DEF Recalc
  <2>5. Due(w, l)'
    BY <1>1, <1>5, <2>3, <2>4, Zenon DEF Due
  <2> QED  BY <2>5, Zenon DEF Settled
<1> QED  BY <1>3, <1>4, <1>5, Zenon DEF Settled

\* The one that is overruled gives up its name when it reads the probe.
LEMMA RxOfLoser ==
    ASSUME DInv, NEW w \in Hosts, NEW l \in Hosts, w # l, st[l] \in Probing, Unmoved(l), Settled(w, l),
           NEW k, Overrules(w, l, k), OwnNames(w)' = OwnNames(w), name'[w].host = name[w].host
    PROVE  Settled(w, l)'
<1>1. /\ wait'[l] = Recalc(l) /\ inbox'[l] = Tail(inbox[l]) /\ inbox[l] # <<>>
      /\ wait'[w] = wait[w] /\ since'[w] = since[w] /\ inbox'[w] = inbox[w] /\ st'[l] = st[l]
  BY DEF Unmoved
<1>2. ProbeTicks \in Nat /\ wait[l] \in Nat /\ since[l] \in Nat /\ wait[l] + since[l] <= ProbeTicks
  BY Timers DEF DInv, Clocks
<1>3. wait[l] = ProbeTicks => wait'[l] = ProbeTicks
  BY <1>1, <1>2 DEF Recalc
<1>4. CASE Unread(w, l)
  <2>1. ~Voices(Head(inbox[l]), w)
    <3> SUFFICES ASSUME Voices(Head(inbox[l]), w) PROVE FALSE
      OBVIOUS
    <3>1. PICK m : m = Head(inbox[l])
      OBVIOUS
    <3>2. m.t = "probe" /\ m.from = w /\ m.name.host = name[w].host /\ OwnNames(w) \subseteq m.rrs
      BY <3>1, Zenon DEF Voices
    <3>3. k \in Kinds(l) /\ <<k, name[l][k]>> \in m.rrs
      <4>1. <<k, name[l][k]>> \in OwnNames(w)
        BY Zenon DEF Overrules, OwnNames
      <4> QED  BY <3>2, <4>1, Zenon DEF Overrules
    <3>4. Greater(m, l, k)
      BY <3>2, Zenon DEF Overrules, Greater
    <3>5. k \in Conflicts(l, m)
      BY <3>2, <3>3, <3>4 DEF Conflicts
    <3> QED  BY <3>1, <3>5, Zenon DEF Unmoved
  <2>2. PICK P : inbox \in [Hosts -> Seq(P)]
    BY Timers, Zenon
  <2>3. PICK i \in DOMAIN inbox[l] : Voices(inbox[l][i], w)
    BY <1>4, Zenon DEF Unread
  <2>4. Head(inbox[l]) = inbox[l][1]
    BY <1>1, <2>2
  <2>5. i # 1
    BY <2>1, <2>3, <2>4, Zenon
  <2>6. i - 1 \in DOMAIN inbox'[l] /\ inbox'[l][i - 1] = inbox[l][i]
    BY <1>1, <2>2, <2>3, <2>5
  <2>7. PICK m, j : m = inbox[l][i] /\ j = i - 1
    BY Zenon
  <2>8. Voices(m, w) /\ j \in DOMAIN inbox'[l] /\ inbox'[l][j] = m
    BY <2>3, <2>6, <2>7, Zenon
  <2>9. Voices(m, w)'
    BY <2>8, Zenon DEF Voices
  <2>10. Unread(w, l)'
    BY <1>1, <1>4, <2>8, <2>9, ZenonT(60) DEF Unread, Voices
  <2> QED  BY <2>10, Zenon DEF Settled
<1>5. CASE Leads(w, l)
  <2>1. wait[l] = ProbeTicks
    BY <1>1, <1>5, Zenon DEF Leads
  <2>2. Leads(w, l)'
    BY <1>1, <1>3, <1>5, <2>1, Zenon DEF Leads
  <2> QED  BY <2>2, Zenon DEF Settled
<1>6. CASE Due(w, l)
  <2>1. Due(w, l)'
    BY <1>1, <1>3, <1>6, Zenon DEF Due
  <2> QED  BY <2>1, Zenon DEF Settled
<1> QED  BY <1>4, <1>5, <1>6, Zenon DEF Settled

\* Time passes for both alike.
LEMMA TickOfBoth ==
    ASSUME DInv, NEW w \in Hosts, NEW l \in Hosts, w # l, st[w] \in Probing, st[l] \in Probing, Tick,
           Settled(w, l)
    PROVE  Settled(w, l)'
<1>1. /\ ProbeTicks \in Nat /\ wait[w] \in Nat /\ wait[l] \in Nat /\ since[w] \in Nat
      /\ wait[w] + since[w] <= ProbeTicks
  BY Timers DEF DInv, Clocks
<1>2. Timed(w) /\ Timed(l)
  BY DEF Timed, Probing
<1>3. /\ inbox[w] = <<>> /\ inbox[l] = <<>> /\ wait[w] > 0 /\ wait[l] > 0
      /\ wait'[w] = wait[w] - 1 /\ wait'[l] = wait[l] - 1
      /\ since'[w] = IF since[w] < ProbeTicks THEN since[w] + 1 ELSE since[w]
      /\ st' = st /\ inbox' = inbox
  BY <1>2, ZenonT(30) DEF Tick
<1>4. ~Unread(w, l)
  BY <1>3 DEF Unread
<1>5. ~Due(w, l)
  BY <1>3 DEF Due
<1>6. Leads(w, l)
  BY <1>4, <1>5, Zenon DEF Settled
<1>7. since'[w] = since[w] + 1
  BY <1>1, <1>3
<1>8. Leads(w, l)'
  BY <1>1, <1>3, <1>6, <1>7, SMTT(30) DEF Leads
<1> QED  BY <1>8, Zenon DEF Settled

\* With two hosts and no other packets, each step keeps the order in which they are heard.
LEMMA StepContested ==
    ASSUME NEW a, NEW b, Hosts = {a, b}, DInv, Contested, Next, ~\E h \in Hosts : Lose(h),
           ~\E q \in {"ptr", "other"}, port \in ClientPorts : Ask(q, port)
    PROVE  Contested'
<1> SUFFICES ASSUME NEW w \in Hosts, NEW l \in Hosts, w # l, st'[w] \in Probing, st'[l] \in Probing,
                    NEW k, Overrules(w, l, k)'
             PROVE  Settled(w, l)'
  BY Zenon DEF Contested
<1>1. \A c \in Hosts : c = w \/ c = l
  OBVIOUS
<1>2. ASSUME \A h \in Hosts : \A i \in {"host", "svc"} : name'[h][i] = name[h][i],
             st[w] \in Probing, st[l] \in Probing
      PROVE  Overrules(w, l, k) /\ Settled(w, l)
  <2>1. Overrules(w, l, k)
    BY <1>2, SameKinds, Zenon
  <2> QED  BY <1>2, <2>1, Zenon DEF Contested
<1>3. ASSUME NEW c \in Hosts, FirstProbe(c) \/ SecondProbe(c) \/ ThirdProbe(c) PROVE Settled(w, l)'
  <2>1. PICK s : SendProbe(c, s)
    BY <1>3, Zenon DEF FirstProbe, SecondProbe, ThirdProbe
  <2>2. name' = name /\ \A h \in Hosts \ {c} : st'[h] = st[h]
    BY <2>1, Timers DEF SendProbe
  <2>3. CASE c = w
    <3>1. st[l] # "off"
      BY <2>2, <2>3 DEF Probing
    <3>2. Unread(w, l)'
      BY <2>1, <2>3, <3>1, ProbeOfWinner, Zenon
    <3> QED  BY <3>2, Zenon DEF Settled
  <2>4. CASE c = l
    <3>1. st[w] \in Probing
      BY <2>2, <2>4, Zenon
    <3>2. st[l] \in Probing => Settled(w, l)
      BY <1>2, <2>2, <3>1, ZenonT(60)
    <3> QED  BY <1>3, <2>4, <3>1, <3>2, ProbeOfLoser, Zenon
  <2> QED  BY <1>1, <2>3, <2>4, Zenon
<1>4. ASSUME NEW c \in Hosts, RxProbing(c) PROVE Settled(w, l)'
  <2>1. Unmoved(c)
    BY <1>1, <1>4, RxUnmoved, Zenon
  <2>2. \A h \in Hosts : \A i \in {"host", "svc"} : name'[h][i] = name[h][i]
    BY <2>1, Zenon DEF Unmoved
  <2>3. st[w] \in Probing /\ st[l] \in Probing
    BY <2>1, Zenon DEF Unmoved
  <2>4. Overrules(w, l, k) /\ Settled(w, l)
    BY <1>2, <2>2, <2>3, Zenon
  <2>5. OwnNames(w)' = OwnNames(w) /\ name'[w].host = name[w].host
    BY <2>2, SameKinds, Zenon
  <2>6. CASE c = w
    BY <2>1, <2>3, <2>4, <2>5, <2>6, RxOfWinner, Zenon
  <2>7. CASE c = l
    BY <2>1, <2>3, <2>4, <2>5, <2>7, RxOfLoser, ZenonT(60)
  <2> QED  BY <1>1, <2>6, <2>7, Zenon
<1>5. ASSUME Tick PROVE Settled(w, l)'
  <2>1. st' = st /\ name' = name
    BY <1>5, Zenon DEF Tick
  <2>2. Settled(w, l)
    BY <1>2, <2>1, Zenon
  <2> QED  BY <1>5, <2>1, <2>2, TickOfBoth, Zenon
<1>6. ASSUME NEW c \in Hosts, NEW s, s \notin Probing, st' = [st EXCEPT ![c] = s] PROVE FALSE
  BY <1>1, <1>6, Timers
<1>7. {"off", "init", "ready", "send"} \cap Probing = {}
  BY DEF Probing
<1>8. ASSUME NEW c \in Hosts, Claim(c) \/ SendDelayed(c) \/ Launch(c) \/ \E bye \in BOOLEAN : Halt(c, bye)
      PROVE  FALSE
  BY <1>6, <1>7, <1>8, ZenonT(60) DEF Claim, SendDelayed, Launch, Halt
<1>9. ASSUME NEW c \in Hosts, RxReady(c) \/ RxSend(c) PROVE FALSE
  BY <1>6, <1>7, <1>9, ZenonT(60) DEF RxReady, RxSend, Respond
<1>10. ASSUME NEW c \in Hosts, RxInit(c) PROVE FALSE
  BY <1>1, <1>7, <1>10, ZenonT(60) DEF RxInit
<1>11. Step
  BY DEF Next, Keeping
<1> QED
  BY <1>3, <1>4, <1>5, <1>8, <1>9, <1>10, <1>11, ZenonT(60) DEF Step, Timeout, Receive

\* Nor does a prober come to the end of its wait without knowing of the other's claim: two
\* probers do not claim a name in one tick, and what the owner of a name has to say comes
\* before the end of the prober's wait.
LEMMA StepWarned ==
    ASSUME NEW a, NEW b, Hosts = {a, b}, DInv, Contested, Warned, Next, ~\E h \in Hosts : Lose(h),
           ~\E q \in {"ptr", "other"}, port \in ClientPorts : Ask(q, port)
    PROVE  Warned'
<1> SUFFICES ASSUME NEW g \in Hosts, NEW h \in Hosts, g # h, st'[g] \in Claimed, st'[h] = "p3",
                    NEW x \in OwnNames(g)' \cap OwnNames(h)'
             PROVE  wait'[h] > 0
  BY Zenon DEF Warned
<1>1. \A c \in Hosts : c = g \/ c = h
  OBVIOUS
<1>2. ASSUME OwnNames(g)' = OwnNames(g), OwnNames(h)' = OwnNames(h), st[g] \in Claimed, st[h] = "p3"
      PROVE  wait[h] > 0 /\ Heard(g, h, x)
  <2>1. x \in OwnNames(g) \cap OwnNames(h)
    BY <1>2, Zenon
  <2> QED  BY <1>2, <2>1, ZenonT(30) DEF DInv, Defended, Warned
<1>3. /\ {"off", "init", "p1", "p2", "p3"} \cap Claimed = {} /\ "p3" \in Probing
      /\ "p3" \notin {"off", "init", "ready", "send"}
  BY DEF Claimed, Probing
<1>4. ASSUME NEW c \in Hosts, FirstProbe(c) \/ SecondProbe(c) \/ ThirdProbe(c) PROVE wait'[h] > 0
  <2>1. PICK s \in {"p1", "p2", "p3"} : SendProbe(c, s)
    BY <1>4, Zenon DEF FirstProbe, SecondProbe, ThirdProbe
  <2>2. st'[c] = s /\ wait'[c] = ProbeTicks
    BY <2>1, Timers DEF SendProbe
  <2>3. c # g
    BY <1>3, <2>1, <2>2, SMTT(30)
  <2> QED  BY <1>1, <2>2, <2>3, Timers, SMTT(30)
<1>5. ASSUME NEW c \in Hosts, Claim(c) PROVE wait'[h] > 0
  <2>1. st'[c] = "ready" /\ wait' = wait /\ name' = name /\ \A i \in Hosts \ {c} : st'[i] = st[i]
    BY <1>5, Timers DEF Claim
  <2>2. c = g
    BY <1>1, <1>3, <2>1, Zenon
  <2>3. st[g] = "p3" /\ wait[g] = 0 /\ st[h] = "p3"
    BY <1>5, <2>1, <2>2, Zenon DEF Claim, Expired
  <2>4. x \in OwnNames(g) \cap OwnNames(h)
    BY <2>1, SameNames, Zenon
  <2>5. PICK k : Overrules(g, h, k) \/ Overrules(h, g, k)
    BY <2>4, SharedNameContested, Zenon DEF DInv
  <2>6. Settled(g, h) \/ Settled(h, g)
    BY <1>3, <2>3, <2>5, Zenon DEF Contested
  <2>7. wait[g] = ProbeTicks \/ wait[h] = ProbeTicks
    BY <2>3, <2>6 DEF Settled, Unread, Leads, Due
  <2> QED  BY <2>1, <2>3, <2>7, Timers, SMTT(30)
<1>6. ASSUME NEW c \in Hosts, SendDelayed(c) PROVE wait'[h] > 0
  <2>1. /\ st[c] = "send" /\ st'[c] = "ready" /\ wait' = wait /\ name' = name
        /\ \A i \in Hosts \ {c} : st'[i] = st[i]
    BY <1>6, Timers DEF SendDelayed
  <2>2. c = g /\ st[g] \in Claimed /\ st[h] = "p3"
    BY <1>1, <1>3, <2>1, Zenon DEF Claimed
  <2> QED  BY <1>2, <2>1, <2>2, SameNames, Zenon
<1>7. ASSUME NEW c \in Hosts, RxReady(c) \/ RxSend(c) PROVE wait'[h] > 0
  <2>1. PICK s, d : /\ s \in {"ready", "send"}
                   /\ st' = [st EXCEPT ![c] = s] /\ wait' = [wait EXCEPT ![c] = d]
                   /\ st[c] \in {"ready", "send"} /\ name' = name
    BY <1>7, ZenonT(60) DEF RxReady, RxSend, Respond
  <2>2. st'[c] = s /\ \A i \in Hosts \ {c} : st'[i] = st[i] /\ wait'[i] = wait[i]
    BY <2>1, Timers
  <2>3. c = g /\ st[g] \in Claimed /\ st[h] = "p3" /\ wait'[h] = wait[h]
    BY <1>1, <1>3, <2>1, <2>2, ZenonT(30) DEF Claimed
  <2> QED  BY <1>2, <2>1, <2>3, SameNames, Zenon
<1>8. ASSUME NEW c \in Hosts, RxProbing(c) PROVE wait'[h] > 0
  <2>1. st[c] \in Probing /\ \E C : st' = [st EXCEPT ![c] = IF C # {} THEN "init" ELSE @]
    BY <1>8, ZenonT(30) DEF RxProbing
  <2>2. st'[c] \in {"init", st[c]}
    BY <2>1, Timers
  <2>3. c = h
    BY <1>1, <2>1, <2>2 DEF Probing, Claimed
  <2>4. Unmoved(h)
    BY <1>3, <1>8, <2>3, RxUnmoved, Zenon
  <2>5. \A j \in Hosts : \A i \in {"host", "svc"} : name'[j][i] = name[j][i]
    BY <2>4, Zenon DEF Unmoved
  <2>6. wait[h] > 0
    <3>1. OwnNames(g)' = OwnNames(g) /\ OwnNames(h)' = OwnNames(h)
      BY <2>5, SameKinds, Zenon
    <3>2. st' = st
      BY <2>4, Zenon DEF Unmoved
    <3> QED  BY <1>2, <3>1, <3>2, Zenon
  <2>7. wait[h] + since[h] <= ProbeTicks
    BY <1>3, <2>1, <2>3, SMTT(30) DEF DInv, Clocks
  <2>8. wait'[h] = Recalc(h)
    BY <2>4, Zenon DEF Unmoved
  <2> QED  BY <2>6, <2>7, <2>8, Timers, SMTT(30) DEF Recalc
<1>9. ASSUME Tick PROVE wait'[h] > 0
  <2>1. st' = st /\ name' = name /\ inbox[g] = <<>> /\ inbox[h] = <<>>
    BY <1>9, Zenon DEF Tick
  <2>2. Heard(g, h, x)
    BY <1>2, <2>1, SameNames, Zenon
  <2>3. Owed(g, h, x)
    BY <2>1, <2>2 DEF Heard, Asked, Carries
  <2>4. Timed(g) /\ Timed(h)
    BY <2>1, <2>3 DEF Timed, Owed
  <2>5. wait[g] > 0 /\ wait'[h] = wait[h] - 1
    BY <1>9, <2>4, Zenon DEF Tick
  <2>6. wait[g] < wait[h]
    BY <2>3, Zenon DEF Owed
  <2> QED  BY <2>5, <2>6, Timers
<1>10. ASSUME NEW c \in Hosts, RxInit(c) PROVE FALSE
  BY <1>1, <1>3, <1>10, Zenon DEF RxInit
<1>11. ASSUME NEW c \in Hosts, NEW s \in {"off", "init"}, st' = [st EXCEPT ![c] = s] PROVE FALSE
  BY <1>1, <1>3, <1>11, Timers, SMTT(30)
<1>12. ASSUME NEW c \in Hosts, Launch(c) \/ \E bye \in BOOLEAN : Halt(c, bye) PROVE FALSE
  BY <1>11, <1>12, ZenonT(30) DEF Launch, Halt
<1>13. Step
  BY DEF Next, Keeping
<1> QED
  BY <1>4, <1>5, <1>6, <1>7, <1>8, <1>9, <1>10, <1>12, <1>13, ZenonT(60) DEF Step, Timeout, Receive

\* Inductive, for two hosts that nobody disturbs.
QuietInv ==
    /\ DInv /\ Contested /\ Warned /\ UniqueNames
    /\ spent \in [{"disturbances", "halts"} -> Nat]

\* Nothing disturbs the link if the bound on disturbances is zero; halts are counted.
LEMMA StepSpent ==
    ASSUME MaxDisturbances = 0, spent \in [{"disturbances", "halts"} -> Nat], Next
    PROVE  /\ ~\E h \in Hosts : Lose(h)
           /\ ~\E q \in {"ptr", "other"}, port \in ClientPorts : Ask(q, port)
           /\ spent' \in [{"disturbances", "halts"} -> Nat]
<1>1. Step
  BY DEF Next, Keeping
<1>2. ~Spend("disturbances", MaxDisturbances)
  BY DEF Spend
<1>3. ~\E h \in Hosts : Lose(h)
  BY <1>2, Zenon DEF Lose
<1>4. ~\E q \in {"ptr", "other"}, port \in ClientPorts : Ask(q, port)
  BY <1>2, Zenon DEF Ask
<1>5. ASSUME spent' = spent \/ Spend("halts", MaxHalts)
      PROVE  spent' \in [{"disturbances", "halts"} -> Nat]
  BY <1>5 DEF Spend
<1>6. ASSUME NEW h \in Hosts, Timeout(h) PROVE spent' = spent
  BY <1>6, ZenonT(60)
  DEF Timeout, FirstProbe, SecondProbe, ThirdProbe, SendProbe, Claim, SendDelayed
<1>7. ASSUME NEW h \in Hosts, Receive(h) PROVE spent' = spent
  BY <1>7, ZenonT(60) DEF Receive, RxInit, RxProbing, RxReady, RxSend
<1>8. ASSUME NEW h \in Hosts, Launch(h) PROVE spent' = spent
  BY <1>8, Zenon DEF Launch
<1>9. ASSUME NEW h \in Hosts, NEW bye \in BOOLEAN, Halt(h, bye) PROVE Spend("halts", MaxHalts)
  BY <1>9, Zenon DEF Halt
<1>10. Tick => spent' = spent
  BY Zenon DEF Tick
<1>11. spent' = spent \/ Spend("halts", MaxHalts)
  BY <1>1, <1>3, <1>4, <1>6, <1>7, <1>8, <1>9, <1>10, ZenonT(60) DEF Step
<1> QED  BY <1>3, <1>4, <1>5, <1>11

\* Two responders never own one name on a link that loses nothing and where nobody else
\* sends, whatever names, ports and TXT records they have and however often they are
\* halted and launched, although a host claims its names without a look at the packets that
\* arrive in that moment: the tie-break and the timing of the probes (process_probe_resp
\* and recalc_timeout in do_responder) suffice.
THEOREM QuietPairUnique ==
    ASSUME NEW a, NEW b, Hosts = {a, b}, MaxDisturbances = 0, ClientPorts \subseteq {"mdns"}
    PROVE  Spec => []UniqueNames
<1>1. Init => QuietInv
  <2> SUFFICES ASSUME Init PROVE QuietInv
    OBVIOUS
  <2>1. spent \in [{"disturbances", "halts"} -> Nat]
    BY DEF Init
  <2>2. \A h \in Hosts : st[h] \notin Probing /\ st[h] \notin Claimed
    BY DEF Init, Probing, Claimed
  <2> QED  BY <2>1, <2>2, InitDInv, ZenonT(30) DEF QuietInv, Contested, Warned, UniqueNames
<1>2. ASSUME QuietInv, Next PROVE QuietInv'
  <2>1. /\ ~\E h \in Hosts : Lose(h)
        /\ ~\E q \in {"ptr", "other"}, port \in ClientPorts : Ask(q, port)
        /\ spent' \in [{"disturbances", "halts"} -> Nat]
    BY <1>2, StepSpent, ZenonT(30) DEF QuietInv
  <2>2. DInv'
    BY <1>2, <2>1, StepDInv, Zenon DEF QuietInv
  <2>3. Contested'
    BY <1>2, <2>1, StepContested, Zenon DEF QuietInv
  <2>4. Warned'
    BY <1>2, <2>1, StepWarned, Zenon DEF QuietInv
  <2>5. ASSUME NEW g \in Hosts, NEW h \in Hosts, g # h, st[g] \in Claimed, Claim(h)
        PROVE  OwnNames(g) \cap OwnNames(h) = {}
    <3>1. st[h] = "p3" /\ wait[h] = 0
      BY <2>5, Zenon DEF Claim, Expired
    <3>2. ~(wait[h] > 0)
      BY <3>1
    <3> QED  BY <1>2, <2>5, <3>1, <3>2, Zenon DEF QuietInv, Warned
  <2>6. UniqueNames'
    BY <1>2, <2>5, UniqueKept, ZenonT(30) DEF QuietInv
  <2> QED  BY <2>1, <2>2, <2>3, <2>4, <2>6, Zenon DEF QuietInv
<1>3. ASSUME QuietInv, UNCHANGED vars PROVE QuietInv'
  <2>1. /\ st' = st /\ name' = name /\ wait' = wait /\ since' = since /\ inbox' = inbox
        /\ spent' = spent
    BY <1>3 DEF vars
  <2>2. DInv'
    BY <1>3, StepDInv, Zenon DEF QuietInv
  <2>3. /\ \A h \in Hosts : OwnNames(h)' = OwnNames(h)
        /\ \A w, l \in Hosts : \A k : Overrules(w, l, k)' => Overrules(w, l, k)
    BY <2>1, SameKinds, Zenon
  <2>4. ASSUME NEW w \in Hosts, NEW l \in Hosts, Settled(w, l) PROVE Settled(w, l)'
    <3>1. Unread(w, l) => Unread(w, l)'
      BY <2>1, <2>3, <2>4, ZenonT(30) DEF Unread, Voices
    <3>2. (Leads(w, l) => Leads(w, l)') /\ (Due(w, l) => Due(w, l)')
      BY <2>1, ZenonT(30) DEF Leads, Due
    <3> QED  BY <2>4, <3>1, <3>2, Zenon DEF Settled
  <2>5. Contested'
    BY <1>3, <2>1, <2>3, <2>4, ZenonT(30) DEF QuietInv, Contested
  <2>6. Warned' /\ UniqueNames'
    BY <1>3, <2>1, <2>3, ZenonT(30) DEF QuietInv, Warned, UniqueNames
  <2> QED  BY <1>3, <2>1, <2>2, <2>5, <2>6, Zenon DEF QuietInv
<1>4. QuietInv => UniqueNames
  BY DEF QuietInv
<1> QED  BY <1>1, <1>2, <1>3, <1>4, PTL DEF Spec

\* So they implement NameClaims.
THEOREM QuietPairClaims ==
    ASSUME NEW a, NEW b, Hosts = {a, b}, MaxDisturbances = 0, ClientPorts \subseteq {"mdns"}
    PROVE  Spec => ImplementsNameClaims
BY QuietPairUnique, ClaimsUnlessDouble, PTL
=============================================================================
