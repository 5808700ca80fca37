---------------------------- MODULE ResponderProofs ---------------------------
(*****************************************************************************)
(* The tie-break between simultaneous probes, for records and sections of any*)
(* size, and results about the responder threads.  For any number of hosts:  *)
(* delayed answers are sent; names are claimed as NameClaims says unless two *)
(* hosts claim one name; without losses that takes a claim past a response   *)
(* that has arrived (ResponderPairProofs: two hosts do not, undisturbed).    *)
(*****************************************************************************)
EXTENDS MCResponder, WellFoundedInduction, TLAPS

\* The rdata that a record of each type carries.
Rdata(t) == IF t = T_SRV THEN [fixed : Int, target : Int]
            ELSE IF t = T_TXT THEN Seq(Int) ELSE Int

AnyRdata == Int \cup Seq(Int) \cup [fixed : Int, target : Int]

\* Resource records, as rr_cmp reads them.
Rrs == {r \in [class : Int, type : Int, rdata : AnyRdata] : r.rdata \in Rdata(r.type)}

-----------------------------------------------------------------------------
(* Least and greatest elements. *)

\* Every set of naturals that is not empty has a least element.
LEMMA LeastNatural ==
    ASSUME NEW S \in SUBSET Nat, S # {}
    PROVE  \E x \in S : \A y \in S : x <= y
<1> DEFINE R == OpToRel(<, Nat)
<1>1. IsWellFoundedOn(R, Nat)
  BY NatLessThanWellFounded, ZenonT(60)
<1>2. \A x, y \in Nat : <<y, x>> \in R <=> y < x
  BY DEF OpToRel
<1> HIDE DEF R
<1>3. PICK x \in S : \A y \in S : <<y, x>> \notin R
  BY <1>1, WFMin, Zenon
<1>4. x \in Nat /\ \A y \in S : y \in Nat /\ ~(y < x)
  BY <1>2, <1>3, Zenon
<1> QED  BY <1>4

\* Min finds it.
LEMMA MinIsLeast ==
    ASSUME NEW S \in SUBSET Nat, S # {}
    PROVE  Min(S) \in S /\ \A y \in S : Min(S) <= y
<1>1. \E x \in S : \A y \in S : x <= y
  BY LeastNatural
<1> QED  BY <1>1, Zenon DEF Min

\* Max of positions is one of them.
LEMMA MaxInside ==
    ASSUME NEW n \in Nat, NEW S \in SUBSET (1 .. n), S # {}
    PROVE  Max(S) \in S
<1> DEFINE D == {n - i : i \in S}
<1>1. D \in SUBSET Nat /\ D # {}
  <2>1. \A i \in S : n - i \in Nat
    OBVIOUS
  <2>2. D \subseteq Nat
    BY <2>1, Zenon
  <2> QED  BY <2>2, Zenon
<1>2. PICK d \in D : \A e \in D : d <= e
  BY <1>1, LeastNatural, ZenonT(60)
<1>3. PICK x \in S : d = n - x
  OBVIOUS
<1>4. \A y \in S : x >= y
  <2> TAKE y \in S
  <2>1. n - x <= n - y
    BY <1>2, <1>3, ZenonT(60)
  <2> QED  BY <2>1
<1>5. \E z \in S : \A y \in S : z >= y
  BY <1>4
<1> QED  BY <1>5, Zenon DEF Max

-----------------------------------------------------------------------------
(* Two records. *)

\* The sign of a difference is antisymmetric.
LEMMA OrderFacts ==
    ASSUME NEW a \in Int, NEW b \in Int
    PROVE  /\ Order(a, b) \in {-1, 0, 1}
           /\ Order(a, b) = -Order(b, a)
           /\ Order(a, b) = 0 <=> a = b
           /\ a # b => 1 \in {Order(a, b), Order(b, a)}
BY DEF Order

\* Min of two numbers.
LEMMA MinOfTwo ==
    ASSUME NEW m \in Nat, NEW n \in Nat
    PROVE  Min({m, n}) = IF m <= n THEN m ELSE n
<1>1. Min({m, n}) \in {m, n} /\ \A y \in {m, n} : Min({m, n}) <= y
  BY MinIsLeast
<1> QED  BY <1>1

\* The comparison of TXT data is not antisymmetric, but of two different ones at
\* least one is found to be greater.
LEMMA TxtFacts ==
    ASSUME NEW a \in Seq(Int), NEW b \in Seq(Int)
    PROVE  /\ TxtCmp(a, b) \in {-1, 0, 1}
           /\ a = b => TxtCmp(a, b) = 0
           /\ a # b => 1 \in {TxtCmp(a, b), TxtCmp(b, a)}
<1> DEFINE m == Min({Len(a), Len(b)})
<1>0. Len(a) \in Nat /\ Len(b) \in Nat
  OBVIOUS
<1>1. m = (IF Len(a) <= Len(b) THEN Len(a) ELSE Len(b)) /\ {Len(b), Len(a)} = {Len(a), Len(b)}
  BY <1>0, MinOfTwo, Zenon
<1>2. /\ TxtCmp(a, b) = IF \E i \in 1 .. m : a[i] > b[i] THEN 1 ELSE Order(Len(a), Len(b))
      /\ TxtCmp(b, a) = IF \E i \in 1 .. m : b[i] > a[i] THEN 1 ELSE Order(Len(b), Len(a))
  BY <1>1, Zenon DEF TxtCmp
<1> HIDE DEF m
<1>3. TxtCmp(a, b) \in {-1, 0, 1}
  BY <1>2, OrderFacts
<1>4. ASSUME a = b PROVE TxtCmp(a, b) = 0
  <2>1. \A i \in 1 .. m : ~(a[i] > b[i])
    BY <1>1, <1>4
  <2> QED  BY <1>2, <1>4, <2>1, OrderFacts
<1>5. ASSUME a # b PROVE 1 \in {TxtCmp(a, b), TxtCmp(b, a)}
  <2>1. CASE Len(a) # Len(b)
    BY <1>2, <2>1, OrderFacts
  <2>2. CASE Len(a) = Len(b)
    <3>1. PICK i \in 1 .. Len(a) : a[i] # b[i]
      BY <1>5, <2>2
    <3>2. i \in 1 .. m /\ (a[i] > b[i] \/ b[i] > a[i])
      BY <1>1, <2>2, <3>1
    <3> QED  BY <1>2, <3>2
  <2> QED  BY <2>1, <2>2
<1> QED  BY <1>3, <1>4, <1>5

\* Comparing rdata: equal data tie, of two different ones at least one comparison says
\* later, and exactly one unless they are TXT data.
LEMMA RdataFacts ==
    ASSUME NEW t \in Int, NEW a \in Rdata(t), NEW b \in Rdata(t)
    PROVE  /\ a = b => RdataCmp(t, a, b) = 0
           /\ a # b => 1 \in {RdataCmp(t, a, b), RdataCmp(t, b, a)}
           /\ t # T_TXT => RdataCmp(t, a, b) = -RdataCmp(t, b, a)
           /\ RdataCmp(t, a, b) \in {-1, 0, 1}
<1>1. CASE t = T_SRV
  <2>1. a \in [fixed : Int, target : Int] /\ b \in [fixed : Int, target : Int]
    BY <1>1 DEF Rdata
  <2>2. RdataCmp(t, a, b) = SrvCmp(a, b) /\ RdataCmp(t, b, a) = SrvCmp(b, a)
    BY <1>1 DEF RdataCmp, T_SRV, T_TXT
  <2>3. a # b => a.fixed # b.fixed \/ a.target # b.target
    BY <2>1
  <2> QED  BY <2>1, <2>2, <2>3, OrderFacts DEF SrvCmp
<1>2. CASE t = T_TXT
  <2>1. a \in Seq(Int) /\ b \in Seq(Int)
    BY <1>2 DEF Rdata, T_SRV, T_TXT
  <2>2. RdataCmp(t, a, b) = TxtCmp(a, b) /\ RdataCmp(t, b, a) = TxtCmp(b, a)
    BY <1>2 DEF RdataCmp, T_SRV, T_TXT
  <2> QED  BY <1>2, <2>1, <2>2, TxtFacts
<1>3. CASE t # T_SRV /\ t # T_TXT
  <2>1. a \in Int /\ b \in Int
    BY <1>3 DEF Rdata
  <2>2. RdataCmp(t, a, b) = Order(a, b) /\ RdataCmp(t, b, a) = Order(b, a)
    BY <1>3 DEF RdataCmp
  <2> QED  BY <2>1, <2>2, OrderFacts
<1> QED  BY <1>1, <1>2, <1>3

\* The same of whole resource records.
LEMMA RrFacts ==
    ASSUME NEW a \in Rrs, NEW b \in Rrs
    PROVE  /\ a = b => RrCmp(a, b) = 0
           /\ a # b => 1 \in {RrCmp(a, b), RrCmp(b, a)}
           /\ a.type # T_TXT => RrCmp(a, b) = -RrCmp(b, a)
           /\ RrCmp(a, b) \in {-1, 0, 1}
<1>1. /\ a.class \in Int /\ a.type \in Int /\ a.rdata \in Rdata(a.type)
      /\ b.class \in Int /\ b.type \in Int /\ b.rdata \in Rdata(b.type)
      /\ a # b => a.class # b.class \/ a.type # b.type \/ a.rdata # b.rdata
  BY DEF Rrs
<1>2. CASE a.class # b.class
  BY <1>1, <1>2, OrderFacts DEF RrCmp
<1>3. CASE a.class = b.class /\ a.type # b.type
  BY <1>1, <1>3, OrderFacts DEF RrCmp
<1>4. CASE a.class = b.class /\ a.type = b.type
  <2>1. /\ RrCmp(a, b) = RdataCmp(a.type, a.rdata, b.rdata)
        /\ RrCmp(b, a) = RdataCmp(a.type, b.rdata, a.rdata)
    BY <1>4 DEF RrCmp
  <2> QED  BY <1>1, <1>4, <2>1, RdataFacts
<1> QED  BY <1>2, <1>3, <1>4

-----------------------------------------------------------------------------
(* Two authority sections. *)

\* s has records of the section p only.
From(s, p) == s \in Seq(Rrs) /\ \A k \in DOMAIN s : \E i \in DOMAIN p : s[k] = p[i]

\* A slot of an authority section holds records of the packet only.
LEMMA SlotFrom ==
    ASSUME NEW p \in Seq(Rrs), NEW t
    PROVE  From(Slot(p, t), p)
<1> DEFINE at == {i \in DOMAIN p : p[i].type = t}
<1>1. CASE at = {}
  <2>1. Slot(p, t) = <<>>
    BY <1>1 DEF Slot
  <2> QED  BY <2>1 DEF From
<1>2. CASE at # {}
  <2>1. at \in SUBSET (1 .. Len(p)) /\ Len(p) \in Nat
    OBVIOUS
  <2>2. Max(at) \in at
    BY <1>2, <2>1, MaxInside, Zenon
  <2>3. PICK i \in DOMAIN p : i = Max(at)
    BY <2>2, ZenonT(60)
  <2>4. Slot(p, t) = <<p[i]>>
    BY <1>2, <2>3, Zenon DEF Slot
  <2>5. p[i] \in Rrs
    OBVIOUS
  <2> QED  BY <2>4, <2>5 DEF From
<1> QED  BY <1>1, <1>2

\* So do two of them together.
LEMMA ConcatFrom ==
    ASSUME NEW p \in Seq(Rrs), NEW s, NEW u, From(s, p), From(u, p)
    PROVE  From(s \o u, p)
<1>1. s \in Seq(Rrs) /\ u \in Seq(Rrs) /\ s \o u \in Seq(Rrs) /\ Len(s \o u) = Len(s) + Len(u)
  BY DEF From
<1>2. ASSUME NEW k \in DOMAIN (s \o u) PROVE \E i \in DOMAIN p : (s \o u)[k] = p[i]
  <2>1. CASE k <= Len(s)
    <3>1. k \in DOMAIN s /\ (s \o u)[k] = s[k]
      BY <1>1, <2>1
    <3> QED  BY <3>1 DEF From
  <2>2. CASE k > Len(s)
    <3>1. k - Len(s) \in DOMAIN u /\ (s \o u)[k] = u[k - Len(s)]
      BY <1>1, <2>2
    <3> QED  BY <3>1 DEF From
  <2> QED  BY <1>1, <2>1, <2>2
<1> QED  BY <1>1, <1>2 DEF From

\* So do the authorities that the responder compares.
LEMMA AuthoritiesFrom ==
    ASSUME NEW p \in Seq(Rrs)
    PROVE  From(FindAuthorities(p), p)
<1>1. \A t : From(Slot(p, t), p)
  BY SlotFrom
<1>2. \A s, u : From(s, p) /\ From(u, p) => From(s \o u, p)
  BY ConcatFrom
<1> QED  BY <1>1, <1>2, Zenon DEF FindAuthorities

\* The first index where two sections differ decides in the direction in which the
\* record is greater: the earlier records are equal and compare as equal.
LEMMA Decides ==
    ASSUME NEW p1 \in Seq(Rrs), NEW p2 \in Seq(Rrs),
           NEW r1, NEW r2, r1 = FindAuthorities(p1), r2 = FindAuthorities(p2),
           NEW k \in DOMAIN r1 \cap DOMAIN r2, \A j \in DOMAIN r1 : j < k => r1[j] = r2[j],
           RrCmp(r1[k], r2[k]) = 1
    PROVE  AuthoritySetCmp(p1, p2) = 1
<1>1. r1 \in Seq(Rrs) /\ r2 \in Seq(Rrs)
  BY AuthoritiesFrom DEF From
<1> DEFINE m == Min({Len(r1), Len(r2)})
           differ == {i \in 1 .. m : RrCmp(r1[i], r2[i]) # 0}
<1>2. Len(r1) \in Nat /\ Len(r2) \in Nat /\ DOMAIN r1 = 1 .. Len(r1) /\ DOMAIN r2 = 1 .. Len(r2)
  BY <1>1
<1>3. m = IF Len(r1) <= Len(r2) THEN Len(r1) ELSE Len(r2)
  BY <1>2, MinOfTwo, Zenon
<1>4. AuthoritySetCmp(p1, p2) = IF differ # {} THEN RrCmp(r1[Min(differ)], r2[Min(differ)])
                                ELSE Order(Len(r1), Len(r2))
  BY Zenon DEF AuthoritySetCmp
<1> HIDE DEF m
<1>5. k \in differ
  BY <1>2, <1>3
<1>6. ASSUME NEW j \in differ PROVE k <= j
  <2>1. j \in DOMAIN r1 /\ j \in DOMAIN r2 /\ RrCmp(r1[j], r2[j]) # 0
    BY <1>2, <1>3
  <2>2. r1[j] \in Rrs /\ r2[j] \in Rrs
    BY <1>1, <2>1
  <2>3. r1[j] # r2[j]
    BY <2>1, <2>2, RrFacts
  <2>4. ~(j < k)
    BY <2>1, <2>3
  <2> QED  BY <1>2, <2>1, <2>4
<1>7. differ \in SUBSET Nat /\ differ # {}
  BY <1>2, <1>3, <1>5
<1>8. Min(differ) \in differ /\ Min(differ) <= k
  BY <1>5, <1>7, MinIsLeast, Zenon
<1> HIDE DEF differ
<1>9. Min(differ) = k
  <2>1. k <= Min(differ)
    BY <1>6, <1>8, Zenon
  <2>2. k \in Nat /\ Min(differ) \in Nat
    BY <1>5, <1>7, <1>8, Zenon
  <2> QED  BY <1>8, <2>1, <2>2
<1> QED  BY <1>4, <1>7, <1>9

\* Sections that differ have a first record in which they do, or one is longer.
LEMMA FirstDifference ==
    ASSUME NEW r1 \in Seq(Rrs), NEW r2 \in Seq(Rrs), r1 # r2
    PROVE  \/ \E k \in DOMAIN r1 \cap DOMAIN r2 :
                r1[k] # r2[k] /\ \A j \in DOMAIN r1 : j < k => r1[j] = r2[j]
           \/ Len(r1) # Len(r2) /\ \A j \in DOMAIN r1 \cap DOMAIN r2 : r1[j] = r2[j]
<1> DEFINE S == {k \in DOMAIN r1 \cap DOMAIN r2 : r1[k] # r2[k]}
<1>1. DOMAIN r1 = 1 .. Len(r1) /\ DOMAIN r2 = 1 .. Len(r2) /\ Len(r1) \in Nat /\ Len(r2) \in Nat
  OBVIOUS
<1>2. CASE S = {}
  <2>1. \A j \in DOMAIN r1 \cap DOMAIN r2 : r1[j] = r2[j]
    BY <1>2
  <2>2. Len(r1) # Len(r2)
    BY <2>1
  <2> QED  BY <2>1, <2>2
<1>3. CASE S # {}
  <2>1. S \in SUBSET Nat
    BY <1>1
  <2>2. PICK k \in S : \A y \in S : k <= y
    BY <1>3, <2>1, LeastNatural, Zenon
  <2>3. ASSUME NEW j \in DOMAIN r1, j < k PROVE r1[j] = r2[j]
    <3>1. j \notin S
      BY <1>1, <2>2, <2>3
    <3>2. j \in DOMAIN r2
      BY <1>1, <2>2, <2>3
    <3> QED  BY <3>1, <3>2
  <2> QED  BY <2>2, <2>3
<1> QED  BY <1>2, <1>3

\* Sections that agree as far as both go are ordered by their lengths.
LEMMA LengthDecides ==
    ASSUME NEW p1 \in Seq(Rrs), NEW p2 \in Seq(Rrs),
           NEW r1, NEW r2, r1 = FindAuthorities(p1), r2 = FindAuthorities(p2),
           \A j \in DOMAIN r1 \cap DOMAIN r2 : r1[j] = r2[j]
    PROVE  AuthoritySetCmp(p1, p2) = Order(Len(r1), Len(r2))
<1>1. r1 \in Seq(Rrs) /\ r2 \in Seq(Rrs)
  BY AuthoritiesFrom DEF From
<1> DEFINE m == Min({Len(r1), Len(r2)})
           differ == {i \in 1 .. m : RrCmp(r1[i], r2[i]) # 0}
<1>2. Len(r1) \in Nat /\ Len(r2) \in Nat /\ DOMAIN r1 = 1 .. Len(r1) /\ DOMAIN r2 = 1 .. Len(r2)
  BY <1>1
<1>3. m = IF Len(r1) <= Len(r2) THEN Len(r1) ELSE Len(r2)
  BY <1>2, MinOfTwo, Zenon
<1>4. AuthoritySetCmp(p1, p2) = IF differ # {} THEN RrCmp(r1[Min(differ)], r2[Min(differ)])
                                ELSE Order(Len(r1), Len(r2))
  BY Zenon DEF AuthoritySetCmp
<1> HIDE DEF m
<1>5. ASSUME NEW j \in 1 .. m PROVE RrCmp(r1[j], r2[j]) = 0
  <2>1. j \in DOMAIN r1 /\ j \in DOMAIN r2
    BY <1>2, <1>3
  <2>2. r1[j] \in Rrs /\ r2[j] \in Rrs /\ r1[j] = r2[j]
    BY <1>1, <2>1
  <2> QED  BY <2>2, RrFacts
<1>6. differ = {}
  BY <1>5
<1> QED  BY <1>4, <1>6

\* If the authorities of two probes for a name differ, at least one of the two hosts
\* finds the other's set greater and gives way (authority_set_cmp returns 1 in
\* fix_response_conflicts), although rr_cmp does not order TXT data.
THEOREM SomeoneGivesWay ==
    ASSUME NEW mine \in Seq(Rrs), NEW theirs \in Seq(Rrs),
           FindAuthorities(mine) # FindAuthorities(theirs)
    PROVE  1 \in {AuthoritySetCmp(theirs, mine), AuthoritySetCmp(mine, theirs)}
<1> DEFINE r1 == FindAuthorities(mine)
           r2 == FindAuthorities(theirs)
<1>1. r1 \in Seq(Rrs) /\ r2 \in Seq(Rrs) /\ r1 # r2
  BY AuthoritiesFrom DEF From
<1>2. r1 = FindAuthorities(mine) /\ r2 = FindAuthorities(theirs)
  OBVIOUS
<1> HIDE DEF r1, r2
<1>3. ASSUME NEW k \in DOMAIN r1 \cap DOMAIN r2, r1[k] # r2[k],
             \A j \in DOMAIN r1 : j < k => r1[j] = r2[j]
      PROVE  1 \in {AuthoritySetCmp(theirs, mine), AuthoritySetCmp(mine, theirs)}
  <2>1. r1[k] \in Rrs /\ r2[k] \in Rrs
    BY <1>1
  <2>2. RrCmp(r1[k], r2[k]) = 1 \/ RrCmp(r2[k], r1[k]) = 1
    BY <1>3, <2>1, RrFacts
  <2>3. \A j \in DOMAIN r2 : j < k => r2[j] = r1[j]
    <3>1. DOMAIN r1 = 1 .. Len(r1) /\ DOMAIN r2 = 1 .. Len(r2) /\ Len(r1) \in Nat /\ Len(r2) \in Nat
      BY <1>1
    <3>2. \A j \in DOMAIN r2 : j < k => j \in DOMAIN r1
      BY <3>1
    <3> QED  BY <1>3, <3>2
  <2>4. CASE RrCmp(r1[k], r2[k]) = 1
    BY <1>2, <1>3, <2>4, Decides
  <2>5. CASE RrCmp(r2[k], r1[k]) = 1
    <3>1. k \in DOMAIN r2 \cap DOMAIN r1
      OBVIOUS
    <3> QED  BY <1>2, <2>3, <2>5, <3>1, Decides
  <2> QED  BY <2>2, <2>4, <2>5
<1>4. CASE Len(r1) # Len(r2) /\ \A j \in DOMAIN r1 \cap DOMAIN r2 : r1[j] = r2[j]
  <2>1. AuthoritySetCmp(mine, theirs) = Order(Len(r1), Len(r2))
    BY <1>2, <1>4, LengthDecides
  <2>2. AuthoritySetCmp(theirs, mine) = Order(Len(r2), Len(r1))
    <3>1. \A j \in DOMAIN r2 \cap DOMAIN r1 : r2[j] = r1[j]
      BY <1>4
    <3> QED  BY <1>2, <3>1, LengthDecides
  <2>3. Len(r1) \in Int /\ Len(r2) \in Int
    BY <1>1
  <2> QED  BY <1>4, <2>1, <2>2, <2>3, OrderFacts
<1> QED  BY <1>1, <1>3, <1>4, FirstDifference, ZenonT(60)

\* Without TXT records of its own a host reads the outcome as the other one does,
\* with the signs exchanged: exactly one gives way, or none if the authorities are
\* the same (authority_set_cmp).
THEOREM OneGivesWay ==
    ASSUME NEW mine \in Seq(Rrs), NEW theirs \in Seq(Rrs),
           \A i \in DOMAIN mine : mine[i].type # T_TXT
    PROVE  AuthoritySetCmp(theirs, mine) = -AuthoritySetCmp(mine, theirs)
<1> DEFINE r1 == FindAuthorities(mine)
           r2 == FindAuthorities(theirs)
           m == Min({Len(r1), Len(r2)})
           differ == {i \in 1 .. m : RrCmp(r1[i], r2[i]) # 0}
           converse == {i \in 1 .. m : RrCmp(r2[i], r1[i]) # 0}
<1>1. From(r1, mine) /\ From(r2, theirs) /\ r1 \in Seq(Rrs) /\ r2 \in Seq(Rrs)
  BY AuthoritiesFrom DEF From
<1>2. /\ AuthoritySetCmp(mine, theirs) = IF differ # {} THEN RrCmp(r1[Min(differ)], r2[Min(differ)])
                                          ELSE Order(Len(r1), Len(r2))
      /\ AuthoritySetCmp(theirs, mine) = IF converse # {} THEN RrCmp(r2[Min(converse)], r1[Min(converse)])
                                          ELSE Order(Len(r2), Len(r1))
  <2>1. {Len(r2), Len(r1)} = {Len(r1), Len(r2)}
    BY Zenon
  <2> QED  BY <2>1, Zenon DEF AuthoritySetCmp
<1> HIDE DEF r1, r2
<1>3. Len(r1) \in Nat /\ Len(r2) \in Nat /\ DOMAIN r1 = 1 .. Len(r1) /\ DOMAIN r2 = 1 .. Len(r2)
  BY <1>1
<1>4. m = IF Len(r1) <= Len(r2) THEN Len(r1) ELSE Len(r2)
  BY <1>3, MinOfTwo, Zenon
<1> HIDE DEF m
<1>5. ASSUME NEW i \in 1 .. m
      PROVE  RrCmp(r1[i], r2[i]) = -RrCmp(r2[i], r1[i]) /\ RrCmp(r1[i], r2[i]) \in Int
                /\ RrCmp(r2[i], r1[i]) \in Int
  <2>1. i \in DOMAIN r1 /\ i \in DOMAIN r2
    BY <1>3, <1>4
  <2>2. r1[i] \in Rrs /\ r2[i] \in Rrs
    BY <1>1, <2>1
  <2>3. r1[i].type # T_TXT
    BY <1>1, <2>1, Zenon DEF From
  <2> QED  BY <2>2, <2>3, RrFacts
<1>6. converse = differ
  <2>1. \A i \in 1 .. m : RrCmp(r1[i], r2[i]) # 0 <=> RrCmp(r2[i], r1[i]) # 0
    BY <1>5
  <2> QED  BY <2>1, Zenon
<1>7. CASE differ = {}
  <2>1. Order(Len(r2), Len(r1)) = -Order(Len(r1), Len(r2))
    BY <1>3, OrderFacts
  <2> QED  BY <1>2, <1>6, <1>7, <2>1, Zenon
<1>8. CASE differ # {}
  <2>1. differ \in SUBSET Nat
    BY <1>3, <1>4
  <2>2. PICK k \in 1 .. m : k = Min(differ)
    BY <1>8, <2>1, MinIsLeast, Zenon
  <2>3. /\ AuthoritySetCmp(mine, theirs) = RrCmp(r1[k], r2[k])
        /\ AuthoritySetCmp(theirs, mine) = RrCmp(r2[k], r1[k])
    BY <1>2, <1>6, <1>8, <2>2, Zenon
  <2> HIDE DEF differ, converse
  <2> QED  BY <1>5, <2>3
<1> QED  BY <1>7, <1>8

-----------------------------------------------------------------------------
(* The sections of the model's instances. *)

\* The sections that the model's responders send are sequences of resource records.
LEMMA SectionsAreRrs == Sections \subseteq Seq(Rrs)
<1>1. Records \subseteq Rrs
  <2>0. ASSUME NEW t \in Int, NEW d \in AnyRdata, d \in Rdata(t) PROVE Rr(t, d) \in Rrs
    BY <2>0 DEF Rr, Rrs
  <2>1. ASSUME NEW v \in Values PROVE Rr(T_A, v) \in Rrs
    <3>1. T_A \in Int /\ v \in AnyRdata /\ v \in Rdata(T_A)
      BY RdataAssumption DEF Rdata, AnyRdata, T_A, T_SRV, T_TXT
    <3> QED  BY <2>0, <3>1
  <2>2. ASSUME NEW t \in Txts PROVE Rr(T_TXT, t) \in Rrs
    <3>1. PICK n \in 0 .. MaxTxt : t \in [1 .. n -> Bytes]
      BY DEF Txts
    <3>2. t \in Seq(Int)
      <4>1. n \in Nat /\ Bytes \subseteq Int
        BY RdataAssumption
      <4>2. t \in [1 .. n -> Int]
        BY <3>1, <4>1, Zenon
      <4> QED  BY <4>1, <4>2
    <3>3. T_TXT \in Int /\ t \in AnyRdata /\ t \in Rdata(T_TXT)
      BY <3>2 DEF Rdata, AnyRdata, T_SRV, T_TXT
    <3> QED  BY <2>0, <3>3
  <2>3. ASSUME NEW d \in [fixed : Values, target : Values] PROVE Rr(T_SRV, d) \in Rrs
    <3>1. d \in [fixed : Int, target : Int]
      <4>1. Values \subseteq Int
        BY RdataAssumption
      <4>2. d.fixed \in Int /\ d.target \in Int /\ d = [fixed |-> d.fixed, target |-> d.target]
        BY <4>1, ZenonT(60)
      <4> QED  BY <4>2
    <3>2. T_SRV \in Int /\ d \in AnyRdata /\ d \in Rdata(T_SRV)
      BY <3>1 DEF Rdata, AnyRdata, T_SRV
    <3> QED  BY <2>0, <3>2
  <2> QED  BY <2>1, <2>2, <2>3, Zenon DEF Records
<1>2. ASSUME NEW s \in Sections PROVE s \in Seq(Rrs)
  <2>1. PICK n \in 0 .. 2 : s \in [1 .. n -> Records]
    BY DEF Sections
  <2> QED  BY <1>1, <2>1
<1> QED  BY <1>2

\* Two hosts that probe with different authorities never both keep the name: the
\* property of the runs, for any bytes, lengths and values.
THEOREM ContestsSettled == Spec => []SomeoneYields
<1>1. SomeoneYields
  BY SectionsAreRrs, SomeoneGivesWay, Zenon DEF SomeoneYields
<1> QED  BY <1>1, PTL

\* Without TXT records exactly one of them gives way.
THEOREM OneLoser == Spec => []OneYields
<1>1. OneYields
  BY SectionsAreRrs, OneGivesWay, Zenon DEF OneYields
<1> QED  BY <1>1, PTL

-----------------------------------------------------------------------------
(* The responder threads. *)

\* The packets under way come from port 5353.
Mailed == \E P : (\A m \in P : m.port = "mdns") /\ inbox \in [Hosts -> Seq(P)]

\* The names that a host has under way are names of its kinds, with a suffix.
NamesOK == \A h \in Hosts : \A k \in Kinds(h) : name[h][k] \in 1 .. MaxSuffix

States == {"off", "init"} \cup Probing \cup Claimed

\* Inductive: what each host has.
RInv ==
    /\ original \in Originals
    /\ st \in [Hosts -> States]
    /\ DOMAIN name = Hosts /\ NamesOK
    /\ DOMAIN pend = Hosts

\* What a step of the thread of h can do to the state of the threads and their names.
Moves(h) ==
    /\ st' \in [Hosts -> States] /\ DOMAIN name' = Hosts /\ original' = original
    /\ \A g \in Hosts \ {h} : st'[g] = st[g] /\ name'[g] = name[g]
    /\ st[h] \in Claimed => name'[h] = name[h]
    /\ st'[h] \in Claimed => name'[h] = name[h]
    /\ \A k \in Kinds(h) : name'[h][k] \in {name[h][k], name[h][k] + 1, original[h][k]}
    /\ \A k \in Kinds(h) : name'[h][k] = name[h][k] + 1 => name[h][k] < MaxSuffix

\* The names passed to mdns_launch are names of the kinds of each host.
LEMMA OriginalNames ==
    ASSUME original \in Originals, NEW h \in Hosts, NEW k \in Kinds(h)
    PROVE  original[h][k] \in 1 .. MaxSuffix
<1>1. original[h] \in Name /\ (original[h].svc = 0 <=> h \notin Offers)
  BY ResponderAssumption
<1>2. original[h].host \in 1 .. MaxSuffix /\ original[h].svc \in 0 .. MaxSuffix
  BY <1>1 DEF Name
<1>3. CASE k = "host"
  BY <1>2, <1>3
<1>4. CASE k = "svc" /\ h \in Offers
  BY <1>1, <1>2, <1>4, ResponderAssumption
<1> QED  BY <1>3, <1>4 DEF Kinds

\* Names stay names: dname_increment stops at the last suffix.
LEMMA MovesNames ==
    ASSUME RInv, NEW h \in Hosts, Moves(h)
    PROVE  NamesOK'
<1> SUFFICES ASSUME NEW g \in Hosts, NEW k \in Kinds(g) PROVE name'[g][k] \in 1 .. MaxSuffix
  BY DEF NamesOK, Kinds
<1>1. name[g][k] \in 1 .. MaxSuffix /\ original[g][k] \in 1 .. MaxSuffix
  BY OriginalNames DEF RInv, NamesOK
<1>2. CASE g # h
  BY <1>1, <1>2 DEF Moves
<1>3. CASE g = h
  <2>1. /\ name'[h][k] \in {name[h][k], name[h][k] + 1, original[h][k]}
        /\ name'[h][k] = name[h][k] + 1 => name[h][k] < MaxSuffix
    BY <1>3 DEF Moves
  <2>2. MaxSuffix \in Nat
    BY ResponderAssumption
  <2> QED  BY <1>1, <1>3, <2>1, <2>2
<1> QED  BY <1>2, <1>3

\* Every step is one of a thread, or leaves the threads alone.
LEMMA StepMoves ==
    ASSUME RInv, Next
    PROVE  (\E h \in Hosts : Moves(h)) \/ UNCHANGED <<st, name, original>>
<1>1. original' = original /\ Step
  BY DEF Next, Keeping
<1>2. ASSUME NEW h \in Hosts, NEW s \in States, st' = [st EXCEPT ![h] = s], name' = name PROVE Moves(h)
  <2>1. st' \in [Hosts -> States] /\ \A g \in Hosts \ {h} : st'[g] = st[g]
    BY <1>2 DEF RInv
  <2>2. \A k \in Kinds(h) : name'[h][k] = name[h][k] + 1 => name[h][k] < MaxSuffix
    BY <1>2, ResponderAssumption DEF RInv, NamesOK
  <2> QED  BY <1>1, <1>2, <2>1, <2>2, ZenonT(30) DEF Moves, RInv
<1>3. ASSUME NEW h \in Hosts, Timeout(h) PROVE Moves(h)
  <2>1. name' = name /\ \E s \in {"p1", "p2", "p3", "ready"} : st' = [st EXCEPT ![h] = s]
    BY <1>3, ZenonT(30) DEF Timeout, FirstProbe, SecondProbe, ThirdProbe, SendProbe, Claim, SendDelayed
  <2> QED  BY <1>2, <2>1, ZenonT(30) DEF States, Probing, Claimed
<1>4. ASSUME NEW h \in Hosts, RxInit(h) PROVE UNCHANGED <<st, name, original>>
  BY <1>1, <1>4 DEF RxInit
<1>5. ASSUME NEW h \in Hosts, RxReady(h) \/ RxSend(h) PROVE Moves(h)
  <2>1. name' = name /\ \E s \in {"ready", "send"} : st' = [st EXCEPT ![h] = s]
    BY <1>5 DEF RxReady, RxSend, Respond
  <2> QED  BY <1>2, <2>1, ZenonT(30) DEF States, Claimed
<1>6. ASSUME NEW h \in Hosts, RxProbing(h) PROVE Moves(h)
  <2>1. PICK C : /\ st' = [st EXCEPT ![h] = IF C # {} THEN "init" ELSE @]
                 /\ name' = [name EXCEPT ![h] = Rename(h, C)]
    BY <1>6, ZenonT(30) DEF RxProbing
  <2>2. st[h] \in Probing
    BY <1>6 DEF RxProbing
  <2>3. \A k \in Kinds(h) : Rename(h, C)[k] = IF k \notin C THEN name[h][k]
                               ELSE IF name[h][k] < MaxSuffix THEN name[h][k] + 1
                               ELSE original[h][k]
    BY DEF Rename, Kinds
  <2>4. name'[h] = Rename(h, C) /\ DOMAIN name' = Hosts /\ \A g \in Hosts \ {h} : name'[g] = name[g]
    BY <2>1 DEF RInv
  <2>5. st' \in [Hosts -> States] /\ st'[h] \in {"init", st[h]} /\ \A g \in Hosts \ {h} : st'[g] = st[g]
    BY <2>1 DEF RInv, States
  <2>6. st[h] \notin Claimed /\ st'[h] \notin Claimed
    BY <2>2, <2>5 DEF Probing, Claimed
  <2>7. \A k \in Kinds(h) : /\ name'[h][k] \in {name[h][k], name[h][k] + 1, original[h][k]}
                            /\ name'[h][k] = name[h][k] + 1 => name[h][k] < MaxSuffix
    <3> SUFFICES ASSUME NEW k \in Kinds(h)
                 PROVE  /\ name'[h][k] \in {name[h][k], name[h][k] + 1, original[h][k]}
                        /\ name'[h][k] = name[h][k] + 1 => name[h][k] < MaxSuffix
      OBVIOUS
    <3>1. name[h][k] \in 1 .. MaxSuffix /\ original[h][k] \in 1 .. MaxSuffix
      BY OriginalNames DEF RInv, NamesOK
    <3>2. MaxSuffix \in Nat
      BY ResponderAssumption
    <3> QED  BY <2>3, <2>4, <3>1, <3>2
  <2> QED  BY <1>1, <2>4, <2>5, <2>6, <2>7 DEF Moves
<1>7. ASSUME NEW h \in Hosts, Launch(h) PROVE Moves(h)
  <2>1. /\ st[h] = "off" /\ st' = [st EXCEPT ![h] = "init"]
        /\ name' = [name EXCEPT ![h] = original[h]]
    BY <1>7 DEF Launch
  <2>2. \A k \in Kinds(h) : name[h][k] \in 1 .. MaxSuffix /\ original[h][k] \in 1 .. MaxSuffix
    BY OriginalNames DEF RInv, NamesOK
  <2>3. name'[h] = original[h] /\ DOMAIN name' = Hosts /\ \A g \in Hosts \ {h} : name'[g] = name[g]
    BY <2>1 DEF RInv
  <2>4. st' \in [Hosts -> States] /\ st'[h] = "init" /\ \A g \in Hosts \ {h} : st'[g] = st[g]
    BY <2>1 DEF RInv, States
  <2>5. st[h] \notin Claimed /\ st'[h] \notin Claimed
    BY <2>1, <2>4 DEF Claimed
  <2>6. \A k \in Kinds(h) : name'[h][k] = name[h][k] + 1 => name[h][k] < MaxSuffix
    BY <2>2, <2>3, ResponderAssumption, SMTT(60)
  <2> QED  BY <1>1, <2>3, <2>4, <2>5, <2>6 DEF Moves
<1>8. ASSUME NEW h \in Hosts, NEW bye \in BOOLEAN, Halt(h, bye) PROVE Moves(h)
  BY <1>2, <1>8, ZenonT(30) DEF Halt, States
<1>9. ASSUME NEW h \in Hosts, Lose(h) PROVE UNCHANGED <<st, name, original>>
  BY <1>1, <1>9 DEF Lose
<1>10. ASSUME NEW q, NEW port, Ask(q, port) PROVE UNCHANGED <<st, name, original>>
  BY <1>1, <1>10 DEF Ask
<1>11. Tick => UNCHANGED <<st, name, original>>
  BY <1>1 DEF Tick
<1> QED
  BY <1>1, <1>3, <1>4, <1>5, <1>6, <1>7, <1>8, <1>9, <1>10, <1>11, ZenonT(30) DEF Step, Receive

\* A packet under way with others from port 5353 is one too.
LEMMA Posted ==
    ASSUME NEW P, \A m \in P : m.port = "mdns", NEW box \in [Hosts -> Seq(P)], NEW h,
           NEW m, m.port = "mdns"
    PROVE  \E Q : (\A x \in Q : x.port = "mdns") /\ Post(box, h, m) \in [Hosts -> Seq(Q)]
<1> DEFINE Q == P \cup {m}
<1>1. \A x \in Q : x.port = "mdns"
  OBVIOUS
<1>2. ASSUME NEW g \in Hosts PROVE Append(box[g], m) \in Seq(Q) /\ box[g] \in Seq(Q)
  BY SMT
<1>3. Post(box, h, m) \in [Hosts -> Seq(Q)]
  BY <1>2 DEF Post
<1> QED  BY <1>1, <1>3

\* The queue without its first packet.
LEMMA TakenMail ==
    ASSUME NEW P, inbox \in [Hosts -> Seq(P)], NEW h \in Hosts, inbox[h] # <<>>
    PROVE  Taken(h) \in [Hosts -> Seq(P)] /\ Head(inbox[h]) \in P
           /\ \A g \in Hosts \ {h} : Taken(h)[g] = inbox[g]
<1>1. inbox[h] \in Seq(P)
  OBVIOUS
<1>2. Tail(inbox[h]) \in Seq(P) /\ Head(inbox[h]) \in P
  BY <1>1
<1> QED  BY <1>2 DEF Taken

\* If clients ask from port 5353 only, so does everybody.
LEMMA StepMailed ==
    ASSUME ClientPorts \subseteq {"mdns"}, Mailed, Next
    PROVE  Mailed'
<1>1. Step
  BY DEF Next, Keeping
<1>2. PICK P : (\A m \in P : m.port = "mdns") /\ inbox \in [Hosts -> Seq(P)]
  BY DEF Mailed
<1>3. ASSUME NEW box \in [Hosts -> Seq(P)], NEW h, NEW m, m.port = "mdns", inbox' = Post(box, h, m)
      PROVE  Mailed'
  BY <1>2, <1>3, Posted, Zenon DEF Mailed
<1>4. ASSUME inbox' \in [Hosts -> Seq(P)] PROVE Mailed'
  BY <1>2, <1>4, Zenon DEF Mailed
<1>5. \A N : Response(N).port = "mdns"
  BY DEF Response
<1>6. \A h : Probe(h).port = "mdns"
  BY DEF Probe
<1>7. ASSUME NEW h \in Hosts, Timeout(h) PROVE Mailed'
  <2>1. \/ inbox' = Post(inbox, h, Probe(h)) \/ \E N : inbox' = Post(inbox, h, Response(N))
        \/ inbox' = inbox
    BY <1>7, Zenon DEF Timeout, FirstProbe, SecondProbe, ThirdProbe, SendProbe, Claim, SendDelayed, SendTo
  <2> QED  BY <1>2, <1>3, <1>4, <1>5, <1>6, <2>1
<1>8. ASSUME NEW h \in Hosts, inbox[h] # <<>>, inbox' = Taken(h) PROVE Mailed'
  BY <1>2, <1>4, <1>8, TakenMail
<1>9. ASSUME NEW h \in Hosts, NEW m, NEW box, Respond(h, m, box),
             NEW Q, \A x \in Q : x.port = "mdns", box \in [Hosts -> Seq(Q)]
      PROVE  Mailed'
  <2>1. inbox' = box \/ \E N : inbox' = Post(box, h, Response(N))
    BY <1>9, Zenon DEF Respond, SendTo
  <2>2. CASE inbox' = box
    BY <1>9, <2>2, ZenonT(30) DEF Mailed
  <2>3. ASSUME NEW N, inbox' = Post(box, h, Response(N)) PROVE Mailed'
    <3>1. Response(N).port = "mdns"
      BY <1>5
    <3>2. \E R : (\A x \in R : x.port = "mdns") /\ Post(box, h, Response(N)) \in [Hosts -> Seq(R)]
      BY <1>9, <3>1, Posted, ZenonT(60)
    <3> QED  BY <2>3, <3>2, ZenonT(30) DEF Mailed
  <2> QED  BY <2>1, <2>2, <2>3
<1>10. ASSUME NEW h \in Hosts, RxReady(h) PROVE Mailed'
  <2>1. Taken(h) \in [Hosts -> Seq(P)]
    BY <1>2, <1>10, TakenMail DEF RxReady
  <2>2. Respond(h, Head(inbox[h]), Taken(h))
    BY <1>10 DEF RxReady
  <2> QED  BY <1>2, <1>9, <2>1, <2>2, Zenon
<1>11. ASSUME NEW h \in Hosts, RxSend(h) PROVE Mailed'
  <2>1. Taken(h) \in [Hosts -> Seq(P)]
    BY <1>2, <1>11, TakenMail DEF RxSend
  <2>0. PICK m : m = Head(inbox[h])
    OBVIOUS
  <2>2. PICK box : /\ Respond(h, m, box)
                   /\ box = SendTo(Taken(h), h, Response(pend[h].rrs), m.port)
    BY <1>11, <2>0 DEF RxSend
  <2>3. box = Taken(h) \/ box = Post(Taken(h), h, Response(pend[h].rrs))
    BY <2>2, Zenon DEF SendTo
  <2>4. \E Q : (\A x \in Q : x.port = "mdns") /\ box \in [Hosts -> Seq(Q)]
    <3>1. CASE box = Taken(h)
      BY <1>2, <2>1, <3>1, ZenonT(30)
    <3>2. CASE box = Post(Taken(h), h, Response(pend[h].rrs))
      <4>1. Response(pend[h].rrs).port = "mdns"
        BY <1>5
      <4> QED  BY <1>2, <2>1, <3>2, <4>1, Posted, ZenonT(60)
    <3> QED  BY <2>3, <3>1, <3>2
  <2> QED  BY <1>9, <2>2, <2>4, Zenon
<1>12. ASSUME NEW h \in Hosts, RxInit(h) \/ RxProbing(h) \/ Lose(h) PROVE Mailed'
  BY <1>8, <1>12 DEF RxInit, RxProbing, Lose
<1>13. ASSUME NEW h \in Hosts, NEW bye \in BOOLEAN, Halt(h, bye) PROVE Mailed'
  <2>1. PICK box : /\ box = [inbox EXCEPT ![h] = <<>>]
                   /\ inbox' = box \/ inbox' = Post(box, h, Response(OwnNames(h)))
    BY <1>13, Zenon DEF Halt
  <2>2. <<>> \in Seq(P)
    OBVIOUS
  <2>3. box \in [Hosts -> Seq(P)]
    BY <1>2, <2>1, <2>2
  <2> QED  BY <1>3, <1>4, <1>5, <2>1, <2>3, ZenonT(30)
<1>14. ASSUME NEW q, NEW port \in ClientPorts, Ask(q, port) PROVE Mailed'
  <2>1. PICK m : m = Query(q, port)
    OBVIOUS
  <2>2. m.port = "mdns"
    BY <2>1 DEF Query
  <2>3. inbox' = [g \in Hosts |-> IF st[g] # "off" THEN Append(inbox[g], m) ELSE inbox[g]]
    BY <1>14, <2>1 DEF Ask
  <2> DEFINE Q == P \cup {m}
  <2>4. ASSUME NEW g \in Hosts PROVE Append(inbox[g], m) \in Seq(Q) /\ inbox[g] \in Seq(Q)
    BY <1>2, SMT
  <2>5. inbox' \in [Hosts -> Seq(Q)]
    BY <2>3, <2>4
  <2>6. \A x \in Q : x.port = "mdns"
    BY <1>2, <2>2
  <2> HIDE DEF Q
  <2> QED  BY <2>5, <2>6, Zenon DEF Mailed
<1>15. Tick \/ (\E h \in Hosts : Launch(h)) => Mailed'
  BY <1>2, <1>4 DEF Tick, Launch
<1> QED
  BY <1>1, <1>7, <1>10, <1>11, <1>12, <1>13, <1>14, <1>15, ZenonT(30) DEF Step, Receive

\* Every step keeps the invariant.
LEMMA StepRInv ==
    ASSUME RInv, [Next]_vars
    PROVE  RInv'
<1>1. CASE UNCHANGED vars
  BY <1>1, Zenon DEF vars, RInv, NamesOK, Kinds
<1>2. CASE Next
  <2>1. original' = original
    BY <1>2 DEF Next, Keeping
  <2>2. st' \in [Hosts -> States] /\ DOMAIN name' = Hosts /\ NamesOK'
    <3>1. CASE UNCHANGED <<st, name, original>>
      BY <3>1 DEF RInv, NamesOK, Kinds
    <3>2. ASSUME NEW h \in Hosts, Moves(h) PROVE st' \in [Hosts -> States] /\ DOMAIN name' = Hosts /\ NamesOK'
      BY <3>2, MovesNames DEF Moves
    <3> QED  BY <1>2, <3>1, <3>2, StepMoves
  <2>3. pend' = pend \/ \E h \in Hosts : \E x : pend' = [pend EXCEPT ![h] = x]
    BY <1>2, ZenonT(60) DEF Next, Keeping, Step, Timeout, Receive, FirstProbe, SecondProbe, ThirdProbe, SendProbe,
      Claim, SendDelayed, RxInit, RxProbing, RxReady, RxSend, Respond, Launch, Lose, Halt, Ask, Tick
  <2>4. DOMAIN pend' = Hosts
    BY <2>3 DEF RInv
  <2> QED  BY <2>1, <2>2, <2>4 DEF RInv
<1> QED  BY <1>1, <1>2

\* It holds at the start.
LEMMA InitRInv == Init => RInv
<1> SUFFICES ASSUME Init PROVE RInv
  OBVIOUS
<1>1. NamesOK
  BY OriginalNames DEF Init, NamesOK
<1>2. DOMAIN name = Hosts
  BY ResponderAssumption DEF Init
<1> QED  BY <1>1, <1>2 DEF Init, RInv, States

\* A response that waits for a client or a prober gets to the other responders, by the
\* timer or by the packet that flushes it, for any number of hosts, losses and halts, if
\* clients ask from port 5353 (READY_TO_SEND in do_responder).
THEOREM AnswersAlwaysDelivered ==
    ASSUME ClientPorts \subseteq {"mdns"}
    PROVE  Spec => AnswersDelivered
<1> DEFINE Delivered(h, g) ==
             st[h] = "send" /\ pend[h].port = "mdns" /\ st'[h] # "off" /\ pend'[h] # pend[h]
             /\ g # h /\ st[g] # "off"
             => \E i \in DOMAIN inbox'[g] : inbox'[g][i] = Response(pend[h].rrs)
<1>1. ASSUME RInv, Mailed, [Next]_vars, NEW h \in Hosts, NEW g \in Hosts PROVE Delivered(h, g)
  <2> SUFFICES ASSUME st[h] = "send", pend[h].port = "mdns", st'[h] # "off", pend'[h] # pend[h],
                      g # h, st[g] # "off"
               PROVE  \E i \in DOMAIN inbox'[g] : inbox'[g][i] = Response(pend[h].rrs)
    BY Zenon
  <2>1. PICK r : r = Response(pend[h].rrs)
    OBVIOUS
  <2>2. PICK P : (\A m \in P : m.port = "mdns") /\ inbox \in [Hosts -> Seq(P)]
    BY <1>1 DEF Mailed
  <2>3. Step
    BY <1>1 DEF vars, Next, Keeping
  <2>4. ASSUME NEW x \in Hosts, NEW y, pend' = [pend EXCEPT ![x] = y] PROVE x = h
    BY <1>1, <2>4 DEF RInv
  <2>5. ASSUME NEW q \in Seq(P) PROVE \E i \in DOMAIN Append(q, r) : Append(q, r)[i] = r
    <3>1. Len(q) + 1 \in DOMAIN Append(q, r) /\ Append(q, r)[Len(q) + 1] = r
      BY <2>5
    <3> QED  BY <3>1
  <2>6. ASSUME NEW q \in Seq(P), NEW m
        PROVE  \E i \in DOMAIN Append(Append(q, r), m) : Append(Append(q, r), m)[i] = r
    <3>1. Append(q, r) \in Seq(P \cup {r})
      BY <2>6
    <3>2. /\ Len(q) + 1 \in DOMAIN Append(Append(q, r), m)
          /\ Append(Append(q, r), m)[Len(q) + 1] = r
      BY <2>6, <3>1
    <3> QED  BY <3>2
  <2>7. ASSUME SendDelayed(h) PROVE \E i \in DOMAIN inbox'[g] : inbox'[g][i] = r
    <3>1. inbox'[g] = Append(inbox[g], r)
      BY <2>1, <2>7 DEF SendDelayed, SendTo, Post
    <3> QED  BY <2>2, <2>5, <3>1
  <2>8. ASSUME RxSend(h) PROVE \E i \in DOMAIN inbox'[g] : inbox'[g][i] = r
    <3>1. PICK m : m = Head(inbox[h])
      OBVIOUS
    <3>2. m.port = "mdns" /\ Taken(h)[g] = inbox[g]
      BY <2>2, <2>8, <3>1, TakenMail DEF RxSend
    <3>3. PICK box : Respond(h, m, box) /\ box = SendTo(Taken(h), h, r, m.port)
      BY <2>1, <2>8, <3>1 DEF RxSend
    <3>4. box[g] = Append(inbox[g], r)
      BY <3>2, <3>3 DEF SendTo, Post
    <3>5. inbox' = box \/ \E N : inbox' = Post(box, h, Response(N))
      BY <3>3, Zenon DEF Respond, SendTo
    <3>6. PICK q : q = inbox[g] /\ q \in Seq(P)
      BY <2>2
    <3>7. CASE inbox' = box
      <4>1. inbox'[g] = Append(q, r)
        BY <3>4, <3>6, <3>7, ZenonT(30)
      <4> QED  BY <2>5, <3>6, <4>1, ZenonT(30)
    <3>8. ASSUME NEW N, inbox' = Post(box, h, Response(N))
          PROVE  \E i \in DOMAIN inbox'[g] : inbox'[g][i] = r
      <4>1. inbox'[g] = Append(Append(q, r), Response(N))
        BY <3>4, <3>6, <3>8 DEF Post
      <4> QED  BY <2>6, <3>6, <4>1, ZenonT(30)
    <3> QED  BY <3>5, <3>7, <3>8, ZenonT(30)
  <2>9. \A x \in Hosts : ~(RxReady(x) /\ x = h)
    BY DEF RxReady
  <2>10. ASSUME NEW x \in Hosts, SendDelayed(x) \/ RxReady(x) \/ RxSend(x) PROVE x = h
    <3>1. \E y : pend' = [pend EXCEPT ![x] = y]
      BY <2>10, Zenon DEF SendDelayed, RxReady, RxSend, Respond
    <3> QED  BY <2>4, <3>1
  <2>11. ASSUME NEW x \in Hosts, NEW bye \in BOOLEAN, Halt(x, bye) PROVE FALSE
    <3>1. x = h
      BY <2>4, <2>11, Zenon DEF Halt
    <3> QED  BY <1>1, <2>11, <3>1 DEF Halt, RInv
  <2>12. pend' # pend
    OBVIOUS
  <2>13. \E x \in Hosts : SendDelayed(x) \/ RxReady(x) \/ RxSend(x) \/ \E bye \in BOOLEAN : Halt(x, bye)
    BY <2>3, <2>12, ZenonT(60) DEF Step, Timeout, Receive, FirstProbe, SecondProbe, ThirdProbe, SendProbe,
      Claim, RxInit, RxProbing, Launch, Lose, Ask, Tick
  <2> QED  BY <2>1, <2>7, <2>8, <2>9, <2>10, <2>11, <2>13, ZenonT(30)
<1>2. Init => Mailed
  <2> SUFFICES ASSUME Init PROVE Mailed
    OBVIOUS
  <2>1. inbox \in [Hosts -> Seq({})]
    BY DEF Init
  <2> QED  BY <2>1, Zenon DEF Mailed
<1>3. RInv /\ Mailed /\ [Next]_vars => (RInv /\ Mailed)'
  <2>1. UNCHANGED vars /\ Mailed => Mailed'
    BY Zenon DEF vars, Mailed
  <2> QED  BY <2>1, StepRInv, StepMailed
<1>4. RInv /\ Mailed /\ [Next]_vars => [\A h, g \in Hosts : Delivered(h, g)]_vars
  BY <1>1
<1> QED  BY <1>2, <1>3, <1>4, InitRInv, PTL DEF Spec, AnswersDelivered

-----------------------------------------------------------------------------
(* The claims. *)

\* What a host claims.
ClaimsOf(h) == IF st[h] \in Claimed THEN OwnNames(h) ELSE {}

\* A step of a host on a link without double claims takes names that are free, all at
\* once, or releases them, or leaves what is claimed as it is.
LEMMA StepClaims ==
    ASSUME RInv, RInv', UniqueNames', [Next]_vars
    PROVE  [Claims!Next]_([h \in Hosts |-> ClaimsOf(h)])
<1> DEFINE claims == [h \in Hosts |-> ClaimsOf(h)]
           next == [h \in Hosts |-> ClaimsOf(h)']
<1>1. ASSUME UNCHANGED <<st, name>> PROVE next = claims
  BY <1>1 DEF ClaimsOf, OwnNames, Kinds
<1>2. ASSUME NEW h \in Hosts, Moves(h)
      PROVE  next = claims \/ Claims!Next
  <2>1. \A g \in Hosts \ {h} : ClaimsOf(g)' = ClaimsOf(g)
    BY <1>2, ZenonT(30) DEF Moves, ClaimsOf, OwnNames, Kinds
  <2>2. name'[h] = name[h] => OwnNames(h)' = OwnNames(h)
    BY DEF OwnNames, Kinds
  <2>3. CASE st'[h] \notin Claimed
    <3>1. ClaimsOf(h)' = {}
      BY <2>3 DEF ClaimsOf
    <3>2. next = [claims EXCEPT ![h] = {}]
      BY <2>1, <3>1, ZenonT(30)
    <3>3. Claims!Release(h)
      BY <3>2, ZenonT(30) DEF Claims!Release, ClaimsOf
    <3> QED  BY <3>3 DEF Claims!Next
  <2>4. CASE st'[h] \in Claimed /\ st[h] \in Claimed
    <3>1. ClaimsOf(h)' = ClaimsOf(h)
      BY <1>2, <2>2, <2>4 DEF Moves, ClaimsOf
    <3> QED  BY <2>1, <3>1
  <2>5. CASE st'[h] \in Claimed /\ st[h] \notin Claimed
    <3>0. PICK N : N = OwnNames(h)
      OBVIOUS
    <3>1. ClaimsOf(h) = {} /\ ClaimsOf(h)' = N /\ OwnNames(h)' = N
      BY <1>2, <2>2, <2>5, <3>0 DEF Moves, ClaimsOf
    <3>2. N # {} /\ N \subseteq AllNames
      <4>1. "host" \in Kinds(h) /\ Kinds(h) \subseteq {"host", "svc"}
        BY DEF Kinds
      <4>2. \A k \in Kinds(h) : <<k, name[h][k]>> \in AllNames
        BY <4>1 DEF AllNames, RInv, NamesOK
      <4> QED  BY <3>0, <4>1, <4>2, ZenonT(30) DEF OwnNames
    <3>3. \A g \in Hosts \ {h} : N \cap ClaimsOf(g) = {}
      <4> SUFFICES ASSUME NEW g \in Hosts \ {h}, st[g] \in Claimed PROVE N \cap OwnNames(g) = {}
        BY DEF ClaimsOf
      <4>1. st'[g] \in Claimed /\ OwnNames(g)' = OwnNames(g)
        BY <1>2 DEF Moves, OwnNames, Kinds
      <4>2. OwnNames(h)' \cap OwnNames(g)' = {}
        BY <2>5, <4>1 DEF UniqueNames
      <4> QED  BY <3>1, <4>1, <4>2
    <3>4. next = [claims EXCEPT ![h] = N]
      BY <2>1, <3>1, ZenonT(30)
    <3>5. N \cap UNION {claims[g] : g \in Hosts \ {h}} = {}
      BY <3>3, ZenonT(30)
    <3>6. claims[h] = {}
      BY <3>1
    <3>7. \E M \in SUBSET AllNames :
            /\ claims[h] = {} /\ M # {}
            /\ M \cap UNION {claims[g] : g \in Hosts \ {h}} = {}
            /\ next = [claims EXCEPT ![h] = M]
      BY <3>2, <3>4, <3>5, <3>6, ZenonT(30)
    <3> QED  BY <3>7, ZenonT(30) DEF Claims!Next, Claims!Claim, Claims!Taken, ClaimsOf
  <2> QED  BY <2>3, <2>4, <2>5
<1>3. (\E h \in Hosts : Moves(h)) \/ UNCHANGED <<st, name>>
  BY StepMoves DEF vars
<1> QED  BY <1>1, <1>2, <1>3

\* The responders keep what they promise each other (include/mdns.h, mdns_launch) as long
\* as no two of them claim one name: claims are made all at once and kept unchanged until
\* the goodbye, and a double claim is the only way to break NameClaims.
THEOREM ClaimsUnlessDouble == Spec /\ []UniqueNames => ImplementsNameClaims
<1>1. Init => Claims!Init
  BY DEF Init, Claims!Init, Claimed
<1>2. RInv /\ RInv' /\ UniqueNames' /\ [Next]_vars => [Claims!Next]_([h \in Hosts |-> ClaimsOf(h)])
  BY StepClaims
<1>3. RInv /\ [Next]_vars => RInv'
  BY StepRInv
<1> QED  BY <1>1, <1>2, <1>3, InitRInv, PTL DEF Spec, ImplementsNameClaims, Claims!Spec, ClaimsOf

-----------------------------------------------------------------------------
(* Double claims.                                                            *)
(*                                                                           *)
(* Once its third probe is out, a host hears of every claim of its names     *)
(* before its 250 ms are over, as long as nothing is lost: the claim is in   *)
(* an announcement or answer on its way, or its probe is on its way to the   *)
(* claimer, or the claimer's answer waits for less time than the prober.     *)

\* Among the packets of q there is one of type t with the name x.
Carries(q, t, x) == \E i \in DOMAIN q : q[i].t = t /\ x \in q[i].rrs

\* The prober h has not waited yet, and its probe for x is on its way to g.
Asked(g, h, x) == wait[h] = ProbeTicks /\ Carries(inbox[g], "probe", x)

\* The answer of g with x will be sent before the wait of h ends.
Owed(g, h, x) ==
    st[g] = "send" /\ pend[g].port = "mdns" /\ x \in pend[g].rrs /\ wait[g] < wait[h]

Heard(g, h, x) == Carries(inbox[h], "response", x) \/ Asked(g, h, x) \/ Owed(g, h, x)

Defended ==
    \A g, h \in Hosts : g # h /\ st[g] \in Claimed /\ st[h] = "p3"
                        => \A x \in OwnNames(g) \cap OwnNames(h) : Heard(g, h, x)

\* What is left of a prober's wait and the time since its select began make at most
\* 250 ms, so recalc_timeout never shortens a wait.
Clocks ==
    /\ wait \in [Hosts -> Nat] /\ since \in [Hosts -> Nat]
    /\ \A h \in Hosts : st[h] \in Probing => wait[h] + since[h] <= ProbeTicks

DInv == RInv /\ Mailed /\ Clocks /\ Defended

\* A queue with one packet more.
LEMMA CarriesAppend ==
    ASSUME NEW P, NEW q \in Seq(P), NEW m, NEW t, NEW x,
           Carries(q, t, x) \/ (m.t = t /\ x \in m.rrs)
    PROVE  Carries(Append(q, m), t, x)
<1>1. /\ \A i \in DOMAIN q : i \in DOMAIN Append(q, m) /\ Append(q, m)[i] = q[i]
      /\ Len(q) + 1 \in DOMAIN Append(q, m) /\ Append(q, m)[Len(q) + 1] = m
  OBVIOUS
<1>2. CASE Carries(q, t, x)
  <2>1. PICK i \in DOMAIN q : q[i].t = t /\ x \in q[i].rrs
    BY <1>2, Zenon DEF Carries
  <2>2. i \in DOMAIN Append(q, m) /\ Append(q, m)[i] = q[i]
    BY <1>1, <2>1, Zenon
  <2> QED  BY <2>1, <2>2, Zenon DEF Carries
<1>3. CASE m.t = t /\ x \in m.rrs
  BY <1>1, <1>3, Zenon DEF Carries
<1> QED  BY <1>2, <1>3

\* A queue with one packet less.
LEMMA CarriesTail ==
    ASSUME NEW P, NEW q \in Seq(P), q # <<>>, NEW t, NEW x, Carries(q, t, x),
           ~(Head(q).t = t /\ x \in Head(q).rrs)
    PROVE  Carries(Tail(q), t, x)
<1>1. PICK i \in DOMAIN q : q[i].t = t /\ x \in q[i].rrs
  BY Zenon DEF Carries
<1>2. Head(q) = q[1]
  OBVIOUS
<1>3. i # 1
  BY <1>1, <1>2, Zenon
<1>4. i - 1 \in DOMAIN Tail(q) /\ Tail(q)[i - 1] = q[i]
  BY <1>3
<1>5. PICK j : j = i - 1
  OBVIOUS
<1>6. j \in DOMAIN Tail(q) /\ Tail(q)[j] = q[i]
  BY <1>4, <1>5, Zenon
<1> QED  BY <1>1, <1>6, Zenon DEF Carries

\* What Post does to the queue of g: the packet m of h is in it if g runs, and
\* displaces nothing.
Arrived(box, h, m, g) ==
    /\ \A t, x : Carries(box[g], t, x) => Carries(Post(box, h, m)[g], t, x)
    /\ g # h /\ st[g] # "off" => \A x \in m.rrs : Carries(Post(box, h, m)[g], m.t, x)
    /\ g = h => Post(box, h, m)[g] = box[g]

\* It does.
LEMMA PostCarries ==
    ASSUME NEW P, NEW box \in [Hosts -> Seq(P)], NEW h, NEW m, NEW g \in Hosts
    PROVE  Arrived(box, h, m, g)
<1>1. Post(box, h, m)[g] = IF g # h /\ st[g] # "off" THEN Append(box[g], m) ELSE box[g]
  BY Zenon DEF Post
<1>2. box[g] \in Seq(P)
  OBVIOUS
<1>3. ASSUME g # h, st[g] # "off"
      PROVE  /\ \A t, x : Carries(box[g], t, x) => Carries(Post(box, h, m)[g], t, x)
             /\ \A x \in m.rrs : Carries(Post(box, h, m)[g], m.t, x)
  <2>1. Post(box, h, m)[g] = Append(box[g], m)
    BY <1>1, <1>3, Zenon
  <2> QED  BY <1>2, <2>1, CarriesAppend, Zenon
<1> QED  BY <1>1, <1>3, Zenon DEF Arrived

\* Every step keeps the timers in order.
LEMMA StepClocks ==
    ASSUME RInv, Clocks, Next
    PROVE  Clocks'
<1>1. Step
  BY DEF Next, Keeping
<1>2. {ProbeTicks, DelayTicks, BackoffTicks} \subseteq Nat
  BY ResponderAssumption
<1>3. ASSUME NEW h \in Hosts, NEW w \in Nat, NEW s, NEW n \in Nat,
             st' = [st EXCEPT ![h] = s], wait' = [wait EXCEPT ![h] = w],
             since' = [since EXCEPT ![h] = n], s \in Probing => w + n <= ProbeTicks
      PROVE  Clocks'
  BY <1>3 DEF Clocks, RInv
<1>4. ASSUME NEW h \in Hosts PROVE Recalc(h) \in Nat /\ Recalc(h) + 0 <= ProbeTicks
  BY <1>2 DEF Recalc, Clocks
<1>5. ASSUME NEW h \in Hosts, NEW s, SendProbe(h, s) PROVE Clocks'
  <2>1. ProbeTicks \in Nat /\ ProbeTicks + 0 <= ProbeTicks /\ 0 \in Nat
    BY <1>2
  <2> QED  BY <1>3, <1>5, <2>1, ZenonT(30) DEF SendProbe
<1>6. ASSUME NEW h \in Hosts, Timeout(h) PROVE Clocks'
  <2>1. CASE \E s : SendProbe(h, s)
    BY <1>5, <2>1
  <2>2. CASE Claim(h) \/ SendDelayed(h)
    <3>1. st' = [st EXCEPT ![h] = "ready"] /\ since' = [since EXCEPT ![h] = 0] /\ wait' = wait
      BY <2>2, Zenon DEF Claim, SendDelayed
    <3> QED  BY <3>1 DEF Clocks, RInv, Probing
  <2> QED  BY <1>6, <2>1, <2>2, Zenon DEF Timeout, FirstProbe, SecondProbe, ThirdProbe
<1>7. ASSUME NEW h \in Hosts, RxInit(h) PROVE Clocks'
  <2>1. PICK w : w = Recalc(h)
    OBVIOUS
  <2>2. w \in Nat
    BY <1>4, <2>1
  <2>3. st[h] = "init" /\ st' = st /\ wait' = [wait EXCEPT ![h] = w] /\ since' = [since EXCEPT ![h] = 0]
    BY <1>7, <2>1 DEF RxInit
  <2> QED  BY <2>2, <2>3 DEF Clocks, RInv, Probing
<1>8. ASSUME NEW h \in Hosts, RxProbing(h) PROVE Clocks'
  <2>1. PICK C : /\ st' = [st EXCEPT ![h] = IF C # {} THEN "init" ELSE @]
                 /\ wait' = [wait EXCEPT ![h] = IF Exhausted(h, C) THEN BackoffTicks
                                                ELSE IF C # {} THEN 0 ELSE Recalc(h)]
                 /\ since' = [since EXCEPT ![h] = 0]
    BY <1>8, ZenonT(30) DEF RxProbing
  <2>2. PICK w, s : /\ w = IF Exhausted(h, C) THEN BackoffTicks ELSE IF C # {} THEN 0 ELSE Recalc(h)
                    /\ s = IF C # {} THEN "init" ELSE st[h]
    OBVIOUS
  <2>3. Exhausted(h, C) => C # {}
    BY Zenon DEF Exhausted
  <2>4. "init" \notin Probing
    BY DEF Probing
  <2>5. w \in Nat /\ (s \in Probing => w + 0 <= ProbeTicks)
    <3>1. CASE C = {}
      BY <1>4, <2>2, <2>3, <3>1, ZenonT(30)
    <3>2. CASE C # {}
      <4>1. w \in Nat
        BY <1>2, <2>2, <3>2
      <4> QED  BY <2>2, <2>4, <3>2, <4>1
    <3> QED  BY <3>1, <3>2
  <2>6. st' = [st EXCEPT ![h] = s] /\ wait' = [wait EXCEPT ![h] = w]
    BY <2>1, <2>2, ZenonT(30)
  <2>7. 0 \in Nat
    OBVIOUS
  <2> QED  BY <1>3, <2>1, <2>5, <2>6, <2>7, ZenonT(30)
<1>9. ASSUME NEW h \in Hosts, RxReady(h) \/ RxSend(h) PROVE Clocks'
  <2>1. /\ \E s \in {"ready", "send"} : st' = [st EXCEPT ![h] = s]
        /\ \E w \in 0 .. DelayTicks : wait' = [wait EXCEPT ![h] = w]
        /\ since' = [since EXCEPT ![h] = 0]
    <3>1. 0 \in 0 .. DelayTicks
      BY <1>2
    <3> QED  BY <1>9, <3>1, ZenonT(30) DEF RxReady, RxSend, Respond
  <2> QED  BY <1>2, <2>1 DEF Clocks, RInv, Probing
<1>10. ASSUME NEW h \in Hosts, Launch(h) PROVE Clocks'
  <2>1. PICK d \in 0 .. ProbeTicks : wait' = [wait EXCEPT ![h] = d]
    BY <1>10, Zenon DEF Launch
  <2>2. d \in Nat /\ 0 \in Nat /\ ("init" \in Probing => d + 0 <= ProbeTicks)
    BY <1>2 DEF Probing
  <2> QED  BY <1>3, <1>10, <2>1, <2>2, ZenonT(30) DEF Launch
<1>11. ASSUME NEW h \in Hosts, NEW bye \in BOOLEAN, Halt(h, bye) PROVE Clocks'
  <2>1. 0 \in Nat /\ ("off" \in Probing => 0 + 0 <= ProbeTicks)
    BY DEF Probing
  <2> QED  BY <1>3, <1>11, <2>1, ZenonT(30) DEF Halt
<1>12. ASSUME UNCHANGED <<st, wait, since>> PROVE Clocks'
  BY <1>12, Zenon DEF Clocks
<1>13. ASSUME Tick PROVE Clocks'
  <2>1. \A h \in Hosts : Timed(h) => wait[h] > 0
    BY <1>13, Zenon DEF Tick
  <2>2. /\ wait' = [h \in Hosts |-> IF Timed(h) THEN wait[h] - 1 ELSE wait[h]]
        /\ since' = [h \in Hosts |-> IF Timed(h) /\ since[h] < ProbeTicks THEN since[h] + 1
                                     ELSE since[h]]
        /\ st' = st
    BY <1>13, Zenon DEF Tick
  <2>3. \A h \in Hosts : st[h] \in Probing => Timed(h)
    BY DEF Timed, Probing
  <2>4. wait' \in [Hosts -> Nat] /\ since' \in [Hosts -> Nat]
    BY <2>1, <2>2, SMTT(60) DEF Clocks
  <2>5. ASSUME NEW h \in Hosts, st[h] \in Probing PROVE wait'[h] + since'[h] <= ProbeTicks
    <3>1. /\ wait[h] \in Nat /\ since[h] \in Nat /\ wait[h] > 0
          /\ wait[h] + since[h] <= ProbeTicks
      BY <2>1, <2>3, <2>5 DEF Clocks
    <3>2. since[h] < ProbeTicks
      BY <1>2, <3>1
    <3>3. wait'[h] = wait[h] - 1 /\ since'[h] = since[h] + 1
      BY <2>2, <2>3, <2>5, <3>2, Zenon
    <3> QED  BY <1>2, <3>1, <3>3
  <2> QED  BY <2>2, <2>4, <2>5, Zenon DEF Clocks
<1> QED
  BY <1>1, <1>6, <1>7, <1>8, <1>9, <1>10, <1>11, <1>12, <1>13, ZenonT(30)
  DEF Step, Receive, Lose, Ask

\* What a step leaves to a host that it is not a step of: it gets packets at most.
Bystander(g) ==
    /\ st'[g] = st[g] /\ name'[g] = name[g] /\ wait'[g] = wait[g] /\ pend'[g] = pend[g]
    /\ \A t, x : Carries(inbox[g], t, x) => Carries(inbox'[g], t, x)

\* Between bystanders nothing changes.
LEMMA HeardKept ==
    ASSUME NEW g \in Hosts, NEW h \in Hosts, NEW x, Bystander(g), Bystander(h), Heard(g, h, x)
    PROVE  Heard(g, h, x)'
<1>1. CASE Carries(inbox[h], "response", x)
  BY <1>1, Zenon DEF Bystander, Heard
<1>2. CASE Asked(g, h, x)
  BY <1>2, Zenon DEF Bystander, Heard, Asked
<1>3. CASE Owed(g, h, x)
  BY <1>3, Zenon DEF Bystander, Heard, Owed
<1> QED  BY <1>1, <1>2, <1>3, Zenon DEF Heard

\* A host whose name stays has the same names.
LEMMA SameNames ==
    ASSUME NEW h, name'[h] = name[h]
    PROVE  OwnNames(h)' = OwnNames(h)
BY Zenon DEF OwnNames, Kinds

\* What a host does when it takes a packet out of its queue and answers, with the waiting
\* response sent first if flush holds: the others get packets at most, and hear of
\* the names in the answer to a probe or a waiting answer will say so.
Answering(h, m, flush) ==
    /\ inbox[h] # <<>> /\ m = Head(inbox[h])
    /\ st'[h] \in Claimed /\ inbox'[h] = Tail(inbox[h])
    /\ \A g \in Hosts \ {h} : Bystander(g)
    /\ m.t = "probe" => \A x \in m.rrs \cap OwnNames(h) :
          \/ /\ st'[h] = "send" /\ wait'[h] <= DelayTicks
             /\ pend'[h].port = "mdns" /\ x \in pend'[h].rrs
          \/ \A g \in Hosts \ {h} : st[g] # "off" => Carries(inbox'[g], "response", x)
    /\ flush => \A g \in Hosts \ {h} : st[g] # "off" =>
                  \A x \in pend[h].rrs : Carries(inbox'[g], "response", x)

\* A response of h with the names N, as the others see it.
Shown(box, new, h, N, g) ==
    /\ \A t, x : Carries(box[g], t, x) => Carries(new[g], t, x)
    /\ st[g] # "off" => \A x \in N : Carries(new[g], "response", x)
    /\ new[h] = box[h]

\* Post sends it.
LEMMA SentResponse ==
    ASSUME NEW P, NEW box \in [Hosts -> Seq(P)], NEW h \in Hosts, NEW N, NEW g \in Hosts \ {h}
    PROVE  Shown(box, Post(box, h, Response(N)), h, N, g)
<1>1. PICK m : m = Response(N)
  OBVIOUS
<1>2. m.t = "response" /\ m.rrs = N
  BY <1>1 DEF Response
<1>3. PICK new : new = Post(box, h, m)
  OBVIOUS
<1>4. Arrived(box, h, m, g) /\ Arrived(box, h, m, h)
  BY PostCarries, ZenonT(30)
<1>5. new[h] = box[h]
  BY <1>3, <1>4, Zenon DEF Arrived
<1>6. /\ \A t, x : Carries(box[g], t, x) => Carries(new[g], t, x)
      /\ st[g] # "off" => \A x \in N : Carries(new[g], "response", x)
  BY <1>2, <1>3, <1>4, Zenon DEF Arrived
<1> QED  BY <1>1, <1>3, <1>5, <1>6, Zenon DEF Shown

\* Respond does that, with what is on its way in box.
LEMMA Responding ==
    ASSUME RInv, Clocks, NEW P, NEW box \in [Hosts -> Seq(P)], NEW h \in Hosts, NEW m,
           inbox[h] # <<>>, m = Head(inbox[h]), m.port = "mdns",
           Respond(h, m, box), name' = name, box[h] = Tail(inbox[h]),
           \A g \in Hosts \ {h} : \A t, x : Carries(inbox[g], t, x) => Carries(box[g], t, x),
           NEW flush,
           flush => \A g \in Hosts \ {h} : st[g] # "off" =>
                      \A x \in pend[h].rrs : Carries(box[g], "response", x)
    PROVE  Answering(h, m, flush)
<1>1. PICK N : N = Answers(h, m)
  OBVIOUS
<1>2. m.t = "probe" => N = m.rrs \cap OwnNames(h)
  BY <1>1 DEF Answers
<1>3. \/ inbox' = box
      \/ inbox' = Post(box, h, Response(N))
  BY <1>1, ZenonT(30) DEF Respond, SendTo
<1>4. /\ inbox'[h] = box[h]
      /\ \A g \in Hosts \ {h} : \A t, x : Carries(box[g], t, x) => Carries(inbox'[g], t, x)
  <2>1. CASE inbox' = box
    BY <2>1, Zenon
  <2>2. CASE inbox' = Post(box, h, Response(N))
    <3>1. Arrived(box, h, Response(N), h)
      BY PostCarries, ZenonT(30)
    <3>2. ASSUME NEW g \in Hosts \ {h} PROVE Arrived(box, h, Response(N), g)
      BY PostCarries, ZenonT(30)
    <3> QED  BY <2>2, <3>1, <3>2, ZenonT(30) DEF Arrived
  <2> QED  BY <1>3, <2>1, <2>2
<1>5. ASSUME NEW g \in Hosts \ {h} PROVE Bystander(g)
  <2>1. /\ \E s : st' = [st EXCEPT ![h] = s]
        /\ \E w : wait' = [wait EXCEPT ![h] = w]
        /\ \E p : pend' = [pend EXCEPT ![h] = p]
    BY ZenonT(30) DEF Respond
  <2>2. st'[g] = st[g] /\ wait'[g] = wait[g] /\ pend'[g] = pend[g]
    BY <2>1 DEF RInv, Clocks
  <2>3. \A t, x : Carries(inbox[g], t, x) => Carries(inbox'[g], t, x)
    BY <1>4, ZenonT(30)
  <2> QED  BY <2>2, <2>3, Zenon DEF Bystander
<1>6. st'[h] \in Claimed
  BY ZenonT(60) DEF Respond, RInv, Claimed
<1>7. ASSUME NEW x \in N
      PROVE  \/ /\ st'[h] = "send" /\ wait'[h] <= DelayTicks
                /\ pend'[h].port = "mdns" /\ x \in pend'[h].rrs
             \/ \A g \in Hosts \ {h} : st[g] # "off" => Carries(inbox'[g], "response", x)
  <2>1. CASE Delayed(N)
    <3>1. PICK d \in 0 .. DelayTicks :
             /\ st' = [st EXCEPT ![h] = "send"] /\ wait' = [wait EXCEPT ![h] = d]
             /\ pend' = [pend EXCEPT ![h] = [rrs |-> N, port |-> m.port]]
      BY <1>1, <2>1, ZenonT(30) DEF Respond
    <3>2. st'[h] = "send" /\ wait'[h] = d /\ pend'[h] = [rrs |-> N, port |-> "mdns"]
      BY <3>1, ZenonT(60) DEF RInv, Clocks
    <3>3. pend'[h].port = "mdns" /\ pend'[h].rrs = N
      BY <3>2
    <3>4. d <= DelayTicks
      BY ResponderAssumption
    <3> QED  BY <1>7, <3>2, <3>3, <3>4, ZenonT(30)
  <2>2. CASE ~Delayed(N)
    <3>1. inbox' = Post(box, h, Response(N))
      <4>1. N # {}
        BY <1>7
      <4> QED  BY <1>1, <2>2, <4>1, ZenonT(30) DEF Respond, SendTo
    <3>2. ASSUME NEW g \in Hosts \ {h} PROVE Shown(box, inbox', h, N, g)
      BY <3>1, SentResponse, ZenonT(30)
    <3> QED  BY <1>7, <3>2, ZenonT(30) DEF Shown
  <2> QED  BY <2>1, <2>2
<1>8. m.t = "probe" => \A x \in m.rrs \cap OwnNames(h) :
          \/ /\ st'[h] = "send" /\ wait'[h] <= DelayTicks
             /\ pend'[h].port = "mdns" /\ x \in pend'[h].rrs
          \/ \A g \in Hosts \ {h} : st[g] # "off" => Carries(inbox'[g], "response", x)
  BY <1>2, <1>7, ZenonT(30)
<1>9. flush => \A g \in Hosts \ {h} : st[g] # "off" =>
                  \A x \in pend[h].rrs : Carries(inbox'[g], "response", x)
  BY <1>4, ZenonT(30)
<1> QED  BY <1>4, <1>5, <1>6, <1>8, <1>9, ZenonT(30) DEF Answering

\* The pairs of hosts to look at after a step of a: those of a with another.
LEMMA StepPairs ==
    ASSUME DInv, NEW a \in Hosts, \A g \in Hosts \ {a} : Bystander(g),
           \A h \in Hosts \ {a} : st'[a] \in Claimed /\ st[h] = "p3"
              => \A x \in OwnNames(a)' \cap OwnNames(h) : Heard(a, h, x)',
           \A g \in Hosts \ {a} : st[g] \in Claimed /\ st'[a] = "p3"
              => \A x \in OwnNames(g) \cap OwnNames(a)' : Heard(g, a, x)'
    PROVE  Defended'
<1> SUFFICES ASSUME NEW g \in Hosts, NEW h \in Hosts, g # h, st'[g] \in Claimed, st'[h] = "p3",
                    NEW x \in OwnNames(g)' \cap OwnNames(h)'
             PROVE  Heard(g, h, x)'
  BY Zenon DEF Defended
<1>1. \A y \in Hosts \ {a} : st'[y] = st[y] /\ OwnNames(y)' = OwnNames(y)
  BY SameNames, Zenon DEF Bystander
<1>2. CASE g = a
  BY <1>1, <1>2, ZenonT(30)
<1>3. CASE h = a
  BY <1>1, <1>3, ZenonT(30)
<1>4. CASE g # a /\ h # a
  <2>1. Bystander(g) /\ Bystander(h)
    BY <1>4, Zenon
  <2>2. /\ st[g] \in Claimed /\ st[h] = "p3"
        /\ OwnNames(g)' = OwnNames(g) /\ OwnNames(h)' = OwnNames(h)
    BY <1>1, <1>4
  <2>3. x \in OwnNames(g) \cap OwnNames(h)
    BY <2>2
  <2>4. Heard(g, h, x)
    BY <2>2, <2>3, ZenonT(30) DEF DInv, Defended
  <2> QED  BY <2>1, <2>4, HeardKept, Zenon
<1> QED  BY <1>2, <1>3, <1>4

\* A host that owns its names answers what it takes from its queue.
LEMMA RxAnswering ==
    ASSUME DInv, NEW h \in Hosts, RxReady(h) \/ RxSend(h)
    PROVE  \E m : Answering(h, m, st[h] = "send")
<1>1. PICK P : (\A m \in P : m.port = "mdns") /\ inbox \in [Hosts -> Seq(P)]
  BY DEF DInv, Mailed
<1>2. RInv /\ Clocks
  BY DEF DInv
<1>3. inbox[h] # <<>> /\ name' = name
  BY DEF RxReady, RxSend
<1>4. PICK m : m = Head(inbox[h])
  OBVIOUS
<1>5. m.port = "mdns"
  BY <1>1, <1>3, <1>4, TakenMail
<1>6. /\ Taken(h) \in [Hosts -> Seq(P)] /\ Taken(h)[h] = Tail(inbox[h])
      /\ \A g \in Hosts \ {h} : Taken(h)[g] = inbox[g]
  BY <1>1, <1>3, TakenMail DEF Taken
<1>7. CASE RxReady(h)
  <2>1. PICK box : box = Taken(h)
    OBVIOUS
  <2>2. /\ box \in [Hosts -> Seq(P)] /\ box[h] = Tail(inbox[h])
        /\ \A g \in Hosts \ {h} : \A t, x : Carries(inbox[g], t, x) => Carries(box[g], t, x)
    BY <1>6, <2>1, Zenon
  <2>3. Respond(h, m, box) /\ st[h] # "send"
    BY <1>4, <1>7, <2>1 DEF RxReady
  <2>4. Answering(h, m, st[h] = "send")
    BY <1>2, <1>3, <1>4, <1>5, <2>2, <2>3, Responding, ZenonT(30)
  <2> QED  BY <2>4
<1>8. CASE RxSend(h)
  <2>1. PICK old, N : old = Taken(h) /\ N = pend[h].rrs
    OBVIOUS
  <2>2. PICK box : box = Post(old, h, Response(N))
    OBVIOUS
  <2>3. Respond(h, m, box)
    BY <1>4, <1>5, <1>8, <2>1, <2>2, ZenonT(30) DEF RxSend, SendTo
  <2>4. old \in [Hosts -> Seq(P)]
    BY <1>6, <2>1
  <2>5. ASSUME NEW g \in Hosts \ {h} PROVE Shown(old, box, h, N, g)
    BY <2>2, <2>4, SentResponse, ZenonT(30)
  <2>6. Arrived(old, h, Response(N), h)
    BY <2>4, PostCarries, ZenonT(30)
  <2>7. box[h] = Tail(inbox[h])
    BY <1>6, <2>1, <2>2, <2>6, Zenon DEF Arrived
  <2>8. /\ \A g \in Hosts \ {h} : \A t, x : Carries(inbox[g], t, x) => Carries(box[g], t, x)
        /\ \A g \in Hosts \ {h} : st[g] # "off" => \A x \in pend[h].rrs : Carries(box[g], "response", x)
    BY <1>6, <2>1, <2>5, ZenonT(30) DEF Shown
  <2>9. \E Q : box \in [Hosts -> Seq(Q)]
    <3>1. Response(N).port = "mdns"
      BY DEF Response
    <3> QED  BY <1>1, <2>2, <2>4, <3>1, Posted, ZenonT(60)
  <2>10. PICK Q : box \in [Hosts -> Seq(Q)]
    BY <2>9
  <2>11. Answering(h, m, st[h] = "send")
    BY <1>2, <1>3, <1>4, <1>5, <2>3, <2>7, <2>8, <2>10, Responding, ZenonT(30)
  <2> QED  BY <2>11
<1> QED  BY <1>7, <1>8

\* The answers of a host that owns its names keep the others informed.
LEMMA AnswersDefend ==
    ASSUME DInv, NEW a \in Hosts, st[a] \in Claimed, NEW m, Answering(a, m, st[a] = "send"),
           name' = name, Clocks'
    PROVE  Defended'
<1>1. PICK P : inbox \in [Hosts -> Seq(P)]
  BY DEF DInv, Mailed
<1>2. \A g \in Hosts \ {a} : Bystander(g)
  BY Zenon DEF Answering
<1>3. st'[a] # "p3" /\ inbox[a] # <<>> /\ m = Head(inbox[a]) /\ inbox'[a] = Tail(inbox[a])
  BY DEF Answering, Claimed
<1>4. ASSUME NEW h \in Hosts \ {a}, st'[a] \in Claimed, st[h] = "p3",
             NEW x \in OwnNames(a)' \cap OwnNames(h)
      PROVE  Heard(a, h, x)'
  <2>1. x \in OwnNames(a) /\ Heard(a, h, x)
    BY <1>4, SameNames, ZenonT(30) DEF DInv, Defended
  <2>2. Bystander(h) /\ st[h] # "off"
    BY <1>2, <1>4
  <2>3. CASE Carries(inbox[h], "response", x)
    BY <2>2, <2>3, Zenon DEF Bystander, Heard
  <2>4. CASE Owed(a, h, x)
    <3>1. Carries(inbox'[h], "response", x)
      BY <1>4, <2>2, <2>4, Zenon DEF Owed, Answering
    <3> QED  BY <3>1, Zenon DEF Heard
  <2>5. CASE Asked(a, h, x)
    <3>1. wait'[h] = ProbeTicks /\ Carries(inbox[a], "probe", x)
      BY <2>2, <2>5, Zenon DEF Asked, Bystander
    <3>2. CASE m.t = "probe" /\ x \in m.rrs
      <4>1. CASE Carries(inbox'[h], "response", x)
        BY <4>1, Zenon DEF Heard
      <4>2. CASE ~Carries(inbox'[h], "response", x)
        <5>1. /\ st'[a] = "send" /\ wait'[a] <= DelayTicks
              /\ pend'[a].port = "mdns" /\ x \in pend'[a].rrs
          BY <1>4, <2>1, <2>2, <3>2, <4>2, ZenonT(30) DEF Answering
        <5>2. wait'[a] \in Nat
          BY DEF Clocks
        <5>3. wait'[a] < wait'[h]
          BY <3>1, <5>1, <5>2, ResponderAssumption
        <5> QED  BY <5>1, <5>3, Zenon DEF Heard, Owed
      <4> QED  BY <4>1, <4>2
    <3>3. CASE ~(m.t = "probe" /\ x \in m.rrs)
      <4>1. PICK q : q = inbox[a] /\ q \in Seq(P)
        BY <1>1
      <4>2. Carries(Tail(q), "probe", x)
        BY <1>3, <3>1, <3>3, <4>1, CarriesTail, ZenonT(30)
      <4> QED  BY <1>3, <3>1, <4>1, <4>2, Zenon DEF Heard, Asked
    <3> QED  BY <3>2, <3>3
  <2> QED  BY <2>1, <2>3, <2>4, <2>5, Zenon DEF Heard
<1> QED  BY <1>2, <1>3, <1>4, StepPairs, ZenonT(30)

\* Every step without a loss keeps the hosts informed.
LEMMA StepDefended ==
    ASSUME ClientPorts \subseteq {"mdns"}, DInv, Next, ~\E h \in Hosts : Lose(h)
    PROVE  Defended'
<1>1. Step /\ Clocks' /\ RInv /\ Clocks /\ {ProbeTicks, DelayTicks, BackoffTicks} \subseteq Nat
  BY StepClocks, ResponderAssumption DEF Next, Keeping, DInv
<1>2. PICK P : (\A m \in P : m.port = "mdns") /\ inbox \in [Hosts -> Seq(P)]
  BY DEF DInv, Mailed
<1>4. ASSUME NEW a \in Hosts, NEW s \in {"p1", "p2", "p3"}, SendProbe(a, s) PROVE Defended'
  <2>1. PICK m : m = Probe(a)
    OBVIOUS
  <2>2. m.t = "probe" /\ m.rrs = OwnNames(a)
    BY <2>1 DEF Probe
  <2>3. ASSUME NEW g \in Hosts PROVE Arrived(inbox, a, m, g)
    BY <1>2, PostCarries, ZenonT(30)
  <2>4. inbox' = Post(inbox, a, m) /\ name' = name /\ pend' = pend
    BY <1>4, <2>1 DEF SendProbe
  <2>5. st'[a] = s /\ wait'[a] = ProbeTicks
    BY <1>1, <1>4 DEF SendProbe, RInv, Clocks
  <2>6. ASSUME NEW g \in Hosts \ {a} PROVE Bystander(g)
    <3>1. st'[g] = st[g] /\ wait'[g] = wait[g]
      BY <1>1, <1>4 DEF SendProbe, RInv, Clocks
    <3> QED  BY <2>3, <2>4, <3>1, ZenonT(30) DEF Bystander, Arrived
  <2>7. ASSUME NEW g \in Hosts \ {a}, st[g] \in Claimed, NEW x \in OwnNames(g) \cap OwnNames(a)'
        PROVE  Heard(g, a, x)'
    <3>1. x \in m.rrs /\ st[g] # "off"
      BY <2>2, <2>4, <2>7, SameNames DEF Claimed
    <3>2. Carries(inbox'[g], "probe", x)
      BY <2>2, <2>3, <2>4, <2>7, <3>1, ZenonT(30) DEF Arrived
    <3> QED  BY <2>5, <3>2, Zenon DEF Heard, Asked
  <2>8. s \notin Claimed
    BY DEF Claimed
  <2> QED  BY <2>5, <2>6, <2>7, <2>8, StepPairs, ZenonT(30)
<1>5. ASSUME NEW a \in Hosts, Claim(a) \/ SendDelayed(a) PROVE Defended'
  <2>1. PICK N : /\ Claim(a) => N = OwnNames(a)
                 /\ SendDelayed(a) => N = pend[a].rrs
    <3>1. ~(Claim(a) /\ SendDelayed(a))
      BY DEF Claim, SendDelayed
    <3> QED  BY <3>1, ZenonT(60)
  <2>2. /\ name' = name /\ wait' = wait
        /\ inbox' = Post(inbox, a, Response(N)) \/ (inbox' = inbox /\ pend[a].port # "mdns" /\ st[a] = "send")
    BY <1>5, <2>1, ZenonT(30) DEF Claim, SendDelayed, SendTo
  <2>3. st'[a] = "ready"
    BY <1>1, <1>5 DEF Claim, SendDelayed, RInv
  <2>4. ASSUME NEW g \in Hosts \ {a} PROVE Shown(inbox, Post(inbox, a, Response(N)), a, N, g)
    BY <1>2, SentResponse, ZenonT(30)
  <2>5. ASSUME NEW g \in Hosts \ {a} PROVE Bystander(g)
    <3>1. st'[g] = st[g] /\ pend'[g] = pend[g]
      BY <1>1, <1>5 DEF Claim, SendDelayed, RInv
    <3> QED  BY <2>2, <2>4, <3>1, ZenonT(30) DEF Bystander, Shown
  <2>6. inbox'[a] = inbox[a]
    <3>1. Arrived(inbox, a, Response(N), a)
      BY <1>2, PostCarries, ZenonT(30)
    <3> QED  BY <2>2, <3>1, Zenon DEF Arrived
  <2>7. ASSUME NEW h \in Hosts \ {a}, st[h] = "p3", NEW x \in OwnNames(a)' \cap OwnNames(h)
        PROVE  Heard(a, h, x)'
    <3>1. x \in OwnNames(a) /\ st[h] # "off" /\ Bystander(h)
      BY <2>2, <2>5, <2>7, SameNames
    <3>2. CASE Claim(a)
      <4>1. inbox' = Post(inbox, a, Response(N)) /\ x \in N
        BY <2>1, <2>2, <3>1, <3>2, Zenon DEF Claim
      <4>2. Carries(inbox'[h], "response", x)
        BY <2>4, <2>7, <3>1, <4>1, ZenonT(30) DEF Shown
      <4> QED  BY <4>2, Zenon DEF Heard
    <3>3. CASE SendDelayed(a)
      <4>1. Heard(a, h, x)
        <5>1. st[a] \in Claimed
          BY <3>3 DEF SendDelayed, Claimed
        <5> QED  BY <2>7, <3>1, <5>1, ZenonT(30) DEF DInv, Defended
      <4>2. CASE Carries(inbox[h], "response", x)
        BY <3>1, <4>2, Zenon DEF Bystander, Heard
      <4>3. CASE Asked(a, h, x)
        BY <2>6, <3>1, <4>3, Zenon DEF Bystander, Heard, Asked
      <4>4. CASE Owed(a, h, x)
        <5>1. inbox' = Post(inbox, a, Response(N)) /\ x \in N
          BY <2>1, <2>2, <3>3, <4>4, Zenon DEF Owed
        <5>2. Carries(inbox'[h], "response", x)
          BY <2>4, <2>7, <3>1, <5>1, ZenonT(30) DEF Shown
        <5> QED  BY <5>2, Zenon DEF Heard
      <4> QED  BY <4>1, <4>2, <4>3, <4>4, Zenon DEF Heard
    <3> QED  BY <1>5, <3>2, <3>3, ZenonT(60)
  <2> QED  BY <2>3, <2>5, <2>7, StepPairs, ZenonT(30)
<1>6. ASSUME NEW a \in Hosts, RxInit(a) \/ RxProbing(a) PROVE Defended'
  <2>1. inbox[a] # <<>> /\ inbox' = Taken(a) /\ pend' = pend
    BY <1>6 DEF RxInit, RxProbing
  <2>2. inbox'[a] = Tail(inbox[a]) /\ \A g \in Hosts \ {a} : inbox'[g] = inbox[g]
    BY <1>2, <2>1 DEF Taken
  <2>3. ASSUME NEW g \in Hosts \ {a} PROVE Bystander(g)
    <3>1. st'[g] = st[g] /\ wait'[g] = wait[g] /\ name'[g] = name[g]
      BY <1>1, <1>6, ZenonT(60) DEF RxInit, RxProbing, RInv, Clocks
    <3> QED  BY <2>1, <2>2, <3>1, ZenonT(30) DEF Bystander
  <2>4. PICK m : m = Head(inbox[a])
    OBVIOUS
  <2>5. st[a] \in {"init"} \cup Probing /\ st'[a] \in {"init", st[a]}
    BY <1>1, <1>6 DEF RxInit, RxProbing, RInv
  <2>6. st'[a] \notin Claimed
    BY <2>5 DEF Probing, Claimed
  <2>7. ASSUME NEW g \in Hosts \ {a}, st[g] \in Claimed, st'[a] = "p3",
               NEW x \in OwnNames(g) \cap OwnNames(a)'
        PROVE  Heard(g, a, x)'
    <3>1. st[a] = "p3" /\ RxProbing(a)
      BY <1>6, <2>5, <2>7 DEF RxInit
    <3>2. PICK C : C = Conflicts(a, m)
      OBVIOUS
    <3>3. /\ st' = [st EXCEPT ![a] = IF C # {} THEN "init" ELSE @]
          /\ wait' = [wait EXCEPT ![a] = IF Exhausted(a, C) THEN BackoffTicks
                                         ELSE IF C # {} THEN 0 ELSE Recalc(a)]
          /\ name' = [name EXCEPT ![a] = Rename(a, C)]
      BY <2>4, <3>1, <3>2, ZenonT(30) DEF RxProbing
    <3>4. C = {}
      BY <1>1, <2>7, <3>3 DEF RInv
    <3>5. wait'[a] = Recalc(a) /\ name'[a] = Rename(a, C)
      <4>1. ~Exhausted(a, C)
        BY <3>4 DEF Exhausted
      <4> QED  BY <1>1, <3>3, <3>4, <4>1, ZenonT(60) DEF RInv, Clocks
    <3>6. OwnNames(a)' = OwnNames(a)
      <4>1. \A k \in {"host", "svc"} : name'[a][k] = name[a][k]
        BY <3>4, <3>5 DEF Rename
      <4> QED  BY <4>1, ZenonT(30) DEF OwnNames, Kinds
    <3>7. x \in OwnNames(g) \cap OwnNames(a) /\ Heard(g, a, x)
      BY <2>7, <3>1, <3>6, ZenonT(30) DEF DInv, Defended
    <3>8. wait[a] + since[a] <= ProbeTicks /\ wait[a] \in Nat /\ since[a] \in Nat
      BY <1>1, <3>1 DEF Clocks, Probing
    <3>9. /\ wait[a] = ProbeTicks => Recalc(a) = ProbeTicks
          /\ \A v \in Nat : v < wait[a] => v < Recalc(a)
      <4>1. ProbeTicks \in Nat
        BY <1>1, Zenon
      <4> QED  BY <3>8, <4>1 DEF Recalc
    <3>10. Bystander(g)
      BY <2>3, <2>7
    <3>11. CASE Asked(g, a, x)
      <4>1. wait'[a] = ProbeTicks
        BY <3>5, <3>9, <3>11, ZenonT(60) DEF Asked
      <4> QED  BY <3>10, <3>11, <4>1, Zenon DEF Asked, Heard, Bystander
    <3>12. CASE Owed(g, a, x)
      <4>1. wait'[g] < wait'[a]
        <5>1. wait[g] \in Nat /\ wait'[g] = wait[g]
          BY <1>1, <2>7, <3>10 DEF Clocks, Bystander
        <5>2. wait[g] < wait[a]
          BY <3>12, Zenon DEF Owed
        <5> QED  BY <3>5, <3>9, <5>1, <5>2, ZenonT(60)
      <4> QED  BY <3>10, <3>12, <4>1, Zenon DEF Owed, Heard, Bystander
    <3>13. CASE Carries(inbox[a], "response", x)
      <4>1. ~(m.t = "response" /\ x \in m.rrs)
        <5> SUFFICES ASSUME m.t = "response", x \in m.rrs PROVE C # {}
          BY <3>4
        <5>1. PICK k \in Kinds(a) : x = <<k, name[a][k]>>
          BY <3>7, Zenon DEF OwnNames
        <5>2. k \in C
          BY <3>2, <5>1 DEF Conflicts
        <5> QED  BY <5>2
      <4>2. PICK q : q = inbox[a] /\ q \in Seq(P)
        BY <1>2
      <4>3. Carries(Tail(q), "response", x)
        BY <2>1, <2>4, <3>13, <4>1, <4>2, CarriesTail, ZenonT(30)
      <4> QED  BY <2>2, <4>2, <4>3, ZenonT(60) DEF Heard
    <3> QED  BY <3>7, <3>11, <3>12, <3>13, ZenonT(60) DEF Heard
  <2> QED  BY <2>3, <2>6, <2>7, StepPairs, ZenonT(30)
<1>7. ASSUME NEW a \in Hosts, RxReady(a) \/ RxSend(a) PROVE Defended'
  <2>1. st[a] \in Claimed /\ name' = name
    BY <1>7 DEF RxReady, RxSend, Claimed
  <2>2. PICK m : Answering(a, m, st[a] = "send")
    BY <1>7, RxAnswering, Zenon
  <2> QED  BY <1>1, <2>1, <2>2, AnswersDefend, ZenonT(60)
<1>8. ASSUME NEW a \in Hosts, Launch(a) PROVE Defended'
  <2>1. st'[a] = "init"
    BY <1>1, <1>8 DEF Launch, RInv
  <2>2. ASSUME NEW g \in Hosts \ {a} PROVE Bystander(g)
    <3>1. st'[g] = st[g] /\ wait'[g] = wait[g] /\ name'[g] = name[g]
      BY <1>1, <1>8 DEF Launch, RInv, Clocks
    <3>2. pend' = pend /\ inbox' = inbox
      BY <1>8 DEF Launch
    <3> QED  BY <3>1, <3>2, ZenonT(30) DEF Bystander
  <2>3. "init" \notin Claimed
    BY DEF Claimed
  <2> QED  BY <2>1, <2>2, <2>3, StepPairs, ZenonT(30)
<1>9. ASSUME NEW a \in Hosts, NEW bye \in BOOLEAN, Halt(a, bye) PROVE Defended'
  <2>1. st'[a] = "off"
    BY <1>1, <1>9 DEF Halt, RInv
  <2>2. PICK box : /\ box = [inbox EXCEPT ![a] = <<>>]
                   /\ inbox' = box \/ inbox' = Post(box, a, Response(OwnNames(a)))
    BY <1>9, Zenon DEF Halt
  <2>3. box \in [Hosts -> Seq(P)] /\ \A g \in Hosts \ {a} : box[g] = inbox[g]
    <3>1. <<>> \in Seq(P)
      OBVIOUS
    <3> QED  BY <1>2, <2>2, <3>1
  <2>4. ASSUME NEW g \in Hosts \ {a} PROVE Bystander(g)
    <3>1. st'[g] = st[g] /\ wait'[g] = wait[g] /\ pend'[g] = pend[g] /\ name' = name
      BY <1>1, <1>9 DEF Halt, RInv, Clocks
    <3>2. Shown(box, Post(box, a, Response(OwnNames(a))), a, OwnNames(a), g)
      BY <2>3, SentResponse, ZenonT(30)
    <3> QED  BY <2>2, <2>3, <3>1, <3>2, ZenonT(30) DEF Bystander, Shown
  <2>5. "off" \notin Claimed
    BY DEF Claimed
  <2> QED  BY <2>1, <2>4, <2>5, StepPairs, ZenonT(30)
<1>10. ASSUME NEW q, NEW port, Ask(q, port) PROVE Defended'
  <2>1. ASSUME NEW g \in Hosts PROVE Bystander(g)
    <3>1. PICK m : m = Query(q, port)
      OBVIOUS
    <3>2. inbox'[g] = IF st[g] # "off" THEN Append(inbox[g], m) ELSE inbox[g]
      BY <1>10, <3>1 DEF Ask
    <3>3. inbox[g] \in Seq(P)
      BY <1>2
    <3>4. \A t, x : Carries(inbox[g], t, x) => Carries(Append(inbox[g], m), t, x)
      BY <3>3, CarriesAppend, ZenonT(30)
    <3> QED  BY <1>10, <3>2, <3>4, ZenonT(30) DEF Ask, Bystander
  <2> SUFFICES ASSUME NEW g \in Hosts, NEW h \in Hosts, g # h, st'[g] \in Claimed, st'[h] = "p3",
                      NEW x \in OwnNames(g)' \cap OwnNames(h)'
               PROVE  Heard(g, h, x)'
    BY Zenon DEF Defended
  <2>2. st' = st /\ OwnNames(g)' = OwnNames(g) /\ OwnNames(h)' = OwnNames(h)
    BY <1>10, SameNames, Zenon DEF Ask
  <2>3. x \in OwnNames(g) \cap OwnNames(h) /\ st[g] \in Claimed /\ st[h] = "p3"
    BY <2>2
  <2>4. Heard(g, h, x)
    BY <2>3, ZenonT(30) DEF DInv, Defended
  <2> QED  BY <2>1, <2>4, HeardKept, Zenon
<1>11. ASSUME Tick PROVE Defended'
  <2> SUFFICES ASSUME NEW g \in Hosts, NEW h \in Hosts, g # h, st'[g] \in Claimed, st'[h] = "p3",
                      NEW x \in OwnNames(g)' \cap OwnNames(h)'
               PROVE  Heard(g, h, x)'
    BY Zenon DEF Defended
  <2>1. st' = st /\ pend' = pend /\ OwnNames(g)' = OwnNames(g) /\ OwnNames(h)' = OwnNames(h)
    BY <1>11, SameNames, Zenon DEF Tick
  <2>2. x \in OwnNames(g) \cap OwnNames(h) /\ st[g] \in Claimed /\ st[h] = "p3"
    BY <2>1
  <2>3. Heard(g, h, x)
    BY <2>2, ZenonT(30) DEF DInv, Defended
  <2>4. inbox[g] = <<>> /\ inbox[h] = <<>>
    BY <1>11 DEF Tick
  <2>5. ~Carries(inbox[g], "probe", x) /\ ~Carries(inbox[h], "response", x)
    BY <2>4 DEF Carries
  <2>6. Owed(g, h, x)
    BY <2>3, <2>5, Zenon DEF Heard, Asked
  <2>7. st[g] = "send" /\ wait[g] < wait[h] /\ wait[g] \in Nat /\ wait[h] \in Nat
    BY <1>1, <2>6, Zenon DEF Owed, Clocks
  <2>8. Timed(g) /\ Timed(h)
    BY <2>2, <2>7 DEF Timed
  <2>9. wait'[g] = wait[g] - 1 /\ wait'[h] = wait[h] - 1
    BY <1>11, <2>8, Zenon DEF Tick
  <2>10. wait'[g] < wait'[h]
    BY <2>7, <2>9
  <2> QED  BY <2>1, <2>6, <2>10, Zenon DEF Owed, Heard
<1>12. ASSUME NEW a \in Hosts, Timeout(a) PROVE Defended'
  BY <1>4, <1>5, <1>12, ZenonT(30) DEF Timeout, FirstProbe, SecondProbe, ThirdProbe
<1> QED
  BY <1>1, <1>6, <1>7, <1>8, <1>9, <1>10, <1>11, <1>12, ZenonT(30) DEF Step, Receive

\* Nothing is lost on the link.
NothingLost == [][~\E h \in Hosts : Lose(h)]_vars

\* A host reads what has arrived before it claims its names.
ReadsFirst == [][\A h \in Hosts : Claim(h) => inbox[h] = <<>>]_vars

\* A host that claims a name of another: the other's announcement, or its answer
\* to the third probe, has arrived and is not read.
ClaimsUnread ==
    [][\A g, h \in Hosts : g # h /\ st[g] \in Claimed /\ Claim(h)
          => \A x \in OwnNames(g) \cap OwnNames(h) : Carries(inbox[h], "response", x)]_vars

\* Nothing that a prober has to know is still to be sent when its wait is over.
LEMMA ClaimHeard ==
    ASSUME DInv, NEW g \in Hosts, NEW h \in Hosts, g # h, st[g] \in Claimed, Claim(h),
           NEW x \in OwnNames(g) \cap OwnNames(h)
    PROVE  Carries(inbox[h], "response", x)
<1>1. st[h] = "p3" /\ wait[h] = 0
  BY Zenon DEF Claim, Expired
<1>2. Heard(g, h, x)
  BY <1>1, ZenonT(30) DEF DInv, Defended
<1>3. ~Asked(g, h, x)
  BY <1>1, ResponderAssumption DEF Asked
<1>4. wait[g] \in Nat
  BY DEF DInv, Clocks
<1>5. ~Owed(g, h, x)
  BY <1>1, <1>4 DEF Owed
<1> QED  BY <1>2, <1>3, <1>5, Zenon DEF Heard

\* The invariant holds at the start,
LEMMA InitDInv == Init => DInv
<1> SUFFICES ASSUME Init PROVE DInv
  OBVIOUS
<1>1. Mailed
  <2>1. inbox \in [Hosts -> Seq({})]
    BY DEF Init
  <2> QED  BY <2>1, Zenon DEF Mailed
<1>2. Clocks /\ Defended
  BY ResponderAssumption DEF Init, Clocks, Defended, Probing
<1> QED  BY <1>1, <1>2, InitRInv DEF DInv

\* and is kept while nothing is lost.
LEMMA StepDInv ==
    ASSUME ClientPorts \subseteq {"mdns"}, DInv, [Next]_vars, [~\E h \in Hosts : Lose(h)]_vars
    PROVE  DInv'
<1>1. CASE UNCHANGED vars
  <2>1. /\ st' = st /\ name' = name /\ wait' = wait /\ since' = since /\ inbox' = inbox
        /\ pend' = pend /\ original' = original
    BY <1>1 DEF vars
  <2>2. RInv'
    BY StepRInv DEF DInv
  <2>3. Mailed' /\ Clocks'
    BY <2>1, Zenon DEF DInv, Mailed, Clocks
  <2>4. Defended'
    <3>1. \A h \in Hosts : OwnNames(h)' = OwnNames(h)
      BY <2>1, SameNames, Zenon
    <3>2. \A h \in Hosts : Bystander(h)
      BY <2>1, ZenonT(30) DEF Bystander
    <3>3. \A g, h \in Hosts : \A x : Heard(g, h, x) => Heard(g, h, x)'
      BY <3>2, HeardKept, ZenonT(30)
    <3> QED  BY <2>1, <3>1, <3>3, ZenonT(30) DEF DInv, Defended
  <2> QED  BY <2>2, <2>3, <2>4 DEF DInv
<1>2. CASE Next /\ ~UNCHANGED vars
  <2>1. RInv' /\ Mailed' /\ Clocks'
    BY <1>2, StepRInv, StepMailed, StepClocks DEF DInv
  <2>2. Defended'
    BY <1>2, StepDefended
  <2> QED  BY <2>1, <2>2 DEF DInv
<1> QED  BY <1>1, <1>2

\* So it always holds if nothing is ever lost.
LEMMA DefendedAlways ==
    ASSUME ClientPorts \subseteq {"mdns"}
    PROVE  Spec /\ NothingLost => []DInv
<1>1. DInv /\ [Next]_vars /\ [~\E h \in Hosts : Lose(h)]_vars => DInv'
  BY StepDInv
<1> QED  BY <1>1, InitDInv, PTL DEF Spec, NothingLost

\* While nothing is lost, a host claims a name of another only by ignoring a response
\* that names it: the answer to its third probe comes before its wait is over, and
\* later claims are announced to it (READY_TO_RESPOND, READY_TO_SEND and
\* THIRD_PROBE_SENT in do_responder, recalc_timeout), for any number of hosts, names,
\* queries, launches and halts.
THEOREM DoubleClaimsIgnoreResponses ==
    ASSUME ClientPorts \subseteq {"mdns"}
    PROVE  Spec /\ NothingLost => ClaimsUnread
<1>1. DInv => \A g, h \in Hosts : g # h /\ st[g] \in Claimed /\ Claim(h)
                => \A x \in OwnNames(g) \cap OwnNames(h) : Carries(inbox[h], "response", x)
  BY ClaimHeard, Zenon
<1> QED  BY <1>1, DefendedAlways, PTL DEF ClaimsUnread

\* Only a claim of a name that another host owns makes two owners.
LEMMA UniqueKept ==
    ASSUME DInv, UniqueNames, [Next]_vars,
           [\A g, h \in Hosts : g # h /\ st[g] \in Claimed /\ Claim(h)
               => OwnNames(g) \cap OwnNames(h) = {}]_vars
    PROVE  UniqueNames'
<1>1. ASSUME NEW h \in Hosts, st'[h] \in Claimed, st[h] \notin Claimed PROVE Claim(h)
  <2>1. Step
    BY <1>1 DEF vars, Next, Keeping
  <2>2. ASSUME NEW a \in Hosts, NEW s, s \notin Claimed, st' = [st EXCEPT ![a] = s] PROVE FALSE
    BY <1>1, <2>2 DEF DInv, RInv
  <2>3. ASSUME NEW a \in Hosts, NEW s, st[a] \in Claimed, st' = [st EXCEPT ![a] = s] PROVE FALSE
    BY <1>1, <2>3 DEF DInv, RInv
  <2>4. st' # st
    BY <1>1
  <2>5. {"ready", "send"} \subseteq Claimed /\ {"off", "init", "p1", "p2", "p3"} \cap Claimed = {}
    BY DEF Claimed
  <2>6. ASSUME NEW a \in Hosts, Timeout(a) PROVE Claim(a)
    BY <2>2, <2>3, <2>5, <2>6, ZenonT(60)
    DEF Timeout, FirstProbe, SecondProbe, ThirdProbe, SendProbe, SendDelayed
  <2>7. ASSUME NEW a \in Hosts, Receive(a) PROVE FALSE
    <3>1. ~RxInit(a)
      BY <2>4, Zenon DEF RxInit
    <3>2. ~RxProbing(a)
      <4> SUFFICES ASSUME RxProbing(a) PROVE FALSE
        OBVIOUS
      <4>1. PICK C : st' = [st EXCEPT ![a] = IF C # {} THEN "init" ELSE @]
        BY Zenon DEF RxProbing
      <4>2. CASE C = {}
        <5>1. st' = st
          BY <4>1, <4>2 DEF DInv, RInv
        <5> QED  BY <2>4, <5>1
      <4>3. CASE C # {}
        <5>1. st' = [st EXCEPT ![a] = "init"]
          BY <4>1, <4>3, Zenon
        <5>2. "init" \notin Claimed
          BY DEF Claimed
        <5> QED  BY <2>2, <5>1, <5>2, ZenonT(60)
      <4> QED  BY <4>2, <4>3
    <3>3. ~RxReady(a) /\ ~RxSend(a)
      BY <2>3, <2>5, ZenonT(60) DEF RxReady, RxSend, Respond
    <3> QED  BY <2>7, <3>1, <3>2, <3>3, Zenon DEF Receive
  <2>8. ASSUME NEW a \in Hosts PROVE ~Launch(a) /\ ~Lose(a) /\ \A bye \in BOOLEAN : ~Halt(a, bye)
    BY <2>2, <2>4, <2>5, ZenonT(60) DEF Launch, Lose, Halt
  <2>9. ~Tick /\ \A q, port : ~Ask(q, port)
    BY <2>4, Zenon DEF Tick, Ask
  <2>10. PICK a \in Hosts : Timeout(a)
    BY <2>1, <2>7, <2>8, <2>9, Zenon DEF Step
  <2>11. Claim(a) /\ st' = [st EXCEPT ![a] = "ready"]
    BY <2>6, <2>10, Zenon DEF Claim
  <2>12. a = h
    BY <1>1, <2>11 DEF DInv, RInv
  <2> QED  BY <2>11, <2>12
<1>2. ASSUME NEW h \in Hosts, st'[h] \in Claimed PROVE OwnNames(h)' = OwnNames(h)
  <2>1. name'[h] = name[h]
    <3>1. CASE Next
      BY <1>2, <3>1, StepMoves, ZenonT(30) DEF DInv, Moves
    <3>2. CASE UNCHANGED vars
      BY <3>2 DEF vars
    <3> QED  BY <3>1, <3>2
  <2> QED  BY <2>1, SameNames, Zenon
<1>3. ASSUME NEW h \in Hosts, st'[h] \in Claimed, st[h] \notin Claimed,
             NEW g \in Hosts, g # h, st[g] \in Claimed
      PROVE  OwnNames(g) \cap OwnNames(h) = {}
  <2>1. Claim(h)
    BY <1>1, <1>3
  <2>2. vars' # vars
    BY <1>3 DEF vars
  <2> QED  BY <1>3, <2>1, <2>2, Zenon
<1>4. ASSUME NEW g \in Hosts, NEW h \in Hosts, g # h, st'[g] \in Claimed, st'[h] \in Claimed,
             st[g] \notin Claimed, st[h] \notin Claimed
      PROVE  FALSE
  <2>1. st' = [st EXCEPT ![g] = "ready"]
    BY <1>1, <1>4, Zenon DEF Claim
  <2> QED  BY <1>4, <2>1 DEF DInv, RInv
<1> SUFFICES ASSUME NEW g \in Hosts, NEW h \in Hosts, g # h, st'[g] \in Claimed, st'[h] \in Claimed
             PROVE  OwnNames(g)' \cap OwnNames(h)' = {}
  BY Zenon DEF UniqueNames
<1>5. OwnNames(g)' = OwnNames(g) /\ OwnNames(h)' = OwnNames(h)
  BY <1>2, Zenon
<1>6. OwnNames(g) \cap OwnNames(h) = {}
  <2>1. CASE st[g] \in Claimed /\ st[h] \in Claimed
    BY <2>1, Zenon DEF UniqueNames
  <2>2. CASE st[g] \in Claimed /\ st[h] \notin Claimed
    BY <1>3, <2>2
  <2>3. CASE st[h] \in Claimed /\ st[g] \notin Claimed
    <3>1. OwnNames(h) \cap OwnNames(g) = {}
      BY <1>3, <2>3, Zenon
    <3> QED  BY <3>1
  <2> QED  BY <1>4, <2>1, <2>2, <2>3, Zenon
<1> QED  BY <1>5, <1>6

\* Names are unique on a link that loses nothing, if every host reads what has arrived
\* before it claims: two hosts can own one name only by claiming it at the same time.
THEOREM UniqueIfRead ==
    ASSUME ClientPorts \subseteq {"mdns"}
    PROVE  Spec /\ NothingLost /\ ReadsFirst => []UniqueNames
<1>1. Init => UniqueNames
  BY DEF Init, UniqueNames, Claimed
<1>2. ASSUME DInv, UniqueNames, [Next]_vars, [\A h \in Hosts : Claim(h) => inbox[h] = <<>>]_vars
      PROVE  UniqueNames'
  <2>1. ASSUME vars' # vars, NEW g \in Hosts, NEW h \in Hosts, g # h, st[g] \in Claimed, Claim(h)
        PROVE  OwnNames(g) \cap OwnNames(h) = {}
    <3>1. inbox[h] = <<>>
      BY <1>2, <2>1, Zenon
    <3>2. \A x : ~Carries(inbox[h], "response", x)
      BY <3>1 DEF Carries
    <3> QED  BY <1>2, <2>1, <3>2, ClaimHeard, Zenon
  <2> QED  BY <1>2, <2>1, UniqueKept, ZenonT(30)
<1> QED  BY <1>1, <1>2, DefendedAlways, PTL DEF Spec, ReadsFirst

\* The same behaviours implement NameClaims.
THEOREM ClaimsIfRead ==
    ASSUME ClientPorts \subseteq {"mdns"}
    PROVE  Spec /\ NothingLost /\ ReadsFirst => ImplementsNameClaims
BY UniqueIfRead, ClaimsUnlessDouble, PTL
=============================================================================
