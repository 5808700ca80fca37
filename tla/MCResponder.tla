----------------------------- MODULE MCResponder -----------------------------
(* Instances of Responder for TLC, and every tie-break between small probes. *)
EXTENDS Responder

CONSTANTS Bytes, MaxTxt, Values    \* bytes and length of a TXT, other rdata

ASSUME RdataAssumption == Bytes \subseteq Nat /\ MaxTxt \in Nat /\ Values \subseteq Nat

\* Two hosts of one service type on the same port.
Pair == {1, 2}

Trio == {1, 2, 3}

SamePort == [h \in Hosts |-> 80]

\* Host 1 has the greater SRV record although it has the smaller address.
CrossedPort == [h \in Hosts |-> 90 - h]

NoTxt == [h \in Hosts |-> <<>>]

\* All hosts are configured with the name foo.
SameName == [h \in Hosts |-> [host |-> 1, svc |-> IF h \in Offers THEN 1 ELSE 0]]

\* All hosts are configured with foo-9, which cannot be incremented.
LastName == [h \in Hosts |-> [host |-> MaxSuffix, svc |-> IF h \in Offers THEN MaxSuffix ELSE 0]]

OnlyFoo == {SameName}

FooOrLast == {SameName, LastName}

-----------------------------------------------------------------------------
Txts == UNION {[1 .. n -> Bytes] : n \in 0 .. MaxTxt}

Records == {Rr(T_A, v) : v \in Values} \cup {Rr(T_TXT, t) : t \in Txts}
           \cup {Rr(T_SRV, d) : d \in [fixed : Values, target : Values]}

\* Authority sections with up to two records of the name, in any order.
Sections == UNION {[1 .. n -> Records] : n \in 0 .. 2}

\* All hosts have just sent their first probe and handled what they received.
Contest ==
    /\ st = [h \in Hosts |-> "p1"] /\ since = [h \in Hosts |-> 0]
    /\ inbox = [h \in Hosts |-> <<>>]
    /\ spent = [disturbances |-> 0, halts |-> 0]

\* Among hosts that probe: if the authorities differ, at least one gives way (cmp
\* == 1 in fix_response_conflicts), whatever the records are, so two hosts never
\* both keep a name for different records.
SomeoneYields ==
    Contest => \A mine, theirs \in Sections :
       FindAuthorities(mine) # FindAuthorities(theirs)
       => 1 \in {AuthoritySetCmp(theirs, mine), AuthoritySetCmp(mine, theirs)}

\* Among hosts that probe: without TXT records exactly one gives way, and identical
\* authorities leave both in place: the order of authority_set_cmp is total.
OneYields ==
    Contest => \A mine, theirs \in Sections :
       ~(\E i \in DOMAIN mine : mine[i].type = T_TXT)
       => AuthoritySetCmp(theirs, mine) = -AuthoritySetCmp(mine, theirs)
=============================================================================
