------------------------------- MODULE TieBreak -------------------------------
(*****************************************************************************)
(* The tie-break between two probes for one name (mdns/mdns_respond.c,       *)
(* find_authorities, rr_cmp, authority_set_cmp).                             *)
(*                                                                           *)
(* A probe's authority section, restricted to the records of the contested   *)
(* name, is a sequence of records in message order.  Addresses, the fixed    *)
(* part of an SRV and domain names are numbers in the order in which memcmp  *)
(* and dname_cmp put them; a TXT is the sequence of its bytes.               *)
(*****************************************************************************)
EXTENDS Integers, Sequences, FiniteSetsExt

T_A == 1
T_CNAME == 5
T_PTR == 12
T_TXT == 16
T_SRV == 33

Rr(type, rdata) == [class |-> 1, type |-> type, rdata |-> rdata]

Order(a, b) == IF a > b THEN 1 ELSE IF a < b THEN -1 ELSE 0

\* The loop returns 1 at a byte of a that is greater; the test meant for a
\* byte that is smaller repeats the first one and never succeeds.
TxtCmp(a, b) ==
    IF \E i \in 1 .. Min({Len(a), Len(b)}) : a[i] > b[i] THEN 1
    ELSE Order(Len(a), Len(b))

\* Mutant: a lesser target is taken for an equal one.
SrvCmpHalf(a, b) ==
    IF a.fixed # b.fixed THEN Order(a.fixed, b.fixed)
    ELSE IF a.target > b.target THEN 1 ELSE 0

SrvCmp(a, b) ==
    IF a.fixed # b.fixed THEN Order(a.fixed, b.fixed) ELSE Order(a.target, b.target)

RdataCmp(type, a, b) ==
    CASE type = T_SRV -> SrvCmp(a, b)
      [] type = T_TXT -> TxtCmp(a, b)
      [] OTHER -> Order(a, b)

RrCmp(a, b) ==
    IF a.class # b.class THEN Order(a.class, b.class)
    ELSE IF a.type # b.type THEN Order(a.type, b.type)
    ELSE RdataCmp(a.type, a.rdata, b.rdata)

\* The slot of a type: the last record of that type in the message, if there is one.
Slot(p, t) ==
    LET at == {i \in DOMAIN p : p[i].type = t}
    IN IF at = {} THEN <<>> ELSE <<p[Max(at)]>>

\* The slots in the order of the types, the empty ones skipped.
FindAuthorities(p) ==
    Slot(p, T_A) \o Slot(p, T_CNAME) \o Slot(p, T_PTR) \o Slot(p, T_TXT) \o Slot(p, T_SRV)

\* Mutant: the set that still has records is not the greater one.
AuthoritySetCmpCommon(p1, p2) ==
    LET r1 == FindAuthorities(p1)
        r2 == FindAuthorities(p2)
        differ == {i \in 1 .. Min({Len(r1), Len(r2)}) : RrCmp(r1[i], r2[i]) # 0}
    IN IF differ # {} THEN RrCmp(r1[Min(differ)], r2[Min(differ)]) ELSE 0

\* The first pair of records that differ decides; a set that has run out of
\* records is the lesser.
AuthoritySetCmp(p1, p2) ==
    LET r1 == FindAuthorities(p1)
        r2 == FindAuthorities(p2)
        differ == {i \in 1 .. Min({Len(r1), Len(r2)}) : RrCmp(r1[i], r2[i]) # 0}
    IN IF differ # {} THEN RrCmp(r1[Min(differ)], r2[Min(differ)])
       ELSE Order(Len(r1), Len(r2))
=============================================================================
