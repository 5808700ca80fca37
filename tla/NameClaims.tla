------------------------------ MODULE NameClaims ------------------------------
(*****************************************************************************)
(* What the responders of a link promise each other (include/mdns.h, notes   *)
(* on mdns_launch): a host takes its names all at once, takes only names     *)
(* that nobody else holds, and keeps them unchanged until it halts.          *)
(*****************************************************************************)
CONSTANTS Hosts, Names

VARIABLE claims    \* the names that each host advertises as its own

Taken(h) == UNION {claims[g] : g \in Hosts \ {h}}

Init == claims = [h \in Hosts |-> {}]

Claim(h, N) ==
    /\ claims[h] = {} /\ N # {}
    /\ N \cap Taken(h) = {}
    /\ claims' = [claims EXCEPT ![h] = N]

Release(h) == claims' = [claims EXCEPT ![h] = {}]

Next == \E h \in Hosts : Release(h) \/ \E N \in SUBSET Names : Claim(h, N)

Spec == Init /\ [][Next]_claims
=============================================================================
