------------------------------ MODULE MCServiceCache ------------------------------
(* Small instances of ServiceCache for TLC. *)
EXTENDS ServiceCache, TLC

CONSTANTS t1, t2

\* Every name is of type t1, so a PTR of type t2 names an instance whose own SRV
\* and TXT belong to another monitor.
MCTypeOf == [n \in Names |-> t1]

Symmetry == Permutations(Sinsts) \cup Permutations(Arecs) \cup Permutations(Names)
            \cup Permutations(Hosts) \cup Permutations(Ips) \cup Permutations(Txts)
=============================================================================
