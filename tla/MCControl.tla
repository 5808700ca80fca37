------------------------------- MODULE MCControl -------------------------------
(* Control for TLC: launches with a host name; runs of a command are alike. *)
EXTENDS Control, TLC

AllNamed == [l \in Launchers |-> TRUE]

Used == {"monitor"} \X Types \cup {<<"unmonitor", None>>, <<"halt", None>>}

Symmetry == Permutations(Launchers) \cup Permutations(Clients) \cup Permutations(Types)
=============================================================================
