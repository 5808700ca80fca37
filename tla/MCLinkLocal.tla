------------------------------ MODULE MCLinkLocal ------------------------------
(*****************************************************************************)
(* Instances of LinkLocal for TLC.  The hosts are interchangeable, so the    *)
(* safety runs look at one arrangement of each; the addresses are not.       *)
(*****************************************************************************)
EXTENDS LinkLocal, TLC

HostSymmetry == Permutations(Hosts)
=============================================================================
