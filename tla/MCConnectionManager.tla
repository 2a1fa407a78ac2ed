------------------------ MODULE MCConnectionManager ------------------------
(***************************************************************************)
(* ConnectionManager for TLC.  The identities of the clients are           *)
(* interchangeable: no action and no property tells them apart.            *)
(***************************************************************************)
EXTENDS ConnectionManager, TLC

ClientSymmetry == Permutations(Clients)
=============================================================================
