---- MODULE MCSessionSystem ----
(* SessionSystem for TLC: small sets, the model values of the .cfg files. *)
EXTENDS SessionSystem, TLC

ClientSymmetry == Permutations(Clients)
====
