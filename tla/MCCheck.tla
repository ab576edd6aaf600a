------------------------------- MODULE MCCheck -------------------------------
(* Values for the constants of Check that a .cfg cannot write down. *)
EXTENDS Check

FoldMC == [n \in Names |-> CASE n = "a" -> 1 [] n = "b" -> 2 [] OTHER -> 3]
RootAndD == {<<>>, <<"d">>}
=============================================================================
