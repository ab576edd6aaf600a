------------------------------ MODULE MCWriter ------------------------------
(* Values for the constants of Writer that a .cfg cannot write down. *)
EXTENDS Writer

\* "a" and "A" are one name to the file system.
FoldMC == [n \in Names |-> CASE n \in {"a", "A"} -> 1 [] n = "b" -> 2
                             [] n = "c" -> 3 [] OTHER -> 4]
RootOnly == {<<>>}
RootAndD == {<<>>, <<"d">>}
=============================================================================
