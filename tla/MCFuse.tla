------------------------------- MODULE MCFuse -------------------------------
(* Values for the constants of Fuse that a .cfg cannot write down. *)
EXTENDS Fuse, TLC

\* "a" and "A" are one name to the file system.
FoldMC == [n \in Names |-> IF n \in {"a", "A"} THEN 1 ELSE 2]

\* A volume with two files, one of them with an HSPA flag set, and one file in
\* the deldir.
File(a, prot) == [type |-> "file", anode |-> a, size |-> 1, prot |-> prot]
TwoFiles ==
  {[entries |-> (<<Root, 1>> :> File(6, 2)) @@ (<<Root, 2>> :> File(8, 0)),
    chains |-> [x \in Anodes |-> <<1>>],
    trash |-> <<<<[anode |-> 7, size |-> 1, key |-> 2]>>>>]}
=============================================================================
