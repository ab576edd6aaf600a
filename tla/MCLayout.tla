------------------------------ MODULE MCLayout ------------------------------
(* Values for the constants of Layout that a .cfg cannot write down. *)
EXTENDS Layout

\* "s" and "t" are short, one of each parity, "long" just fits, "cut" is longer
\* than an entry stores and "umlaut" is not ASCII.
ByteLenMC == [n \in Names |-> CASE n = "s" -> 1 [] n = "t" -> 2 [] n = "long" -> 107
                                [] n = "cut" -> 120 [] n = "umlaut" -> 2]
ReadBackMC == [n \in Names |-> CASE n = "cut" -> "cut at 107" [] n = "umlaut" -> "A~A-Umlaut"
                                 [] OTHER -> n]

SpecsMC == {[mode |-> m, letters |-> l] :
              m \in {"=", "+", "-"}, l \in {{}, {"r", "w", "e", "d"}, {"s", "w"}, {"p"}}}

\* An entry as AmigaOS leaves it: a comment and other extra fields.
AmigaEntry(n, nlen, clen, flags, fsize, anode) ==
  LET at == Even(NameOff + nlen + 1 + clen)
      upper == Walk(at + 2, LAMBDA pos, f : Past(flags, pos, f))
      large == "fsizex" \in flags
  IN  [size |-> Even(IF large THEN upper + 2 ELSE upper), name |-> n, nlen |-> nlen,
       clen |-> clen, anode |-> anode, prot |-> {"a", "d"}, fsize |-> fsize % Low,
       flags |-> flags, flagsAt |-> at, fsizex |-> fsize \div Low,
       fsizexAt |-> IF large THEN upper ELSE 0]

AmigaDir(dir) ==
  LET entries == ListEntries(dir)
  IN  [bsize |-> 1024, blocks |-> dir,
       made |-> [a \in {e.anode : e \in entries} |->
                   LET e == CHOOSE x \in entries : x.anode = a
                   IN  Told(e.name, e.fsize + Low * e.fsizex, e.prot)]]

\* Four large entries fill most of a block.
Filler(k) == AmigaEntry(<<"f1", "f2", "f3", "f4", "f5", "f6", "f7", "f8">>[k],
                        107, 79, {"link", "uid", "gid", "prot"}, 1, k)
UsedMC == {
  AmigaDir(<< <<AmigaEntry("s", 1, 5, {"uid", "gid", "fsizex"}, Low + 1, 9)>> >>),
  AmigaDir(<< <<Filler(1), Filler(2),
                AmigaEntry("s", 1, 0, {"link", "prot", "virtualsize", "rollpointer", "fsizex"}, Low, 9),
                AmigaEntry("t", 2, 1, {"virtualsize"}, 1, 10), Filler(3), Filler(4)>> >>),
  AmigaDir(<< <<Filler(1), Filler(2), AmigaEntry("s", 1, 0, {}, 3, 9), Filler(3), Filler(4)>>,
              <<Filler(5), Filler(6), Filler(7), Filler(8)>> >>) }
=============================================================================
