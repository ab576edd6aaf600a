-------------------------------- MODULE Check --------------------------------
(***************************************************************************)
(* "pfs3 check" (src/cmd/check.rs) over the volumes Writer leaves behind:  *)
(* a scan of the tree and of the counters, then with --repair one commit   *)
(* per repair, through a Writer of its own.  The command has the volume to *)
(* itself; any read of the scan may fail, a repair may fail or be killed   *)
(* before any device access, and the command may be run again.             *)
(***************************************************************************)
EXTENDS Writer

CONSTANT MaxDamage   \* bound: anodes that go bad on the medium

VARIABLE checker     \* [phase, report, plan, unread, failed, damage]

checkVars == <<vars, checker>>

-----------------------------------------------------------------------------
(* The scan: operators of the device's blocks and of "unread", the reads   *)
(* that fail: of a bitmap, of a directory's entries, of an entry's chain.  *)

Here(res, unread, d) ==
  LET Listed(es) == [i \in DOMAIN es |-> [dir |-> d, e |-> es[i]]]
  IN  Listed(IF <<"list", d>> \in unread THEN <<>> ELSE ListDir(res, d).es)

\* validate_anode_chain: an error of the device and a broken chain are one.
\* Directories and files are looked at, links of both kinds are not.
ChainOf(res, x) == GetChain(res, x.e.anode)
IsChainRead(res, unread, x) == <<"chain", x>> \notin unread /\ ChainOf(res, x).ok
IsScanned(res, unread, x) ==
  x.e.type \in {"dir", "file"} /\ IsChainRead(res, unread, x)

\* scan_dir: the entries in the order they are met.  A directory whose chain
\* is not read is not entered.  (Parents reaches one level down.)
Tree(res, unread) ==
  LET Enter(x) == IF x.e.type = "dir" /\ IsChainRead(res, unread, x)
                    THEN <<x>> \o Here(res, unread, x.e.anode) ELSE <<x>>
      Below(q) == FlattenSeq([i \in DOMAIN q |-> Enter(q[i])])
  IN  Below(Here(res, unread, RootDir))

\* broken_files
IsBroken(res, unread, x) ==
  x.e.type \in {"dir", "file"} /\ ~IsChainRead(res, unread, x)
Broken(res, unread) ==
  LET Pick(q) == FlattenSeq([i \in DOMAIN q |->
                   IF IsBroken(res, unread, q[i]) THEN <<q[i]>> ELSE <<>>])
  IN  Pick(Tree(res, unread))

\* "ERROR reading dir": the directories that are entered and not listed.
IsUnlisted(res, unread, x) ==
  /\ x.e.type = "dir" /\ IsScanned(res, unread, x)
  /\ <<"list", x.e.anode>> \in unread
Unlisted(res, unread) ==
  LET Pick(q) == FlattenSeq([i \in DOMAIN q |->
                   IF IsUnlisted(res, unread, q[i]) THEN <<q[i]>> ELSE <<>>])
  IN  Pick(Tree(res, unread))
IsRootUnlisted(res, unread) ==
  <<"list", RootDir>> \in unread \/ ~ListDir(res, RootDir).ok

\* wrong_size: the chain is too short for the size.  (First a variant that is
\* one block off.)
IsShortByMore(res, unread, x) ==
  /\ x.e.type = "file" /\ IsChainRead(res, unread, x)
  /\ Len(BlocksOf(ChainOf(res, x).chain)) + 1 < x.e.size
IsShort(res, unread, x) ==
  /\ x.e.type = "file" /\ IsChainRead(res, unread, x)
  /\ Len(BlocksOf(ChainOf(res, x).chain)) < x.e.size
WrongSize(res, unread) ==
  LET Pick(q) == FlattenSeq([i \in DOMAIN q |->
                   IF IsShort(res, unread, q[i]) THEN <<q[i]>> ELSE <<>>])
  IN  Pick(Tree(res, unread))

\* record_blocks: an error for every block that is already in used_blocks.
Claims(res, unread) ==
  LET BlocksIn(q) ==
        FlattenSeq([i \in DOMAIN q |-> IF IsScanned(res, unread, q[i])
                      THEN BlocksOf(ChainOf(res, q[i]).chain) ELSE <<>>])
  IN  BlocksIn(Tree(res, unread))
Duplicates(res, unread) ==
  Len(Claims(res, unread)) - Cardinality(ToSet(Claims(res, unread)))

\* bitmap_count_free, reserved_count_free
BitmapCountFree(res) == Cardinality(LoadDataBitmap(res))
ReservedCountFree(root) == Cardinality(LoadReservedBitmap(root))

\* A data bitmap that cannot be read counts as 0 free blocks: unwrap_or(0).
Bits(res, unread) == IF <<"bitmap">> \in unread THEN 0 ELSE BitmapCountFree(res)
IsFreeWrong(res, root, unread) == Bits(res, unread) # root.bfree
\* A reserved bitmap that cannot be read is not compared: SKIP.
IsReservedWrong(root, unread) ==
  <<"reserved">> \notin unread /\ ReservedCountFree(root) # root.rfree

One(P) == IF P THEN 1 ELSE 0

\* What the scan finds.
Report(res, root, unread) ==
  [errors |-> One(IsRootUnlisted(res, unread)) + Len(Unlisted(res, unread))
                + Len(Broken(res, unread)) + Duplicates(res, unread),
   warnings |-> Len(WrongSize(res, unread)) + One(IsFreeWrong(res, root, unread))
                  + One(IsReservedWrong(root, unread))]

\* The repairs, in order.
Plan(res, root, unread) ==
  LET Removals(q) == [i \in DOMAIN q |->
                        [do |-> "remove", dir |-> q[i].dir, name |-> q[i].e.name]]
  IN  (IF IsFreeWrong(res, root, unread)
         THEN <<[do |-> "blocksfree", n |-> Bits(res, unread)]>> ELSE <<>>)
        \o (IF IsReservedWrong(root, unread)
              THEN <<[do |-> "reserved_free", n |-> ReservedCountFree(root)]>> ELSE <<>>)
        \o Removals(Broken(res, unread))

\* The reads of a scan.
Reads(res) ==
  {<<"bitmap">>, <<"reserved">>, <<"list", RootDir>>}
    \cup {<<"list", x.e.anode>> : x \in {y \in ToSet(Tree(res, {})) : y.e.type = "dir"}}
    \cup {<<"chain", x>> : x \in ToSet(Tree(res, {}))}

-----------------------------------------------------------------------------
(* The repairs *)

\* (A variant that does not commit the removal.)
RepairUncommitted(s, r) ==
  CASE r.do = "blocksfree" -> UpdateRootblock([s EXCEPT !.bfree = r.n])
    [] r.do = "reserved_free" -> UpdateRootblock([s EXCEPT !.rfree = r.n])
    [] r.do = "remove" -> RemoveDirEntry(s, r.dir, r.name)

\* repair_blocksfree, repair_reserved_free, force_remove_entry
Repair(s, r) ==
  CASE r.do = "blocksfree" -> UpdateRootblock([s EXCEPT !.bfree = r.n])
    [] r.do = "reserved_free" -> UpdateRootblock([s EXCEPT !.rfree = r.n])
    [] r.do = "remove" -> Then(RemoveDirEntry(s, r.dir, r.name), UpdateRootblock)

-----------------------------------------------------------------------------
(* The command *)

NoReport == [errors |-> 0, warnings |-> 0]

CheckInit ==
  /\ Init
  /\ checker = [phase |-> "idle", report |-> NoReport, plan |-> <<>>,
                unread |-> {}, failed |-> FALSE, damage |-> 0]

\* An operation of the writer, ended or killed.  After a crash or damage comes
\* the check; what going on without one does is the subject of Writer's runs.
Work ==
  /\ checker.phase = "idle" /\ count.kills = 0 /\ checker.damage = 0
  /\ Next /\ count'.faults = count.faults
  /\ UNCHANGED checker

\* An anode in use goes bad: its next pointer leads back to itself.
Damage ==
  /\ checker.phase = "idle" /\ checker.damage < MaxDamage
  /\ \E a \in UserAnodes :
       /\ HasAnode(device.res, a) /\ GetAnode(device.res, a).bn # 0
       /\ device' = [device EXCEPT !.res[ResolveAnodeBlock(device.res, SeqOfAnode(a))]
                                     .slots[OffOfAnode(a)].nx = a]
  /\ mem' = Loaded(device'.res, device'.root)
  /\ shown' = Seen(device'.res, device'.data)
  /\ checker' = [checker EXCEPT !.damage = @ + 1]
  /\ UNCHANGED <<last, count>>

\* The scan, with or without --repair, when the reads in "unread" fail.
Scanning(repair, unread) ==
  LET plan == IF repair THEN Plan(device.res, device.root, unread) ELSE <<>>
  IN  /\ Cardinality(unread) \in 0..(MaxFaults - count.faults)
      /\ count' = [count EXCEPT !.faults = @ + Cardinality(unread)]
      /\ checker' = [checker EXCEPT
           !.phase = IF ~repair THEN "done" ELSE IF plan = <<>> THEN "repaired" ELSE "repair",
           !.report = Report(device.res, device.root, unread),
           !.plan = plan, !.unread = unread, !.failed = FALSE]
      /\ mem' = Loaded(device.res, device.root)
      /\ UNCHANGED <<device, last, shown>>
Scan(repair) ==
  /\ checker.phase = "idle"
  /\ \E unread \in SUBSET Reads(device.res) : Scanning(repair, unread)

\* A failed setter ends the command, a failed removal does not; a command that
\* was killed may be run again.
Advance(killed, ok) ==
  LET rest == Tail(checker.plan)
      ends == rest = <<>> \/ (~ok /\ Head(checker.plan).do # "remove")
  IN  checker' = IF killed THEN [checker EXCEPT !.phase = "idle", !.plan = <<>>]
                 ELSE [checker EXCEPT !.phase = IF ends THEN "repaired" ELSE "repair",
                                      !.plan = IF ends THEN <<>> ELSE rest,
                                      !.failed = @ \/ ~ok]

RepairStep ==
  /\ checker.phase = "repair"
  /\ Perform("repair", LAMBDA s : Repair(s, Head(checker.plan)))
  /\ Advance(count'.kills > count.kills, last'.ok)

CheckNext ==
  \/ Work
  \/ Damage
  \/ \E repair \in BOOLEAN : Scan(repair)
  \/ RepairStep

CheckSpec == CheckInit /\ [][CheckNext]_checkVars

-----------------------------------------------------------------------------
(* Properties *)

\* "Filesystem appears clean": every file in the tree can be read to its end
\* through blocks no other file or directory has, and each counter is that of
\* its bitmap (scan_dir, record_blocks, checks 4 and 7).  The command says the
\* same when a bitmap could not be read: of the reserved one nothing is
\* compared, the data one counts as 0.  The counter is then not claimed right.
CleanMeansSound ==
  checker.phase \in {"done", "repaired"} /\ checker.report = NoReport =>
    LET nodes == {x \in ToSet(Tree(device.res, {})) : x.e.type \in {"dir", "file"}}
        blocks == [x \in nodes |-> BlocksOf(ChainOf(device.res, x).chain)]
    IN  /\ \A x \in nodes :
             /\ ChainOf(device.res, x).ok /\ IsInjective(blocks[x])
             /\ x.e.type = "file" =>
                  Len(ReadFileData(device.res, device.data, x.e.anode, x.e.size)) = x.e.size
             /\ \A y \in nodes \ {x} : ToSet(blocks[x]) \cap ToSet(blocks[y]) = {}
        /\ <<"bitmap">> \notin checker.unread =>
             device.root.bfree = BitmapCountFree(device.res)
        /\ <<"reserved">> \notin checker.unread =>
             device.root.rfree = ReservedCountFree(device.root)

\* After a repair that ran to its end without an error, from a scan that could
\* read everything, another scan finds no broken entry and no wrong counter,
\* even if an earlier repair was interrupted or went by a scan that could not
\* (run, phase 2).
RepairConverges ==
  checker.phase = "repaired" /\ ~checker.failed /\ checker.unread = {} =>
    /\ Broken(device.res, {}) = <<>>
    /\ Plan(device.res, device.root, {}) = <<>>

\* A repair, complete or cut short, costs no file or directory whose chain is
\* intact (force_remove_entry: "without touching anodes or data blocks"), save
\* those whose chain the scan could not read: an error of the device puts an
\* intact entry in broken_files, and it is removed with all that is below it.
Healthy ==
  LET chains == {r \in checker.unread : r[1] = "chain"}
  IN  {x \in ToSet(Tree(device.res, chains)) : IsChainRead(device.res, chains, x)}
RepairKeepsHealthy ==
  [][checker.phase = "repair" =>
       /\ Healthy \subseteq ToSet(Tree(device'.res, {}))
       /\ \A x \in Healthy :
            x.e.type = "file" =>
              ReadFileData(device'.res, device'.data, x.e.anode, x.e.size)
                = ReadFileData(device.res, device.data, x.e.anode, x.e.size)]_checkVars
=============================================================================
