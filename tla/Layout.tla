------------------------------- MODULE Layout -------------------------------
(***************************************************************************)
(* The layout of a volume from mkfs on: a disk is formatted, or one that   *)
(* AmigaOS has used is opened, and its root directory is filled and changed*)
(* in blocks of the size that the format chose.                            *)
(***************************************************************************)
EXTENDS Format, DirBlock

CONSTANTS
  Used                  \* directories of existing volumes: [bsize, blocks, made]

\* They are sound, with blocks of a size that PFS3 uses.
ASSUME UsedAssumption ==
  \A u \in Used : u.bsize \in {1024, 2048, 4096} /\ SoundDir(u.bsize, u.blocks, u.made)

vars == <<fvars, dvars>>

\* An empty disk to format.
BlankInit ==
  /\ FormatInit
  /\ bsize = 0 /\ blocks = <<>> /\ made = <<>> /\ changes = 0

\* A volume that is already there: entries with comments and extra fields.
UsedInit ==
  /\ total = 0 /\ phase = "mounted" /\ disk = Blank
  /\ \E u \in Used : bsize = u.bsize /\ blocks = u.blocks /\ made = u.made
  /\ changes = 0

Init == BlankInit \/ UsedInit

\* Mounting the new volume if its root directory is found: one empty block.
\* From here on only the block size of the volume matters.
Mount ==
  /\ phase = "done" /\ IdOf(ListedRootDir) = "DB"
  /\ total' = 0 /\ phase' = "mounted" /\ disk' = Blank
  /\ bsize' = disk.root.rbs /\ blocks' = << <<>> >>
  /\ UNCHANGED <<made, changes>>

Next ==
  \/ FormatNext /\ UNCHANGED dvars
  \/ Mount
  \/ phase = "mounted" /\ DirNext /\ UNCHANGED fvars

Spec == Init /\ [][Next]_vars
=============================================================================
