----------------------------- MODULE BlockStore -----------------------------
(***************************************************************************)
(* What the write-behind store under the writer promises, without saying   *)
(* how: no pending list, no cache, no commit phases.                       *)
(*                                                                         *)
(*   view   what the writer reads back (read_reserved_raw)                 *)
(*   disk   what the device returns for each sector                        *)
(*   since  per sector, the values that may be found after a power loss:   *)
(*          the synced one and everything written after it                 *)
(*                                                                         *)
(* A sector of the device only ever changes to the writer's current view   *)
(* of it; a failed commit forgets whole blocks, never parts of one; a      *)
(* crash returns each sector to a value it had since the last sync.        *)
(***************************************************************************)
CONSTANTS Blocks, Sectors, Data

VARIABLES view, disk, since

storeVars == <<view, disk, since>>

Image == [Sectors -> Data]

StoreInit ==
  /\ disk \in [Blocks -> Image]
  /\ view = disk
  /\ since = [b \in Blocks |-> [s \in Sectors |-> {disk[b][s]}]]

Put(b, d) ==
  /\ view' = [view EXCEPT ![b] = [s \in Sectors |-> d]]
  /\ UNCHANGED <<disk, since>>

Persist(b, s) ==
  /\ disk' = [disk EXCEPT ![b][s] = view[b][s]]
  /\ since' = [since EXCEPT ![b][s] = @ \cup {view[b][s]}]
  /\ UNCHANGED view

Sync ==
  /\ since' = [b \in Blocks |-> [s \in Sectors |-> {disk[b][s]}]]
  /\ UNCHANGED <<view, disk>>

\* A commit gives up, having tried to write sector s of b or not: the blocks
\* it had not written are as the device has them.
Forget ==
  \E lost \in SUBSET Blocks :
    /\ \/ UNCHANGED <<disk, since>>
       \/ \E b \in lost, s \in Sectors :
            /\ disk' = [disk EXCEPT ![b][s] = view[b][s]]
            /\ since' = [since EXCEPT ![b][s] = @ \cup {view[b][s]}]
    /\ view' = [b \in Blocks |-> IF b \in lost THEN disk'[b] ELSE view[b]]

PowerLoss ==
  /\ disk' \in [Blocks -> Image]
  /\ \A b \in Blocks : \A s \in Sectors : disk'[b][s] \in since[b][s]
  /\ view' = disk'
  /\ since' = [b \in Blocks |-> [s \in Sectors |-> {disk'[b][s]}]]

StoreNext ==
  \/ \E b \in Blocks, d \in Data : Put(b, d)
  \/ \E b \in Blocks, s \in Sectors : Persist(b, s)
  \/ Sync
  \/ Forget
  \/ PowerLoss

StoreSpec == StoreInit /\ [][StoreNext]_storeVars
=============================================================================
