--------------------------- MODULE CheckpointSlot ---------------------------
(***************************************************************************)
(* What the checkpoint store promises its callers, with none of the file   *)
(* protocol: one campaign id owns one slot and one superseded document,    *)
(* and every step swaps complete documents.  A damaged document is never   *)
(* replaced in place; it can only be moved aside or removed.               *)
(* CheckpointStore implements this specification.                          *)
(***************************************************************************)
CONSTANTS Doc,      \* complete checkpoint documents
          Absent,   \* no file
          Damaged   \* a file that no reader accepts (corrupt, oversized, unsafe)

VARIABLES slot, superseded

slotVars == <<slot, superseded>>

SlotInit == /\ slot \in Doc \cup {Absent, Damaged}
            /\ superseded = Absent

\* A publication replaces the absent or readable document by a complete one.
Install == /\ slot # Damaged
           /\ slot' \in Doc
           /\ UNCHANGED superseded

\* A fresh run of the same id moves the stored document aside, unread.
Aside == /\ slot # Absent
         /\ superseded' = slot
         /\ slot' = Absent

\* Terminal cleanup.
Clear == /\ slot' = Absent
         /\ UNCHANGED superseded

SlotNext == Install \/ Aside \/ Clear

SlotSpec == SlotInit /\ [][SlotNext]_slotVars
=============================================================================
