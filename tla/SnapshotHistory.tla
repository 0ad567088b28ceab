--------------------------- MODULE SnapshotHistory ---------------------------
(***************************************************************************)
(* What readers of a directory are promised that is replaced by one        *)
(* snapshot after the other: what they are shown is complete and never     *)
(* older than what they were shown before, and no complete snapshot is     *)
(* passed over, since the next is only completed when the last has been    *)
(* shown and settled.                                                      *)
(***************************************************************************)
EXTENDS Naturals

CONSTANT Snapshots  \* numbers from 1, newer ones are greater

VARIABLES
  complete,  \* snapshots that have all of their pages
  shown,     \* the snapshot that readers see, 0: none yet
  settled    \* snapshots that are dealt with for good

vars == <<complete, shown, settled>>

Complete(s) ==
  /\ complete = settled /\ \A t \in complete : t < s
  /\ complete' = complete \cup {s}
  /\ UNCHANGED <<shown, settled>>

Show(s) ==
  /\ s \in complete \ settled /\ shown < s
  /\ shown' = s
  /\ UNCHANGED <<complete, settled>>

Settle(s) ==
  /\ s \in complete \ settled /\ shown = s
  /\ settled' = settled \cup {s}
  /\ UNCHANGED <<complete, shown>>

Init == complete = {} /\ shown = 0 /\ settled = {}

Next == \E s \in Snapshots : Complete(s) \/ Show(s) \/ Settle(s)

Spec == Init /\ [][Next]_vars
=============================================================================
