--------------------------- MODULE IncrementalView ---------------------------
(***************************************************************************)
(* What the owner of a projection is promised that is brought up to date   *)
(* part by part while its source changes: no part goes back or ahead of    *)
(* the source; a view is only called settled when all of its parts are at  *)
(* the source as it is then; and it stays so until the source changes.     *)
(***************************************************************************)
EXTENDS Naturals

CONSTANTS Views, Parts

VARIABLES
  source,   \* revision of each view's source
  view,     \* revision of the source that each part was last made from
  settled   \* views that are called up to date

vars == <<source, view, settled>>

(* One step may change many sources and bring parts up to date.            *)
Advance(v) ==
  /\ source'[v] >= source[v]
  /\ \A p \in Parts : view[v][p] <= view'[v][p] /\ view'[v][p] <= source'[v]

Settle(v) == v \in settled' => \A p \in Parts : view'[v][p] = source'[v]

Unsettle(v) == v \in settled => v \in settled' \/ source'[v] > source[v]

Init ==
  /\ source = [v \in Views |-> 0]
  /\ view = [v \in Views |-> [p \in Parts |-> 0]]
  /\ settled = {}

Next ==
  /\ source' \in [Views -> Nat] /\ view' \in [Views -> [Parts -> Nat]]
  /\ settled' \subseteq Views
  /\ \A v \in Views : Advance(v) /\ Settle(v) /\ Unsettle(v)

Spec == Init /\ [][Next]_vars
=============================================================================
