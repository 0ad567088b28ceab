--------------------------- MODULE MessageAttempts ---------------------------
(***************************************************************************)
(* What the sender of a message that may be tried again is promised: an    *)
(* attempt is granted only when every other one was given up before it     *)
(* was granted, is known to have sent nothing, or was disowned by somebody *)
(* who may be wrong; only that word, given when nobody knew better, makes  *)
(* a message go out twice.  An attempt that is recorded as having sent     *)
(* nothing never will, one that is recorded by its receipt did, and        *)
(* neither is ever taken back.                                             *)
(***************************************************************************)
EXTENDS Naturals

CONSTANTS
  Messages,
  Last       \* [Messages -> Nat], the attempts there may be

VARIABLES
  outcome,   \* what is recorded of each attempt
  sent       \* the attempts of each message that did send

vars == <<outcome, sent>>

(* What may be recorded after what.                                        *)
Turns == [open      |-> {"granted", "denied"},
          granted   |-> {"unknown", "denied", "succeeded"},
          unknown   |-> {"trusted", "disowned", "denied", "succeeded"},
          trusted   |-> {"succeeded"},
          succeeded |-> {}, denied |-> {}, disowned |-> {}]

(* Attempts that stand in nobody's way.                                    *)
Over == {"open", "denied", "disowned"}

Record(m, n, to) ==
  /\ to \in Turns[outcome[m][n]]
  /\ to = "granted" => \A k \in 1..Last[m] \ {n} : outcome[m][k] \in Over
  /\ to = "denied" => n \notin sent[m]
  /\ to = "succeeded" => n \in sent[m]
  /\ outcome' = [outcome EXCEPT ![m][n] = to]
  /\ UNCHANGED sent

Happen(m, n) ==
  /\ outcome[m][n] \in {"granted", "unknown", "trusted", "disowned"}
  /\ n \notin sent[m]
  /\ sent' = [sent EXCEPT ![m] = @ \union {n}]
  /\ UNCHANGED outcome

Init ==
  /\ outcome = [m \in Messages |-> [n \in 1..Last[m] |-> "open"]]
  /\ sent = [m \in Messages |-> {}]

(* The first conjunct follows from the second.  TLC asks it first.         *)
Next ==
  \E m \in Messages :
    /\ <<outcome[m], sent[m]>>' # <<outcome[m], sent[m]>>
    /\ \E n \in 1..Last[m] :
         \/ \E to \in Turns[outcome[m][n]] : Record(m, n, to)
         \/ Happen(m, n)

Spec == Init /\ [][Next]_vars
=============================================================================
