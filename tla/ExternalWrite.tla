---------------------------- MODULE ExternalWrite ----------------------------
(***************************************************************************)
(* What the owner of an external write that must not be repeated is        *)
(* promised: the provider sees it at most once, and only after it was      *)
(* granted; a write that is recorded as done was seen; a write that is     *)
(* recorded as not done never will be; one whose outcome is unknown is     *)
(* never granted again, and may still be found to have happened.           *)
(***************************************************************************)
EXTENDS Naturals

CONSTANT Writes

VARIABLES
  outcome,  \* what is recorded of each write
  effects   \* how often the provider has seen it

vars == <<outcome, effects>>

Outcomes == {"open", "granted", "succeeded", "denied", "unknown"}

Become(w, from, to) ==
  /\ outcome[w] \in from
  /\ outcome' = [outcome EXCEPT ![w] = to]
  /\ UNCHANGED effects

Grant(w) == Become(w, {"open"}, "granted")
Deny(w) == Become(w, {"open"}, "denied")
GiveUp(w) == Become(w, {"granted"}, "unknown")
Succeed(w) == effects[w] = 1 /\ Become(w, {"granted", "unknown"}, "succeeded")

Happen(w) ==
  /\ outcome[w] \in {"granted", "unknown"} /\ effects[w] = 0
  /\ effects' = [effects EXCEPT ![w] = 1]
  /\ UNCHANGED outcome

Init ==
  /\ outcome = [w \in Writes |-> "open"]
  /\ effects = [w \in Writes |-> 0]

Next == \E w \in Writes : Grant(w) \/ Deny(w) \/ GiveUp(w) \/ Succeed(w)
                            \/ Happen(w)

Spec == Init /\ [][Next]_vars
=============================================================================
