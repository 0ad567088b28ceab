---------------------------- MODULE RefreshedFacts ----------------------------
(***************************************************************************)
(* What whoever asks for facts to be refreshed is promised: each fact is   *)
(* only replaced by what was observed and seen later, whoever brings it    *)
(* and however late, and a request is only done when every fact was        *)
(* observed anew since it was asked.                                       *)
(***************************************************************************)
EXTENDS Naturals

CONSTANTS Subjects, Requests

VARIABLES
  source,  \* version of what the facts are about
  fact,    \* of each subject: when it was observed, what version was seen
  asked,   \* requests that were made
  cutoff,  \* when a request was made
  done     \* requests that were fulfilled

vars == <<source, fact, asked, cutoff, done>>

Change ==
  /\ source' = source + 1
  /\ UNCHANGED <<fact, asked, cutoff, done>>

Ask(r) ==
  /\ r \notin asked /\ asked' = asked \cup {r}
  /\ cutoff' \in [Requests -> Nat]
  /\ \A q \in Requests \ {r} : cutoff'[q] = cutoff[q]
  /\ \A s \in Subjects : fact[s].at <= cutoff'[r]
  /\ UNCHANGED <<source, fact, done>>

Learn(s) ==
  /\ fact' \in [Subjects -> [at : Nat, saw : Nat]]
  /\ \A t \in Subjects \ {s} : fact'[t] = fact[t]
  /\ fact[s].at < fact'[s].at /\ fact[s].saw <= fact'[s].saw
  /\ fact'[s].saw <= source
  /\ UNCHANGED <<source, asked, cutoff, done>>

Finish(r) ==
  /\ r \in asked \ done /\ \A s \in Subjects : cutoff[r] < fact[s].at
  /\ done' = done \cup {r}
  /\ UNCHANGED <<source, fact, asked, cutoff>>

Init ==
  /\ source = 1
  /\ fact = [s \in Subjects |-> [at |-> 0, saw |-> 0]]
  /\ asked \subseteq Requests
  /\ cutoff = [r \in Requests |-> 0]
  /\ done = {}

Next ==
  \/ Change
  \/ \E r \in Requests : Ask(r) \/ Finish(r)
  \/ \E s \in Subjects : Learn(s)

Spec == Init /\ [][Next]_vars
=============================================================================
