--------------------------- MODULE CommandOutcome ---------------------------
(***************************************************************************)
(* What a client of a command endpoint is promised, whatever conflicts,    *)
(* retries, resends, expiries and lost answers happen on the way: every    *)
(* command identity is decided once, by one request and for one intent; a  *)
(* success has its effect exactly once, anything else has none; and what a *)
(* client is told agrees with what is durable.                             *)
(***************************************************************************)
EXTENDS Naturals

CONSTANTS
  Requests,   \* HTTP requests: first sends and resends
  Commands,   \* command identities (actorId, commandId)
  CommandOf,  \* [Requests -> Commands]
  IntentOf,   \* [Requests -> intents]: action, target and payload
  Undecided   \* no request has decided the command

VARIABLES
  decision,   \* [Commands -> [by, outcome]] or Undecided
  effects,    \* how often the command's domain effect is durable
  feed,       \* how often its change is in the durable change feed
  hinted,     \* how often its advisory notification was sent
  answer      \* what each request was told; "none" before

vars == <<decision, effects, feed, hinted, answer>>

Outcomes == {"SUCCEEDED", "REJECTED"}
Refusals == {"denied", "conflict"}
Answers == Outcomes \cup Refusals \cup {"none", "mismatch", "unknown"}

Decided(c) == decision[c] # Undecided

Decide(r, outcome) ==
  LET c == CommandOf[r]
  IN /\ ~Decided(c) /\ answer[r] = "none"
     /\ decision' = [decision EXCEPT ![c] = [by |-> r, outcome |-> outcome]]
     /\ IF outcome = "SUCCEEDED"
        THEN /\ effects' = [effects EXCEPT ![c] = @ + 1]
             /\ feed' \in {feed, [feed EXCEPT ![c] = @ + 1]}
        ELSE UNCHANGED <<effects, feed>>
     /\ UNCHANGED <<hinted, answer>>

Agrees(r, a) ==
  LET d == decision[CommandOf[r]]
  IN /\ a \in Outcomes => /\ Decided(CommandOf[r]) /\ d.outcome = a
                          /\ IntentOf[d.by] = IntentOf[r]
     /\ a = "mismatch" => /\ Decided(CommandOf[r])
                          /\ IntentOf[d.by] # IntentOf[r]
     /\ a \in Refusals /\ Decided(CommandOf[r]) => d.by # r

Respond(r, a) ==
  LET c == CommandOf[r]
  IN /\ answer[r] = "none" /\ a # "none" /\ Agrees(r, a)
     /\ answer' = [answer EXCEPT ![r] = a]
     /\ \/ UNCHANGED hinted
        \/ /\ Decided(c) /\ decision[c].by = r
           /\ decision[c].outcome = "SUCCEEDED"
           /\ hinted' = [hinted EXCEPT ![c] = @ + 1]
     /\ UNCHANGED <<decision, effects, feed>>

Init ==
  /\ decision = [c \in Commands |-> Undecided]
  /\ effects = [c \in Commands |-> 0]
  /\ feed = [c \in Commands |-> 0]
  /\ hinted = [c \in Commands |-> 0]
  /\ answer = [r \in Requests |-> "none"]

Next ==
  \E r \in Requests :
    \/ \E outcome \in Outcomes : Decide(r, outcome)
    \/ \E a \in Answers : Respond(r, a)

Spec == Init /\ [][Next]_vars
=============================================================================
