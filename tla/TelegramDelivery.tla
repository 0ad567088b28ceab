--------------------------- MODULE TelegramDelivery ---------------------------
(***************************************************************************)
(* Messages about one custom order to its creator's Telegram account:      *)
(* telegram-delivery-authority-service.js, and the update of the order in  *)
(* custom-orders-service.js.                                               *)
(*                                                                         *)
(* Every message is the row of an intent: the TASK, reminders, and, when   *)
(* the order is cancelled, a CANCELLATION to whoever got the TASK.  A      *)
(* device claims a row, asks for the permit to send (begin), sends outside *)
(* of any transaction and reports.  begin reads the order without a lock;  *)
(* that what it read still holds is compared by CustomOrder.updatedAt in   *)
(* the transaction that gives the permit, and the manager's update does    *)
(* the same.  Every change of an intent's state locks its order row, by a  *)
(* trigger, so that what one transaction writes to both is one step.       *)
(*                                                                         *)
(* Left out: references and revision requests with the submissions they    *)
(* belong to, the reminder schedule (a reminder may be due, or no longer   *)
(* due, at any time), orders that complete, the creator's retirement, and  *)
(* the choice of the account. Which device claims a row plays no part:     *)
(* another one waits two minutes for what the same one may claim again at  *)
(* once. PLANNED stands for FAILED_PRECOMMIT too, which every handler      *)
(* treats alike. Every update of the order is taken to change updatedAt:   *)
(* two that fall on one millisecond are not told apart by the code.        *)
(***************************************************************************)
EXTENDS Naturals

CONSTANTS
  Task, Cancellation, \* the two intents an order has at most one of
  Reminders,          \* reminder intents
  MaxClaims,          \* bound on the claims of each
  MaxText             \* bound on the edits of what the TASK says

Intents == {Task, Cancellation} \union Reminders

ASSUME TelegramAssumption ==
  /\ Task # Cancellation /\ Task \notin Reminders /\ Cancellation \notin Reminders
  /\ MaxClaims \in [Intents -> Nat] /\ MaxText \in Nat

VARIABLES
  order,  \* CustomOrder row
  intent, \* TelegramDeliveryIntent rows
  desk,   \* claims whose device may still send, and those whose device has sent
  denied, \* claims an operator said sent nothing
  owed,   \* TELEGRAM_CONFIRMED_PROJECTION work
  edit    \* a manager's update that has been checked

vars == <<order, intent, desk, denied, owed, edit>>

Precommit == {"PLANNED", "CLAIMED"}

Unresolved == {"COMMITTING", "RECONCILE_REQUIRED"}

Permitted == Unresolved \union {"CONFIRMED"}

Absent == [state |-> "ABSENT", claim |-> 0, held |-> FALSE, text |-> 0,
           proof |-> "none", read |-> "none"]

Idle == [at |-> "idle", current |-> FALSE]

-----------------------------------------------------------------------------
(* Rows.                                                                   *)
(* Mutant: the token outlives its claim.                                   *)
KeepsToken(r, state) == [r EXCEPT !.state = state, !.read = "none"]

Dropped(r, state) == [r EXCEPT !.state = state, !.held = FALSE, !.read = "none"]

(* What the TASK says follows the order; the texts of the others are left out. *)
Planned(i) == [Dropped(intent[i], "PLANNED") EXCEPT
                 !.text = IF i = Task THEN order.text ELSE @]

Put(i, r) == intent' = [intent EXCEPT ![i] = r]

(* What a new CustomOrder.updatedAt does to those who compare it later.    *)
Stale(rows) == [i \in Intents |->
  [rows[i] EXCEPT !.read = IF @ = "fresh" THEN "stale" ELSE @]]

Touched == [edit EXCEPT !.current = FALSE]

(* ensureCancellationIntentForCancelledOrder: whoever got the TASK is told *)
(* that the order is cancelled; while that is unknown, nothing is planned. *)
Told(rows, status) ==
  IF status = "CANCELLED" /\ rows[Task].state = "CONFIRMED"
       /\ rows[Cancellation].state = "ABSENT"
  THEN [rows EXCEPT ![Cancellation].state = "PLANNED"]
  ELSE rows

Due(i) == order.status = IF i = Cancellation THEN "CANCELLED" ELSE "PENDING"

(* The schedule of a reminder may have moved on, too.                      *)
Obsolete(i) == ~Due(i) \/ i \in Reminders

NoOtherReminder(i) ==
  i \in Reminders => \A r \in Reminders \ {i} : intent[r].state \notin Unresolved

-----------------------------------------------------------------------------
(* Planning, and what brings rows up to date before the permit.            *)
PlanTask ==
  /\ intent[Task].state = "ABSENT" /\ order.status = "PENDING"
  /\ Put(Task, Planned(Task))
  /\ edit' \in {edit, Touched}
  /\ UNCHANGED <<order, desk, denied, owed>>

PlanReminder(r) ==
  /\ intent[r].state = "ABSENT" /\ order.status = "PENDING"
  /\ intent[Task].state = "CONFIRMED" /\ NoOtherReminder(r)
  /\ Put(r, Planned(r))
  /\ UNCHANGED <<order, desk, denied, owed, edit>>

PlanCancellation ==
  /\ intent' = Told(intent, order.status) /\ intent' # intent
  /\ UNCHANGED <<order, desk, denied, owed, edit>>

(* refreshPrecommitIntentFromCurrentState.  It compares the row's revision *)
(* when it writes, so it may be taken to happen where it read the order.   *)
(* A reminder's text, or the account, may have changed at any time.        *)
Refresh(i) ==
  /\ intent[i].state \in Precommit
  /\ \/ Due(i) /\ Put(i, Planned(i))
     \/ Obsolete(i) /\ Put(i, Dropped(intent[i], "CANCELLED"))
  /\ UNCHANGED <<order, desk, denied, owed, edit>>

Claim(i) ==
  /\ intent[i].state \in Precommit /\ intent[i].claim < MaxClaims[i]
  /\ Due(i) /\ NoOtherReminder(i)
  /\ Put(i, [Planned(i) EXCEPT !.state = "CLAIMED", !.held = TRUE, !.claim = @ + 1])
  /\ UNCHANGED <<order, desk, denied, owed, edit>>

-----------------------------------------------------------------------------
(* beginTelegramDeliveryIntent.                                            *)
BeginRead(i) ==
  /\ intent[i].state = "CLAIMED"
  /\ Due(i) /\ NoOtherReminder(i)
  /\ i = Task => intent[i].text = order.text
  /\ Put(i, [intent[i] EXCEPT !.read = "fresh"])
  /\ UNCHANGED <<order, desk, denied, owed, edit>>

(* Mutant: the order is not compared with what was read.                   *)
ComparesNothing(i) == intent[i].read # "none"

(* The cancellation of an order is final: nothing is compared for it.      *)
Compares(i) ==
  intent[i].read = "fresh" \/ (i = Cancellation /\ intent[i].read = "stale")

Begin(i) ==
  /\ intent[i].state = "CLAIMED" /\ Compares(i)
  /\ LET rows == [intent EXCEPT ![i].state = "COMMITTING", ![i].read = "none"]
     IN IF i = Cancellation THEN intent' = rows /\ edit' = edit
                            ELSE intent' = Stale(rows) /\ edit' = Touched
  /\ desk' = [desk EXCEPT ![i].may = @ \union {intent[i].claim}]
  /\ UNCHANGED <<order, denied, owed>>

(* begin fails, for what it read, compared or found expired, or the device *)
(* reports that it cannot send (failTelegramDeliveryPrecommit).            *)
GiveUp(i) ==
  /\ intent[i].state = "CLAIMED"
  /\ \/ Put(i, Dropped(intent[i], "PLANNED"))
     \/ Obsolete(i) /\ Put(i, Dropped(intent[i], "CANCELLED"))
  /\ UNCHANGED <<order, desk, denied, owed, edit>>

-----------------------------------------------------------------------------
(* The device sends, or knows that it will not, perhaps because no answer  *)
(* of begin has reached it, or nothing is heard of it any more.            *)
Send(i) ==
  /\ \E n \in desk[i].may :
       desk' = [desk EXCEPT ![i] = [may |-> @.may \ {n}, sent |-> @.sent \union {n}]]
  /\ UNCHANGED <<order, intent, denied, owed, edit>>

ProvenNotSent(i) ==
  /\ intent[i].held /\ intent[i].claim \notin desk[i].sent
  /\ intent[i].state \in {"CLAIMED"} \union Unresolved
  /\ LET rows == [intent EXCEPT ![i] = Dropped(@, "PLANNED")]
     IN intent' \in {rows, Told(rows, order.status)}
  /\ desk' = [desk EXCEPT ![i].may = @ \ {intent[i].claim}]
  /\ UNCHANGED <<order, denied, owed, edit>>

(* Mutant: a permit nobody reports on goes back to the queue.              *)
RetriedLapse(i) == Dropped(intent[i], "PLANNED")

Lapse(i) == [intent[i] EXCEPT !.state = "RECONCILE_REQUIRED"]

(* markTelegramDeliveryUnknown, or the next listing two minutes later.     *)
OutcomeUnknown(i) ==
  /\ intent[i].state = "COMMITTING"
  /\ Put(i, Lapse(i))
  /\ UNCHANGED <<order, desk, denied, owed, edit>>

(* The device's receipt, however late; it also proves what an operator     *)
(* confirmed before.                                                       *)
Confirm(i) ==
  /\ intent[i].held /\ intent[i].claim \in desk[i].sent
  /\ intent[i].state \in Permitted /\ intent[i].proof # "receipt"
  /\ Put(i, [intent[i] EXCEPT !.state = "CONFIRMED", !.proof = "receipt"])
  /\ owed' = owed \union {i}
  /\ UNCHANGED <<order, desk, denied, edit>>

-----------------------------------------------------------------------------
(* Mutant: only the schedule of a pending order follows the receipt.       *)
SettledPending(i, rows) == rows

(* What the proof of i adds to the other rows.                             *)
Settled(i, rows) == IF i = Task THEN Told(rows, order.status) ELSE rows

(* reconcileTelegramDeliveryIntent: the operator says what happened, and   *)
(* may be wrong, if only because a device still holds its permit.          *)
ReconcileConfirmed(i) ==
  /\ intent[i].state = "RECONCILE_REQUIRED"
  /\ LET rows == [intent EXCEPT ![i].state = "CONFIRMED", ![i].proof = "manual"]
     IN intent' = Settled(i, Stale(rows))
  /\ order' = [order EXCEPT !.linked = @ \/ i = Task]
  /\ owed' = owed \union {i}
  /\ edit' = Touched
  /\ UNCHANGED <<desk, denied>>

(* Mutant: the operator need not wait until nobody knows better.           *)
DisownedEarly(i) ==
  /\ intent[i].state \in Unresolved
  /\ intent' = Told([intent EXCEPT ![i] = Dropped(@, "PLANNED")], order.status)
  /\ denied' = [denied EXCEPT ![i] = @ \union {intent[i].claim}]
  /\ UNCHANGED <<order, desk, owed, edit>>

ReconcileNotSent(i) ==
  /\ intent[i].state = "RECONCILE_REQUIRED"
  /\ intent' = Told([intent EXCEPT ![i] = Dropped(@, "PLANNED")], order.status)
  /\ denied' = [denied EXCEPT ![i] = @ \union {intent[i].claim}]
  /\ UNCHANGED <<order, desk, owed, edit>>

-----------------------------------------------------------------------------
(* projectConfirmedIntent: by the device's call, an operator's retry or    *)
(* the sweep, until the work is done.  The order is linked in one          *)
(* statement and read again for the rest.                                  *)
Link ==
  /\ intent[Task].state = "CONFIRMED" /\ ~order.linked
  /\ order' = [order EXCEPT !.linked = TRUE]
  /\ intent' = Stale(intent) /\ edit' = Touched
  /\ UNCHANGED <<desk, denied, owed>>

Project(i) ==
  /\ i \in owed /\ (i = Task => order.linked)
  /\ owed' = owed \ {i}
  /\ IF i = Cancellation \/ (i = Task /\ order.status # "PENDING")
     THEN intent' = Settled(i, intent) /\ edit' = edit
     ELSE intent' = Stale(Settled(i, intent)) /\ edit' = Touched
  /\ UNCHANGED <<order, desk, denied>>

-----------------------------------------------------------------------------
(* updateCustomOrder.                                                      *)

Fenced == order.linked \/ intent[Task].state \in Permitted

Check(what) ==
  /\ edit = Idle /\ order.status = "PENDING"
  /\ what = "text" => ~Fenced /\ order.text < MaxText
  /\ edit' = [at |-> what, current |-> TRUE]
  /\ UNCHANGED <<order, intent, desk, denied, owed>>

Edit ==
  /\ edit.at = "text" /\ edit.current
  /\ order' = [order EXCEPT !.text = @ + 1]
  /\ intent' = Stale(intent) /\ edit' = Idle
  /\ UNCHANGED <<desk, denied, owed>>

Cancel ==
  /\ edit.at = "cancel" /\ edit.current
  /\ order' = [order EXCEPT !.status = "CANCELLED"]
  /\ intent' = Told(Stale(intent), "CANCELLED") /\ edit' = Idle
  /\ UNCHANGED <<desk, denied, owed>>

EditConflict ==
  /\ edit # Idle /\ ~edit.current
  /\ edit' = Idle
  /\ UNCHANGED <<order, intent, desk, denied, owed>>

-----------------------------------------------------------------------------
Init ==
  /\ order = [status |-> "PENDING", text |-> 0, linked |-> FALSE]
  /\ intent = [i \in Intents |-> Absent]
  /\ desk = [i \in Intents |-> [may |-> {}, sent |-> {}]]
  /\ denied = [i \in Intents |-> {}]
  /\ owed = {} /\ edit = Idle

Next ==
  \/ PlanTask \/ PlanCancellation \/ Link \/ Edit \/ Cancel \/ EditConflict
  \/ \E r \in Reminders : PlanReminder(r)
  \/ \E what \in {"text", "cancel"} : Check(what)
  \/ \E i \in Intents :
       \/ Refresh(i) \/ Claim(i) \/ BeginRead(i) \/ Begin(i) \/ GiveUp(i)
       \/ OutcomeUnknown(i) \/ ReconcileConfirmed(i) \/ ReconcileNotSent(i)
       \/ Send(i) \/ ProvenNotSent(i) \/ Confirm(i) \/ Project(i)

Spec == Init /\ [][Next]_vars

(* runTelegramConfirmedProjectionSweep works off what is owed.             *)
FairSpec == Spec /\ WF_vars(Link \/ Project(Task))

-----------------------------------------------------------------------------
IntentRow ==
  [state : {"ABSENT", "CANCELLED"} \union Precommit \union Permitted,
   claim : Nat, held : BOOLEAN, text : 0..MaxText,
   proof : {"none", "manual", "receipt"}, read : {"none", "fresh", "stale"}]

(* The types of the rows, and a row has the token of its claim as long as  *)
(* that claim may send or report, no longer.                               *)
TypeOK ==
  /\ order \in [status : {"PENDING", "CANCELLED"}, text : 0..MaxText, linked : BOOLEAN]
  /\ intent \in [Intents -> IntentRow]
  /\ \A i \in Intents :
       /\ intent[i].held <=> intent[i].state \in {"CLAIMED"} \union Permitted
       /\ desk[i].may \union desk[i].sent \union denied[i] \subseteq 0..intent[i].claim
  /\ desk \in [Intents -> [may : SUBSET Nat, sent : SUBSET Nat]]
  /\ denied \in [Intents -> SUBSET Nat]
  /\ owed \subseteq Intents
  /\ edit \in [at : {"idle", "text", "cancel"}, current : BOOLEAN]

(* A message that is out, or may still go out by a permit, is on record    *)
(* under the claim that sent it, so that nobody else sends it, unless an   *)
(* operator said that nothing was sent; and of an order's reminders one at *)
(* most is on its way or of unknown fate.                                  *)
OutOnRecord ==
  /\ \A i \in Intents : \A n \in (desk[i].may \union desk[i].sent) \ denied[i] :
       n = intent[i].claim /\ intent[i].state \in Permitted
  /\ \A r, s \in Reminders :
       intent[r].state \in Unresolved /\ intent[s].state \in Unresolved => r = s

(* What the creator was told, or may have been, is what the order says.    *)
TaskTellsOrder ==
  intent[Task].state \in Permitted => intent[Task].text = order.text

(* What the row says of claim n of the message i: an earlier claim was     *)
(* given up without a permit or proved to have sent nothing.               *)
Fate(i, n) ==
  LET r == intent[i]
  IN IF n \in denied[i] THEN "disowned"
     ELSE IF n > r.claim \/ (n = r.claim /\ r.state = "CLAIMED") THEN "open"
     ELSE IF n < r.claim \/ r.state \notin Permitted THEN "denied"
     ELSE IF r.state = "COMMITTING" THEN "granted"
     ELSE IF r.state = "RECONCILE_REQUIRED" THEN "unknown"
     ELSE IF r.proof = "receipt" THEN "succeeded" ELSE "trusted"

Promise == INSTANCE MessageAttempts WITH
  Messages <- Intents, Last <- MaxClaims,
  outcome <- [i \in Intents |-> [n \in 1..MaxClaims[i] |-> Fate(i, n)]],
  sent <- [i \in Intents |-> desk[i].sent]

(* No message is tried again before its last attempt is over, whatever is  *)
(* lost or late, and what was settled is never taken back: MessageAttempts.*)
Promised == Promise!Spec

(* Whoever got the TASK of an order that is cancelled is told so, however  *)
(* late the receipt, and though every device is gone.                      *)
CancellationFollows ==
  order.status = "CANCELLED" /\ intent[Task].state = "CONFIRMED"
    ~> intent[Cancellation].state # "ABSENT"
=============================================================================
