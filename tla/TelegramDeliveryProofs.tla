----------------------- MODULE TelegramDeliveryProofs -----------------------
(***************************************************************************)
(* Proofs about TelegramDelivery.  A step rewrites one row, and what it    *)
(* does to the order may make what other rows have read stale or plan the  *)
(* CANCELLATION: Follows says what such a change leaves of the rows.       *)
(***************************************************************************)
EXTENDS TelegramDelivery, TLAPS

-----------------------------------------------------------------------------
(* The invariant.                                                          *)

(* What begin has read still holds while nobody has moved the order on.    *)
ReadsHold ==
  /\ \A i \in Intents : intent[i].read # "none" => intent[i].state = "CLAIMED"
  /\ \A r \in Reminders : intent[r].read = "fresh" => NoOtherReminder(r)
  /\ intent[Task].read = "fresh" => intent[Task].text = order.text

(* So does what the manager's update has checked.                          *)
EditHolds ==
  edit.at = "text" =>
    /\ order.text < MaxText
    /\ edit.current => intent[Task].state \notin Permitted

IInv == TypeOK /\ OutOnRecord /\ TaskTellsOrder /\ ReadsHold /\ EditHolds

Follows(mid, rows) ==
  /\ rows \in [Intents -> IntentRow]
  /\ \A i \in Intents :
       /\ rows[i].claim = mid[i].claim /\ rows[i].held = mid[i].held
       /\ rows[i].text = mid[i].text
       /\ \/ rows[i].state = mid[i].state
          \/ i = Cancellation /\ mid[i].state = "ABSENT" /\ rows[i].state = "PLANNED"
       /\ rows[i].read = mid[i].read \/ (mid[i].read = "fresh" /\ rows[i].read = "stale")

LEMMA FollowsSelf == \A mid \in [Intents -> IntentRow] : Follows(mid, mid)
BY DEF Follows

LEMMA FollowsStale ==
  \A mid \in [Intents -> IntentRow] :
    Follows(mid, Stale(mid)) /\ \A i \in Intents : Stale(mid)[i].read # "fresh"
BY DEF Follows, Stale, IntentRow

LEMMA FollowsTold ==
  ASSUME NEW mid \in [Intents -> IntentRow], NEW status
  PROVE  /\ Follows(mid, Told(mid, status))
         /\ \A i \in Intents : Told(mid, status)[i].read = mid[i].read
<1>1. Cancellation \in Intents
  BY DEF Intents
<1>2. [mid[Cancellation] EXCEPT !.state = "PLANNED"] \in IntentRow
  BY <1>1 DEF IntentRow, Precommit
<1> QED  BY <1>1, <1>2 DEF Follows, Told, IntentRow

LEMMA FollowsOn ==
  ASSUME NEW a \in [Intents -> IntentRow], NEW b, NEW c, Follows(a, b), Follows(b, c)
  PROVE  Follows(a, c)
BY DEF Follows

LEMMA FollowsSettled ==
  ASSUME NEW mid \in [Intents -> IntentRow], NEW i \in Intents
  PROVE  /\ Follows(mid, Settled(i, mid))
         /\ \A j \in Intents : Settled(i, mid)[j].read = mid[j].read
BY FollowsTold, FollowsSelf DEF Settled

-----------------------------------------------------------------------------
(* Rows.                                                                   *)
LEMMA DroppedType ==
  \A r \in IntentRow, s \in {"PLANNED", "CANCELLED"} :
    /\ Dropped(r, s) \in IntentRow
    /\ Dropped(r, s).state = s /\ ~Dropped(r, s).held /\ Dropped(r, s).read = "none"
    /\ Dropped(r, s).claim = r.claim /\ Dropped(r, s).text = r.text
BY DEF Dropped, IntentRow, Precommit

LEMMA ClaimedType ==
  \A r \in IntentRow, n \in Nat :
    LET c == [r EXCEPT !.state = "CLAIMED", !.held = TRUE, !.claim = n]
    IN c \in IntentRow /\ c.state = "CLAIMED" /\ c.held /\ c.claim = n /\ c.read = r.read
BY DEF IntentRow, Precommit

LEMMA PlannedType ==
  ASSUME TypeOK, NEW i \in Intents
  PROVE  /\ Planned(i) \in IntentRow
         /\ Planned(i).state = "PLANNED" /\ ~Planned(i).held /\ Planned(i).read = "none"
         /\ Planned(i).claim = intent[i].claim
<1>1. intent[i] \in IntentRow /\ order.text \in 0..MaxText
  BY DEF TypeOK
<1>2. Dropped(intent[i], "PLANNED") \in IntentRow
  BY <1>1, DroppedType
<1> QED  BY <1>1, <1>2, DroppedType DEF Planned, IntentRow

(* A step that rewrites the row of i to r and touches nothing that the     *)
(* devices, the operator or the manager hold.                              *)
LEMMA RowStep ==
  ASSUME IInv, NEW i \in Intents, NEW r \in IntentRow, Put(i, r),
         intent[i].state \notin Permitted, r.state \notin Permitted,
         r.held <=> r.state = "CLAIMED",
         r.claim \in {intent[i].claim, intent[i].claim + 1},
         r.read # "none" => r.state = "CLAIMED",
         r.read = "fresh" =>
           NoOtherReminder(i) /\ (i = Task => r.text = order.text),
         UNCHANGED <<order, desk, denied, owed>>, edit' \in {edit, Touched}
  PROVE  IInv'
<1>1. /\ intent' \in [Intents -> IntentRow] /\ intent'[i] = r
      /\ \A j \in Intents \ {i} : intent'[j] = intent[j]
  BY DEF Put, IInv, TypeOK
<1>2. TypeOK'
  <2>1. /\ desk' = desk /\ denied' = denied /\ owed' = owed /\ order' = order
        /\ edit' \in [at : {"idle", "text", "cancel"}, current : BOOLEAN]
    BY DEF IInv, TypeOK, Touched
  <2>2. \A j \in Intents :
          /\ intent'[j].held <=> intent'[j].state \in {"CLAIMED"} \union Permitted
          /\ intent'[j].claim \in {intent[j].claim, intent[j].claim + 1}
    BY <1>1 DEF IInv, TypeOK
  <2>3. \A j \in Intents :
          desk[j].may \union desk[j].sent \union denied[j] \subseteq 0..intent'[j].claim
    <3> SUFFICES ASSUME NEW j \in Intents
                 PROVE  0..intent[j].claim \subseteq 0..intent'[j].claim
      BY DEF IInv, TypeOK
    <3> QED  BY <2>2 DEF IInv, TypeOK, IntentRow
  <2> QED  BY <1>1, <2>1, <2>2, <2>3 DEF IInv, TypeOK
<1>3. OutOnRecord'
  BY <1>1 DEF IInv, OutOnRecord, TypeOK, IntentRow, Intents, Permitted
<1>4. TaskTellsOrder'
  BY <1>1 DEF IInv, TaskTellsOrder, Intents
<1>5. ReadsHold'
  BY <1>1 DEF IInv, ReadsHold, NoOtherReminder, Permitted, Intents
<1>6. EditHolds'
  BY <1>1 DEF IInv, EditHolds, Touched, TypeOK, Intents
<1> QED  BY <1>2, <1>3, <1>4, <1>5, <1>6 DEF IInv

(* A step after which the rows follow mid.                                 *)
LEMMA Ripple ==
  ASSUME NEW mid \in [Intents -> IntentRow], Follows(mid, intent'),
         order' \in [status : {"PENDING", "CANCELLED"}, text : 0..MaxText, linked : BOOLEAN],
         desk' \in [Intents -> [may : SUBSET Nat, sent : SUBSET Nat]],
         denied' \in [Intents -> SUBSET Nat], owed' \subseteq Intents,
         edit' \in [at : {"idle", "text", "cancel"}, current : BOOLEAN],
         \A j \in Intents :
           /\ mid[j].held <=> mid[j].state \in {"CLAIMED"} \union Permitted
           /\ desk'[j].may \union desk'[j].sent \union denied'[j] \subseteq 0..mid[j].claim
           /\ mid[j].read # "none" => mid[j].state = "CLAIMED",
         \A j \in Intents : \A n \in (desk'[j].may \union desk'[j].sent) \ denied'[j] :
           n = mid[j].claim /\ mid[j].state \in Permitted,
         \A r, q \in Reminders :
           mid[r].state \in Unresolved /\ mid[q].state \in Unresolved => r = q,
         mid[Task].state \in Permitted => mid[Task].text = order'.text,
         \A r, q \in Reminders :
           intent'[r].read = "fresh" /\ r # q => mid[q].state \notin Unresolved,
         intent'[Task].read = "fresh" => mid[Task].text = order'.text,
         edit'.at = "text" => /\ order'.text < MaxText
                              /\ edit'.current => mid[Task].state \notin Permitted
  PROVE  IInv'
<1>1. /\ Task \in Intents /\ Cancellation \in Intents /\ Reminders \subseteq Intents
      /\ Task # Cancellation /\ Cancellation \notin Reminders
  BY TelegramAssumption DEF Intents
<1>2. \A j \in Intents :
        /\ intent'[j].claim = mid[j].claim /\ intent'[j].held = mid[j].held
        /\ intent'[j].text = mid[j].text
        /\ intent'[j].state = mid[j].state
             \/ (j = Cancellation /\ mid[j].state = "ABSENT" /\ intent'[j].state = "PLANNED")
        /\ intent'[j].read = mid[j].read \/ (mid[j].read = "fresh" /\ intent'[j].read = "stale")
  BY DEF Follows
<1>3. \A j \in Intents : j # Cancellation => intent'[j].state = mid[j].state
  BY <1>2
<1>4. TypeOK'
  <2>1. \A j \in Intents :
          /\ intent'[j].held <=> intent'[j].state \in {"CLAIMED"} \union Permitted
          /\ desk'[j].may \union desk'[j].sent \union denied'[j] \subseteq 0..intent'[j].claim
    BY <1>2 DEF Permitted, Unresolved
  <2> QED  BY <2>1 DEF TypeOK, Follows
<1>5. OutOnRecord'
  <2>1. \A j \in Intents : \A n \in (desk'[j].may \union desk'[j].sent) \ denied'[j] :
          n = intent'[j].claim /\ intent'[j].state \in Permitted
    BY <1>2 DEF Permitted, Unresolved
  <2>2. \A r, q \in Reminders :
          intent'[r].state \in Unresolved /\ intent'[q].state \in Unresolved => r = q
    BY <1>1, <1>3
  <2> QED  BY <2>1, <2>2 DEF OutOnRecord
<1>6. TaskTellsOrder'
  BY <1>1, <1>2, <1>3 DEF TaskTellsOrder
<1>7. ReadsHold'
  <2>1. \A j \in Intents : intent'[j].read # "none" => intent'[j].state = "CLAIMED"
    BY <1>2
  <2>2. \A r \in Reminders : intent'[r].read = "fresh" =>
          \A q \in Reminders \ {r} : intent'[q].state \notin Unresolved
    BY <1>1, <1>3
  <2>3. intent'[Task].read = "fresh" => intent'[Task].text = order'.text
    BY <1>1, <1>2
  <2> QED  BY <2>1, <2>2, <2>3 DEF ReadsHold, NoOtherReminder
<1>8. EditHolds'
  BY <1>1, <1>3 DEF EditHolds
<1> QED  BY <1>4, <1>5, <1>6, <1>7, <1>8 DEF IInv

(* A step that gives, uses and ends no permit.                             *)
LEMMA QuietStep ==
  ASSUME IInv, Follows(intent, intent'), UNCHANGED <<desk, denied>>, owed' \subseteq Intents,
         order' \in [status : {"PENDING", "CANCELLED"}, text : 0..MaxText, linked : BOOLEAN],
         edit' \in [at : {"idle", "text", "cancel"}, current : BOOLEAN],
         \/ order'.text = order.text
         \/ intent[Task].state \notin Permitted /\ intent'[Task].read # "fresh",
         edit'.at = "text" => /\ order'.text < MaxText
                              /\ edit'.current => intent[Task].state \notin Permitted
  PROVE  IInv'
<1>1. Task \in Intents /\ Reminders \subseteq Intents
  BY DEF Intents
<1>2. \A j \in Intents : intent'[j].read = "fresh" => intent[j].read = "fresh"
  BY DEF Follows
<1>3. intent[Task].state \in Permitted => intent[Task].text = order'.text
  BY DEF IInv, TaskTellsOrder
<1>4. intent'[Task].read = "fresh" => intent[Task].text = order'.text
  BY <1>1, <1>2 DEF IInv, ReadsHold
<1>5. \A r, q \in Reminders :
        intent'[r].read = "fresh" /\ r # q => intent[q].state \notin Unresolved
  BY <1>1, <1>2 DEF IInv, ReadsHold, NoOtherReminder
<1>6. \A j \in Intents : intent[j].read # "none" => intent[j].state = "CLAIMED"
  BY DEF IInv, ReadsHold
<1> QED  BY <1>3, <1>4, <1>5, <1>6, Ripple DEF IInv, TypeOK, OutOnRecord

-----------------------------------------------------------------------------
(* Steps that rewrite one row before its permit.                           *)
LEMMA PlanTaskStep == ASSUME IInv, PlanTask PROVE IInv'
<1>1. Task \in Intents
  BY DEF Intents
<1> QED  BY <1>1, PlannedType, RowStep DEF PlanTask, IInv, Permitted, Unresolved

LEMMA PlanReminderStep ==
  ASSUME IInv, NEW r \in Reminders, PlanReminder(r) PROVE IInv'
<1>1. r \in Intents
  BY DEF Intents
<1> QED  BY <1>1, PlannedType, RowStep DEF PlanReminder, IInv, Permitted, Unresolved

LEMMA RefreshStep == ASSUME IInv, NEW i \in Intents, Refresh(i) PROVE IInv'
<1>1. intent[i] \in IntentRow
  BY DEF IInv, TypeOK
<1>2. intent[i].state \notin Permitted
  BY DEF Refresh, Precommit, Permitted, Unresolved
<1>3. CASE Put(i, Planned(i)) /\ Due(i)
  BY <1>2, <1>3, PlannedType, RowStep DEF Refresh, IInv, Permitted, Unresolved
<1>4. CASE Put(i, Dropped(intent[i], "CANCELLED"))
  BY <1>1, <1>2, <1>4, DroppedType, RowStep DEF Refresh, Permitted, Unresolved
<1> QED  BY <1>3, <1>4 DEF Refresh

LEMMA ClaimStep == ASSUME IInv, NEW i \in Intents, Claim(i) PROVE IInv'
<1> DEFINE r == [Planned(i) EXCEPT !.state = "CLAIMED", !.held = TRUE, !.claim = @ + 1]
<1>1. intent[i].state \notin Permitted
  BY DEF Claim, Precommit, Permitted, Unresolved
<1>2. Planned(i) \in IntentRow /\ Planned(i).read = "none"
        /\ Planned(i).claim = intent[i].claim
  BY PlannedType DEF IInv
<1>3. /\ r \in IntentRow /\ r.state = "CLAIMED" /\ r.held /\ r.read = "none"
      /\ r.claim = intent[i].claim + 1
  <2>1. Planned(i).claim + 1 \in Nat
    BY <1>2 DEF IntentRow
  <2>2. r = [Planned(i) EXCEPT !.state = "CLAIMED", !.held = TRUE,
                               !.claim = intent[i].claim + 1]
    BY <1>2
  <2> HIDE DEF r
  <2> QED  BY <1>2, <2>1, <2>2, ClaimedType
<1>4. Put(i, r) /\ UNCHANGED <<order, desk, denied, owed>> /\ edit' = edit
  BY DEF Claim
<1> HIDE DEF r
<1> QED  BY <1>1, <1>3, <1>4, RowStep DEF Permitted, Unresolved

LEMMA BeginReadStep == ASSUME IInv, NEW i \in Intents, BeginRead(i) PROVE IInv'
<1> DEFINE r == [intent[i] EXCEPT !.read = "fresh"]
<1>1. intent[i] \in IntentRow /\ (intent[i].held <=> intent[i].state \in {"CLAIMED"} \union Permitted)
  BY DEF IInv, TypeOK
<1>2. /\ r \in IntentRow /\ r.state = "CLAIMED" /\ r.held /\ r.text = intent[i].text
      /\ r.claim = intent[i].claim
  BY <1>1 DEF IntentRow, BeginRead
<1>3. /\ Put(i, r) /\ UNCHANGED <<order, desk, denied, owed>> /\ edit' = edit
      /\ NoOtherReminder(i) /\ (i = Task => intent[i].text = order.text)
      /\ intent[i].state = "CLAIMED"
  BY DEF BeginRead
<1> HIDE DEF r
<1> QED  BY <1>2, <1>3, RowStep DEF Permitted, Unresolved

LEMMA GiveUpStep == ASSUME IInv, NEW i \in Intents, GiveUp(i) PROVE IInv'
<1>1. intent[i] \in IntentRow /\ intent[i].state = "CLAIMED"
  BY DEF IInv, TypeOK, GiveUp
<1>2. PICK s \in {"PLANNED", "CANCELLED"} : Put(i, Dropped(intent[i], s))
  BY DEF GiveUp
<1>3. UNCHANGED <<order, desk, denied, owed>> /\ edit' = edit
  BY DEF GiveUp
<1> QED  BY <1>1, <1>2, <1>3, DroppedType, RowStep DEF Permitted, Unresolved

-----------------------------------------------------------------------------
(* Steps that leave the rows to what follows from the order.               *)
LEMMA OrderTypes ==
  ASSUME IInv
  PROVE  /\ intent \in [Intents -> IntentRow] /\ owed \subseteq Intents
         /\ order \in [status : {"PENDING", "CANCELLED"}, text : 0..MaxText, linked : BOOLEAN]
         /\ edit \in [at : {"idle", "text", "cancel"}, current : BOOLEAN]
         /\ Touched \in [at : {"idle", "text", "cancel"}, current : BOOLEAN]
         /\ Touched.at = edit.at /\ ~Touched.current
         /\ Idle \in [at : {"idle", "text", "cancel"}, current : BOOLEAN]
         /\ Idle.at = "idle"
         /\ edit.at = "text" => /\ order.text < MaxText
                                /\ edit.current => intent[Task].state \notin Permitted
BY DEF IInv, TypeOK, EditHolds, Touched, Idle

LEMMA PlanCancellationStep == ASSUME IInv, PlanCancellation PROVE IInv'
BY OrderTypes, FollowsTold, QuietStep DEF PlanCancellation

LEMMA LinkStep == ASSUME IInv, Link PROVE IInv'
<1>1. /\ order' \in [status : {"PENDING", "CANCELLED"}, text : 0..MaxText, linked : BOOLEAN]
      /\ order'.text = order.text
  BY OrderTypes DEF Link
<1> QED  BY <1>1, OrderTypes, FollowsStale, QuietStep DEF Link

LEMMA ProjectStep == ASSUME IInv, NEW i \in Intents, Project(i) PROVE IInv'
<1>1. Settled(i, intent) \in [Intents -> IntentRow] /\ Follows(intent, Settled(i, intent))
  BY OrderTypes, FollowsSettled DEF Follows
<1>2. Follows(intent, Stale(Settled(i, intent)))
  BY <1>1, OrderTypes, FollowsStale, FollowsOn
<1>3. Follows(intent, intent') /\ edit' \in {edit, Touched}
  BY <1>1, <1>2 DEF Project
<1>4. owed' \subseteq Intents /\ UNCHANGED <<order, desk, denied>>
  BY OrderTypes DEF Project
<1> QED  BY <1>3, <1>4, OrderTypes, QuietStep

LEMMA CheckStep ==
  ASSUME IInv, NEW what \in {"text", "cancel"}, Check(what) PROVE IInv'
<1>1. /\ edit' \in [at : {"idle", "text", "cancel"}, current : BOOLEAN]
      /\ edit'.at = "text" => order.text < MaxText /\ intent[Task].state \notin Permitted
  BY DEF Check, Fenced
<1>2. UNCHANGED <<order, intent, desk, denied, owed>>
  BY DEF Check
<1> QED  BY <1>1, <1>2, OrderTypes, FollowsSelf, QuietStep

LEMMA EditStep == ASSUME IInv, Edit PROVE IInv'
<1>1. order.text < MaxText /\ intent[Task].state \notin Permitted
  BY OrderTypes DEF Edit
<1>2. order' \in [status : {"PENDING", "CANCELLED"}, text : 0..MaxText, linked : BOOLEAN]
  <2>1. order.text + 1 \in 0..MaxText
    BY <1>1, OrderTypes, TelegramAssumption
  <2> QED  BY <2>1, OrderTypes DEF Edit
<1>3. Task \in Intents
  BY DEF Intents
<1>4. intent' = Stale(intent) /\ edit' = Idle /\ UNCHANGED <<desk, denied, owed>>
  BY DEF Edit
<1>5. Follows(intent, intent') /\ intent'[Task].read # "fresh"
  BY <1>3, <1>4, OrderTypes, FollowsStale
<1> QED  BY <1>1, <1>2, <1>4, <1>5, OrderTypes, QuietStep

LEMMA CancelStep == ASSUME IInv, Cancel PROVE IInv'
<1>1. /\ order' \in [status : {"PENDING", "CANCELLED"}, text : 0..MaxText, linked : BOOLEAN]
      /\ order'.text = order.text
  BY OrderTypes DEF Cancel
<1>2. Follows(intent, Stale(intent)) /\ Stale(intent) \in [Intents -> IntentRow]
  BY OrderTypes, FollowsStale DEF Follows
<1>3. Follows(intent, intent')
  BY <1>2, OrderTypes, FollowsTold, FollowsOn DEF Cancel
<1> QED  BY <1>1, <1>3, OrderTypes, QuietStep DEF Cancel

LEMMA EditConflictStep == ASSUME IInv, EditConflict PROVE IInv'
BY OrderTypes, FollowsSelf, QuietStep DEF EditConflict

-----------------------------------------------------------------------------
(* Steps that give, use or end the permit of i: they write its row to r,   *)
(* move what its devices or the operator hold, and let the order follow.   *)
LEMMA PermitStep ==
  ASSUME IInv, NEW i \in Intents, NEW r \in IntentRow,
         Follows([intent EXCEPT ![i] = r], intent'),
         r.claim = intent[i].claim, r.read = "none",
         r.held <=> r.state \in {"CLAIMED"} \union Permitted,
         desk' \in [Intents -> [may : SUBSET Nat, sent : SUBSET Nat]],
         denied' \in [Intents -> SUBSET Nat],
         \A j \in Intents \ {i} : desk'[j] = desk[j] /\ denied'[j] = denied[j],
         desk'[i].may \union desk'[i].sent \union denied'[i] \subseteq 0..r.claim,
         \A n \in (desk'[i].may \union desk'[i].sent) \ denied'[i] :
           n = r.claim /\ r.state \in Permitted,
         r.state \in Unresolved => NoOtherReminder(i),
         i = Task /\ r.state \in Permitted => r.text = order.text,
         \/ r.state \in Unresolved => intent[i].state \in Unresolved
         \/ i = Cancellation
         \/ \A j \in Intents : intent'[j].read # "fresh",
         edit' \in {edit, Touched},
         \/ i # Task \/ edit' = Touched
         \/ r.state \in Permitted => intent[i].state \in Permitted,
         owed' \subseteq Intents, order'.text = order.text,
         order' \in [status : {"PENDING", "CANCELLED"}, text : 0..MaxText, linked : BOOLEAN]
  PROVE  IInv'
<1> DEFINE mid == [intent EXCEPT ![i] = r]
<1>1. /\ mid \in [Intents -> IntentRow] /\ mid[i] = r
      /\ \A j \in Intents \ {i} : mid[j] = intent[j]
  BY DEF IInv, TypeOK
<1>2. Task \in Intents /\ Reminders \subseteq Intents /\ Cancellation \notin Reminders
  BY TelegramAssumption DEF Intents
<1>3. Follows(mid, intent')
  OBVIOUS
<1> HIDE DEF mid
<1>4. \A j \in Intents :
        /\ mid[j].held <=> mid[j].state \in {"CLAIMED"} \union Permitted
        /\ desk'[j].may \union desk'[j].sent \union denied'[j] \subseteq 0..mid[j].claim
        /\ mid[j].read # "none" => mid[j].state = "CLAIMED"
  BY <1>1 DEF IInv, TypeOK, ReadsHold
<1>5. \A j \in Intents : \A n \in (desk'[j].may \union desk'[j].sent) \ denied'[j] :
        n = mid[j].claim /\ mid[j].state \in Permitted
  BY <1>1 DEF IInv, OutOnRecord
<1>6. \A p, q \in Reminders :
        mid[p].state \in Unresolved /\ mid[q].state \in Unresolved => p = q
  BY <1>1, <1>2 DEF IInv, OutOnRecord, NoOtherReminder
<1>7. mid[Task].state \in Permitted => mid[Task].text = order'.text
  BY <1>1, <1>2 DEF IInv, TaskTellsOrder
<1>8. \A j \in Intents : intent'[j].read = "fresh" => mid[j].read = "fresh" /\ j # i
  BY <1>1, <1>3 DEF Follows
<1>9. \A p, q \in Reminders :
        intent'[p].read = "fresh" /\ p # q => mid[q].state \notin Unresolved
  BY <1>1, <1>2, <1>8 DEF IInv, ReadsHold, NoOtherReminder
<1>10. intent'[Task].read = "fresh" => mid[Task].text = order'.text
  BY <1>1, <1>2, <1>8 DEF IInv, ReadsHold
<1>11. /\ edit' \in [at : {"idle", "text", "cancel"}, current : BOOLEAN]
       /\ edit'.at = "text" => /\ order'.text < MaxText
                               /\ edit'.current => mid[Task].state \notin Permitted
  BY <1>1, <1>2, OrderTypes
<1> QED  BY <1>1, <1>3, <1>4, <1>5, <1>6, <1>7, <1>9, <1>10, <1>11, Ripple

LEMMA BeginStep == ASSUME IInv, NEW i \in Intents, Begin(i) PROVE IInv'
<1> DEFINE r == [intent[i] EXCEPT !.state = "COMMITTING", !.read = "none"]
           mid == [intent EXCEPT ![i] = r]
<1>1. /\ intent \in [Intents -> IntentRow] /\ intent[i].state = "CLAIMED" /\ intent[i].held
      /\ intent[i].claim \in Nat
  BY DEF IInv, TypeOK, Begin, IntentRow
<1>2. /\ r \in IntentRow /\ r.state = "COMMITTING" /\ r.held /\ r.read = "none"
      /\ r.claim = intent[i].claim /\ r.text = intent[i].text
  BY <1>1 DEF IntentRow, Permitted, Unresolved
<1>3. mid = [intent EXCEPT ![i].state = "COMMITTING", ![i].read = "none"]
  BY <1>1
<1>4. mid \in [Intents -> IntentRow]
  BY <1>1, <1>2
<1>5. IF i = Cancellation THEN intent' = mid /\ edit' = edit
                          ELSE intent' = Stale(mid) /\ edit' = Touched
  BY <1>3 DEF Begin
<1> HIDE DEF r
<1>6. /\ Follows(mid, intent') /\ edit' \in {edit, Touched}
      /\ i # Cancellation => /\ edit' = Touched
                             /\ \A j \in Intents : intent'[j].read # "fresh"
  BY <1>4, <1>5, FollowsSelf, FollowsStale
<1>7. NoOtherReminder(i) /\ (i = Task => intent[i].text = order.text)
  BY TelegramAssumption DEF Begin, Compares, IInv, ReadsHold, NoOtherReminder
<1>8. /\ desk' = [desk EXCEPT ![i].may = @ \union {intent[i].claim}]
      /\ UNCHANGED <<order, denied, owed>>
  BY DEF Begin
<1>9. /\ desk' \in [Intents -> [may : SUBSET Nat, sent : SUBSET Nat]]
      /\ \A j \in Intents \ {i} : desk'[j] = desk[j]
      /\ desk'[i].may = desk[i].may \union {intent[i].claim}
      /\ desk'[i].sent = desk[i].sent
  BY <1>1, <1>8 DEF IInv, TypeOK
<1>10. desk'[i].may \union desk'[i].sent \union denied'[i] \subseteq 0..r.claim
  BY <1>1, <1>2, <1>8, <1>9 DEF IInv, TypeOK
<1>11. \A n \in (desk'[i].may \union desk'[i].sent) \ denied'[i] :
         n = r.claim /\ r.state \in Permitted
  BY <1>1, <1>2, <1>8, <1>9 DEF IInv, OutOnRecord, Permitted, Unresolved
<1>12. /\ i = Cancellation \/ \A j \in Intents : intent'[j].read # "fresh"
       /\ i # Task \/ edit' = Touched
  BY <1>6, TelegramAssumption
<1>13. /\ order'.text = order.text /\ owed' \subseteq Intents
       /\ order' \in [status : {"PENDING", "CANCELLED"}, text : 0..MaxText, linked : BOOLEAN]
       /\ denied' \in [Intents -> SUBSET Nat]
       /\ \A j \in Intents \ {i} : desk'[j] = desk[j] /\ denied'[j] = denied[j]
  BY <1>8, <1>9 DEF IInv, TypeOK
<1>14. r.held <=> r.state \in {"CLAIMED"} \union Permitted
  BY <1>2 DEF Permitted, Unresolved
<1>15. Follows([intent EXCEPT ![i] = r], intent') /\ edit' \in {edit, Touched}
  BY <1>6
<1>16. i = Task /\ r.state \in Permitted => r.text = order.text
  BY <1>2, <1>7
<1> QED
  BY <1>2, <1>7, <1>9, <1>10, <1>11, <1>12, <1>13, <1>14, <1>15, <1>16, PermitStep

LEMMA SendStep == ASSUME IInv, NEW i \in Intents, Send(i) PROVE IInv'
<1>1. PICK n \in desk[i].may :
        desk' = [desk EXCEPT ![i] = [may |-> @.may \ {n}, sent |-> @.sent \union {n}]]
  BY DEF Send
<1>2. UNCHANGED <<order, intent, denied, owed, edit>>
  BY DEF Send
<1>3. /\ desk' \in [Intents -> [may : SUBSET Nat, sent : SUBSET Nat]]
      /\ \A j \in Intents :
           desk'[j].may \union desk'[j].sent = desk[j].may \union desk[j].sent
  BY <1>1 DEF IInv, TypeOK
<1>4. TypeOK'
  BY <1>2, <1>3 DEF IInv, TypeOK
<1>5. OutOnRecord'
  BY <1>2, <1>3 DEF IInv, OutOnRecord
<1> QED
  BY <1>2, <1>4, <1>5 DEF IInv, TaskTellsOrder, ReadsHold, NoOtherReminder, EditHolds

LEMMA ProvenNotSentStep == ASSUME IInv, NEW i \in Intents, ProvenNotSent(i) PROVE IInv'
<1> DEFINE r == Dropped(intent[i], "PLANNED")
           mid == [intent EXCEPT ![i] = r]
<1>1. /\ intent \in [Intents -> IntentRow] /\ intent[i].claim \notin desk[i].sent
      /\ UNCHANGED <<order, denied, owed, edit>>
      /\ desk' = [desk EXCEPT ![i].may = @ \ {intent[i].claim}]
  BY DEF IInv, TypeOK, ProvenNotSent
<1>2. /\ r \in IntentRow /\ r.state = "PLANNED" /\ ~r.held /\ r.read = "none"
      /\ r.claim = intent[i].claim
  BY <1>1, DroppedType
<1>3. mid \in [Intents -> IntentRow]
  BY <1>1, <1>2
<1>4. intent' \in {mid, Told(mid, order.status)}
  BY DEF ProvenNotSent
<1>5. Follows(mid, intent')
  <2> HIDE DEF mid
  <2> QED  BY <1>3, <1>4, FollowsSelf, FollowsTold
<1>6. /\ desk' \in [Intents -> [may : SUBSET Nat, sent : SUBSET Nat]]
      /\ \A j \in Intents \ {i} : desk'[j] = desk[j]
      /\ desk'[i].may = desk[i].may \ {intent[i].claim}
      /\ desk'[i].sent = desk[i].sent
  BY <1>1 DEF IInv, TypeOK
<1> HIDE DEF r
<1>7. /\ desk'[i].may \union desk'[i].sent \union denied'[i] \subseteq 0..r.claim
      /\ \A n \in (desk'[i].may \union desk'[i].sent) \ denied'[i] :
           n = r.claim /\ r.state \in Permitted
  BY <1>1, <1>2, <1>6 DEF IInv, TypeOK, OutOnRecord
<1> QED
  BY <1>1, <1>2, <1>5, <1>6, <1>7, OrderTypes, PermitStep
     DEF IInv, TypeOK, Permitted, Unresolved

LEMMA OutcomeUnknownStep == ASSUME IInv, NEW i \in Intents, OutcomeUnknown(i) PROVE IInv'
<1> DEFINE r == Lapse(i)
           mid == [intent EXCEPT ![i] = r]
<1>1. /\ intent \in [Intents -> IntentRow] /\ intent[i].state = "COMMITTING"
      /\ intent[i].held /\ intent[i].read = "none" /\ intent' = mid
      /\ UNCHANGED <<order, desk, denied, owed, edit>>
  BY DEF IInv, TypeOK, ReadsHold, OutcomeUnknown, Put, Permitted, Unresolved
<1>2. /\ r \in IntentRow /\ r.state = "RECONCILE_REQUIRED" /\ r.held /\ r.read = "none"
      /\ r.claim = intent[i].claim /\ r.text = intent[i].text
  BY <1>1 DEF IntentRow, Permitted, Unresolved, Lapse
<1>3. Follows(mid, intent')
  <2>1. mid \in [Intents -> IntentRow]
    BY <1>1, <1>2
  <2> HIDE DEF mid
  <2> QED  BY <1>1, <2>1, FollowsSelf
<1> HIDE DEF r
<1>4. NoOtherReminder(i) /\ (i = Task => intent[i].text = order.text)
  BY <1>1 DEF IInv, OutOnRecord, TaskTellsOrder, NoOtherReminder, Permitted, Unresolved
<1>5. /\ desk'[i].may \union desk'[i].sent \union denied'[i] \subseteq 0..r.claim
      /\ \A n \in (desk'[i].may \union desk'[i].sent) \ denied'[i] :
           n = r.claim /\ r.state \in Permitted
  BY <1>1, <1>2 DEF IInv, TypeOK, OutOnRecord, Permitted, Unresolved
<1> QED
  BY <1>1, <1>2, <1>3, <1>4, <1>5, OrderTypes, PermitStep
     DEF IInv, TypeOK, Permitted, Unresolved

LEMMA ConfirmStep == ASSUME IInv, NEW i \in Intents, Confirm(i) PROVE IInv'
<1> DEFINE r == [intent[i] EXCEPT !.state = "CONFIRMED", !.proof = "receipt"]
           mid == [intent EXCEPT ![i] = r]
<1>1. /\ intent \in [Intents -> IntentRow] /\ intent[i].state \in Permitted
      /\ intent[i].held /\ intent[i].read = "none" /\ intent' = mid
      /\ UNCHANGED <<order, desk, denied, edit>> /\ owed' \subseteq Intents
  BY DEF IInv, TypeOK, ReadsHold, Confirm, Put, Permitted, Unresolved
<1>2. /\ r \in IntentRow /\ r.state = "CONFIRMED" /\ r.held /\ r.read = "none"
      /\ r.claim = intent[i].claim /\ r.text = intent[i].text
  BY <1>1 DEF IntentRow, Permitted
<1>3. Follows(mid, intent')
  <2>1. mid \in [Intents -> IntentRow]
    BY <1>1, <1>2
  <2> HIDE DEF mid
  <2> QED  BY <1>1, <2>1, FollowsSelf
<1> HIDE DEF r
<1>4. i = Task => intent[i].text = order.text
  BY <1>1 DEF IInv, TaskTellsOrder
<1>5. /\ desk'[i].may \union desk'[i].sent \union denied'[i] \subseteq 0..r.claim
      /\ \A n \in (desk'[i].may \union desk'[i].sent) \ denied'[i] :
           n = r.claim /\ r.state \in Permitted
  BY <1>1, <1>2 DEF IInv, TypeOK, OutOnRecord, Permitted
<1> QED
  BY <1>1, <1>2, <1>3, <1>4, <1>5, OrderTypes, PermitStep
     DEF IInv, TypeOK, Permitted, Unresolved

LEMMA ReconcileConfirmedStep ==
  ASSUME IInv, NEW i \in Intents, ReconcileConfirmed(i) PROVE IInv'
<1> DEFINE r == [intent[i] EXCEPT !.state = "CONFIRMED", !.proof = "manual"]
           mid == [intent EXCEPT ![i] = r]
<1>1. /\ intent \in [Intents -> IntentRow] /\ intent[i].state = "RECONCILE_REQUIRED"
      /\ intent[i].held /\ intent[i].read = "none"
      /\ UNCHANGED <<desk, denied>> /\ owed' \subseteq Intents /\ edit' = Touched
  BY DEF IInv, TypeOK, ReadsHold, ReconcileConfirmed, Permitted, Unresolved
<1>2. /\ r \in IntentRow /\ r.state = "CONFIRMED" /\ r.held /\ r.read = "none"
      /\ r.claim = intent[i].claim /\ r.text = intent[i].text
  BY <1>1 DEF IntentRow, Permitted
<1>3. mid = [intent EXCEPT ![i].state = "CONFIRMED", ![i].proof = "manual"]
  BY <1>1
<1>4. intent' = Settled(i, Stale(mid)) /\ mid \in [Intents -> IntentRow]
  BY <1>1, <1>2, <1>3 DEF ReconcileConfirmed
<1> HIDE DEF r
<1>5. Follows(mid, Stale(mid)) /\ Stale(mid) \in [Intents -> IntentRow]
  BY <1>4, FollowsStale DEF Follows
<1>6. Follows(mid, intent')
  BY <1>4, <1>5, FollowsSettled, FollowsOn
<1>7. /\ order' \in [status : {"PENDING", "CANCELLED"}, text : 0..MaxText, linked : BOOLEAN]
      /\ order'.text = order.text
  BY OrderTypes DEF ReconcileConfirmed
<1>8. i = Task => intent[i].text = order.text
  BY <1>1 DEF IInv, TaskTellsOrder, Permitted, Unresolved
<1>9. /\ desk'[i].may \union desk'[i].sent \union denied'[i] \subseteq 0..r.claim
      /\ \A n \in (desk'[i].may \union desk'[i].sent) \ denied'[i] :
           n = r.claim /\ r.state \in Permitted
  BY <1>1, <1>2 DEF IInv, TypeOK, OutOnRecord, Permitted
<1> QED
  BY <1>1, <1>2, <1>6, <1>7, <1>8, <1>9, OrderTypes, PermitStep
     DEF IInv, TypeOK, Permitted, Unresolved

LEMMA ReconcileNotSentStep ==
  ASSUME IInv, NEW i \in Intents, ReconcileNotSent(i) PROVE IInv'
<1> DEFINE r == Dropped(intent[i], "PLANNED")
           mid == [intent EXCEPT ![i] = r]
<1>1. /\ intent \in [Intents -> IntentRow] /\ intent[i].claim \in Nat
      /\ UNCHANGED <<order, desk, owed, edit>>
      /\ denied' = [denied EXCEPT ![i] = @ \union {intent[i].claim}]
      /\ intent' = Told(mid, order.status)
  BY DEF IInv, TypeOK, IntentRow, ReconcileNotSent
<1>2. /\ r \in IntentRow /\ r.state = "PLANNED" /\ ~r.held /\ r.read = "none"
      /\ r.claim = intent[i].claim
  BY <1>1, DroppedType
<1>3. mid \in [Intents -> IntentRow]
  BY <1>1, <1>2
<1>4. Follows(mid, intent')
  BY <1>1, <1>3, FollowsTold
<1>5. /\ denied' \in [Intents -> SUBSET Nat]
      /\ \A j \in Intents \ {i} : denied'[j] = denied[j]
      /\ denied'[i] = denied[i] \union {intent[i].claim}
  BY <1>1 DEF IInv, TypeOK
<1> HIDE DEF r
<1>6. /\ desk'[i].may \union desk'[i].sent \union denied'[i] \subseteq 0..r.claim
      /\ \A n \in (desk'[i].may \union desk'[i].sent) \ denied'[i] :
           n = r.claim /\ r.state \in Permitted
  BY <1>1, <1>2, <1>5 DEF IInv, TypeOK, OutOnRecord
<1> QED
  BY <1>1, <1>2, <1>4, <1>5, <1>6, OrderTypes, PermitStep
     DEF IInv, TypeOK, Permitted, Unresolved

-----------------------------------------------------------------------------
LEMMA InitHolds == Init => IInv
<1> SUFFICES ASSUME Init PROVE IInv
  OBVIOUS
<1>1. /\ \A i \in Intents : intent[i] = Absent
      /\ Task \in Intents /\ Reminders \subseteq Intents
  BY DEF Init, Intents
<1>2. Absent \in IntentRow
  BY TelegramAssumption DEF Absent, IntentRow
<1>3. TypeOK
  BY <1>1, <1>2, TelegramAssumption DEF Init, TypeOK, Absent, Idle, Permitted, Unresolved
<1> QED
  BY <1>1, <1>3 DEF IInv, Init, OutOnRecord, TaskTellsOrder, ReadsHold, EditHolds,
                    Absent, Idle, Permitted, Unresolved

LEMMA StepHolds == IInv /\ [Next]_vars => IInv'
<1> SUFFICES ASSUME IInv, [Next]_vars PROVE IInv'
  OBVIOUS
<1>1. CASE UNCHANGED vars
  BY <1>1 DEF vars, IInv, TypeOK, OutOnRecord, TaskTellsOrder, ReadsHold, NoOtherReminder,
              EditHolds
<1>2. CASE PlanTask \/ PlanCancellation \/ Link \/ Edit \/ Cancel \/ EditConflict
  BY <1>2, PlanTaskStep, PlanCancellationStep, LinkStep, EditStep, CancelStep,
     EditConflictStep
<1>3. CASE \E r \in Reminders : PlanReminder(r)
  BY <1>3, PlanReminderStep
<1>4. CASE \E what \in {"text", "cancel"} : Check(what)
  BY <1>4, CheckStep
<1>5. CASE \E i \in Intents :
             \/ Refresh(i) \/ Claim(i) \/ BeginRead(i) \/ Begin(i) \/ GiveUp(i)
             \/ OutcomeUnknown(i) \/ ReconcileConfirmed(i) \/ ReconcileNotSent(i)
             \/ Send(i) \/ ProvenNotSent(i) \/ Confirm(i) \/ Project(i)
  BY <1>5, RefreshStep, ClaimStep, BeginReadStep, BeginStep, GiveUpStep,
     OutcomeUnknownStep, ReconcileConfirmedStep, ReconcileNotSentStep, SendStep,
     ProvenNotSentStep, ConfirmStep, ProjectStep
<1> QED  BY <1>1, <1>2, <1>3, <1>4, <1>5 DEF Next

LEMMA Holds == Spec => []IInv
BY InitHolds, StepHolds, PTL DEF Spec

(* Rows keep their types, and a token lives as long as its claim.          *)
THEOREM TypeCorrect == Spec => []TypeOK
<1>1. IInv => TypeOK
  BY DEF IInv
<1> QED  BY <1>1, Holds, PTL

(* Nothing is out, or may still go out, that the rows know nothing of, and *)
(* never are two reminders of one order.                                   *)
THEOREM MessagesOnRecord == Spec => []OutOnRecord
<1>1. IInv => OutOnRecord
  BY DEF IInv
<1> QED  BY <1>1, Holds, PTL

(* The order never moves away from a TASK that was or may have been sent.  *)
THEOREM OrderStaysTold == Spec => []TaskTellsOrder
<1>1. IInv => TaskTellsOrder
  BY DEF IInv
<1> QED  BY <1>1, Holds, PTL

-----------------------------------------------------------------------------
(* The claims of one message, which MessageAttempts speaks of.             *)

Live == {"CLAIMED"} \union Permitted

(* A claim counts from one and is in at most one hand; the one that may    *)
(* still send is not one the operator denied; and a receipt has been sent. *)
ClaimsAt(i) ==
  /\ intent[i].claim \in 0..MaxClaims[i]
  /\ intent[i].state \in Live => intent[i].claim # 0 /\ intent[i].claim \notin denied[i]
  /\ desk[i].may \intersect desk[i].sent = {}
  /\ desk[i].may \union desk[i].sent \subseteq 1..MaxClaims[i]
  /\ intent[i].state = "CONFIRMED" /\ intent[i].proof = "receipt" =>
       intent[i].claim \in desk[i].sent

ClaimsHold == \A i \in Intents : ClaimsAt(i)

(* Rows that say the same of every claim.                                  *)
Same(a, b) ==
  /\ a.claim = b.claim /\ a.proof = b.proof
  /\ a.state = b.state \/ (a.state \notin Live /\ b.state \notin Live)

Still(j) ==
  Same(intent[j], intent'[j]) /\ desk'[j] = desk[j] /\ denied'[j] = denied[j]

LEMMA SameStale ==
  ASSUME NEW rows \in [Intents -> IntentRow]
  PROVE  \A j \in Intents : Same(rows[j], Stale(rows)[j])
BY DEF Same, Stale, IntentRow

LEMMA SameTold ==
  ASSUME NEW rows \in [Intents -> IntentRow], NEW status
  PROVE  \A j \in Intents : Same(rows[j], Told(rows, status)[j])
<1>1. CASE Told(rows, status) = rows
  BY <1>1 DEF Same
<1>2. CASE /\ Told(rows, status) = [rows EXCEPT ![Cancellation].state = "PLANNED"]
           /\ rows[Cancellation].state = "ABSENT"
  <2>1. Cancellation \in Intents /\ rows[Cancellation] \in IntentRow
    BY DEF Intents
  <2>2. \A j \in Intents : j # Cancellation => Told(rows, status)[j] = rows[j]
    BY <1>2
  <2>3. /\ Told(rows, status)[Cancellation].claim = rows[Cancellation].claim
        /\ Told(rows, status)[Cancellation].proof = rows[Cancellation].proof
        /\ Told(rows, status)[Cancellation].state = "PLANNED"
    BY <1>2, <2>1 DEF IntentRow
  <2> QED  BY <1>2, <2>2, <2>3 DEF Same, Live, Permitted, Unresolved
<1> QED  BY <1>1, <1>2 DEF Told

LEMMA SameOn ==
  ASSUME NEW a, NEW b, NEW c, Same(a, b), Same(b, c) PROVE Same(a, c)
BY DEF Same

LEMMA SameSettled ==
  ASSUME NEW rows \in [Intents -> IntentRow], NEW i \in Intents
  PROVE  \A j \in Intents : Same(rows[j], Settled(i, rows)[j])
BY SameTold DEF Settled, Same

-----------------------------------------------------------------------------
(* Fates.                                                                  *)
LEMMA StillFate ==
  ASSUME NEW j \in Intents, Still(j), NEW n \in Nat
  PROVE  Fate(j, n)' = Fate(j, n)
BY DEF Still, Same, Fate, Live, Permitted, Unresolved

LEMMA StillClaims ==
  ASSUME ClaimsHold, NEW j \in Intents, Still(j) PROVE ClaimsAt(j)'
BY DEF ClaimsHold, ClaimsAt, Still, Same, Live, Permitted

(* Only the last claim of a row has more than one fate to come.            *)
LEMMA OldFate ==
  ASSUME NEW i \in Intents, NEW n \in Nat, n # intent[i].claim,
         intent[i].claim \in Nat, intent'[i].claim = intent[i].claim, n \in denied'[i] <=> n \in denied[i]
  PROVE  Fate(i, n)' = Fate(i, n)
BY DEF Fate

LEMMA StillAll ==
  ASSUME IInv, ClaimsHold, \A j \in Intents : Still(j)
  PROVE  ClaimsHold' /\ UNCHANGED Promise!vars
<1>1. ClaimsHold'
  BY StillClaims DEF ClaimsHold
<1>2. \A j \in Intents : \A n \in 1..MaxClaims[j] : Fate(j, n)' = Fate(j, n)
  BY StillFate
<1>3. \A j \in Intents : desk'[j].sent = desk[j].sent
  BY DEF Still
<1> QED  BY <1>1, <1>2, <1>3 DEF Promise!vars

(* A step that moves the row of i and records of one of its claims.        *)
LEMMA Recorded ==
  ASSUME NEW i \in Intents, \A j \in Intents \ {i} : Still(j),
         desk'[i].sent = desk[i].sent,
         NEW n \in 1..MaxClaims[i], NEW to, Fate(i, n)' = to,
         \A k \in 1..MaxClaims[i] \ {n} : Fate(i, k)' = Fate(i, k),
         to \in Promise!Turns[Fate(i, n)], to # Fate(i, n),
         to = "granted" =>
           \A k \in 1..MaxClaims[i] \ {n} : Fate(i, k) \in Promise!Over,
         to = "denied" => n \notin desk[i].sent,
         to = "succeeded" => n \in desk[i].sent
  PROVE  Promise!Next
<1> DEFINE F == [j \in Intents |-> [k \in 1..MaxClaims[j] |-> Fate(j, k)]]
           G == [j \in Intents |-> [k \in 1..MaxClaims[j] |-> Fate(j, k)']]
<1>1. \A j \in Intents : \A k \in 1..MaxClaims[j] :
        Fate(j, k)' = IF j = i /\ k = n THEN to ELSE Fate(j, k)
  BY StillFate
<1>2. G = [F EXCEPT ![i][n] = to]
  BY <1>1
<1>3. [j \in Intents |-> desk'[j].sent] = [j \in Intents |-> desk[j].sent]
  BY DEF Still
<1>4. F[i][n] = Fate(i, n) /\ G[i][n] = to /\ \A k \in 1..MaxClaims[i] : F[i][k] = Fate(i, k)
  BY <1>1
<1>5. Promise!Record(i, n, to)
  BY <1>2, <1>3, <1>4 DEF Promise!Record
<1>6. <<G[i], desk'[i].sent>> # <<F[i], desk[i].sent>>
  BY <1>4
<1> QED  BY <1>4, <1>5, <1>6 DEF Promise!Next

(* A step that writes the row of i, its claim standing, and records of it. *)
LEMMA ClaimStands ==
  ASSUME IInv, ClaimsHold, NEW i \in Intents, \A j \in Intents \ {i} : Still(j),
         intent'[i].claim = intent[i].claim, intent[i].claim # 0,
         desk'[i].sent = desk[i].sent,
         \A k \in Nat : k # intent[i].claim => (k \in denied'[i] <=> k \in denied[i]),
         NEW to, Fate(i, intent[i].claim)' = to,
         to \in Promise!Turns[Fate(i, intent[i].claim)], to # Fate(i, intent[i].claim),
         to = "granted" => intent[i].state = "CLAIMED",
         to = "denied" => intent[i].claim \notin desk[i].sent,
         to = "succeeded" => intent[i].claim \in desk[i].sent,
         ClaimsAt(i)'
  PROVE  ClaimsHold' /\ Promise!Next
<1>1. intent[i].claim \in 1..MaxClaims[i] /\ intent[i].claim \in Nat
  BY TelegramAssumption DEF ClaimsHold, ClaimsAt, IInv, TypeOK, IntentRow
<1>2. PICK n \in 1..MaxClaims[i] : n = intent[i].claim /\ n = intent'[i].claim
  BY <1>1
<1>3. \A k \in 1..MaxClaims[i] \ {n} : Fate(i, k)' = Fate(i, k)
  BY <1>1, <1>2, OldFate
<1>4. \A k \in 1..MaxClaims[i] \ {n} :
        intent[i].state = "CLAIMED" => Fate(i, k) \in Promise!Over
  BY <1>1, <1>2 DEF Fate, Promise!Over
<1>5. ClaimsHold'
  BY StillClaims DEF ClaimsHold
<1>6. Fate(i, n) = Fate(i, intent[i].claim) /\ Fate(i, n)' = to
  BY <1>2
<1>7. Promise!Next
  BY <1>2, <1>3, <1>4, <1>6, Recorded
<1> QED  BY <1>5, <1>7

-----------------------------------------------------------------------------
(* Steps that no claim notices.                                            *)
LEMMA PlannedSame ==
  ASSUME TypeOK, NEW i \in Intents, intent[i].state \notin Live
  PROVE  Same(intent[i], Planned(i))
<1>1. intent[i] \in IntentRow
  BY DEF TypeOK
<1> QED  BY <1>1 DEF Same, Planned, Dropped, IntentRow, Live, Permitted, Unresolved

LEMMA PutStill ==
  ASSUME IInv, NEW i \in Intents, NEW r, Put(i, r), Same(intent[i], r),
         UNCHANGED <<desk, denied>>
  PROVE  \A j \in Intents : Still(j)
BY DEF IInv, TypeOK, Put, Still, Same

LEMMA QuietSteps ==
  ASSUME IInv, ClaimsHold,
         PlanTask \/ PlanCancellation \/ Link \/ Edit \/ Cancel \/ EditConflict
           \/ (\E r \in Reminders : PlanReminder(r))
           \/ (\E what \in {"text", "cancel"} : Check(what))
           \/ (\E i \in Intents : BeginRead(i) \/ Project(i))
  PROVE  ClaimsHold' /\ UNCHANGED Promise!vars
<1>1. intent \in [Intents -> IntentRow] /\ Task \in Intents /\ Reminders \subseteq Intents
  BY DEF IInv, TypeOK, Intents
<1> SUFFICES \A j \in Intents : Still(j)
  BY StillAll
<1>2. CASE PlanTask
  <2>1. Same(intent[Task], Planned(Task))
    BY <1>1, <1>2, PlannedSame DEF PlanTask, IInv, Live, Permitted, Unresolved
  <2> QED  BY <1>1, <1>2, <2>1, PutStill DEF PlanTask
<1>3. CASE \E r \in Reminders : PlanReminder(r)
  <2>1. PICK r \in Reminders : PlanReminder(r)
    BY <1>3
  <2>2. Same(intent[r], Planned(r))
    BY <1>1, <2>1, PlannedSame DEF PlanReminder, IInv, Live, Permitted, Unresolved
  <2> QED  BY <1>1, <2>1, <2>2, PutStill DEF PlanReminder
<1>4. CASE PlanCancellation
  BY <1>1, <1>4, SameTold DEF PlanCancellation, Still
<1>5. CASE Link \/ Edit
  BY <1>1, <1>5, SameStale DEF Link, Edit, Still
<1>6. CASE Cancel
  <2>1. Stale(intent) \in [Intents -> IntentRow]
    BY <1>1, FollowsStale DEF Follows
  <2>2. \A j \in Intents : Same(intent[j], intent'[j])
    BY <1>1, <1>6, <2>1, SameStale, SameTold, SameOn DEF Cancel
  <2> QED  BY <1>6, <2>2 DEF Cancel, Still
<1>7. CASE EditConflict \/ \E what \in {"text", "cancel"} : Check(what)
  BY <1>7 DEF EditConflict, Check, Still, Same
<1>8. CASE \E i \in Intents : BeginRead(i)
  <2>1. PICK i \in Intents : BeginRead(i)
    BY <1>8
  <2>2. Same(intent[i], [intent[i] EXCEPT !.read = "fresh"])
    BY <1>1 DEF Same, IntentRow
  <2> QED  BY <2>1, <2>2, PutStill DEF BeginRead
<1>9. CASE \E i \in Intents : Project(i)
  <2>1. PICK i \in Intents : Project(i)
    BY <1>9
  <2>2. Settled(i, intent) \in [Intents -> IntentRow]
    BY <1>1, FollowsSettled DEF Follows
  <2>3. \A j \in Intents : Same(intent[j], intent'[j])
    BY <1>1, <2>1, <2>2, SameSettled, SameStale, SameOn DEF Project
  <2> QED  BY <2>1, <2>3 DEF Project, Still
<1> QED  BY <1>2, <1>3, <1>4, <1>5, <1>6, <1>7, <1>8, <1>9

(* Steps that take a claim back before its permit, or make the next one.   *)
LEMMA RefusedStep ==
  ASSUME IInv, ClaimsHold, NEW i \in Intents, NEW r, Put(i, r),
         intent[i].state \in Precommit, r.state \notin Live,
         r.claim = intent[i].claim, r.proof = intent[i].proof,
         UNCHANGED <<desk, denied>>
  PROVE  ClaimsHold' /\ (Promise!Next \/ UNCHANGED Promise!vars)
<1>1. intent'[i] = r /\ \A j \in Intents \ {i} : intent'[j] = intent[j]
  BY DEF IInv, TypeOK, Put
<1>2. CASE intent[i].state = "PLANNED"
  <2>1. \A j \in Intents : Still(j)
    BY <1>2, PutStill DEF Same, Live, Permitted, Unresolved
  <2> QED  BY <2>1, StillAll
<1>3. CASE intent[i].state = "CLAIMED"
  <2>1. \A j \in Intents \ {i} : Still(j)
    BY <1>1 DEF Still, Same
  <2>2. intent[i].claim # 0 /\ intent[i].claim \notin denied[i] /\ intent[i].claim \in Nat
    BY <1>3 DEF ClaimsHold, ClaimsAt, Live, IInv, TypeOK, IntentRow
  <2>3. Fate(i, intent[i].claim) = "open" /\ Fate(i, intent[i].claim)' = "denied"
    BY <1>1, <1>3, <2>2 DEF Fate, Live
  <2>4. intent[i].claim \notin desk[i].sent
    BY <1>3, <2>2 DEF IInv, OutOnRecord, Permitted, Unresolved
  <2>5. ClaimsAt(i)'
    BY <1>1 DEF ClaimsHold, ClaimsAt, Live, Permitted
  <2>6. "denied" \in Promise!Turns["open"]
    BY DEF Promise!Turns
  <2> QED  BY <1>1, <2>1, <2>2, <2>3, <2>4, <2>5, <2>6, ClaimStands
<1> QED  BY <1>2, <1>3 DEF Precommit

LEMMA RefreshImplements ==
  ASSUME IInv, ClaimsHold, NEW i \in Intents, Refresh(i) \/ GiveUp(i)
  PROVE  ClaimsHold' /\ (Promise!Next \/ UNCHANGED Promise!vars)
<1>1. intent[i] \in IntentRow /\ intent[i].state \in Precommit
  BY DEF IInv, TypeOK, Refresh, GiveUp, Precommit
<1>2. PICK r \in {Planned(i), Dropped(intent[i], "PLANNED"), Dropped(intent[i], "CANCELLED")} :
        Put(i, r)
  BY DEF Refresh, GiveUp
<1>3. /\ r.state \in {"PLANNED", "CANCELLED"}
      /\ r.claim = intent[i].claim /\ r.proof = intent[i].proof
  BY <1>1, <1>2 DEF Planned, Dropped, IntentRow
<1>4. r.state \notin Live
  BY <1>3 DEF Live, Permitted, Unresolved
<1>5. UNCHANGED <<desk, denied>>
  BY DEF Refresh, GiveUp
<1> QED  BY <1>1, <1>2, <1>3, <1>4, <1>5, RefusedStep

LEMMA ClaimImplements ==
  ASSUME IInv, ClaimsHold, NEW i \in Intents, Claim(i)
  PROVE  ClaimsHold' /\ (Promise!Next \/ UNCHANGED Promise!vars)
<1>1. /\ intent[i].claim \in Nat /\ intent[i].claim < MaxClaims[i] /\ MaxClaims[i] \in Nat
      /\ intent[i].state \in Precommit /\ UNCHANGED <<desk, denied>>
  BY TelegramAssumption DEF IInv, TypeOK, IntentRow, Claim
<1>2. /\ intent'[i].claim = intent[i].claim + 1 /\ intent'[i].state = "CLAIMED"
      /\ intent'[i].proof = intent[i].proof
      /\ \A j \in Intents \ {i} : intent'[j] = intent[j]
  <2>1. intent[i] \in IntentRow /\ intent \in [Intents -> IntentRow]
    BY DEF IInv, TypeOK
  <2>2. /\ Planned(i) \in IntentRow /\ Planned(i).claim = intent[i].claim
        /\ Planned(i).proof = intent[i].proof
    BY <2>1, PlannedType DEF IInv, Planned, Dropped, IntentRow
  <2>3. intent'[i] = [Planned(i) EXCEPT !.state = "CLAIMED", !.held = TRUE,
                                        !.claim = Planned(i).claim + 1]
    BY <2>1 DEF Claim, Put
  <2>4. \A j \in Intents \ {i} : intent'[j] = intent[j]
    BY <2>1 DEF Claim, Put
  <2> QED  BY <2>2, <2>3, <2>4 DEF IntentRow
<1>3. \A j \in Intents \ {i} : Still(j)
  BY <1>1, <1>2 DEF Still, Same
<1>4. intent[i].claim + 1 \notin denied[i] /\ intent'[i].claim \in 0..MaxClaims[i]
      /\ intent'[i].claim # 0
  BY <1>1, <1>2 DEF IInv, TypeOK
<1>5. ClaimsAt(i)'
  BY <1>1, <1>2, <1>4 DEF ClaimsHold, ClaimsAt
<1>6. ClaimsHold'
  BY <1>3, <1>5, StillClaims DEF ClaimsHold
<1>7. \A k \in Nat \ {intent[i].claim} : Fate(i, k)' = Fate(i, k)
  <2> SUFFICES ASSUME NEW k \in Nat, k # intent[i].claim PROVE Fate(i, k)' = Fate(i, k)
    OBVIOUS
  <2>1. k > intent'[i].claim \/ (k = intent'[i].claim /\ intent'[i].state = "CLAIMED")
          <=> k > intent[i].claim
    BY <1>1, <1>2
  <2>2. k < intent'[i].claim /\ ~(k = intent'[i].claim) <=> k < intent[i].claim
    BY <1>1, <1>2
  <2> QED  BY <1>1, <1>2, <2>1, <2>2 DEF Fate
<1>8. PICK n \in Nat : n = intent[i].claim
  BY <1>1
<1>9. CASE intent[i].state = "PLANNED" \/ n = 0
  <2>1. n # 0 => Fate(i, n)' = Fate(i, n)
    BY <1>1, <1>2, <1>8, <1>9 DEF Fate, Permitted, Unresolved
  <2>2. \A j \in Intents : \A k \in 1..MaxClaims[j] : Fate(j, k)' = Fate(j, k)
    <3> SUFFICES ASSUME NEW k \in 1..MaxClaims[i] PROVE Fate(i, k)' = Fate(i, k)
      BY <1>3, StillFate
    <3>1. k \in Nat /\ k # 0
      BY <1>1
    <3> QED  BY <3>1, <2>1, <1>7, <1>8
  <2>3. \A j \in Intents : desk'[j].sent = desk[j].sent
    BY <1>1
  <2>4. UNCHANGED Promise!vars
    BY <2>2, <2>3 DEF Promise!vars
  <2> QED  BY <1>6, <2>4
<1>10. CASE intent[i].state = "CLAIMED" /\ n # 0
  <2>1. n \in 1..MaxClaims[i] /\ n \notin denied[i] /\ n \notin desk[i].sent
    BY <1>1, <1>8, <1>10 DEF ClaimsHold, ClaimsAt, Live, IInv, OutOnRecord, Permitted,
                             Unresolved
  <2>2. Fate(i, n) = "open" /\ Fate(i, n)' = "denied"
    BY <1>1, <1>2, <1>8, <1>10, <2>1 DEF Fate
  <2>3. "denied" \in Promise!Turns[Fate(i, n)]
    BY <2>2 DEF Promise!Turns
  <2>4. \A k \in 1..MaxClaims[i] \ {n} : Fate(i, k)' = Fate(i, k)
    BY <1>1, <1>7, <1>8
  <2>5. Promise!Next
    BY <1>1, <1>3, <2>1, <2>2, <2>3, <2>4, Recorded
  <2> QED  BY <1>6, <2>5
<1> QED  BY <1>1, <1>9, <1>10 DEF Precommit

-----------------------------------------------------------------------------
(* Steps that give, use or end a permit.                                   *)
LEMMA PermitHeld ==
  ASSUME IInv, ClaimsHold, NEW i \in Intents, intent[i].state \in Live
  PROVE  /\ intent[i].claim \in Nat /\ intent[i].claim # 0
         /\ intent[i].claim \in 1..MaxClaims[i] /\ intent[i].claim \notin denied[i]
         /\ intent[i] \in IntentRow /\ intent \in [Intents -> IntentRow]
         /\ desk \in [Intents -> [may : SUBSET Nat, sent : SUBSET Nat]]
         /\ denied \in [Intents -> SUBSET Nat]
BY TelegramAssumption DEF ClaimsHold, ClaimsAt, IInv, TypeOK, IntentRow

LEMMA BeginImplements ==
  ASSUME IInv, ClaimsHold, NEW i \in Intents, Begin(i)
  PROVE  ClaimsHold' /\ Promise!Next
<1> DEFINE mid == [intent EXCEPT ![i].state = "COMMITTING", ![i].read = "none"]
<1>1. intent[i].state = "CLAIMED" /\ intent[i].state \in Live /\ intent[i].state \notin Permitted
  BY DEF Begin, Live, Permitted, Unresolved
<1>2. /\ mid \in [Intents -> IntentRow]
      /\ mid[i].state = "COMMITTING" /\ mid[i].claim = intent[i].claim
      /\ mid[i].proof = intent[i].proof
      /\ \A j \in Intents \ {i} : mid[j] = intent[j]
  BY <1>1, PermitHeld DEF IntentRow, Permitted, Unresolved
<1>3. intent' \in {mid, Stale(mid)} /\ denied' = denied
  BY DEF Begin
<1> HIDE DEF mid
<1>4. \A j \in Intents : Same(mid[j], intent'[j])
  BY <1>2, <1>3, SameStale DEF Same
<1>5. /\ \A j \in Intents \ {i} : desk'[j] = desk[j]
      /\ desk'[i].sent = desk[i].sent
      /\ desk'[i].may = desk[i].may \union {intent[i].claim}
  BY <1>1, PermitHeld DEF Begin
<1>6. \A j \in Intents \ {i} : Still(j)
  BY <1>2, <1>3, <1>4, <1>5 DEF Still
<1>7. intent'[i].state = "COMMITTING" /\ intent'[i].claim = intent[i].claim
  BY <1>2, <1>4 DEF Same, Live, Permitted, Unresolved
<1>8. intent[i].claim \notin desk[i].sent
  BY <1>1, PermitHeld DEF IInv, OutOnRecord
<1>9. ClaimsAt(i)'
  BY <1>1, <1>3, <1>5, <1>7, <1>8, PermitHeld DEF ClaimsHold, ClaimsAt
<1>10. Fate(i, intent[i].claim) = "open" /\ Fate(i, intent[i].claim)' = "granted"
  BY <1>1, <1>3, <1>7, PermitHeld DEF Fate, Permitted, Unresolved
<1>11. "granted" \in Promise!Turns["open"]
  BY DEF Promise!Turns
<1> QED
  BY <1>1, <1>3, <1>5, <1>6, <1>7, <1>9, <1>10, <1>11, PermitHeld, ClaimStands

LEMMA OutcomeUnknownImplements ==
  ASSUME IInv, ClaimsHold, NEW i \in Intents, OutcomeUnknown(i)
  PROVE  ClaimsHold' /\ Promise!Next
<1>1. intent[i].state = "COMMITTING" /\ intent[i].state \in Live
  BY DEF OutcomeUnknown, Live, Permitted, Unresolved
<1>2. /\ intent'[i].state = "RECONCILE_REQUIRED" /\ intent'[i].claim = intent[i].claim
      /\ \A j \in Intents \ {i} : intent'[j] = intent[j]
      /\ UNCHANGED <<desk, denied>>
  BY <1>1, PermitHeld DEF OutcomeUnknown, Put, Lapse, IntentRow
<1>3. \A j \in Intents \ {i} : Still(j)
  BY <1>2 DEF Still, Same
<1>4. ClaimsAt(i)'
  BY <1>1, <1>2, PermitHeld DEF ClaimsHold, ClaimsAt
<1>5. Fate(i, intent[i].claim) = "granted" /\ Fate(i, intent[i].claim)' = "unknown"
  BY <1>1, <1>2, PermitHeld DEF Fate, Permitted, Unresolved
<1>6. "unknown" \in Promise!Turns["granted"]
  BY DEF Promise!Turns
<1> QED  BY <1>1, <1>2, <1>3, <1>4, <1>5, <1>6, PermitHeld, ClaimStands

LEMMA ConfirmImplements ==
  ASSUME IInv, ClaimsHold, NEW i \in Intents, Confirm(i)
  PROVE  ClaimsHold' /\ Promise!Next
<1>1. /\ intent[i].state \in Permitted /\ intent[i].state \in Live
      /\ intent[i].proof # "receipt" /\ intent[i].claim \in desk[i].sent
  BY DEF Confirm, Live
<1>2. /\ intent'[i].state = "CONFIRMED" /\ intent'[i].claim = intent[i].claim
      /\ intent'[i].proof = "receipt"
      /\ \A j \in Intents \ {i} : intent'[j] = intent[j]
      /\ UNCHANGED <<desk, denied>>
  BY <1>1, PermitHeld DEF Confirm, Put, IntentRow
<1>3. \A j \in Intents \ {i} : Still(j)
  BY <1>2 DEF Still, Same
<1>4. ClaimsAt(i)'
  BY <1>1, <1>2, PermitHeld DEF ClaimsHold, ClaimsAt
<1>5. /\ Fate(i, intent[i].claim) \in {"granted", "unknown", "trusted"}
      /\ Fate(i, intent[i].claim)' = "succeeded"
  BY <1>1, <1>2, PermitHeld DEF Fate, Permitted, Unresolved
<1>6. \A from \in {"granted", "unknown", "trusted"} : "succeeded" \in Promise!Turns[from]
  BY DEF Promise!Turns
<1> QED  BY <1>1, <1>2, <1>3, <1>4, <1>5, <1>6, PermitHeld, ClaimStands

LEMMA ReconcileConfirmedImplements ==
  ASSUME IInv, ClaimsHold, NEW i \in Intents, ReconcileConfirmed(i)
  PROVE  ClaimsHold' /\ Promise!Next
<1> DEFINE mid == [intent EXCEPT ![i].state = "CONFIRMED", ![i].proof = "manual"]
<1>1. intent[i].state = "RECONCILE_REQUIRED" /\ intent[i].state \in Live
  BY DEF ReconcileConfirmed, Live, Permitted, Unresolved
<1>2. /\ mid \in [Intents -> IntentRow]
      /\ mid[i].state = "CONFIRMED" /\ mid[i].claim = intent[i].claim
      /\ mid[i].proof = "manual"
      /\ \A j \in Intents \ {i} : mid[j] = intent[j]
  BY <1>1, PermitHeld DEF IntentRow, Permitted, Unresolved
<1>3. intent' = Settled(i, Stale(mid)) /\ UNCHANGED <<desk, denied>>
  BY DEF ReconcileConfirmed
<1> HIDE DEF mid
<1>4. Stale(mid) \in [Intents -> IntentRow]
  BY <1>2, FollowsStale DEF Follows
<1>5. \A j \in Intents : Same(mid[j], intent'[j])
  BY <1>2, <1>3, <1>4, SameStale, SameSettled, SameOn
<1>6. \A j \in Intents \ {i} : Still(j)
  BY <1>2, <1>3, <1>5 DEF Still
<1>7. /\ intent'[i].state = "CONFIRMED" /\ intent'[i].claim = intent[i].claim
      /\ intent'[i].proof = "manual"
  BY <1>2, <1>5 DEF Same, Live, Permitted
<1>8. ClaimsAt(i)'
  BY <1>1, <1>3, <1>7, PermitHeld DEF ClaimsHold, ClaimsAt
<1>9. Fate(i, intent[i].claim) = "unknown" /\ Fate(i, intent[i].claim)' = "trusted"
  BY <1>1, <1>3, <1>7, PermitHeld DEF Fate, Permitted, Unresolved
<1>10. "trusted" \in Promise!Turns["unknown"]
  BY DEF Promise!Turns
<1> QED  BY <1>1, <1>3, <1>6, <1>7, <1>8, <1>9, <1>10, PermitHeld, ClaimStands

(* A row that goes back to the queue with its claim.                       *)
LEMMA DroppedRows ==
  ASSUME IInv, ClaimsHold, NEW i \in Intents, intent[i].state \in Live,
         intent' \in {[intent EXCEPT ![i] = Dropped(@, "PLANNED")],
                      Told([intent EXCEPT ![i] = Dropped(@, "PLANNED")], order.status)}
  PROVE  /\ intent'[i].claim = intent[i].claim /\ intent'[i].state \notin Live
         /\ \A j \in Intents \ {i} : Same(intent[j], intent'[j])
<1> DEFINE r == Dropped(intent[i], "PLANNED")
           mid == [intent EXCEPT ![i] = r]
<1>1. intent \in [Intents -> IntentRow] /\ intent[i] \in IntentRow
  BY PermitHeld
<1>2. r \in IntentRow /\ r.claim = intent[i].claim /\ r.state = "PLANNED"
  BY <1>1, DroppedType
<1> HIDE DEF r
<1>3. /\ mid \in [Intents -> IntentRow] /\ mid[i] = r
      /\ \A j \in Intents \ {i} : mid[j] = intent[j]
  BY <1>1, <1>2
<1>4. intent' \in {mid, Told(mid, order.status)}
  BY DEF r
<1> HIDE DEF mid
<1>5. \A j \in Intents : Same(mid[j], intent'[j])
  BY <1>3, <1>4, SameTold DEF Same
<1> QED  BY <1>2, <1>3, <1>5 DEF Same, Live, Permitted, Unresolved

LEMMA ReconcileNotSentImplements ==
  ASSUME IInv, ClaimsHold, NEW i \in Intents, ReconcileNotSent(i)
  PROVE  ClaimsHold' /\ Promise!Next
<1>1. intent[i].state = "RECONCILE_REQUIRED" /\ intent[i].state \in Live
  BY DEF ReconcileNotSent, Live, Permitted, Unresolved
<1>2. /\ intent'[i].claim = intent[i].claim /\ intent'[i].state \notin Live
      /\ \A j \in Intents \ {i} : Same(intent[j], intent'[j])
  BY <1>1, DroppedRows DEF ReconcileNotSent
<1>3. /\ desk' = desk /\ denied'[i] = denied[i] \union {intent[i].claim}
      /\ \A j \in Intents \ {i} : denied'[j] = denied[j]
  BY <1>1, PermitHeld DEF ReconcileNotSent
<1>4. \A j \in Intents \ {i} : Still(j)
  BY <1>2, <1>3 DEF Still
<1>5. ClaimsAt(i)'
  BY <1>1, <1>2, <1>3, PermitHeld DEF ClaimsHold, ClaimsAt, Live, Permitted
<1>6. Fate(i, intent[i].claim) = "unknown" /\ Fate(i, intent[i].claim)' = "disowned"
  BY <1>1, <1>2, <1>3, PermitHeld DEF Fate, Permitted, Unresolved
<1>7. "disowned" \in Promise!Turns["unknown"]
  BY DEF Promise!Turns
<1> QED  BY <1>1, <1>2, <1>3, <1>4, <1>5, <1>6, <1>7, PermitHeld, ClaimStands

LEMMA ProvenNotSentImplements ==
  ASSUME IInv, ClaimsHold, NEW i \in Intents, ProvenNotSent(i)
  PROVE  ClaimsHold' /\ Promise!Next
<1>1. /\ intent[i].state \in {"CLAIMED"} \union Unresolved /\ intent[i].state \in Live
      /\ intent[i].claim \notin desk[i].sent /\ denied' = denied
  BY DEF ProvenNotSent, Live, Permitted
<1>2. /\ intent'[i].claim = intent[i].claim /\ intent'[i].state \notin Live
      /\ \A j \in Intents \ {i} : Same(intent[j], intent'[j])
  BY <1>1, DroppedRows DEF ProvenNotSent
<1>3. /\ \A j \in Intents \ {i} : desk'[j] = desk[j]
      /\ desk'[i].sent = desk[i].sent /\ desk'[i].may \subseteq desk[i].may
  BY <1>1, PermitHeld DEF ProvenNotSent
<1>4. \A j \in Intents \ {i} : Still(j)
  BY <1>1, <1>2, <1>3 DEF Still
<1>5. ClaimsAt(i)'
  BY <1>1, <1>2, <1>3, PermitHeld DEF ClaimsHold, ClaimsAt, Live, Permitted
<1>6. /\ Fate(i, intent[i].claim) \in {"open", "granted", "unknown"}
      /\ Fate(i, intent[i].claim)' = "denied"
  BY <1>1, <1>2, PermitHeld DEF Fate, Permitted, Unresolved, Live
<1>7. \A from \in {"open", "granted", "unknown"} : "denied" \in Promise!Turns[from]
  BY DEF Promise!Turns
<1> QED  BY <1>1, <1>2, <1>3, <1>4, <1>5, <1>6, <1>7, PermitHeld, ClaimStands

LEMMA SendImplements ==
  ASSUME IInv, ClaimsHold, NEW i \in Intents, Send(i)
  PROVE  ClaimsHold' /\ Promise!Next
<1>1. PICK n \in desk[i].may :
        desk' = [desk EXCEPT ![i] = [may |-> @.may \ {n}, sent |-> @.sent \union {n}]]
  BY DEF Send
<1>2. /\ UNCHANGED <<intent, denied>> /\ n \in 1..MaxClaims[i] /\ n \in Nat
      /\ n \notin desk[i].sent
      /\ desk \in [Intents -> [may : SUBSET Nat, sent : SUBSET Nat]]
  BY <1>1 DEF Send, ClaimsHold, ClaimsAt, IInv, TypeOK
<1>3. /\ \A j \in Intents \ {i} : desk'[j] = desk[j]
      /\ desk'[i].sent = desk[i].sent \union {n} /\ desk'[i].may = desk[i].may \ {n}
  BY <1>1, <1>2
<1>4. ClaimsHold'
  BY <1>2, <1>3 DEF ClaimsHold, ClaimsAt
<1>5. n \in denied[i] \/ (n = intent[i].claim /\ intent[i].state \in Permitted)
  BY <1>1 DEF IInv, OutOnRecord
<1>6. intent[i].state = "CONFIRMED" /\ n = intent[i].claim => intent[i].proof # "receipt"
  BY <1>2 DEF ClaimsHold, ClaimsAt
<1>7. Fate(i, n) \in {"granted", "unknown", "trusted", "disowned"}
  BY <1>2, <1>5, <1>6 DEF Fate, Permitted, Unresolved
<1>8. \A j \in Intents : \A k \in 1..MaxClaims[j] : Fate(j, k)' = Fate(j, k)
  BY <1>2 DEF Fate
<1> DEFINE S == [j \in Intents |-> desk[j].sent]
           T == [j \in Intents |-> desk'[j].sent]
<1>9. T = [S EXCEPT ![i] = @ \union {n}] /\ S[i] = desk[i].sent /\ T[i] # S[i]
  BY <1>2, <1>3
<1>10. Promise!Happen(i, n)
  BY <1>2, <1>7, <1>8, <1>9 DEF Promise!Happen
<1> QED  BY <1>2, <1>4, <1>9, <1>10 DEF Promise!Next

-----------------------------------------------------------------------------
LEMMA InitPromises == Init => ClaimsHold /\ Promise!Init
<1> SUFFICES ASSUME Init PROVE ClaimsHold /\ Promise!Init
  OBVIOUS
<1>1. ClaimsHold
  BY TelegramAssumption DEF Init, ClaimsHold, ClaimsAt, Absent, Live, Permitted, Unresolved
<1>2. \A i \in Intents : \A n \in 1..MaxClaims[i] : Fate(i, n) = "open"
  BY TelegramAssumption DEF Init, Fate, Absent
<1>3. \A i \in Intents : desk[i].sent = {}
  BY DEF Init
<1> QED  BY <1>1, <1>2, <1>3 DEF Promise!Init

LEMMA StepImplements ==
  IInv /\ ClaimsHold /\ [Next]_vars => ClaimsHold' /\ [Promise!Next]_(Promise!vars)
<1> SUFFICES ASSUME IInv, ClaimsHold, [Next]_vars
             PROVE  ClaimsHold' /\ (Promise!Next \/ UNCHANGED Promise!vars)
  OBVIOUS
<1>1. CASE UNCHANGED vars
  <2>1. \A j \in Intents : Still(j)
    BY <1>1 DEF vars, Still, Same
  <2> QED  BY <2>1, StillAll
<1>2. CASE PlanTask \/ PlanCancellation \/ Link \/ Edit \/ Cancel \/ EditConflict
             \/ (\E r \in Reminders : PlanReminder(r))
             \/ (\E what \in {"text", "cancel"} : Check(what))
             \/ (\E i \in Intents : BeginRead(i) \/ Project(i))
  BY <1>2, QuietSteps
<1>3. ASSUME NEW i \in Intents,
             \/ Refresh(i) \/ Claim(i) \/ Begin(i) \/ GiveUp(i)
             \/ OutcomeUnknown(i) \/ ReconcileConfirmed(i) \/ ReconcileNotSent(i)
             \/ Send(i) \/ ProvenNotSent(i) \/ Confirm(i)
      PROVE  ClaimsHold' /\ (Promise!Next \/ UNCHANGED Promise!vars)
  BY <1>3, RefreshImplements, ClaimImplements, BeginImplements, OutcomeUnknownImplements,
     ReconcileConfirmedImplements, ReconcileNotSentImplements, SendImplements,
     ProvenNotSentImplements, ConfirmImplements
<1> QED  BY <1>1, <1>2, <1>3 DEF Next

(* However often a message is claimed, whatever is lost or late and        *)
(* whatever the operator guesses, its claims are the attempts of           *)
(* MessageAttempts: none is permitted before the last one is over, and     *)
(* what a receipt or a device has settled stands.                          *)
THEOREM Implements == Spec => Promised
BY Holds, InitHolds, InitPromises, StepHolds, StepImplements, PTL
   DEF Spec, Promised, Promise!Spec
=============================================================================
