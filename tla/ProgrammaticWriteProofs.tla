----------------------- MODULE ProgrammaticWriteProofs -----------------------
(***************************************************************************)
(* Proofs about ProgrammaticWrite for any writes, devices and bounds: a    *)
(* write that is not idempotent reaches the provider at most once, what is *)
(* recorded of it is the truth, an accepted message can be settled, and    *)
(* none is sent blindly again.                                             *)
(***************************************************************************)
EXTENDS ProgrammaticWrite, TLAPS

Row ==
  [status : Statuses, holder : Devices \cup {None}, lease : 0..LeaseLen,
   source : Devices \cup {None}, commit : Clock, started : Clock,
   unresolved : BOOLEAN, acked : BOOLEAN, settled : BOOLEAN]

(* What the provider may have seen, or may still see, of a write.          *)
Unsent(w) == effects[w] = 0 /\ wire[w] = 0
Untold(w) == \A d \in Devices : stage[d][w] # "permitted"

Undecided(r) == r.status \in Crossed \/ r.unresolved
Decided(r) == r.status = "COMPLETED"

(* A row alone: what is in doubt was granted, and was not yet forgotten.   *)
RowGood(r) ==
  /\ r.unresolved => r.status = "FAILED"
  /\ Undecided(r) => r.commit # Never
  /\ r.acked => r.status \in Terminal

RowsGood == \A w \in Writes : RowGood(row[w])

(* Nothing is sent before the commit is granted, and at most one device    *)
(* has a permit it has not used.                                           *)
SentOnce ==
  \A w \in Writes : Once(w) =>
    /\ ~Undecided(row[w]) /\ ~Decided(row[w]) => Unsent(w) /\ Untold(w)
    /\ \A d \in Devices : stage[d][w] = "permitted" =>
         Unsent(w) /\ \A e \in Devices \ {d} : stage[e][w] # "permitted"
    /\ \A d \in Devices :
         row[w].status = "COMMITTING" /\ Holds(d, w) /\ stage[d][w] = "claimed" =>
           Unsent(w) /\ Untold(w)
    /\ effects[w] + wire[w] <= 1

(* Answers and records of success rest on an effect.                       *)
Proven ==
  \A w \in Writes :
    /\ Decided(row[w]) => effects[w] > 0
    /\ \A d \in Devices : reply[d][w] = "received" => effects[w] > 0

(* There is one intent that is not acknowledged, and it is the only one    *)
(* that can be under way.                                                  *)
OneIntent ==
  \A v, w \in Writes : Unacked(v) /\ Unacked(w) => v = w

IInv == TypeOK /\ RowsGood /\ SentOnce /\ Proven /\ OneIntent /\ NoBlindResend

-----------------------------------------------------------------------------
(* What a step that sends nothing and grants nothing may do to the row r   *)
(* of w, leaving s.                                                        *)
Open(r) == r.status \notin Terminal \cup {"ABSENT"}
Intent(r) == r.status # "ABSENT" /\ ~r.acked
InDoubt(r) == r.status \in Crossed \/ (r.unresolved /\ ~r.settled)

Calm(w, r, s) ==
  /\ s \in Row /\ RowGood(s)
  /\ Once(w) /\ ~Undecided(s) /\ ~Decided(s) => Unsent(w) /\ Untold(w)
  /\ Decided(s) => effects[w] > 0
  /\ Create(w) =>
       /\ Open(s) => Open(r)
       /\ Intent(s) => Intent(r)
       /\ InDoubt(s) => Intent(r) \/ InDoubt(r)

(* No device learns of a permit it did not have.                           *)
Quiet ==
  /\ heard' \in [Writes -> BOOLEAN]
  /\ stage' \in [Devices -> [Writes -> {"idle", "claimed", "permitted"}]]
  /\ reply' \in [Devices -> [Writes -> {"none", "awaited", "received"}]]
  /\ capable' \in [Writes -> Devices \cup {None}]
  /\ \A d \in Devices, w \in Writes :
       /\ stage'[d][w] = "permitted" => stage[d][w] = "permitted"
       /\ reply'[d][w] = "received" => reply[d][w] = "received"
       /\ row'[w].status = "COMMITTING" /\ Holds(d, w)'
            /\ stage'[d][w] = "claimed" =>
          row[w].status = "COMMITTING" /\ Holds(d, w) /\ stage[d][w] = "claimed"
  /\ UNCHANGED <<wire, effects>>

LEMMA RowsTyped == TypeOK => row \in [Writes -> Row]
BY DEF TypeOK, Row

(* A calm change of every row keeps the invariant.                         *)
LEMMA CalmStep ==
  ASSUME IInv, row' \in [Writes -> Row],
         \A w \in Writes : Calm(w, row[w], row'[w]), Quiet
  PROVE  IInv'
<1>1. TypeOK'
  BY DEF IInv, TypeOK, Quiet, Row
<1>2. RowsGood'
  BY DEF RowsGood, Calm, RowGood, Undecided
<1>3. SentOnce'
  <2> SUFFICES ASSUME NEW w \in Writes, Once(w)
               PROVE  /\ ~Undecided(row'[w]) /\ ~Decided(row'[w]) =>
                           Unsent(w)' /\ Untold(w)'
                      /\ \A d \in Devices : stage'[d][w] = "permitted" =>
                           Unsent(w)' /\ \A e \in Devices \ {d} :
                             stage'[e][w] # "permitted"
                      /\ \A d \in Devices :
                           row'[w].status = "COMMITTING" /\ Holds(d, w)'
                             /\ stage'[d][w] = "claimed" =>
                           Unsent(w)' /\ Untold(w)'
                      /\ effects'[w] + wire'[w] <= 1
    BY DEF SentOnce, Undecided, Decided, Once, Cancel
  <2>1. Unsent(w) => Unsent(w)'
    BY DEF Unsent, Quiet
  <2>2. Untold(w) => Untold(w)'
    BY DEF Untold, Quiet
  <2>3. ~Undecided(row'[w]) /\ ~Decided(row'[w]) => Unsent(w)' /\ Untold(w)'
    BY <2>1, <2>2 DEF Calm
  <2>4. ASSUME NEW d \in Devices, stage'[d][w] = "permitted"
        PROVE  Unsent(w)' /\ \A e \in Devices \ {d} : stage'[e][w] # "permitted"
    BY <2>1, <2>4 DEF IInv, SentOnce, Quiet
  <2>5. ASSUME NEW d \in Devices, row'[w].status = "COMMITTING",
               Holds(d, w)', stage'[d][w] = "claimed"
        PROVE  Unsent(w)' /\ Untold(w)'
    BY <2>1, <2>2, <2>5 DEF IInv, SentOnce, Quiet
  <2>6. effects'[w] + wire'[w] <= 1
    BY DEF IInv, SentOnce, Quiet
  <2> QED  BY <2>3, <2>4, <2>5, <2>6
<1>4. Proven'
  BY DEF IInv, Proven, Quiet, Calm, Decided
<1>5. OneIntent'
  BY DEF IInv, OneIntent, Unacked, Calm, Intent, Create
<1>6. NoBlindResend'
  <2> SUFFICES ASSUME NEW v \in Writes, NEW w \in Writes, v # w, Create(v),
                      Create(w), Payload[v] = Payload[w], InDoubt(row'[v]),
                      Open(row'[w])
               PROVE  FALSE
    BY DEF NoBlindResend, Doubted, InDoubt, Open, Create
  <2>1. Open(row[w]) /\ (Intent(row[v]) \/ InDoubt(row[v]))
    BY DEF Calm
  <2>2. Intent(row[w])
    BY <2>1 DEF Open, Intent, IInv, RowsGood, RowGood
  <2>3. ~Intent(row[v])
    BY <2>2 DEF IInv, OneIntent, Unacked, Intent
  <2>4. InDoubt(row[v])
    BY <2>1, <2>3
  <2> QED  BY <2>1, <2>4 DEF IInv, NoBlindResend, Doubted, InDoubt, Open
<1> QED  BY <1>1, <1>2, <1>3, <1>4, <1>5, <1>6 DEF IInv

LEMMA CalmSelf == IInv => \A w \in Writes : Calm(w, row[w], row[w])
<1> SUFFICES ASSUME IInv, NEW w \in Writes PROVE Calm(w, row[w], row[w])
  OBVIOUS
<1>1. row[w] \in Row
  BY RowsTyped DEF IInv
<1> QED  BY <1>1 DEF IInv, Calm, RowsGood, SentOnce, Proven

-----------------------------------------------------------------------------
(* What becomes of a row.                                                  *)
LEMMA NeverClock == Never \in Clock /\ Never # 0 /\ \A n \in Clock : n \in Int
BY WriteAssumption DEF Clock, Never

Held(r, st, h, n) == [r EXCEPT !.status = st, !.holder = h, !.lease = n]

LEMMA HeldFields ==
  ASSUME NEW r \in Row, NEW st \in Statuses, NEW h \in Devices \cup {None},
         NEW n \in 0..LeaseLen
  PROVE  LET s == Held(r, st, h, n)
         IN  /\ s \in Row
             /\ s.status = st /\ s.holder = h /\ s.lease = n
             /\ s.commit = r.commit /\ s.acked = r.acked
             /\ s.unresolved = r.unresolved /\ s.settled = r.settled
             /\ s.started = r.started /\ s.source = r.source
BY DEF Held, Row

LEMMA FreedFields ==
  ASSUME NEW r \in Row, NEW st \in Statuses
  PROVE  /\ Freed(r, st) \in Row
         /\ Freed(r, st).status = st /\ Freed(r, st).holder = None
         /\ Freed(r, st).commit = r.commit /\ Freed(r, st).acked = r.acked
         /\ Freed(r, st).unresolved = r.unresolved
         /\ Freed(r, st).settled = r.settled
         /\ Freed(r, st).started = r.started
         /\ Freed(r, st).source = r.source
<1>1. None \in Devices \cup {None} /\ 0 \in 0..LeaseLen
  BY WriteAssumption
<1>2. Freed(r, st) = Held(r, st, None, 0)
  BY DEF Freed, Held
<1> QED  BY <1>1, <1>2, HeldFields

LEMMA UnresolvedFields ==
  ASSUME NEW r \in Row
  PROVE  /\ Unresolved(r) \in Row
         /\ Unresolved(r).status = "FAILED" /\ Unresolved(r).holder = None
         /\ Unresolved(r).commit = r.commit /\ Unresolved(r).acked = r.acked
         /\ Unresolved(r).unresolved /\ Unresolved(r).settled = r.settled
<1> DEFINE f == Freed(r, "FAILED")
<1>1. /\ f \in Row /\ f.status = "FAILED" /\ f.holder = None
      /\ f.commit = r.commit /\ f.acked = r.acked /\ f.settled = r.settled
  BY FreedFields DEF Statuses, Terminal
<1>2. /\ [f EXCEPT !.unresolved = TRUE] \in Row
      /\ [f EXCEPT !.unresolved = TRUE].status = "FAILED"
      /\ [f EXCEPT !.unresolved = TRUE].holder = None
      /\ [f EXCEPT !.unresolved = TRUE].commit = r.commit
      /\ [f EXCEPT !.unresolved = TRUE].acked = r.acked
      /\ [f EXCEPT !.unresolved = TRUE].unresolved
      /\ [f EXCEPT !.unresolved = TRUE].settled = r.settled
  <2> HIDE DEF f
  <2> QED  BY <1>1 DEF Row
<1> QED  BY <1>2 DEF Unresolved

LEMMA CompletedFields ==
  ASSUME NEW r \in Row
  PROVE  /\ Completed(r) \in Row
         /\ Completed(r).status = "COMPLETED"
         /\ Completed(r).acked = r.acked
         /\ Completed(r).unresolved = FALSE
<1> DEFINE f == Freed(r, "COMPLETED")
<1>1. f \in Row /\ f.status = "COMPLETED" /\ f.acked = r.acked
  BY FreedFields DEF Statuses, Terminal
<1>2. /\ [f EXCEPT !.unresolved = FALSE, !.settled = FALSE] \in Row
      /\ [f EXCEPT !.unresolved = FALSE, !.settled = FALSE].status = "COMPLETED"
      /\ [f EXCEPT !.unresolved = FALSE, !.settled = FALSE].acked = r.acked
      /\ [f EXCEPT !.unresolved = FALSE, !.settled = FALSE].unresolved = FALSE
  <2> HIDE DEF f
  <2> QED  BY <1>1 DEF Row
<1> QED  BY <1>2 DEF Completed

LEMMA LeaseFields ==
  ASSUME NEW r \in Row, NEW d \in Devices, NEW st \in Statuses
  PROVE  /\ Lease(r, d, st) \in Row
         /\ Lease(r, d, st).status = st /\ Lease(r, d, st).holder = d
         /\ Lease(r, d, st).commit = r.commit
         /\ Lease(r, d, st).acked = r.acked
         /\ Lease(r, d, st).unresolved = r.unresolved
         /\ Lease(r, d, st).settled = r.settled
         /\ Lease(r, d, st).source = r.source
<1>1. d \in Devices \cup {None} /\ LeaseLen \in 0..LeaseLen
  BY WriteAssumption
<1>2. Lease(r, d, st) = Held(r, st, d, LeaseLen)
  BY DEF Lease, Held
<1> QED  BY <1>1, <1>2, HeldFields

LEMMA ClockFields ==
  ASSUME NEW r \in Row, NEW n \in Clock
  PROVE  LET s == [r EXCEPT !.started = n]
         IN  /\ s \in Row /\ s.status = r.status /\ s.holder = r.holder
             /\ s.commit = r.commit /\ s.acked = r.acked
             /\ s.unresolved = r.unresolved /\ s.settled = r.settled
BY DEF Row

LEMMA StartedClock == \A r \in Row : Started(r) \in Clock
BY WriteAssumption DEF Started, Anchor, Row, Clock

(* What the two scans of the sweep may do: take a lease back, or close.    *)
Taken(r, s) ==
  /\ s \in Row /\ s.holder = None
  /\ s.commit = r.commit /\ s.acked = r.acked /\ s.settled = r.settled
  /\ \/ /\ r.status \in Precommit /\ s.status = "RETRY_SCHEDULED"
        /\ s.unresolved = r.unresolved
     \/ /\ r.status \in Crossed /\ s.status = "RECONCILE_REQUIRED"
        /\ s.unresolved = r.unresolved
     \/ r.status \in Crossed /\ s.status = "FAILED" /\ s.unresolved

LEMMA FirstTaken ==
  ASSUME NEW r \in Row PROVE FirstScan(r) = r \/ Taken(r, FirstScan(r))
<1>1. CASE r.status \in Precommit /\ Past(r)
  <2>1. FirstScan(r) = Freed(r, "RETRY_SCHEDULED")
    BY <1>1 DEF FirstScan, Precommit, Crossed
  <2> QED  BY <1>1, <2>1, FreedFields DEF Taken, Statuses
<1>2. CASE r.status = "RECONCILE_REQUIRED" /\ Past(r)
             /\ Anchor(r.commit, r.started) = 0
  <2>1. FirstScan(r) = Unresolved(r)
    BY <1>2 DEF FirstScan, Precommit, Crossed
  <2> QED  BY <1>2, <2>1, UnresolvedFields DEF Taken, Crossed
<1>3. CASE r.status \in Crossed /\ Past(r)
             /\ ~(r.status = "RECONCILE_REQUIRED"
                    /\ Anchor(r.commit, r.started) = 0)
  <2> DEFINE f == Freed(r, "RECONCILE_REQUIRED")
             n == Started(r)
  <2>1. FirstScan(r) = [f EXCEPT !.started = n]
    BY <1>3 DEF FirstScan, Precommit, Crossed
  <2>2. /\ f \in Row /\ f.holder = None /\ f.status = "RECONCILE_REQUIRED"
        /\ f.commit = r.commit /\ f.acked = r.acked
        /\ f.settled = r.settled /\ f.unresolved = r.unresolved
    BY FreedFields DEF Statuses, Lane, Crossed
  <2>3. n \in Clock
    BY StartedClock
  <2> HIDE DEF f, n
  <2> DEFINE s == [f EXCEPT !.started = n]
  <2>4. /\ s \in Row /\ s.status = f.status /\ s.holder = f.holder
        /\ s.commit = f.commit /\ s.acked = f.acked
        /\ s.unresolved = f.unresolved /\ s.settled = f.settled
    BY <2>2, <2>3, ClockFields
  <2>5. FirstScan(r) = s
    BY <2>1
  <2> HIDE DEF s
  <2> QED  BY <1>3, <2>2, <2>4, <2>5 DEF Taken
<1>4. CASE /\ ~(r.status \in Precommit /\ Past(r))
           /\ ~(r.status = "RECONCILE_REQUIRED" /\ Past(r)
                  /\ Anchor(r.commit, r.started) = 0)
           /\ ~(r.status \in Crossed /\ Past(r)
                  /\ ~(r.status = "RECONCILE_REQUIRED"
                         /\ Anchor(r.commit, r.started) = 0))
  <2>1. FirstScan(r) = r
    BY <1>4 DEF FirstScan
  <2> QED  BY <2>1
<1> QED  BY <1>1, <1>2, <1>3, <1>4

LEMMA SecondTaken ==
  ASSUME NEW r \in Row PROVE SecondScan(r) = r \/ Taken(r, SecondScan(r))
<1>1. CASE r.status = "RECONCILE_REQUIRED" /\ r.holder = None
             /\ Anchor(r.commit, r.started) = 0
  <2>1. SecondScan(r) = Unresolved(r)
    BY <1>1 DEF SecondScan
  <2> QED  BY <1>1, <2>1, UnresolvedFields DEF Taken, Crossed
<1>2. CASE ~(r.status = "RECONCILE_REQUIRED" /\ r.holder = None
               /\ Anchor(r.commit, r.started) = 0)
  BY <1>2 DEF SecondScan
<1> QED  BY <1>1, <1>2

LEMMA SweptTaken ==
  ASSUME NEW r \in Row PROVE Swept(r) = r \/ Taken(r, Swept(r))
<1> DEFINE s == FirstScan(r)
<1>1. s = r \/ Taken(r, s)
  BY FirstTaken
<1>2. s \in Row
  BY <1>1 DEF Taken
<1>3. SecondScan(s) = s \/ Taken(s, SecondScan(s))
  BY <1>2, SecondTaken
<1>4. Swept(r) = SecondScan(s)
  BY DEF Swept
<1> HIDE DEF s
<1>5. CASE SecondScan(s) = s
  BY <1>1, <1>4, <1>5
<1>6. CASE Taken(s, SecondScan(s)) /\ s = r
  BY <1>4, <1>6
<1>7. CASE Taken(s, SecondScan(s)) /\ Taken(r, s)
  BY <1>4, <1>7 DEF Taken, Precommit, Crossed
<1> QED  BY <1>1, <1>3, <1>5, <1>6, <1>7

LEMMA TakenCalm ==
  ASSUME IInv, NEW w \in Writes, NEW s, Taken(row[w], s)
  PROVE  Calm(w, row[w], s)
<1> DEFINE r == row[w]
<1>1. r \in Row /\ RowGood(r) /\ Calm(w, r, r)
  BY RowsTyped, CalmSelf DEF IInv, RowsGood
<1> HIDE DEF r
<1>2. Taken(r, s)
  BY DEF r
<1>3. s \in Row /\ RowGood(s)
  BY <1>1, <1>2 DEF Taken, RowGood, Undecided, Precommit, Crossed, Terminal
<1>4. ~Undecided(s) => ~Undecided(r) /\ ~Decided(r)
  BY <1>1, <1>2 DEF Taken, RowGood, Undecided, Decided, Precommit, Crossed
<1>5. ~Decided(s)
  BY <1>2 DEF Taken, Decided
<1>6. /\ Open(s) => Open(r)
      /\ Intent(s) => Intent(r)
      /\ InDoubt(s) => InDoubt(r)
  BY <1>1, <1>2
     DEF Taken, RowGood, Open, Intent, InDoubt, Precommit, Crossed, Terminal
<1>7. Calm(w, r, s)
  BY <1>1, <1>3, <1>4, <1>5, <1>6 DEF Calm
<1> QED  BY <1>7 DEF r

-----------------------------------------------------------------------------
(* The steps that change one row, and nothing that a device knows.         *)
OneRow == UNCHANGED <<heard, stage, reply, capable, wire, effects>>

LEMMA CalmPut ==
  ASSUME IInv, OneRow, NEW w \in Writes, NEW s, Put(w, s),
         Calm(w, row[w], s), s.status # "COMMITTING"
  PROVE  IInv'
<1>1. row \in [Writes -> Row]
  BY RowsTyped DEF IInv
<1>2. row' \in [Writes -> Row]
  BY <1>1 DEF Put, Calm
<1>3. \A v \in Writes : row'[v] = IF v = w THEN s ELSE row[v]
  BY <1>1 DEF Put
<1>4. \A v \in Writes : Calm(v, row[v], row'[v])
  BY <1>3, CalmSelf
<1>5. \A d \in Devices, v \in Writes :
        row'[v].status = "COMMITTING" /\ Holds(d, v)' /\ stage'[d][v] = "claimed" =>
          row[v].status = "COMMITTING" /\ Holds(d, v) /\ stage[d][v] = "claimed"
  BY <1>3 DEF OneRow, Holds
<1>6. Quiet
  BY <1>5 DEF Quiet, OneRow, IInv, TypeOK
<1> QED  BY <1>2, <1>4, <1>6, CalmStep

(* Success is recorded of a write that was seen, and that was in doubt or  *)
(* need not be acknowledged.                                               *)
LEMMA CompletedCalm ==
  ASSUME IInv, NEW w \in Writes, effects[w] > 0,
         Create(w) => row[w].status # "ABSENT"
  PROVE  Calm(w, row[w], Completed(row[w])) /\ Completed(row[w]).status # "COMMITTING"
<1> DEFINE r == row[w]
           s == Completed(r)
<1>1. r \in Row /\ RowGood(r)
  BY RowsTyped DEF IInv, RowsGood
<1>2. s \in Row /\ s.status = "COMPLETED" /\ s.acked = r.acked /\ s.unresolved = FALSE
  BY <1>1, CompletedFields
<1>3. Create(w) => r.status # "ABSENT"
  OBVIOUS
<1> HIDE DEF r, s
<1>4. RowGood(s) /\ Decided(s) /\ ~Open(s) /\ ~InDoubt(s)
  BY <1>2 DEF RowGood, Undecided, Decided, Open, InDoubt, Crossed, Terminal
<1>5. Create(w) /\ Intent(s) => Intent(r)
  BY <1>2, <1>3 DEF Intent
<1>6. Calm(w, r, s)
  BY <1>2, <1>4, <1>5 DEF Calm
<1> QED  BY <1>2, <1>6 DEF r, s

LEMMA UnresolvedCalm ==
  ASSUME IInv, NEW w \in Writes, row[w].status = "RECONCILE_REQUIRED"
  PROVE  /\ Calm(w, row[w], Unresolved(row[w]))
         /\ Unresolved(row[w]).status # "COMMITTING"
<1>1. row[w] \in Row
  BY RowsTyped DEF IInv
<1>2. Taken(row[w], Unresolved(row[w]))
  BY <1>1, UnresolvedFields DEF Taken, Crossed
<1> QED  BY <1>1, <1>2, TakenCalm, UnresolvedFields

LEMMA SweepKeeps == ASSUME IInv, NEW w \in Writes, Sweep(w) PROVE IInv'
<1>1. row[w] \in Row
  BY RowsTyped DEF IInv
<1>2. PICK s \in {FirstScan(row[w]), SecondScan(row[w])} : Put(w, s)
  BY DEF Sweep
<1>3. s = row[w] \/ Taken(row[w], s)
  BY <1>1, <1>2, FirstTaken, SecondTaken
<1>4. s # row[w]
  <2> SUFFICES ASSUME s = row[w] PROVE row' = row
    BY DEF Sweep
  <2> QED  BY <1>2, RowsTyped DEF Put, IInv
<1>5. Calm(w, row[w], s) /\ s.status # "COMMITTING"
  BY <1>3, <1>4, TakenCalm DEF Taken
<1> QED  BY <1>2, <1>5, CalmPut DEF Sweep, OneRow

LEMMA AcknowledgeKeeps ==
  ASSUME IInv, NEW w \in Writes, Acknowledge(w) PROVE IInv'
<1> DEFINE r == row[w]
           s == [r EXCEPT !.acked = TRUE]
<1>1. r \in Row /\ RowGood(r) /\ Calm(w, r, r) /\ Unacked(w) /\ r.status \in Terminal
  BY RowsTyped, CalmSelf DEF IInv, RowsGood, Acknowledge
<1> HIDE DEF r
<1>2. /\ s \in Row /\ s.status = r.status /\ s.acked /\ s.commit = r.commit
      /\ s.unresolved = r.unresolved /\ s.settled = r.settled
  BY <1>1 DEF Row
<1> HIDE DEF s
<1>3. RowGood(s) /\ (Undecided(s) <=> Undecided(r)) /\ (Decided(s) <=> Decided(r))
  BY <1>1, <1>2 DEF RowGood, Undecided, Decided
<1>4. ~Intent(s) /\ (Open(s) => Open(r)) /\ (InDoubt(s) => InDoubt(r))
  BY <1>2 DEF Intent, Open, InDoubt
<1>5. Calm(w, r, s) /\ s.status # "COMMITTING"
  BY <1>1, <1>2, <1>3, <1>4 DEF Calm, Terminal
<1> QED  BY <1>5, CalmPut DEF Acknowledge, OneRow, r, s

LEMMA AbandonKeeps == ASSUME IInv, NEW w \in Writes, Abandon(w) PROVE IInv'
<1> DEFINE r == row[w]
           f == Freed(r, "CANCELED")
           s == [f EXCEPT !.acked = TRUE]
<1>1. /\ r \in Row /\ RowGood(r) /\ Calm(w, r, r)
      /\ r.status \notin Terminal \cup Crossed
  BY RowsTyped, CalmSelf DEF IInv, RowsGood, Abandon
<1>2. f \in Row /\ f.status = "CANCELED" /\ f.unresolved = r.unresolved
  BY <1>1, FreedFields DEF Statuses, Terminal
<1> HIDE DEF r, f
<1>3. s \in Row /\ s.status = "CANCELED" /\ s.acked /\ s.unresolved = r.unresolved
  BY <1>2 DEF Row
<1> HIDE DEF s
<1>4. ~Undecided(r) /\ ~Decided(r) /\ ~Undecided(s) /\ ~Decided(s) /\ RowGood(s)
  BY <1>1, <1>3 DEF RowGood, Undecided, Decided, Crossed, Terminal
<1>5. ~Intent(s) /\ ~Open(s) /\ ~InDoubt(s)
  BY <1>3, <1>4 DEF Intent, Open, InDoubt, Undecided, Terminal
<1>6. Calm(w, r, s)
  BY <1>1, <1>3, <1>4, <1>5 DEF Calm
<1> QED  BY <1>3, <1>6, CalmPut DEF Abandon, OneRow, r, f, s

LEMMA StartKeeps ==
  ASSUME IInv, NEW d \in Devices, NEW w \in Writes, Start(d, w) PROVE IInv'
<1> DEFINE r == row[w]
           s == [r EXCEPT !.status = "RUNNING"]
<1>1. r \in Row /\ RowGood(r) /\ Calm(w, r, r) /\ r.status = "CLAIMED"
  BY RowsTyped, CalmSelf DEF IInv, RowsGood, Start
<1> HIDE DEF r
<1>2. /\ s \in Row /\ s.status = "RUNNING" /\ s.acked = r.acked
      /\ s.unresolved = r.unresolved
  BY <1>1 DEF Row, Statuses, Lane, Precommit
<1> HIDE DEF s
<1>3. ~Undecided(r) /\ ~Decided(r) /\ ~Undecided(s) /\ ~Decided(s) /\ RowGood(s)
  BY <1>1, <1>2 DEF RowGood, Undecided, Decided, Crossed, Terminal
<1>4. Intent(s) = Intent(r) /\ Open(r) /\ ~InDoubt(s)
  BY <1>1, <1>2, <1>3 DEF Intent, Open, InDoubt, Undecided, Terminal
<1>5. Calm(w, r, s)
  BY <1>1, <1>2, <1>3, <1>4 DEF Calm
<1> QED  BY <1>2, <1>5, CalmPut DEF Start, OneRow, r, s

LEMMA SuccessKeeps ==
  ASSUME IInv, NEW w \in Writes, effects[w] > 0, OneRow,
         Create(w) => row[w].status # "ABSENT", Put(w, Completed(row[w]))
  PROVE  IInv'
BY CompletedCalm, CalmPut

LEMMA ReportKeeps ==
  ASSUME IInv, NEW d \in Devices, NEW w \in Writes,
         Complete(d, w) \/ SettleByToken(d, w) \/ Match(d, w)
  PROVE  IInv'
<1>1. effects[w] > 0
  BY DEF IInv, Proven, Complete, SettleByToken, Match
<1>2. Create(w) => row[w].status # "ABSENT"
  BY DEF IInv, RowsGood, RowGood, Complete, SettleByToken, Settleable, Match,
         Crossed
<1>3. Put(w, Completed(row[w])) /\ OneRow
  BY DEF Complete, SettleByToken, Match, OneRow
<1> QED  BY <1>1, <1>2, <1>3, SuccessKeeps

LEMMA SettledKeeps ==
  ASSUME IInv, NEW w \in Writes, ResolveMatched(w) \/ SnapshotProves(w)
  PROVE  IInv'
<1>1. effects[w] > 0 /\ ~Create(w)
  BY DEF ResolveMatched, SnapshotProves, Receipted, Create, Cancel
<1>2. Put(w, Completed(row[w])) /\ OneRow
  BY DEF ResolveMatched, SnapshotProves, OneRow
<1> QED  BY <1>1, <1>2, SuccessKeeps

LEMMA WaitForReadbackKeeps ==
  ASSUME IInv, NEW d \in Devices, NEW w \in Writes, WaitForReadback(d, w)
  PROVE  IInv'
<1> DEFINE r == row[w]
           s == [r EXCEPT !.lease = LeaseLen]
<1>1. /\ r \in Row /\ RowGood(r) /\ Calm(w, r, r)
      /\ r.status = "RECONCILE_REQUIRED"
  BY RowsTyped, CalmSelf DEF IInv, RowsGood, WaitForReadback, Reconciling
<1>2. CASE Put(w, Unresolved(r))
  BY <1>1, <1>2, UnresolvedCalm, CalmPut DEF WaitForReadback, OneRow
<1>3. CASE Put(w, s)
  <2> HIDE DEF r
  <2>1. /\ s \in Row /\ s.status = r.status /\ s.acked = r.acked
        /\ s.commit = r.commit /\ s.unresolved = r.unresolved
        /\ s.settled = r.settled
    BY <1>1, WriteAssumption DEF Row
  <2> HIDE DEF s
  <2>2. Calm(w, r, s) /\ s.status # "COMMITTING"
    BY <1>1, <2>1
       DEF Calm, RowGood, Undecided, Decided, Open, Intent, InDoubt
  <2> QED  BY <1>3, <2>2, CalmPut DEF WaitForReadback, OneRow, r
<1> QED  BY <1>2, <1>3 DEF WaitForReadback

LEMMA CloseUnresolvedKeeps ==
  ASSUME IInv, NEW d \in Devices, NEW w \in Writes, CloseUnresolved(d, w)
  PROVE  IInv'
BY UnresolvedCalm, CalmPut DEF CloseUnresolved, Reconciling, OneRow

LEMMA SnapshotEmptyKeeps ==
  ASSUME IInv, NEW w \in Writes, SnapshotEmpty(w) PROVE IInv'
<1> DEFINE r == row[w]
           s == [r EXCEPT !.settled = TRUE]
<1>1. r \in Row /\ RowGood(r) /\ Calm(w, r, r) /\ r.unresolved
  BY RowsTyped, CalmSelf DEF IInv, RowsGood, SnapshotEmpty, Doubted
<1> HIDE DEF r
<1>2. /\ s \in Row /\ s.status = r.status /\ s.acked = r.acked
      /\ s.commit = r.commit /\ s.unresolved = r.unresolved /\ s.settled
  BY <1>1 DEF Row
<1> HIDE DEF s
<1>3. Calm(w, r, s) /\ s.status # "COMMITTING"
  BY <1>1, <1>2 DEF Calm, RowGood, Undecided, Decided, Open, Intent, InDoubt
<1> QED  BY <1>3, CalmPut DEF SnapshotEmpty, OneRow, r, s

-----------------------------------------------------------------------------
(* The steps that change several rows, or what a device knows.             *)
LEMMA ReserveKeeps ==
  ASSUME IInv, NEW d \in Devices, NEW w \in Writes, Reserve(d, w) PROVE IInv'
<1> DEFINE r == Swept(row[w])
           t == IF r.status = "RECONCILE_REQUIRED" THEN r.status ELSE "CLAIMED"
           l == Lease(r, d, t)
           s == [l EXCEPT !.source = IF @ = None THEN d ELSE @]
<1>1. \A v \in Writes : Swept(row[v]) \in Row /\ Calm(v, row[v], Swept(row[v]))
  BY RowsTyped, SweptTaken, TakenCalm, CalmSelf DEF IInv, Taken
<1>2. r \in Row /\ RowGood(r) /\ Calm(w, row[w], r) /\ Reservable(d, w, r)
  BY <1>1 DEF Calm, Reserve
<1>3. row' = [v \in Writes |-> IF v = w THEN s ELSE Swept(row[v])]
  BY DEF Reserve
<1>4. \A v \in Writes \ {w} : Swept(row[v]).status \notin Lane
  BY DEF Reserve
<1> HIDE DEF r
<1>5. t \in Statuses /\ t \in {"CLAIMED", "RECONCILE_REQUIRED"}
      /\ (t = "RECONCILE_REQUIRED" <=> r.status = "RECONCILE_REQUIRED")
  BY DEF Statuses, Lane, Precommit, Crossed
<1> HIDE DEF t
<1>6. /\ l \in Row /\ l.status = t /\ l.commit = r.commit /\ l.acked = r.acked
      /\ l.unresolved = r.unresolved /\ l.settled = r.settled
  BY <1>2, <1>5, LeaseFields
<1> HIDE DEF l
<1>7. /\ s \in Row /\ s.status = t /\ s.commit = r.commit /\ s.acked = r.acked
      /\ s.unresolved = r.unresolved /\ s.settled = r.settled
  BY <1>6 DEF Row
<1> HIDE DEF s
<1>8. Calm(w, row[w], s) /\ s.status # "COMMITTING"
  <2>1. ~r.unresolved /\ ~r.acked /\ r.status # "COMPLETED"
    BY <1>2 DEF Reservable, RowGood, Terminal
  <2>2. RowGood(s) /\ (~Undecided(s) => ~Undecided(r) /\ ~Decided(r)) /\ ~Decided(s)
    BY <1>2, <1>5, <1>7, <2>1
       DEF Reservable, RowGood, Undecided, Decided, Crossed
  <2>3. /\ Create(w) /\ Open(s) => Open(r)
        /\ Create(w) /\ Intent(s) => Intent(r)
        /\ Create(w) /\ InDoubt(s) => InDoubt(r)
    BY <1>2, <1>5, <1>7, <2>1
       DEF Reservable, Open, Intent, InDoubt, Terminal, Crossed
  <2> QED  BY <1>2, <1>5, <1>7, <2>2, <2>3 DEF Calm
<1>9. \A v \in Writes : /\ row'[v] \in Row /\ Calm(v, row[v], row'[v])
                        /\ row'[v].status # "COMMITTING"
  BY <1>1, <1>3, <1>4, <1>7, <1>8 DEF Lane, Crossed
<1>10. row' \in [Writes -> Row]
  BY <1>3, <1>9
<1>11. Quiet
  <2>1. /\ heard' \in [Writes -> BOOLEAN]
        /\ stage' \in [Devices -> [Writes -> {"idle", "claimed", "permitted"}]]
        /\ \A e \in Devices, v \in Writes :
             stage'[e][v] = "permitted" => stage[e][v] = "permitted"
    <3>1. CASE /\ heard' = [heard EXCEPT ![w] = TRUE]
               /\ stage' = [stage EXCEPT ![d][w] = "claimed"]
      BY <3>1 DEF IInv, TypeOK
    <3>2. CASE heard' = [heard EXCEPT ![w] = FALSE] /\ UNCHANGED stage
      BY <3>2 DEF IInv, TypeOK
    <3> QED  BY <3>1, <3>2 DEF Reserve
  <2> QED  BY <1>9, <2>1 DEF Reserve, Quiet, IInv, TypeOK
<1> QED  BY <1>9, <1>10, <1>11, CalmStep

LEMMA FailKeeps ==
  ASSUME IInv, NEW d \in Devices, NEW w \in Writes, Fail(d, w) PROVE IInv'
<1> DEFINE r == row[w]
<1>1. r \in Row /\ RowGood(r) /\ Calm(w, r, r) /\ r.status \in Lane
  BY RowsTyped, CalmSelf DEF IInv, RowsGood, Fail
<1>2. PICK s : Put(w, s) /\ Calm(w, r, s) /\ s.status # "COMMITTING"
  <2>1. CASE Once(w) /\ Reached(r)
    <3> DEFINE l == Lease(r, d, "RECONCILE_REQUIRED")
               n == Started(r)
               s == [l EXCEPT !.started = n]
    <3>1. Put(w, s)
      BY <2>1 DEF Fail
    <3> HIDE DEF r
    <3>2. /\ l \in Row /\ l.status = "RECONCILE_REQUIRED"
          /\ l.commit = r.commit /\ l.acked = r.acked
          /\ l.unresolved = r.unresolved /\ l.settled = r.settled
          /\ n \in Clock
      BY <1>1, LeaseFields, StartedClock DEF Statuses, Lane, Crossed
    <3> HIDE DEF l, n
    <3>3. /\ s \in Row /\ s.status = l.status
          /\ s.commit = l.commit /\ s.acked = l.acked
          /\ s.unresolved = l.unresolved /\ s.settled = l.settled
      BY <3>2, ClockFields
    <3> HIDE DEF s
    <3>4. ~r.unresolved /\ ~r.acked /\ r.commit # Never
      BY <1>1, <2>1
         DEF Reached, RowGood, Undecided, Lane, Precommit, Crossed, Terminal
    <3>5. Undecided(s) /\ RowGood(s) /\ ~Decided(s)
      BY <3>2, <3>3, <3>4 DEF Undecided, RowGood, Decided, Crossed
    <3>6. Open(r) /\ Intent(r)
      BY <1>1, <3>4 DEF Open, Intent, Lane, Precommit, Crossed, Terminal
    <3>7. Calm(w, r, s) /\ s.status # "COMMITTING"
      BY <3>2, <3>3, <3>5, <3>6 DEF Calm
    <3> QED  BY <3>1, <3>7
  <2>2. CASE ~(Once(w) /\ Reached(r))
    <3>1. PICK st \in {"RETRY_SCHEDULED", "FAILED"} :
            Put(w, [Freed(r, st) EXCEPT !.commit = Never])
      BY <2>2 DEF Fail
    <3> DEFINE f == Freed(r, st)
               s == [f EXCEPT !.commit = Never]
    <3> HIDE DEF r
    <3>2. st \in Statuses
      BY <3>1 DEF Statuses, Terminal
    <3>3. /\ f \in Row /\ f.status = st /\ f.acked = r.acked
          /\ f.unresolved = r.unresolved
      BY <1>1, <3>2, FreedFields
    <3> HIDE DEF f
    <3>4. /\ s \in Row /\ s.status = st /\ s.acked = r.acked
          /\ s.unresolved = r.unresolved
      BY <3>3, NeverClock DEF Row
    <3> HIDE DEF s
    <3>5. ~r.unresolved /\ ~r.acked
      BY <1>1 DEF RowGood, Lane, Precommit, Crossed, Terminal
    <3>6. ~Undecided(s) /\ ~Decided(s) /\ RowGood(s) /\ ~InDoubt(s)
      BY <3>1, <3>4, <3>5 DEF Undecided, Decided, RowGood, InDoubt, Crossed
    <3>7. Open(r) /\ Intent(r)
      BY <1>1, <3>5 DEF Open, Intent, Lane, Precommit, Crossed, Terminal
    <3>8. Once(w) => ~Undecided(r) /\ ~Decided(r)
      BY <1>1, <2>2, <3>5
         DEF Reached, RowGood, Undecided, Decided, Lane, Precommit, Crossed
    <3>9. Calm(w, r, s) /\ s.status # "COMMITTING"
      BY <1>1, <3>1, <3>4, <3>6, <3>7, <3>8 DEF Calm
    <3> QED  BY <3>1, <3>9 DEF f, s
  <2> QED  BY <2>1, <2>2
<1>3. row \in [Writes -> Row]
  BY RowsTyped DEF IInv
<1>4. \A v \in Writes : row'[v] = IF v = w THEN s ELSE row[v]
  BY <1>2, <1>3 DEF Put
<1>5. row' \in [Writes -> Row] /\ \A v \in Writes : Calm(v, row[v], row'[v])
  BY <1>2, <1>3, <1>4, CalmSelf DEF Put, Calm
<1>6. /\ heard' \in [Writes -> BOOLEAN]
      /\ \A v \in Writes : heard'[v] => heard[v]
      /\ stage' \in [Devices -> [Writes -> {"idle", "claimed", "permitted"}]]
      /\ \A e \in Devices, v \in Writes :
           stage'[e][v] # "idle" => stage'[e][v] = stage[e][v]
  BY DEF Fail, IInv, TypeOK
<1>7. Quiet
  <2>1. \A e \in Devices, v \in Writes :
          row'[v].status = "COMMITTING" /\ Holds(e, v)'
            /\ stage'[e][v] = "claimed" =>
          row[v].status = "COMMITTING" /\ Holds(e, v) /\ stage[e][v] = "claimed"
    BY <1>2, <1>4, <1>6 DEF Holds
  <2> QED  BY <1>6, <2>1 DEF Quiet, Fail, IInv, TypeOK
<1> QED  BY <1>5, <1>7, CalmStep

LEMMA ForgetKeeps ==
  ASSUME IInv, NEW d \in Devices, Forget(d) PROVE IInv'
<1>1. row' \in [Writes -> Row] /\ \A v \in Writes : Calm(v, row[v], row'[v])
  BY RowsTyped, CalmSelf DEF Forget, IInv
<1>2. Quiet
  <2>1. /\ heard' \in [Writes -> BOOLEAN]
        /\ \A v \in Writes : heard'[v] => heard[v]
        /\ capable' \in [Writes -> Devices \cup {None}]
    BY DEF Forget, IInv, TypeOK
  <2>2. /\ stage' \in [Devices -> [Writes -> {"idle", "claimed", "permitted"}]]
        /\ \A e \in Devices, v \in Writes :
             stage'[e][v] # "idle" => stage'[e][v] = stage[e][v]
    BY DEF Forget, IInv, TypeOK
  <2>3. /\ reply' \in [Devices -> [Writes -> {"none", "awaited", "received"}]]
        /\ \A e \in Devices, v \in Writes :
             reply'[e][v] # "none" => reply'[e][v] = reply[e][v]
    BY DEF Forget, IInv, TypeOK
  <2>4. \A e \in Devices, v \in Writes :
          row'[v].status = "COMMITTING" /\ Holds(e, v)'
            /\ stage'[e][v] = "claimed" =>
          row[v].status = "COMMITTING" /\ Holds(e, v) /\ stage[e][v] = "claimed"
    BY <2>1, <2>2 DEF Forget, Holds
  <2> QED  BY <2>1, <2>2, <2>3, <2>4 DEF Quiet, Forget
<1> QED  BY <1>1, <1>2, CalmStep

LEMMA TickKeeps == ASSUME IInv, Tick PROVE IInv'
<1>1. row \in [Writes -> Row]
  BY RowsTyped DEF IInv
<1>2. ASSUME NEW v \in Writes
      PROVE  /\ row'[v] \in Row /\ Calm(v, row[v], row'[v])
             /\ row'[v].status = row[v].status /\ row'[v].holder = row[v].holder
  <2> DEFINE r == row[v]
             a == Down(r.lease)
             b == Down(r.commit)
             c == Down(r.started)
             s == [r EXCEPT !.lease = a, !.commit = b, !.started = c]
  <2>1. r \in Row /\ RowGood(r) /\ Calm(v, r, r)
    BY <1>1, CalmSelf DEF IInv, RowsGood
  <2>2. row'[v] = s
    BY DEF Tick
  <2> HIDE DEF r
  <2>3. /\ a \in 0..LeaseLen /\ b \in Clock /\ c \in Clock
        /\ (b = Never => r.commit = Never)
    <3>1. r.lease \in 0..LeaseLen /\ r.commit \in Clock /\ r.started \in Clock
      BY <2>1 DEF Row
    <3> QED  BY <3>1, WriteAssumption DEF Down, Clock, Never
  <2> HIDE DEF a, b, c
  <2>4. /\ s \in Row /\ s.status = r.status /\ s.holder = r.holder
        /\ s.commit = b /\ s.acked = r.acked
        /\ s.unresolved = r.unresolved /\ s.settled = r.settled
    BY <2>1, <2>3 DEF Row
  <2> HIDE DEF s
  <2>5. Calm(v, r, s)
    BY <2>1, <2>3, <2>4
       DEF Calm, RowGood, Undecided, Decided, Open, Intent, InDoubt
  <2> QED  BY <2>2, <2>4, <2>5 DEF r
<1>3. row' \in [Writes -> Row]
  BY <1>2 DEF Tick
<1>4. \A e \in Devices, v \in Writes :
        row'[v].status = "COMMITTING" /\ Holds(e, v)'
          /\ stage'[e][v] = "claimed" =>
        row[v].status = "COMMITTING" /\ Holds(e, v) /\ stage[e][v] = "claimed"
  BY <1>2 DEF Tick, Holds
<1>5. Quiet
  BY <1>4 DEF Quiet, Tick, IInv, TypeOK
<1> QED  BY <1>2, <1>3, <1>5, CalmStep

-----------------------------------------------------------------------------
(* The steps that begin, grant or send a write.                            *)
LEMMA ReserveIntentKeeps ==
  ASSUME IInv, NEW d \in Devices, NEW w \in Writes, ReserveIntent(d, w)
  PROVE  IInv'
<1> DEFINE r == row[w]
           s == [r EXCEPT !.status = "QUEUED", !.source = d]
<1>1. row \in [Writes -> Row] /\ r \in Row /\ RowGood(r) /\ r.status = "ABSENT"
  BY RowsTyped DEF IInv, RowsGood, ReserveIntent
<1>2. row' = [row EXCEPT ![w] = s] /\ OneRow
  BY DEF ReserveIntent, Put, OneRow
<1> HIDE DEF r
<1>3. ~r.acked /\ ~Undecided(r) /\ ~Decided(r)
  BY <1>1 DEF RowGood, Undecided, Decided, Crossed, Terminal
<1>4. /\ s \in Row /\ s.status = "QUEUED" /\ s.acked = r.acked
      /\ s.unresolved = r.unresolved
  BY <1>1 DEF Row, Statuses
<1> HIDE DEF s
<1>5. ~Undecided(s) /\ ~Decided(s) /\ RowGood(s)
  BY <1>3, <1>4 DEF RowGood, Undecided, Decided, Crossed
<1>6. row' \in [Writes -> Row]
      /\ \A v \in Writes : row'[v] = IF v = w THEN s ELSE row[v]
  BY <1>1, <1>2, <1>4
<1>7. TypeOK'
  BY <1>2, <1>6 DEF OneRow, IInv, TypeOK, Row
<1>8. RowsGood' /\ Proven'
  BY <1>2, <1>5, <1>6 DEF IInv, RowsGood, Proven, OneRow
<1>9. SentOnce'
  <2>1. ASSUME NEW v \in Writes, Once(v)
        PROVE  /\ ~Undecided(row'[v]) /\ ~Decided(row'[v]) =>
                    Unsent(v) /\ Untold(v)
               /\ \A e \in Devices :
                    row'[v].status = "COMMITTING" /\ Holds(e, v)' /\ stage[e][v] = "claimed" =>
                      Unsent(v) /\ Untold(v)
    BY <1>2, <1>3, <1>4, <1>6, <2>1 DEF IInv, SentOnce, Holds, r, OneRow
  <2> QED
    BY <1>2, <2>1 DEF IInv, SentOnce, Unsent, Untold, OneRow, Once, Cancel
<1>10. \A v \in Writes : ~Unacked(v)
  BY DEF ReserveIntent
<1>11. OneIntent'
  BY <1>6, <1>10 DEF OneIntent, Unacked, Create
<1>12. NoBlindResend'
  <2> SUFFICES ASSUME NEW u \in Writes, NEW v \in Writes, u # v, Create(u),
                      Create(v), Payload[u] = Payload[v], InDoubt(row'[u]),
                      Open(row'[v])
               PROVE  FALSE
    BY DEF NoBlindResend, Doubted, InDoubt, Open, Create
  <2>1. u # w /\ row'[u] = row[u]
    BY <1>5, <1>6 DEF InDoubt, Undecided
  <2>2. CASE v = w
    <3>1. Unacked(u) \/ Doubted(u)
      BY <2>1 DEF InDoubt, Unacked, Doubted, IInv, RowsGood, RowGood,
                  Crossed, Terminal
    <3> QED  BY <1>10, <2>2, <3>1 DEF ReserveIntent
  <2>3. CASE v # w
    BY <1>6, <2>1, <2>3 DEF IInv, NoBlindResend, Doubted, InDoubt, Open
  <2> QED  BY <2>2, <2>3
<1> QED  BY <1>7, <1>8, <1>9, <1>11, <1>12 DEF IInv

(* A repeated prepare: the permit again, which the device has not yet.     *)
LEMMA PermitAgainKeeps ==
  ASSUME IInv, NEW d \in Devices, NEW w \in Writes, HoldsLive(d, w),
         stage[d][w] = "claimed", row[w].status = "COMMITTING",
         stage' = [stage EXCEPT ![d][w] = "permitted"],
         UNCHANGED <<row, capable, heard, reply, wire, effects>>
  PROVE  IInv'
<1>1. Once(w) => Unsent(w) /\ Untold(w)
  BY DEF IInv, SentOnce, HoldsLive
<1>2. \A e \in Devices, v \in Writes :
        stage'[e][v] = IF e = d /\ v = w THEN "permitted" ELSE stage[e][v]
  BY DEF IInv, TypeOK
<1>3. TypeOK'
  BY DEF IInv, TypeOK
<1>4. SentOnce'
  <2> SUFFICES ASSUME NEW v \in Writes, Once(v)
               PROVE  /\ ~Undecided(row[v]) /\ ~Decided(row[v]) =>
                           Unsent(v) /\ Untold(v)'
                      /\ \A e \in Devices : stage'[e][v] = "permitted" =>
                           Unsent(v) /\ \A f \in Devices \ {e} :
                             stage'[f][v] # "permitted"
                      /\ \A e \in Devices :
                           row[v].status = "COMMITTING" /\ Holds(e, v)
                             /\ stage'[e][v] = "claimed" =>
                           Unsent(v) /\ Untold(v)'
                      /\ effects[v] + wire[v] <= 1
    BY DEF SentOnce, Unsent, Holds, Once, Cancel
  <2>1. CASE v # w
    BY <1>2, <2>1 DEF IInv, SentOnce, Untold
  <2>2. CASE v = w
    <3>1. Undecided(row[w])
      BY DEF Undecided, Crossed
    <3>2. \A e \in Devices : Holds(e, w) => e = d
      BY DEF HoldsLive, Holds
    <3> QED  BY <1>1, <1>2, <2>2, <3>1, <3>2 DEF IInv, SentOnce, Untold
  <2> QED  BY <2>1, <2>2
<1>5. (RowsGood /\ Proven /\ OneIntent /\ NoBlindResend)'
  BY DEF IInv, RowsGood, Proven, OneIntent, NoBlindResend, Unacked, Doubted,
         Create
<1> QED  BY <1>3, <1>4, <1>5 DEF IInv

(* The commit is granted, and the device may not hear of it.               *)
LEMMA GrantKeeps ==
  ASSUME IInv, NEW d \in Devices, NEW w \in Writes, NEW told \in BOOLEAN,
         Prepare(d, w, told), row[w].status = "RUNNING"
  PROVE  IInv'
<1> DEFINE r == row[w]
           s == [r EXCEPT !.status = "COMMITTING", !.commit = Window]
<1>1. row \in [Writes -> Row] /\ r \in Row /\ RowGood(r) /\ r.status = "RUNNING"
  BY RowsTyped DEF IInv, RowsGood
<1>2. /\ row' = [row EXCEPT ![w] = s] /\ Holds(d, w) /\ stage[d][w] = "claimed"
      /\ UNCHANGED <<heard, reply, wire, effects>>
  BY <1>1 DEF Prepare, Put, HoldsLive
<1> HIDE DEF r
<1>3. ~r.acked /\ ~r.unresolved /\ ~Undecided(r) /\ ~Decided(r)
  BY <1>1 DEF RowGood, Undecided, Decided, Crossed, Terminal
<1>4. /\ s \in Row /\ s.status = "COMMITTING" /\ s.acked = r.acked
      /\ s.unresolved = r.unresolved /\ s.commit # Never /\ s.holder = r.holder
  <2>1. "COMMITTING" \in Statuses /\ Window \in Clock /\ Window # Never
    BY WriteAssumption DEF Statuses, Lane, Crossed, Clock, Never
  <2> QED  BY <1>1, <2>1 DEF Row
<1> HIDE DEF s
<1>5. Undecided(s) /\ ~Decided(s) /\ RowGood(s)
  BY <1>3, <1>4 DEF RowGood, Undecided, Decided, Crossed
<1>6. row' \in [Writes -> Row]
      /\ \A v \in Writes : row'[v] = IF v = w THEN s ELSE row[v]
  BY <1>1, <1>2, <1>4
<1>7. /\ stage' \in [Devices -> [Writes -> {"idle", "claimed", "permitted"}]]
      /\ \A e \in Devices, v \in Writes :
           stage'[e][v] = IF e = d /\ v = w /\ told THEN "permitted" ELSE stage[e][v]
  BY DEF Prepare, IInv, TypeOK
<1>8. TypeOK'
  <2>1. capable' \in [Writes -> Devices \cup {None}]
    <3>1. CASE told
      BY <1>1, <3>1 DEF Prepare, IInv, TypeOK, r
    <3>2. CASE ~told
      BY <1>1, <3>2 DEF Prepare, IInv, TypeOK, r
    <3> QED  BY <3>1, <3>2
  <2> QED  BY <1>2, <1>6, <1>7, <2>1 DEF IInv, TypeOK, Row
<1>9. RowsGood' /\ Proven'
  BY <1>2, <1>5, <1>6 DEF IInv, RowsGood, Proven
<1>10. SentOnce'
  <2> SUFFICES ASSUME NEW v \in Writes, Once(v)
               PROVE  /\ ~Undecided(row'[v]) /\ ~Decided(row'[v]) =>
                           Unsent(v) /\ Untold(v)'
                      /\ \A e \in Devices : stage'[e][v] = "permitted" =>
                           Unsent(v) /\ \A f \in Devices \ {e} :
                             stage'[f][v] # "permitted"
                      /\ \A e \in Devices :
                           row'[v].status = "COMMITTING" /\ Holds(e, v)'
                             /\ stage'[e][v] = "claimed" =>
                           Unsent(v) /\ Untold(v)'
                      /\ effects[v] + wire[v] <= 1
    BY <1>2 DEF SentOnce, Unsent, Once, Cancel
  <2>1. CASE v # w
    BY <1>2, <1>6, <1>7, <2>1 DEF IInv, SentOnce, Untold, Holds
  <2>2. CASE v = w
    <3>1. Unsent(w) /\ Untold(w)
      BY <1>3, <2>2 DEF IInv, SentOnce, r
    <3>2. \A e \in Devices : Holds(e, w)' => e = d
      BY <1>2, <1>4, <1>6 DEF Holds, r
    <3>3. effects[v] + wire[v] <= 1
      BY DEF IInv, SentOnce
    <3>4. \A e \in Devices : stage'[e][w] = "permitted" => e = d /\ told
      BY <1>7, <3>1 DEF Untold
    <3>5. told => stage'[d][w] = "permitted"
      BY <1>7
    <3>6. \A e \in Devices : Holds(e, w)' /\ stage'[e][w] = "claimed" => Untold(w)'
      BY <3>2, <3>4, <3>5 DEF Untold
    <3> QED  BY <1>5, <1>6, <2>2, <3>1, <3>3, <3>4, <3>6
  <2> QED  BY <2>1, <2>2
<1>11. OneIntent'
  BY <1>1, <1>4, <1>6 DEF IInv, OneIntent, Unacked, Create, r
<1>12. NoBlindResend'
  <2> SUFFICES ASSUME NEW u \in Writes, NEW v \in Writes, u # v, Create(u),
                      Create(v), Payload[u] = Payload[v], InDoubt(row'[u]),
                      Open(row'[v])
               PROVE  FALSE
    BY DEF NoBlindResend, Doubted, InDoubt, Open, Create
  <2>1. Open(row[v])
    BY <1>1, <1>6 DEF Open, Terminal, r
  <2>2. CASE u = w
    <3>1. Unacked(v) /\ Unacked(w)
      BY <1>1, <1>3, <2>1, <2>2
         DEF IInv, RowsGood, RowGood, Open, Unacked, r
    <3> QED  BY <2>2, <3>1 DEF IInv, OneIntent
  <2>3. CASE u # w
    BY <1>6, <2>1, <2>3 DEF IInv, NoBlindResend, Doubted, InDoubt, Open
  <2> QED  BY <2>2, <2>3
<1> QED  BY <1>8, <1>9, <1>10, <1>11, <1>12 DEF IInv

LEMMA PrepareKeeps ==
  ASSUME IInv, NEW d \in Devices, NEW w \in Writes, NEW told \in BOOLEAN,
         Prepare(d, w, told)
  PROVE  IInv'
<1>1. CASE row[w].status = "RUNNING"
  BY <1>1, GrantKeeps
<1>2. CASE row[w].status = "COMMITTING" /\ told
  BY <1>2, PermitAgainKeeps DEF Prepare
<1>3. CASE row[w].status = "COMMITTING" /\ ~told
  <2>1. /\ UNCHANGED <<row, capable, stage, heard, reply, wire, effects>>
    BY <1>3 DEF Prepare
  <2>2. Quiet /\ row' \in [Writes -> Row]
        /\ \A v \in Writes : Calm(v, row[v], row'[v])
    BY <2>1, CalmSelf, RowsTyped DEF Quiet, Holds, IInv, TypeOK
  <2> QED  BY <2>2, CalmStep
<1> QED  BY <1>1, <1>2, <1>3 DEF Prepare

LEMMA PostKeeps ==
  ASSUME IInv, NEW d \in Devices, NEW w \in Writes, Post(d, w) PROVE IInv'
<1>1. /\ stage[d][w] = "permitted" /\ wire[w] < MaxWire /\ wire[w] \in 0..MaxWire
      /\ UNCHANGED <<row, heard, capable, effects>>
  BY DEF Post, IInv, TypeOK
<1>2. /\ stage' \in [Devices -> [Writes -> {"idle", "claimed", "permitted"}]]
      /\ \A e \in Devices, v \in Writes :
           stage'[e][v] = IF e = d /\ v = w THEN "idle" ELSE stage[e][v]
  BY DEF Post, IInv, TypeOK
<1>3. /\ wire' \in [Writes -> 0..MaxWire]
      /\ \A v \in Writes : wire'[v] = IF v = w THEN wire[v] + 1 ELSE wire[v]
  BY <1>1, WriteAssumption DEF Post, IInv, TypeOK
<1>4. /\ reply' \in [Devices -> [Writes -> {"none", "awaited", "received"}]]
      /\ \A e \in Devices, v \in Writes :
           reply'[e][v] = "received" => reply[e][v] = "received"
  BY DEF Post, IInv, TypeOK
<1>5. TypeOK'
  BY <1>1, <1>2, <1>3, <1>4 DEF IInv, TypeOK
<1>6. SentOnce'
  <2> SUFFICES ASSUME NEW v \in Writes, Once(v)
               PROVE  /\ ~Undecided(row[v]) /\ ~Decided(row[v]) =>
                           Unsent(v)' /\ Untold(v)'
                      /\ \A e \in Devices : stage'[e][v] = "permitted" =>
                           Unsent(v)' /\ \A f \in Devices \ {e} :
                             stage'[f][v] # "permitted"
                      /\ \A e \in Devices :
                           row[v].status = "COMMITTING" /\ Holds(e, v)
                             /\ stage'[e][v] = "claimed" =>
                           Unsent(v)' /\ Untold(v)'
                      /\ effects'[v] + wire'[v] <= 1
    BY <1>1 DEF SentOnce, Holds, Once, Cancel
  <2>1. CASE v # w
    <3>1. /\ wire'[v] = wire[v] /\ effects'[v] = effects[v]
          /\ \A e \in Devices : stage'[e][v] = stage[e][v]
      BY <1>1, <1>2, <1>3, <2>1
    <3>2. (Unsent(v)' <=> Unsent(v)) /\ (Untold(v)' <=> Untold(v))
      BY <3>1 DEF Unsent, Untold
    <3> QED  BY <3>1, <3>2 DEF IInv, SentOnce
  <2>2. CASE v = w
    <3>1. /\ Unsent(w) /\ \A e \in Devices \ {d} : stage[e][w] # "permitted"
          /\ ~Untold(w)
      BY <1>1, <2>2 DEF IInv, SentOnce, Untold
    <3>2. \A e \in Devices : stage'[e][w] # "permitted"
      BY <1>2, <3>1
    <3>3. effects'[w] + wire'[w] <= 1
      BY <1>1, <1>3, <3>1 DEF Unsent
    <3>4. \A e \in Devices : stage'[e][w] = "claimed" => stage[e][w] = "claimed"
      BY <1>2
    <3> QED  BY <2>2, <3>1, <3>2, <3>3, <3>4 DEF IInv, SentOnce
  <2> QED  BY <2>1, <2>2
<1>7. (RowsGood /\ Proven /\ OneIntent /\ NoBlindResend)'
  BY <1>1, <1>4 DEF IInv, RowsGood, Proven, OneIntent, NoBlindResend, Unacked,
                    Doubted, Create
<1> QED  BY <1>5, <1>6, <1>7 DEF IInv

(* What the provider and the network do to a write that was sent.          *)
LEMMA WireKeeps ==
  ASSUME IInv, NEW w \in Writes, Apply(w) \/ Lost(w) \/ QueueEnds(w) PROVE IInv'
<1>1. UNCHANGED <<row, heard, stage, reply, capable>>
  BY DEF Apply, Lost, QueueEnds
<1>2. /\ wire' \in [Writes -> 0..MaxWire] /\ effects' \in [Writes -> Nat]
      /\ \A v \in Writes : effects[v] > 0 => effects'[v] > 0
      /\ \A v \in Writes : Once(v) =>
           \/ effects'[v] = effects[v] /\ wire'[v] = wire[v]
           \/ ~Unsent(v) /\ effects'[v] + wire'[v] <= effects[v] + wire[v]
  <2>1. wire \in [Writes -> 0..MaxWire] /\ effects \in [Writes -> Nat]
    BY DEF IInv, TypeOK
  <2>2. CASE Apply(w)
    BY <2>1, <2>2, WriteAssumption DEF Apply, Unsent, Once
  <2>3. CASE Lost(w)
    BY <2>1, <2>3, WriteAssumption DEF Lost, Unsent, Once
  <2>4. CASE QueueEnds(w)
    BY <2>1, <2>4 DEF QueueEnds, Once
  <2> QED  BY <2>2, <2>3, <2>4
<1>3. TypeOK' /\ Proven'
  BY <1>1, <1>2 DEF IInv, TypeOK, Proven
<1>4. SentOnce'
  <2> SUFFICES ASSUME NEW v \in Writes, Once(v)
               PROVE  /\ ~Undecided(row[v]) /\ ~Decided(row[v]) =>
                           Unsent(v)' /\ Untold(v)
                      /\ \A e \in Devices : stage[e][v] = "permitted" =>
                           Unsent(v)' /\ \A f \in Devices \ {e} :
                             stage[f][v] # "permitted"
                      /\ \A e \in Devices :
                           row[v].status = "COMMITTING" /\ Holds(e, v)
                             /\ stage[e][v] = "claimed" =>
                           Unsent(v)' /\ Untold(v)
                      /\ effects'[v] + wire'[v] <= 1
    BY <1>1 DEF SentOnce, Untold, Holds, Once, Cancel
  <2>1. Unsent(v) => Unsent(v)'
    BY <1>2 DEF Unsent
  <2>2. effects'[v] + wire'[v] <= 1
    <3>1. effects[v] + wire[v] <= 1
      BY DEF IInv, SentOnce
    <3>2. /\ effects[v] \in Nat /\ wire[v] \in Nat
          /\ effects'[v] \in Nat /\ wire'[v] \in Nat
      BY <1>2, WriteAssumption DEF IInv, TypeOK
    <3>3. \/ effects'[v] = effects[v] /\ wire'[v] = wire[v]
          \/ effects'[v] + wire'[v] <= effects[v] + wire[v]
      BY <1>2
    <3> QED  BY <3>1, <3>2, <3>3
  <2> QED  BY <2>1, <2>2 DEF IInv, SentOnce
<1>5. (RowsGood /\ OneIntent /\ NoBlindResend)'
  BY <1>1 DEF IInv, RowsGood, OneIntent, NoBlindResend, Unacked, Doubted, Create
<1> QED  BY <1>3, <1>4, <1>5 DEF IInv

LEMMA RespondKeeps ==
  ASSUME IInv, NEW d \in Devices, NEW w \in Writes, Respond(d, w) PROVE IInv'
<1>1. UNCHANGED <<row, heard, stage, capable, wire, effects>>
  BY DEF Respond
<1>2. TypeOK' /\ Proven'
  BY DEF Respond, IInv, TypeOK, Proven
<1>3. (RowsGood /\ SentOnce /\ OneIntent /\ NoBlindResend)'
  BY <1>1 DEF IInv, RowsGood, SentOnce, Unsent, Untold, Holds, OneIntent,
              NoBlindResend, Unacked, Doubted, Create, Once, Cancel
<1> QED  BY <1>2, <1>3 DEF IInv

-----------------------------------------------------------------------------
LEMMA InitiallyGood == Init => IInv
<1> SUFFICES ASSUME Init PROVE IInv
  OBVIOUS
<1>1. NoRow \in Row
  BY WriteAssumption, NeverClock DEF NoRow, Row, Statuses
<1>2. \A w \in Writes : row[w] = NoRow
  BY DEF Init
<1>3. TypeOK
  BY <1>1, WriteAssumption DEF Init, TypeOK, Row
<1>4. /\ NoRow.status = "ABSENT" /\ NoRow.holder = None /\ ~NoRow.unresolved
      /\ ~NoRow.acked
  BY DEF NoRow
<1>5. RowsGood
  BY <1>2, <1>4 DEF RowsGood, RowGood, Undecided, Crossed
<1>6. SentOnce
  BY DEF Init, SentOnce, Unsent, Untold
<1>7. Proven
  BY <1>2, <1>4 DEF Init, Proven, Decided
<1>8. OneIntent /\ NoBlindResend
  BY <1>2, <1>4 DEF OneIntent, NoBlindResend, Unacked, Doubted, Crossed
<1> QED  BY <1>3, <1>5, <1>6, <1>7, <1>8 DEF IInv

LEMMA StutterKeeps == IInv /\ UNCHANGED vars => IInv'
<1> SUFFICES ASSUME IInv, UNCHANGED vars PROVE IInv'
  OBVIOUS
<1>1. Quiet /\ row' \in [Writes -> Row]
      /\ \A v \in Writes : Calm(v, row[v], row'[v])
  BY CalmSelf, RowsTyped DEF vars, Quiet, Holds, IInv, TypeOK
<1> QED  BY <1>1, CalmStep

LEMMA InductiveStep == IInv /\ [Next]_vars => IInv'
<1> SUFFICES ASSUME IInv, [Next]_vars PROVE IInv'
  OBVIOUS
<1>1. ASSUME NEW d \in Devices, NEW w \in Writes, OfDevice(d, w) PROVE IInv'
  <2>1. CASE ReserveIntent(d, w)
    BY <2>1, ReserveIntentKeeps
  <2>2. CASE Reserve(d, w)
    BY <2>2, ReserveKeeps
  <2>3. CASE Start(d, w)
    BY <2>3, StartKeeps
  <2>4. CASE \E told \in BOOLEAN : Prepare(d, w, told)
    BY <2>4, PrepareKeeps
  <2>5. CASE Post(d, w)
    BY <2>5, PostKeeps
  <2>6. CASE Respond(d, w)
    BY <2>6, RespondKeeps
  <2>7. CASE Complete(d, w) \/ SettleByToken(d, w) \/ Match(d, w)
    BY <2>7, ReportKeeps
  <2>8. CASE Fail(d, w)
    BY <2>8, FailKeeps
  <2>9. CASE WaitForReadback(d, w)
    BY <2>9, WaitForReadbackKeeps
  <2>10. CASE CloseUnresolved(d, w)
    BY <2>10, CloseUnresolvedKeeps
  <2> QED  BY <1>1, <2>1, <2>2, <2>3, <2>4, <2>5, <2>6, <2>7, <2>8, <2>9, <2>10
           DEF OfDevice
<1>2. ASSUME NEW w \in Writes, OfWrite(w) PROVE IInv'
  <2>1. CASE Sweep(w)
    BY <2>1, SweepKeeps
  <2>2. CASE Acknowledge(w)
    BY <2>2, AcknowledgeKeeps
  <2>3. CASE Abandon(w)
    BY <2>3, AbandonKeeps
  <2>4. CASE Apply(w) \/ Lost(w) \/ QueueEnds(w)
    BY <2>4, WireKeeps
  <2>5. CASE ResolveMatched(w) \/ SnapshotProves(w)
    BY <2>5, SettledKeeps
  <2>6. CASE SnapshotEmpty(w)
    BY <2>6, SnapshotEmptyKeeps
  <2> QED  BY <1>2, <2>1, <2>2, <2>3, <2>4, <2>5, <2>6 DEF OfWrite
<1> QED  BY <1>1, <1>2, ForgetKeeps, TickKeeps, StutterKeeps DEF Next

(* The inductive invariant holds in every state: rows are well formed, what *)
(* was sent at most once, what is recorded of a write is true of it, and no   *)
(* device acts on an intent that another one has taken over.                  *)
THEOREM Inductive == Spec => []IInv
BY InitiallyGood, InductiveStep, PTL DEF Spec

(* The types of rows and of what devices know, and the range of clocks.    *)
THEOREM TypeCorrect == Spec => []TypeOK
<1>1. IInv => TypeOK
  BY DEF IInv
<1> QED  BY <1>1, Inductive, PTL

(* For any devices and bounds, a write that is not idempotent reaches the  *)
(* provider at most once, though devices restart, fail, lose answers and   *)
(* take over from each other.                                              *)
THEOREM SentAtMostOnce == Spec => []AtMostOnce
<1>1. IInv => AtMostOnce
  BY DEF IInv, SentOnce, AtMostOnce
<1> QED  BY <1>1, Inductive, PTL

(* COMPLETED has happened; what may be retried or was refused has not, is  *)
(* not on its way, and no device may still send it.                        *)
THEOREM OutcomesTrue == Spec => []OutcomeIsTrue
<1>1. IInv => OutcomeIsTrue
  BY DEF IInv, SentOnce, Proven, Undecided, Decided, Unsent, Untold,
         OutcomeIsTrue
<1> QED  BY <1>1, Inductive, PTL

(* No mass message is under way while the same one is in doubt.            *)
THEOREM NeverBlind == Spec => []NoBlindResend
<1>1. IInv => NoBlindResend
  BY DEF IInv
<1> QED  BY <1>1, Inductive, PTL

(* An accepted mass message keeps the record of its grant until it is      *)
(* completed, so that the exact answer can always be recorded.             *)
THEOREM AcceptedStays == Spec => []AcceptedIsSettleable
<1>1. IInv => AcceptedIsSettleable
  <2> SUFFICES ASSUME IInv, NEW w \in Writes, Create(w), effects[w] > 0,
                      row[w].status # "COMPLETED"
               PROVE  Settleable(row[w])
    BY DEF AcceptedIsSettleable
  <2>1. Once(w)
    BY DEF Once, Create, Cancel
  <2>2. Undecided(row[w])
    BY <2>1 DEF IInv, SentOnce, Unsent, Decided
  <2> QED  BY <2>2 DEF IInv, RowsGood, RowGood, Undecided, Settleable
<1> QED  BY <1>1, Inductive, PTL

-----------------------------------------------------------------------------
(* The authority implements ExternalWrite.  The sweep that goes with a     *)
(* reservation may change several rows, so what is needed is that only one *)
(* row at a time is in the creator's lane.                                 *)
OneLane ==
  \A v, w \in Writes :
    row[v].status \in Lane /\ row[w].status \in Lane => v = w

LEMMA LaneEntered ==
  ASSUME IInv, NEW v \in Writes, row'[v].status \in Lane, [Next]_vars
  PROVE  \/ row[v].status \in Lane
         \/ \A u \in Writes \ {v} : row'[u].status \notin Lane
<1> DEFINE Kept == row'[v].status \in Lane => row[v].status \in Lane
<1>1. row \in [Writes -> Row]
  BY RowsTyped DEF IInv
<1>2. ASSUME NEW w \in Writes, NEW s, Put(w, s),
             s.status \notin Lane \/ row[w].status \in Lane
      PROVE  Kept
  BY <1>1, <1>2 DEF Put
<1>3. CASE UNCHANGED row
  BY <1>3
<1>4. ASSUME NEW w \in Writes, Put(w, Completed(row[w])) PROVE Kept
  <2>1. Completed(row[w]).status \notin Lane
    BY <1>1, CompletedFields DEF Lane, Precommit, Crossed
  <2> QED  BY <1>2, <1>4, <2>1
<1>5. ASSUME NEW w \in Writes, Put(w, Unresolved(row[w])) PROVE Kept
  <2>1. Unresolved(row[w]).status \notin Lane
    BY <1>1, UnresolvedFields DEF Lane, Precommit, Crossed
  <2> QED  BY <1>2, <1>5, <2>1
<1>6. ASSUME NEW d \in Devices, NEW w \in Writes, OfDevice(d, w)
      PROVE  Kept \/ \A u \in Writes \ {v} : row'[u].status \notin Lane
  <2>1. CASE ReserveIntent(d, w)
    <3> DEFINE r == row[w]
               s == [r EXCEPT !.status = "QUEUED", !.source = d]
    <3>1. Put(w, s)
      BY <2>1 DEF ReserveIntent
    <3>2. s.status = "QUEUED"
      BY <1>1 DEF Row
    <3> HIDE DEF s
    <3> QED  BY <1>2, <3>1, <3>2 DEF Lane, Precommit, Crossed
  <2>2. CASE Reserve(d, w)
    <3>1. \A u \in Writes \ {w} : row'[u].status \notin Lane
      BY <2>2 DEF Reserve
    <3> QED  BY <3>1
  <2>3. CASE Start(d, w) \/ (\E told \in BOOLEAN : Prepare(d, w, told))
    <3>1. UNCHANGED row \/ (row[w].status \in Lane /\ \E s : Put(w, s))
      BY <2>3 DEF Start, Prepare, Lane, Precommit
    <3> QED  BY <1>2, <1>3, <3>1
  <2>4. CASE Post(d, w) \/ Respond(d, w)
    BY <1>3, <2>4 DEF Post, Respond
  <2>5. CASE Complete(d, w) \/ SettleByToken(d, w) \/ Match(d, w)
    BY <1>4, <2>5 DEF Complete, SettleByToken, Match
  <2>6. CASE Fail(d, w)
    <3>1. row[w].status \in Lane /\ \E s : Put(w, s)
      BY <2>6 DEF Fail
    <3> QED  BY <1>2, <3>1
  <2>7. CASE WaitForReadback(d, w) \/ CloseUnresolved(d, w)
    <3>1. row[w].status \in Lane /\ \E s : Put(w, s)
      BY <2>7 DEF WaitForReadback, CloseUnresolved, Reconciling, Lane, Crossed
    <3> QED  BY <1>2, <3>1
  <2> QED  BY <1>6, <2>1, <2>2, <2>3, <2>4, <2>5, <2>6, <2>7 DEF OfDevice
<1>7. ASSUME NEW w \in Writes, OfWrite(w) PROVE Kept
  <2>1. CASE Sweep(w)
    <3>1. PICK s \in {FirstScan(row[w]), SecondScan(row[w])} : Put(w, s)
      BY <2>1 DEF Sweep
    <3>2. s = row[w] \/ Taken(row[w], s)
      BY <1>1, <3>1, FirstTaken, SecondTaken
    <3>3. s.status \notin Lane \/ row[w].status \in Lane
      BY <3>2 DEF Taken, Lane
    <3> QED  BY <1>2, <3>1, <3>3
  <2>2. CASE Acknowledge(w)
    <3> DEFINE s == [row[w] EXCEPT !.acked = TRUE]
    <3>1. Put(w, s) /\ row[w].status \in Terminal
      BY <2>2 DEF Acknowledge
    <3>2. s.status = row[w].status
      BY <1>1 DEF Row
    <3> HIDE DEF s
    <3> QED  BY <1>2, <3>1, <3>2 DEF Lane, Precommit, Crossed, Terminal
  <2>3. CASE Abandon(w)
    <3> DEFINE f == Freed(row[w], "CANCELED")
               s == [f EXCEPT !.acked = TRUE]
    <3>1. Put(w, s)
      BY <2>3 DEF Abandon
    <3>2. f \in Row /\ f.status = "CANCELED"
      BY <1>1, FreedFields DEF Statuses, Terminal
    <3> HIDE DEF f
    <3>3. s.status = "CANCELED"
      BY <3>2 DEF Row
    <3> HIDE DEF s
    <3> QED  BY <1>2, <3>1, <3>3 DEF Lane, Precommit, Crossed
  <2>4. CASE Apply(w) \/ Lost(w) \/ QueueEnds(w)
    BY <1>3, <2>4 DEF Apply, Lost, QueueEnds
  <2>5. CASE ResolveMatched(w) \/ SnapshotProves(w)
    BY <1>4, <2>5 DEF ResolveMatched, SnapshotProves
  <2>6. CASE SnapshotEmpty(w)
    <3> DEFINE s == [row[w] EXCEPT !.settled = TRUE]
    <3>1. Put(w, s)
      BY <2>6 DEF SnapshotEmpty
    <3>2. s.status = row[w].status
      BY <1>1 DEF Row
    <3> HIDE DEF s
    <3> QED  BY <1>2, <3>1, <3>2
  <2> QED  BY <1>7, <2>1, <2>2, <2>3, <2>4, <2>5, <2>6 DEF OfWrite
<1>8. CASE Tick
  <2>1. row'[v].status = row[v].status
    BY <1>1, <1>8 DEF Tick, Row
  <2> QED  BY <2>1
<1>9. CASE \E d \in Devices : Forget(d)
  BY <1>3, <1>9 DEF Forget
<1>10. CASE UNCHANGED vars
  BY <1>3, <1>10 DEF vars
<1> QED  BY <1>6, <1>7, <1>8, <1>9, <1>10 DEF Next

LEMMA LaneKept == IInv /\ OneLane /\ [Next]_vars => OneLane'
<1> SUFFICES ASSUME IInv, OneLane, [Next]_vars, NEW v \in Writes,
                    NEW w \in Writes, row'[v].status \in Lane,
                    row'[w].status \in Lane
             PROVE  v = w
  BY DEF OneLane
<1> QED  BY LaneEntered DEF OneLane

(* The creator's lane is held by one write at a time.                      *)
LEMMA LaneExclusive == Spec => []OneLane
<1>1. Init => OneLane
  BY DEF Init, NoRow, OneLane, Lane, Precommit, Crossed
<1> QED  BY <1>1, LaneKept, Inductive, PTL DEF Spec

(* The outcome that a row records.                                         *)
Outcome(r) ==
  CASE r.status = "COMPLETED" -> "succeeded"
    [] r.status \in Crossed -> "granted"
    [] r.status = "FAILED" /\ r.unresolved -> "unknown"
    [] r.status = "CANCELED" \/ (r.status = "FAILED" /\ ~r.unresolved) ->
         "denied"
    [] OTHER -> "open"

LEMMA OutcomeRecorded ==
  \A w \in Writes : /\ Recorded(w) = Outcome(row[w])
                    /\ Recorded(w)' = Outcome(row'[w])
BY DEF Recorded, Outcome

LEMMA OutcomeCases ==
  ASSUME NEW r
  PROVE  /\ r.status = "COMPLETED" => Outcome(r) = "succeeded"
         /\ r.status \in Crossed => Outcome(r) = "granted"
         /\ r.status = "FAILED" /\ r.unresolved => Outcome(r) = "unknown"
         /\ r.status = "CANCELED" \/ (r.status = "FAILED" /\ ~r.unresolved) =>
              Outcome(r) = "denied"
         /\ r.status \notin Crossed \cup Terminal => Outcome(r) = "open"
BY DEF Outcome, Crossed, Terminal

(* The steps of the promise for one write, as changes of its row.          *)
Advance(w, r, s) ==
  \/ Outcome(s) = Outcome(r)
  \/ Outcome(r) = "open" /\ Outcome(s) \in {"granted", "denied"}
  \/ Outcome(r) = "granted" /\ Outcome(s) = "unknown"
  \/ /\ Outcome(r) \in {"granted", "unknown"} /\ Outcome(s) = "succeeded"
     /\ effects[w] = 1

LEMMA AdvanceImplements ==
  ASSUME UNCHANGED effects, NEW w \in Writes,
         \A v \in Writes \ {w} : Outcome(row'[v]) = Outcome(row[v]),
         Once(w) => Advance(w, row[w], row'[w])
  PROVE  Promise!Next \/ UNCHANGED Promise!vars
<1> DEFINE old == [v \in OnceWrites |-> Recorded(v)]
           new == [v \in OnceWrites |-> Recorded(v)']
<1>1. \A v \in OnceWrites : v \in Writes /\ Once(v)
  BY DEF OnceWrites
<1>2. \A v \in OnceWrites :
        old[v] = Outcome(row[v]) /\ new[v] = Outcome(row'[v])
  BY <1>1, OutcomeRecorded
<1>3. \A v \in OnceWrites \ {w} : new[v] = old[v]
  BY <1>1, <1>2
<1>4. UNCHANGED [v \in OnceWrites |-> effects[v]]
  BY DEF OnceWrites, Once, Cancel
<1>5. OnceWrites' = OnceWrites
  BY DEF OnceWrites, Once, Cancel
<1>6. CASE w \notin OnceWrites \/ Outcome(row'[w]) = Outcome(row[w])
  <2>1. new = old
    BY <1>2, <1>3, <1>6
  <2> QED  BY <1>4, <1>5, <2>1 DEF Promise!vars
<1>7. CASE w \in OnceWrites /\ Outcome(row'[w]) # Outcome(row[w])
  <2> DEFINE to == Outcome(row'[w])
  <2>1. new = [old EXCEPT ![w] = to] /\ old[w] = Outcome(row[w])
    BY <1>2, <1>3, <1>7
  <2>2. Advance(w, row[w], row'[w]) /\ [v \in OnceWrites |-> effects[v]][w] = effects[w]
    BY <1>1, <1>7
  <2>3. ASSUME NEW from, old[w] \in from PROVE Promise!Become(w, from, to)
    BY <1>4, <1>5, <2>1, <2>3 DEF Promise!Become
  <2>4. \/ Promise!Grant(w) \/ Promise!Deny(w) \/ Promise!GiveUp(w)
        \/ Promise!Succeed(w)
    <3>1. CASE old[w] = "open" /\ to = "granted"
      BY <2>3, <3>1 DEF Promise!Grant
    <3>2. CASE old[w] = "open" /\ to = "denied"
      BY <2>3, <3>2 DEF Promise!Deny
    <3>3. CASE old[w] = "granted" /\ to = "unknown"
      BY <2>3, <3>3 DEF Promise!GiveUp
    <3>4. CASE /\ old[w] \in {"granted", "unknown"} /\ to = "succeeded"
               /\ effects[w] = 1
      BY <2>2, <2>3, <3>4 DEF Promise!Succeed
    <3> QED  BY <1>7, <2>1, <2>2, <3>1, <3>2, <3>3, <3>4 DEF Advance
  <2> QED  BY <1>7, <2>4 DEF Promise!Next
<1> QED  BY <1>6, <1>7

LEMMA PutImplements ==
  ASSUME IInv, UNCHANGED effects, NEW w \in Writes, NEW s, Put(w, s),
         Once(w) => Advance(w, row[w], s)
  PROVE  Promise!Next \/ UNCHANGED Promise!vars
<1>1. \A v \in Writes : row'[v] = IF v = w THEN s ELSE row[v]
  BY RowsTyped DEF IInv, Put
<1> QED  BY <1>1, AdvanceImplements

LEMMA SameImplements ==
  ASSUME UNCHANGED effects,
         \A v \in Writes : Outcome(row'[v]) = Outcome(row[v])
  PROVE  UNCHANGED Promise!vars
<1>1. OnceWrites' = OnceWrites /\ \A v \in OnceWrites : v \in Writes
  BY DEF OnceWrites, Once, Cancel
<1>2. \A v \in OnceWrites : Recorded(v)' = Recorded(v)
  BY <1>1, OutcomeRecorded
<1> QED  BY <1>1, <1>2 DEF Promise!vars

LEMMA SuccessImplements ==
  ASSUME IInv, UNCHANGED effects, NEW w \in Writes, Put(w, Completed(row[w])),
         effects[w] > 0, Once(w) => Undecided(row[w])
  PROVE  Promise!Next \/ UNCHANGED Promise!vars
<1> DEFINE r == row[w]
           s == Completed(r)
<1>1. r \in Row /\ RowGood(r)
  BY RowsTyped DEF IInv, RowsGood
<1>2. Outcome(s) = "succeeded"
  BY <1>1, CompletedFields, OutcomeCases
<1> HIDE DEF r, s
<1>3. Once(w) => Outcome(r) \in {"granted", "unknown"}
  BY <1>1, OutcomeCases DEF Undecided, RowGood, r
<1>4. Once(w) => effects[w] = 1
  <2>1. effects[w] \in Nat /\ wire[w] \in Nat
    BY WriteAssumption DEF IInv, TypeOK
  <2> QED  BY <2>1 DEF IInv, SentOnce
<1>5. Once(w) => Advance(w, r, s)
  BY <1>2, <1>3, <1>4 DEF Advance
<1> QED  BY <1>5, PutImplements DEF r, s

LEMMA TakenAdvances ==
  ASSUME NEW w, NEW r, RowGood(r), NEW s, s = r \/ Taken(r, s)
  PROVE  Advance(w, r, s) /\ (r.status \notin Lane => Outcome(s) = Outcome(r))
<1>1. CASE s = r
  BY <1>1 DEF Advance
<1>2. CASE Taken(r, s) /\ r.status \in Precommit
  <2>1. s.status = "RETRY_SCHEDULED"
    BY <1>2 DEF Taken, Precommit, Crossed
  <2>2. Outcome(r) = "open" /\ Outcome(s) = "open"
    BY <1>2, <2>1, OutcomeCases DEF Precommit, Crossed, Terminal
  <2> QED  BY <1>2, <2>2 DEF Advance, Lane
<1>3. CASE Taken(r, s) /\ r.status \in Crossed
  <2>1. Outcome(r) = "granted"
    BY <1>3, OutcomeCases
  <2>2. Outcome(s) \in {"granted", "unknown"}
    BY <1>3, OutcomeCases DEF Taken, Precommit, Crossed
  <2> QED  BY <1>3, <2>1, <2>2 DEF Advance, Lane
<1> QED  BY <1>1, <1>2, <1>3 DEF Taken

LEMMA UnresolvedImplements ==
  ASSUME IInv, UNCHANGED effects, NEW w \in Writes,
         row[w].status = "RECONCILE_REQUIRED", Put(w, Unresolved(row[w]))
  PROVE  Promise!Next \/ UNCHANGED Promise!vars
<1>1. row[w] \in Row /\ RowGood(row[w])
  BY RowsTyped DEF IInv, RowsGood
<1>2. Taken(row[w], Unresolved(row[w]))
  BY <1>1, UnresolvedFields DEF Taken, Crossed
<1> QED  BY <1>1, <1>2, TakenAdvances, PutImplements

(* A reservation keeps the outcome of what it leases, and the sweep that   *)
(* goes with it may give up the one write in the lane.                     *)
LEMMA ReserveImplements ==
  ASSUME IInv, OneLane, NEW d \in Devices, NEW w \in Writes, Reserve(d, w)
  PROVE  Promise!Next \/ UNCHANGED Promise!vars
<1> DEFINE r == Swept(row[w])
           t == IF r.status = "RECONCILE_REQUIRED" THEN r.status ELSE "CLAIMED"
           l == Lease(r, d, t)
           s == [l EXCEPT !.source = IF @ = None THEN d ELSE @]
<1>1. \A v \in Writes : /\ row[v] \in Row /\ RowGood(row[v])
                        /\ \/ Swept(row[v]) = row[v]
                           \/ Taken(row[v], Swept(row[v]))
  BY RowsTyped, SweptTaken DEF IInv, RowsGood
<1>2. \A v \in Writes : /\ Advance(v, row[v], Swept(row[v]))
                        /\ row[v].status \notin Lane =>
                             Outcome(Swept(row[v])) = Outcome(row[v])
  BY <1>1, TakenAdvances
<1>3. /\ row' = [v \in Writes |-> IF v = w THEN s ELSE Swept(row[v])]
      /\ Reservable(d, w, r) /\ UNCHANGED effects
  BY DEF Reserve
<1>4. r \in Row /\ (r = row[w] \/ Taken(row[w], r))
  BY <1>1 DEF Taken
<1> HIDE DEF r
<1>5. /\ t \in Statuses
      /\ t = IF r.status = "RECONCILE_REQUIRED" THEN r.status ELSE "CLAIMED"
  BY DEF Statuses, Lane, Precommit, Crossed
<1> HIDE DEF t
<1>6. l \in Row /\ l.status = t
  BY <1>4, <1>5, LeaseFields
<1> HIDE DEF l
<1>7. s.status = t
  BY <1>6 DEF Row
<1> HIDE DEF s
<1>8. Outcome(s) = Outcome(row[w])
  <2>1. CASE r.status = "RECONCILE_REQUIRED"
    <3>1. row[w].status \in Crossed
      BY <1>4, <2>1 DEF Taken, Precommit, Crossed
    <3>2. s.status \in Crossed
      BY <1>5, <1>7, <2>1 DEF Crossed
    <3> QED  BY <3>1, <3>2, OutcomeCases
  <2>2. CASE r.status # "RECONCILE_REQUIRED"
    <3>1. row[w].status \notin Crossed \cup Terminal
      BY <1>3, <1>4, <2>2
         DEF Reservable, Taken, Precommit, Crossed, Terminal
    <3>2. s.status \notin Crossed \cup Terminal
      BY <1>5, <1>7, <2>2 DEF Crossed, Terminal
    <3> QED  BY <3>1, <3>2, OutcomeCases
  <2> QED  BY <2>1, <2>2
<1>9. row'[w] = s /\ \A v \in Writes \ {w} : row'[v] = Swept(row[v])
  BY <1>3
<1>10. CASE \A v \in Writes \ {w} : row[v].status \notin Lane
  BY <1>2, <1>3, <1>8, <1>9, <1>10, SameImplements
<1>11. CASE \E v \in Writes \ {w} : row[v].status \in Lane
  <2>1. PICK u \in Writes \ {w} : row[u].status \in Lane
    BY <1>11
  <2>2. \A v \in Writes \ {u} : Outcome(row'[v]) = Outcome(row[v])
    BY <1>2, <1>8, <1>9, <2>1 DEF OneLane
  <2>3. Advance(u, row[u], row'[u])
    BY <1>2, <1>9, <2>1
  <2> QED  BY <1>3, <2>1, <2>2, <2>3, AdvanceImplements
<1> QED  BY <1>10, <1>11

LEMMA FailImplements ==
  ASSUME IInv, NEW d \in Devices, NEW w \in Writes, Fail(d, w)
  PROVE  Promise!Next \/ UNCHANGED Promise!vars
<1> DEFINE r == row[w]
<1>1. r \in Row /\ RowGood(r) /\ r.status \in Lane /\ UNCHANGED effects
  BY RowsTyped DEF IInv, RowsGood, Fail
<1>2. Outcome(r) = IF r.status \in Precommit THEN "open" ELSE "granted"
  BY <1>1, OutcomeCases DEF Lane, Precommit, Crossed, Terminal
<1>3. CASE Once(w) /\ Reached(r)
  <2> DEFINE l == Lease(r, d, "RECONCILE_REQUIRED")
             s == [l EXCEPT !.started = Started(r)]
  <2>1. Put(w, s)
    BY <1>3 DEF Fail
  <2> HIDE DEF r
  <2>2. l \in Row /\ l.status = "RECONCILE_REQUIRED"
    BY <1>1, LeaseFields DEF Statuses, Lane, Crossed
  <2> HIDE DEF l
  <2>3. s.status = "RECONCILE_REQUIRED"
    BY <2>2 DEF Row
  <2> HIDE DEF s
  <2>4. Outcome(s) = "granted"
    BY <2>3, OutcomeCases DEF Crossed
  <2>5. Advance(w, r, s)
    BY <1>2, <2>4 DEF Advance
  <2> QED  BY <1>1, <2>1, <2>5, PutImplements DEF r
<1>4. CASE ~(Once(w) /\ Reached(r))
  <2>1. PICK st \in {"RETRY_SCHEDULED", "FAILED"} :
          Put(w, [Freed(r, st) EXCEPT !.commit = Never])
    BY <1>4 DEF Fail
  <2> DEFINE f == Freed(r, st)
             s == [f EXCEPT !.commit = Never]
  <2> HIDE DEF r
  <2>2. st \in Statuses
    BY <2>1 DEF Statuses, Terminal
  <2>3. f \in Row /\ f.status = st /\ f.unresolved = r.unresolved
    BY <1>1, <2>2, FreedFields
  <2> HIDE DEF f
  <2>4. s.status = st /\ s.unresolved = r.unresolved
    BY <2>3 DEF Row
  <2> HIDE DEF s
  <2>5. ~r.unresolved
    BY <1>1 DEF RowGood, Lane, Precommit, Crossed
  <2>6. Outcome(s) \in {"open", "denied"}
    BY <2>1, <2>4, <2>5, OutcomeCases DEF Crossed, Terminal
  <2>7. Once(w) => Outcome(r) = "open"
    BY <1>1, <1>2, <1>4 DEF Reached, RowGood, Undecided, Lane, Crossed
  <2>8. Once(w) => Advance(w, r, s)
    BY <2>6, <2>7 DEF Advance
  <2> QED  BY <1>1, <2>1, <2>8, PutImplements DEF r, f, s
<1> QED  BY <1>3, <1>4

(* The other steps that change one row.                                    *)
LEMMA RowImplements ==
  ASSUME IInv, NEW w \in Writes,
         \/ \E d \in Devices : ReserveIntent(d, w) \/ Start(d, w)
         \/ Acknowledge(w) \/ Abandon(w) \/ SnapshotEmpty(w)
  PROVE  Promise!Next \/ UNCHANGED Promise!vars
<1> DEFINE r == row[w]
           f == Freed(r, "CANCELED")
<1>1. r \in Row /\ RowGood(r) /\ UNCHANGED effects
  BY RowsTyped DEF IInv, RowsGood, ReserveIntent, Start, Acknowledge, Abandon,
                   SnapshotEmpty
<1>2. f \in Row /\ f.status = "CANCELED"
  BY <1>1, FreedFields DEF Statuses, Terminal
<1>3. PICK s : /\ Put(w, s)
               /\ \/ s.status = r.status /\ s.unresolved = r.unresolved
                  \/ /\ r.status \notin Crossed \cup Terminal
                     /\ s.status \in {"QUEUED", "RUNNING", "CANCELED"}
  <2>1. CASE \E d \in Devices : ReserveIntent(d, w)
    <3>1. PICK d \in Devices : ReserveIntent(d, w)
      BY <2>1
    <3>2. [r EXCEPT !.status = "QUEUED", !.source = d].status = "QUEUED"
      BY <1>1 DEF Row
    <3> QED  BY <3>1, <3>2 DEF ReserveIntent, Crossed, Terminal
  <2>2. CASE \E d \in Devices : Start(d, w)
    <3>1. [r EXCEPT !.status = "RUNNING"].status = "RUNNING"
      BY <1>1 DEF Row
    <3> QED  BY <2>2, <3>1 DEF Start, Crossed, Terminal
  <2>3. CASE Acknowledge(w)
    <3>1. /\ [r EXCEPT !.acked = TRUE].status = r.status
          /\ [r EXCEPT !.acked = TRUE].unresolved = r.unresolved
      BY <1>1 DEF Row
    <3> QED  BY <2>3, <3>1 DEF Acknowledge
  <2>4. CASE Abandon(w)
    <3>1. [f EXCEPT !.acked = TRUE].status = "CANCELED"
      <4> HIDE DEF f
      <4> QED  BY <1>2 DEF Row
    <3> QED  BY <2>4, <3>1 DEF Abandon
  <2>5. CASE SnapshotEmpty(w)
    <3>1. /\ [r EXCEPT !.settled = TRUE].status = r.status
          /\ [r EXCEPT !.settled = TRUE].unresolved = r.unresolved
      BY <1>1 DEF Row
    <3> QED  BY <2>5, <3>1 DEF SnapshotEmpty
  <2> QED  BY <2>1, <2>2, <2>3, <2>4, <2>5
<1> HIDE DEF r
<1>4. CASE s.status = r.status /\ s.unresolved = r.unresolved
  <2>1. Outcome(s) = Outcome(r)
    BY <1>4 DEF Outcome
  <2> QED  BY <1>1, <1>3, <2>1, PutImplements DEF r, Advance
<1>5. CASE /\ r.status \notin Crossed \cup Terminal
           /\ s.status \in {"QUEUED", "RUNNING", "CANCELED"}
  <2>1. Outcome(r) = "open" /\ Outcome(s) \in {"open", "denied"}
    BY <1>5, OutcomeCases DEF Crossed, Terminal
  <2> QED  BY <1>1, <1>3, <2>1, PutImplements DEF r, Advance
<1> QED  BY <1>3, <1>4, <1>5

LEMMA PrepareImplements ==
  ASSUME IInv, NEW d \in Devices, NEW w \in Writes, NEW told \in BOOLEAN,
         Prepare(d, w, told)
  PROVE  Promise!Next \/ UNCHANGED Promise!vars
<1> DEFINE r == row[w]
           s == [r EXCEPT !.status = "COMMITTING", !.commit = Window]
<1>1. UNCHANGED effects
  BY DEF Prepare
<1>2. CASE UNCHANGED row
  BY <1>1, <1>2, SameImplements
<1>3. CASE r.status = "RUNNING" /\ Put(w, s)
  <2>1. s.status = "COMMITTING"
    BY RowsTyped DEF IInv, Row
  <2> HIDE DEF r, s
  <2>2. Outcome(r) = "open" /\ Outcome(s) = "granted"
    BY <1>3, <2>1, OutcomeCases DEF Crossed, Terminal
  <2> QED  BY <1>1, <1>3, <2>2, PutImplements DEF Advance, r
<1> QED  BY <1>2, <1>3 DEF Prepare

(* The provider carries out what was granted, once.                        *)
LEMMA ApplyImplements ==
  ASSUME IInv, NEW w \in Writes, Apply(w)
  PROVE  Promise!Next \/ UNCHANGED Promise!vars
<1>1. UNCHANGED row /\ OnceWrites' = OnceWrites /\ OnceWrites \subseteq Writes
  BY DEF Apply, OnceWrites, Once, Cancel
<1>2. [v \in OnceWrites |-> Recorded(v)]' = [v \in OnceWrites |-> Recorded(v)]
  BY <1>1 DEF Recorded
<1>3. effects \in [Writes -> Nat] /\ wire \in [Writes -> Nat] /\ wire[w] > 0
  BY WriteAssumption DEF IInv, TypeOK, Apply
<1>4. CASE ~Once(w)
  <2>1. \A v \in OnceWrites : effects'[v] = effects[v]
    BY <1>1, <1>3, <1>4 DEF Apply, OnceWrites
  <2> QED  BY <1>1, <1>2, <2>1 DEF Promise!vars
<1>5. CASE Once(w)
  <2>1. effects[w] = 0 /\ Undecided(row[w])
    BY <1>3, <1>5 DEF IInv, SentOnce, Proven, Unsent, Decided
  <2>2. Recorded(w) \in {"granted", "unknown"}
    BY <2>1, OutcomeRecorded, OutcomeCases DEF IInv, RowsGood, RowGood, Undecided
  <2>3. effects' = [effects EXCEPT ![w] = 1]
    BY <1>3, <1>5, <2>1 DEF Apply, Once
  <2>4. w \in OnceWrites
    BY <1>5 DEF OnceWrites
  <2>5. [v \in OnceWrites |-> effects[v]]' =
          [[v \in OnceWrites |-> effects[v]] EXCEPT ![w] = 1]
    BY <1>1, <1>3, <2>3, <2>4
  <2>6. Promise!Happen(w)
    BY <1>2, <2>1, <2>2, <2>4, <2>5 DEF Promise!Happen
  <2> QED  BY <2>4, <2>6 DEF Promise!Next
<1> QED  BY <1>4, <1>5

LEMMA StepImplements ==
  IInv /\ OneLane /\ [Next]_vars => [Promise!Next]_(Promise!vars)
<1> SUFFICES ASSUME IInv, OneLane, [Next]_vars
             PROVE  Promise!Next \/ UNCHANGED Promise!vars
  OBVIOUS
<1>1. CASE UNCHANGED <<row, effects>>
  BY <1>1, SameImplements
<1>2. ASSUME NEW d \in Devices, NEW w \in Writes, OfDevice(d, w)
      PROVE  Promise!Next \/ UNCHANGED Promise!vars
  <2>1. CASE Complete(d, w) \/ SettleByToken(d, w) \/ Match(d, w)
    <3>1. Put(w, Completed(row[w])) /\ UNCHANGED effects /\ effects[w] > 0
      BY <2>1 DEF Complete, SettleByToken, Match, IInv, Proven
    <3>2. Undecided(row[w])
      BY <2>1 DEF Complete, SettleByToken, Settleable, Match, Reconciling,
                  Undecided, Crossed
    <3> QED  BY <3>1, <3>2, SuccessImplements
  <2>2. CASE WaitForReadback(d, w) \/ CloseUnresolved(d, w)
    <3>1. row[w].status = "RECONCILE_REQUIRED" /\ UNCHANGED effects
      BY <2>2 DEF WaitForReadback, CloseUnresolved, Reconciling
    <3>2. CASE Put(w, Unresolved(row[w]))
      BY <3>1, <3>2, UnresolvedImplements
    <3>3. CASE Put(w, [row[w] EXCEPT !.lease = LeaseLen])
      <4> DEFINE s == [row[w] EXCEPT !.lease = LeaseLen]
      <4>1. s.status = "RECONCILE_REQUIRED"
        BY <3>1, RowsTyped DEF IInv, Row
      <4> HIDE DEF s
      <4>2. Advance(w, row[w], s)
        BY <3>1, <4>1, OutcomeCases DEF Crossed, Advance
      <4> QED  BY <3>1, <3>3, <4>2, PutImplements DEF s
    <3> QED  BY <2>2, <3>2, <3>3 DEF WaitForReadback, CloseUnresolved
  <2>3. CASE Post(d, w) \/ Respond(d, w)
    BY <1>1, <2>3 DEF Post, Respond
  <2> QED  BY <1>2, <2>1, <2>2, <2>3, RowImplements, ReserveImplements,
              PrepareImplements, FailImplements DEF OfDevice
<1>3. ASSUME NEW w \in Writes, OfWrite(w)
      PROVE  Promise!Next \/ UNCHANGED Promise!vars
  <2>1. CASE Sweep(w)
    <3>1. row[w] \in Row /\ RowGood(row[w]) /\ UNCHANGED effects
      BY <2>1, RowsTyped DEF IInv, RowsGood, Sweep
    <3>2. PICK s \in {FirstScan(row[w]), SecondScan(row[w])} : Put(w, s)
      BY <2>1 DEF Sweep
    <3>3. s = row[w] \/ Taken(row[w], s)
      BY <3>1, <3>2, FirstTaken, SecondTaken
    <3>4. Advance(w, row[w], s)
      BY <3>1, <3>3, TakenAdvances
    <3> QED  BY <3>1, <3>2, <3>4, PutImplements
  <2>2. CASE ResolveMatched(w) \/ SnapshotProves(w)
    <3>1. Put(w, Completed(row[w])) /\ UNCHANGED effects /\ effects[w] > 0
      BY <2>2 DEF ResolveMatched, SnapshotProves
    <3>2. Once(w) => Undecided(row[w])
      BY <2>2 DEF ResolveMatched, SnapshotProves, Undecided, Once
    <3> QED  BY <3>1, <3>2, SuccessImplements
  <2>3. CASE Lost(w)
    BY <1>1, <2>3 DEF Lost
  <2>4. CASE QueueEnds(w)
    <3>1. \A v \in OnceWrites : v \in Writes /\ v # w
      BY <2>4 DEF QueueEnds, OnceWrites, Once
    <3>2. \A v \in OnceWrites : effects'[v] = effects[v]
      BY <2>4, <3>1 DEF QueueEnds, IInv, TypeOK
    <3>3. UNCHANGED row /\ OnceWrites' = OnceWrites
      BY <2>4 DEF QueueEnds, OnceWrites, Once, Cancel
    <3> QED  BY <3>2, <3>3 DEF Promise!vars, Recorded
  <2> QED  BY <1>3, <2>1, <2>2, <2>3, <2>4, RowImplements, ApplyImplements
           DEF OfWrite
<1>4. CASE Tick
  <2>1. ASSUME NEW v \in Writes PROVE Outcome(row'[v]) = Outcome(row[v])
    <3>1. row'[v].status = row[v].status /\ row'[v].unresolved = row[v].unresolved
      BY <1>4, RowsTyped DEF Tick, IInv, Row
    <3> QED  BY <3>1 DEF Outcome
  <2> QED  BY <1>4, <2>1, SameImplements DEF Tick
<1>5. CASE \E d \in Devices : Forget(d)
  BY <1>1, <1>5 DEF Forget
<1> QED  BY <1>1, <1>2, <1>3, <1>4, <1>5 DEF Next, vars

(* Every behaviour of the authority is one that ExternalWrite allows.      *)
THEOREM KeepsPromise == Spec => Promised
<1>1. Init => Promise!Init
  BY DEF Init, NoRow, Promise!Init, Recorded, OnceWrites, Crossed
<1>2. IInv /\ OneLane /\ [Next]_vars => [Promise!Next]_(Promise!vars)
  BY StepImplements
<1> QED  BY <1>1, <1>2, Inductive, LaneExclusive, PTL
         DEF Spec, Promised, Promise!Spec
=============================================================================
