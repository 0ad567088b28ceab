--------------------------- MODULE FanFactsProofs ---------------------------
(***************************************************************************)
(* Proofs about FanFacts.  One inductive invariant in layers: Ledger       *)
(* (types, and the count of attempts), Coverage (what a job has passed was *)
(* observed since it was created) and Sequence (reads, tokens and facts in *)
(* order).  Each step of the program is first reduced to what it does to   *)
(* the fields an invariant compares, and the invariant follows from that.  *)
(***************************************************************************)
EXTENDS FanFacts, TLAPS

-----------------------------------------------------------------------------
(* Types.  A job in work has an attempt left, and a device that reads has  *)
(* a fan to read.                                                          *)
GoodJob == {r \in JobRow : r.status = "CLAIMED" => r.attempts < MaxAttempts}

GoodHand == {h \in HandRow : h.lease # 0 => h.cursor < Pages}

Rows ==
  /\ job \in [Jobs -> GoodJob]
  /\ hand \in [Devices -> GoodHand]
  /\ created \in [Jobs -> Nat] /\ truth \in Nat /\ clock \in Nat
  /\ fact \in [Fans -> [at : Nat, saw : Nat]]
  /\ read \in ReadRow /\ reads \in Nat
  /\ tokens \subseteq TokenRow

(* Every step of a job's row leads to such a row.                          *)
LEMMA NewType == \A r \in GoodJob : New(r) \in GoodJob
BY DEF GoodJob, JobRow, New

LEMMA ClaimedType ==
  \A r \in GoodJob, d \in Devices : Claimable(r) => Claimed(r, d) \in GoodJob
<1> SUFFICES ASSUME NEW r \in GoodJob, NEW d \in Devices, Claimable(r)
             PROVE  Claimed(r, d) \in GoodJob
  OBVIOUS
<1>1. r.rev + 1 \in Nat
  BY DEF GoodJob, JobRow
<1> QED  BY <1>1 DEF Claimable, Claimed, GoodJob, JobRow

LEMMA AttemptedType ==
  \A r \in GoodJob, q \in BOOLEAN : r.status = "CLAIMED" => Attempted(r, q) \in GoodJob
<1> SUFFICES ASSUME NEW r \in GoodJob, NEW q \in BOOLEAN, r.status = "CLAIMED"
             PROVE  Attempted(r, q) \in GoodJob
  OBVIOUS
<1>1. r.attempts + 1 \in 0..MaxAttempts
  BY LeaseAssumption DEF GoodJob, JobRow
<1> QED  BY <1>1 DEF Attempted, Vacated, GoodJob, JobRow

LEMMA GivenBackType ==
  \A r \in GoodJob : r.released < MaxReleases => GivenBack(r) \in GoodJob
<1> SUFFICES ASSUME NEW r \in GoodJob, r.released < MaxReleases
             PROVE  GivenBack(r) \in GoodJob
  OBVIOUS
<1>1. r.released + 1 \in 0..MaxReleases
  BY LeaseAssumption DEF GoodJob, JobRow
<1> QED  BY <1>1 DEF GivenBack, Vacated, GoodJob, JobRow

LEMMA LapsedType == \A r \in GoodJob : [r EXCEPT !.live = FALSE] \in GoodJob
BY DEF GoodJob, JobRow

LEMMA MovedType ==
  \A r \in GoodJob, c \in 0..Pages : [r EXCEPT !.cursor = c] \in GoodJob
BY DEF GoodJob, JobRow

LEMMA DoneType ==
  \A r \in GoodJob : [Vacated(r, "DONE") EXCEPT !.rev = @ + 1] \in GoodJob
<1> SUFFICES ASSUME NEW r \in GoodJob
             PROVE  [Vacated(r, "DONE") EXCEPT !.rev = @ + 1] \in GoodJob
  OBVIOUS
<1>1. r.rev + 1 \in Nat
  BY DEF GoodJob, JobRow
<1> QED  BY <1>1 DEF Vacated, GoodJob, JobRow

(* What a device remembers.                                                *)
LEMMA NoHandType == NoHand \in GoodHand
BY LeaseAssumption DEF NoHand, GoodHand, HandRow

LEMMA AnewType ==
  \A h \in GoodHand : Anew(h) \in GoodHand /\ Anew(h).cursor = h.cursor
BY DEF Anew, GoodHand, HandRow

LEMMA HeldType ==
  \A j \in Jobs, n \in Nat, c \in 0..Pages :
    [NoHand EXCEPT !.job = j, !.rev = n, !.cursor = c] \in GoodHand
BY LeaseAssumption DEF NoHand, GoodHand, HandRow

LEMMA ReaderType ==
  \A h \in GoodHand, n \in Nat : h.cursor < Pages => [h EXCEPT !.lease = n] \in GoodHand
BY DEF GoodHand, HandRow

LEMMA SeenType ==
  \A h \in GoodHand, n \in Nat :
    /\ [h EXCEPT !.saw = n] \in GoodHand
    /\ [h EXCEPT !.lease = 0, !.at = n] \in GoodHand
BY DEF GoodHand, HandRow

LEMMA PlacedType ==
  \A h \in GoodHand, c \in 0..Pages : [Anew(h) EXCEPT !.cursor = c] \in GoodHand
BY DEF Anew, GoodHand, HandRow

(* Two rows that are changed.                                              *)
LEMMA Puts ==
  ASSUME Rows, NEW j \in Jobs, NEW r \in GoodJob, Put(j, r)
  PROVE  job' \in [Jobs -> GoodJob]
BY DEF Rows, Put

LEMMA Hands ==
  ASSUME Rows, NEW d \in Devices, NEW h \in GoodHand, Hears(d, h) \/ Knows(d, h)
  PROVE  hand' \in [Devices -> GoodHand]
BY DEF Rows, Hears, Knows

LEMMA RowsInit == Init => Rows
<1> SUFFICES ASSUME Init PROVE Rows
  OBVIOUS
<1>1. NoJob \in GoodJob
  BY LeaseAssumption DEF NoJob, GoodJob, JobRow
<1>2. ASSUME NEW j \in Jobs PROVE Begun(Spent[j]) \in GoodJob
  <2>1. /\ Spent[j] \in 0..MaxAttempts /\ Spent[j] \in Nat
        /\ 0 \in 0..Pages /\ 0 \in 0..MaxReleases
    BY LeaseAssumption, FactAssumption
  <2> QED  BY <2>1 DEF Begun, NoJob, GoodJob, JobRow
<1>3. NoHand \in GoodHand
  BY LeaseAssumption DEF NoHand, GoodHand, HandRow
<1> QED  BY <1>1, <1>2, <1>3 DEF Init, Rows, ReadRow, NoRead

LEMMA RowsStep ==
  ASSUME Rows, [Next]_vars
  PROVE  Rows'
<1>0. CASE UNCHANGED vars
  BY <1>0 DEF vars, Rows
<1>1. ASSUME NEW j \in Jobs, Schedule(j) PROVE Rows'
  <2>1. New(job[j]) \in GoodJob
    BY <1>1, NewType DEF Rows, Schedule
  <2>2. job' \in [Jobs -> GoodJob]
    BY <1>1, <2>1, Puts DEF Schedule
  <2> QED  BY <1>1, <2>2 DEF Rows, Schedule, observed
<1>2. ASSUME NEW j \in Jobs, Lapse(j) PROVE Rows'
  <2>1. [job[j] EXCEPT !.live = FALSE] \in GoodJob
    BY <1>2, LapsedType DEF Rows, Lapse
  <2>2. job' \in [Jobs -> GoodJob]
    BY <1>2, <2>1, Puts DEF Lapse
  <2> QED  BY <1>2, <2>2 DEF Rows, Lapse, observed
<1>3. ASSUME NEW j \in Jobs, Sweep(j) PROVE Rows'
  <2>1. Attempted(job[j], TRUE) \in GoodJob
    BY <1>3, AttemptedType DEF Rows, Sweep, Sweepable
  <2>2. job' \in [Jobs -> GoodJob]
    BY <1>3, <2>1, Puts DEF Sweep
  <2> QED  BY <1>3, <2>2 DEF Rows, Sweep, Dropped, NoRead, ReadRow
<1>4. ASSUME NEW d \in Devices, Observe(d) PROVE Rows'
  <2>3. [hand[d] EXCEPT !.saw = truth] \in GoodHand
    BY <1>4, SeenType DEF Rows, Observe
  <2>4. hand' \in [Devices -> GoodHand]
    BY <1>4, <2>3, Hands DEF Observe
  <2> QED  BY <1>4, <2>4 DEF Rows, Observe, observed
<1>5. ASSUME NEW d \in Devices, Forget(d) PROVE Rows'
  <2>3. Anew(hand[d]) \in GoodHand
    BY <1>5, AnewType DEF Rows, Forget
  <2>4. hand' \in [Devices -> GoodHand]
    BY <1>5, <2>3, Hands DEF Forget
  <2> QED  BY <1>5, <2>4 DEF Rows, Forget, observed
<1>6. ASSUME NEW d \in Devices, Crash(d) PROVE Rows'
  <2>3. NoHand \in GoodHand
    BY <1>6, NoHandType DEF Rows, Crash
  <2>4. hand' \in [Devices -> GoodHand]
    BY <1>6, <2>3, Hands DEF Crash
  <2> QED  BY <1>6, <2>4 DEF Rows, Crash, Remembered
<1>7. ASSUME NEW d \in Devices, NEW j \in Jobs, Claim(d, j) PROVE Rows'
  <2>1. Claimed(job[j], d) \in GoodJob
    BY <1>7, ClaimedType DEF Rows, Claim
  <2>2. job' \in [Jobs -> GoodJob]
    BY <1>7, <2>1, Puts DEF Claim
  <2>a. job[j].rev + 1 \in Nat /\ job[j].cursor \in 0..Pages
    BY DEF Rows, GoodJob, JobRow
  <2>3. [NoHand EXCEPT !.job = j, !.rev = job[j].rev + 1, !.cursor = job[j].cursor] \in GoodHand
    BY <2>a, HeldType
  <2>4. hand' \in [Devices -> GoodHand]
    BY <1>7, <2>3, Hands DEF Claim
  <2> QED  BY <1>7, <2>2, <2>4 DEF Rows, Claim, observed
<1>8. ASSUME NEW d \in Devices, NEW j \in Jobs, ReleaseJob(d, j) PROVE Rows'
  <2>1. GivenBack(job[j]) \in GoodJob
    BY <1>8, GivenBackType DEF Rows, ReleaseJob
  <2>2. job' \in [Jobs -> GoodJob]
    BY <1>8, <2>1, Puts DEF ReleaseJob
  <2>3. NoHand \in GoodHand
    BY <1>8, NoHandType DEF Rows, ReleaseJob
  <2>4. hand' \in [Devices -> GoodHand]
    BY <1>8, <2>3, Hands DEF ReleaseJob
  <2> QED  BY <1>8, <2>2, <2>4 DEF Rows, ReleaseJob, Dropped, NoRead, ReadRow
<1>9. ASSUME NEW d \in Devices, NEW j \in Jobs, NEW q \in BOOLEAN, FailJob(d, j, q) PROVE Rows'
  <2>1. Attempted(job[j], q) \in GoodJob
    BY <1>9, AttemptedType DEF Rows, FailJob, Has, Leased
  <2>2. job' \in [Jobs -> GoodJob]
    BY <1>9, <2>1, Puts DEF FailJob
  <2>3. NoHand \in GoodHand
    BY <1>9, NoHandType DEF Rows, FailJob
  <2>4. hand' \in [Devices -> GoodHand]
    BY <1>9, <2>3, Hands DEF FailJob
  <2> QED  BY <1>9, <2>2, <2>4 DEF Rows, FailJob, Dropped, NoRead, ReadRow
<1>10. ASSUME NEW d \in Devices, NEW j \in Jobs, Acquire(d, j) PROVE Rows'
  <2>a. reads + 1 \in Nat
    BY DEF Rows
  <2>3. [hand[d] EXCEPT !.lease = reads + 1] \in GoodHand
    BY <1>10, <2>a, ReaderType DEF Rows, Acquire, More
  <2>4. hand' \in [Devices -> GoodHand]
    BY <1>10, <2>3, Hands DEF Acquire
  <2> QED  BY <1>10, <2>4 DEF Rows, Acquire, ReadRow, GoodHand, HandRow
<1>11. ASSUME NEW d \in Devices, NEW j \in Jobs, AcquireAgain(d, j) PROVE Rows'
  <2>3. [hand[d] EXCEPT !.lease = read.id] \in GoodHand
    BY <1>11, ReaderType DEF Rows, AcquireAgain, More, ReadRow
  <2>4. hand' \in [Devices -> GoodHand]
    BY <1>11, <2>3, Hands DEF AcquireAgain
  <2> QED  BY <1>11, <2>4 DEF Rows, AcquireAgain, observed
<1>12. ASSUME NEW d \in Devices, NEW j \in Jobs, RenewLease(d, j) PROVE Rows'
  <2> QED  BY <1>12 DEF Rows, RenewLease, ReadRow
<1>13. ASSUME NEW d \in Devices, NEW j \in Jobs, Issue(d, j) PROVE Rows'
  <2>a. clock + 1 \in Nat
    BY DEF Rows
  <2>1. [hand[d] EXCEPT !.lease = 0, !.at = clock + 1] \in GoodHand
    BY <2>a, SeenType DEF Rows
  <2>2. hand' \in [Devices -> GoodHand]
    BY <1>13, <2>1, Hands DEF Issue, Rows
  <2>3. Target(d) \in Fans
    BY <1>13, LeaseAssumption DEF Issue, Rows, GoodHand, HandRow, Target, Fans
  <2>4. [job |-> j, device |-> d, rev |-> hand[d].rev, fan |-> Target(d), at |-> clock + 1]
          \in TokenRow
    BY <2>3 DEF Rows, GoodHand, HandRow, TokenRow
  <2>5. tokens' \subseteq TokenRow
    BY <1>13, <2>4 DEF Issue, Rows
  <2> QED  BY <1>13, <2>2, <2>5 DEF Issue, Rows, NoRead, ReadRow
<1>14. ASSUME NEW d \in Devices, NEW j \in Jobs, ReturnRead(d, j) PROVE Rows'
  <2>3. Anew(hand[d]) \in GoodHand
    BY <1>14, AnewType DEF Rows, ReturnRead
  <2>4. hand' \in [Devices -> GoodHand]
    BY <1>14, <2>3, Hands DEF ReturnRead
  <2> QED  BY <1>14, <2>4 DEF Rows, ReturnRead, NoRead, ReadRow
<1>15. ASSUME NEW d \in Devices, NEW j \in Jobs, Store(d, j) PROVE Rows'
  <2>c. hand[d].cursor + 1 \in 0..Pages
    BY <1>15, LeaseAssumption DEF Store, More, Rows, GoodHand, HandRow
  <2>1. Advanced(d, j) \in GoodJob
    BY <2>c, MovedType DEF Rows, Advanced
  <2>2. job' \in [Jobs -> GoodJob]
    BY <1>15, <2>1, Puts DEF Store
  <2>4. [Anew(hand[d]) EXCEPT !.cursor = @ + 1] \in GoodHand
    BY <2>c, AnewType, PlacedType DEF Rows
  <2>5. hand' \in [Devices -> GoodHand]
    BY <1>15, <2>4, Hands DEF Store
  <2>6. fact' \in [Fans -> [at : Nat, saw : Nat]] /\ tokens' \subseteq TokenRow
    BY <1>15 DEF Store, Rows, TokenRow, GoodHand, HandRow
  <2> QED  BY <1>15, <2>2, <2>5, <2>6 DEF Store, Rows
<1>16. ASSUME NEW d \in Devices, NEW j \in Jobs, Reuse(d, j) PROVE Rows'
  <2>c. hand[d].cursor + 1 \in 0..Pages
    BY <1>16, LeaseAssumption DEF Reuse, More, Rows, GoodHand, HandRow
  <2>1. Advanced(d, j) \in GoodJob
    BY <2>c, MovedType DEF Rows, Advanced
  <2>2. job' \in [Jobs -> GoodJob]
    BY <1>16, <2>1, Puts DEF Reuse
  <2>4. [Anew(hand[d]) EXCEPT !.cursor = @ + 1] \in GoodHand
    BY <2>c, AnewType, PlacedType DEF Rows
  <2>5. hand' \in [Devices -> GoodHand]
    BY <1>16, <2>4, Hands DEF Reuse
  <2> QED  BY <1>16, <2>2, <2>5 DEF Reuse, Rows, observed
<1>17. ASSUME NEW d \in Devices, NEW j \in Jobs, Learn(d, j) PROVE Rows'
  <2>3. [Anew(hand[d]) EXCEPT !.cursor = job[j].cursor] \in GoodHand
    BY <1>17, PlacedType DEF Rows, Learn, GoodJob, JobRow
  <2>4. hand' \in [Devices -> GoodHand]
    BY <1>17, <2>3, Hands DEF Learn
  <2> QED  BY <1>17, <2>4 DEF Rows, Learn, observed
<1>18. ASSUME NEW d \in Devices, NEW j \in Jobs, CompleteJob(d, j) PROVE Rows'
  <2>1. [Vacated(job[j], "DONE") EXCEPT !.rev = @ + 1] \in GoodJob
    BY <1>18, DoneType DEF Rows, CompleteJob
  <2>2. job' \in [Jobs -> GoodJob]
    BY <1>18, <2>1, Puts DEF CompleteJob
  <2>3. NoHand \in GoodHand
    BY <1>18, NoHandType DEF Rows, CompleteJob
  <2>4. hand' \in [Devices -> GoodHand]
    BY <1>18, <2>3, Hands DEF CompleteJob
  <2> QED  BY <1>18, <2>2, <2>4 DEF Rows, CompleteJob, observed
<1>19. ASSUME LapseRead PROVE Rows'
  BY <1>19 DEF LapseRead, Rows, ReadRow
<1>20. ASSUME TruthMoves PROVE Rows'
  BY <1>20 DEF TruthMoves, Rows
<1> QED  BY <1>0, <1>1, <1>2, <1>3, <1>4, <1>5, <1>6, <1>7, <1>8, <1>9, <1>10, <1>11, <1>12, <1>13, <1>14, <1>15, <1>16, <1>17, <1>18, <1>19, <1>20 DEF Next, DeviceStep

-----------------------------------------------------------------------------
(* Attempts.  The lease in hand is the one that is not yet counted.        *)
InHand(r) == IF r.status = "CLAIMED" THEN 1 ELSE 0

Counted(r) == r.attempts + r.released + InHand(r) <= r.rev

LEMMA CountedClaimed ==
  \A r \in GoodJob, d \in Devices :
    Claimable(r) /\ Counted(r) => Counted(Claimed(r, d))
<1> SUFFICES ASSUME NEW r \in GoodJob, NEW d \in Devices, Claimable(r), Counted(r)
             PROVE  Counted(Claimed(r, d))
  OBVIOUS
<1>1. /\ Claimed(r, d).attempts = r.attempts /\ Claimed(r, d).released = r.released
      /\ Claimed(r, d).status = "CLAIMED" /\ Claimed(r, d).rev = r.rev + 1
  BY DEF Claimed, GoodJob, JobRow
<1>2. r.attempts \in Nat /\ r.released \in Nat /\ r.rev \in Nat
  BY LeaseAssumption DEF GoodJob, JobRow
<1> QED  BY <1>1, <1>2 DEF Counted, InHand, Claimable

LEMMA CountedAttempted ==
  \A r \in GoodJob, q \in BOOLEAN :
    r.status = "CLAIMED" /\ Counted(r) => Counted(Attempted(r, q))
<1> SUFFICES ASSUME NEW r \in GoodJob, NEW q \in BOOLEAN, r.status = "CLAIMED", Counted(r)
             PROVE  Counted(Attempted(r, q))
  OBVIOUS
<1>1. /\ Attempted(r, q).attempts = r.attempts + 1 /\ Attempted(r, q).released = r.released
      /\ Attempted(r, q).status # "CLAIMED" /\ Attempted(r, q).rev = r.rev
  BY DEF Attempted, Vacated, GoodJob, JobRow
<1>2. r.attempts \in Nat /\ r.released \in Nat /\ r.rev \in Nat
  BY LeaseAssumption DEF GoodJob, JobRow
<1> QED  BY <1>1, <1>2 DEF Counted, InHand

LEMMA CountedGivenBack ==
  \A r \in GoodJob : r.status = "CLAIMED" /\ Counted(r) => Counted(GivenBack(r))
<1> SUFFICES ASSUME NEW r \in GoodJob, r.status = "CLAIMED", Counted(r)
             PROVE  Counted(GivenBack(r))
  OBVIOUS
<1>1. /\ GivenBack(r).attempts = r.attempts /\ GivenBack(r).released = r.released + 1
      /\ GivenBack(r).status # "CLAIMED" /\ GivenBack(r).rev = r.rev
  BY DEF GivenBack, Vacated, GoodJob, JobRow
<1>2. r.attempts \in Nat /\ r.released \in Nat /\ r.rev \in Nat
  BY LeaseAssumption DEF GoodJob, JobRow
<1> QED  BY <1>1, <1>2 DEF Counted, InHand

LEMMA CountedDone ==
  \A r \in GoodJob : Counted(r) => Counted([Vacated(r, "DONE") EXCEPT !.rev = @ + 1])
<1> SUFFICES ASSUME NEW r \in GoodJob, Counted(r)
             PROVE  Counted([Vacated(r, "DONE") EXCEPT !.rev = @ + 1])
  OBVIOUS
<1> DEFINE s == [Vacated(r, "DONE") EXCEPT !.rev = @ + 1]
<1>1. /\ s.attempts = r.attempts /\ s.released = r.released
      /\ s.status = "DONE" /\ s.rev = r.rev + 1
  BY DEF Vacated, GoodJob, JobRow
<1>2. r.attempts \in Nat /\ r.released \in Nat /\ r.rev \in Nat
  BY LeaseAssumption DEF GoodJob, JobRow
<1> HIDE DEF s
<1>3. Counted(s)
  BY <1>1, <1>2 DEF Counted, InHand
<1> QED  BY <1>3 DEF s

LEMMA CountedLapsed == \A r \in GoodJob : Counted(r) => Counted([r EXCEPT !.live = FALSE])
BY DEF Counted, InHand, GoodJob, JobRow

LEMMA CountedMoved ==
  \A r \in GoodJob, c \in 0..Pages : Counted(r) => Counted([r EXCEPT !.cursor = c])
BY DEF Counted, InHand, GoodJob, JobRow

LEMMA CountedNew ==
  \A r \in GoodJob : r.status = "ABSENT" /\ Counted(r) => Counted(New(r))
BY DEF Counted, InHand, New, GoodJob, JobRow

AllCounted == \A j \in Jobs : Counted(job[j])

LEMMA PutCounted ==
  ASSUME Rows, AllCounted, NEW j \in Jobs, NEW r \in GoodJob, Put(j, r), Counted(r)
  PROVE  AllCounted'
BY DEF AllCounted, Put, Rows

LEMMA CountedInit == Init => AllCounted
<1> SUFFICES ASSUME Init, NEW j \in Jobs PROVE Counted(job[j])
  BY DEF AllCounted
<1>1. Spent[j] \in Nat
  BY FactAssumption, LeaseAssumption
<1>2. CASE Spent[j] = 0
  BY <1>2 DEF Init, NoJob, Counted, InHand
<1>3. CASE Spent[j] # 0
  <2>1. job[j] = Begun(Spent[j])
    BY <1>3 DEF Init
  <2>2. /\ Begun(Spent[j]).attempts = Spent[j] /\ Begun(Spent[j]).rev = Spent[j]
        /\ Begun(Spent[j]).released = 0 /\ Begun(Spent[j]).status = "SCHEDULED"
    BY DEF Begun, NoJob
  <2> QED  BY <1>1, <2>1, <2>2 DEF Counted, InHand
<1> QED  BY <1>2, <1>3

LEMMA CountedStep ==
  ASSUME Rows, AllCounted, [Next]_vars
  PROVE  AllCounted'
<1>0. CASE UNCHANGED vars
  BY <1>0 DEF vars, AllCounted
<1>1. ASSUME NEW j \in Jobs, Schedule(j) PROVE AllCounted'
  <2>2. New(job[j]) \in GoodJob /\ Counted(New(job[j]))
    BY <1>1, NewType, CountedNew DEF Rows, AllCounted, Schedule
  <2> QED  BY <1>1, <2>2, PutCounted DEF Schedule
<1>2. ASSUME NEW j \in Jobs, Lapse(j) PROVE AllCounted'
  <2>2. [job[j] EXCEPT !.live = FALSE] \in GoodJob /\ Counted([job[j] EXCEPT !.live = FALSE])
    BY <1>2, LapsedType, CountedLapsed DEF Rows, AllCounted, Lapse
  <2> QED  BY <1>2, <2>2, PutCounted DEF Lapse
<1>3. ASSUME NEW j \in Jobs, Sweep(j) PROVE AllCounted'
  <2>2. Attempted(job[j], TRUE) \in GoodJob /\ Counted(Attempted(job[j], TRUE))
    BY <1>3, AttemptedType, CountedAttempted DEF Rows, AllCounted, Sweep, Sweepable
  <2> QED  BY <1>3, <2>2, PutCounted DEF Sweep
<1>4. ASSUME NEW d \in Devices, Observe(d) PROVE AllCounted'
  BY <1>4 DEF Observe, AllCounted, observed
<1>5. ASSUME NEW d \in Devices, Forget(d) PROVE AllCounted'
  BY <1>5 DEF Forget, AllCounted, observed
<1>6. ASSUME NEW d \in Devices, Crash(d) PROVE AllCounted'
  BY <1>6 DEF Crash, AllCounted
<1>7. ASSUME NEW d \in Devices, NEW j \in Jobs, Claim(d, j) PROVE AllCounted'
  <2>2. Claimed(job[j], d) \in GoodJob /\ Counted(Claimed(job[j], d))
    BY <1>7, ClaimedType, CountedClaimed DEF Rows, AllCounted, Claim
  <2> QED  BY <1>7, <2>2, PutCounted DEF Claim
<1>8. ASSUME NEW d \in Devices, NEW j \in Jobs, ReleaseJob(d, j) PROVE AllCounted'
  <2>2. GivenBack(job[j]) \in GoodJob /\ Counted(GivenBack(job[j]))
    BY <1>8, GivenBackType, CountedGivenBack DEF Rows, AllCounted, ReleaseJob, Has, Leased
  <2> QED  BY <1>8, <2>2, PutCounted DEF ReleaseJob
<1>9. ASSUME NEW d \in Devices, NEW j \in Jobs, NEW q \in BOOLEAN, FailJob(d, j, q) PROVE AllCounted'
  <2>2. Attempted(job[j], q) \in GoodJob /\ Counted(Attempted(job[j], q))
    BY <1>9, AttemptedType, CountedAttempted DEF Rows, AllCounted, FailJob, Has, Leased
  <2> QED  BY <1>9, <2>2, PutCounted DEF FailJob
<1>10. ASSUME NEW d \in Devices, NEW j \in Jobs, Acquire(d, j) PROVE AllCounted'
  BY <1>10 DEF Acquire, AllCounted
<1>11. ASSUME NEW d \in Devices, NEW j \in Jobs, AcquireAgain(d, j) PROVE AllCounted'
  BY <1>11 DEF AcquireAgain, AllCounted, observed
<1>12. ASSUME NEW d \in Devices, NEW j \in Jobs, RenewLease(d, j) PROVE AllCounted'
  BY <1>12 DEF RenewLease, AllCounted
<1>13. ASSUME NEW d \in Devices, NEW j \in Jobs, Issue(d, j) PROVE AllCounted'
  BY <1>13 DEF Issue, AllCounted
<1>14. ASSUME NEW d \in Devices, NEW j \in Jobs, ReturnRead(d, j) PROVE AllCounted'
  BY <1>14 DEF ReturnRead, AllCounted
<1>15. ASSUME NEW d \in Devices, NEW j \in Jobs, Store(d, j) PROVE AllCounted'
  <2>1. hand[d].cursor + 1 \in 0..Pages
    BY <1>15, LeaseAssumption DEF Store, More, Rows, GoodHand, HandRow
  <2>2. Advanced(d, j) \in GoodJob /\ Counted(Advanced(d, j))
    BY <1>15, <2>1, MovedType, CountedMoved DEF Rows, AllCounted, Store, Advanced
  <2> QED  BY <1>15, <2>2, PutCounted DEF Store
<1>16. ASSUME NEW d \in Devices, NEW j \in Jobs, Reuse(d, j) PROVE AllCounted'
  <2>1. hand[d].cursor + 1 \in 0..Pages
    BY <1>16, LeaseAssumption DEF Reuse, More, Rows, GoodHand, HandRow
  <2>2. Advanced(d, j) \in GoodJob /\ Counted(Advanced(d, j))
    BY <1>16, <2>1, MovedType, CountedMoved DEF Rows, AllCounted, Reuse, Advanced
  <2> QED  BY <1>16, <2>2, PutCounted DEF Reuse
<1>17. ASSUME NEW d \in Devices, NEW j \in Jobs, Learn(d, j) PROVE AllCounted'
  BY <1>17 DEF Learn, AllCounted, observed
<1>18. ASSUME NEW d \in Devices, NEW j \in Jobs, CompleteJob(d, j) PROVE AllCounted'
  <2>2. [Vacated(job[j], "DONE") EXCEPT !.rev = @ + 1] \in GoodJob /\ Counted([Vacated(job[j], "DONE") EXCEPT !.rev = @ + 1])
    BY <1>18, DoneType, CountedDone DEF Rows, AllCounted, CompleteJob
  <2> QED  BY <1>18, <2>2, PutCounted DEF CompleteJob
<1>19. ASSUME LapseRead PROVE AllCounted'
  BY <1>19 DEF LapseRead, AllCounted
<1>20. ASSUME TruthMoves PROVE AllCounted'
  BY <1>20 DEF TruthMoves, AllCounted
<1> QED  BY <1>0, <1>1, <1>2, <1>3, <1>4, <1>5, <1>6, <1>7, <1>8, <1>9, <1>10, <1>11, <1>12, <1>13, <1>14, <1>15, <1>16, <1>17, <1>18, <1>19, <1>20 DEF Next, DeviceStep

(* The inductive invariant of the first two theorems. *)
Ledger == Rows /\ AllCounted

LEMMA LedgerStep == Ledger /\ [Next]_vars => Ledger'
BY RowsStep, CountedStep DEF Ledger

LEMMA LedgerHolds == Spec => []Ledger
<1>1. Init => Ledger
  BY RowsInit, CountedInit DEF Ledger
<1> QED  BY <1>1, LedgerStep, PTL DEF Spec

LEMMA RowsTyped == Rows => TypeOK
BY DEF Rows, TypeOK, GoodJob, GoodHand

(* The rows of jobs, leases, tokens and facts keep their types, and no job *)
(* is attempted more often than it may be.                                 *)
THEOREM TypeCorrect == Spec => []TypeOK
<1>1. Ledger => TypeOK
  BY RowsTyped DEF Ledger
<1> QED  BY <1>1, LedgerHolds, PTL

(* Every attempt and every return of a job has a lease of its own, however *)
(* reports are repeated and whatever the sweep does meanwhile.             *)
THEOREM LeasesAttempted == Spec => []AttemptsAreLeases
<1>1. Ledger => AttemptsAreLeases
  <2> SUFFICES ASSUME Ledger, NEW j \in Jobs
               PROVE  job[j].attempts + job[j].released <= job[j].rev
    BY DEF AttemptsAreLeases
  <2>1. job[j] \in GoodJob /\ Counted(job[j])
    BY DEF Ledger, Rows, AllCounted
  <2>2. job[j].attempts \in Nat /\ job[j].released \in Nat /\ job[j].rev \in Nat
    BY <2>1, LeaseAssumption DEF GoodJob, JobRow
  <2> QED  BY <2>1, <2>2 DEF Counted, InHand
<1> QED  BY <1>1, LedgerHolds, PTL

-----------------------------------------------------------------------------
(* What the steps do, field by field.                                      *)
LEMMA PutAt ==
  ASSUME Rows, NEW j \in Jobs, NEW r, Put(j, r)
  PROVE  job'[j] = r /\ \A i \in Jobs \ {j} : job'[i] = job[i]
BY DEF Rows, Put

LEMMA HeardAt ==
  ASSUME Rows, NEW d \in Devices, NEW h, Knows(d, h) \/ Hears(d, h)
  PROVE  /\ hand'[d] \in {h, hand[d]} /\ (Knows(d, h) => hand'[d] = h)
         /\ \A e \in Devices \ {d} : hand'[e] = hand[e]
BY DEF Rows, Knows, Hears

LEMMA NewFields ==
  \A r \in GoodJob : New(r).status = "SCHEDULED" /\ New(r).cursor = r.cursor
BY DEF GoodJob, JobRow, New

LEMMA ClaimedFields ==
  \A r \in GoodJob, d \in Devices :
    /\ Claimed(r, d).status = "CLAIMED" /\ Claimed(r, d).device = d
    /\ Claimed(r, d).rev = r.rev + 1 /\ Claimed(r, d).cursor = r.cursor
BY DEF GoodJob, JobRow, Claimed

LEMMA AttemptedFields ==
  \A r \in GoodJob, q \in BOOLEAN :
    /\ Attempted(r, q).status \in {"SCHEDULED", "FAILED"}
    /\ Attempted(r, q).cursor = r.cursor
BY DEF GoodJob, JobRow, Attempted, Vacated

LEMMA GivenBackFields ==
  \A r \in GoodJob :
    GivenBack(r).status = "SCHEDULED" /\ GivenBack(r).cursor = r.cursor
BY DEF GoodJob, JobRow, GivenBack, Vacated

LEMMA LapsedFields ==
  \A r \in GoodJob : LET s == [r EXCEPT !.live = FALSE]
    IN s.status = r.status /\ s.device = r.device /\ s.rev = r.rev /\ s.cursor = r.cursor
BY DEF GoodJob, JobRow

LEMMA MovedFields ==
  \A r \in GoodJob, c \in Nat : LET s == [r EXCEPT !.cursor = c]
    IN s.status = r.status /\ s.device = r.device /\ s.rev = r.rev /\ s.cursor = c
BY DEF GoodJob, JobRow

LEMMA DoneFields ==
  \A r \in GoodJob : LET s == [Vacated(r, "DONE") EXCEPT !.rev = @ + 1]
    IN s.status = "DONE" /\ s.cursor = r.cursor
BY DEF GoodJob, JobRow, Vacated

LEMMA NoHandFields == NoHand.job = None /\ NoHand.lease = 0 /\ NoHand.saw = 0 /\ NoHand.at = 0
BY DEF NoHand

LEMMA AnewFields ==
  \A h \in GoodHand : LET s == Anew(h)
    IN /\ s.job = h.job /\ s.rev = h.rev /\ s.cursor = h.cursor
       /\ s.lease = 0 /\ s.saw = 0 /\ s.at = 0
BY DEF GoodHand, HandRow, Anew

LEMMA PlacedFields ==
  \A h \in GoodHand, c \in Nat : LET s == [Anew(h) EXCEPT !.cursor = c]
    IN /\ s.job = h.job /\ s.rev = h.rev /\ s.cursor = c
       /\ s.lease = 0 /\ s.saw = 0 /\ s.at = 0
BY DEF GoodHand, HandRow, Anew

LEMMA HeldFields ==
  \A j \in Jobs, n \in Nat, c \in Nat :
    LET s == [NoHand EXCEPT !.job = j, !.rev = n, !.cursor = c]
    IN /\ s.job = j /\ s.rev = n /\ s.cursor = c
       /\ s.lease = 0 /\ s.saw = 0 /\ s.at = 0
BY DEF NoHand

LEMMA ReaderFields ==
  \A h \in GoodHand, n \in Nat : LET s == [h EXCEPT !.lease = n]
    IN /\ s.job = h.job /\ s.rev = h.rev /\ s.cursor = h.cursor
       /\ s.lease = n /\ s.saw = h.saw /\ s.at = h.at
BY DEF GoodHand, HandRow

LEMMA SeenFields ==
  \A h \in GoodHand, n \in Nat : LET s == [h EXCEPT !.saw = n]
    IN /\ s.job = h.job /\ s.rev = h.rev /\ s.cursor = h.cursor
       /\ s.lease = h.lease /\ s.saw = n /\ s.at = h.at
BY DEF GoodHand, HandRow

LEMMA IssuedFields ==
  \A h \in GoodHand, n \in Nat : LET s == [h EXCEPT !.lease = 0, !.at = n]
    IN /\ s.job = h.job /\ s.rev = h.rev /\ s.cursor = h.cursor
       /\ s.lease = 0 /\ s.saw = h.saw /\ s.at = n
BY DEF GoodHand, HandRow

-----------------------------------------------------------------------------
(* A lease that is still held is the lease that was held, and its job has  *)
(* not gone back; a device that still has its job has its lease and place. *)
JobsKept ==
  \A i \in Jobs : job'[i].status = "CLAIMED" =>
    /\ job[i].status = "CLAIMED" /\ job'[i].device = job[i].device
    /\ job'[i].rev = job[i].rev /\ job[i].cursor <= job'[i].cursor

HandsKept ==
  \A e \in Devices :
    \/ hand'[e].job = None
    \/ /\ hand'[e].job = hand[e].job /\ hand'[e].rev = hand[e].rev
       /\ hand'[e].cursor = hand[e].cursor

(* The lease in hand is not ahead of its job.                              *)
NotAhead ==
  \A d \in Devices, j \in Jobs : Has(d, j) => hand[d].cursor <= job[j].cursor

LEMMA KeptNotAhead ==
  ASSUME Rows, Rows', NotAhead, JobsKept, HandsKept
  PROVE  NotAhead'
<1> SUFFICES ASSUME NEW e \in Devices, NEW i \in Jobs, Has(e, i)'
             PROVE  hand'[e].cursor <= job'[i].cursor
  BY DEF NotAhead
<1>1. /\ hand'[e].job = hand[e].job /\ hand'[e].rev = hand[e].rev
      /\ hand'[e].cursor = hand[e].cursor
  BY LeaseAssumption DEF HandsKept, Has
<1>2. /\ job[i].status = "CLAIMED" /\ job'[i].device = job[i].device
      /\ job'[i].rev = job[i].rev /\ job[i].cursor <= job'[i].cursor
  BY DEF JobsKept, Has, Leased
<1>3. hand[e].cursor <= job[i].cursor
  BY <1>1, <1>2 DEF NotAhead, Has, Leased
<1>4. /\ hand[e].cursor \in Nat /\ job[i].cursor \in Nat /\ job'[i].cursor \in Nat
  BY LeaseAssumption DEF Rows, GoodJob, JobRow, GoodHand, HandRow
<1> QED  BY <1>1, <1>2, <1>3, <1>4

LEMMA SameJobs == ASSUME Rows, job' = job PROVE JobsKept
BY LeaseAssumption DEF Rows, GoodJob, JobRow, JobsKept

LEMMA SameHands == ASSUME hand' = hand PROVE HandsKept
BY DEF HandsKept

LEMMA NotAheadInit == Init => NotAhead
<1> SUFFICES ASSUME Init, NEW d \in Devices, NEW j \in Jobs, Has(d, j) PROVE FALSE
  BY DEF NotAhead
<1> QED  BY LeaseAssumption DEF Init, Has, NoHand

LEMMA NotAheadStep ==
  ASSUME Rows, Rows', NotAhead, [Next]_vars
  PROVE  NotAhead'
<1>0. CASE UNCHANGED vars
  BY <1>0 DEF vars, NotAhead, Has
<1>1. ASSUME NEW j \in Jobs, Schedule(j) PROVE NotAhead'
  <2>1. job'[j] = New(job[j]) /\ \A i \in Jobs \ {j} : job'[i] = job[i]
    BY <1>1, PutAt DEF Schedule
  <2>2. JobsKept
    BY <2>1, NewFields, LeaseAssumption DEF Rows, GoodJob, JobRow, JobsKept
  <2>4. HandsKept
    BY <1>1, SameHands DEF Schedule
  <2> QED  BY <2>2, <2>4, KeptNotAhead
<1>2. ASSUME NEW j \in Jobs, Lapse(j) PROVE NotAhead'
  <2>1. job'[j] = [job[j] EXCEPT !.live = FALSE] /\ \A i \in Jobs \ {j} : job'[i] = job[i]
    BY <1>2, PutAt DEF Lapse
  <2>2. JobsKept
    BY <2>1, LapsedFields, LeaseAssumption DEF Rows, GoodJob, JobRow, JobsKept
  <2>4. HandsKept
    BY <1>2, SameHands DEF Lapse
  <2> QED  BY <2>2, <2>4, KeptNotAhead
<1>3. ASSUME NEW j \in Jobs, Sweep(j) PROVE NotAhead'
  <2>1. job'[j] = Attempted(job[j], TRUE) /\ \A i \in Jobs \ {j} : job'[i] = job[i]
    BY <1>3, PutAt DEF Sweep
  <2>s. job'[j].status # "CLAIMED"
    <3>1. TRUE \in BOOLEAN
      BY <1>3
    <3> QED  BY <3>1, <2>1, AttemptedFields DEF Rows
  <2>c. \A i \in Jobs : job[i].cursor \in Nat
    BY LeaseAssumption DEF Rows, GoodJob, JobRow
  <2>o. \A i \in Jobs \ {j} : job'[i] = job[i]
    BY <2>1
  <2>2. JobsKept
    BY <2>o, <2>s, <2>c DEF JobsKept
  <2>4. HandsKept
    BY <1>3, SameHands DEF Sweep
  <2> QED  BY <2>2, <2>4, KeptNotAhead
<1>4. ASSUME NEW d \in Devices, Observe(d) PROVE NotAhead'
  <2>2. JobsKept
    BY <1>4, SameJobs DEF Observe
  <2>n. truth \in Nat
    BY DEF Rows, ReadRow
  <2>3. hand'[d] \in {[hand[d] EXCEPT !.saw = truth], hand[d]} /\ \A e \in Devices \ {d} : hand'[e] = hand[e]
    BY <1>4, HeardAt DEF Observe
  <2>h. hand[d] \in GoodHand
    BY DEF Rows
  <2>f. LET s == [hand[d] EXCEPT !.saw = truth]
        IN s.job = hand[d].job /\ s.rev = hand[d].rev /\ s.cursor = hand[d].cursor
    BY <2>h, <2>n, SeenFields
  <2>r. \/ hand'[d].job = None
       \/ /\ hand'[d].job = hand[d].job /\ hand'[d].rev = hand[d].rev
          /\ hand'[d].cursor = hand[d].cursor
    BY <2>3, <2>f
  <2>4. HandsKept
    BY <2>3, <2>r DEF HandsKept
  <2> QED  BY <2>2, <2>4, KeptNotAhead
<1>5. ASSUME NEW d \in Devices, Forget(d) PROVE NotAhead'
  <2>2. JobsKept
    BY <1>5, SameJobs DEF Forget
  <2>3. hand'[d] \in {Anew(hand[d]), hand[d]} /\ \A e \in Devices \ {d} : hand'[e] = hand[e]
    BY <1>5, HeardAt DEF Forget
  <2>r. \/ hand'[d].job = None
       \/ /\ hand'[d].job = hand[d].job /\ hand'[d].rev = hand[d].rev
          /\ hand'[d].cursor = hand[d].cursor
    BY <2>3, AnewFields DEF Rows
  <2>4. HandsKept
    BY <2>3, <2>r DEF HandsKept
  <2> QED  BY <2>2, <2>4, KeptNotAhead
<1>6. ASSUME NEW d \in Devices, Crash(d) PROVE NotAhead'
  <2>2. JobsKept
    BY <1>6, SameJobs DEF Crash
  <2>3. hand'[d] \in {NoHand, hand[d]} /\ \A e \in Devices \ {d} : hand'[e] = hand[e]
    BY <1>6, HeardAt DEF Crash
  <2>r. \/ hand'[d].job = None
       \/ /\ hand'[d].job = hand[d].job /\ hand'[d].rev = hand[d].rev
          /\ hand'[d].cursor = hand[d].cursor
    BY <2>3, NoHandFields DEF Rows
  <2>4. HandsKept
    BY <2>3, <2>r DEF HandsKept
  <2> QED  BY <2>2, <2>4, KeptNotAhead
<1>7. ASSUME NEW d \in Devices, NEW j \in Jobs, Claim(d, j) PROVE NotAhead'
  <2> SUFFICES ASSUME NEW e \in Devices, NEW i \in Jobs, Has(e, i)'
               PROVE  hand'[e].cursor <= job'[i].cursor
    BY DEF NotAhead
  <2>t. /\ hand[e].cursor \in Nat /\ job[i].cursor \in Nat /\ job[i].rev \in Nat
        /\ hand[d].cursor \in Nat /\ job[j].cursor \in Nat /\ job[j].rev \in Nat
    BY LeaseAssumption DEF Rows, GoodJob, JobRow, GoodHand, HandRow
  <2>1. job'[j] = Claimed(job[j], d) /\ \A k \in Jobs \ {j} : job'[k] = job[k]
    BY <1>7, PutAt DEF Claim
  <2>2. /\ job'[j].status = "CLAIMED" /\ job'[j].device = d
        /\ job'[j].rev = job[j].rev + 1 /\ job'[j].cursor = job[j].cursor
    BY <2>1, ClaimedFields DEF Rows
  <2>3. /\ hand'[d] = [NoHand EXCEPT !.job = j, !.rev = job[j].rev + 1, !.cursor = job[j].cursor]
        /\ \A f \in Devices \ {d} : hand'[f] = hand[f]
    BY <1>7, HeardAt DEF Claim
  <2>4. hand'[d].job = j /\ hand'[d].cursor = job[j].cursor
    BY <2>3, <2>t, HeldFields
  <2>5. CASE e = d
    BY <2>2, <2>4, <2>5, <2>t DEF Has, Leased
  <2>6. CASE e # d
    BY <2>1, <2>2, <2>3, <2>6 DEF NotAhead, Has, Leased
  <2> QED  BY <2>5, <2>6
<1>8. ASSUME NEW d \in Devices, NEW j \in Jobs, ReleaseJob(d, j) PROVE NotAhead'
  <2>1. job'[j] = GivenBack(job[j]) /\ \A i \in Jobs \ {j} : job'[i] = job[i]
    BY <1>8, PutAt DEF ReleaseJob
  <2>2. JobsKept
    BY <2>1, GivenBackFields, LeaseAssumption DEF Rows, GoodJob, JobRow, JobsKept
  <2>3. hand'[d] \in {NoHand, hand[d]} /\ \A e \in Devices \ {d} : hand'[e] = hand[e]
    BY <1>8, HeardAt DEF ReleaseJob
  <2>r. \/ hand'[d].job = None
       \/ /\ hand'[d].job = hand[d].job /\ hand'[d].rev = hand[d].rev
          /\ hand'[d].cursor = hand[d].cursor
    BY <2>3, NoHandFields DEF Rows
  <2>4. HandsKept
    BY <2>3, <2>r DEF HandsKept
  <2> QED  BY <2>2, <2>4, KeptNotAhead
<1>9. ASSUME NEW d \in Devices, NEW j \in Jobs, NEW q \in BOOLEAN, FailJob(d, j, q) PROVE NotAhead'
  <2>1. job'[j] = Attempted(job[j], q) /\ \A i \in Jobs \ {j} : job'[i] = job[i]
    BY <1>9, PutAt DEF FailJob
  <2>s. job'[j].status # "CLAIMED"
    <3>1. q \in BOOLEAN
      BY <1>9
    <3> QED  BY <3>1, <2>1, AttemptedFields DEF Rows
  <2>c. \A i \in Jobs : job[i].cursor \in Nat
    BY LeaseAssumption DEF Rows, GoodJob, JobRow
  <2>o. \A i \in Jobs \ {j} : job'[i] = job[i]
    BY <2>1
  <2>2. JobsKept
    BY <2>o, <2>s, <2>c DEF JobsKept
  <2>3. hand'[d] \in {NoHand, hand[d]} /\ \A e \in Devices \ {d} : hand'[e] = hand[e]
    BY <1>9, HeardAt DEF FailJob
  <2>r. \/ hand'[d].job = None
       \/ /\ hand'[d].job = hand[d].job /\ hand'[d].rev = hand[d].rev
          /\ hand'[d].cursor = hand[d].cursor
    BY <2>3, NoHandFields DEF Rows
  <2>4. HandsKept
    BY <2>3, <2>r DEF HandsKept
  <2> QED  BY <2>2, <2>4, KeptNotAhead
<1>10. ASSUME NEW d \in Devices, NEW j \in Jobs, Acquire(d, j) PROVE NotAhead'
  <2>2. JobsKept
    BY <1>10, SameJobs DEF Acquire
  <2>n. reads + 1 \in Nat
    BY DEF Rows, ReadRow
  <2>3. hand'[d] \in {[hand[d] EXCEPT !.lease = reads + 1], hand[d]} /\ \A e \in Devices \ {d} : hand'[e] = hand[e]
    BY <1>10, HeardAt DEF Acquire
  <2>h. hand[d] \in GoodHand
    BY DEF Rows
  <2>f. LET s == [hand[d] EXCEPT !.lease = reads + 1]
        IN s.job = hand[d].job /\ s.rev = hand[d].rev /\ s.cursor = hand[d].cursor
    BY <2>h, <2>n, ReaderFields
  <2>r. \/ hand'[d].job = None
       \/ /\ hand'[d].job = hand[d].job /\ hand'[d].rev = hand[d].rev
          /\ hand'[d].cursor = hand[d].cursor
    BY <2>3, <2>f
  <2>4. HandsKept
    BY <2>3, <2>r DEF HandsKept
  <2> QED  BY <2>2, <2>4, KeptNotAhead
<1>11. ASSUME NEW d \in Devices, NEW j \in Jobs, AcquireAgain(d, j) PROVE NotAhead'
  <2>2. JobsKept
    BY <1>11, SameJobs DEF AcquireAgain
  <2>n. read.id \in Nat
    BY DEF Rows, ReadRow
  <2>3. hand'[d] \in {[hand[d] EXCEPT !.lease = read.id], hand[d]} /\ \A e \in Devices \ {d} : hand'[e] = hand[e]
    BY <1>11, HeardAt DEF AcquireAgain
  <2>h. hand[d] \in GoodHand
    BY DEF Rows
  <2>f. LET s == [hand[d] EXCEPT !.lease = read.id]
        IN s.job = hand[d].job /\ s.rev = hand[d].rev /\ s.cursor = hand[d].cursor
    BY <2>h, <2>n, ReaderFields
  <2>r. \/ hand'[d].job = None
       \/ /\ hand'[d].job = hand[d].job /\ hand'[d].rev = hand[d].rev
          /\ hand'[d].cursor = hand[d].cursor
    BY <2>3, <2>f
  <2>4. HandsKept
    BY <2>3, <2>r DEF HandsKept
  <2> QED  BY <2>2, <2>4, KeptNotAhead
<1>12. ASSUME NEW d \in Devices, NEW j \in Jobs, RenewLease(d, j) PROVE NotAhead'
  <2>2. JobsKept
    BY <1>12, SameJobs DEF RenewLease
  <2>4. HandsKept
    BY <1>12, SameHands DEF RenewLease
  <2> QED  BY <2>2, <2>4, KeptNotAhead
<1>13. ASSUME NEW d \in Devices, NEW j \in Jobs, Issue(d, j) PROVE NotAhead'
  <2>2. JobsKept
    BY <1>13, SameJobs DEF Issue
  <2>n. clock + 1 \in Nat
    BY DEF Rows, ReadRow
  <2>3. hand'[d] \in {[hand[d] EXCEPT !.lease = 0, !.at = clock + 1], hand[d]} /\ \A e \in Devices \ {d} : hand'[e] = hand[e]
    BY <1>13, HeardAt DEF Issue, Rows
  <2>h. hand[d] \in GoodHand
    BY DEF Rows
  <2>f. LET s == [hand[d] EXCEPT !.lease = 0, !.at = clock + 1]
        IN s.job = hand[d].job /\ s.rev = hand[d].rev /\ s.cursor = hand[d].cursor
    BY <2>h, <2>n, IssuedFields
  <2>r. \/ hand'[d].job = None
       \/ /\ hand'[d].job = hand[d].job /\ hand'[d].rev = hand[d].rev
          /\ hand'[d].cursor = hand[d].cursor
    BY <2>3, <2>f
  <2>4. HandsKept
    BY <2>3, <2>r DEF HandsKept
  <2> QED  BY <2>2, <2>4, KeptNotAhead
<1>14. ASSUME NEW d \in Devices, NEW j \in Jobs, ReturnRead(d, j) PROVE NotAhead'
  <2>2. JobsKept
    BY <1>14, SameJobs DEF ReturnRead
  <2>3. hand'[d] \in {Anew(hand[d]), hand[d]} /\ \A e \in Devices \ {d} : hand'[e] = hand[e]
    BY <1>14, HeardAt DEF ReturnRead
  <2>r. \/ hand'[d].job = None
       \/ /\ hand'[d].job = hand[d].job /\ hand'[d].rev = hand[d].rev
          /\ hand'[d].cursor = hand[d].cursor
    BY <2>3, AnewFields DEF Rows
  <2>4. HandsKept
    BY <2>3, <2>r DEF HandsKept
  <2> QED  BY <2>2, <2>4, KeptNotAhead
<1>15. ASSUME NEW d \in Devices, NEW j \in Jobs, Store(d, j) PROVE NotAhead'
  <2> SUFFICES ASSUME NEW e \in Devices, NEW i \in Jobs, Has(e, i)'
               PROVE  hand'[e].cursor <= job'[i].cursor
    BY DEF NotAhead
  <2>t. /\ hand[e].cursor \in Nat /\ job[i].cursor \in Nat /\ job[i].rev \in Nat
        /\ hand[d].cursor \in Nat /\ job[j].cursor \in Nat /\ job[j].rev \in Nat
    BY LeaseAssumption DEF Rows, GoodJob, JobRow, GoodHand, HandRow
  <2>0. /\ job[j].device = d /\ job[j].cursor = hand[d].cursor
        /\ Advanced(d, j) = [job[j] EXCEPT !.cursor = hand[d].cursor + 1]
        /\ hand[d].cursor + 1 \in Nat
    BY <1>15, <2>t DEF Store, HasNow, LeasedNow, Leased, AtCursor, Advanced
  <2>1. job'[j] = Advanced(d, j) /\ \A k \in Jobs \ {j} : job'[k] = job[k]
    BY <1>15, PutAt DEF Store
  <2>2. /\ job'[j].status = job[j].status /\ job'[j].device = d
        /\ job'[j].rev = job[j].rev /\ job'[j].cursor = hand[d].cursor + 1
    BY <2>0, <2>1, MovedFields DEF Rows
  <2>3. /\ hand'[d] \in {[Anew(hand[d]) EXCEPT !.cursor = @ + 1], hand[d]}
        /\ \A f \in Devices \ {d} : hand'[f] = hand[f]
    BY <1>15, HeardAt DEF Store
  <2>4. [Anew(hand[d]) EXCEPT !.cursor = @ + 1] = [Anew(hand[d]) EXCEPT !.cursor = hand[d].cursor + 1]
    BY AnewFields DEF Rows
  <2>5. hand'[d].job = hand[d].job /\ hand'[d].cursor <= hand[d].cursor + 1
    <3>1. CASE hand'[d] = [Anew(hand[d]) EXCEPT !.cursor = hand[d].cursor + 1]
      <4>1. hand'[d].job = hand[d].job /\ hand'[d].cursor = hand[d].cursor + 1
        BY <3>1, <2>0, PlacedFields DEF Rows
      <4> QED  BY <4>1, <2>0
    <3>2. CASE hand'[d] = hand[d]
      BY <3>2, <2>t
    <3> QED  BY <3>1, <3>2, <2>3, <2>4
  <2>6. CASE e = d /\ i = j
    BY <2>2, <2>5, <2>6
  <2>7. CASE e = d /\ i # j
    BY <1>15, <2>5, <2>7 DEF Has, Store, HasNow
  <2>8. CASE e # d
    BY <2>1, <2>2, <2>3, <2>8 DEF NotAhead, Has, Leased
  <2> QED  BY <2>6, <2>7, <2>8
<1>16. ASSUME NEW d \in Devices, NEW j \in Jobs, Reuse(d, j) PROVE NotAhead'
  <2> SUFFICES ASSUME NEW e \in Devices, NEW i \in Jobs, Has(e, i)'
               PROVE  hand'[e].cursor <= job'[i].cursor
    BY DEF NotAhead
  <2>t. /\ hand[e].cursor \in Nat /\ job[i].cursor \in Nat /\ job[i].rev \in Nat
        /\ hand[d].cursor \in Nat /\ job[j].cursor \in Nat /\ job[j].rev \in Nat
    BY LeaseAssumption DEF Rows, GoodJob, JobRow, GoodHand, HandRow
  <2>0. /\ job[j].device = d /\ job[j].cursor = hand[d].cursor
        /\ Advanced(d, j) = [job[j] EXCEPT !.cursor = hand[d].cursor + 1]
        /\ hand[d].cursor + 1 \in Nat
    BY <1>16, <2>t DEF Reuse, HasNow, LeasedNow, Leased, AtCursor, Advanced
  <2>1. job'[j] = Advanced(d, j) /\ \A k \in Jobs \ {j} : job'[k] = job[k]
    BY <1>16, PutAt DEF Reuse
  <2>2. /\ job'[j].status = job[j].status /\ job'[j].device = d
        /\ job'[j].rev = job[j].rev /\ job'[j].cursor = hand[d].cursor + 1
    BY <2>0, <2>1, MovedFields DEF Rows
  <2>3. /\ hand'[d] \in {[Anew(hand[d]) EXCEPT !.cursor = @ + 1], hand[d]}
        /\ \A f \in Devices \ {d} : hand'[f] = hand[f]
    BY <1>16, HeardAt DEF Reuse
  <2>4. [Anew(hand[d]) EXCEPT !.cursor = @ + 1] = [Anew(hand[d]) EXCEPT !.cursor = hand[d].cursor + 1]
    BY AnewFields DEF Rows
  <2>5. hand'[d].job = hand[d].job /\ hand'[d].cursor <= hand[d].cursor + 1
    <3>1. CASE hand'[d] = [Anew(hand[d]) EXCEPT !.cursor = hand[d].cursor + 1]
      <4>1. hand'[d].job = hand[d].job /\ hand'[d].cursor = hand[d].cursor + 1
        BY <3>1, <2>0, PlacedFields DEF Rows
      <4> QED  BY <4>1, <2>0
    <3>2. CASE hand'[d] = hand[d]
      BY <3>2, <2>t
    <3> QED  BY <3>1, <3>2, <2>3, <2>4
  <2>6. CASE e = d /\ i = j
    BY <2>2, <2>5, <2>6
  <2>7. CASE e = d /\ i # j
    BY <1>16, <2>5, <2>7 DEF Has, Reuse, HasNow
  <2>8. CASE e # d
    BY <2>1, <2>2, <2>3, <2>8 DEF NotAhead, Has, Leased
  <2> QED  BY <2>6, <2>7, <2>8
<1>17. ASSUME NEW d \in Devices, NEW j \in Jobs, Learn(d, j) PROVE NotAhead'
  <2> SUFFICES ASSUME NEW e \in Devices, NEW i \in Jobs, Has(e, i)'
               PROVE  hand'[e].cursor <= job'[i].cursor
    BY DEF NotAhead
  <2>t. /\ hand[e].cursor \in Nat /\ job[i].cursor \in Nat /\ job[i].rev \in Nat
        /\ hand[d].cursor \in Nat /\ job[j].cursor \in Nat /\ job[j].rev \in Nat
    BY LeaseAssumption DEF Rows, GoodJob, JobRow, GoodHand, HandRow
  <2>2. /\ hand'[d] = [Anew(hand[d]) EXCEPT !.cursor = job[j].cursor]
        /\ \A f \in Devices \ {d} : hand'[f] = hand[f]
    BY <1>17, HeardAt DEF Learn
  <2>3. hand'[d].job = hand[d].job /\ hand'[d].cursor = job[j].cursor
    BY <2>2, <2>t, PlacedFields DEF Rows
  <2>4. job' = job
    BY <1>17 DEF Learn
  <2>5. CASE e = d /\ i = j
    BY <2>3, <2>4, <2>5, <2>t
  <2>6. CASE e = d /\ i # j
    BY <1>17, <2>3, <2>6 DEF Has, Learn
  <2>7. CASE e # d
    BY <2>2, <2>4, <2>7 DEF NotAhead, Has
  <2> QED  BY <2>5, <2>6, <2>7
<1>18. ASSUME NEW d \in Devices, NEW j \in Jobs, CompleteJob(d, j) PROVE NotAhead'
  <2>1. job'[j] = [Vacated(job[j], "DONE") EXCEPT !.rev = @ + 1] /\ \A i \in Jobs \ {j} : job'[i] = job[i]
    BY <1>18, PutAt DEF CompleteJob
  <2>2. JobsKept
    BY <2>1, DoneFields, LeaseAssumption DEF Rows, GoodJob, JobRow, JobsKept
  <2>3. hand'[d] \in {NoHand, hand[d]} /\ \A e \in Devices \ {d} : hand'[e] = hand[e]
    BY <1>18, HeardAt DEF CompleteJob
  <2>r. \/ hand'[d].job = None
       \/ /\ hand'[d].job = hand[d].job /\ hand'[d].rev = hand[d].rev
          /\ hand'[d].cursor = hand[d].cursor
    BY <2>3, NoHandFields DEF Rows
  <2>4. HandsKept
    BY <2>3, <2>r DEF HandsKept
  <2> QED  BY <2>2, <2>4, KeptNotAhead
<1>19. ASSUME LapseRead PROVE NotAhead'
  <2>2. JobsKept
    BY <1>19, SameJobs DEF LapseRead
  <2>4. HandsKept
    BY <1>19, SameHands DEF LapseRead
  <2> QED  BY <2>2, <2>4, KeptNotAhead
<1>20. ASSUME TruthMoves PROVE NotAhead'
  <2>2. JobsKept
    BY <1>20, SameJobs DEF TruthMoves
  <2>4. HandsKept
    BY <1>20, SameHands DEF TruthMoves
  <2> QED  BY <2>2, <2>4, KeptNotAhead
<1> QED  BY <1>0, <1>1, <1>2, <1>3, <1>4, <1>5, <1>6, <1>7, <1>8, <1>9, <1>10, <1>11, <1>12, <1>13, <1>14, <1>15, <1>16, <1>17, <1>18, <1>19, <1>20 DEF Next, DeviceStep

-----------------------------------------------------------------------------
(* Jobs are created once, the clock and the times of the facts only grow,  *)
(* and a new token is younger than everything there is.                    *)
JobsOnward ==
  \A i \in Jobs :
    /\ job[i].status # "ABSENT" =>
         job'[i].status # "ABSENT" /\ created'[i] = created[i]
    /\ created'[i] \in {created[i], clock}

TokensOnward ==
  /\ clock <= clock'
  /\ \A t \in tokens' : t \in tokens \/ (job[t.job].status # "ABSENT" /\ t.at = clock + 1 /\ clock' = clock + 1)

FactsOnward == \A p \in Fans : fact[p].at <= fact'[p].at

LEMMA OnwardStep ==
  ASSUME Rows, Rows', [Next]_vars
  PROVE  JobsOnward /\ TokensOnward /\ FactsOnward
<1>0. CASE UNCHANGED vars
  BY <1>0 DEF vars, Rows, JobsOnward, TokensOnward, FactsOnward
<1>1. ASSUME NEW j \in Jobs, Schedule(j) PROVE JobsOnward /\ TokensOnward /\ FactsOnward
  <2>0. clock \in Nat /\ \A p \in Fans : fact[p].at \in Nat
    BY DEF Rows
  <2>1. job'[j] = New(job[j]) /\ \A i \in Jobs \ {j} : job'[i] = job[i]
    BY <1>1, PutAt DEF Schedule
  <2>o. \A i \in Jobs \ {j} : job'[i] = job[i]
    BY <2>1
  <2>2. job'[j].status # "ABSENT"
    BY <1>1, <2>1, NewFields DEF Rows, Schedule
  <2>3. JobsOnward
    BY <1>1, <2>o, <2>2 DEF JobsOnward, Rows, Schedule
  <2>5. TokensOnward
    BY <1>1, <2>0 DEF TokensOnward, Schedule, observed
  <2>6. FactsOnward
    BY <1>1, <2>0 DEF FactsOnward, Schedule, observed
  <2> QED  BY <2>3, <2>5, <2>6
<1>2. ASSUME NEW j \in Jobs, Lapse(j) PROVE JobsOnward /\ TokensOnward /\ FactsOnward
  <2>0. clock \in Nat /\ \A p \in Fans : fact[p].at \in Nat
    BY DEF Rows
  <2>1. job'[j] = [job[j] EXCEPT !.live = FALSE] /\ \A i \in Jobs \ {j} : job'[i] = job[i]
    BY <1>2, PutAt DEF Lapse
  <2>o. \A i \in Jobs \ {j} : job'[i] = job[i]
    BY <2>1
  <2>2. job'[j].status # "ABSENT"
    BY <1>2, <2>1, LapsedFields DEF Rows, Lapse, Lapses
  <2>c. created' = created
    BY <1>2 DEF Lapse
  <2>3. JobsOnward
    BY <2>c, <2>o, <2>2 DEF JobsOnward
  <2>5. TokensOnward
    BY <1>2, <2>0 DEF TokensOnward, Lapse, observed
  <2>6. FactsOnward
    BY <1>2, <2>0 DEF FactsOnward, Lapse, observed
  <2> QED  BY <2>3, <2>5, <2>6
<1>3. ASSUME NEW j \in Jobs, Sweep(j) PROVE JobsOnward /\ TokensOnward /\ FactsOnward
  <2>0. clock \in Nat /\ \A p \in Fans : fact[p].at \in Nat
    BY DEF Rows
  <2>1. job'[j] = Attempted(job[j], TRUE) /\ \A i \in Jobs \ {j} : job'[i] = job[i]
    BY <1>3, PutAt DEF Sweep
  <2>o. \A i \in Jobs \ {j} : job'[i] = job[i]
    BY <2>1
  <2>b. TRUE \in BOOLEAN
    BY <1>3
  <2>2. job'[j].status # "ABSENT"
    BY <2>1, <2>b, AttemptedFields DEF Rows
  <2>c. created' = created
    BY <1>3 DEF Sweep
  <2>3. JobsOnward
    BY <2>c, <2>o, <2>2 DEF JobsOnward
  <2>5. TokensOnward
    BY <1>3, <2>0 DEF TokensOnward, Sweep
  <2>6. FactsOnward
    BY <1>3, <2>0 DEF FactsOnward, Sweep
  <2> QED  BY <2>3, <2>5, <2>6
<1>4. ASSUME NEW d \in Devices, Observe(d) PROVE JobsOnward /\ TokensOnward /\ FactsOnward
  <2>0. clock \in Nat /\ \A p \in Fans : fact[p].at \in Nat
    BY DEF Rows
  <2>3. JobsOnward
    BY <1>4 DEF JobsOnward, Observe
  <2>5. TokensOnward
    BY <1>4, <2>0 DEF TokensOnward, Observe, observed
  <2>6. FactsOnward
    BY <1>4, <2>0 DEF FactsOnward, Observe, observed
  <2> QED  BY <2>3, <2>5, <2>6
<1>5. ASSUME NEW d \in Devices, Forget(d) PROVE JobsOnward /\ TokensOnward /\ FactsOnward
  <2>0. clock \in Nat /\ \A p \in Fans : fact[p].at \in Nat
    BY DEF Rows
  <2>3. JobsOnward
    BY <1>5 DEF JobsOnward, Forget
  <2>5. TokensOnward
    BY <1>5, <2>0 DEF TokensOnward, Forget, observed
  <2>6. FactsOnward
    BY <1>5, <2>0 DEF FactsOnward, Forget, observed
  <2> QED  BY <2>3, <2>5, <2>6
<1>6. ASSUME NEW d \in Devices, Crash(d) PROVE JobsOnward /\ TokensOnward /\ FactsOnward
  <2>0. clock \in Nat /\ \A p \in Fans : fact[p].at \in Nat
    BY DEF Rows
  <2>3. JobsOnward
    BY <1>6 DEF JobsOnward, Crash
  <2>5. TokensOnward
    BY <1>6, <2>0 DEF TokensOnward, Crash, Remembered
  <2>6. FactsOnward
    BY <1>6, <2>0 DEF FactsOnward, Crash
  <2> QED  BY <2>3, <2>5, <2>6
<1>7. ASSUME NEW d \in Devices, NEW j \in Jobs, Claim(d, j) PROVE JobsOnward /\ TokensOnward /\ FactsOnward
  <2>0. clock \in Nat /\ \A p \in Fans : fact[p].at \in Nat
    BY DEF Rows
  <2>1. job'[j] = Claimed(job[j], d) /\ \A i \in Jobs \ {j} : job'[i] = job[i]
    BY <1>7, PutAt DEF Claim
  <2>o. \A i \in Jobs \ {j} : job'[i] = job[i]
    BY <2>1
  <2>2. job'[j].status # "ABSENT"
    BY <1>7, <2>1, ClaimedFields DEF Rows, Claim
  <2>c. created' = created
    BY <1>7 DEF Claim
  <2>3. JobsOnward
    BY <2>c, <2>o, <2>2 DEF JobsOnward
  <2>5. TokensOnward
    BY <1>7, <2>0 DEF TokensOnward, Claim, observed
  <2>6. FactsOnward
    BY <1>7, <2>0 DEF FactsOnward, Claim, observed
  <2> QED  BY <2>3, <2>5, <2>6
<1>8. ASSUME NEW d \in Devices, NEW j \in Jobs, ReleaseJob(d, j) PROVE JobsOnward /\ TokensOnward /\ FactsOnward
  <2>0. clock \in Nat /\ \A p \in Fans : fact[p].at \in Nat
    BY DEF Rows
  <2>1. job'[j] = GivenBack(job[j]) /\ \A i \in Jobs \ {j} : job'[i] = job[i]
    BY <1>8, PutAt DEF ReleaseJob
  <2>o. \A i \in Jobs \ {j} : job'[i] = job[i]
    BY <2>1
  <2>2. job'[j].status # "ABSENT"
    BY <1>8, <2>1, GivenBackFields DEF Rows, ReleaseJob
  <2>c. created' = created
    BY <1>8 DEF ReleaseJob
  <2>3. JobsOnward
    BY <2>c, <2>o, <2>2 DEF JobsOnward
  <2>5. TokensOnward
    BY <1>8, <2>0 DEF TokensOnward, ReleaseJob
  <2>6. FactsOnward
    BY <1>8, <2>0 DEF FactsOnward, ReleaseJob
  <2> QED  BY <2>3, <2>5, <2>6
<1>9. ASSUME NEW d \in Devices, NEW j \in Jobs, NEW q \in BOOLEAN, FailJob(d, j, q) PROVE JobsOnward /\ TokensOnward /\ FactsOnward
  <2>0. clock \in Nat /\ \A p \in Fans : fact[p].at \in Nat
    BY DEF Rows
  <2>1. job'[j] = Attempted(job[j], q) /\ \A i \in Jobs \ {j} : job'[i] = job[i]
    BY <1>9, PutAt DEF FailJob
  <2>o. \A i \in Jobs \ {j} : job'[i] = job[i]
    BY <2>1
  <2>b. q \in BOOLEAN
    BY <1>9
  <2>2. job'[j].status # "ABSENT"
    BY <2>1, <2>b, AttemptedFields DEF Rows
  <2>c. created' = created
    BY <1>9 DEF FailJob
  <2>3. JobsOnward
    BY <2>c, <2>o, <2>2 DEF JobsOnward
  <2>5. TokensOnward
    BY <1>9, <2>0 DEF TokensOnward, FailJob
  <2>6. FactsOnward
    BY <1>9, <2>0 DEF FactsOnward, FailJob
  <2> QED  BY <2>3, <2>5, <2>6
<1>10. ASSUME NEW d \in Devices, NEW j \in Jobs, Acquire(d, j) PROVE JobsOnward /\ TokensOnward /\ FactsOnward
  <2>0. clock \in Nat /\ \A p \in Fans : fact[p].at \in Nat
    BY DEF Rows
  <2>3. JobsOnward
    BY <1>10 DEF JobsOnward, Acquire
  <2>5. TokensOnward
    BY <1>10, <2>0 DEF TokensOnward, Acquire
  <2>6. FactsOnward
    BY <1>10, <2>0 DEF FactsOnward, Acquire
  <2> QED  BY <2>3, <2>5, <2>6
<1>11. ASSUME NEW d \in Devices, NEW j \in Jobs, AcquireAgain(d, j) PROVE JobsOnward /\ TokensOnward /\ FactsOnward
  <2>0. clock \in Nat /\ \A p \in Fans : fact[p].at \in Nat
    BY DEF Rows
  <2>3. JobsOnward
    BY <1>11 DEF JobsOnward, AcquireAgain
  <2>5. TokensOnward
    BY <1>11, <2>0 DEF TokensOnward, AcquireAgain, observed
  <2>6. FactsOnward
    BY <1>11, <2>0 DEF FactsOnward, AcquireAgain, observed
  <2> QED  BY <2>3, <2>5, <2>6
<1>12. ASSUME NEW d \in Devices, NEW j \in Jobs, RenewLease(d, j) PROVE JobsOnward /\ TokensOnward /\ FactsOnward
  <2>0. clock \in Nat /\ \A p \in Fans : fact[p].at \in Nat
    BY DEF Rows
  <2>3. JobsOnward
    BY <1>12 DEF JobsOnward, RenewLease
  <2>5. TokensOnward
    BY <1>12, <2>0 DEF TokensOnward, RenewLease
  <2>6. FactsOnward
    BY <1>12, <2>0 DEF FactsOnward, RenewLease
  <2> QED  BY <2>3, <2>5, <2>6
<1>13. ASSUME NEW d \in Devices, NEW j \in Jobs, Issue(d, j) PROVE JobsOnward /\ TokensOnward /\ FactsOnward
  <2>0. clock \in Nat /\ \A p \in Fans : fact[p].at \in Nat
    BY DEF Rows
  <2>3. JobsOnward
    BY <1>13 DEF JobsOnward, Issue
  <2>4. job[j].status # "ABSENT"
    BY <1>13 DEF Issue, HasNow, LeasedNow, Leased
  <2>5. TokensOnward
    BY <1>13, <2>0, <2>4 DEF TokensOnward, Issue
  <2>6. FactsOnward
    BY <1>13, <2>0 DEF FactsOnward, Issue
  <2> QED  BY <2>3, <2>5, <2>6
<1>14. ASSUME NEW d \in Devices, NEW j \in Jobs, ReturnRead(d, j) PROVE JobsOnward /\ TokensOnward /\ FactsOnward
  <2>0. clock \in Nat /\ \A p \in Fans : fact[p].at \in Nat
    BY DEF Rows
  <2>3. JobsOnward
    BY <1>14 DEF JobsOnward, ReturnRead
  <2>5. TokensOnward
    BY <1>14, <2>0 DEF TokensOnward, ReturnRead
  <2>6. FactsOnward
    BY <1>14, <2>0 DEF FactsOnward, ReturnRead
  <2> QED  BY <2>3, <2>5, <2>6
<1>15. ASSUME NEW d \in Devices, NEW j \in Jobs, Store(d, j) PROVE JobsOnward /\ TokensOnward /\ FactsOnward
  <2>0. clock \in Nat /\ \A p \in Fans : fact[p].at \in Nat
    BY DEF Rows
  <2>1. job'[j] = Advanced(d, j) /\ \A i \in Jobs \ {j} : job'[i] = job[i]
    BY <1>15, PutAt DEF Store
  <2>o. \A i \in Jobs \ {j} : job'[i] = job[i]
    BY <2>1
  <2>a. job[j].status = "CLAIMED" /\ hand[d].cursor + 1 \in Nat
    BY <1>15 DEF Store, HasNow, LeasedNow, Leased, Rows, GoodHand, HandRow
  <2>2. job'[j].status # "ABSENT"
    BY <2>1, <2>a, MovedFields DEF Rows, Advanced
  <2>c. created' = created
    BY <1>15 DEF Store
  <2>3. JobsOnward
    BY <2>c, <2>o, <2>2 DEF JobsOnward
  <2>5. TokensOnward
    BY <1>15, <2>0 DEF TokensOnward, Store
  <2>6. FactsOnward
    <3>1. PICK t \in tokens : fact' = IF Newer(fact[t.fan], t)
                  THEN [fact EXCEPT ![t.fan] = [at |-> t.at, saw |-> hand[d].saw]] ELSE fact
      BY <1>15 DEF Store
    <3>2. t \in TokenRow
      BY DEF Rows
    <3> QED  BY <2>0, <3>1, <3>2 DEF FactsOnward, Newer, Rows, TokenRow
  <2> QED  BY <2>3, <2>5, <2>6
<1>16. ASSUME NEW d \in Devices, NEW j \in Jobs, Reuse(d, j) PROVE JobsOnward /\ TokensOnward /\ FactsOnward
  <2>0. clock \in Nat /\ \A p \in Fans : fact[p].at \in Nat
    BY DEF Rows
  <2>1. job'[j] = Advanced(d, j) /\ \A i \in Jobs \ {j} : job'[i] = job[i]
    BY <1>16, PutAt DEF Reuse
  <2>o. \A i \in Jobs \ {j} : job'[i] = job[i]
    BY <2>1
  <2>a. job[j].status = "CLAIMED" /\ hand[d].cursor + 1 \in Nat
    BY <1>16 DEF Reuse, HasNow, LeasedNow, Leased, Rows, GoodHand, HandRow
  <2>2. job'[j].status # "ABSENT"
    BY <2>1, <2>a, MovedFields DEF Rows, Advanced
  <2>c. created' = created
    BY <1>16 DEF Reuse
  <2>3. JobsOnward
    BY <2>c, <2>o, <2>2 DEF JobsOnward
  <2>5. TokensOnward
    BY <1>16, <2>0 DEF TokensOnward, Reuse, observed
  <2>6. FactsOnward
    BY <1>16, <2>0 DEF FactsOnward, Reuse, observed
  <2> QED  BY <2>3, <2>5, <2>6
<1>17. ASSUME NEW d \in Devices, NEW j \in Jobs, Learn(d, j) PROVE JobsOnward /\ TokensOnward /\ FactsOnward
  <2>0. clock \in Nat /\ \A p \in Fans : fact[p].at \in Nat
    BY DEF Rows
  <2>3. JobsOnward
    BY <1>17 DEF JobsOnward, Learn
  <2>5. TokensOnward
    BY <1>17, <2>0 DEF TokensOnward, Learn, observed
  <2>6. FactsOnward
    BY <1>17, <2>0 DEF FactsOnward, Learn, observed
  <2> QED  BY <2>3, <2>5, <2>6
<1>18. ASSUME NEW d \in Devices, NEW j \in Jobs, CompleteJob(d, j) PROVE JobsOnward /\ TokensOnward /\ FactsOnward
  <2>0. clock \in Nat /\ \A p \in Fans : fact[p].at \in Nat
    BY DEF Rows
  <2>1. job'[j] = [Vacated(job[j], "DONE") EXCEPT !.rev = @ + 1] /\ \A i \in Jobs \ {j} : job'[i] = job[i]
    BY <1>18, PutAt DEF CompleteJob
  <2>o. \A i \in Jobs \ {j} : job'[i] = job[i]
    BY <2>1
  <2>2. job'[j].status # "ABSENT"
    BY <1>18, <2>1, DoneFields DEF Rows, CompleteJob
  <2>c. created' = created
    BY <1>18 DEF CompleteJob
  <2>3. JobsOnward
    BY <2>c, <2>o, <2>2 DEF JobsOnward
  <2>5. TokensOnward
    BY <1>18, <2>0 DEF TokensOnward, CompleteJob, observed
  <2>6. FactsOnward
    BY <1>18, <2>0 DEF FactsOnward, CompleteJob, observed
  <2> QED  BY <2>3, <2>5, <2>6
<1>19. ASSUME LapseRead PROVE JobsOnward /\ TokensOnward /\ FactsOnward
  <2>0. clock \in Nat /\ \A p \in Fans : fact[p].at \in Nat
    BY DEF Rows
  <2>3. JobsOnward
    BY <1>19 DEF JobsOnward, LapseRead
  <2>5. TokensOnward
    BY <1>19, <2>0 DEF TokensOnward, LapseRead
  <2>6. FactsOnward
    BY <1>19, <2>0 DEF FactsOnward, LapseRead
  <2> QED  BY <2>3, <2>5, <2>6
<1>20. ASSUME TruthMoves PROVE JobsOnward /\ TokensOnward /\ FactsOnward
  <2>0. clock \in Nat /\ \A p \in Fans : fact[p].at \in Nat
    BY DEF Rows
  <2>3. JobsOnward
    BY <1>20 DEF JobsOnward, TruthMoves
  <2>5. TokensOnward
    BY <1>20, <2>0 DEF TokensOnward, TruthMoves
  <2>6. FactsOnward
    BY <1>20, <2>0 DEF FactsOnward, TruthMoves
  <2> QED  BY <2>3, <2>5, <2>6
<1> QED  BY <1>0, <1>1, <1>2, <1>3, <1>4, <1>5, <1>6, <1>7, <1>8, <1>9, <1>10, <1>11, <1>12, <1>13, <1>14, <1>15, <1>16, <1>17, <1>18, <1>19, <1>20 DEF Next, DeviceStep

(* No job is created ahead of the clock, and a token is younger than the   *)
(* job it was given to.                                                    *)
YoungTokens ==
  /\ \A j \in Jobs : created[j] <= clock
  /\ \A t \in tokens : job[t.job].status # "ABSENT" /\ created[t.job] < t.at

LEMMA YoungTokensInit == Init => YoungTokens
BY DEF Init, YoungTokens

LEMMA YoungTokensStep ==
  ASSUME Rows, Rows', YoungTokens, JobsOnward, TokensOnward
  PROVE  YoungTokens'
<1>0. /\ clock \in Nat /\ clock' \in Nat
      /\ \A j \in Jobs : created[j] \in Nat
  BY DEF Rows
<1>1. ASSUME NEW j \in Jobs PROVE created'[j] <= clock'
  BY <1>0 DEF YoungTokens, JobsOnward, TokensOnward
<1>2. ASSUME NEW t \in tokens' PROVE job'[t.job].status # "ABSENT" /\ created'[t.job] < t.at
  <2>0. t.job \in Jobs
    BY DEF Rows, TokenRow
  <2>1. CASE t \in tokens
    BY <2>0, <2>1 DEF YoungTokens, JobsOnward
  <2>2. CASE job[t.job].status # "ABSENT" /\ t.at = clock + 1
    <3>1. created'[t.job] = created[t.job] /\ job'[t.job].status # "ABSENT"
      BY <2>0, <2>2 DEF JobsOnward
    <3> QED  BY <1>0, <2>0, <2>2, <3>1 DEF YoungTokens
  <2> QED  BY <2>1, <2>2 DEF TokensOnward
<1> QED  BY <1>1, <1>2 DEF YoungTokens

(* Every fan a job has passed was observed since the job was created.      *)
Passed ==
  \A j \in Jobs :
    /\ job[j].status = "ABSENT" => job[j].cursor = 0
    /\ \A p \in Fans :
         p <= job[j].cursor \/ job[j].status = "DONE" => created[j] < fact[p].at

LEMMA PassedInit == Init => Passed
<1> SUFFICES ASSUME Init, NEW j \in Jobs
             PROVE  /\ job[j].status = "ABSENT" => job[j].cursor = 0
                    /\ \A p \in Fans : p <= job[j].cursor \/ job[j].status = "DONE"
                                       => created[j] < fact[p].at
  BY DEF Passed
<1>1. NoJob.cursor = 0 /\ NoJob.status # "DONE"
  BY DEF NoJob
<1>2. Begun(Spent[j]).cursor = 0 /\ Begun(Spent[j]).status # "DONE"
  BY DEF NoJob, Begun
<1>3. job[j] = NoJob \/ job[j] = Begun(Spent[j])
  BY DEF Init
<1>4. job[j].cursor = 0 /\ job[j].status # "DONE"
  BY <1>1, <1>2, <1>3
<1>5. \A p \in Fans : ~(p <= 0)
  BY LeaseAssumption DEF Fans
<1> QED  BY <1>4, <1>5

(* The steps that move no job ahead and finish none.                       *)
Steady ==
  \A i \in Jobs :
    /\ job'[i].cursor = job[i].cursor
    /\ job'[i].status = "DONE" => job[i].status = "DONE"
    /\ job'[i].status = "ABSENT" => job[i].status = "ABSENT"

LEMMA KeptPassed ==
  ASSUME Rows, Rows', Passed, JobsOnward, FactsOnward, NEW j \in Jobs, NEW p \in Fans,
         p <= job[j].cursor \/ job[j].status = "DONE"
  PROVE  created'[j] < fact'[p].at
<1>a. p \in Nat /\ p > 0
  BY LeaseAssumption DEF Fans
<1>b. job[j].cursor \in Nat
  BY LeaseAssumption DEF Rows, GoodJob, JobRow
<1>1. /\ created[j] \in Nat /\ created'[j] \in Nat
      /\ fact[p].at \in Nat /\ fact'[p].at \in Nat
  BY DEF Rows
<1>2. job[j].status # "ABSENT"
  BY <1>a, <1>b DEF Passed
<1>3. created'[j] = created[j]
  BY <1>2 DEF JobsOnward
<1> QED  BY <1>1, <1>3 DEF Passed, FactsOnward

LEMMA SteadyPassed ==
  ASSUME Rows, Rows', Passed, JobsOnward, FactsOnward, Steady
  PROVE  Passed'
<1>1. ASSUME NEW j \in Jobs, job'[j].status = "ABSENT" PROVE job'[j].cursor = 0
  BY <1>1 DEF Passed, Steady
<1>2. ASSUME NEW j \in Jobs, NEW p \in Fans, p <= job'[j].cursor \/ job'[j].status = "DONE"
      PROVE  created'[j] < fact'[p].at
  BY <1>2, KeptPassed DEF Steady
<1> QED  BY <1>1, <1>2 DEF Passed

LEMMA PassedStep ==
  ASSUME Rows, Rows', NotAhead, YoungTokens, Passed, [Next]_vars
  PROVE  Passed'
<1>0. CASE UNCHANGED vars
  BY <1>0 DEF vars, Rows, Passed
<1>1. ASSUME NEW j \in Jobs, Schedule(j) PROVE Passed'
  <2>1. job'[j] = New(job[j]) /\ \A i \in Jobs \ {j} : job'[i] = job[i]
    BY <1>1, PutAt DEF Schedule
  <2>o. \A i \in Jobs \ {j} : job'[i] = job[i]
    BY <2>1
  <2>2. /\ job'[j].cursor = job[j].cursor
        /\ (job'[j].status = "DONE" => job[j].status = "DONE")
        /\ (job'[j].status = "ABSENT" => job[j].status = "ABSENT")
    BY <2>1, NewFields DEF Rows
  <2>3. Steady
    BY <2>o, <2>2 DEF Steady
  <2> QED  BY <2>3, OnwardStep, SteadyPassed
<1>2. ASSUME NEW j \in Jobs, Lapse(j) PROVE Passed'
  <2>1. job'[j] = [job[j] EXCEPT !.live = FALSE] /\ \A i \in Jobs \ {j} : job'[i] = job[i]
    BY <1>2, PutAt DEF Lapse
  <2>o. \A i \in Jobs \ {j} : job'[i] = job[i]
    BY <2>1
  <2>2. /\ job'[j].cursor = job[j].cursor
        /\ (job'[j].status = "DONE" => job[j].status = "DONE")
        /\ (job'[j].status = "ABSENT" => job[j].status = "ABSENT")
    BY <2>1, LapsedFields DEF Rows
  <2>3. Steady
    BY <2>o, <2>2 DEF Steady
  <2> QED  BY <2>3, OnwardStep, SteadyPassed
<1>3. ASSUME NEW j \in Jobs, Sweep(j) PROVE Passed'
  <2>1. job'[j] = Attempted(job[j], TRUE) /\ \A i \in Jobs \ {j} : job'[i] = job[i]
    BY <1>3, PutAt DEF Sweep
  <2>o. \A i \in Jobs \ {j} : job'[i] = job[i]
    BY <2>1
  <2>b. TRUE \in BOOLEAN
    BY <1>3
  <2>2. /\ job'[j].cursor = job[j].cursor
        /\ (job'[j].status = "DONE" => job[j].status = "DONE")
        /\ (job'[j].status = "ABSENT" => job[j].status = "ABSENT")
    BY <2>1, <2>b, AttemptedFields DEF Rows
  <2>3. Steady
    BY <2>o, <2>2 DEF Steady
  <2> QED  BY <2>3, OnwardStep, SteadyPassed
<1>4. ASSUME NEW d \in Devices, Observe(d) PROVE Passed'
  <2>3. Steady
    BY <1>4 DEF Steady, Observe
  <2> QED  BY <2>3, OnwardStep, SteadyPassed
<1>5. ASSUME NEW d \in Devices, Forget(d) PROVE Passed'
  <2>3. Steady
    BY <1>5 DEF Steady, Forget
  <2> QED  BY <2>3, OnwardStep, SteadyPassed
<1>6. ASSUME NEW d \in Devices, Crash(d) PROVE Passed'
  <2>3. Steady
    BY <1>6 DEF Steady, Crash
  <2> QED  BY <2>3, OnwardStep, SteadyPassed
<1>7. ASSUME NEW d \in Devices, NEW j \in Jobs, Claim(d, j) PROVE Passed'
  <2>1. job'[j] = Claimed(job[j], d) /\ \A i \in Jobs \ {j} : job'[i] = job[i]
    BY <1>7, PutAt DEF Claim
  <2>o. \A i \in Jobs \ {j} : job'[i] = job[i]
    BY <2>1
  <2>2. /\ job'[j].cursor = job[j].cursor
        /\ (job'[j].status = "DONE" => job[j].status = "DONE")
        /\ (job'[j].status = "ABSENT" => job[j].status = "ABSENT")
    BY <2>1, ClaimedFields DEF Rows
  <2>3. Steady
    BY <2>o, <2>2 DEF Steady
  <2> QED  BY <2>3, OnwardStep, SteadyPassed
<1>8. ASSUME NEW d \in Devices, NEW j \in Jobs, ReleaseJob(d, j) PROVE Passed'
  <2>1. job'[j] = GivenBack(job[j]) /\ \A i \in Jobs \ {j} : job'[i] = job[i]
    BY <1>8, PutAt DEF ReleaseJob
  <2>o. \A i \in Jobs \ {j} : job'[i] = job[i]
    BY <2>1
  <2>2. /\ job'[j].cursor = job[j].cursor
        /\ (job'[j].status = "DONE" => job[j].status = "DONE")
        /\ (job'[j].status = "ABSENT" => job[j].status = "ABSENT")
    BY <2>1, GivenBackFields DEF Rows
  <2>3. Steady
    BY <2>o, <2>2 DEF Steady
  <2> QED  BY <2>3, OnwardStep, SteadyPassed
<1>9. ASSUME NEW d \in Devices, NEW j \in Jobs, NEW q \in BOOLEAN, FailJob(d, j, q) PROVE Passed'
  <2>1. job'[j] = Attempted(job[j], q) /\ \A i \in Jobs \ {j} : job'[i] = job[i]
    BY <1>9, PutAt DEF FailJob
  <2>o. \A i \in Jobs \ {j} : job'[i] = job[i]
    BY <2>1
  <2>b. q \in BOOLEAN
    BY <1>9
  <2>2. /\ job'[j].cursor = job[j].cursor
        /\ (job'[j].status = "DONE" => job[j].status = "DONE")
        /\ (job'[j].status = "ABSENT" => job[j].status = "ABSENT")
    BY <2>1, <2>b, AttemptedFields DEF Rows
  <2>3. Steady
    BY <2>o, <2>2 DEF Steady
  <2> QED  BY <2>3, OnwardStep, SteadyPassed
<1>10. ASSUME NEW d \in Devices, NEW j \in Jobs, Acquire(d, j) PROVE Passed'
  <2>3. Steady
    BY <1>10 DEF Steady, Acquire
  <2> QED  BY <2>3, OnwardStep, SteadyPassed
<1>11. ASSUME NEW d \in Devices, NEW j \in Jobs, AcquireAgain(d, j) PROVE Passed'
  <2>3. Steady
    BY <1>11 DEF Steady, AcquireAgain
  <2> QED  BY <2>3, OnwardStep, SteadyPassed
<1>12. ASSUME NEW d \in Devices, NEW j \in Jobs, RenewLease(d, j) PROVE Passed'
  <2>3. Steady
    BY <1>12 DEF Steady, RenewLease
  <2> QED  BY <2>3, OnwardStep, SteadyPassed
<1>13. ASSUME NEW d \in Devices, NEW j \in Jobs, Issue(d, j) PROVE Passed'
  <2>3. Steady
    BY <1>13 DEF Steady, Issue
  <2> QED  BY <2>3, OnwardStep, SteadyPassed
<1>14. ASSUME NEW d \in Devices, NEW j \in Jobs, ReturnRead(d, j) PROVE Passed'
  <2>3. Steady
    BY <1>14 DEF Steady, ReturnRead
  <2> QED  BY <2>3, OnwardStep, SteadyPassed
<1>15. ASSUME NEW d \in Devices, NEW j \in Jobs, Store(d, j) PROVE Passed'
  <2>0. /\ job[j].cursor = hand[d].cursor /\ job[j].status = "CLAIMED"
        /\ Advanced(d, j) = [job[j] EXCEPT !.cursor = hand[d].cursor + 1]
        /\ hand[d].cursor + 1 \in Nat
    BY <1>15 DEF Store, HasNow, LeasedNow, Leased, AtCursor, Advanced, Rows, GoodHand, HandRow
  <2>1. job'[j] = Advanced(d, j) /\ \A k \in Jobs \ {j} : job'[k] = job[k]
    BY <1>15, PutAt DEF Store
  <2>2. job'[j].status = "CLAIMED" /\ job'[j].cursor = job[j].cursor + 1
    BY <2>0, <2>1, MovedFields DEF Rows
  <2>3. JobsOnward /\ FactsOnward
    BY OnwardStep
  <2>t. created' = created /\ created[j] < fact'[Target(d)].at
    <3>1. PICK t \in tokens : /\ t.job = j /\ t.fan = Target(d)
              /\ fact' = IF Newer(fact[t.fan], t)
                  THEN [fact EXCEPT ![t.fan] = [at |-> t.at, saw |-> hand[d].saw]] ELSE fact
      BY <1>15 DEF Store
    <3>2. t \in TokenRow /\ created[j] < t.at
      BY <3>1 DEF Rows, YoungTokens
    <3>3. created[j] \in Nat /\ t.at \in Nat /\ t.fan \in Fans /\ fact[t.fan].at \in Nat
      BY <3>2 DEF Rows, TokenRow
    <3>4. t.at <= fact'[t.fan].at /\ fact'[t.fan].at \in Nat
      BY <3>1, <3>3 DEF Newer, Rows
    <3>5. created' = created
      BY <1>15 DEF Store
    <3> QED  BY <3>1, <3>2, <3>3, <3>4, <3>5
  <2>4. ASSUME NEW i \in Jobs, NEW p \in Fans, p <= job'[i].cursor \/ job'[i].status = "DONE"
        PROVE  created'[i] < fact'[p].at
    <3>1. CASE i = j /\ p = job[j].cursor + 1
      BY <1>15, <2>0, <3>1, <2>t DEF Store, Target
    <3>2. CASE i # j \/ p # job[j].cursor + 1
      <4>1. p \in Nat /\ job[j].cursor \in Nat
        BY LeaseAssumption DEF Rows, Fans, GoodJob, JobRow
      <4>2. p <= job[i].cursor \/ job[i].status = "DONE"
        BY <2>1, <2>2, <2>4, <3>2, <4>1
      <4> QED  BY <2>3, <4>2, KeptPassed
    <3> QED  BY <3>1, <3>2
  <2>5. ASSUME NEW i \in Jobs, job'[i].status = "ABSENT" PROVE job'[i].cursor = 0
    BY <2>1, <2>2, <2>5 DEF Passed
  <2> QED  BY <2>4, <2>5 DEF Passed
<1>16. ASSUME NEW d \in Devices, NEW j \in Jobs, Reuse(d, j) PROVE Passed'
  <2>0. /\ job[j].cursor = hand[d].cursor /\ job[j].status = "CLAIMED"
        /\ Advanced(d, j) = [job[j] EXCEPT !.cursor = hand[d].cursor + 1]
        /\ hand[d].cursor + 1 \in Nat
    BY <1>16 DEF Reuse, HasNow, LeasedNow, Leased, AtCursor, Advanced, Rows, GoodHand, HandRow
  <2>1. job'[j] = Advanced(d, j) /\ \A k \in Jobs \ {j} : job'[k] = job[k]
    BY <1>16, PutAt DEF Reuse
  <2>2. job'[j].status = "CLAIMED" /\ job'[j].cursor = job[j].cursor + 1
    BY <2>0, <2>1, MovedFields DEF Rows
  <2>3. JobsOnward /\ FactsOnward
    BY OnwardStep
  <2>t. created[j] < fact[Target(d)].at /\ created' = created /\ fact' = fact
    BY <1>16 DEF Reuse, Fresh, observed, Rows, Fans, Target, More
  <2>4. ASSUME NEW i \in Jobs, NEW p \in Fans, p <= job'[i].cursor \/ job'[i].status = "DONE"
        PROVE  created'[i] < fact'[p].at
    <3>1. CASE i = j /\ p = job[j].cursor + 1
      BY <1>16, <2>0, <3>1, <2>t DEF Reuse, Target
    <3>2. CASE i # j \/ p # job[j].cursor + 1
      <4>1. p \in Nat /\ job[j].cursor \in Nat
        BY LeaseAssumption DEF Rows, Fans, GoodJob, JobRow
      <4>2. p <= job[i].cursor \/ job[i].status = "DONE"
        BY <2>1, <2>2, <2>4, <3>2, <4>1
      <4> QED  BY <2>3, <4>2, KeptPassed
    <3> QED  BY <3>1, <3>2
  <2>5. ASSUME NEW i \in Jobs, job'[i].status = "ABSENT" PROVE job'[i].cursor = 0
    BY <2>1, <2>2, <2>5 DEF Passed
  <2> QED  BY <2>4, <2>5 DEF Passed
<1>17. ASSUME NEW d \in Devices, NEW j \in Jobs, Learn(d, j) PROVE Passed'
  <2>3. Steady
    BY <1>17 DEF Steady, Learn
  <2> QED  BY <2>3, OnwardStep, SteadyPassed
<1>18. ASSUME NEW d \in Devices, NEW j \in Jobs, CompleteJob(d, j) PROVE Passed'
  <2>1. /\ job'[j] = [Vacated(job[j], "DONE") EXCEPT !.rev = @ + 1]
        /\ \A k \in Jobs \ {j} : job'[k] = job[k]
    BY <1>18, PutAt DEF CompleteJob
  <2>2. job'[j].status = "DONE"
    BY <2>1, DoneFields DEF Rows
  <2>3. JobsOnward /\ FactsOnward
    BY OnwardStep
  <2>4. /\ hand[d].cursor \in 0..Pages /\ job[j].cursor \in 0..Pages
        /\ ~(hand[d].cursor < Pages) /\ Has(d, j)
    BY <1>18 DEF CompleteJob, More, HasNow, LeasedNow, Has, Rows, GoodHand, HandRow, GoodJob, JobRow
  <2>5. job[j].cursor = Pages
    BY <2>4, LeaseAssumption DEF NotAhead
  <2>6. ASSUME NEW i \in Jobs, NEW p \in Fans, p <= job'[i].cursor \/ job'[i].status = "DONE"
        PROVE  created'[i] < fact'[p].at
    <3>1. p <= job[i].cursor \/ job[i].status = "DONE"
      BY <2>1, <2>5, <2>6, LeaseAssumption DEF Fans
    <3> QED  BY <2>3, <3>1, KeptPassed
  <2>7. ASSUME NEW i \in Jobs, job'[i].status = "ABSENT" PROVE job'[i].cursor = 0
    BY <2>1, <2>2, <2>7 DEF Passed
  <2> QED  BY <2>6, <2>7 DEF Passed
<1>19. ASSUME LapseRead PROVE Passed'
  <2>3. Steady
    BY <1>19 DEF Steady, LapseRead
  <2> QED  BY <2>3, OnwardStep, SteadyPassed
<1>20. ASSUME TruthMoves PROVE Passed'
  <2>3. Steady
    BY <1>20 DEF Steady, TruthMoves
  <2> QED  BY <2>3, OnwardStep, SteadyPassed
<1> QED  BY <1>0, <1>1, <1>2, <1>3, <1>4, <1>5, <1>6, <1>7, <1>8, <1>9, <1>10, <1>11, <1>12, <1>13, <1>14, <1>15, <1>16, <1>17, <1>18, <1>19, <1>20 DEF Next, DeviceStep

(* The inductive invariant of what a finished job has covered.             *)
Coverage == Ledger /\ NotAhead /\ YoungTokens /\ Passed

LEMMA CoverageStep == Coverage /\ [Next]_vars => Coverage'
<1> SUFFICES ASSUME Coverage, [Next]_vars PROVE Coverage'
  OBVIOUS
<1>1. Ledger'
  BY LedgerStep DEF Coverage
<1>2. Rows /\ Rows'
  BY <1>1 DEF Coverage, Ledger
<1>3. NotAhead'
  BY <1>2, NotAheadStep DEF Coverage
<1>4. YoungTokens'
  BY <1>2, OnwardStep, YoungTokensStep DEF Coverage
<1>5. Passed'
  BY <1>2, PassedStep DEF Coverage
<1> QED  BY <1>1, <1>3, <1>4, <1>5 DEF Coverage

LEMMA CoverageHolds == Spec => []Coverage
<1>1. Init => Coverage
  BY RowsInit, CountedInit, NotAheadInit, YoungTokensInit, PassedInit DEF Coverage, Ledger
<1> QED  BY <1>1, CoverageStep, PTL DEF Spec

(* A job that is done leaves no fan without an observation made since the  *)
(* job was created, whoever made it and however many devices the job had.  *)
THEOREM DoneJobsCover == Spec => []CoveredWhenDone
<1>1. Coverage => CoveredWhenDone
  <2> SUFFICES ASSUME Coverage, NEW j \in Jobs, job[j].status = "DONE", NEW p \in Fans
               PROVE  fact[p].at > created[j]
    BY DEF CoveredWhenDone
  <2>1. created[j] < fact[p].at
    BY DEF Coverage, Passed
  <2>2. created[j] \in Nat /\ fact[p].at \in Nat
    BY DEF Coverage, Ledger, Rows
  <2> QED  BY <2>1, <2>2
<1> QED  BY <1>1, CoverageHolds, PTL

-----------------------------------------------------------------------------
(* The order of what is seen.  Only one device holds the read lease, so of *)
(* two tokens the younger one stands for the later read, and what the      *)
(* holder of the lease has seen is no older than any token or fact.        *)
Reads(d) == hand[d].lease # 0 /\ hand[d].lease = read.id

Marks ==
  /\ \A d \in Devices :
       /\ hand[d].saw <= truth /\ hand[d].at <= clock /\ hand[d].lease <= reads
       /\ hand[d].at # 0 => hand[d].lease = 0
       /\ hand[d].lease = 0 /\ hand[d].at = 0 => hand[d].saw = 0
       /\ Reads(d) => read.device = d
  /\ read.id <= reads
  /\ \A p \in Fans : fact[p].saw <= truth

InOrder ==
  \A d, e \in Devices :
    hand[d].at # 0 /\ hand[d].at < hand[e].at => hand[d].saw <= hand[e].saw

LaterThanFacts ==
  \A d \in Devices, p \in Fans :
    fact[p].at < hand[d].at => fact[p].saw <= hand[d].saw

ReaderIsLast ==
  \A d \in Devices : Reads(d) /\ hand[d].saw # 0 =>
    /\ \A p \in Fans : fact[p].saw <= hand[d].saw
    /\ \A e \in Devices : hand[e].at # 0 => hand[e].saw <= hand[d].saw

Ordered == Marks /\ InOrder /\ LaterThanFacts /\ ReaderIsLast

(* The numbers these formulas compare.                                     *)
LEMMA Numbers ==
  ASSUME Rows
  PROVE  /\ \A d \in Devices : hand[d].saw \in Nat /\ hand[d].at \in Nat /\ hand[d].lease \in Nat
         /\ \A p \in Fans : fact[p].at \in Nat /\ fact[p].saw \in Nat
         /\ truth \in Nat /\ clock \in Nat /\ reads \in Nat /\ read.id \in Nat
BY DEF Rows, GoodHand, HandRow, ReadRow

LEMMA OrderedInit == Init => Ordered
<1> SUFFICES ASSUME Init PROVE Ordered
  OBVIOUS
<1>1. \A d \in Devices : hand[d].lease = 0 /\ hand[d].saw = 0 /\ hand[d].at = 0
  BY DEF Init, NoHand
<1>2. read.id = 0
  BY DEF Init, NoRead
<1>3. \A p \in Fans : fact[p].at = 0 /\ fact[p].saw = 0
  BY DEF Init
<1>4. truth = 1 /\ clock = 0 /\ reads = 0
  BY DEF Init
<1> QED  BY <1>1, <1>2, <1>3, <1>4 DEF Ordered, Marks, InOrder, LaterThanFacts, ReaderIsLast, Reads

(* Most steps read nothing and store nothing: they forget or go on.        *)
Quiet ==
  /\ \A e \in Devices :
       \/ /\ hand'[e].lease = hand[e].lease /\ hand'[e].saw = hand[e].saw
          /\ hand'[e].at = hand[e].at
       \/ hand'[e].lease = 0 /\ hand'[e].saw = 0 /\ hand'[e].at = 0
  /\ \/ read'.id = 0
     \/ read'.id = read.id /\ read'.device = read.device
  /\ truth <= truth' /\ clock <= clock' /\ reads' = reads /\ fact' = fact

LEMMA QuietOrdered ==
  ASSUME Rows, Rows', Ordered, Quiet
  PROVE  Ordered'
<1>0. /\ \A d \in Devices : hand[d].saw \in Nat /\ hand[d].at \in Nat /\ hand[d].lease \in Nat
      /\ \A d \in Devices : hand'[d].saw \in Nat /\ hand'[d].at \in Nat /\ hand'[d].lease \in Nat
      /\ \A p \in Fans : fact[p].at \in Nat /\ fact[p].saw \in Nat
      /\ truth \in Nat /\ clock \in Nat /\ reads \in Nat /\ read.id \in Nat
      /\ truth' \in Nat /\ clock' \in Nat
  BY Numbers DEF Rows, GoodHand, HandRow
<1>1. \A d \in Devices : Reads(d)' =>
        /\ Reads(d) /\ read'.device = read.device /\ hand'[d].saw = hand[d].saw
  BY DEF Quiet, Reads
<1>2. Marks'
  <2>1. ASSUME NEW d \in Devices
        PROVE  /\ hand'[d].saw <= truth' /\ hand'[d].at <= clock' /\ hand'[d].lease <= reads'
               /\ hand'[d].at # 0 => hand'[d].lease = 0
               /\ hand'[d].lease = 0 /\ hand'[d].at = 0 => hand'[d].saw = 0
    BY <1>0 DEF Quiet, Ordered, Marks
  <2>2. ASSUME NEW d \in Devices, Reads(d)' PROVE read'.device = d
    BY <1>1, <2>2 DEF Ordered, Marks
  <2>3. read'.id <= reads' /\ \A p \in Fans : fact'[p].saw <= truth'
    BY <1>0 DEF Quiet, Ordered, Marks
  <2> QED  BY <2>1, <2>2, <2>3 DEF Marks
<1>3. InOrder'
  BY <1>0 DEF Quiet, Ordered, InOrder
<1>4. LaterThanFacts'
  BY <1>0 DEF Quiet, Ordered, LaterThanFacts
<1>5. ReaderIsLast'
  BY <1>0, <1>1 DEF Quiet, Ordered, ReaderIsLast
<1> QED  BY <1>2, <1>3, <1>4, <1>5 DEF Ordered

LEMMA StoreOrdered ==
  ASSUME Rows, Rows', YoungTokens, Ordered, NEW d \in Devices, NEW j \in Jobs, Store(d, j)
  PROVE  Ordered' /\ \A p \in Fans : fact[p].saw <= fact'[p].saw
<1>0. /\ \A e \in Devices : hand[e].saw \in Nat /\ hand[e].at \in Nat /\ hand[e].lease \in Nat
      /\ \A p \in Fans : fact[p].at \in Nat /\ fact[p].saw \in Nat
      /\ truth \in Nat /\ clock \in Nat /\ reads \in Nat /\ read.id \in Nat
      /\ hand[d] \in GoodHand
  BY Numbers DEF Rows
<1>1. PICK t \in tokens : /\ t.at = hand[d].at /\ t.job = j
          /\ fact' = IF Newer(fact[t.fan], t)
                THEN [fact EXCEPT ![t.fan] = [at |-> t.at, saw |-> hand[d].saw]] ELSE fact
  BY DEF Store
<1>2. /\ t.fan \in Fans /\ t.at \in Nat /\ created[t.job] \in Nat /\ created[t.job] < t.at
  BY <1>1 DEF Rows, TokenRow, YoungTokens
<1>3. hand[d].at # 0 /\ hand[d].at \in Nat
  BY <1>0, <1>1, <1>2
<1>4. \A p \in Fans :
        \/ fact'[p].at = fact[p].at /\ fact'[p].saw = fact[p].saw
        \/ /\ fact[p].at < hand[d].at
           /\ fact'[p].at = hand[d].at /\ fact'[p].saw = hand[d].saw
  BY <1>0, <1>1, <1>2 DEF Newer, Rows
<1>5. /\ truth' = truth /\ clock' = clock /\ reads' = reads /\ read' = read
  BY DEF Store
<1>n. hand[d].cursor + 1 \in Nat
  BY LeaseAssumption DEF Rows, GoodHand, HandRow
<1>e. [Anew(hand[d]) EXCEPT !.cursor = @ + 1] = [Anew(hand[d]) EXCEPT !.cursor = hand[d].cursor + 1]
  BY AnewFields DEF Rows
<1>f. LET s == [Anew(hand[d]) EXCEPT !.cursor = hand[d].cursor + 1]
      IN s.lease = 0 /\ s.saw = 0 /\ s.at = 0
  BY PlacedFields, <1>n DEF Rows
<1>6. hand'[d] \in {[Anew(hand[d]) EXCEPT !.cursor = hand[d].cursor + 1], hand[d]}
      /\ \A e \in Devices \ {d} : hand'[e] = hand[e]
  BY <1>e, HeardAt DEF Store
<1>7. \A e \in Devices :
        \/ /\ hand'[e].lease = hand[e].lease /\ hand'[e].saw = hand[e].saw
           /\ hand'[e].at = hand[e].at
        \/ hand'[e].lease = 0 /\ hand'[e].saw = 0 /\ hand'[e].at = 0
  BY <1>6, <1>f
<1>8. \A p \in Fans : fact[p].saw <= fact'[p].saw
  BY <1>0, <1>4 DEF Ordered, LaterThanFacts
<1>m. Marks'
  BY <1>0, <1>4, <1>5, <1>7 DEF Ordered, Marks, Reads
<1>i. InOrder'
  BY <1>0, <1>7 DEF Ordered, InOrder
<1>l. LaterThanFacts'
  BY <1>0, <1>3, <1>4, <1>7 DEF Ordered, LaterThanFacts, InOrder
<1>9. \A e \in Devices : Reads(e)' => Reads(e) /\ hand'[e].saw = hand[e].saw
  BY <1>5, <1>7 DEF Reads
<1>r. ReaderIsLast'
  BY <1>0, <1>3, <1>4, <1>7, <1>9 DEF Ordered, ReaderIsLast
<1> QED  BY <1>8, <1>m, <1>i, <1>l, <1>r DEF Ordered

LEMMA OrderedStep ==
  ASSUME Rows, Rows', YoungTokens, Ordered, [Next]_vars
  PROVE  Ordered'
<1>0. CASE UNCHANGED vars
  BY <1>0 DEF vars, Ordered, Marks, InOrder, LaterThanFacts, ReaderIsLast, Reads
<1>1. ASSUME NEW j \in Jobs, Schedule(j) PROVE Ordered'
  <2>0. truth \in Nat /\ clock \in Nat
    BY DEF Rows
  <2>3. hand' = hand
    BY <1>1 DEF Schedule
  <2>5. read'.id = 0 \/ (read'.id = read.id /\ read'.device = read.device)
    BY <1>1 DEF Schedule, observed
  <2>6. truth <= truth' /\ clock <= clock' /\ reads' = reads /\ fact' = fact
    BY <1>1, <2>0 DEF Schedule, observed
  <2>7. Quiet
    BY <2>3, <2>5, <2>6 DEF Quiet
  <2> QED  BY <2>7, QuietOrdered
<1>2. ASSUME NEW j \in Jobs, Lapse(j) PROVE Ordered'
  <2>0. truth \in Nat /\ clock \in Nat
    BY DEF Rows
  <2>3. hand' = hand
    BY <1>2 DEF Lapse
  <2>5. read'.id = 0 \/ (read'.id = read.id /\ read'.device = read.device)
    BY <1>2 DEF Lapse, observed
  <2>6. truth <= truth' /\ clock <= clock' /\ reads' = reads /\ fact' = fact
    BY <1>2, <2>0 DEF Lapse, observed
  <2>7. Quiet
    BY <2>3, <2>5, <2>6 DEF Quiet
  <2> QED  BY <2>7, QuietOrdered
<1>3. ASSUME NEW j \in Jobs, Sweep(j) PROVE Ordered'
  <2>0. truth \in Nat /\ clock \in Nat
    BY DEF Rows
  <2>3. hand' = hand
    BY <1>3 DEF Sweep
  <2>5. read'.id = 0 \/ (read'.id = read.id /\ read'.device = read.device)
    BY <1>3 DEF Sweep, Dropped, NoRead
  <2>6. truth <= truth' /\ clock <= clock' /\ reads' = reads /\ fact' = fact
    BY <1>3, <2>0 DEF Sweep
  <2>7. Quiet
    BY <2>3, <2>5, <2>6 DEF Quiet
  <2> QED  BY <2>7, QuietOrdered
<1>4. ASSUME NEW d \in Devices, Observe(d) PROVE Ordered'
  <2>0. /\ \A e \in Devices : hand[e].saw \in Nat /\ hand[e].at \in Nat /\ hand[e].lease \in Nat
        /\ \A p \in Fans : fact[p].at \in Nat /\ fact[p].saw \in Nat
        /\ truth \in Nat /\ clock \in Nat /\ reads \in Nat /\ read.id \in Nat
        /\ hand[d] \in GoodHand
    BY Numbers DEF Rows
  <2>1. /\ hand[d].lease # 0 /\ hand[d].at = 0
        /\ read' = read /\ reads' = reads
        /\ truth' = truth /\ clock' = clock /\ fact' = fact
    BY <1>4 DEF Observe, observed, Ordered, Marks
  <2>2. LET s == [hand[d] EXCEPT !.saw = truth]
        IN s.lease = hand[d].lease /\ s.saw = truth /\ s.at = hand[d].at
    BY <2>0, SeenFields
  <2>3. hand'[d] = [hand[d] EXCEPT !.saw = truth]
        /\ \A e \in Devices \ {d} : hand'[e] = hand[e]
    BY <1>4, HeardAt DEF Observe
  <2>4. /\ hand'[d].saw = truth
        /\ \A e \in Devices : hand'[e].lease = hand[e].lease /\ hand'[e].at = hand[e].at
        /\ \A e \in Devices \ {d} : hand'[e].saw = hand[e].saw
    BY <2>2, <2>3
  <2>m. Marks'
    BY <2>0, <2>1, <2>4 DEF Ordered, Marks, Reads
  <2>i. InOrder'
    BY <2>0, <2>1, <2>4 DEF Ordered, Marks, InOrder
  <2>l. LaterThanFacts'
    BY <2>0, <2>1, <2>4 DEF Ordered, Marks, LaterThanFacts
  <2>r. ReaderIsLast'
    BY <2>0, <2>1, <2>4 DEF Ordered, Marks, Reads, ReaderIsLast
  <2> QED  BY <2>m, <2>i, <2>l, <2>r DEF Ordered
<1>5. ASSUME NEW d \in Devices, Forget(d) PROVE Ordered'
  <2>0. truth \in Nat /\ clock \in Nat
    BY DEF Rows
  <2>f. LET s == Anew(hand[d])
        IN s.lease = 0 /\ s.saw = 0 /\ s.at = 0
    BY AnewFields DEF Rows
  <2>3. hand'[d] \in {Anew(hand[d]), hand[d]} /\ \A e \in Devices \ {d} : hand'[e] = hand[e]
    BY <1>5, HeardAt DEF Forget
  <2>4. \/ /\ hand'[d].lease = hand[d].lease /\ hand'[d].saw = hand[d].saw
           /\ hand'[d].at = hand[d].at
        \/ hand'[d].lease = 0 /\ hand'[d].saw = 0 /\ hand'[d].at = 0
    BY <2>3, <2>f
  <2>5. read'.id = 0 \/ (read'.id = read.id /\ read'.device = read.device)
    BY <1>5 DEF Forget, observed
  <2>6. truth <= truth' /\ clock <= clock' /\ reads' = reads /\ fact' = fact
    BY <1>5, <2>0 DEF Forget, observed
  <2>7. Quiet
    BY <2>3, <2>4, <2>5, <2>6 DEF Quiet
  <2> QED  BY <2>7, QuietOrdered
<1>6. ASSUME NEW d \in Devices, Crash(d) PROVE Ordered'
  <2>0. truth \in Nat /\ clock \in Nat
    BY DEF Rows
  <2>f. NoHand.lease = 0 /\ NoHand.saw = 0 /\ NoHand.at = 0
    BY NoHandFields
  <2>3. hand'[d] \in {NoHand, hand[d]} /\ \A e \in Devices \ {d} : hand'[e] = hand[e]
    BY <1>6, HeardAt DEF Crash
  <2>4. \/ /\ hand'[d].lease = hand[d].lease /\ hand'[d].saw = hand[d].saw
           /\ hand'[d].at = hand[d].at
        \/ hand'[d].lease = 0 /\ hand'[d].saw = 0 /\ hand'[d].at = 0
    BY <2>3, <2>f
  <2>5. read'.id = 0 \/ (read'.id = read.id /\ read'.device = read.device)
    BY <1>6 DEF Crash
  <2>6. truth <= truth' /\ clock <= clock' /\ reads' = reads /\ fact' = fact
    BY <1>6, <2>0 DEF Crash
  <2>7. Quiet
    BY <2>3, <2>4, <2>5, <2>6 DEF Quiet
  <2> QED  BY <2>7, QuietOrdered
<1>7. ASSUME NEW d \in Devices, NEW j \in Jobs, Claim(d, j) PROVE Ordered'
  <2>0. truth \in Nat /\ clock \in Nat
    BY DEF Rows
  <2>n. job[j].rev + 1 \in Nat /\ job[j].cursor \in Nat
    BY LeaseAssumption DEF Rows, GoodJob, JobRow
  <2>f. LET s == [NoHand EXCEPT !.job = j, !.rev = job[j].rev + 1, !.cursor = job[j].cursor]
        IN s.lease = 0 /\ s.saw = 0 /\ s.at = 0
    BY HeldFields, <2>n DEF Rows
  <2>3. hand'[d] \in {[NoHand EXCEPT !.job = j, !.rev = job[j].rev + 1, !.cursor = job[j].cursor], hand[d]} /\ \A e \in Devices \ {d} : hand'[e] = hand[e]
    BY <1>7, HeardAt DEF Claim
  <2>4. \/ /\ hand'[d].lease = hand[d].lease /\ hand'[d].saw = hand[d].saw
           /\ hand'[d].at = hand[d].at
        \/ hand'[d].lease = 0 /\ hand'[d].saw = 0 /\ hand'[d].at = 0
    BY <2>3, <2>f
  <2>5. read'.id = 0 \/ (read'.id = read.id /\ read'.device = read.device)
    BY <1>7 DEF Claim, observed
  <2>6. truth <= truth' /\ clock <= clock' /\ reads' = reads /\ fact' = fact
    BY <1>7, <2>0 DEF Claim, observed
  <2>7. Quiet
    BY <2>3, <2>4, <2>5, <2>6 DEF Quiet
  <2> QED  BY <2>7, QuietOrdered
<1>8. ASSUME NEW d \in Devices, NEW j \in Jobs, ReleaseJob(d, j) PROVE Ordered'
  <2>0. truth \in Nat /\ clock \in Nat
    BY DEF Rows
  <2>f. NoHand.lease = 0 /\ NoHand.saw = 0 /\ NoHand.at = 0
    BY NoHandFields
  <2>3. hand'[d] \in {NoHand, hand[d]} /\ \A e \in Devices \ {d} : hand'[e] = hand[e]
    BY <1>8, HeardAt DEF ReleaseJob
  <2>4. \/ /\ hand'[d].lease = hand[d].lease /\ hand'[d].saw = hand[d].saw
           /\ hand'[d].at = hand[d].at
        \/ hand'[d].lease = 0 /\ hand'[d].saw = 0 /\ hand'[d].at = 0
    BY <2>3, <2>f
  <2>5. read'.id = 0 \/ (read'.id = read.id /\ read'.device = read.device)
    BY <1>8 DEF ReleaseJob, Dropped, NoRead
  <2>6. truth <= truth' /\ clock <= clock' /\ reads' = reads /\ fact' = fact
    BY <1>8, <2>0 DEF ReleaseJob
  <2>7. Quiet
    BY <2>3, <2>4, <2>5, <2>6 DEF Quiet
  <2> QED  BY <2>7, QuietOrdered
<1>9. ASSUME NEW d \in Devices, NEW j \in Jobs, NEW q \in BOOLEAN, FailJob(d, j, q) PROVE Ordered'
  <2>0. truth \in Nat /\ clock \in Nat
    BY DEF Rows
  <2>f. NoHand.lease = 0 /\ NoHand.saw = 0 /\ NoHand.at = 0
    BY NoHandFields
  <2>3. hand'[d] \in {NoHand, hand[d]} /\ \A e \in Devices \ {d} : hand'[e] = hand[e]
    BY <1>9, HeardAt DEF FailJob
  <2>4. \/ /\ hand'[d].lease = hand[d].lease /\ hand'[d].saw = hand[d].saw
           /\ hand'[d].at = hand[d].at
        \/ hand'[d].lease = 0 /\ hand'[d].saw = 0 /\ hand'[d].at = 0
    BY <2>3, <2>f
  <2>5. read'.id = 0 \/ (read'.id = read.id /\ read'.device = read.device)
    BY <1>9 DEF FailJob, Dropped, NoRead
  <2>6. truth <= truth' /\ clock <= clock' /\ reads' = reads /\ fact' = fact
    BY <1>9, <2>0 DEF FailJob
  <2>7. Quiet
    BY <2>3, <2>4, <2>5, <2>6 DEF Quiet
  <2> QED  BY <2>7, QuietOrdered
<1>10. ASSUME NEW d \in Devices, NEW j \in Jobs, Acquire(d, j) PROVE Ordered'
  <2>0. /\ \A e \in Devices : hand[e].saw \in Nat /\ hand[e].at \in Nat /\ hand[e].lease \in Nat
        /\ \A p \in Fans : fact[p].at \in Nat /\ fact[p].saw \in Nat
        /\ truth \in Nat /\ clock \in Nat /\ reads \in Nat /\ read.id \in Nat
        /\ hand[d] \in GoodHand
    BY Numbers DEF Rows
  <2>1. /\ hand[d].lease = 0 /\ hand[d].at = 0 /\ hand[d].saw = 0
        /\ read'.id = reads + 1 /\ read'.device = d /\ reads' = reads + 1
        /\ truth' = truth /\ clock' = clock /\ fact' = fact
    BY <1>10 DEF Acquire, Ordered, Marks
  <2>2. LET s == [hand[d] EXCEPT !.lease = reads + 1]
        IN s.lease = reads + 1 /\ s.saw = hand[d].saw /\ s.at = hand[d].at
    BY <2>0, ReaderFields
  <2>3. hand'[d] \in {[hand[d] EXCEPT !.lease = reads + 1], hand[d]}
        /\ \A e \in Devices \ {d} : hand'[e] = hand[e]
    BY <1>10, HeardAt DEF Acquire
  <2>4. /\ hand'[d].lease \in {0, reads + 1} /\ hand'[d].saw = 0 /\ hand'[d].at = 0
        /\ \A e \in Devices : hand'[e].saw = hand[e].saw /\ hand'[e].at = hand[e].at
        /\ \A e \in Devices \ {d} : hand'[e].lease = hand[e].lease
    BY <2>1, <2>2, <2>3
  <2>m. Marks'
    BY <2>0, <2>1, <2>4 DEF Ordered, Marks, Reads
  <2>i. InOrder'
    BY <2>0, <2>1, <2>4 DEF Ordered, Marks, InOrder
  <2>l. LaterThanFacts'
    BY <2>0, <2>1, <2>4 DEF Ordered, Marks, LaterThanFacts
  <2>r. ReaderIsLast'
    BY <2>0, <2>1, <2>4 DEF Ordered, Marks, Reads, ReaderIsLast
  <2> QED  BY <2>m, <2>i, <2>l, <2>r DEF Ordered
<1>11. ASSUME NEW d \in Devices, NEW j \in Jobs, AcquireAgain(d, j) PROVE Ordered'
  <2>0. /\ \A e \in Devices : hand[e].saw \in Nat /\ hand[e].at \in Nat /\ hand[e].lease \in Nat
        /\ \A p \in Fans : fact[p].at \in Nat /\ fact[p].saw \in Nat
        /\ truth \in Nat /\ clock \in Nat /\ reads \in Nat /\ read.id \in Nat
        /\ hand[d] \in GoodHand
    BY Numbers DEF Rows
  <2>1. /\ hand[d].lease = 0 /\ hand[d].at = 0 /\ hand[d].saw = 0
        /\ read' = read /\ read.device = d /\ reads' = reads
        /\ truth' = truth /\ clock' = clock /\ fact' = fact
    BY <1>11 DEF AcquireAgain, observed, MyRead, Ordered, Marks
  <2>2. LET s == [hand[d] EXCEPT !.lease = read.id]
        IN s.lease = read.id /\ s.saw = hand[d].saw /\ s.at = hand[d].at
    BY <2>0, ReaderFields
  <2>3. hand'[d] = [hand[d] EXCEPT !.lease = read.id]
        /\ \A e \in Devices \ {d} : hand'[e] = hand[e]
    BY <1>11, HeardAt DEF AcquireAgain
  <2>4. /\ hand'[d].lease = read.id /\ hand'[d].saw = 0 /\ hand'[d].at = 0
        /\ \A e \in Devices : hand'[e].saw = hand[e].saw /\ hand'[e].at = hand[e].at
        /\ \A e \in Devices \ {d} : hand'[e].lease = hand[e].lease
    BY <2>1, <2>2, <2>3
  <2>m. Marks'
    BY <2>0, <2>1, <2>4 DEF Ordered, Marks, Reads
  <2>i. InOrder'
    BY <2>0, <2>1, <2>4 DEF Ordered, Marks, InOrder
  <2>l. LaterThanFacts'
    BY <2>0, <2>1, <2>4 DEF Ordered, Marks, LaterThanFacts
  <2>r. ReaderIsLast'
    BY <2>0, <2>1, <2>4 DEF Ordered, Marks, Reads, ReaderIsLast
  <2> QED  BY <2>m, <2>i, <2>l, <2>r DEF Ordered
<1>12. ASSUME NEW d \in Devices, NEW j \in Jobs, RenewLease(d, j) PROVE Ordered'
  <2>0. truth \in Nat /\ clock \in Nat
    BY DEF Rows
  <2>3. hand' = hand
    BY <1>12 DEF RenewLease
  <2>5. read'.id = 0 \/ (read'.id = read.id /\ read'.device = read.device)
    BY <1>12 DEF RenewLease, Rows, ReadRow
  <2>6. truth <= truth' /\ clock <= clock' /\ reads' = reads /\ fact' = fact
    BY <1>12, <2>0 DEF RenewLease
  <2>7. Quiet
    BY <2>3, <2>5, <2>6 DEF Quiet
  <2> QED  BY <2>7, QuietOrdered
<1>13. ASSUME NEW d \in Devices, NEW j \in Jobs, Issue(d, j) PROVE Ordered'
  <2>0. /\ \A e \in Devices : hand[e].saw \in Nat /\ hand[e].at \in Nat /\ hand[e].lease \in Nat
        /\ \A p \in Fans : fact[p].at \in Nat /\ fact[p].saw \in Nat
        /\ truth \in Nat /\ clock \in Nat /\ reads \in Nat /\ read.id \in Nat
        /\ hand[d] \in GoodHand
    BY Numbers DEF Rows
  <2>1. /\ hand[d].saw # 0 /\ Reads(d) /\ read'.id = 0 /\ reads' = reads
        /\ truth' = truth /\ clock' = clock + 1 /\ fact' = fact
    BY <1>13 DEF Issue, NoRead, HoldsRead, Reads
  <2>2. LET s == [hand[d] EXCEPT !.lease = 0, !.at = clock + 1]
        IN s.lease = 0 /\ s.saw = hand[d].saw /\ s.at = clock + 1
    BY <2>0, IssuedFields
  <2>3. hand'[d] \in {[hand[d] EXCEPT !.lease = 0, !.at = clock + 1], hand[d]}
        /\ \A e \in Devices \ {d} : hand'[e] = hand[e]
    BY <1>13, HeardAt DEF Issue, Rows
  <2>4. /\ \/ hand'[d].lease = 0 /\ hand'[d].at = clock + 1
           \/ hand'[d].lease = hand[d].lease /\ hand'[d].at = hand[d].at
        /\ \A e \in Devices : hand'[e].saw = hand[e].saw
        /\ \A e \in Devices \ {d} : hand'[e].lease = hand[e].lease /\ hand'[e].at = hand[e].at
    BY <2>2, <2>3
  <2>5. /\ \A p \in Fans : fact[p].saw <= hand[d].saw
        /\ \A e \in Devices : hand[e].at # 0 => hand[e].saw <= hand[d].saw
    BY <2>1 DEF Ordered, ReaderIsLast
  <2>m. Marks'
    BY <2>0, <2>1, <2>4, <2>5 DEF Ordered, Marks, Reads
  <2>i. InOrder'
    BY <2>0, <2>1, <2>4, <2>5 DEF Ordered, Marks, InOrder
  <2>l. LaterThanFacts'
    BY <2>0, <2>1, <2>4, <2>5 DEF Ordered, Marks, LaterThanFacts
  <2>r. ReaderIsLast'
    BY <2>0, <2>1, <2>4, <2>5 DEF Ordered, Marks, Reads, ReaderIsLast
  <2> QED  BY <2>m, <2>i, <2>l, <2>r DEF Ordered
<1>14. ASSUME NEW d \in Devices, NEW j \in Jobs, ReturnRead(d, j) PROVE Ordered'
  <2>0. truth \in Nat /\ clock \in Nat
    BY DEF Rows
  <2>f. LET s == Anew(hand[d])
        IN s.lease = 0 /\ s.saw = 0 /\ s.at = 0
    BY AnewFields DEF Rows
  <2>3. hand'[d] \in {Anew(hand[d]), hand[d]} /\ \A e \in Devices \ {d} : hand'[e] = hand[e]
    BY <1>14, HeardAt DEF ReturnRead
  <2>4. \/ /\ hand'[d].lease = hand[d].lease /\ hand'[d].saw = hand[d].saw
           /\ hand'[d].at = hand[d].at
        \/ hand'[d].lease = 0 /\ hand'[d].saw = 0 /\ hand'[d].at = 0
    BY <2>3, <2>f
  <2>5. read'.id = 0 \/ (read'.id = read.id /\ read'.device = read.device)
    BY <1>14 DEF ReturnRead, NoRead
  <2>6. truth <= truth' /\ clock <= clock' /\ reads' = reads /\ fact' = fact
    BY <1>14, <2>0 DEF ReturnRead
  <2>7. Quiet
    BY <2>3, <2>4, <2>5, <2>6 DEF Quiet
  <2> QED  BY <2>7, QuietOrdered
<1>15. ASSUME NEW d \in Devices, NEW j \in Jobs, Store(d, j) PROVE Ordered'
  <2>1. Ordered' /\ \A p \in Fans : fact[p].saw <= fact'[p].saw
    BY <1>15, StoreOrdered
  <2> QED  BY <2>1
<1>16. ASSUME NEW d \in Devices, NEW j \in Jobs, Reuse(d, j) PROVE Ordered'
  <2>0. truth \in Nat /\ clock \in Nat
    BY DEF Rows
  <2>n. hand[d].cursor + 1 \in Nat
    BY LeaseAssumption DEF Rows, GoodHand, HandRow
  <2>f. LET s == [Anew(hand[d]) EXCEPT !.cursor = hand[d].cursor + 1]
        IN s.lease = 0 /\ s.saw = 0 /\ s.at = 0
    BY PlacedFields, <2>n DEF Rows
  <2>e. [Anew(hand[d]) EXCEPT !.cursor = @ + 1] = [Anew(hand[d]) EXCEPT !.cursor = hand[d].cursor + 1]
    BY AnewFields DEF Rows
  <2>3. hand'[d] \in {[Anew(hand[d]) EXCEPT !.cursor = hand[d].cursor + 1], hand[d]} /\ \A e \in Devices \ {d} : hand'[e] = hand[e]
    BY <1>16, <2>e, HeardAt DEF Reuse
  <2>4. \/ /\ hand'[d].lease = hand[d].lease /\ hand'[d].saw = hand[d].saw
           /\ hand'[d].at = hand[d].at
        \/ hand'[d].lease = 0 /\ hand'[d].saw = 0 /\ hand'[d].at = 0
    BY <2>3, <2>f
  <2>5. read'.id = 0 \/ (read'.id = read.id /\ read'.device = read.device)
    BY <1>16 DEF Reuse, observed
  <2>6. truth <= truth' /\ clock <= clock' /\ reads' = reads /\ fact' = fact
    BY <1>16, <2>0 DEF Reuse, observed
  <2>7. Quiet
    BY <2>3, <2>4, <2>5, <2>6 DEF Quiet
  <2> QED  BY <2>7, QuietOrdered
<1>17. ASSUME NEW d \in Devices, NEW j \in Jobs, Learn(d, j) PROVE Ordered'
  <2>0. truth \in Nat /\ clock \in Nat
    BY DEF Rows
  <2>n. job[j].cursor \in Nat
    BY LeaseAssumption DEF Rows, GoodJob, JobRow
  <2>f. LET s == [Anew(hand[d]) EXCEPT !.cursor = job[j].cursor]
        IN s.lease = 0 /\ s.saw = 0 /\ s.at = 0
    BY PlacedFields, <2>n DEF Rows
  <2>3. hand'[d] \in {[Anew(hand[d]) EXCEPT !.cursor = job[j].cursor], hand[d]} /\ \A e \in Devices \ {d} : hand'[e] = hand[e]
    BY <1>17, HeardAt DEF Learn
  <2>4. \/ /\ hand'[d].lease = hand[d].lease /\ hand'[d].saw = hand[d].saw
           /\ hand'[d].at = hand[d].at
        \/ hand'[d].lease = 0 /\ hand'[d].saw = 0 /\ hand'[d].at = 0
    BY <2>3, <2>f
  <2>5. read'.id = 0 \/ (read'.id = read.id /\ read'.device = read.device)
    BY <1>17 DEF Learn, observed
  <2>6. truth <= truth' /\ clock <= clock' /\ reads' = reads /\ fact' = fact
    BY <1>17, <2>0 DEF Learn, observed
  <2>7. Quiet
    BY <2>3, <2>4, <2>5, <2>6 DEF Quiet
  <2> QED  BY <2>7, QuietOrdered
<1>18. ASSUME NEW d \in Devices, NEW j \in Jobs, CompleteJob(d, j) PROVE Ordered'
  <2>0. truth \in Nat /\ clock \in Nat
    BY DEF Rows
  <2>f. NoHand.lease = 0 /\ NoHand.saw = 0 /\ NoHand.at = 0
    BY NoHandFields
  <2>3. hand'[d] \in {NoHand, hand[d]} /\ \A e \in Devices \ {d} : hand'[e] = hand[e]
    BY <1>18, HeardAt DEF CompleteJob
  <2>4. \/ /\ hand'[d].lease = hand[d].lease /\ hand'[d].saw = hand[d].saw
           /\ hand'[d].at = hand[d].at
        \/ hand'[d].lease = 0 /\ hand'[d].saw = 0 /\ hand'[d].at = 0
    BY <2>3, <2>f
  <2>5. read'.id = 0 \/ (read'.id = read.id /\ read'.device = read.device)
    BY <1>18 DEF CompleteJob, observed
  <2>6. truth <= truth' /\ clock <= clock' /\ reads' = reads /\ fact' = fact
    BY <1>18, <2>0 DEF CompleteJob, observed
  <2>7. Quiet
    BY <2>3, <2>4, <2>5, <2>6 DEF Quiet
  <2> QED  BY <2>7, QuietOrdered
<1>19. ASSUME LapseRead PROVE Ordered'
  <2>0. truth \in Nat /\ clock \in Nat
    BY DEF Rows
  <2>3. hand' = hand
    BY <1>19 DEF LapseRead
  <2>5. read'.id = 0 \/ (read'.id = read.id /\ read'.device = read.device)
    BY <1>19 DEF LapseRead, Rows, ReadRow
  <2>6. truth <= truth' /\ clock <= clock' /\ reads' = reads /\ fact' = fact
    BY <1>19, <2>0 DEF LapseRead
  <2>7. Quiet
    BY <2>3, <2>5, <2>6 DEF Quiet
  <2> QED  BY <2>7, QuietOrdered
<1>20. ASSUME TruthMoves PROVE Ordered'
  <2>0. truth \in Nat /\ clock \in Nat
    BY DEF Rows
  <2>3. hand' = hand
    BY <1>20 DEF TruthMoves
  <2>5. read'.id = 0 \/ (read'.id = read.id /\ read'.device = read.device)
    BY <1>20 DEF TruthMoves
  <2>6. truth <= truth' /\ clock <= clock' /\ reads' = reads /\ fact' = fact
    BY <1>20, <2>0 DEF TruthMoves
  <2>7. Quiet
    BY <2>3, <2>5, <2>6 DEF Quiet
  <2> QED  BY <2>7, QuietOrdered
<1> QED  BY <1>0, <1>1, <1>2, <1>3, <1>4, <1>5, <1>6, <1>7, <1>8, <1>9, <1>10, <1>11, <1>12, <1>13, <1>14, <1>15, <1>16, <1>17, <1>18, <1>19, <1>20 DEF Next, DeviceStep

(* The inductive invariant of the order of facts.                          *)
Sequence == Coverage /\ Ordered

LEMMA SequenceStep == Sequence /\ [Next]_vars => Sequence'
<1> SUFFICES ASSUME Sequence, [Next]_vars PROVE Sequence'
  OBVIOUS
<1>1. Coverage'
  BY CoverageStep DEF Sequence
<1>2. Rows /\ Rows' /\ YoungTokens /\ Ordered
  BY <1>1 DEF Sequence, Coverage, Ledger
<1>3. Ordered'
  BY <1>2, OrderedStep
<1> QED  BY <1>1, <1>3 DEF Sequence

LEMMA SequenceHolds == Spec => []Sequence
<1>1. Init => Sequence
  BY RowsInit, CountedInit, NotAheadInit, YoungTokensInit, PassedInit, OrderedInit
     DEF Sequence, Coverage, Ledger
<1> QED  BY <1>1, SequenceStep, PTL DEF Spec

LEMMA OnlyStore ==
  ASSUME [Next]_vars
  PROVE  (fact' = fact) \/ \E e \in Devices, k \in Jobs : Store(e, k)
<1>0. CASE UNCHANGED vars
  BY <1>0 DEF vars
<1>1. ASSUME NEW j \in Jobs, Schedule(j) PROVE (fact' = fact) \/ \E e \in Devices, k \in Jobs : Store(e, k)
  BY <1>1 DEF Schedule, observed
<1>2. ASSUME NEW j \in Jobs, Lapse(j) PROVE (fact' = fact) \/ \E e \in Devices, k \in Jobs : Store(e, k)
  BY <1>2 DEF Lapse, observed
<1>3. ASSUME NEW j \in Jobs, Sweep(j) PROVE (fact' = fact) \/ \E e \in Devices, k \in Jobs : Store(e, k)
  BY <1>3 DEF Sweep
<1>4. ASSUME NEW d \in Devices, Observe(d) PROVE (fact' = fact) \/ \E e \in Devices, k \in Jobs : Store(e, k)
  BY <1>4 DEF Observe, observed
<1>5. ASSUME NEW d \in Devices, Forget(d) PROVE (fact' = fact) \/ \E e \in Devices, k \in Jobs : Store(e, k)
  BY <1>5 DEF Forget, observed
<1>6. ASSUME NEW d \in Devices, Crash(d) PROVE (fact' = fact) \/ \E e \in Devices, k \in Jobs : Store(e, k)
  BY <1>6 DEF Crash
<1>7. ASSUME NEW d \in Devices, NEW j \in Jobs, Claim(d, j) PROVE (fact' = fact) \/ \E e \in Devices, k \in Jobs : Store(e, k)
  BY <1>7 DEF Claim, observed
<1>8. ASSUME NEW d \in Devices, NEW j \in Jobs, ReleaseJob(d, j) PROVE (fact' = fact) \/ \E e \in Devices, k \in Jobs : Store(e, k)
  BY <1>8 DEF ReleaseJob
<1>9. ASSUME NEW d \in Devices, NEW j \in Jobs, NEW q \in BOOLEAN, FailJob(d, j, q) PROVE (fact' = fact) \/ \E e \in Devices, k \in Jobs : Store(e, k)
  BY <1>9 DEF FailJob
<1>10. ASSUME NEW d \in Devices, NEW j \in Jobs, Acquire(d, j) PROVE (fact' = fact) \/ \E e \in Devices, k \in Jobs : Store(e, k)
  BY <1>10 DEF Acquire
<1>11. ASSUME NEW d \in Devices, NEW j \in Jobs, AcquireAgain(d, j) PROVE (fact' = fact) \/ \E e \in Devices, k \in Jobs : Store(e, k)
  BY <1>11 DEF AcquireAgain, observed
<1>12. ASSUME NEW d \in Devices, NEW j \in Jobs, RenewLease(d, j) PROVE (fact' = fact) \/ \E e \in Devices, k \in Jobs : Store(e, k)
  BY <1>12 DEF RenewLease
<1>13. ASSUME NEW d \in Devices, NEW j \in Jobs, Issue(d, j) PROVE (fact' = fact) \/ \E e \in Devices, k \in Jobs : Store(e, k)
  BY <1>13 DEF Issue
<1>14. ASSUME NEW d \in Devices, NEW j \in Jobs, ReturnRead(d, j) PROVE (fact' = fact) \/ \E e \in Devices, k \in Jobs : Store(e, k)
  BY <1>14 DEF ReturnRead
<1>15. ASSUME NEW d \in Devices, NEW j \in Jobs, Store(d, j) PROVE (fact' = fact) \/ \E e \in Devices, k \in Jobs : Store(e, k)
  BY <1>15
<1>16. ASSUME NEW d \in Devices, NEW j \in Jobs, Reuse(d, j) PROVE (fact' = fact) \/ \E e \in Devices, k \in Jobs : Store(e, k)
  BY <1>16 DEF Reuse, observed
<1>17. ASSUME NEW d \in Devices, NEW j \in Jobs, Learn(d, j) PROVE (fact' = fact) \/ \E e \in Devices, k \in Jobs : Store(e, k)
  BY <1>17 DEF Learn, observed
<1>18. ASSUME NEW d \in Devices, NEW j \in Jobs, CompleteJob(d, j) PROVE (fact' = fact) \/ \E e \in Devices, k \in Jobs : Store(e, k)
  BY <1>18 DEF CompleteJob, observed
<1>19. ASSUME LapseRead PROVE (fact' = fact) \/ \E e \in Devices, k \in Jobs : Store(e, k)
  BY <1>19 DEF LapseRead
<1>20. ASSUME TruthMoves PROVE (fact' = fact) \/ \E e \in Devices, k \in Jobs : Store(e, k)
  BY <1>20 DEF TruthMoves
<1> QED  BY <1>0, <1>1, <1>2, <1>3, <1>4, <1>5, <1>6, <1>7, <1>8, <1>9, <1>10, <1>11, <1>12, <1>13, <1>14, <1>15, <1>16, <1>17, <1>18, <1>19, <1>20 DEF Next, DeviceStep

LEMMA FactsStep ==
  ASSUME Sequence, Sequence', [Next]_vars
  PROVE  \A p \in Fans : fact'[p].saw >= fact[p].saw
<1>0. /\ Rows /\ Rows' /\ YoungTokens /\ Ordered
      /\ \A p \in Fans : fact[p].saw \in Nat
  BY Numbers DEF Sequence, Coverage, Ledger
<1>1. CASE fact' = fact
  BY <1>0, <1>1
<1>2. ASSUME NEW d \in Devices, NEW j \in Jobs, Store(d, j)
      PROVE  \A p \in Fans : fact'[p].saw >= fact[p].saw
  <2>1. \A p \in Fans : fact[p].saw <= fact'[p].saw
    BY <1>0, <1>2, StoreOrdered
  <2>2. \A p \in Fans : fact'[p].saw \in Nat
    BY <1>0 DEF Rows
  <2> QED  BY <1>0, <2>1, <2>2
<1>3. (fact' = fact) \/ \E e \in Devices, k \in Jobs : Store(e, k)
  BY OnlyStore
<1> QED  BY <1>1, <1>2, <1>3

(* What is stored of a fan never goes back to what an earlier read saw,    *)
(* however late a device stores what it read: the one read lease of the    *)
(* creator and the clock of its tokens order the reads of all devices.     *)
THEOREM LaterReadsWin == Spec => FactsMoveForward
<1>1. Sequence /\ Sequence' /\ [Next]_vars => [\A p \in Fans : fact'[p].saw >= fact[p].saw]_vars
  BY FactsStep
<1> QED  BY <1>1, SequenceHolds, PTL DEF Spec, FactsMoveForward
-----------------------------------------------------------------------------
(* Facts refreshed: what a step shows of the promise of RefreshedFacts.    *)
Planned == {j \in Jobs : job[j].status # "ABSENT"}

Complete == {j \in Jobs : job[j].status = "DONE"}

Underway == {"SCHEDULED", "CLAIMED", "FAILED"}

(* No fact was observed ahead of the clock.                                *)
FactsPast == \A p \in Fans : fact[p].at <= clock

Refreshed == Sequence /\ FactsPast

SetsKept == Planned' = Planned /\ Complete' = Complete

(* Most steps show nothing.                                                *)
Unseen == truth' = truth /\ fact' = fact /\ created' = created /\ SetsKept

LEMMA PutHidden ==
  ASSUME Rows, NEW j \in Jobs, NEW r, Put(j, r),
         job[j].status \in Underway, r.status \in Underway
  PROVE  SetsKept
<1>1. job'[j] = r /\ \A i \in Jobs \ {j} : job'[i] = job[i]
  BY PutAt
<1>2. \A i \in Jobs : /\ job'[i].status # "ABSENT" <=> job[i].status # "ABSENT"
                      /\ job'[i].status = "DONE" <=> job[i].status = "DONE"
  BY <1>1 DEF Underway
<1> QED  BY <1>2 DEF SetsKept, Planned, Complete

LEMMA SameHidden == ASSUME job' = job PROVE SetsKept
BY DEF SetsKept, Planned, Complete

LEMMA LeasedHidden ==
  ASSUME Rows, NEW d \in Devices, NEW j \in Jobs, Has(d, j) \/ HasNow(d, j)
  PROVE  job[j].status \in Underway /\ job[j] \in GoodJob
BY DEF Rows, Has, HasNow, LeasedNow, Leased, Underway

LEMMA AdvancedHidden ==
  ASSUME Rows, NEW d \in Devices, NEW j \in Jobs, HasNow(d, j), Put(j, Advanced(d, j))
  PROVE  SetsKept
<1>1. job[j].status \in Underway /\ job[j] \in GoodJob
  BY LeasedHidden
<1>2. hand[d].cursor + 1 \in Nat
  BY LeaseAssumption DEF Rows, GoodHand, HandRow
<1>3. Advanced(d, j).status \in Underway
  BY <1>1, <1>2, MovedFields DEF Advanced
<1> QED  BY <1>1, <1>3, PutHidden

LEMMA SeenSteps ==
  ASSUME Rows, [Next]_vars
  PROVE  \/ Unseen \/ TruthMoves
         \/ \E i \in Jobs : Schedule(i)
         \/ \E e \in Devices, i \in Jobs : Store(e, i) \/ CompleteJob(e, i)
<1>0. CASE UNCHANGED vars
  BY <1>0, SameHidden DEF vars, Unseen
<1>2. ASSUME NEW j \in Jobs, Lapse(j) PROVE Unseen
  <2>1. job[j].status \in Underway /\ [job[j] EXCEPT !.live = FALSE].status \in Underway
    BY <1>2, LapsedFields DEF Rows, Lapse, Lapses, Underway
  <2>2. SetsKept
    BY <1>2, <2>1, PutHidden DEF Lapse
  <2> QED  BY <1>2, <2>2 DEF Unseen, Lapse, observed
<1>3. ASSUME NEW j \in Jobs, Sweep(j) PROVE Unseen
  <2>0. TRUE \in BOOLEAN
    BY <1>3
  <2>1. job[j].status \in Underway /\ Attempted(job[j], TRUE).status \in Underway
    BY <1>3, <2>0, AttemptedFields DEF Rows, Sweep, Sweepable, Underway
  <2>2. SetsKept
    BY <1>3, <2>1, PutHidden DEF Sweep
  <2> QED  BY <1>3, <2>2 DEF Unseen, Sweep
<1>4. ASSUME NEW d \in Devices, Observe(d) PROVE Unseen
  BY <1>4, SameHidden DEF Unseen, Observe, observed
<1>5. ASSUME NEW d \in Devices, Forget(d) PROVE Unseen
  BY <1>5, SameHidden DEF Unseen, Forget, observed
<1>6. ASSUME NEW d \in Devices, Crash(d) PROVE Unseen
  BY <1>6, SameHidden DEF Unseen, Crash
<1>7. ASSUME NEW d \in Devices, NEW j \in Jobs, Claim(d, j) PROVE Unseen
  <2>1. job[j].status \in Underway /\ Claimed(job[j], d).status \in Underway
    BY <1>7, ClaimedFields DEF Rows, Claim, Claimable, Underway
  <2>2. SetsKept
    BY <1>7, <2>1, PutHidden DEF Claim
  <2> QED  BY <1>7, <2>2 DEF Unseen, Claim, observed
<1>8. ASSUME NEW d \in Devices, NEW j \in Jobs, ReleaseJob(d, j) PROVE Unseen
  <2>0. job[j].status \in Underway /\ job[j] \in GoodJob
    BY <1>8, LeasedHidden DEF ReleaseJob
  <2>1. GivenBack(job[j]).status \in Underway
    BY <2>0, GivenBackFields DEF Underway
  <2>2. SetsKept
    BY <1>8, <2>0, <2>1, PutHidden DEF ReleaseJob
  <2> QED  BY <1>8, <2>2 DEF Unseen, ReleaseJob
<1>9. ASSUME NEW d \in Devices, NEW j \in Jobs, NEW q \in BOOLEAN, FailJob(d, j, q) PROVE Unseen
  <2>0. job[j].status \in Underway /\ job[j] \in GoodJob
    BY <1>9, LeasedHidden DEF FailJob
  <2>1. Attempted(job[j], q).status \in Underway
    BY <2>0, AttemptedFields DEF Underway
  <2>2. SetsKept
    BY <1>9, <2>0, <2>1, PutHidden DEF FailJob
  <2> QED  BY <1>9, <2>2 DEF Unseen, FailJob
<1>10. ASSUME NEW d \in Devices, NEW j \in Jobs, Acquire(d, j) PROVE Unseen
  BY <1>10, SameHidden DEF Unseen, Acquire
<1>11. ASSUME NEW d \in Devices, NEW j \in Jobs, AcquireAgain(d, j) PROVE Unseen
  BY <1>11, SameHidden DEF Unseen, AcquireAgain, observed
<1>12. ASSUME NEW d \in Devices, NEW j \in Jobs, RenewLease(d, j) PROVE Unseen
  BY <1>12, SameHidden DEF Unseen, RenewLease
<1>13. ASSUME NEW d \in Devices, NEW j \in Jobs, Issue(d, j) PROVE Unseen
  BY <1>13, SameHidden DEF Unseen, Issue
<1>14. ASSUME NEW d \in Devices, NEW j \in Jobs, ReturnRead(d, j) PROVE Unseen
  BY <1>14, SameHidden DEF Unseen, ReturnRead
<1>16. ASSUME NEW d \in Devices, NEW j \in Jobs, Reuse(d, j) PROVE Unseen
  <2>1. SetsKept
    BY <1>16, AdvancedHidden DEF Reuse
  <2> QED  BY <1>16, <2>1 DEF Unseen, Reuse, observed
<1>17. ASSUME NEW d \in Devices, NEW j \in Jobs, Learn(d, j) PROVE Unseen
  BY <1>17, SameHidden DEF Unseen, Learn, observed
<1>19. ASSUME LapseRead PROVE Unseen
  BY <1>19, SameHidden DEF Unseen, LapseRead
<1> QED  BY <1>0, <1>2, <1>3, <1>4, <1>5, <1>6, <1>7, <1>8, <1>9, <1>10, <1>11, <1>12, <1>13, <1>14, <1>16, <1>17, <1>19 DEF Next, DeviceStep

(* What a store does to the facts.                                         *)
LEMMA StoreShows ==
  ASSUME Sequence, NEW d \in Devices, NEW j \in Jobs, Store(d, j)
  PROVE  /\ SetsKept /\ truth' = truth /\ created' = created /\ clock' = clock
         /\ hand[d].at <= clock
         /\ \/ fact' = fact
            \/ \E p \in Fans :
                 /\ \A q \in Fans \ {p} : fact'[q] = fact[q]
                 /\ fact[p].at < fact'[p].at /\ fact'[p].at = hand[d].at
<1>0. /\ Rows /\ Marks
      /\ \A p \in Fans : fact[p].at \in Nat
      /\ hand[d].at \in Nat
  BY Numbers DEF Sequence, Coverage, Ledger, Ordered
<1>1. SetsKept
  BY <1>0, AdvancedHidden DEF Store
<1>2. truth' = truth /\ created' = created /\ clock' = clock
  BY DEF Store
<1>3. PICK t \in tokens : /\ t.at = hand[d].at
          /\ fact' = IF Newer(fact[t.fan], t)
                THEN [fact EXCEPT ![t.fan] = [at |-> t.at, saw |-> hand[d].saw]] ELSE fact
  BY DEF Store
<1>4. t.fan \in Fans
  BY <1>0, <1>3 DEF Rows, TokenRow
<1>5. CASE Newer(fact[t.fan], t)
  <2>1. /\ \A q \in Fans \ {t.fan} : fact'[q] = fact[q]
        /\ fact'[t.fan].at = hand[d].at
    BY <1>0, <1>3, <1>4, <1>5 DEF Rows
  <2>2. fact[t.fan].at < fact'[t.fan].at
    BY <1>0, <1>3, <1>4, <1>5, <2>1 DEF Newer
  <2> QED  BY <1>0, <1>1, <1>2, <1>4, <2>1, <2>2 DEF Marks
<1>6. CASE ~Newer(fact[t.fan], t)
  BY <1>0, <1>1, <1>2, <1>3, <1>6 DEF Marks
<1> QED  BY <1>5, <1>6

LEMMA RefreshedStep == Refreshed /\ [Next]_vars => Refreshed'
<1> SUFFICES ASSUME Refreshed, [Next]_vars PROVE Refreshed'
  OBVIOUS
<1>1. Sequence /\ Sequence'
  BY SequenceStep DEF Refreshed
<1>2. Rows /\ Rows'
  BY <1>1 DEF Sequence, Coverage, Ledger
<1>3. /\ \A p \in Fans : fact[p].at \in Nat /\ fact[p].at <= clock
      /\ clock \in Nat /\ clock' \in Nat /\ clock <= clock'
  BY <1>2, OnwardStep DEF Refreshed, FactsPast, Rows, TokensOnward
<1>4. CASE fact' = fact
  BY <1>1, <1>3, <1>4 DEF Refreshed, FactsPast
<1>5. ASSUME NEW d \in Devices, NEW j \in Jobs, Store(d, j) PROVE FactsPast'
  BY <1>1, <1>3, <1>5, StoreShows DEF FactsPast
<1> QED  BY <1>1, <1>4, <1>5, OnlyStore DEF Refreshed

LEMMA RefreshedHolds == Spec => []Refreshed
<1>1. Init => Refreshed
  <2> SUFFICES ASSUME Init PROVE Refreshed
    OBVIOUS
  <2>1. Sequence
    BY RowsInit, CountedInit, NotAheadInit, YoungTokensInit, PassedInit, OrderedInit
       DEF Sequence, Coverage, Ledger
  <2> QED  BY <2>1 DEF Refreshed, FactsPast, Init
<1> QED  BY <1>1, RefreshedStep, PTL DEF Spec

(* Each step is one of the promise or shows nothing.                       *)
LEMMA UnseenStutters == ASSUME Unseen PROVE UNCHANGED Promise!vars
BY DEF Unseen, SetsKept, Planned, Complete, Promise!vars

LEMMA TruthMovesChanges == ASSUME TruthMoves PROVE Promise!Change
BY DEF TruthMoves, Promise!Change

LEMMA ScheduleAsks ==
  ASSUME Refreshed, Rows', NEW j \in Jobs, Schedule(j)
  PROVE  Promise!Ask(j)
<1>0. Rows /\ FactsPast
  BY DEF Refreshed, Sequence, Coverage, Ledger
<1>1. job[j].status = "ABSENT" /\ created' = [created EXCEPT ![j] = clock]
      /\ truth' = truth /\ fact' = fact
  BY DEF Schedule, observed
<1>2. job'[j] = New(job[j]) /\ \A i \in Jobs \ {j} : job'[i] = job[i]
  BY <1>0, PutAt DEF Schedule
<1>3. job'[j].status = "SCHEDULED"
  BY <1>0, <1>2, NewFields DEF Rows
<1>4. /\ j \notin Planned /\ Planned' = Planned \cup {j} /\ Complete' = Complete
  BY <1>1, <1>2, <1>3 DEF Planned, Complete
<1>5. /\ created' \in [Jobs -> Nat] /\ created'[j] = clock
      /\ \A i \in Jobs \ {j} : created'[i] = created[i]
  BY <1>0, <1>1 DEF Rows
<1> QED  BY <1>0, <1>1, <1>4, <1>5 DEF Promise!Ask, Planned, Complete, FactsPast

LEMMA StoreLearns ==
  ASSUME Refreshed, Sequence', NEW d \in Devices, NEW j \in Jobs, Store(d, j)
  PROVE  (\E p \in Fans : Promise!Learn(p)) \/ UNCHANGED Promise!vars
<1>0. /\ Sequence /\ Rows' /\ Rows /\ YoungTokens /\ Ordered /\ Marks'
  BY DEF Refreshed, Sequence, Coverage, Ledger, Ordered
<1>1. \A p \in Fans : fact[p].saw <= fact'[p].saw
  BY <1>0, StoreOrdered
<1>2. /\ SetsKept /\ truth' = truth /\ created' = created
      /\ \/ fact' = fact
         \/ \E p \in Fans : /\ \A q \in Fans \ {p} : fact'[q] = fact[q]
                            /\ fact[p].at < fact'[p].at
  BY <1>0, StoreShows
<1>3. CASE fact' = fact
  BY <1>2, <1>3, UnseenStutters DEF Unseen
<1>4. ASSUME NEW p \in Fans, \A q \in Fans \ {p} : fact'[q] = fact[q],
             fact[p].at < fact'[p].at
      PROVE  Promise!Learn(p)
  <2>1. fact' \in [Fans -> [at : Nat, saw : Nat]] /\ fact'[p].saw <= truth
    BY <1>0, <1>2 DEF Rows, Marks
  <2> QED  BY <1>1, <1>2, <1>4, <2>1 DEF Promise!Learn, SetsKept, Planned, Complete
<1> QED  BY <1>2, <1>3, <1>4

LEMMA CompleteFinishes ==
  ASSUME Refreshed, Sequence', NEW d \in Devices, NEW j \in Jobs, CompleteJob(d, j)
  PROVE  Promise!Finish(j)
<1>0. /\ Rows /\ Rows' /\ Passed'
  BY DEF Refreshed, Sequence, Coverage, Ledger
<1>1. job[j].status \in Underway /\ job[j] \in GoodJob
  BY <1>0, LeasedHidden DEF CompleteJob
<1>2. job'[j] = [Vacated(job[j], "DONE") EXCEPT !.rev = @ + 1]
      /\ \A i \in Jobs \ {j} : job'[i] = job[i]
  BY <1>0, PutAt DEF CompleteJob
<1>3. job'[j].status = "DONE"
  BY <1>1, <1>2, DoneFields
<1>4. truth' = truth /\ fact' = fact /\ created' = created
  BY DEF CompleteJob, observed
<1>5. /\ j \in Planned \ Complete /\ Planned' = Planned /\ Complete' = Complete \cup {j}
  BY <1>1, <1>2, <1>3 DEF Planned, Complete, Underway
<1>6. \A p \in Fans : created[j] < fact[p].at
  BY <1>0, <1>3, <1>4 DEF Passed
<1> QED  BY <1>4, <1>5, <1>6 DEF Promise!Finish, Planned, Complete

(* Whatever the devices do, refreshing is Promised: a fact is only         *)
(* replaced by what was observed and seen later, and a job is only done    *)
(* when every fan was observed since the job was planned.                  *)
THEOREM Implements == Spec => Promised
<1>1. Init => Promise!Init
  <2> SUFFICES ASSUME Init PROVE Promise!Init
    OBVIOUS
  <2>1. \A j \in Jobs : NoJob.status = "ABSENT" /\ Begun(Spent[j]).status = "SCHEDULED"
    BY DEF NoJob, Begun
  <2>2. {j \in Jobs : job[j].status = "DONE"} = {}
    BY <2>1 DEF Init
  <2> QED  BY <2>2 DEF Init, Promise!Init
<1>2. Refreshed /\ Refreshed' /\ [Next]_vars => [Promise!Next]_(Promise!vars)
  <2> SUFFICES ASSUME Refreshed, Refreshed', [Next]_vars
               PROVE  Promise!Next \/ UNCHANGED Promise!vars
    OBVIOUS
  <2>1. Rows /\ Rows' /\ Sequence'
    BY DEF Refreshed, Sequence, Coverage, Ledger
  <2>2. CASE Unseen
    BY <2>2, UnseenStutters
  <2>3. CASE TruthMoves
    BY <2>3, TruthMovesChanges DEF Promise!Next
  <2>4. ASSUME NEW j \in Jobs, Schedule(j) PROVE Promise!Next
    BY <2>1, <2>4, ScheduleAsks DEF Promise!Next
  <2>5. ASSUME NEW d \in Devices, NEW j \in Jobs, Store(d, j)
        PROVE  Promise!Next \/ UNCHANGED Promise!vars
    BY <2>1, <2>5, StoreLearns DEF Promise!Next
  <2>6. ASSUME NEW d \in Devices, NEW j \in Jobs, CompleteJob(d, j) PROVE Promise!Next
    BY <2>1, <2>6, CompleteFinishes DEF Promise!Next
  <2> QED  BY <2>1, <2>2, <2>3, <2>4, <2>5, <2>6, SeenSteps
<1> QED  BY <1>1, <1>2, RefreshedHolds, PTL DEF Spec, Promised, Promise!Spec
=============================================================================
