------------------------ MODULE SubscriberScanProofs ------------------------
(***************************************************************************)
(* Proofs about SubscriberScan.  The state of one generation is a pair of  *)
(* rows, its job's and its run's; Fits says what holds of such a pair, and *)
(* every step of the program is shown to lead from pairs that fit to pairs *)
(* that fit.  Alarm says what the signal row owes to what is unpublished.  *)
(***************************************************************************)
EXTENDS SubscriberScan, TLAPS

-----------------------------------------------------------------------------
(* Types.                                                                  *)
GoodJob == {r \in JobRow : r.status = "CLAIMED" => r.attempts < MaxAttempts}

Rows ==
  /\ job \in [Jobs -> GoodJob]
  /\ hand \in [Devices -> [job : Jobs \cup {None}, rev : Nat]]
  /\ run \in [Jobs -> RunRow]
  /\ allocated \in 0..Gens /\ published \in 0..allocated
  /\ signal \in [here : BOOLEAN, owner : Workers \cup {None}, live : BOOLEAN]
  /\ serve \in [Devices -> ServeRow]
  /\ worker \in [Workers -> WorkerRow]
  /\ \A d \in Devices : serve[d].at # "none" => serve[d].job \in Jobs
  /\ \A w \in Workers : worker[w].at \in {"step", "reconcile"} => worker[w].gen \in Jobs

LEMMA NoJobType == NoJob \in GoodJob /\ New(NoJob) \in GoodJob
<1>1. 0 \in 0..MaxAttempts
  BY LeaseAssumption
<1>2. NoJob \in GoodJob
  BY <1>1 DEF GoodJob, JobRow, NoJob
<1>3. \A r \in GoodJob : New(r) \in GoodJob
  BY DEF GoodJob, JobRow, New
<1> QED  BY <1>2, <1>3

LEMMA ClaimedType ==
  \A r \in GoodJob, d \in Devices : Claimable(r) => Claimed(r, d) \in GoodJob
<1> SUFFICES ASSUME NEW r \in GoodJob, NEW d \in Devices, Claimable(r)
             PROVE  Claimed(r, d) \in GoodJob
  OBVIOUS
<1>1. r.rev + 1 \in Nat
  BY DEF GoodJob, JobRow
<1> QED  BY <1>1 DEF Claimable, Claimed, GoodJob, JobRow

LEMMA AttemptedType ==
  \A r \in GoodJob, q \in BOOLEAN : r.status = "CLAIMED" => Attempted(r, q) \in GoodJob
<1> SUFFICES ASSUME NEW r \in GoodJob, NEW q \in BOOLEAN, r.status = "CLAIMED"
             PROVE  Attempted(r, q) \in GoodJob
  OBVIOUS
<1>1. r.attempts + 1 \in 0..MaxAttempts
  BY LeaseAssumption DEF GoodJob, JobRow
<1> QED  BY <1>1 DEF Attempted, Vacated, GoodJob, JobRow

LEMMA LapsedType == \A r \in GoodJob : [r EXCEPT !.live = FALSE] \in GoodJob
BY DEF GoodJob, JobRow

LEMMA PagedType == \A r \in GoodJob : [r EXCEPT !.attempts = 0] \in GoodJob
BY LeaseAssumption DEF GoodJob, JobRow

LEMMA ReservedType == \A r \in GoodJob : [r EXCEPT !.rev = @ + 1] \in GoodJob
<1> SUFFICES ASSUME NEW r \in GoodJob PROVE [r EXCEPT !.rev = @ + 1] \in GoodJob
  OBVIOUS
<1>1. r.rev + 1 \in Nat
  BY DEF GoodJob, JobRow
<1> QED  BY <1>1 DEF GoodJob, JobRow

LEMMA VacatedType ==
  \A r \in GoodJob, s \in {"PUBLISHING", "DONE"} : Vacated(r, s) \in GoodJob
BY DEF GoodJob, JobRow, Vacated

LEMMA MovesType ==
  ASSUME Rows, NEW w \in Workers, NEW at \in {"idle", "step", "reconcile", "ack"},
         NEW g \in Jobs \cup {None}, at \in {"step", "reconcile"} => g \in Jobs,
         Moves(w, at, g)
  PROVE  /\ worker' \in [Workers -> WorkerRow]
         /\ \A v \in Workers : worker'[v].at \in {"step", "reconcile"} => worker'[v].gen \in Jobs
<1>1. [at |-> at, gen |-> g] \in WorkerRow
  BY DEF WorkerRow
<1>2. /\ worker'[w] = [at |-> at, gen |-> g]
      /\ \A v \in Workers \ {w} : worker'[v] = worker[v]
  BY DEF Rows, Moves
<1> QED  BY <1>1, <1>2 DEF Rows, Moves

(* The rows of a run.                                                      *)
LEMMA NoRunType == NoRun \in RunRow /\ [NoRun EXCEPT !.status = "QUEUED"] \in RunRow
<1>1. 0 \in 0..Pages
  BY LeaseAssumption
<1>2. NoRun \in RunRow
  BY <1>1 DEF RunRow, NoRun
<1>3. \A r \in RunRow : [r EXCEPT !.status = "QUEUED"] \in RunRow
  BY DEF RunRow
<1> QED  BY <1>2, <1>3

LEMMA PageType ==
  \A r \in RunRow : ~Collected(r) => [r EXCEPT !.status = "RUNNING", !.pages = @ + 1] \in RunRow
<1> SUFFICES ASSUME NEW r \in RunRow, ~Collected(r)
             PROVE  [r EXCEPT !.status = "RUNNING", !.pages = @ + 1] \in RunRow
  OBVIOUS
<1>1. r.pages + 1 \in 0..Pages
  BY LeaseAssumption DEF RunRow, Collected
<1> QED  BY <1>1 DEF RunRow

LEMMA StatusType ==
  \A r \in RunRow, s \in {"FAILED", "RUNNING", "SUPERSEDED"} : [r EXCEPT !.status = s] \in RunRow
BY DEF RunRow

LEMMA PhaseType ==
  \A r \in RunRow :
    /\ [r EXCEPT !.status = "PUBLISHED", !.phase = "COMPLETE"] \in RunRow
    /\ [r EXCEPT !.reconciled = TRUE] \in RunRow
BY DEF RunRow

-----------------------------------------------------------------------------
(* What holds of the job r and the run q of generation g when a is the     *)
(* last generation planned.                                                *)
Fits(g, r, q, a) ==
  /\ g > a => r.status = "ABSENT" /\ q.status = "ABSENT" /\ q.pages = 0 /\ ~q.reconciled
  /\ Active(q) => g = a
  /\ r.status \in {"SCHEDULED", "CLAIMED"} /\ ~Collected(q) => Active(q)
  /\ Closed(q) => Collected(q)
  /\ Collected(q) => Active(q) \/ Closed(q)
  /\ (r.status = "DONE") <=> q.reconciled
  /\ q.reconciled => Closed(q)
  /\ g < a /\ Collected(q) => q.reconciled
  /\ Active(q) /\ ~Collected(q) => r.status = "CLAIMED" \/ Claimable(r)

LEMMA FitsClaimed ==
  \A g \in Jobs, a \in Nat, r \in GoodJob, q \in RunRow, d \in Devices :
    Fits(g, r, q, a) /\ Claimable(r) => Fits(g, Claimed(r, d), q, a)
<1> SUFFICES ASSUME NEW g \in Jobs, NEW a \in Nat, NEW r \in GoodJob, NEW q \in RunRow,
                    NEW d \in Devices, Fits(g, r, q, a), Claimable(r)
             PROVE  Fits(g, Claimed(r, d), q, a)
  OBVIOUS
<1>1. Claimed(r, d).status = "CLAIMED" /\ r.status = "SCHEDULED"
  BY DEF GoodJob, JobRow, Claimed, Claimable
<1> QED  BY <1>1 DEF Fits

LEMMA FitsSame ==
  \A g \in Jobs, a \in Nat, r \in GoodJob, s \in GoodJob, q \in RunRow :
    Fits(g, r, q, a) /\ s.status = r.status /\ (r.status = "CLAIMED" \/ s.attempts = r.attempts)
      => Fits(g, s, q, a)
BY DEF Fits, Claimable

LEMMA FitsPage ==
  \A g \in Jobs, a \in Nat, r \in GoodJob, q \in RunRow :
    Fits(g, r, q, a) /\ r.status = "CLAIMED" /\ Active(q) /\ ~Collected(q)
      => Fits(g, [r EXCEPT !.attempts = 0], [q EXCEPT !.status = "RUNNING", !.pages = @ + 1], a)
<1> SUFFICES ASSUME NEW g \in Jobs, NEW a \in Nat, NEW r \in GoodJob, NEW q \in RunRow,
                    Fits(g, r, q, a), r.status = "CLAIMED", Active(q), ~Collected(q)
             PROVE  Fits(g, [r EXCEPT !.attempts = 0],
                         [q EXCEPT !.status = "RUNNING", !.pages = @ + 1], a)
  OBVIOUS
<1> DEFINE s == [r EXCEPT !.attempts = 0]
           p == [q EXCEPT !.status = "RUNNING", !.pages = @ + 1]
<1>1. s.status = "CLAIMED"
  BY DEF GoodJob, JobRow
<1>2. p.status = "RUNNING" /\ p.reconciled = q.reconciled
  BY DEF RunRow
<1>3. g = a /\ ~q.reconciled
  BY DEF Fits, Active, Closed
<1>4. g \in Nat
  BY ScanAssumption
<1> HIDE DEF s, p
<1>5. Fits(g, s, p, a)
  BY <1>1, <1>2, <1>3, <1>4 DEF Fits, Active, Closed
<1> QED  BY <1>5 DEF s, p

(* An attempt ends: the run fails with its job, unless it is collected.    *)
LEMMA FitsAttempted ==
  \A g \in Jobs, a \in Nat, r \in GoodJob, q \in RunRow, b \in BOOLEAN :
    Fits(g, r, q, a) /\ r.status = "CLAIMED" =>
      /\ Collected(q) => Fits(g, Attempted(r, b), q, a)
      /\ ~Collected(q) =>
           Fits(g, Attempted(r, b),
                [q EXCEPT !.status = IF Terminal(r, b) THEN "FAILED" ELSE "RUNNING"], a)
<1> SUFFICES ASSUME NEW g \in Jobs, NEW a \in Nat, NEW r \in GoodJob, NEW q \in RunRow,
                    NEW b \in BOOLEAN, Fits(g, r, q, a), r.status = "CLAIMED"
             PROVE  /\ Collected(q) => Fits(g, Attempted(r, b), q, a)
                    /\ ~Collected(q) =>
                         Fits(g, Attempted(r, b),
                              [q EXCEPT !.status = IF Terminal(r, b) THEN "FAILED" ELSE "RUNNING"], a)
  OBVIOUS
<1> DEFINE s == Attempted(r, b)
           p == [q EXCEPT !.status = IF Terminal(r, b) THEN "FAILED" ELSE "RUNNING"]
<1>0. g \in Nat /\ r.attempts \in Nat /\ MaxAttempts \in Nat
  BY ScanAssumption, LeaseAssumption DEF GoodJob, JobRow
<1>1. /\ Terminal(r, b) => s.status = "FAILED"
      /\ ~Terminal(r, b) => s.status = "SCHEDULED" /\ s.attempts = r.attempts + 1
  BY DEF GoodJob, JobRow, Attempted, Vacated
<1>2. ~Terminal(r, b) => r.attempts + 1 < MaxAttempts
  BY <1>0 DEF Terminal
<1>3. /\ p.status = IF Terminal(r, b) THEN "FAILED" ELSE "RUNNING"
      /\ p.pages = q.pages /\ p.reconciled = q.reconciled
  BY DEF RunRow
<1>4. ~q.reconciled /\ ~(g > a)
  BY DEF Fits
<1>5. s.status \in {"FAILED", "SCHEDULED"}
  BY <1>1
<1> HIDE DEF s, p
<1>6. ASSUME Collected(q) PROVE Fits(g, s, q, a)
  BY <1>4, <1>5, <1>6 DEF Fits
<1>7. ASSUME ~Collected(q) PROVE Fits(g, s, p, a)
  <2>1. g = a
    BY <1>7 DEF Fits
  <2>2. ~Collected(p)
    BY <1>3, <1>7 DEF Collected
  <2>3. CASE Terminal(r, b)
    BY <1>1, <1>3, <1>4, <2>1, <2>2, <2>3 DEF Fits, Active, Closed
  <2>4. CASE ~Terminal(r, b)
    <3>1. Claimable(s)
      BY <1>1, <1>2, <2>4 DEF Claimable
    <3> QED  BY <1>1, <1>3, <1>4, <2>1, <2>2, <2>4, <3>1 DEF Fits, Active, Closed
  <2> QED  BY <2>3, <2>4
<1> QED  BY <1>6, <1>7 DEF s, p

LEMMA FitsHandoff ==
  \A g \in Jobs, a \in Nat, r \in GoodJob, q \in RunRow :
    Fits(g, r, q, a) /\ r.status = "CLAIMED" /\ Collected(q)
      => Fits(g, Vacated(r, "PUBLISHING"), q, a)
<1> SUFFICES ASSUME NEW g \in Jobs, NEW a \in Nat, NEW r \in GoodJob, NEW q \in RunRow,
                    Fits(g, r, q, a), r.status = "CLAIMED", Collected(q)
             PROVE  Fits(g, Vacated(r, "PUBLISHING"), q, a)
  OBVIOUS
<1>1. Vacated(r, "PUBLISHING").status = "PUBLISHING"
  BY DEF GoodJob, JobRow, Vacated
<1> QED  BY <1>1 DEF Fits

LEMMA FitsDone ==
  \A g \in Jobs, a \in Nat, r \in GoodJob, q \in RunRow :
    Fits(g, r, q, a) /\ Closed(q)
      => Fits(g, Vacated(r, "DONE"), [q EXCEPT !.reconciled = TRUE], a)
<1> SUFFICES ASSUME NEW g \in Jobs, NEW a \in Nat, NEW r \in GoodJob, NEW q \in RunRow,
                    Fits(g, r, q, a), Closed(q)
             PROVE  Fits(g, Vacated(r, "DONE"), [q EXCEPT !.reconciled = TRUE], a)
  OBVIOUS
<1> DEFINE s == Vacated(r, "DONE")
           p == [q EXCEPT !.reconciled = TRUE]
<1>1. s.status = "DONE"
  BY DEF GoodJob, JobRow, Vacated
<1>2. p.status = q.status /\ p.pages = q.pages /\ p.reconciled
  BY DEF RunRow
<1> HIDE DEF s, p
<1>3. Fits(g, s, p, a)
  BY <1>1, <1>2 DEF Fits, Active, Closed, Collected
<1> QED  BY <1>3 DEF s, p

LEMMA FitsPhase ==
  \A g \in Jobs, a \in Nat, r \in GoodJob, q, p \in RunRow :
    /\ Fits(g, r, q, a) /\ p.pages = q.pages /\ p.reconciled = q.reconciled
    /\ \/ p.status = q.status
       \/ Collected(q) /\ p.status \in {"PUBLISHED", "SUPERSEDED"} /\ ~(g > a)
    => Fits(g, r, p, a)
BY DEF Fits, Active, Closed, Collected

Pairs == \A g \in Jobs : Fits(g, job[g], run[g], allocated)


LEMMA PairsKept ==
  ASSUME Pairs, NEW k \in Jobs, allocated' = allocated,
         \A i \in Jobs \ {k} : job'[i] = job[i] /\ run'[i] = run[i],
         Fits(k, job'[k], run'[k], allocated)
  PROVE  Pairs'
BY DEF Pairs

LEMMA PairsSame ==
  ASSUME Pairs, job' = job, run' = run, allocated' = allocated
  PROVE  Pairs'
BY DEF Pairs

(* One phase of a publication.                                             *)
LEMMA AdvanceRuns ==
  ASSUME Rows, NEW g \in Jobs, Advance(g)
  PROVE  /\ run' \in [Jobs -> RunRow] /\ published' \in 0..allocated
         /\ \A i \in Jobs :
              /\ run'[i].pages = run[i].pages /\ run'[i].reconciled = run[i].reconciled
              /\ \/ run'[i].status = run[i].status
                 \/ /\ run'[i].status \in {"PUBLISHED", "SUPERSEDED"}
                    /\ \/ i = allocated /\ Collected(run[i])
                       \/ run[i].status = "PUBLISHED"
<1>0. run[g] \in RunRow
  BY DEF Rows
<1>1. CASE run' = run /\ published' = published
  BY <1>1 DEF Rows
<1>2. CASE run' = [run EXCEPT ![g].phase = NextPhase(@)] /\ published' = published
  <2>1. [run[g] EXCEPT !.phase = NextPhase(@)] \in RunRow
    BY <1>0 DEF RunRow, NextPhase
  <2>2. LET p == [run[g] EXCEPT !.phase = NextPhase(@)]
        IN /\ p.pages = run[g].pages /\ p.reconciled = run[g].reconciled
           /\ p.status = run[g].status
    BY <1>0 DEF RunRow
  <2>3. /\ run'[g] = [run[g] EXCEPT !.phase = NextPhase(@)]
        /\ \A i \in Jobs \ {g} : run'[i] = run[i]
    BY <1>2 DEF Rows
  <2>4. run' \in [Jobs -> RunRow]
    BY <1>2, <2>1 DEF Rows
  <2> QED  BY <1>2, <2>2, <2>3, <2>4 DEF Rows
<1>3. CASE /\ run' = Finalized(g) /\ published' = g /\ allocated = g
           /\ Collected(run[g]) /\ ~Closed(run[g])
  <2>1. ASSUME NEW i \in Jobs
        PROVE  /\ run'[i] \in RunRow
               /\ run'[i].pages = run[i].pages /\ run'[i].reconciled = run[i].reconciled
               /\ \/ run'[i].status = run[i].status
                  \/ /\ run'[i].status \in {"PUBLISHED", "SUPERSEDED"}
                     /\ \/ i = allocated /\ Collected(run[i])
                        \/ run[i].status = "PUBLISHED"
    <3>0. run[i] \in RunRow
      BY DEF Rows
    <3>1. CASE i = g
      <4>0. run[i].status # "PUBLISHED"
        BY <1>3, <3>1 DEF Closed
      <4>1. run'[i] = [run[i] EXCEPT !.status = "PUBLISHED", !.phase = "COMPLETE"]
        BY <1>3, <3>1, <4>0 DEF Finalized
      <4>2. /\ run'[i].pages = run[i].pages /\ run'[i].reconciled = run[i].reconciled
            /\ run'[i].status = "PUBLISHED" /\ run'[i] \in RunRow
        BY <3>0, <4>1 DEF RunRow
      <4> QED  BY <1>3, <3>1, <4>2
    <3>2. CASE i # g /\ i = published /\ run[i].status = "PUBLISHED"
      <4>1. run'[i] = [run[i] EXCEPT !.status = "SUPERSEDED"]
        BY <1>3, <3>2 DEF Finalized
      <4>2. /\ run'[i].pages = run[i].pages /\ run'[i].reconciled = run[i].reconciled
            /\ run'[i].status = "SUPERSEDED" /\ run'[i] \in RunRow
        BY <3>0, <4>1 DEF RunRow
      <4> QED  BY <3>2, <4>2
    <3>3. CASE i # g /\ ~(i = published /\ run[i].status = "PUBLISHED")
      <4>1. run'[i] = run[i]
        BY <1>3, <3>3 DEF Finalized
      <4> QED  BY <3>0, <4>1
    <3> QED  BY <3>1, <3>2, <3>3
  <2>2. run' \in [Jobs -> RunRow]
    BY <1>3, <2>1 DEF Finalized
  <2>3. published' \in 0..allocated
    BY <1>3, ScanAssumption
  <2> QED  BY <2>1, <2>2, <2>3
<1> QED  BY <1>1, <1>2, <1>3 DEF Advance

LEMMA AdvancePairs ==
  ASSUME Rows, Pairs, NEW g \in Jobs, Advance(g), job' = job, allocated' = allocated
  PROVE  Pairs'
<1> SUFFICES ASSUME NEW i \in Jobs PROVE Fits(i, job[i], run'[i], allocated)
  BY DEF Pairs
<1>1. Fits(i, job[i], run[i], allocated)
  BY DEF Pairs
<1>2. /\ job[i] \in GoodJob /\ run[i] \in RunRow /\ run'[i] \in RunRow /\ allocated \in Nat
      /\ i \in Nat
  BY AdvanceRuns, ScanAssumption DEF Rows
<1>3. /\ run'[i].pages = run[i].pages /\ run'[i].reconciled = run[i].reconciled
      /\ \/ run'[i].status = run[i].status
         \/ Collected(run[i]) /\ run'[i].status \in {"PUBLISHED", "SUPERSEDED"} /\ ~(i > allocated)
  <2>1. run[i].status = "PUBLISHED" => Collected(run[i]) /\ ~(i > allocated)
    BY <1>1 DEF Fits, Closed
  <2>2. i = allocated => ~(i > allocated)
    BY <1>2
  <2> QED  BY <2>1, <2>2, AdvanceRuns
<1> QED  BY <1>1, <1>2, <1>3, FitsPhase

(* A run that is closed stays closed.                                      *)
LEMMA AdvanceCloses ==
  ASSUME Rows, NEW g \in Jobs, Advance(g)
  PROVE  \A i \in Jobs : Closed(run[i]) => Closed(run'[i])
BY AdvanceRuns DEF Closed

(* What a failure does to the run.                                         *)
LEMMA FailureRuns ==
  ASSUME Rows, NEW j \in Jobs, NEW t \in BOOLEAN, Failure(j, t)
  PROVE  /\ run' \in [Jobs -> RunRow]
         /\ \A i \in Jobs \ {j} : run'[i] = run[i]
         /\ Collected(run[j]) => run'[j] = run[j]
         /\ ~Collected(run[j]) =>
              run'[j] = [run[j] EXCEPT !.status = IF t THEN "FAILED" ELSE "RUNNING"]
<1>1. CASE Collected(run[j])
  BY <1>1 DEF Failure, Rows
<1>2. CASE ~Collected(run[j])
  <2>1. run' = [run EXCEPT ![j].status = IF t THEN "FAILED" ELSE "RUNNING"]
    BY <1>2 DEF Failure
  <2>2. [run[j] EXCEPT !.status = IF t THEN "FAILED" ELSE "RUNNING"] \in RunRow
    BY StatusType DEF Rows
  <2> QED  BY <1>2, <2>1, <2>2 DEF Rows
<1> QED  BY <1>1, <1>2

LEMMA FailurePairs ==
  ASSUME Rows, Pairs, NEW j \in Jobs, NEW b \in BOOLEAN, job[j].status = "CLAIMED",
         Put(j, Attempted(job[j], b)), Failure(j, Terminal(job[j], b)), allocated' = allocated
  PROVE  Pairs'
<1>1. Terminal(job[j], b) \in BOOLEAN
  BY DEF Terminal
<1>2. job'[j] = Attempted(job[j], b) /\ \A i \in Jobs \ {j} : job'[i] = job[i]
  BY DEF Rows, Put
<1>3. job[j] \in GoodJob /\ run[j] \in RunRow /\ allocated \in Nat
  BY ScanAssumption DEF Rows
<1>4. Fits(j, job[j], run[j], allocated)
  BY DEF Pairs
<1>r. /\ Collected(run[j]) => run'[j] = run[j]
      /\ ~Collected(run[j]) =>
           run'[j] = [run[j] EXCEPT !.status = IF Terminal(job[j], b) THEN "FAILED" ELSE "RUNNING"]
  BY <1>1, FailureRuns
<1>f. /\ Collected(run[j]) => Fits(j, Attempted(job[j], b), run[j], allocated)
      /\ ~Collected(run[j]) =>
           Fits(j, Attempted(job[j], b),
                [run[j] EXCEPT !.status = IF Terminal(job[j], b) THEN "FAILED" ELSE "RUNNING"],
                allocated)
  BY <1>3, <1>4, FitsAttempted
<1>5. Fits(j, job'[j], run'[j], allocated)
  <2>1. CASE Collected(run[j])
    BY <1>2, <1>r, <1>f, <2>1
  <2>2. CASE ~Collected(run[j])
    BY <1>2, <1>r, <1>f, <2>2
  <2> QED  BY <2>1, <2>2
<1> QED  BY <1>1, <1>2, <1>5, FailureRuns, PairsKept

(* Planning finds no run under way: one that is collected would have to be *)
(* settled, and any other still has its job.                               *)
LEMMA NothingUnderWay ==
  ASSUME Pairs, MaySchedule
  PROVE  \A i \in Jobs : ~Active(run[i])
<1> SUFFICES ASSUME NEW i \in Jobs, Active(run[i]) PROVE FALSE
  OBVIOUS
<1>1. Fits(i, job[i], run[i], allocated)
  BY DEF Pairs
<1>2. CASE Collected(run[i])
  <2>1. run[i].reconciled
    BY <1>2 DEF MaySchedule, Debt
  <2> QED  BY <1>1, <2>1 DEF Fits, Active, Closed
<1>3. CASE ~Collected(run[i])
  BY <1>1, <1>3 DEF Fits, Claimable, MaySchedule
<1> QED  BY <1>2, <1>3

LEMMA ScheduleRuns ==
  ASSUME Rows, Pairs, Schedule
  PROVE  /\ allocated + 1 \in Jobs
         /\ run'[allocated + 1] = [NoRun EXCEPT !.status = "QUEUED"]
         /\ job'[allocated + 1] = New(NoJob)
         /\ \A i \in Jobs \ {allocated + 1} : run'[i] = run[i] /\ job'[i] = job[i]
         /\ run' \in [Jobs -> RunRow] /\ job' \in [Jobs -> GoodJob]
<1>1. allocated + 1 \in Jobs
  BY ScanAssumption DEF Rows, Schedule
<1>2. Orphaned = run
  BY NothingUnderWay DEF Schedule, Orphaned, Rows
<1>3. run' = [run EXCEPT ![allocated + 1] = [NoRun EXCEPT !.status = "QUEUED"]]
  BY <1>2 DEF Schedule
<1>4. job' = [job EXCEPT ![allocated + 1] = New(NoJob)]
  BY DEF Schedule, Put
<1>5. [NoRun EXCEPT !.status = "QUEUED"] \in RunRow /\ New(NoJob) \in GoodJob
  BY NoRunType, NoJobType
<1> HIDE DEF Schedule
<1> QED  BY <1>1, <1>3, <1>4, <1>5 DEF Rows

LEMMA SchedulePairs == ASSUME Rows, Pairs, Schedule PROVE Pairs'
<1> DEFINE k == allocated + 1
<1>0. allocated' = k /\ allocated \in Nat
  BY ScanAssumption DEF Schedule, Rows
<1>1. ASSUME NEW i \in Jobs, i # k PROVE Fits(i, job'[i], run'[i], k)
  <2>1. run'[i] = run[i] /\ job'[i] = job[i]
    BY <1>1, ScheduleRuns
  <2>2. Fits(i, job[i], run[i], allocated) /\ i \in Nat
    BY ScanAssumption DEF Pairs
  <2>3. ~Active(run[i])
    BY NothingUnderWay DEF Schedule
  <2>4. Collected(run[i]) => run[i].reconciled
    BY DEF Schedule, MaySchedule, Debt
  <2> QED  BY <1>0, <2>1, <2>2, <2>3, <2>4 DEF Fits
<1>2. Fits(k, job'[k], run'[k], k)
  <2>1. /\ run'[k].status = "QUEUED" /\ run'[k].pages = 0 /\ ~run'[k].reconciled
    BY ScheduleRuns DEF NoRun
  <2>2. job'[k].status = "SCHEDULED" /\ job'[k].attempts = 0
    BY ScheduleRuns DEF New, NoJob
  <2>3. ~Collected(run'[k]) /\ Active(run'[k]) /\ ~Closed(run'[k]) /\ Claimable(job'[k])
    BY <2>1, <2>2, LeaseAssumption DEF Collected, Active, Closed, Claimable
  <2> QED  BY <1>0, <2>1, <2>2, <2>3 DEF Fits
<1> HIDE DEF k
<1> QED  BY <1>0, <1>1, <1>2 DEF Pairs


(* A worker only settles a run that is published.                          *)
Ready == \A w \in Workers : worker[w].at = "reconcile" => Closed(run[worker[w].gen])


(* Only the last generation can be in debt.                                *)
LEMMA OnlyLast == ASSUME Rows, Pairs PROVE Debt \subseteq {allocated}
<1> SUFFICES ASSUME NEW g \in Debt PROVE g = allocated
  OBVIOUS
<1>1. g \in Jobs /\ Collected(run[g]) /\ ~run[g].reconciled
  BY DEF Debt
<1>2. Fits(g, job[g], run[g], allocated)
  BY <1>1 DEF Pairs
<1>3. g \in Nat /\ allocated \in Nat
  BY <1>1, ScanAssumption DEF Rows
<1>4. ~(g > allocated) /\ ~(g < allocated)
  BY <1>1, <1>2, LeaseAssumption DEF Fits, Collected
<1> QED  BY <1>3, <1>4

LEMMA LatestIn == ASSUME Rows, Pairs, Debt # {} PROVE Latest(Debt) \in Jobs /\ Latest(Debt) \in Debt
<1>1. Debt = {allocated} /\ allocated \in Jobs
  BY OnlyLast DEF Debt
<1>2. allocated <= allocated
  BY <1>1, ScanAssumption
<1> QED  BY <1>1, <1>2 DEF Latest

LEMMA PairsStep ==
  ASSUME Rows, Ready, Pairs, [Next]_vars
  PROVE  Pairs'
<1>0. CASE UNCHANGED vars
  BY <1>0 DEF vars, Pairs
<1>1. CASE Schedule
  BY <1>1, SchedulePairs
<1>2. CASE Remind
  BY <1>2, PairsSame DEF Remind
<1>3. CASE ExpireClaim
  BY <1>3, PairsSame DEF ExpireClaim
<1>4. ASSUME NEW j \in Jobs, Lapse(j) PROVE Pairs'
  <2>0. /\ job[j] \in GoodJob /\ run[j] \in RunRow /\ allocated \in Nat
        /\ Fits(j, job[j], run[j], allocated)
    BY ScanAssumption DEF Rows, Pairs
  <2>1. job' = [job EXCEPT ![j] = [job[j] EXCEPT !.live = FALSE]] /\ run' = run /\ allocated' = allocated
    BY <1>4 DEF Lapse, Put
  <2>2. job'[j] = [job[j] EXCEPT !.live = FALSE] /\ \A i \in Jobs \ {j} : job'[i] = job[i]
    BY <2>1 DEF Rows
  <2>3. job'[j] \in GoodJob /\ job'[j].status = job[j].status /\ job'[j].attempts = job[j].attempts
    <3>1. LET s == [job[j] EXCEPT !.live = FALSE]
          IN s.status = job[j].status /\ s.attempts = job[j].attempts
      BY <2>0 DEF GoodJob, JobRow
    <3> QED  BY <3>1, <2>0, <2>2, LapsedType
  <2>5. Fits(j, job'[j], run'[j], allocated)
    BY <2>0, <2>1, <2>3, FitsSame
  <2> QED  BY <2>1, <2>2, <2>5, PairsKept
<1>5. ASSUME NEW j \in Jobs, Sweep(j) PROVE Pairs'
  BY <1>5, FailurePairs DEF Sweep, Sweepable
<1>6. ASSUME NEW d \in Devices, NEW j \in Jobs, Claim(d, j) PROVE Pairs'
  <2>0. /\ job[j] \in GoodJob /\ run[j] \in RunRow /\ allocated \in Nat
        /\ Fits(j, job[j], run[j], allocated)
    BY ScanAssumption DEF Rows, Pairs
  <2>1. job' = [job EXCEPT ![j] = Claimed(job[j], d)] /\ run' = run /\ allocated' = allocated
    BY <1>6 DEF Claim, Put
  <2>2. job'[j] = Claimed(job[j], d) /\ \A i \in Jobs \ {j} : job'[i] = job[i]
    BY <2>1 DEF Rows
  <2>5. Fits(j, job'[j], run'[j], allocated)
    BY <1>6, <2>0, <2>1, <2>2, FitsClaimed DEF Claim
  <2> QED  BY <2>1, <2>2, <2>5, PairsKept
<1>7. ASSUME NEW d \in Devices, NEW j \in Jobs, Page(d, j) PROVE Pairs'
  <2>0. /\ job[j] \in GoodJob /\ run[j] \in RunRow /\ allocated \in Nat
        /\ Fits(j, job[j], run[j], allocated)
    BY ScanAssumption DEF Rows, Pairs
  <2>1. /\ job' = [job EXCEPT ![j] = [job[j] EXCEPT !.attempts = 0]]
        /\ run' = [run EXCEPT ![j].status = "RUNNING", ![j].pages = @ + 1]
        /\ allocated' = allocated
        /\ job[j].status = "CLAIMED" /\ Active(run[j]) /\ ~Collected(run[j])
    BY <1>7 DEF Page, Put, LeasedNow, Leased
  <2>2. /\ job'[j] = [job[j] EXCEPT !.attempts = 0]
        /\ run'[j] = [run[j] EXCEPT !.status = "RUNNING", !.pages = @ + 1]
        /\ \A i \in Jobs \ {j} : job'[i] = job[i] /\ run'[i] = run[i]
    BY <2>1 DEF Rows
  <2>3. Fits(j, job'[j], run'[j], allocated)
    <3>1. Fits(j, [job[j] EXCEPT !.attempts = 0],
                  [run[j] EXCEPT !.status = "RUNNING", !.pages = @ + 1], allocated)
      BY <2>0, <2>1, FitsPage
    <3> QED  BY <2>2, <3>1
  <2> QED  BY <2>1, <2>2, <2>3, PairsKept
<1>8. ASSUME NEW d \in Devices, NEW j \in Jobs, Reserve(d, j) PROVE Pairs'
  <2>0. /\ job[j] \in GoodJob /\ run[j] \in RunRow /\ allocated \in Nat
        /\ Fits(j, job[j], run[j], allocated)
    BY ScanAssumption DEF Rows, Pairs
  <2>1. job' = [job EXCEPT ![j] = [job[j] EXCEPT !.rev = @ + 1]] /\ run' = run /\ allocated' = allocated
    BY <1>8 DEF Reserve, Put
  <2>2. job'[j] = [job[j] EXCEPT !.rev = @ + 1] /\ \A i \in Jobs \ {j} : job'[i] = job[i]
    BY <2>1 DEF Rows
  <2>3. job'[j] \in GoodJob /\ job'[j].status = job[j].status /\ job'[j].attempts = job[j].attempts
    <3>1. LET s == [job[j] EXCEPT !.rev = @ + 1]
          IN s.status = job[j].status /\ s.attempts = job[j].attempts
      BY <2>0 DEF GoodJob, JobRow
    <3> QED  BY <3>1, <2>0, <2>2, ReservedType
  <2>5. Fits(j, job'[j], run'[j], allocated)
    BY <2>0, <2>1, <2>3, FitsSame
  <2> QED  BY <2>1, <2>2, <2>5, PairsKept
<1>9. ASSUME NEW d \in Devices, NEW j \in Jobs, NEW q \in BOOLEAN, FailJob(d, j, q) PROVE Pairs'
  BY <1>9, FailurePairs DEF FailJob, Leased
<1>10. ASSUME NEW d \in Devices, Publish(d) PROVE Pairs'
  <2>1. serve[d].job \in Jobs
    BY <1>10 DEF Publish, Rows
  <2> QED  BY <1>10, <2>1, AdvancePairs DEF Publish
<1>11. ASSUME NEW d \in Devices, Handoff(d) PROVE Pairs'
  <2> DEFINE g == serve[d].job
  <2>0. /\ g \in Jobs /\ job[g] \in GoodJob /\ run[g] \in RunRow /\ allocated \in Nat
        /\ Fits(g, job[g], run[g], allocated)
    BY <1>11, ScanAssumption DEF Handoff, Rows, Pairs
  <2>1. run' = run /\ allocated' = allocated
    BY <1>11 DEF Handoff
  <2>2. CASE ~Reserved(d)
    BY <1>11, <2>1, <2>2, PairsSame DEF Handoff
  <2>3. CASE Reserved(d)
    <3>1. /\ job' = [job EXCEPT ![g] = Vacated(job[g], "PUBLISHING")]
          /\ job[g].status = "CLAIMED" /\ Collected(run[g])
      BY <1>11, <2>3 DEF Handoff, Reserved, LeasedNow, Leased
    <3>2. job'[g] = Vacated(job[g], "PUBLISHING") /\ \A i \in Jobs \ {g} : job'[i] = job[i]
      BY <2>0, <3>1 DEF Rows
    <3>3. Fits(g, job'[g], run'[g], allocated)
      BY <2>0, <2>1, <3>1, <3>2, FitsHandoff
    <3> HIDE DEF g
    <3> QED  BY <2>0, <2>1, <3>2, <3>3, PairsKept
  <2> QED  BY <2>2, <2>3
<1>12. ASSUME NEW d \in Devices, Finish(d) PROVE Pairs'
  <2> DEFINE g == serve[d].job
  <2>0. /\ g \in Jobs /\ job[g] \in GoodJob /\ run[g] \in RunRow /\ allocated \in Nat
        /\ Fits(g, job[g], run[g], allocated)
    BY <1>12, ScanAssumption DEF Finish, Rows, Pairs
  <2>1. Pairs'
    <3>1. /\ job' = [job EXCEPT ![g] = Vacated(job[g], "DONE")]
          /\ run' = [run EXCEPT ![g].reconciled = TRUE] /\ allocated' = allocated
          /\ Closed(run[g])
      BY <1>12 DEF Finish, Put
    <3>2. /\ job'[g] = Vacated(job[g], "DONE") /\ run'[g] = [run[g] EXCEPT !.reconciled = TRUE]
          /\ \A i \in Jobs \ {g} : job'[i] = job[i] /\ run'[i] = run[i]
      BY <2>0, <3>1 DEF Rows
    <3>3. Fits(g, job'[g], run'[g], allocated)
      BY <2>0, <3>1, <3>2, FitsDone
    <3> HIDE DEF g
    <3> QED  BY <2>0, <3>1, <3>2, <3>3, PairsKept
  <2> QED  BY <2>1
<1>13. ASSUME NEW w \in Workers, ClaimSignal(w) PROVE Pairs'
  BY <1>13, PairsSame DEF ClaimSignal
<1>14. ASSUME NEW w \in Workers, Step(w) PROVE Pairs'
  <2>1. worker[w].gen \in Jobs
    BY <1>14 DEF Step, Rows
  <2> QED  BY <1>14, <2>1, AdvancePairs DEF Step
<1>15. ASSUME NEW w \in Workers, Reconcile(w) PROVE Pairs'
  <2> DEFINE g == worker[w].gen
  <2>0. /\ g \in Jobs /\ job[g] \in GoodJob /\ run[g] \in RunRow /\ allocated \in Nat
        /\ Fits(g, job[g], run[g], allocated) /\ allocated' = allocated
    BY <1>15, ScanAssumption DEF Reconcile, Rows, Pairs
  <2>1. CASE Busy(job[g])
    BY <1>15, <2>0, <2>1, PairsSame DEF Reconcile
  <2>2. CASE ~Busy(job[g])
    <3>1. /\ job' = [job EXCEPT ![g] = Vacated(job[g], "DONE")]
          /\ run' = [run EXCEPT ![g].reconciled = TRUE] /\ allocated' = allocated
          /\ Closed(run[g])
      BY <1>15, <2>0, <2>2 DEF Reconcile, Put, Ready
    <3>2. /\ job'[g] = Vacated(job[g], "DONE") /\ run'[g] = [run[g] EXCEPT !.reconciled = TRUE]
          /\ \A i \in Jobs \ {g} : job'[i] = job[i] /\ run'[i] = run[i]
      BY <2>0, <3>1 DEF Rows
    <3>3. Fits(g, job'[g], run'[g], allocated)
      BY <2>0, <3>1, <3>2, FitsDone
    <3> HIDE DEF g
    <3> QED  BY <2>0, <3>1, <3>2, <3>3, PairsKept
  <2> QED  BY <2>1, <2>2
<1>16. ASSUME NEW w \in Workers, Stop(w) PROVE Pairs'
  BY <1>16, PairsSame DEF Stop
<1>17. ASSUME NEW w \in Workers, Stale(w) PROVE Pairs'
  BY <1>17, PairsSame DEF Stale
<1>18. ASSUME NEW w \in Workers, Ack(w) PROVE Pairs'
  BY <1>18, PairsSame DEF Ack
<1> QED  BY <1>0, <1>1, <1>2, <1>3, <1>4, <1>5, <1>6, <1>7, <1>8, <1>9, <1>10, <1>11, <1>12, <1>13, <1>14, <1>15, <1>16, <1>17, <1>18 DEF Next, DeviceStep, ServerStep, WorkerStep, Unit

LEMMA RowsStep ==
  ASSUME Rows, Pairs, [Next]_vars
  PROVE  Rows'
<1>0. CASE UNCHANGED vars
  BY <1>0 DEF vars, Rows
<1>1. CASE Schedule
  <2>1. job' \in [Jobs -> GoodJob] /\ run' \in [Jobs -> RunRow]
    BY <1>1, ScheduleRuns
  <2>2. allocated' \in 0..Gens /\ published' \in 0..allocated'
    BY <1>1, ScanAssumption DEF Schedule, Rows
  <2> QED  BY <1>1, <2>1, <2>2 DEF Schedule, Rows
<1>2. CASE Remind
  BY <1>2 DEF Rows, Remind, Ensured, Signalled
<1>3. CASE ExpireClaim
  BY <1>3 DEF Rows, ExpireClaim, Ensured, Signalled
<1>4. ASSUME NEW j \in Jobs, Lapse(j) PROVE Rows'
  <2>0. job[j] \in GoodJob
    BY DEF Rows
  <2>1. [job[j] EXCEPT !.live = FALSE] \in GoodJob
    BY <1>4, <2>0, LapsedType DEF Lapse
  <2>2. job' \in [Jobs -> GoodJob]
    BY <1>4, <2>1 DEF Rows, Put, Lapse
  <2> QED  BY <1>4, <2>2 DEF Rows, Lapse
<1>5. ASSUME NEW j \in Jobs, Sweep(j) PROVE Rows'
  <2>t. TRUE \in BOOLEAN /\ Terminal(job[j], TRUE) \in BOOLEAN
    BY <1>5 DEF Terminal
  <2>0. job[j] \in GoodJob
    BY DEF Rows
  <2>1. Attempted(job[j], TRUE) \in GoodJob
    BY <1>5, <2>0, AttemptedType, <2>t DEF Sweep, Sweepable
  <2>2. job' \in [Jobs -> GoodJob]
    BY <1>5, <2>1 DEF Rows, Put, Sweep
  <2>3. run' \in [Jobs -> RunRow]
    BY <1>5, <2>t, FailureRuns DEF Sweep
  <2>s. signal' = signal \/ signal' = Signalled
    BY <1>5 DEF Sweep, Failure
  <2>4. signal' \in [here : BOOLEAN, owner : Workers \cup {None}, live : BOOLEAN]
    <3>1. /\ signal \in [here : BOOLEAN, owner : Workers \cup {None}, live : BOOLEAN]
          /\ Signalled \in [here : BOOLEAN, owner : Workers \cup {None}, live : BOOLEAN]
      BY DEF Rows, Signalled
    <3> QED  BY <2>s, <3>1
  <2>5. hand' \in [Devices -> [job : Jobs \cup {None}, rev : Nat]]
    BY <1>5 DEF Rows, Sweep
  <2> QED  BY <1>5, <2>2, <2>3, <2>4, <2>5 DEF Rows, Sweep
<1>6. ASSUME NEW d \in Devices, NEW j \in Jobs, Claim(d, j) PROVE Rows'
  <2>0. job[j] \in GoodJob
    BY DEF Rows
  <2>1. Claimed(job[j], d) \in GoodJob
    BY <1>6, <2>0, ClaimedType DEF Claim
  <2>2. job' \in [Jobs -> GoodJob]
    BY <1>6, <2>1 DEF Rows, Put, Claim
  <2>3. job[j].rev + 1 \in Nat
    BY <2>0 DEF GoodJob, JobRow
  <2> QED  BY <1>6, <2>2, <2>3 DEF Rows, Claim
<1>7. ASSUME NEW d \in Devices, NEW j \in Jobs, Page(d, j) PROVE Rows'
  <2>0. job[j] \in GoodJob
    BY DEF Rows
  <2>1. [job[j] EXCEPT !.attempts = 0] \in GoodJob
    BY <1>7, <2>0, PagedType DEF Page
  <2>2. job' \in [Jobs -> GoodJob]
    BY <1>7, <2>1 DEF Rows, Put, Page
  <2>3. [run[j] EXCEPT !.status = "RUNNING", !.pages = @ + 1] \in RunRow
    BY <1>7, PageType DEF Rows, Page
  <2>4. run' \in [Jobs -> RunRow]
    BY <1>7, <2>3 DEF Rows, Page
  <2>5. signal' \in [here : BOOLEAN, owner : Workers \cup {None}, live : BOOLEAN]
    BY <1>7 DEF Rows, Page, PageDone, Signalled
  <2> QED  BY <1>7, <2>2, <2>4, <2>5 DEF Rows, Page
<1>8. ASSUME NEW d \in Devices, NEW j \in Jobs, Reserve(d, j) PROVE Rows'
  <2>0. job[j] \in GoodJob
    BY DEF Rows
  <2>1. [job[j] EXCEPT !.rev = @ + 1] \in GoodJob
    BY <1>8, <2>0, ReservedType DEF Reserve
  <2>2. job' \in [Jobs -> GoodJob]
    BY <1>8, <2>1 DEF Rows, Put, Reserve
  <2>3. job[j].rev + 1 \in Nat
    BY <2>0 DEF GoodJob, JobRow
  <2>4. [at |-> "publish", job |-> j, rev |-> job[j].rev + 1] \in ServeRow
    BY <2>3 DEF ServeRow
  <2>5. hand' \in [Devices -> [job : Jobs \cup {None}, rev : Nat]]
    BY <1>8 DEF Rows, Reserve, NoHand
  <2>6. /\ serve' \in [Devices -> ServeRow]
        /\ \A e \in Devices : serve'[e].at # "none" => serve'[e].job \in Jobs
    BY <1>8, <2>4 DEF Rows, Reserve
  <2> QED  BY <1>8, <2>2, <2>5, <2>6 DEF Rows, Reserve
<1>9. ASSUME NEW d \in Devices, NEW j \in Jobs, NEW q \in BOOLEAN, FailJob(d, j, q) PROVE Rows'
  <2>t. q \in BOOLEAN /\ Terminal(job[j], q) \in BOOLEAN
    BY <1>9 DEF Terminal
  <2>0. job[j] \in GoodJob
    BY DEF Rows
  <2>1. Attempted(job[j], q) \in GoodJob
    BY <1>9, <2>0, AttemptedType, <2>t DEF FailJob, Leased
  <2>2. job' \in [Jobs -> GoodJob]
    BY <1>9, <2>1 DEF Rows, Put, FailJob
  <2>3. run' \in [Jobs -> RunRow]
    BY <1>9, <2>t, FailureRuns DEF FailJob
  <2>s. signal' = signal \/ signal' = Signalled
    BY <1>9 DEF FailJob, Failure
  <2>4. signal' \in [here : BOOLEAN, owner : Workers \cup {None}, live : BOOLEAN]
    <3>1. /\ signal \in [here : BOOLEAN, owner : Workers \cup {None}, live : BOOLEAN]
          /\ Signalled \in [here : BOOLEAN, owner : Workers \cup {None}, live : BOOLEAN]
      BY DEF Rows, Signalled
    <3> QED  BY <2>s, <3>1
  <2>5. hand' \in [Devices -> [job : Jobs \cup {None}, rev : Nat]]
    BY <1>9 DEF Rows, FailJob, NoHand
  <2> QED  BY <1>9, <2>2, <2>3, <2>4, <2>5 DEF Rows, FailJob
<1>10. ASSUME NEW d \in Devices, Publish(d) PROVE Rows'
  <2>0. serve[d].job \in Jobs
    BY <1>10 DEF Publish, Rows
  <2>1. run' \in [Jobs -> RunRow] /\ published' \in 0..allocated
    BY <1>10, <2>0, AdvanceRuns DEF Publish
  <2>2. /\ serve' \in [Devices -> ServeRow]
        /\ \A e \in Devices : serve'[e].at # "none" => serve'[e].job \in Jobs
    BY <1>10, <2>0 DEF Rows, Publish, ServeRow
  <2> QED  BY <1>10, <2>1, <2>2 DEF Rows, Publish
<1>11. ASSUME NEW d \in Devices, Handoff(d) PROVE Rows'
  <2>0. serve[d].job \in Jobs
    BY <1>11 DEF Handoff, Rows
  <2>1. job' \in [Jobs -> GoodJob]
    <3>1. Vacated(job[serve[d].job], "PUBLISHING") \in GoodJob
      BY <2>0, VacatedType DEF Rows
    <3> QED  BY <1>11, <2>0, <3>1 DEF Rows, Handoff
  <2>s. /\ serve' \in [Devices -> ServeRow]
        /\ \A e \in Devices : serve'[e].at # "none" => serve'[e].job \in Jobs
    BY <1>11 DEF Rows, Handoff, ServeRow, NoServe
  <2> QED  BY <1>11, <2>1, <2>s DEF Rows, Handoff, Signalled
<1>12. ASSUME NEW d \in Devices, Finish(d) PROVE Rows'
  <2>0. serve[d].job \in Jobs
    BY <1>12 DEF Finish, Rows
  <2>1. job' \in [Jobs -> GoodJob]
    <3>1. Vacated(job[serve[d].job], "DONE") \in GoodJob
      BY <2>0, VacatedType DEF Rows
    <3> QED  BY <1>12, <2>0, <3>1 DEF Rows, Finish, Put
  <2>2. run' \in [Jobs -> RunRow]
    <3>1. [run[serve[d].job] EXCEPT !.reconciled = TRUE] \in RunRow
      BY <2>0, PhaseType DEF Rows
    <3> QED  BY <1>12, <2>0, <3>1 DEF Rows, Finish
  <2>s. /\ serve' \in [Devices -> ServeRow]
        /\ \A e \in Devices : serve'[e].at # "none" => serve'[e].job \in Jobs
    BY <1>12 DEF Rows, Finish, ServeRow, NoServe
  <2> QED  BY <1>12, <2>1, <2>2, <2>s DEF Rows, Finish
<1>13. ASSUME NEW w \in Workers, ClaimSignal(w) PROVE Rows'
  <2>1. Debt # {} => Latest(Debt) \in Jobs
    BY LatestIn DEF Rows
  <2>m. \/ Moves(w, "ack", None) \/ Moves(w, "idle", None)
        \/ Debt # {} /\ Moves(w, "step", Latest(Debt))
        \/ Debt # {} /\ Moves(w, "reconcile", Latest(Debt))
    BY <1>13 DEF ClaimSignal
  <2>w. /\ worker' \in [Workers -> WorkerRow]
        /\ \A v \in Workers : worker'[v].at \in {"step", "reconcile"} => worker'[v].gen \in Jobs
    BY <2>m, <2>1, MovesType
  <2>g. signal' \in [here : BOOLEAN, owner : Workers \cup {None}, live : BOOLEAN]
    BY <1>13 DEF Rows, ClaimSignal
  <2> QED  BY <1>13, <2>w, <2>g DEF Rows, ClaimSignal
<1>14. ASSUME NEW w \in Workers, Step(w) PROVE Rows'
  <2>0. worker[w].gen \in Jobs
    BY <1>14 DEF Step, Rows
  <2>1. run' \in [Jobs -> RunRow] /\ published' \in 0..allocated
    BY <1>14, <2>0, AdvanceRuns DEF Step
  <2>m. \/ Moves(w, "ack", None) \/ Moves(w, "idle", None)
        \/ Moves(w, "step", worker[w].gen) \/ Moves(w, "reconcile", worker[w].gen)
    BY <1>14 DEF Step
  <2>w. /\ worker' \in [Workers -> WorkerRow]
        /\ \A v \in Workers : worker'[v].at \in {"step", "reconcile"} => worker'[v].gen \in Jobs
    BY <2>m, <2>0, MovesType
  <2> QED  BY <1>14, <2>1, <2>w DEF Rows, Step
<1>15. ASSUME NEW w \in Workers, Reconcile(w) PROVE Rows'
  <2>0. worker[w].gen \in Jobs
    BY <1>15 DEF Reconcile, Rows
  <2>1. job' \in [Jobs -> GoodJob]
    <3>1. Vacated(job[worker[w].gen], "DONE") \in GoodJob
      BY <2>0, VacatedType DEF Rows
    <3> QED  BY <1>15, <2>0, <3>1 DEF Rows, Reconcile, Put
  <2>2. run' \in [Jobs -> RunRow]
    <3>1. [run[worker[w].gen] EXCEPT !.reconciled = TRUE] \in RunRow
      BY <2>0, PhaseType DEF Rows
    <3> QED  BY <1>15, <2>0, <3>1 DEF Rows, Reconcile
  <2>m. \/ Moves(w, "ack", None) \/ Moves(w, "idle", None)
    BY <1>15 DEF Reconcile, Close
  <2>w. /\ worker' \in [Workers -> WorkerRow]
        /\ \A v \in Workers : worker'[v].at \in {"step", "reconcile"} => worker'[v].gen \in Jobs
    BY <2>m, MovesType
  <2>g. signal' \in [here : BOOLEAN, owner : Workers \cup {None}, live : BOOLEAN]
    BY <1>15 DEF Rows, Reconcile, Close, Left
  <2> QED  BY <1>15, <2>1, <2>2, <2>w, <2>g DEF Rows, Reconcile
<1>16. ASSUME NEW w \in Workers, Stop(w) PROVE Rows'
  <2>m. \/ Moves(w, "ack", None) \/ Moves(w, "idle", None)
    BY <1>16 DEF Stop, Close
  <2>w. /\ worker' \in [Workers -> WorkerRow]
        /\ \A v \in Workers : worker'[v].at \in {"step", "reconcile"} => worker'[v].gen \in Jobs
    BY <2>m, MovesType
  <2>g. signal' \in [here : BOOLEAN, owner : Workers \cup {None}, live : BOOLEAN]
    BY <1>16 DEF Rows, Stop, Close, Left
  <2> QED  BY <1>16, <2>w, <2>g DEF Rows, Stop
<1>17. ASSUME NEW w \in Workers, Stale(w) PROVE Rows'
  <2>m. \/ Moves(w, "ack", None) \/ Moves(w, "idle", None)
    BY <1>17 DEF Stale
  <2>w. /\ worker' \in [Workers -> WorkerRow]
        /\ \A v \in Workers : worker'[v].at \in {"step", "reconcile"} => worker'[v].gen \in Jobs
    BY <2>m, MovesType
  <2> QED  BY <1>17, <2>w DEF Rows, Stale
<1>18. ASSUME NEW w \in Workers, Ack(w) PROVE Rows'
  <2>m. \/ Moves(w, "ack", None) \/ Moves(w, "idle", None)
    BY <1>18 DEF Ack
  <2>w. /\ worker' \in [Workers -> WorkerRow]
        /\ \A v \in Workers : worker'[v].at \in {"step", "reconcile"} => worker'[v].gen \in Jobs
    BY <2>m, MovesType
  <2>g. signal' \in [here : BOOLEAN, owner : Workers \cup {None}, live : BOOLEAN]
    BY <1>18 DEF Rows, Ack, NoSignal
  <2> QED  BY <1>18, <2>w, <2>g DEF Rows, Ack
<1> QED  BY <1>0, <1>1, <1>2, <1>3, <1>4, <1>5, <1>6, <1>7, <1>8, <1>9, <1>10, <1>11, <1>12, <1>13, <1>14, <1>15, <1>16, <1>17, <1>18 DEF Next, DeviceStep, ServerStep, WorkerStep, Unit

(* A run that is closed stays closed, whatever happens.                    *)
ClosedKept == \A i \in Jobs : Closed(run[i]) => Closed(run'[i])

LEMMA KeptReady == ASSUME Rows, Ready, worker' = worker, ClosedKept PROVE Ready'
BY DEF Rows, Ready, ClosedKept

LEMMA ClosedStays ==
  ASSUME Rows, Pairs, [Next]_vars
  PROVE  ClosedKept
<1>0. CASE UNCHANGED vars
  BY <1>0 DEF vars, ClosedKept
<1>1. CASE Schedule
  <2>1. ~Closed(run[allocated + 1])
    <3>1. Fits(allocated + 1, job[allocated + 1], run[allocated + 1], allocated)
      BY <1>1, ScheduleRuns DEF Pairs
    <3>2. allocated \in Nat
      BY ScanAssumption DEF Rows
    <3> QED  BY <3>1, <3>2 DEF Fits, Closed
  <2> QED  BY <1>1, <2>1, ScheduleRuns DEF ClosedKept
<1>2. CASE Remind
  BY <1>2 DEF Remind, ClosedKept
<1>3. CASE ExpireClaim
  BY <1>3 DEF ExpireClaim, ClosedKept
<1>4. ASSUME NEW j \in Jobs, Lapse(j) PROVE ClosedKept
  BY <1>4 DEF Lapse, ClosedKept
<1>5. ASSUME NEW j \in Jobs, Sweep(j) PROVE ClosedKept
  <2>0. Terminal(job[j], TRUE) \in BOOLEAN
    BY DEF Terminal
  <2>1. Closed(run[j]) => Collected(run[j])
    BY DEF Pairs, Fits
  <2> QED  BY <1>5, <2>0, <2>1, FailureRuns DEF Sweep, ClosedKept
<1>6. ASSUME NEW d \in Devices, NEW j \in Jobs, Claim(d, j) PROVE ClosedKept
  BY <1>6 DEF Claim, ClosedKept
<1>7. ASSUME NEW d \in Devices, NEW j \in Jobs, Page(d, j) PROVE ClosedKept
  <2>1. ~Closed(run[j])
    BY <1>7 DEF Page, Active, Closed
  <2>2. \A i \in Jobs \ {j} : run'[i] = run[i]
    BY <1>7 DEF Page, Rows
  <2> QED  BY <2>1, <2>2 DEF ClosedKept
<1>8. ASSUME NEW d \in Devices, NEW j \in Jobs, Reserve(d, j) PROVE ClosedKept
  BY <1>8 DEF Reserve, ClosedKept
<1>9. ASSUME NEW d \in Devices, NEW j \in Jobs, NEW q \in BOOLEAN, FailJob(d, j, q) PROVE ClosedKept
  <2>0. Terminal(job[j], q) \in BOOLEAN
    BY DEF Terminal
  <2>1. Closed(run[j]) => Collected(run[j])
    BY DEF Pairs, Fits
  <2> QED  BY <1>9, <2>0, <2>1, FailureRuns DEF FailJob, ClosedKept
<1>10. ASSUME NEW d \in Devices, Publish(d) PROVE ClosedKept
  <2>0. serve[d].job \in Jobs
    BY <1>10 DEF Publish, Rows
  <2> QED  BY <1>10, <2>0, AdvanceCloses DEF Publish, ClosedKept
<1>11. ASSUME NEW d \in Devices, Handoff(d) PROVE ClosedKept
  BY <1>11 DEF Handoff, ClosedKept
<1>12. ASSUME NEW d \in Devices, Finish(d) PROVE ClosedKept
  <2>0. serve[d].job \in Jobs
    BY <1>12 DEF Finish, Rows
  <2>1. \A i \in Jobs : run'[i].status = run[i].status
    BY <1>12, <2>0 DEF Finish, Rows, RunRow
  <2> QED  BY <2>1 DEF ClosedKept, Closed
<1>13. ASSUME NEW w \in Workers, ClaimSignal(w) PROVE ClosedKept
  BY <1>13 DEF ClaimSignal, ClosedKept
<1>14. ASSUME NEW w \in Workers, Step(w) PROVE ClosedKept
  <2>0. worker[w].gen \in Jobs
    BY <1>14 DEF Step, Rows
  <2> QED  BY <1>14, <2>0, AdvanceCloses DEF Step, ClosedKept
<1>15. ASSUME NEW w \in Workers, Reconcile(w) PROVE ClosedKept
  <2>0. worker[w].gen \in Jobs
    BY <1>15 DEF Reconcile, Rows
  <2>1. \A i \in Jobs : run'[i].status = run[i].status
    BY <1>15, <2>0 DEF Reconcile, Rows, RunRow
  <2> QED  BY <2>1 DEF ClosedKept, Closed
<1>16. ASSUME NEW w \in Workers, Stop(w) PROVE ClosedKept
  BY <1>16 DEF Stop, ClosedKept
<1>17. ASSUME NEW w \in Workers, Stale(w) PROVE ClosedKept
  BY <1>17 DEF Stale, ClosedKept
<1>18. ASSUME NEW w \in Workers, Ack(w) PROVE ClosedKept
  BY <1>18 DEF Ack, ClosedKept
<1> QED  BY <1>0, <1>1, <1>2, <1>3, <1>4, <1>5, <1>6, <1>7, <1>8, <1>9, <1>10, <1>11, <1>12, <1>13, <1>14, <1>15, <1>16, <1>17, <1>18 DEF Next, DeviceStep, ServerStep, WorkerStep, Unit

LEMMA ReadyStep ==
  ASSUME Rows, Pairs, Ready, [Next]_vars
  PROVE  Ready'
<1>0. CASE UNCHANGED vars
  BY <1>0 DEF vars, Ready
<1>1. CASE Schedule
  <2>1. worker' = worker
    BY <1>1 DEF Schedule
  <2> QED  BY <1>1, <2>1, ClosedStays, KeptReady
<1>2. CASE Remind
  <2>1. worker' = worker
    BY <1>2 DEF Remind
  <2> QED  BY <1>2, <2>1, ClosedStays, KeptReady
<1>3. CASE ExpireClaim
  <2>1. worker' = worker
    BY <1>3 DEF ExpireClaim
  <2> QED  BY <1>3, <2>1, ClosedStays, KeptReady
<1>4. ASSUME NEW j \in Jobs, Lapse(j) PROVE Ready'
  <2>1. worker' = worker
    BY <1>4 DEF Lapse
  <2> QED  BY <1>4, <2>1, ClosedStays, KeptReady
<1>5. ASSUME NEW j \in Jobs, Sweep(j) PROVE Ready'
  <2>1. worker' = worker
    BY <1>5 DEF Sweep
  <2> QED  BY <1>5, <2>1, ClosedStays, KeptReady
<1>6. ASSUME NEW d \in Devices, NEW j \in Jobs, Claim(d, j) PROVE Ready'
  <2>1. worker' = worker
    BY <1>6 DEF Claim
  <2> QED  BY <1>6, <2>1, ClosedStays, KeptReady
<1>7. ASSUME NEW d \in Devices, NEW j \in Jobs, Page(d, j) PROVE Ready'
  <2>1. worker' = worker
    BY <1>7 DEF Page
  <2> QED  BY <1>7, <2>1, ClosedStays, KeptReady
<1>8. ASSUME NEW d \in Devices, NEW j \in Jobs, Reserve(d, j) PROVE Ready'
  <2>1. worker' = worker
    BY <1>8 DEF Reserve
  <2> QED  BY <1>8, <2>1, ClosedStays, KeptReady
<1>9. ASSUME NEW d \in Devices, NEW j \in Jobs, NEW q \in BOOLEAN, FailJob(d, j, q) PROVE Ready'
  <2>1. worker' = worker
    BY <1>9 DEF FailJob
  <2> QED  BY <1>9, <2>1, ClosedStays, KeptReady
<1>10. ASSUME NEW d \in Devices, Publish(d) PROVE Ready'
  <2>1. worker' = worker
    BY <1>10 DEF Publish
  <2> QED  BY <1>10, <2>1, ClosedStays, KeptReady
<1>11. ASSUME NEW d \in Devices, Handoff(d) PROVE Ready'
  <2>1. worker' = worker
    BY <1>11 DEF Handoff
  <2> QED  BY <1>11, <2>1, ClosedStays, KeptReady
<1>12. ASSUME NEW d \in Devices, Finish(d) PROVE Ready'
  <2>1. worker' = worker
    BY <1>12 DEF Finish
  <2> QED  BY <1>12, <2>1, ClosedStays, KeptReady
<1>13. ASSUME NEW w \in Workers, ClaimSignal(w) PROVE Ready'
  <2>1. run' = run
    BY <1>13 DEF ClaimSignal
  <2>2. \A v \in Workers \ {w} : worker'[v] = worker[v]
    BY <1>13 DEF ClaimSignal, Moves, Rows
  <2>3. worker'[w].at = "reconcile" => Closed(run[worker'[w].gen])
    BY <1>13 DEF ClaimSignal, Moves, Rows
  <2> QED  BY <2>1, <2>2, <2>3 DEF Ready
<1>14. ASSUME NEW w \in Workers, Step(w) PROVE Ready'
  <2>2. \A v \in Workers \ {w} : worker'[v] = worker[v]
    BY <1>14 DEF Step, Moves, Rows
  <2>3. worker'[w].at = "reconcile" => Closed(run'[worker'[w].gen])
    BY <1>14 DEF Step, Moves, Rows
  <2> QED  BY <2>2, <2>3, ClosedStays DEF ClosedKept, Ready, Rows
<1>15. ASSUME NEW w \in Workers, Reconcile(w) PROVE Ready'
  <2>1. Moves(w, "ack", None) \/ Moves(w, "idle", None)
    BY <1>15 DEF Reconcile, Close
  <2>2. worker'[w].at # "reconcile" /\ \A v \in Workers \ {w} : worker'[v] = worker[v]
    BY <2>1 DEF Moves, Rows
  <2> QED  BY <2>2, ClosedStays DEF ClosedKept, Ready, Rows
<1>16. ASSUME NEW w \in Workers, Stop(w) PROVE Ready'
  <2>1. Moves(w, "ack", None) \/ Moves(w, "idle", None)
    BY <1>16 DEF Stop, Close
  <2>2. worker'[w].at # "reconcile" /\ \A v \in Workers \ {w} : worker'[v] = worker[v]
    BY <2>1 DEF Moves, Rows
  <2> QED  BY <2>2, ClosedStays DEF ClosedKept, Ready, Rows
<1>17. ASSUME NEW w \in Workers, Stale(w) PROVE Ready'
  <2>2. worker'[w].at # "reconcile" /\ \A v \in Workers \ {w} : worker'[v] = worker[v]
    BY <1>17 DEF Stale, Moves, Rows
  <2> QED  BY <2>2, ClosedStays DEF ClosedKept, Ready, Rows
<1>18. ASSUME NEW w \in Workers, Ack(w) PROVE Ready'
  <2>2. worker'[w].at # "reconcile" /\ \A v \in Workers \ {w} : worker'[v] = worker[v]
    BY <1>18 DEF Ack, Moves, Rows
  <2> QED  BY <2>2, ClosedStays DEF ClosedKept, Ready, Rows
<1> QED  BY <1>0, <1>1, <1>2, <1>3, <1>4, <1>5, <1>6, <1>7, <1>8, <1>9, <1>10, <1>11, <1>12, <1>13, <1>14, <1>15, <1>16, <1>17, <1>18 DEF Next, DeviceStep, ServerStep, WorkerStep, Unit

-----------------------------------------------------------------------------
(* Signals.  What is in debt has its signal, and a worker that is about to *)
(* delete the signal it owns has seen that nothing is in debt since.       *)
AckDone == \A w \in Workers : worker[w].at = "ack" /\ signal.owner = w => Debt = {}

Alarm == NoLostSignal /\ AckDone

NoNewDebt ==
  \A g \in Jobs : Collected(run'[g]) /\ ~run'[g].reconciled =>
    Collected(run[g]) /\ ~run[g].reconciled

LEMMA DebtShrinks == ASSUME NoNewDebt PROVE Debt' \subseteq Debt
BY DEF NoNewDebt, Debt, Collected

LEMMA RaisedAlarm == ASSUME signal' = Signalled PROVE Alarm'
<1>1. NoLostSignal'
  BY DEF NoLostSignal, Signalled
<1>2. \A w \in Workers : signal'.owner # w
  BY ScanAssumption DEF Signalled
<1> QED  BY <1>1, <1>2 DEF Alarm, AckDone

(* The signal stays, and nobody starts to delete it.                       *)
LEMMA KeptAlarm ==
  ASSUME Alarm, NoNewDebt, signal'.here = signal.here,
         \A w \in Workers : worker'[w].at = "ack" /\ signal'.owner = w =>
            worker[w].at = "ack" /\ signal.owner = w
  PROVE  Alarm'
<1>1. Debt' \subseteq Debt
  BY DebtShrinks
<1>2. NoLostSignal'
  BY <1>1 DEF Alarm, NoLostSignal
<1>3. AckDone'
  BY <1>1 DEF Alarm, AckDone
<1> QED  BY <1>2, <1>3 DEF Alarm

LEMMA NoDebtNoAlarm == ASSUME Debt' = {} PROVE Alarm'
BY DEF Alarm, NoLostSignal, AckDone

(* Debt is counted again before the worker goes on to delete the signal.   *)
LEMMA ClosedAlarm ==
  ASSUME Rows, Alarm, NoNewDebt, NEW w \in Workers, Close(w)
  PROVE  Alarm'
<1>1. CASE Debt' = {}
  BY <1>1, NoDebtNoAlarm
<1>2. CASE Debt' # {}
  <2>1. signal' = Left /\ Moves(w, "idle", None)
    BY <1>2 DEF Close
  <2>2. signal'.here = signal.here /\ signal'.owner = None
    BY <2>1 DEF Left, Rows
  <2>3. \A v \in Workers : signal'.owner # v
    BY <2>2, ScanAssumption
  <2> QED  BY <2>2, <2>3, KeptAlarm
<1> QED  BY <1>1, <1>2

LEMMA SameRuns == ASSUME run' = run PROVE NoNewDebt
BY DEF NoNewDebt

LEMMA AlarmStep ==
  ASSUME Rows, Pairs, Alarm, [Next]_vars
  PROVE  Alarm'
<1>0. CASE UNCHANGED vars
  BY <1>0 DEF vars, Alarm, NoLostSignal, AckDone, Debt
<1>1. CASE Schedule
  <2>1. signal' = signal /\ worker' = worker
    BY <1>1 DEF Schedule
  <2>2. NoNewDebt
    <3>1. ~Collected(run'[allocated + 1])
      BY <1>1, ScheduleRuns, LeaseAssumption DEF Collected, NoRun
    <3> QED  BY <1>1, <3>1, ScheduleRuns DEF NoNewDebt
  <2> QED  BY <2>1, <2>2, KeptAlarm
<1>2. CASE Remind
  <2>1. worker' = worker /\ run' = run /\ (signal' = signal \/ signal' = Signalled)
    BY <1>2 DEF Remind, Ensured
  <2> QED  BY <2>1, SameRuns, KeptAlarm, RaisedAlarm
<1>3. CASE ExpireClaim
  <2>1. signal'.here = signal.here /\ signal'.owner = signal.owner
    BY <1>3 DEF ExpireClaim, Rows
  <2>2. worker' = worker /\ run' = run
    BY <1>3 DEF ExpireClaim
  <2> QED  BY <2>1, <2>2, SameRuns, KeptAlarm
<1>4. ASSUME NEW j \in Jobs, Lapse(j) PROVE Alarm'
  <2>1. signal' = signal /\ worker' = worker /\ run' = run
    BY <1>4 DEF Lapse
  <2> QED  BY <2>1, SameRuns, KeptAlarm
<1>5. ASSUME NEW j \in Jobs, Sweep(j) PROVE Alarm'
  <2>0. Terminal(job[j], TRUE) \in BOOLEAN
    BY DEF Terminal
  <2>1. worker' = worker /\ (signal' = signal \/ signal' = Signalled)
    BY <1>5 DEF Sweep, Failure
  <2>2. /\ \A i \in Jobs \ {j} : run'[i] = run[i]
        /\ run'[j].pages = run[j].pages /\ run'[j].reconciled = run[j].reconciled
    <3>1. LET p == [run[j] EXCEPT !.status = IF Terminal(job[j], TRUE) THEN "FAILED" ELSE "RUNNING"]
          IN p.pages = run[j].pages /\ p.reconciled = run[j].reconciled
      BY DEF Rows, RunRow
    <3> QED  BY <1>5, <2>0, <3>1, FailureRuns DEF Sweep
  <2>3. NoNewDebt
    BY <2>2 DEF NoNewDebt, Collected
  <2> QED  BY <2>1, <2>3, KeptAlarm, RaisedAlarm
<1>6. ASSUME NEW d \in Devices, NEW j \in Jobs, Claim(d, j) PROVE Alarm'
  <2>1. signal' = signal /\ worker' = worker /\ run' = run
    BY <1>6 DEF Claim
  <2> QED  BY <2>1, SameRuns, KeptAlarm
<1>7. ASSUME NEW d \in Devices, NEW j \in Jobs, Page(d, j) PROVE Alarm'
  <2>1. worker' = worker
    BY <1>7 DEF Page
  <2>2. CASE Collected(run'[j])
    BY <1>7, <2>2, RaisedAlarm DEF Page, PageDone
  <2>3. CASE ~Collected(run'[j])
    <3>1. signal' = signal
      BY <1>7, <2>3 DEF Page, PageDone
    <3>2. \A i \in Jobs \ {j} : run'[i] = run[i]
      BY <1>7 DEF Page, Rows
    <3>3. NoNewDebt
      BY <2>3, <3>2 DEF NoNewDebt
    <3> QED  BY <2>1, <3>1, <3>3, KeptAlarm
  <2> QED  BY <2>2, <2>3
<1>8. ASSUME NEW d \in Devices, NEW j \in Jobs, Reserve(d, j) PROVE Alarm'
  <2>1. signal' = signal /\ worker' = worker /\ run' = run
    BY <1>8 DEF Reserve
  <2> QED  BY <2>1, SameRuns, KeptAlarm
<1>9. ASSUME NEW d \in Devices, NEW j \in Jobs, NEW q \in BOOLEAN, FailJob(d, j, q) PROVE Alarm'
  <2>0. Terminal(job[j], q) \in BOOLEAN
    BY DEF Terminal
  <2>1. worker' = worker /\ (signal' = signal \/ signal' = Signalled)
    BY <1>9 DEF FailJob, Failure
  <2>2. /\ \A i \in Jobs \ {j} : run'[i] = run[i]
        /\ run'[j].pages = run[j].pages /\ run'[j].reconciled = run[j].reconciled
    <3>1. LET p == [run[j] EXCEPT !.status = IF Terminal(job[j], q) THEN "FAILED" ELSE "RUNNING"]
          IN p.pages = run[j].pages /\ p.reconciled = run[j].reconciled
      BY DEF Rows, RunRow
    <3> QED  BY <1>9, <2>0, <3>1, FailureRuns DEF FailJob
  <2>3. NoNewDebt
    BY <2>2 DEF NoNewDebt, Collected
  <2> QED  BY <2>1, <2>3, KeptAlarm, RaisedAlarm
<1>10. ASSUME NEW d \in Devices, Publish(d) PROVE Alarm'
  <2>0. serve[d].job \in Jobs
    BY <1>10 DEF Publish, Rows
  <2>1. signal' = signal /\ worker' = worker
    BY <1>10 DEF Publish
  <2>2. NoNewDebt
    BY <1>10, <2>0, AdvanceRuns DEF Publish, NoNewDebt, Collected
  <2> QED  BY <2>1, <2>2, KeptAlarm
<1>11. ASSUME NEW d \in Devices, Handoff(d) PROVE Alarm'
  BY <1>11, RaisedAlarm DEF Handoff
<1>12. ASSUME NEW d \in Devices, Finish(d) PROVE Alarm'
  <2>0. serve[d].job \in Jobs
    BY <1>12 DEF Finish, Rows
  <2>1. signal' = signal /\ worker' = worker
    BY <1>12 DEF Finish
  <2>2. \A i \in Jobs : run'[i].pages = run[i].pages /\ (run[i].reconciled => run'[i].reconciled)
    BY <1>12, <2>0 DEF Finish, Rows, RunRow
  <2>3. NoNewDebt
    BY <2>2 DEF NoNewDebt, Collected
  <2> QED  BY <2>1, <2>3, KeptAlarm
<1>13. ASSUME NEW w \in Workers, ClaimSignal(w) PROVE Alarm'
  <2>m. \A v \in Workers \ {w} : worker'[v] = worker[v]
    BY <1>13 DEF ClaimSignal, Moves, Rows
  <2>1. run' = run /\ signal'.here = signal.here /\ signal'.owner = w
    BY <1>13 DEF ClaimSignal, Rows
  <2>2. CASE Debt = {}
    <3>1. Debt' \subseteq Debt
      BY <2>1, SameRuns, DebtShrinks
    <3> QED  BY <2>2, <3>1, NoDebtNoAlarm
  <2>3. CASE Debt # {}
    <3>1. worker'[w].at # "ack"
      BY <1>13, <2>3 DEF ClaimSignal, Moves, Rows
    <3> QED  BY <2>1, <2>m, <3>1, SameRuns, KeptAlarm
  <2> QED  BY <2>2, <2>3
<1>14. ASSUME NEW w \in Workers, Step(w) PROVE Alarm'
  <2>m. \A v \in Workers \ {w} : worker'[v] = worker[v]
    BY <1>14 DEF Step, Moves, Rows
  <2>0. worker[w].gen \in Jobs
    BY <1>14 DEF Step, Rows
  <2>1. signal' = signal /\ worker'[w].at # "ack"
    BY <1>14 DEF Step, Moves, Rows
  <2>2. NoNewDebt
    BY <1>14, <2>0, AdvanceRuns DEF Step, NoNewDebt, Collected
  <2> QED  BY <2>1, <2>2, <2>m, KeptAlarm
<1>15. ASSUME NEW w \in Workers, Reconcile(w) PROVE Alarm'
  <2>0. worker[w].gen \in Jobs
    BY <1>15 DEF Reconcile, Rows
  <2>1. \A i \in Jobs : run'[i].pages = run[i].pages /\ (run[i].reconciled => run'[i].reconciled)
    BY <1>15, <2>0 DEF Reconcile, Rows, RunRow
  <2>2. NoNewDebt
    BY <2>1 DEF NoNewDebt, Collected
  <2> QED  BY <1>15, <2>2, ClosedAlarm DEF Reconcile
<1>16. ASSUME NEW w \in Workers, Stop(w) PROVE Alarm'
  BY <1>16, SameRuns, ClosedAlarm DEF Stop
<1>17. ASSUME NEW w \in Workers, Stale(w) PROVE Alarm'
  <2>m. \A v \in Workers \ {w} : worker'[v] = worker[v]
    BY <1>17 DEF Stale, Moves, Rows
  <2>1. signal' = signal /\ worker'[w].at # "ack" /\ run' = run
    BY <1>17 DEF Stale, Moves, Rows
  <2> QED  BY <2>1, <2>m, SameRuns, KeptAlarm
<1>18. ASSUME NEW w \in Workers, Ack(w) PROVE Alarm'
  <2>m. \A v \in Workers \ {w} : worker'[v] = worker[v]
    BY <1>18 DEF Ack, Moves, Rows
  <2>1. worker'[w].at # "ack" /\ run' = run
    BY <1>18 DEF Ack, Moves, Rows
  <2>2. CASE Owns(w)
    <3>1. Debt = {}
      BY <1>18, <2>2 DEF Ack, Owns, Alarm, AckDone
    <3>2. Debt' \subseteq Debt
      BY <2>1, SameRuns, DebtShrinks
    <3> QED  BY <3>1, <3>2, NoDebtNoAlarm
  <2>3. CASE ~Owns(w)
    <3>1. signal' = signal
      BY <1>18, <2>3 DEF Ack
    <3> QED  BY <2>1, <3>1, <2>m, SameRuns, KeptAlarm
  <2> QED  BY <2>2, <2>3
<1> QED  BY <1>0, <1>1, <1>2, <1>3, <1>4, <1>5, <1>6, <1>7, <1>8, <1>9, <1>10, <1>11, <1>12, <1>13, <1>14, <1>15, <1>16, <1>17, <1>18 DEF Next, DeviceStep, ServerStep, WorkerStep, Unit

-----------------------------------------------------------------------------
(* The inductive invariant.                                                *)
Scans == Rows /\ Pairs /\ Ready /\ Alarm

LEMMA ScansInit == Init => Scans
<1> SUFFICES ASSUME Init PROVE Scans
  OBVIOUS
<1>0. allocated = 0 /\ published = 0 /\ signal = NoSignal
  BY DEF Init
<1>1. Rows
  <2>1. job \in [Jobs -> GoodJob] /\ run \in [Jobs -> RunRow]
    BY NoJobType, NoRunType DEF Init
  <2>2. 0 \in Nat /\ allocated \in 0..Gens /\ published \in 0..allocated
    BY <1>0, ScanAssumption
  <2>3. hand \in [Devices -> [job : Jobs \cup {None}, rev : Nat]]
    BY <2>2 DEF Init, NoHand
  <2>4. signal \in [here : BOOLEAN, owner : Workers \cup {None}, live : BOOLEAN]
    BY <1>0 DEF NoSignal
  <2>5. /\ serve \in [Devices -> ServeRow]
        /\ \A d \in Devices : serve[d].at # "none" => serve[d].job \in Jobs
    BY <2>2 DEF Init, NoServe, ServeRow
  <2>6. /\ worker \in [Workers -> WorkerRow]
        /\ \A w \in Workers : worker[w].at \in {"step", "reconcile"} => worker[w].gen \in Jobs
    BY DEF Init, Idle, WorkerRow
  <2> QED  BY <2>1, <2>2, <2>3, <2>4, <2>5, <2>6 DEF Rows
<1>2. ASSUME NEW g \in Jobs PROVE Fits(g, job[g], run[g], allocated)
  <2>1. job[g].status = "ABSENT" /\ run[g].status = "ABSENT" /\ run[g].pages = 0 /\ ~run[g].reconciled
    BY DEF Init, NoJob, NoRun
  <2>2. ~Collected(run[g]) /\ ~Active(run[g]) /\ ~Closed(run[g])
    BY <2>1, LeaseAssumption DEF Collected, Active, Closed
  <2> QED  BY <2>1, <2>2 DEF Fits
<1>3. \A w \in Workers : worker[w].at = "idle"
  BY DEF Init, Idle
<1>4. Debt = {}
  BY LeaseAssumption DEF Debt, Collected, Init, NoRun
<1> QED  BY <1>1, <1>2, <1>3, <1>4 DEF Scans, Pairs, Ready, Alarm, NoLostSignal, AckDone

LEMMA ScansStep == Scans /\ [Next]_vars => Scans'
BY RowsStep, PairsStep, ReadyStep, AlarmStep DEF Scans

LEMMA ScansHold == Spec => []Scans
BY ScansInit, ScansStep, PTL DEF Spec

(* The rows of jobs, runs, signal, completions and workers keep their      *)
(* types, and no generation is published that was not planned.             *)
THEOREM TypeCorrect == Spec => []TypeOK
<1>1. Scans => TypeOK
  BY DEF Scans, Rows, TypeOK, GoodJob
<1> QED  BY <1>1, ScansHold, PTL

(* Whatever is collected and not yet settled has a signal that wakes       *)
(* maintenance, for any number of workers: a signal is only acknowledged   *)
(* by its owner, and later work takes it from its owner.                   *)
THEOREM SignalsKept == Spec => []NoLostSignal
<1>1. Scans => NoLostSignal
  BY DEF Scans, Alarm
<1> QED  BY <1>1, ScansHold, PTL

(* No scan is planned past a collected one that is still to be published.  *)
THEOREM NoneOvertaken == Spec => []NeverOvertaken
<1>1. Scans => NeverOvertaken
  BY DEF Scans, Pairs, Fits, NeverOvertaken
<1> QED  BY <1>1, ScansHold, PTL

(* A job is DONE exactly when its run is settled, only a published run is, *)
(* whether its device, a late completion or maintenance got there, and a   *)
(* scan that waits for pages has a job that a device holds or can claim.   *)
THEOREM JobsFitRuns == Spec => []JobFitsRun
<1>1. Scans => JobFitsRun
  BY DEF Scans, Pairs, Fits, JobFitsRun
<1> QED  BY <1>1, ScansHold, PTL

-----------------------------------------------------------------------------
(***************************************************************************)
(* What readers see.  A run is only closed by its publication or a newer   *)
(* one's, so the only collected run that can still be settled is the one   *)
(* that is published.                                                      *)
(***************************************************************************)
Shown == \A g \in Jobs : Closed(run[g]) => g <= published

(* A step that no reader sees.                                             *)
Unseen ==
  /\ published' = published
  /\ \A g \in Jobs : /\ Collected(run'[g]) <=> Collected(run[g])
                     /\ run'[g].reconciled <=> run[g].reconciled

LEMMA UnseenStutters == Unseen => UNCHANGED Promise!vars
BY DEF Unseen, Promise!vars

LEMMA Unsettled ==
  ASSUME Rows, Pairs, NEW g \in Jobs
  PROVE  /\ run[g].reconciled => Collected(run[g]) /\ Closed(run[g])
         /\ Collected(run[g]) /\ ~run[g].reconciled => g = allocated
         /\ ~Collected(run[g]) => ~run[g].reconciled
         /\ Active(run[g]) => g = allocated
         /\ g \in Nat /\ allocated \in Nat /\ published \in Nat
         /\ published <= allocated
<1>1. g \in Nat /\ allocated \in Nat /\ published \in 0..allocated
  BY ScanAssumption DEF Rows
<1>2. Fits(g, job[g], run[g], allocated)
  BY DEF Pairs
<1>3. g > allocated => ~Collected(run[g])
  BY <1>2, LeaseAssumption DEF Fits, Collected
<1> QED  BY <1>1, <1>2, <1>3 DEF Fits

LEMMA SettleShown ==
  ASSUME Rows, Pairs, Shown, NEW g \in Jobs, Closed(run[g]),
         run' = [run EXCEPT ![g].reconciled = TRUE], published' = published
  PROVE  Shown' /\ (Promise!Settle(g) \/ UNCHANGED Promise!vars)
<1>0. run[g] \in RunRow /\ \A i \in Jobs : i # g => run'[i] = run[i]
  BY DEF Rows
<1>1. /\ run'[g].reconciled
      /\ run'[g].pages = run[g].pages /\ run'[g].status = run[g].status
  BY <1>0 DEF Rows, RunRow
<1>2. Shown'
  BY <1>0, <1>1 DEF Shown, Closed
<1>3. /\ \A i \in Jobs : Collected(run'[i]) <=> Collected(run[i])
      /\ \A i \in Jobs : run'[i].reconciled <=> run[i].reconciled \/ i = g
  BY <1>0, <1>1 DEF Collected
<1>4. CASE run[g].reconciled
  <2>1. Unseen
    BY <1>3, <1>4 DEF Unseen
  <2> QED  BY <1>2, <2>1, UnseenStutters
<1>5. CASE ~run[g].reconciled
  <2>1. Collected(run[g])
    BY DEF Pairs, Fits
  <2>2. published = g
    <3>1. g <= published
      BY DEF Shown
    <3> QED  BY <1>5, <2>1, <3>1, Unsettled
  <2>3. /\ {i \in Jobs : Collected(run'[i])} = {i \in Jobs : Collected(run[i])}
        /\ {i \in Jobs : run'[i].reconciled}
             = {i \in Jobs : run[i].reconciled} \cup {g}
    BY <1>3
  <2>4. g \in {i \in Jobs : Collected(run[i])} \ {i \in Jobs : run[i].reconciled}
    BY <1>5, <2>1
  <2> QED  BY <1>2, <2>2, <2>3, <2>4 DEF Promise!Settle
<1> QED  BY <1>4, <1>5

LEMMA AdvanceShown ==
  ASSUME Rows, Pairs, Shown, NEW g \in Jobs, Advance(g)
  PROVE  Shown' /\ (Promise!Show(g) \/ UNCHANGED Promise!vars)
<1>1. \A i \in Jobs :
        /\ Collected(run'[i]) <=> Collected(run[i])
        /\ run'[i].reconciled <=> run[i].reconciled
  BY AdvanceRuns DEF Collected
<1>2. CASE published' = published /\ run' = run
  <2>1. Unseen
    BY <1>2 DEF Unseen
  <2> QED  BY <1>2, <2>1, UnseenStutters DEF Shown
<1>3. CASE /\ published' = published /\ ~Closed(run[g])
           /\ run' = [run EXCEPT ![g].phase = NextPhase(@)]
  <2>1. Unseen
    BY <1>1, <1>3 DEF Unseen
  <2>2. \A i \in Jobs : run'[i].status = run[i].status
    BY <1>3 DEF Rows, RunRow
  <2> QED  BY <1>3, <2>1, <2>2, UnseenStutters DEF Shown, Closed
<1>4. CASE /\ ~Closed(run[g]) /\ Collected(run[g]) /\ published < g
           /\ run' = Finalized(g) /\ published' = g
  <2>1. ~run[g].reconciled
    BY <1>4, Unsettled
  <2>2. /\ {i \in Jobs : Collected(run'[i])} = {i \in Jobs : Collected(run[i])}
        /\ {i \in Jobs : run'[i].reconciled} = {i \in Jobs : run[i].reconciled}
    BY <1>1
  <2>3. Promise!Show(g)
    BY <1>4, <2>1, <2>2 DEF Promise!Show
  <2>4. ASSUME NEW i \in Jobs, Closed(run'[i]) PROVE i <= g
    <3>0. i \in Nat /\ g \in Nat /\ published \in Nat
      BY Unsettled
    <3>1. i # g => Closed(run[i])
      BY <1>4, <2>4 DEF Finalized, Closed
    <3>2. i # g => i <= published
      BY <3>1 DEF Shown
    <3> QED  BY <1>4, <3>0, <3>2
  <2> QED  BY <1>4, <2>3, <2>4 DEF Shown
<1> QED  BY <1>2, <1>3, <1>4 DEF Advance

LEMMA FailureShown ==
  ASSUME Rows, Pairs, Shown, NEW j \in Jobs, NEW t \in BOOLEAN, Failure(j, t),
         published' = published
  PROVE  Shown' /\ UNCHANGED Promise!vars
<1>0. /\ run[j] \in RunRow /\ \A i \in Jobs \ {j} : run'[i] = run[i]
      /\ Closed(run[j]) => Collected(run[j])
  BY FailureRuns DEF Rows, Pairs, Fits
<1>1. CASE Collected(run[j])
  <2>1. \A i \in Jobs : run'[i] = run[i]
    BY <1>0, <1>1, FailureRuns
  <2>2. Unseen /\ Shown'
    BY <2>1 DEF Unseen, Shown
  <2> QED  BY <2>2, UnseenStutters
<1>2. CASE ~Collected(run[j])
  <2>1. run'[j] = [run[j] EXCEPT !.status = IF t THEN "FAILED" ELSE "RUNNING"]
    BY <1>2, FailureRuns
  <2>2. /\ run'[j].pages = run[j].pages /\ run'[j].reconciled = run[j].reconciled
        /\ run'[j].status \in {"FAILED", "RUNNING"}
    BY <1>0, <2>1 DEF RunRow
  <2>3. Unseen /\ Shown'
    BY <1>0, <2>2 DEF Unseen, Shown, Collected, Closed
  <2> QED  BY <2>3, UnseenStutters
<1> QED  BY <1>1, <1>2

LEMMA PageShown ==
  ASSUME Rows, Pairs, Shown, NEW d \in Devices, NEW j \in Jobs, Page(d, j)
  PROVE  Shown' /\ (Promise!Complete(j) \/ UNCHANGED Promise!vars)
<1>1. /\ Active(run[j]) /\ ~Collected(run[j]) /\ published' = published
      /\ run' = [run EXCEPT ![j].status = "RUNNING", ![j].pages = @ + 1]
  BY DEF Page
<1>2. run[j] \in RunRow /\ \A i \in Jobs : i # j => run'[i] = run[i]
  BY <1>1 DEF Rows
<1>3. run'[j].status = "RUNNING" /\ run'[j].reconciled = run[j].reconciled
  BY <1>1, <1>2 DEF Rows, RunRow
<1>4. Shown'
  BY <1>1, <1>2, <1>3 DEF Shown, Closed
<1>5. CASE ~Collected(run'[j])
  <2>1. Unseen
    BY <1>1, <1>2, <1>3, <1>5 DEF Unseen
  <2> QED  BY <1>4, <2>1, UnseenStutters
<1>6. CASE Collected(run'[j])
  <2>1. j = allocated
    BY <1>1, Unsettled
  <2>2. \A i \in Jobs : Collected(run[i]) <=> run[i].reconciled
    BY <1>1, <2>1, Unsettled
  <2>3. ASSUME NEW i \in Jobs, Collected(run[i]) PROVE i < j
    <3>1. i # j /\ i \in Nat /\ j \in Nat
      BY <1>1, <2>3, Unsettled
    <3>2. ~(i > allocated)
      BY <2>3, LeaseAssumption DEF Pairs, Fits, Collected
    <3> QED  BY <2>1, <3>1, <3>2
  <2>4. /\ {i \in Jobs : Collected(run[i])} = {i \in Jobs : run[i].reconciled}
        /\ {i \in Jobs : Collected(run'[i])}
             = {i \in Jobs : Collected(run[i])} \cup {j}
        /\ {i \in Jobs : run'[i].reconciled} = {i \in Jobs : run[i].reconciled}
    BY <1>2, <1>3, <1>6, <2>2
  <2>5. \A i \in {g \in Jobs : Collected(run[g])} : i < j
    BY <2>3
  <2> QED  BY <1>1, <1>4, <2>4, <2>5 DEF Promise!Complete
<1> QED  BY <1>5, <1>6

LEMMA ScheduleShown ==
  ASSUME Rows, Pairs, Shown, Schedule
  PROVE  Shown' /\ UNCHANGED Promise!vars
<1> DEFINE k == allocated + 1
<1>0. k \in Jobs /\ k > allocated /\ published' = published
  BY ScheduleRuns, ScanAssumption DEF Rows, Schedule
<1>1. /\ run'[k] = [NoRun EXCEPT !.status = "QUEUED"]
      /\ \A i \in Jobs : i # k => run'[i] = run[i]
  BY ScheduleRuns
<1>2. run'[k].pages = 0 /\ ~run'[k].reconciled /\ run'[k].status = "QUEUED"
  BY <1>1 DEF NoRun
<1>3. run[k].pages = 0 /\ ~run[k].reconciled
  BY <1>0 DEF Pairs, Fits
<1> HIDE DEF k
<1>4. Unseen /\ Shown'
  BY <1>0, <1>1, <1>2, <1>3 DEF Unseen, Shown, Collected, Closed
<1> QED  BY <1>4, UnseenStutters

LEMMA ShownStep ==
  ASSUME Rows, Pairs, Ready, Shown, [Next]_vars
  PROVE  Shown' /\ [Promise!Next]_Promise!vars
<1>1. ASSUME run' = run, published' = published
      PROVE  Shown' /\ [Promise!Next]_Promise!vars
  <2>1. Unseen /\ Shown'
    BY <1>1 DEF Unseen, Shown
  <2> QED  BY <2>1, UnseenStutters
<1>2. CASE Schedule
  BY <1>2, ScheduleShown
<1>3. ASSUME NEW j \in Jobs,
             Sweep(j) \/ \E d \in Devices, q \in BOOLEAN : FailJob(d, j, q)
      PROVE  Shown' /\ [Promise!Next]_Promise!vars
  <2>1. PICK t \in BOOLEAN : Failure(j, t) /\ published' = published
    <3>1. \A r, q : Terminal(r, q) \in BOOLEAN
      BY DEF Terminal
    <3> QED  BY <1>3, <3>1 DEF Sweep, FailJob
  <2> QED  BY <2>1, FailureShown
<1>4. ASSUME NEW d \in Devices, NEW j \in Jobs, Page(d, j)
      PROVE  Shown' /\ [Promise!Next]_Promise!vars
  BY <1>4, PageShown DEF Promise!Next
<1>5. ASSUME NEW d \in Devices, Publish(d)
      PROVE  Shown' /\ [Promise!Next]_Promise!vars
  <2>1. serve[d].job \in Jobs /\ Advance(serve[d].job)
    BY <1>5 DEF Publish, Rows
  <2> QED  BY <2>1, AdvanceShown DEF Promise!Next
<1>6. ASSUME NEW w \in Workers, Step(w)
      PROVE  Shown' /\ [Promise!Next]_Promise!vars
  <2>1. worker[w].gen \in Jobs /\ Advance(worker[w].gen)
    BY <1>6 DEF Step, Rows
  <2> QED  BY <2>1, AdvanceShown DEF Promise!Next
<1>7. ASSUME NEW d \in Devices, Finish(d)
      PROVE  Shown' /\ [Promise!Next]_Promise!vars
  <2>1. /\ serve[d].job \in Jobs /\ Closed(run[serve[d].job])
        /\ run' = [run EXCEPT ![serve[d].job].reconciled = TRUE]
        /\ published' = published
    BY <1>7 DEF Finish, Rows
  <2> QED  BY <2>1, SettleShown DEF Promise!Next
<1>8. ASSUME NEW w \in Workers, Reconcile(w)
      PROVE  Shown' /\ [Promise!Next]_Promise!vars
  <2>1. CASE run' = run
    BY <1>1, <1>8, <2>1 DEF Reconcile
  <2>2. CASE run' = [run EXCEPT ![worker[w].gen].reconciled = TRUE]
    <3>1. /\ worker[w].gen \in Jobs /\ Closed(run[worker[w].gen])
          /\ published' = published
      BY <1>8 DEF Reconcile, Rows, Ready
    <3> QED  BY <2>2, <3>1, SettleShown DEF Promise!Next
  <2> QED  BY <1>8, <2>1, <2>2 DEF Reconcile
<1>9. \/ run' = run /\ published' = published
      \/ Schedule
      \/ \E j \in Jobs :
           Sweep(j) \/ \E d \in Devices, q \in BOOLEAN : FailJob(d, j, q)
      \/ \E d \in Devices, j \in Jobs : Page(d, j)
      \/ \E d \in Devices : Publish(d) \/ Finish(d)
      \/ \E w \in Workers : Step(w) \/ Reconcile(w)
  BY DEF Next, vars, DeviceStep, ServerStep, WorkerStep, Unit, Remind,
         ExpireClaim, Lapse, Claim, Reserve, Handoff, ClaimSignal, Stop,
         Stale, Ack
<1> QED  BY <1>1, <1>2, <1>3, <1>4, <1>5, <1>6, <1>7, <1>8, <1>9

LEMMA ShownInit == Init => Shown /\ Promise!Init
<1> SUFFICES ASSUME Init PROVE Shown /\ Promise!Init
  OBVIOUS
<1>1. \A g \in Jobs : ~Collected(run[g]) /\ ~Closed(run[g]) /\ ~run[g].reconciled
  BY LeaseAssumption DEF Init, NoRun, Collected, Closed
<1>2. {g \in Jobs : Collected(run[g])} = {} /\ {g \in Jobs : run[g].reconciled} = {}
  BY <1>1
<1> QED  BY <1>1, <1>2 DEF Init, Shown, Promise!Init

(* The directory implements SnapshotHistory, for any number of scans,      *)
(* devices and workers: a scan is only published complete and after all    *)
(* older ones, none that is collected is passed over, and it is settled    *)
(* while it is the one that readers see.                                   *)
THEOREM Implements == Spec => Promised
<1>1. Init => Shown /\ Promise!Init
  BY ShownInit
<1>2. Scans /\ Shown /\ [Next]_vars => Shown' /\ [Promise!Next]_Promise!vars
  BY ShownStep DEF Scans
<1> QED  BY <1>1, <1>2, ScansHold, PTL DEF Spec, Promised, Promise!Spec
=============================================================================
