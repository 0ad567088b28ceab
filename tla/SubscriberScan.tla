---------------------------- MODULE SubscriberScan ----------------------------
(***************************************************************************)
(* Scans of one creator's subscribers: subscriber-directory-service.js,    *)
(* its maintenance and signal services, and the completion of a scan in    *)
(* job-lease-service.js.                                                   *)
(*                                                                         *)
(* A scan is a run with a job of its own.  Its job's device commits the    *)
(* provider's pages; once the last one is there the run is collected and   *)
(* has to be published, in phases of a transaction each, after which the   *)
(* job is DONE.  The request that completes the job publishes what it can  *)
(* and hands the rest over to maintenance, which also takes over when the  *)
(* device fails, disappears or never asks.  What wakes maintenance is one  *)
(* signal row per creator: a new signal takes the row from its owner.      *)
(*                                                                         *)
(* Runs and jobs are named by their generation.  currentRunId and          *)
(* publishedGeneration change together and are one variable.  A phase of   *)
(* several batches is one step, and CURRENT and PREVIOUS, which copy the   *)
(* members of a run, are one phase.  Left out: publishers without source   *)
(* proof and their recollection, signals of other kinds, quarantine after  *)
(* a hundred errors, recovery intents, the planner's refusal after a       *)
(* failure (a user's request overrides it), releaseJob, the second signal  *)
(* of a failure, which repeats the first, jobs that are cancelled because  *)
(* an earlier policy planned them, and runs without a job.                 *)
(***************************************************************************)
EXTENDS JobLease, FiniteSets

CONSTANTS
  Gens,    \* bound on the generations
  Workers  \* maintenance workers

ASSUME ScanAssumption ==
  Gens \in Nat /\ Jobs = 1..Gens /\ None = 0 /\ None \notin Workers

VARIABLES
  hand,      \* the lease a device holds
  run,       \* SubscriberScanRun rows
  allocated, \* publicationGeneration of SubscriberDirectoryState
  published, \* publishedGeneration and currentRunId
  signal,    \* SubscriberDirectoryMaintenanceSignal row, kind RECOVERY
  serve,     \* the completion a device has asked for
  worker     \* maintenance workers

vars == <<job, hand, run, allocated, published, signal, serve, worker>>

NoHand == [job |-> None, rev |-> 0]

NoServe == [at |-> "none", job |-> None, rev |-> 0]

Idle == [at |-> "idle", gen |-> None]

NoRun == [status |-> "ABSENT", pages |-> 0, phase |-> "PENDING", reconciled |-> FALSE]

Active(r) == r.status \in {"QUEUED", "RUNNING"}

Collected(r) == r.pages = Pages

Closed(r) == r.status \in {"PUBLISHED", "SUPERSEDED"}

(* subscriberPublicationDebtWhere: what keeps the next scan from starting. *)
Debt == {g \in Jobs : Collected(run[g]) /\ ~run[g].reconciled}

Latest(S) == CHOOSE g \in S : \A h \in S : h <= g

Put(j, r) == job' = [job EXCEPT ![j] = r]

-----------------------------------------------------------------------------
(* The signal row.                                                         *)
NoSignal == [here |-> FALSE, owner |-> None, live |-> FALSE]

Signalled == [here |-> TRUE, owner |-> None, live |-> FALSE]

(* ensureSubscriberDirectoryMaintenance leaves a row alone.                *)
Ensured == IF signal.here THEN signal ELSE Signalled

(* Mutant: the claim token and the revision are not compared.              *)
OwnsLoosely(w) == signal.here

Owns(w) == signal.here /\ signal.owner = w /\ signal.live

ExpireClaim ==
  /\ signal.live
  /\ signal' = [signal EXCEPT !.live = FALSE]
  /\ UNCHANGED <<job, hand, run, allocated, published, serve, worker>>

-----------------------------------------------------------------------------
(* Planning.                                                               *)

(* Mutant: unpublished scans are not looked at.                            *)
MayScheduleAlways ==
  \A g \in Jobs : Active(run[g]) => job[g].status \notin {"SCHEDULED", "CLAIMED"}

MaySchedule ==
  /\ Debt = {}
  /\ \A g \in Jobs : Active(run[g]) =>
       job[g].status \notin {"SCHEDULED", "CLAIMED", "PUBLISHING"}

(* An active run whose job has ended is failed on the way.                 *)
Orphaned == [g \in Jobs |-> IF Active(run[g]) THEN [run[g] EXCEPT !.status = "FAILED"]
                            ELSE run[g]]

Schedule ==
  /\ allocated < Gens /\ MaySchedule
  /\ allocated' = allocated + 1
  /\ run' = [Orphaned EXCEPT ![allocated + 1] = [NoRun EXCEPT !.status = "QUEUED"]]
  /\ Put(allocated + 1, New(NoJob))
  /\ UNCHANGED <<hand, published, signal, serve, worker>>

(* A request for a scan, or planning, finds one that is to be published.   *)
Remind ==
  /\ Debt # {} \/ \E g \in Jobs : job[g].status = "PUBLISHING"
  /\ signal' = Ensured
  /\ UNCHANGED <<job, hand, run, allocated, published, serve, worker>>

-----------------------------------------------------------------------------
(* The device.  It may crash at any moment and forget what it held, and    *)
(* claim again: a lease it holds is replaced by the next.                  *)
Claim(d, j) ==
  /\ Claimable(job[j])
  /\ Put(j, Claimed(job[j], d))
  /\ hand' = [hand EXCEPT ![d] = [job |-> j, rev |-> job[j].rev + 1]]
  /\ UNCHANGED <<run, allocated, published, signal, serve, worker>>

Lapse(j) ==
  /\ Lapses(job[j])
  /\ Put(j, [job[j] EXCEPT !.live = FALSE])
  /\ UNCHANGED <<hand, run, allocated, published, signal, serve, worker>>

PageDone(r) == IF Collected(r) THEN Signalled ELSE signal

(* applySubscriberScanChunk.  A page that was committed before is          *)
(* answered and changes nothing.                                           *)
Page(d, j) ==
  /\ hand[d].job = j /\ LeasedNow(job[j], d, hand[d].rev)
  /\ Active(run[j]) /\ ~Collected(run[j])
  /\ run' = [run EXCEPT ![j].status = "RUNNING", ![j].pages = @ + 1]
  /\ Put(j, [job[j] EXCEPT !.attempts = 0])
  /\ signal' = PageDone(run'[j])
  /\ UNCHANGED <<hand, allocated, published, serve, worker>>

(* recordSubscriberScanFailure: a collected run is not failed.             *)
Failure(j, terminal) ==
  IF Collected(run[j])
  THEN /\ signal' = IF Closed(run[j]) THEN signal ELSE Signalled
       /\ run' = run
  ELSE /\ run' = [run EXCEPT ![j].status = IF terminal THEN "FAILED" ELSE "RUNNING"]
       /\ signal' = signal

FailJob(d, j, retryable) ==
  /\ hand[d].job = j /\ Leased(job[j], d, hand[d].rev)
  /\ Put(j, Attempted(job[j], retryable))
  /\ Failure(j, Terminal(job[j], retryable))
  /\ hand' = [hand EXCEPT ![d] = NoHand]
  /\ UNCHANGED <<allocated, published, serve, worker>>

Sweep(j) ==
  /\ Sweepable(job[j])
  /\ Put(j, Attempted(job[j], TRUE))
  /\ Failure(j, Terminal(job[j], TRUE))
  /\ UNCHANGED <<hand, allocated, published, serve, worker>>

-----------------------------------------------------------------------------
(* Publication, advanceSubscriberPublication.                              *)
NextPhase(phase) == IF phase = "PENDING" THEN "MEMBERS" ELSE "FINALIZE"

Finalized(g) ==
  [h \in Jobs |->
     CASE h = g -> [run[h] EXCEPT !.status = "PUBLISHED", !.phase = "COMPLETE"]
       [] h = published /\ run[h].status = "PUBLISHED" -> [run[h] EXCEPT !.status = "SUPERSEDED"]
       [] OTHER -> run[h]]

(* One transaction under the creator's lock.  It fails on a run that is    *)
(* not collected and on one that a newer generation has overtaken, which   *)
(* it closes once the newer one is published: NeverOvertaken says that     *)
(* neither comes about.                                                    *)
Advance(g) ==
  \/ /\ Closed(run[g])
     /\ UNCHANGED <<run, published>>
  \/ /\ ~Closed(run[g]) /\ Collected(run[g]) /\ allocated = g
     /\ run[g].phase # "FINALIZE"
     /\ run' = [run EXCEPT ![g].phase = NextPhase(@)]
     /\ published' = published
  \/ /\ ~Closed(run[g]) /\ Collected(run[g]) /\ allocated = g
     /\ run[g].phase = "FINALIZE" /\ published < g
     /\ run' = Finalized(g)
     /\ published' = g

(* The completion of a job: the lease is reserved in its own transaction,  *)
(* what follows runs outside of it.  Its server may stop at any step, and  *)
(* the device may claim again meanwhile.                                   *)
Reserve(d, j) ==
  /\ hand[d].job = j /\ LeasedNow(job[j], d, hand[d].rev)
  /\ Put(j, [job[j] EXCEPT !.rev = @ + 1])
  /\ hand' = [hand EXCEPT ![d] = NoHand]
  /\ serve' = [serve EXCEPT ![d] = [at |-> "publish", job |-> j, rev |-> job[j].rev + 1]]
  /\ UNCHANGED <<run, allocated, published, signal, worker>>

(* Neither the lease nor the signal is looked at here.                     *)
Publish(d) ==
  /\ serve[d].at = "publish"
  /\ Advance(serve[d].job)
  /\ serve' = [serve EXCEPT ![d].at =
                 IF run'[serve[d].job].status = "PUBLISHED" THEN "finish" ELSE @]
  /\ UNCHANGED <<job, hand, allocated, signal, worker>>

Reserved(d) == LeasedNow(job[serve[d].job], d, serve[d].rev)

(* The budget of steps is spent, as the publisher saw it: another may have *)
(* finished meanwhile.  Maintenance is signalled whether or not the lease  *)
(* is still there.                                                         *)
Handoff(d) ==
  /\ serve[d].at = "publish" /\ Collected(run[serve[d].job])
  /\ job' = IF Reserved(d)
            THEN [job EXCEPT ![serve[d].job] = Vacated(@, "PUBLISHING")] ELSE job
  /\ signal' = Signalled
  /\ serve' = [serve EXCEPT ![d] = NoServe]
  /\ UNCHANGED <<hand, run, allocated, published, worker>>

Finish(d) ==
  /\ serve[d].at = "finish" /\ Reserved(d)
  /\ Closed(run[serve[d].job])
  /\ Put(serve[d].job, Vacated(job[serve[d].job], "DONE"))
  /\ run' = [run EXCEPT ![serve[d].job].reconciled = TRUE]
  /\ serve' = [serve EXCEPT ![d] = NoServe]
  /\ UNCHANGED <<hand, allocated, published, signal, worker>>

-----------------------------------------------------------------------------
(* Maintenance, processRecovery and recoverSubscriberPublicationDebt.      *)
Moves(w, at, g) == worker' = [worker EXCEPT ![w] = [at |-> at, gen |-> g]]

Left == [signal EXCEPT !.owner = None, !.live = FALSE]

(* hasSubscriberPublicationDebt: the signal is released while something is *)
(* left to do, and otherwise acked, later and without another look.  That  *)
(* it is asked in a transaction of its own makes no difference: what comes *)
(* in between signals anew, and the claim is lost.                         *)
Close(w) ==
  IF Debt' = {}
  THEN Moves(w, "ack", None) /\ signal' = signal
  ELSE Moves(w, "idle", None) /\ signal' = Left

(* The candidate is read outside of every lock.                            *)
ClaimSignal(w) ==
  /\ worker[w] = Idle /\ signal.here /\ ~signal.live
  /\ signal' = [signal EXCEPT !.owner = w, !.live = TRUE]
  /\ IF Debt = {} THEN Moves(w, "ack", None)
     ELSE LET g == Latest(Debt)
          IN Moves(w, IF Closed(run[g]) THEN "reconcile" ELSE "step", g)
  /\ UNCHANGED <<job, hand, run, allocated, published, serve>>

Step(w) ==
  /\ worker[w].at = "step" /\ Owns(w)
  /\ Advance(worker[w].gen)
  /\ Moves(w, IF Closed(run'[worker[w].gen]) THEN "reconcile" ELSE "step", worker[w].gen)
  /\ UNCHANGED <<job, hand, allocated, signal, serve>>

(* Mutant: a lease that ran out keeps its job from being reconciled.       *)
BusyForever(r) == r.status = "CLAIMED"

Busy(r) == r.status = "CLAIMED" /\ r.live

(* reconcileRecoveredSubscriberPublicationJob: the job is DONE, whatever   *)
(* became of its attempts, unless a device is at work on it.  A CANCELLED  *)
(* or missing job, of which only the run is marked, does not come about.   *)
Reconcile(w) ==
  /\ worker[w].at = "reconcile" /\ Owns(w)
  /\ LET g == worker[w].gen
     IN IF Busy(job[g])
        THEN UNCHANGED <<job, run>>
        ELSE /\ Put(g, Vacated(job[g], "DONE"))
             /\ run' = [run EXCEPT ![g].reconciled = TRUE]
  /\ Close(w)
  /\ UNCHANGED <<hand, allocated, published, serve>>

(* The time slice is over.                                                 *)
Stop(w) ==
  /\ worker[w].at \in {"step", "reconcile"} /\ Owns(w)
  /\ UNCHANGED <<job, hand, run, allocated, published, serve>>
  /\ Close(w)

(* The claim went to a new signal or ran out: nothing more is written.     *)
Stale(w) ==
  /\ worker[w].at \in {"step", "reconcile"} /\ ~Owns(w)
  /\ Moves(w, "idle", None)
  /\ UNCHANGED <<job, hand, run, allocated, published, signal, serve>>

Ack(w) ==
  /\ worker[w].at = "ack"
  /\ signal' = IF Owns(w) THEN NoSignal ELSE signal
  /\ Moves(w, "idle", None)
  /\ UNCHANGED <<job, hand, run, allocated, published, serve>>

-----------------------------------------------------------------------------
Init ==
  /\ job = [j \in Jobs |-> NoJob]
  /\ hand = [d \in Devices |-> NoHand]
  /\ run = [g \in Jobs |-> NoRun]
  /\ allocated = 0 /\ published = 0
  /\ signal = NoSignal
  /\ serve = [d \in Devices |-> NoServe]
  /\ worker = [w \in Workers |-> Idle]

DeviceStep(d) ==
  \E j \in Jobs :
    \/ Claim(d, j) \/ Page(d, j) \/ Reserve(d, j)
    \/ \E retryable \in BOOLEAN : FailJob(d, j, retryable)

ServerStep(d) == Publish(d) \/ Handoff(d) \/ Finish(d)

Unit(w) == Step(w) \/ Reconcile(w)

WorkerStep(w) ==
  \/ ClaimSignal(w) \/ Unit(w) \/ Stop(w) \/ Stale(w) \/ Ack(w)

Next ==
  \/ Schedule \/ Remind \/ ExpireClaim
  \/ \E j \in Jobs : Lapse(j) \/ Sweep(j)
  \/ \E d \in Devices : DeviceStep(d) \/ ServerStep(d)
  \/ \E w \in Workers : WorkerStep(w)

(* The pump runs again and again and admits one unit of work per claim; a  *)
(* claim runs out; no device renews its lease for ever.                    *)
Fairness ==
  /\ WF_vars(\E w \in Workers : WorkerStep(w))
  /\ SF_vars(\E w \in Workers : Unit(w))
  /\ WF_vars(ExpireClaim)
  /\ WF_vars(\E j \in Jobs : Lapse(j))

Spec == Init /\ [][Next]_vars

FairSpec == Spec /\ Fairness

-----------------------------------------------------------------------------
JobRow ==
  [status : {"ABSENT", "SCHEDULED", "CLAIMED", "PUBLISHING", "DONE", "FAILED"},
   attempts : 0..MaxAttempts, rev : Nat, device : Devices \cup {None}, live : BOOLEAN,
   cursor : {0}, released : {0}]

RunRow ==
  [status : {"ABSENT", "QUEUED", "RUNNING", "FAILED", "PUBLISHED", "SUPERSEDED"},
   pages : 0..Pages, phase : {"PENDING", "MEMBERS", "FINALIZE", "COMPLETE"},
   reconciled : BOOLEAN]

ServeRow == [at : {"none", "publish", "finish"}, job : Jobs \cup {None}, rev : Nat]

WorkerRow == [at : {"idle", "step", "reconcile", "ack"}, gen : Jobs \cup {None}]

TypeOK ==
  /\ job \in [Jobs -> JobRow]
  /\ hand \in [Devices -> [job : Jobs \cup {None}, rev : Nat]]
  /\ run \in [Jobs -> RunRow]
  /\ allocated \in 0..Gens /\ published \in 0..allocated
  /\ signal \in [here : BOOLEAN, owner : Workers \cup {None}, live : BOOLEAN]
  /\ serve \in [Devices -> ServeRow]
  /\ worker \in [Workers -> WorkerRow]

(* Whatever is collected and not yet settled has a signal that wakes       *)
(* maintenance: no acknowledgement takes away the signal of later work.    *)
NoLostSignal == Debt # {} => signal.here

(* No new scan is planned while a collected one is unpublished, which it   *)
(* would overtake and stop for good.                                       *)
NeverOvertaken ==
  \A g \in Jobs : Collected(run[g]) /\ ~Closed(run[g]) => g = allocated

(* The job is DONE exactly when its run is settled, and only a published   *)
(* run is: no device is given a scan again that has been published, by     *)
(* whomever, and none is called done that was not.  And a scan that waits  *)
(* for pages has a job that a device holds or can claim, so that it cannot *)
(* keep later scans from starting for ever.                                *)
JobFitsRun ==
  \A g \in Jobs :
    /\ (job[g].status = "DONE") <=> run[g].reconciled
    /\ run[g].reconciled => Closed(run[g])
    /\ Active(run[g]) /\ ~Collected(run[g]) =>
         job[g].status = "CLAIMED" \/ Claimable(job[g])

Promise == INSTANCE SnapshotHistory WITH
  Snapshots <- Jobs, complete <- {g \in Jobs : Collected(run[g])},
  shown <- published, settled <- {g \in Jobs : run[g].reconciled}

(* What readers of the directory get: every scan that is collected is      *)
(* published before the next is, by whomever, none before it is complete   *)
(* and none after a newer one, and only what is published is settled.      *)
Promised == Promise!Spec

(* A collected scan is published and its job settled, even if its device   *)
(* is never heard of again: what keeps the next scan from starting ends.   *)
DebtIsPaid == Debt # {} ~> Debt = {}
=============================================================================
