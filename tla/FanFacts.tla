------------------------------- MODULE FanFacts -------------------------------
(***************************************************************************)
(* Refresh jobs for the fans of one creator: fan-observation-read-lease-   *)
(* service.js, fan-observation-token-service.js, fan-data-batch-           *)
(* authority.js and the projection of fan-data-authority-service.js.       *)
(*                                                                         *)
(* A device reads a fan's profile from the provider while it holds the     *)
(* creator's only read lease, turns the lease in for a one-time token that *)
(* carries the time of the observation, and stores the fact with the token *)
(* in its job's next page.  Two jobs of two devices may read the same fan  *)
(* at about the same time and store what they read much later; the fact    *)
(* that was read later must win.  A fan somebody else has observed since   *)
(* the job was created need not be read again.                             *)
(*                                                                         *)
(* The provider's state of the creator's fans is a version, truth.         *)
(* Observation times are the creator's clock, which grows with every       *)
(* token.  A device reads the fan at its cursor; it may read further ahead *)
(* in the code, and profiles that fail for good, which advance the cursor  *)
(* without a fact, are left out.                                           *)
(***************************************************************************)
EXTENDS JobLease

CONSTANTS
  Spent,    \* attempts of a job that is already under way, 0 for a new one
  MaxTruth, \* bound on the changes at the provider
  MaxReads  \* bound on the read leases

ASSUME FactAssumption ==
  /\ Spent \in [Jobs -> 0..MaxAttempts - 1]
  /\ MaxTruth \in Nat /\ MaxReads \in Nat

VARIABLES
  hand,    \* what a device knows of its lease, its read and its token
  created, \* createdAt of a job
  truth,   \* version of the provider's data
  fact,    \* CreatorFanValueCurrent: the version stored and when it was seen
  clock,   \* FanObservationCreatorClock
  read,    \* FanObservationReadLease row of the creator
  reads,   \* read leases so far
  tokens   \* FanObservationToken rows

vars == <<job, hand, created, truth, fact, clock, read, reads, tokens>>

Fans == 1..Pages

NoHand == [job |-> None, rev |-> 0, cursor |-> 0, lease |-> 0, saw |-> 0, at |-> 0]

NoRead == [id |-> 0, job |-> None, device |-> None, rev |-> 0, fresh |-> FALSE]

Put(j, r) == job' = [job EXCEPT ![j] = r]

Knows(d, h) == hand' = [hand EXCEPT ![d] = h]

(* The answer of a request may be lost.  Where that leaves the device with *)
(* what a crash or Forget would leave it, it is not told apart.            *)
Hears(d, h) == Knows(d, h) \/ UNCHANGED hand

Anew(h) == [h EXCEPT !.lease = 0, !.saw = 0, !.at = 0]

Has(d, j) == hand[d].job = j /\ Leased(job[j], d, hand[d].rev)

HasNow(d, j) == hand[d].job = j /\ LeasedNow(job[j], d, hand[d].rev)

Target(d) == hand[d].cursor + 1

More(d) == hand[d].cursor < Pages

observed == <<truth, fact, clock, read, reads, tokens>>

-----------------------------------------------------------------------------
Schedule(j) ==
  /\ job[j].status = "ABSENT"
  /\ Put(j, New(job[j]))
  /\ created' = [created EXCEPT ![j] = clock]
  /\ UNCHANGED <<hand, observed>>

(* A worker that has nothing to do asks for a job.                         *)
Claim(d, j) ==
  /\ hand[d] = NoHand /\ Claimable(job[j])
  /\ Put(j, Claimed(job[j], d))
  /\ Knows(d, [NoHand EXCEPT !.job = j, !.rev = job[j].rev + 1,
                              !.cursor = job[j].cursor])
  /\ UNCHANGED <<created, observed>>

Lapse(j) ==
  /\ Lapses(job[j])
  /\ Put(j, [job[j] EXCEPT !.live = FALSE])
  /\ UNCHANGED <<hand, created, observed>>

(* The read lease of a job's lease goes when that lease is given up.       *)
Dropped(j) ==
  IF read.job = j /\ read.rev = job[j].rev THEN NoRead ELSE read

Sweep(j) ==
  /\ Sweepable(job[j])
  /\ Put(j, Attempted(job[j], TRUE))
  /\ read' = Dropped(j)
  /\ UNCHANGED <<hand, created, truth, fact, clock, reads, tokens>>

AtCursor(d, j) == job[j].cursor = hand[d].cursor

FailJob(d, j, retryable) ==
  /\ Has(d, j) /\ AtCursor(d, j)
  /\ Put(j, Attempted(job[j], retryable))
  /\ read' = Dropped(j)
  /\ Hears(d, NoHand)
  /\ UNCHANGED <<created, truth, fact, clock, reads, tokens>>

ReleaseJob(d, j) ==
  /\ Has(d, j) /\ \A i \in Jobs : job[i].released < MaxReleases
  /\ Put(j, GivenBack(job[j]))
  /\ read' = Dropped(j)
  /\ Hears(d, NoHand)
  /\ UNCHANGED <<created, truth, fact, clock, reads, tokens>>

-----------------------------------------------------------------------------
MyRead(d, j) ==
  /\ read.job = j /\ read.device = d /\ read.rev = hand[d].rev

(* INSERT ... ON CONFLICT: an expired row is replaced, a live one is not.  *)
Acquire(d, j) ==
  /\ HasNow(d, j) /\ More(d) /\ hand[d].lease = 0 /\ hand[d].at = 0
  /\ ~read.fresh /\ reads < MaxReads
  /\ reads' = reads + 1
  /\ read' = [id |-> reads + 1, job |-> j, device |-> d, rev |-> hand[d].rev,
              fresh |-> TRUE]
  /\ Hears(d, [hand[d] EXCEPT !.lease = reads + 1])
  /\ UNCHANGED <<job, created, truth, fact, clock, tokens>>

(* The same request again: sameAcquire gives the token again.              *)
AcquireAgain(d, j) ==
  /\ HasNow(d, j) /\ More(d) /\ hand[d].lease = 0 /\ hand[d].at = 0
  /\ MyRead(d, j) /\ read.fresh
  /\ Knows(d, [hand[d] EXCEPT !.lease = read.id])
  /\ UNCHANGED <<job, created, observed>>

LapseRead ==
  /\ read.fresh
  /\ read' = [read EXCEPT !.fresh = FALSE]
  /\ UNCHANGED <<job, hand, created, truth, fact, clock, reads, tokens>>

(* The keepalive of the job extends its read lease, expired or not.        *)
RenewLease(d, j) ==
  /\ HasNow(d, j) /\ MyRead(d, j) /\ ~read.fresh
  /\ read' = [read EXCEPT !.fresh = TRUE]
  /\ UNCHANGED <<job, hand, created, truth, fact, clock, reads, tokens>>

TruthMoves ==
  /\ truth < MaxTruth
  /\ truth' = truth + 1
  /\ UNCHANGED <<job, hand, created, fact, clock, read, reads, tokens>>

(* The device asks the provider.                                           *)
Observe(d) ==
  /\ hand[d].lease # 0 /\ hand[d].saw = 0
  /\ Knows(d, [hand[d] EXCEPT !.saw = truth])
  /\ UNCHANGED <<job, created, observed>>

(* Mutant: the token is given without the read lease, as to old clients.   *)
ReadNotRequired(d, j) == TRUE

HoldsRead(d, j) == MyRead(d, j) /\ read.fresh /\ read.id = hand[d].lease

(* The read lease is exchanged for the token.  A lost answer costs both.   *)
Issue(d, j) ==
  /\ HasNow(d, j) /\ hand[d].saw # 0 /\ hand[d].lease # 0
  /\ HoldsRead(d, j)
  /\ clock' = clock + 1
  /\ read' = NoRead
  /\ \/ /\ Knows(d, [hand[d] EXCEPT !.lease = 0, !.at = clock + 1])
        /\ tokens' = tokens \cup {[job |-> j, device |-> d, rev |-> hand[d].rev,
                                   fan |-> Target(d), at |-> clock + 1]}
     \/ UNCHANGED <<hand, tokens>>
  /\ UNCHANGED <<job, created, truth, fact, reads>>

(* A token its device has forgotten is left out: nobody can present it.    *)
Remembered(d) == {t \in tokens : \E e \in Devices \ {d} : hand[e].at = t.at}

(* The device gives the read lease back without having read the fan.       *)
ReturnRead(d, j) ==
  /\ Has(d, j) /\ MyRead(d, j) /\ read.id = hand[d].lease
  /\ read' = NoRead
  /\ Hears(d, Anew(hand[d]))
  /\ UNCHANGED <<job, created, truth, fact, clock, reads, tokens>>

(* The device starts over with the fan, after any refusal or delay.        *)
Forget(d) ==
  /\ hand[d].lease # 0 /\ read.id # hand[d].lease
  /\ Knows(d, Anew(hand[d]))
  /\ UNCHANGED <<job, created, observed>>

-----------------------------------------------------------------------------
(* newerVersionWhere: a fact is replaced by one observed later.            *)
Newer(f, t) == t.at > f.at

Advanced(d, j) == [job[j] EXCEPT !.cursor = hand[d].cursor + 1]

(* progressJob with a token: the token is consumed, the fact stored and    *)
(* the cursor moved in one transaction.                                    *)
Store(d, j) ==
  /\ HasNow(d, j) /\ More(d) /\ AtCursor(d, j)
  /\ \E t \in tokens :
       /\ t.at = hand[d].at /\ t.job = j /\ t.device = d
       /\ t.rev = hand[d].rev /\ t.fan = Target(d)
       /\ tokens' = tokens \ {t}
       /\ fact' = IF Newer(fact[t.fan], t)
                  THEN [fact EXCEPT ![t.fan] = [at |-> t.at, saw |-> hand[d].saw]]
                  ELSE fact
  /\ Put(j, Advanced(d, j))
  /\ Hears(d, [Anew(hand[d]) EXCEPT !.cursor = @ + 1])
  /\ UNCHANGED <<created, truth, clock, read, reads>>

(* Mutant: any known fact is fresh.                                        *)
FreshIfKnown(f, j) == f.at > 0

(* compatibleFieldsSatisfied, with the job's creation as the cutoff.       *)
Fresh(f, j) == f.at > created[j]

(* progressJob with a fan that need not be read: the server looks again.   *)
Reuse(d, j) ==
  /\ HasNow(d, j) /\ More(d) /\ AtCursor(d, j)
  /\ Fresh(fact[Target(d)], j)
  /\ Put(j, Advanced(d, j))
  /\ Hears(d, [Anew(hand[d]) EXCEPT !.cursor = @ + 1])
  /\ UNCHANGED <<created, observed>>

(* progressJob or failJob with a cursor that is behind: nothing is applied *)
(* and the committed cursor is the answer.                                 *)
Learn(d, j) ==
  /\ Has(d, j) /\ ~AtCursor(d, j)
  /\ Knows(d, [Anew(hand[d]) EXCEPT !.cursor = job[j].cursor])
  /\ UNCHANGED <<job, created, observed>>

CompleteJob(d, j) ==
  /\ HasNow(d, j) /\ ~More(d)
  /\ Put(j, [Vacated(job[j], "DONE") EXCEPT !.rev = @ + 1])
  /\ Knows(d, NoHand)
  /\ UNCHANGED <<created, observed>>

Crash(d) ==
  /\ hand[d] # NoHand
  /\ Knows(d, NoHand)
  /\ tokens' = Remembered(d)
  /\ UNCHANGED <<job, created, truth, fact, clock, read, reads>>

-----------------------------------------------------------------------------
Begun(n) == [NoJob EXCEPT !.status = "SCHEDULED", !.attempts = n, !.rev = n]

Init ==
  /\ job = [j \in Jobs |-> IF Spent[j] = 0 THEN NoJob ELSE Begun(Spent[j])]
  /\ hand = [d \in Devices |-> NoHand]
  /\ created = [j \in Jobs |-> 0]
  /\ truth = 1
  /\ fact = [p \in Fans |-> [at |-> 0, saw |-> 0]]
  /\ clock = 0
  /\ read = NoRead
  /\ reads = 0
  /\ tokens = {}

DeviceStep(d, j) ==
  \/ Claim(d, j) \/ ReleaseJob(d, j)
  \/ \E retryable \in BOOLEAN : FailJob(d, j, retryable)
  \/ Acquire(d, j) \/ AcquireAgain(d, j) \/ RenewLease(d, j)
  \/ Issue(d, j) \/ ReturnRead(d, j)
  \/ Store(d, j) \/ Reuse(d, j) \/ Learn(d, j) \/ CompleteJob(d, j)

Next ==
  \/ \E j \in Jobs : Schedule(j) \/ Lapse(j) \/ Sweep(j)
  \/ \E d \in Devices :
       \/ Observe(d) \/ Forget(d) \/ Crash(d)
       \/ \E j \in Jobs : DeviceStep(d, j)
  \/ LapseRead \/ TruthMoves

Spec == Init /\ [][Next]_vars

-----------------------------------------------------------------------------
JobRow ==
  [status : {"ABSENT", "SCHEDULED", "CLAIMED", "DONE", "FAILED"},
   attempts : 0..MaxAttempts, rev : Nat, device : Devices \cup {None}, live : BOOLEAN,
   cursor : 0..Pages, released : 0..MaxReleases]

HandRow ==
  [job : Jobs \cup {None}, rev : Nat, cursor : 0..Pages, lease : Nat, saw : Nat, at : Nat]

ReadRow ==
  [id : Nat, job : Jobs \cup {None}, device : Devices \cup {None}, rev : Nat, fresh : BOOLEAN]

TokenRow == [job : Jobs, device : Devices, rev : Nat, fan : Fans, at : Nat]

TypeOK ==
  /\ job \in [Jobs -> JobRow]
  /\ hand \in [Devices -> HandRow]
  /\ created \in [Jobs -> Nat] /\ truth \in Nat /\ clock \in Nat
  /\ fact \in [Fans -> [at : Nat, saw : Nat]]
  /\ read \in ReadRow /\ reads \in Nat
  /\ tokens \subseteq TokenRow

(* What is stored of a fan never goes back to what an earlier read saw,    *)
(* however late a device stores what it read.                              *)
FactsMoveForward == [][\A p \in Fans : fact'[p].saw >= fact[p].saw]_vars

Promise == INSTANCE RefreshedFacts WITH
  Subjects <- Fans, Requests <- Jobs, source <- truth, cutoff <- created,
  asked <- {j \in Jobs : job[j].status # "ABSENT"},
  done <- {j \in Jobs : job[j].status = "DONE"}

(* What whoever plans a refresh gets: facts that only become younger, and  *)
(* with the end of the job every fan observed since it was planned.        *)
Promised == Promise!Spec

(* A job that is done leaves no fan without an observation made since the  *)
(* job was created.                                                        *)
CoveredWhenDone ==
  \A j \in Jobs : job[j].status = "DONE" => \A p \in Fans : fact[p].at > created[j]

(* No lease is counted as more than one attempt, whoever ends it, how      *)
(* often it is reported and whichever comes first.                         *)
AttemptsAreLeases ==
  \A j \in Jobs : job[j].attempts + job[j].released <= job[j].rev
=============================================================================
