------------------------------- MODULE JobLease -------------------------------
(***************************************************************************)
(* Leases on jobs, job-lease-service.js: a desktop device claims a job,    *)
(* works on it page by page, each page committed with the job's cursor,    *)
(* and completes, fails or gives it back.  A device may stop, be late or   *)
(* never hear an answer; expired leases are taken back by whoever claims   *)
(* next.  Here are the steps of one job's row; the modules that extend     *)
(* this one say what a page and the end of a job do to their data.         *)
(*                                                                         *)
(* Every claim has a new token and a new revision, and whoever knows one   *)
(* knows the other, so rev stands for both.  The row lock serialises the   *)
(* handlers, and requireLease reads the clock after it has the lock: that  *)
(* a lease has run out is one flag, lowered at any moment.  nextRunAt only *)
(* delays a claim and is left out, and so are access and billing checks,   *)
(* which refuse.                                                           *)
(***************************************************************************)
EXTENDS Integers

CONSTANTS
  Jobs,
  Devices,
  None,        \* no device, no job
  Pages,       \* pages of a job
  MaxAttempts, \* MAX_ATTEMPTS
  MaxReleases  \* bound on how often a job is given back

ASSUME LeaseAssumption ==
  /\ None \notin Devices \cup Jobs
  /\ Pages \in Nat \ {0} /\ MaxAttempts \in Nat \ {0} /\ MaxReleases \in Nat

VARIABLE job \* JobInstance rows

NoJob == [status |-> "ABSENT", attempts |-> 0, rev |-> 0, device |-> None,
          live |-> FALSE, cursor |-> 0, released |-> 0]

New(r) == [r EXCEPT !.status = "SCHEDULED"]

Claimable(r) == r.status = "SCHEDULED" /\ r.attempts < MaxAttempts

Claimed(r, d) ==
  [r EXCEPT !.status = "CLAIMED", !.device = d, !.live = TRUE, !.rev = @ + 1]

Vacated(r, s) ==
  [r EXCEPT !.status = s, !.device = None, !.live = FALSE]

(* Mutant: one attempt more, which no claim will ever take.                *)
TerminalLate(r, retryable) == ~retryable \/ r.attempts + 1 > MaxAttempts

Terminal(r, retryable) == ~retryable \/ r.attempts + 1 >= MaxAttempts

(* An attempt that failed: the job is planned again or failed for good.    *)
Attempted(r, retryable) ==
  [Vacated(r, IF Terminal(r, retryable) THEN "FAILED" ELSE "SCHEDULED")
     EXCEPT !.attempts = @ + 1]

GivenBack(r) == [Vacated(r, "SCHEDULED") EXCEPT !.released = @ + 1]

(* Mutant: the revision of the lease is not compared.                      *)
LeasedLoosely(r, d, rev) == r.status # "ABSENT"

(* requireLease with allowExpired.                                         *)
Leased(r, d, rev) == r.status = "CLAIMED" /\ r.device = d /\ r.rev = rev

(* requireLease: after the lease ran out nothing but its end is accepted.  *)
LeasedNow(r, d, rev) == Leased(r, d, rev) /\ r.live

(* Only a lease that ran out is taken back, and only if it is the lease    *)
(* the sweep has seen: the row is locked and looked at again.              *)
Sweepable(r) == r.status = "CLAIMED" /\ ~r.live

Lapses(r) == r.status = "CLAIMED" /\ r.live

Ended(r) == r.status \in {"DONE", "FAILED"}
=============================================================================
