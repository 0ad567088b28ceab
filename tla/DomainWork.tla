----------------------------- MODULE DomainWork -----------------------------
(***************************************************************************)
(* The durable work queue of src/src/services/domain-work-authority-       *)
(* service.js and the PostgreSQL functions and triggers it relies on.      *)
(*                                                                         *)
(* A producer PUBLISHES an identity: the row's requestedRevision goes up   *)
(* and the row is made READY.  A worker CLAIMS a due row (its lease, its   *)
(* fence, the revision it claimed), executes it page by page and SETTLES   *)
(* it: ack, yield, block on a dependency, or fail.  Publishing never waits *)
(* for a claim, so every settle compares the claimed revision with the     *)
(* revision that is requested by then.                                     *)
(*                                                                         *)
(* Time is kept relative: a deadline is the number of ticks left until it  *)
(* passes (0: it has passed, or the column is NULL), and Tick brings every *)
(* deadline of every row one unit closer, as the one database clock does.  *)
(***************************************************************************)
EXTENDS Integers, FiniteSets

CONSTANTS
  Work,            \* identities of DomainWorkItem rows
  Deps,            \* dependency identities (agency, kind, key)
  WakeOf,          \* [Deps -> Work]: the DEPENDENCY_WAKE row of a dependency
  Workers,         \* executor processes; a worker's name is its ownerToken
  NoWorker, NoDep, \* NULL in ownerToken and in dependencyKind/dependencyKey
  Atomic,          \* rows whose executor commits the page with the settle
  Tagged,          \* rows whose executor stores the revision in the cursor
  EarlyReaders,    \* rows whose executor reads the dependency revision
                   \* before it looks at the dependency, not after
  RecoveryWork,    \* DATABASE_RECOVERY_WORK_CLASSES
  FailureKinds,    \* bound: the kinds of error the executors meet
  Pages,           \* pages of one enumeration
  LeaseLen,        \* lease in ticks
  MaxDelay,        \* MAX_RETRY_DELAY_MS in ticks
  MaxFailures,     \* MAX_CONSECUTIVE_FAILURES
  MaxRevision,     \* bound: publications of one row
  MaxDepRevision,  \* bound: changes of one dependency
  MaxGeneration,   \* bound: generations activated
  MaxLapses        \* bound: crashes, lapsed leases, outages, lock contention

WakeItems == {WakeOf[d] : d \in Deps}
DomainItems == Work \ WakeItems

ASSUME WorkAssumption ==
  /\ Work # {} /\ IsFiniteSet(Workers)
  /\ WakeOf \in [Deps -> Work]
  /\ \A d, e \in Deps : WakeOf[d] = WakeOf[e] => d = e
  /\ NoWorker \notin Workers /\ NoDep \notin Deps
  /\ Atomic \subseteq DomainItems /\ Tagged \subseteq DomainItems
  /\ EarlyReaders \subseteq DomainItems /\ RecoveryWork \subseteq Work
  /\ FailureKinds \subseteq {"contract", "database", "other"}
ASSUME BoundAssumption ==
  /\ Pages \in Nat \ {0} /\ LeaseLen \in Nat \ {0} /\ MaxDelay \in Nat \ {0}
  /\ MaxFailures \in Nat \ {0} /\ MaxRevision \in Nat
  /\ MaxDepRevision \in Nat /\ MaxGeneration \in Nat \ {0}
  /\ MaxLapses \in Nat

VARIABLES
  rows,        \* DomainWorkItem: one row per identity
  deps,        \* Phase2DependencyState.revision of each dependency
  open,        \* whether what the dependency stands for is satisfied now
  generation,  \* Phase2WorkGenerationAuthority.activeGeneration
  handle,      \* what each worker remembers of the row it claimed
  seen,        \* source revision each page of a domain row last reflected
  seenGen,     \* generation of the executor that last wrote the page
  lapses       \* how much of MaxLapses is spent

vars == <<rows, deps, open, generation, handle, seen, seenGen, lapses>>

Later(a, b) == IF a > b THEN a ELSE b
Sooner(a, b) == IF a < b THEN a ELSE b

NoCursor == [page |-> 0, rev |-> 0]

Absent ==
  [state |-> "ABSENT", requested |-> 0, completed |-> 0, claimed |-> 0,
   fence |-> 0, owner |-> NoWorker, lease |-> 0, availableIn |-> 0,
   nextIn |-> 0, dep |-> NoDep, depRev |-> 0, cursor |-> NoCursor,
   fails |-> 0, failRev |-> 0, gen |-> 0]

Idle ==
  [busy |-> FALSE, item |-> CHOOSE i \in Work : TRUE, fence |-> 0,
   claimed |-> 0, gen |-> 0, page |-> 0, read |-> 0, dep |-> NoDep,
   depRev |-> -1, blocked |-> FALSE, remaining |-> FALSE]

Outstanding(r) ==
  r.state # "ABSENT" /\ (r.state # "DONE" \/ r.requested > r.completed)

(***************************************************************************)
(* What the BEFORE trigger stores when the UPDATE of row old asks for new. *)
(* A row of an older generation is invalidated by whatever touches it.     *)
(***************************************************************************)
StoredAsAsked(old, new) == [new EXCEPT !.gen = generation]

Stored(old, new) ==
  IF old.state = "ABSENT" THEN [new EXCEPT !.gen = generation]
  ELSE IF old.gen = generation THEN new
  ELSE [new EXCEPT !.gen = generation, !.claimed = 0, !.owner = NoWorker,
                   !.requested = Later(@, old.requested + 1),
                   !.fence = Later(@, old.fence + 1),
                   !.lease = 0, !.nextIn = 0, !.cursor = NoCursor,
                   !.state = IF old.state = "BLOCKED" THEN "BLOCKED"
                                                      ELSE "READY"]

Write(i, new) == [rows EXCEPT ![i] = Stored(rows[i], new)]

(***************************************************************************)
(* publishDomainWork: insert at revision 1 or raise the requested revision.*)
(* A live claim keeps the row and its cursor, everything else is reopened. *)
(***************************************************************************)
Published(r, delay, d, dRev) ==
  IF r.state = "ABSENT"
  THEN [r EXCEPT !.state = "READY", !.requested = @ + 1, !.dep = d,
                 !.depRev = dRev, !.availableIn = delay]
  ELSE [r EXCEPT !.requested = @ + 1, !.dep = d,
                 !.depRev = Later(@, dRev),
                 !.state = IF @ = "CLAIMED" THEN "CLAIMED" ELSE "READY",
                 !.availableIn = Sooner(@, delay), !.nextIn = 0,
                 !.cursor = IF r.state = "CLAIMED" THEN @ ELSE NoCursor]

Publish(i) ==
  /\ i \in DomainItems /\ rows[i].requested < MaxRevision
  /\ \E delay \in {0, MaxDelay} :
        rows' = Write(i, Published(rows[i], delay, NoDep, 0))
  /\ UNCHANGED <<deps, open, generation, handle, seen, seenGen, lapses>>

(* phase2_bump_dependency: the producer changes what the dependency stands  *)
(* for, raises its revision and publishes the one coalescing wake row.     *)
Bump(d) ==
  /\ deps[d] < MaxDepRevision
  /\ deps' = [deps EXCEPT ![d] = @ + 1]
  /\ \E v \in BOOLEAN : open' = [open EXCEPT ![d] = v]
  /\ rows' = Write(WakeOf[d],
               Published(rows[WakeOf[d]], 0, d, deps[d] + 1))
  /\ UNCHANGED <<generation, handle, seen, seenGen, lapses>>

(* A deployment activates the next generation. *)
Activate ==
  /\ generation < MaxGeneration
  /\ generation' = generation + 1
  /\ UNCHANGED <<rows, deps, open, handle, seen, seenGen, lapses>>

(***************************************************************************)
(* claimDomainWorkBatch: FOR UPDATE SKIP LOCKED over due rows of the       *)
(* executor's generation; RETURNING hands back the row as stored.          *)
(***************************************************************************)
ClaimableReadyOnly(r) ==
  r.state = "READY" /\ r.availableIn = 0 /\ r.nextIn = 0

Claimable(r) ==
  /\ r.state \in {"READY", "CLAIMED"}
  /\ r.availableIn = 0 /\ r.nextIn = 0
  /\ r.state = "CLAIMED" => r.lease = 0

StartPage(i, r) ==
  IF i \in Tagged /\ r.cursor.rev # r.claimed THEN 0 ELSE r.cursor.page

Claimed(w, r) ==
  [r EXCEPT !.state = "CLAIMED", !.owner = w, !.fence = @ + 1,
            !.claimed = r.requested, !.lease = LeaseLen]

Claim(w, i) ==
  LET r == rows[i]
      c == Stored(r, Claimed(w, r))
  IN /\ ~handle[w].busy
     /\ Claimable(r)
     /\ rows' = [rows EXCEPT ![i] = c]
     /\ handle' = [handle EXCEPT ![w] =
          [Idle EXCEPT !.busy = TRUE, !.item = i, !.fence = c.fence,
             !.claimed = c.claimed, !.gen = r.gen,
             !.page = IF i \in WakeItems THEN 0 ELSE StartPage(i, c),
             !.dep = IF i \in WakeItems THEN c.dep ELSE NoDep,
             !.depRev = IF i \in WakeItems THEN c.depRev ELSE -1]]
     /\ UNCHANGED <<deps, open, generation, seen, seenGen, lapses>>

(* lockDomainWorkClaimForCommit and claimWhere: the claim is still ours. *)
HoldsAnyClaim(w) ==
  LET r == rows[handle[w].item]
  IN handle[w].busy /\ r.state = "CLAIMED" /\ r.lease > 0

Holds(w) ==
  LET h == handle[w]
      r == rows[h.item]
  IN /\ h.busy
     /\ r.state = "CLAIMED" /\ r.owner = w
     /\ r.fence = h.fence /\ r.claimed = h.claimed /\ r.gen = h.gen
     /\ r.lease > 0

NeverNewer(w) == FALSE

Newer(w) == rows[handle[w].item].requested > handle[w].claimed
Released(r, state) == [r EXCEPT !.state = state, !.owner = NoWorker,
                                !.lease = 0]

(***************************************************************************)
(* The executor.  Process reads the source of the next page; an executor   *)
(* outside Atomic applies the page right there, in commits of its own.     *)
(***************************************************************************)
Process(w) ==
  LET h == handle[w]
      source == rows[h.item].requested
  IN /\ h.busy /\ h.item \in DomainItems /\ ~h.blocked /\ h.read = 0
     /\ handle' = [handle EXCEPT ![w].read = source, ![w].dep = NoDep,
                                 ![w].depRev = -1]
     /\ seen' = IF h.item \in Atomic THEN seen
                ELSE [seen EXCEPT ![h.item][h.page + 1] = source]
     /\ seenGen' = IF h.item \in Atomic THEN seenGen
                   ELSE [seenGen EXCEPT ![h.item][h.page + 1] = h.gen]
     /\ UNCHANGED <<rows, deps, open, generation, lapses>>

(* What the settling transaction of an Atomic executor commits with it.   *)
PageCommitted(h) ==
  IF h.item \in Atomic
  THEN /\ seen' = [seen EXCEPT ![h.item][h.page + 1] = h.read]
       /\ seenGen' = [seenGen EXCEPT ![h.item][h.page + 1] = h.gen]
  ELSE UNCHANGED <<seen, seenGen>>

(* currentDependencyRevision, before or after looking at the dependency.   *)
Capture(w, d) ==
  LET h == handle[w]
  IN /\ h.busy /\ h.item \in DomainItems /\ h.read = 0 /\ h.depRev = -1
     /\ IF h.item \in EarlyReaders THEN ~h.blocked ELSE h.dep = d
     /\ handle' = [handle EXCEPT ![w].dep = d, ![w].depRev = deps[d]]
     /\ UNCHANGED <<rows, deps, open, generation, seen, seenGen, lapses>>

Observe(w, d) ==
  LET h == handle[w]
  IN /\ h.busy /\ h.item \in DomainItems /\ h.read = 0 /\ ~h.blocked
     /\ IF h.item \in EarlyReaders THEN h.dep = d ELSE TRUE
     /\ ~open[d]
     /\ handle' = [handle EXCEPT ![w].dep = d, ![w].blocked = TRUE]
     /\ UNCHANGED <<rows, deps, open, generation, seen, seenGen, lapses>>

(* phase3_wake_domain_dependency_batch: reopen the rows that sleep on an   *)
(* older revision.  SKIP LOCKED may leave rows out; EXISTS tells of them.  *)
Asleep(table, d, rev) ==
  {i \in Work : /\ table[i].state = "BLOCKED" /\ table[i].dep = d
                /\ table[i].depRev < rev}

Woken(r) == [r EXCEPT !.state = "READY", !.availableIn = 0, !.nextIn = 0,
                      !.owner = NoWorker, !.lease = 0, !.cursor = NoCursor]

Wake(w) ==
  LET h == handle[w]
      candidates == Asleep(rows, h.dep, h.depRev)
  IN /\ h.busy /\ h.item \in WakeItems /\ h.read = 0
     /\ \E batch \in SUBSET candidates :
          /\ rows' = [i \in Work |-> IF i \in batch
                        THEN Stored(rows[i], Woken(rows[i])) ELSE rows[i]]
          /\ IF batch = {} /\ candidates # {}
             THEN lapses < MaxLapses /\ lapses' = lapses + 1
             ELSE lapses' = lapses
     /\ handle' = [handle EXCEPT ![w].read = 1, ![w].remaining =
                     Asleep(rows', h.dep, h.depRev) # {}]
     /\ UNCHANGED <<deps, open, generation, seen, seenGen>>

(***************************************************************************)
(* Settling.                                                               *)
(***************************************************************************)
FinishedLate(h) == IF h.item \in WakeItems THEN ~h.remaining
                                           ELSE h.page = Pages

Finished(h) == IF h.item \in WakeItems THEN ~h.remaining
                                       ELSE h.page + 1 = Pages

(* ackDomainWorkClaim *)
Acked(w, h, r) ==
  [Released(r, IF Newer(w) THEN "READY" ELSE "DONE") EXCEPT
     !.completed = Later(@, h.claimed), !.nextIn = 0,
     !.availableIn = IF Newer(w) THEN 0 ELSE @,
     !.fails = 0, !.failRev = 0,
     !.cursor = IF Newer(w) THEN NoCursor ELSE @]

Ack(w) ==
  LET h == handle[w]
  IN /\ h.read > 0 /\ Finished(h) /\ Holds(w)
     /\ rows' = Write(h.item, Acked(w, h, rows[h.item]))
     /\ PageCommitted(h)
     /\ handle' = [handle EXCEPT ![w] = Idle]
     /\ UNCHANGED <<deps, open, generation, lapses>>

NextCursor(h) ==
  IF h.item \in WakeItems THEN NoCursor
  ELSE [page |-> h.page + 1,
        rev |-> IF h.item \in Tagged THEN h.claimed ELSE 0]

(* yieldDomainWorkClaim *)
Yielded(w, h, r, due) ==
  IF Newer(w)
  THEN [Released(r, "READY") EXCEPT !.availableIn = 0, !.nextIn = 0,
                                    !.cursor = NoCursor]
  ELSE [Released(r, "READY") EXCEPT
          !.availableIn = due, !.nextIn = 0, !.cursor = NextCursor(h),
          !.fails = IF h.item \in WakeItems THEN @ ELSE 0,
          !.failRev = IF h.item \in WakeItems THEN @ ELSE 0]

Yield(w) ==
  LET h == handle[w]
  IN /\ h.read > 0 /\ ~Finished(h) /\ Holds(w)
     /\ \E due \in {0, MaxDelay} :
          rows' = Write(h.item, Yielded(w, h, rows[h.item], due))
     /\ PageCommitted(h)
     /\ handle' = [handle EXCEPT ![w] = Idle]
     /\ UNCHANGED <<deps, open, generation, lapses>>

(* saveDomainWorkProgress: the next page under the same claim. *)
Saved(h, r) == [r EXCEPT !.cursor = NextCursor(h), !.fails = 0, !.failRev = 0]

SaveProgress(w) ==
  LET h == handle[w]
  IN /\ h.item \in Atomic /\ h.read > 0 /\ ~Finished(h)
     /\ Holds(w) /\ ~Newer(w)
     /\ rows' = Write(h.item, Saved(h, rows[h.item]))
     /\ PageCommitted(h)
     /\ handle' = [handle EXCEPT ![w].page = @ + 1, ![w].read = 0]
     /\ UNCHANGED <<deps, open, generation, lapses>>

(* heartbeatDomainWorkClaim *)
Heartbeat(w) ==
  /\ Holds(w)
  /\ rows' = Write(handle[w].item,
               [rows[handle[w].item] EXCEPT !.lease = LeaseLen])
  /\ UNCHANGED <<deps, open, generation, handle, seen, seenGen, lapses>>

(* blockDomainWorkClaim, with the dependency row locked first. *)
NeverMoved(h) == FALSE

DependencyMoved(h) == deps[h.dep] > h.depRev

Blocked(w, h, r) ==
  IF ~DependencyMoved(h) /\ ~Newer(w)
  THEN [Released(r, "BLOCKED") EXCEPT
          !.dep = h.dep, !.depRev = deps[h.dep], !.nextIn = 0]
  ELSE [Released(r, "READY") EXCEPT
          !.dep = h.dep, !.depRev = deps[h.dep], !.nextIn = 0,
          !.availableIn = 0, !.cursor = NoCursor]

Block(w) ==
  LET h == handle[w]
  IN /\ h.blocked /\ h.depRev >= 0 /\ Holds(w)
     /\ rows' = Write(h.item, Blocked(w, h, rows[h.item]))
     /\ handle' = [handle EXCEPT ![w] = Idle]
     /\ UNCHANGED <<deps, open, generation, seen, seenGen, lapses>>

(***************************************************************************)
(* failDomainWorkClaim and domainWorkFailureOutcome.  Only failures of the *)
(* claimed revision count against its budget, and a transient database     *)
(* error spends none of it in the recovery classes.  due stands for the    *)
(* capped exponential delay or a later retryAt of the domain.              *)
(***************************************************************************)
Failures(h, r) == (IF r.failRev = h.claimed THEN r.fails ELSE 0) + 1
Spared(h, kind) == kind = "database" /\ h.item \in RecoveryWork
Parks(h, r, kind) ==
  kind = "contract" \/ (~Spared(h, kind) /\ Failures(h, r) >= MaxFailures)

Failed(w, h, r, kind, due) ==
  IF Newer(w)
  THEN [Released(r, "READY") EXCEPT
          !.availableIn = 0, !.nextIn = 0, !.cursor = NoCursor,
          !.fails = 0, !.failRev = 0]
  ELSE IF Parks(h, r, kind)
  THEN [Released(r, "RECONCILE_REQUIRED") EXCEPT
          !.nextIn = 0, !.fails = Failures(h, r), !.failRev = h.claimed]
  ELSE [Released(r, "READY") EXCEPT
          !.availableIn = due, !.nextIn = due,
          !.fails = Failures(h, r), !.failRev = h.claimed]

Fail(w, kind) ==
  LET h == handle[w]
  IN /\ Holds(w)
     /\ IF Spared(h, kind) THEN lapses < MaxLapses /\ lapses' = lapses + 1
                           ELSE lapses' = lapses
     /\ \E due \in 1..MaxDelay :
          rows' = Write(h.item, Failed(w, h, rows[h.item], kind, due))
     /\ handle' = [handle EXCEPT ![w] = Idle]
     /\ UNCHANGED <<deps, open, generation, seen, seenGen>>

(* Every settle answers lost: the executor drops the item. *)
LoseClaim(w) ==
  /\ handle[w].busy /\ ~Holds(w)
  /\ handle' = [handle EXCEPT ![w] = Idle]
  /\ UNCHANGED <<rows, deps, open, generation, seen, seenGen, lapses>>

(* The process dies, or its failDomainWorkClaim itself fails. *)
Crash(w) ==
  /\ handle[w].busy /\ lapses < MaxLapses
  /\ handle' = [handle EXCEPT ![w] = Idle]
  /\ lapses' = lapses + 1
  /\ UNCHANGED <<rows, deps, open, generation, seen, seenGen>>

(* resumeDomainWorkAfterRepair: the operator names the revision it saw. *)
Repaired(r) ==
  [Released(r, "READY") EXCEPT
     !.requested = @ + 1, !.availableIn = 0, !.nextIn = 0,
     !.fails = 0, !.failRev = 0, !.cursor = NoCursor]

Repair(i) ==
  LET r == rows[i]
  IN /\ r.state = "RECONCILE_REQUIRED" /\ r.gen = generation
     /\ r.requested < MaxRevision
     /\ rows' = Write(i, Repaired(r))
     /\ UNCHANGED <<deps, open, generation, handle, seen, seenGen, lapses>>

(* The database clock.  A lease that passes under a worker that still      *)
(* holds it counts against MaxLapses.                                      *)
Closer(t) == IF t > 0 THEN t - 1 ELSE 0
Aged(r) == [r EXCEPT !.lease = Closer(@), !.availableIn = Closer(@),
                     !.nextIn = Closer(@)]
Lapsing == {w \in Workers : Holds(w) /\ rows[handle[w].item].lease = 1}

Tick ==
  /\ \E i \in Work : rows[i].lease + rows[i].availableIn + rows[i].nextIn > 0
  /\ lapses' = lapses + Cardinality(Lapsing)
  /\ lapses' <= MaxLapses
  /\ rows' = [i \in Work |-> Aged(rows[i])]
  /\ UNCHANGED <<deps, open, generation, handle, seen, seenGen>>

-----------------------------------------------------------------------------
Init ==
  /\ rows = [i \in Work |-> Absent]
  /\ deps = [d \in Deps |-> 0]
  /\ open \in [Deps -> BOOLEAN]
  /\ generation = 1
  /\ handle = [w \in Workers |-> Idle]
  /\ seen = [i \in DomainItems |-> [p \in 1..Pages |-> 0]]
  /\ seenGen = [i \in DomainItems |-> [p \in 1..Pages |-> 0]]
  /\ lapses = 0

Execute(w) ==
  \/ Process(w) \/ Wake(w) \/ Ack(w) \/ Yield(w) \/ SaveProgress(w)
  \/ Block(w) \/ LoseClaim(w)
  \/ \E d \in Deps : Capture(w, d) \/ Observe(w, d)
  \/ \E kind \in FailureKinds : Fail(w, kind)

Next ==
  \/ \E i \in Work : Publish(i) \/ Repair(i)
  \/ \E d \in Deps : Bump(d)
  \/ \E w \in Workers, i \in Work : Claim(w, i)
  \/ \E w \in Workers : Execute(w) \/ Heartbeat(w) \/ Crash(w)
  \/ Activate
  \/ Tick

Spec == Init /\ [][Next]_vars

(* The maintenance pump claims every class again and again, an executor    *)
(* that runs takes its next step, and time passes.  Nothing obliges a      *)
(* producer, an operator, a deployment, a heartbeat or a crash.            *)
Fairness ==
  /\ WF_vars(Tick)
  /\ \A i \in Work : WF_vars(\E w \in Workers : Claim(w, i))
  /\ \A w \in Workers : WF_vars(Execute(w))

FairSpec == Spec /\ Fairness

-----------------------------------------------------------------------------
Row ==
  [state : {"ABSENT", "READY", "CLAIMED", "BLOCKED", "RECONCILE_REQUIRED",
            "DONE"},
   requested : Nat, completed : Nat, claimed : Nat, fence : Nat,
   owner : Workers \cup {NoWorker}, lease : Nat, availableIn : Nat,
   nextIn : Nat, dep : Deps \cup {NoDep}, depRev : Nat,
   cursor : [page : 0..(Pages - 1), rev : Nat], fails : Nat, failRev : Nat,
   gen : Nat]

Handle ==
  [busy : BOOLEAN, item : Work, fence : Nat, claimed : Nat, gen : Nat,
   page : 0..(Pages - 1), read : Nat, dep : Deps \cup {NoDep},
   depRev : Nat \cup {-1}, blocked : BOOLEAN, remaining : BOOLEAN]

(* The types of the columns and of what an executor keeps of a row. *)
TypeOK ==
  /\ rows \in [Work -> Row]
  /\ deps \in [Deps -> Nat] /\ open \in [Deps -> BOOLEAN]
  /\ generation \in Nat /\ lapses \in Nat
  /\ handle \in [Workers -> Handle]
  /\ \A w \in Workers : handle[w].blocked => handle[w].dep \in Deps
  /\ seen \in [DomainItems -> [1..Pages -> Nat]]
  /\ seenGen \in [DomainItems -> [1..Pages -> Nat]]

(* A row may only be DONE when every page of its enumeration reflects the  *)
(* revision that is requested: an invalidation that races a claim, its     *)
(* cursor, its expiry or its settle is never acknowledged away.            *)
NoLostInvalidation ==
  \A i \in DomainItems : rows[i].state = "DONE" =>
     /\ rows[i].completed = rows[i].requested
     /\ \A p \in 1..Pages : seen[i][p] = rows[i].requested

(* A row that sleeps on a revision the dependency has left behind is       *)
(* always within reach of a wake row that is still to be executed.         *)
NoLostWake ==
  \A d \in Deps : Asleep(rows, d, deps[d]) # {} =>
     Outstanding(rows[WakeOf[d]])

(* A row that sleeps on the current revision of its dependency sleeps for  *)
(* a reason: nothing that it waits for has already happened.               *)
BlockedForCause ==
  \A i \in Work : rows[i].state = "BLOCKED" =>
     /\ rows[i].dep \in Deps
     /\ open[rows[i].dep] => rows[i].depRev < deps[rows[i].dep]

(* BLOCKED and RECONCILE_REQUIRED park exactly the revision that failed or *)
(* blocked: neither puts a newer invalidation to sleep.                    *)
ParkedExactly ==
  \A i \in Work :
    /\ rows[i].state = "BLOCKED" => rows[i].claimed = rows[i].requested
    /\ rows[i].state = "RECONCILE_REQUIRED" =>
          rows[i].failRev = rows[i].requested

(* Whoever sleeps is woken: the three together, for executors that read    *)
(* the dependency's revision early and a generation that stays.            *)
SleepersAreWoken == NoLostWake /\ BlockedForCause /\ ParkedExactly

(* A row of the current generation is only DONE when executors of that      *)
(* generation wrote all of its pages: what an executor of the generation   *)
(* before commits during the hand-over is done again.                      *)
GenerationFenced ==
  \A i \in Atomic : rows[i].state = "DONE" =>
     \A p \in 1..Pages : seenGen[i][p] = rows[i].gen

(* A projection never goes back to an older source revision: a worker      *)
(* whose claim was overtaken commits nothing.                              *)
NoStaleEffect ==
  [][\A i \in DomainItems, p \in 1..Pages :
        seen'[i][p] >= seen[i][p]]_vars

Promise == INSTANCE IncrementalView WITH
  Views <- DomainItems, Parts <- 1..Pages, view <- seen,
  source <- [i \in DomainItems |-> rows[i].requested],
  settled <- {i \in DomainItems : rows[i].state = "DONE"}

(* What the queue is for: projections that follow what was published and   *)
(* are only done when they are current, until the next publication.        *)
Promised == Promise!Spec

(* A row is at rest: done, parked for an operator, or asleep on something  *)
(* that has not happened or whose wake row is parked for an operator.      *)
AtRest(i) ==
  \/ ~Outstanding(rows[i])
  \/ rows[i].state = "RECONCILE_REQUIRED"
  \/ /\ rows[i].state = "BLOCKED"
     /\ \/ ~open[rows[i].dep]
        \/ rows[WakeOf[rows[i].dep]].state = "RECONCILE_REQUIRED"

(* Once the producers pause, every row comes to rest in spite of crashes,  *)
(* lapsed leases, races with newer revisions and dependencies that moved   *)
(* while a row went to sleep: no row is left READY or CLAIMED for good and *)
(* none sleeps through the change it waits for.                            *)
EventuallyAtRest == <>[](\A i \in Work : AtRest(i))
=============================================================================
