-------------------------- MODULE ProgrammaticWrite --------------------------
(***************************************************************************)
(* The authority over writes to the provider of                            *)
(* programmatic-of-write-authority-service.js, for the writes of one       *)
(* creator.  A desktop device leases a write, starts it, is granted the    *)
(* commit, sends the request to the provider itself and reports what came  *)
(* of it.  Any of them may stop, be late or lose an answer, and a sweep    *)
(* takes expired leases back; yet a write that is not idempotent must not  *)
(* reach the provider twice.                                               *)
(*                                                                         *)
(* A row's claimedByDeviceId, leaseTokenHash and claimUntil are set and    *)
(* erased together but for the device, which nothing reads without them:   *)
(* holder is None when there is no token.  Times are the time left.  Every *)
(* lease has a new token and revision, so a device has a valid lease iff   *)
(* it holds the row and was told so (heard).                               *)
(***************************************************************************)
EXTENDS Integers

CONSTANTS
  Writes,     \* idempotency keys, all of one creator
  Devices,    \* desktop devices of the agency
  Kind,       \* [Writes -> Kinds]
  Payload,    \* [Writes -> payload fingerprints]
  LeaseLen,   \* length of a lease
  Window,     \* MAX_RECONCILIATION_WAIT_MS
  MaxWire,    \* bound on the requests of one write that are in flight
  Persistent, \* devices report failures of a write they are reconciling
  None        \* no device

Kinds == {"MASS_QUEUE_CREATE", "MASS_QUEUE_CANCEL", "VAULT_RELAY_SEND"}

ASSUME WriteAssumption ==
  /\ Kind \in [Writes -> Kinds]
  /\ LeaseLen \in Nat \ {0} /\ Window \in Nat \ {0} /\ MaxWire \in Nat \ {0}
  /\ Persistent \in BOOLEAN /\ None \notin Devices

VARIABLES
  row,      \* AutomationDelivery rows
  heard,    \* the holder of the lease was told its token and revision
  stage,    \* what a device thinks it may do with a write
  reply,    \* a device's exchange with the provider
  capable,  \* the device with the settlement token of the last commit
  wire,     \* requests on their way to the provider
  effects   \* what the provider has done

vars == <<row, heard, stage, reply, capable, wire, effects>>

Never == -1

Create(w) == Kind[w] = "MASS_QUEUE_CREATE"
Cancel(w) == Kind[w] = "MASS_QUEUE_CANCEL"
Once(w) == ~Cancel(w)      \* NON_IDEMPOTENT_WRITE
Receipted(w) == Create(w) \/ Cancel(w)

Precommit == {"CLAIMED", "RUNNING"}
Crossed == {"COMMITTING", "RECONCILE_REQUIRED"}
Lane == Precommit \cup Crossed
Terminal == {"COMPLETED", "FAILED", "CANCELED"}

NoRow == [status |-> "ABSENT", holder |-> None, lease |-> 0, source |-> None,
          commit |-> Never, started |-> Never, unresolved |-> FALSE,
          acked |-> FALSE, settled |-> FALSE]

Anchor(a, b) == IF a # Never THEN a ELSE b

Past(r) == r.holder # None /\ r.lease = 0

Freed(r, s) == [r EXCEPT !.status = s, !.holder = None, !.lease = 0]

(* Mutant: closing forgets that the commit was granted.                    *)
UnresolvedAndForgotten(r) ==
  [Freed(r, "FAILED") EXCEPT !.unresolved = TRUE, !.commit = Never]

Unresolved(r) == [Freed(r, "FAILED") EXCEPT !.unresolved = TRUE]

Completed(r) ==
  [Freed(r, "COMPLETED") EXCEPT !.unresolved = FALSE, !.settled = FALSE]

(* Mutant: a lease lasts a tick too long.                                  *)
LongLease(r, d, s) ==
  [r EXCEPT !.status = s, !.holder = d, !.lease = LeaseLen + 1]

Lease(r, d, s) ==
  [r EXCEPT !.status = s, !.holder = d, !.lease = LeaseLen]

Started(r) == Anchor(r.started, Anchor(r.commit, Window))

-----------------------------------------------------------------------------
(* Mutant: an expired commit is retried like an expired start.             *)
FirstScanRetries(r) ==
  IF r.status \in Lane /\ Past(r) THEN Freed(r, "RETRY_SCHEDULED") ELSE r

(* Mutant: only leased rows are looked at.                                 *)
NoSecondScan(r) == r

(* sweepExpiredProgrammaticWriteLeases: expired leases are taken back, and *)
(* what waited for its outcome long enough is closed for good.             *)
FirstScan(r) ==
  CASE r.status \in Precommit /\ Past(r) -> Freed(r, "RETRY_SCHEDULED")
    [] r.status = "RECONCILE_REQUIRED" /\ Past(r)
         /\ Anchor(r.commit, r.started) = 0 -> Unresolved(r)
    [] r.status \in Crossed /\ Past(r)
         /\ ~(r.status = "RECONCILE_REQUIRED"
                /\ Anchor(r.commit, r.started) = 0) ->
         [Freed(r, "RECONCILE_REQUIRED") EXCEPT !.started = Started(r)]
    [] OTHER -> r

SecondScan(r) ==
  IF /\ r.status = "RECONCILE_REQUIRED" /\ r.holder = None
     /\ Anchor(r.commit, r.started) = 0
  THEN Unresolved(r)
  ELSE r

Swept(r) == SecondScan(FirstScan(r))

Put(w, r) == row' = [row EXCEPT ![w] = r]

Sweep(w) ==
  /\ \/ Put(w, FirstScan(row[w]))
     \/ Put(w, SecondScan(row[w]))
  /\ row' # row
  /\ UNCHANGED <<heard, stage, reply, capable, wire, effects>>

-----------------------------------------------------------------------------
(* The intent of a mass message: one per creator until its outcome is      *)
(* acknowledged, and none with the payload of one that is still in doubt.  *)
Unacked(w) == Create(w) /\ row[w].status # "ABSENT" /\ ~row[w].acked

Doubted(w) == Create(w) /\ row[w].unresolved /\ ~row[w].settled

(* Mutant: a message in doubt does not stop the same message.              *)
ReserveIntentAgain(d, w) ==
  /\ Create(w) /\ row[w].status = "ABSENT"
  /\ \A v \in Writes : ~Unacked(v)
  /\ Put(w, [row[w] EXCEPT !.status = "QUEUED", !.source = d])
  /\ UNCHANGED <<heard, stage, reply, capable, wire, effects>>

ReserveIntent(d, w) ==
  /\ Create(w) /\ row[w].status = "ABSENT"
  /\ \A v \in Writes : ~Unacked(v)
  /\ \A v \in Writes : Payload[v] = Payload[w] => ~Doubted(v)
  /\ Put(w, [row[w] EXCEPT !.status = "QUEUED", !.source = d])
  /\ UNCHANGED <<heard, stage, reply, capable, wire, effects>>

Acknowledge(w) ==
  /\ Unacked(w) /\ row[w].status \in Terminal
  /\ Put(w, [row[w] EXCEPT !.acked = TRUE])
  /\ UNCHANGED <<heard, stage, reply, capable, wire, effects>>

Abandon(w) ==
  /\ Unacked(w) /\ row[w].status \notin Terminal \cup Crossed
  /\ row[w].commit = Never
  /\ Put(w, [Freed(row[w], "CANCELED") EXCEPT !.acked = TRUE])
  /\ UNCHANGED <<heard, stage, reply, capable, wire, effects>>

-----------------------------------------------------------------------------
(* reserveProgrammaticWrite: the sweep of the creator's rows and the lease *)
(* commit together.  A refusal rolls both back; a row that the sweep has   *)
(* closed is answered with its outcome, which is the sweep alone.          *)
Reservable(d, w, r) ==
  /\ r.status \notin Terminal \cup {"COMMITTING"}
  /\ r.status = "ABSENT" => ~Create(w)
  /\ r.holder # None => r.holder = d /\ r.status # "RECONCILE_REQUIRED"
  /\ \/ Cancel(w) \/ r.source \in {None, d} \/ r.status = "RECONCILE_REQUIRED"

Reserve(d, w) ==
  LET r == Swept(row[w])
      s == IF r.status = "RECONCILE_REQUIRED" THEN r.status ELSE "CLAIMED"
  IN /\ Reservable(d, w, r)
     /\ \A v \in Writes \ {w} : Swept(row[v]).status \notin Lane
     /\ row' = [v \in Writes |->
          IF v = w
          THEN [Lease(r, d, s) EXCEPT !.source = IF @ = None THEN d ELSE @]
          ELSE Swept(row[v])]
     /\ \/ /\ heard' = [heard EXCEPT ![w] = TRUE]
           /\ stage' = [stage EXCEPT ![d][w] = "claimed"]
        \/ heard' = [heard EXCEPT ![w] = FALSE] /\ UNCHANGED stage
     /\ UNCHANGED <<reply, capable, wire, effects>>

(* requireProgrammaticLease.                                               *)
Holds(d, w) == row[w].holder = d /\ heard[w]
HoldsLive(d, w) == Holds(d, w) /\ row[w].lease > 0

Start(d, w) ==
  /\ HoldsLive(d, w) /\ row[w].status = "CLAIMED"
  /\ Put(w, [row[w] EXCEPT !.status = "RUNNING"])
  /\ UNCHANGED <<heard, stage, reply, capable, wire, effects>>

(* prepareProgrammaticWrite: the permit to send, and for a mass write the  *)
(* token that settles this commit; a repeated call has the permit again.   *)
Prepare(d, w, told) ==
  /\ HoldsLive(d, w) /\ stage[d][w] = "claimed"
  /\ \/ /\ row[w].status = "RUNNING"
        /\ Put(w, [row[w] EXCEPT !.status = "COMMITTING", !.commit = Window])
        /\ capable' = [capable EXCEPT ![w] =
             IF Receipted(w) /\ told THEN d ELSE None]
     \/ /\ row[w].status = "COMMITTING"
        /\ UNCHANGED <<row, capable>>
  /\ stage' = IF told THEN [stage EXCEPT ![d][w] = "permitted"] ELSE stage
  /\ UNCHANGED <<heard, reply, wire, effects>>

-----------------------------------------------------------------------------
(* The device and the provider: a device sends one request per permit.     *)
(* The request may be lost, and so may the provider's response.            *)
Post(d, w) ==
  /\ stage[d][w] = "permitted" /\ wire[w] < MaxWire
  /\ stage' = [stage EXCEPT ![d][w] = "idle"]
  /\ reply' = [reply EXCEPT ![d][w] = "awaited"]
  /\ wire' = [wire EXCEPT ![w] = @ + 1]
  /\ UNCHANGED <<row, heard, capable, effects>>

Apply(w) ==
  /\ wire[w] > 0
  /\ wire' = [wire EXCEPT ![w] = @ - 1]
  /\ effects' = [effects EXCEPT ![w] = IF Cancel(w) THEN 1 ELSE @ + 1]
  /\ UNCHANGED <<row, heard, stage, reply, capable>>

Lost(w) ==
  /\ wire[w] > 0
  /\ wire' = [wire EXCEPT ![w] = @ - 1]
  /\ UNCHANGED <<row, heard, stage, reply, capable, effects>>

Respond(d, w) ==
  /\ reply[d][w] = "awaited" /\ effects[w] > 0
  /\ reply' = [reply EXCEPT ![d][w] = "received"]
  /\ UNCHANGED <<row, heard, stage, capable, wire, effects>>

(* A device restarts: it knows nothing of its leases and requests.         *)
Forget(d) ==
  /\ heard' = [w \in Writes |-> heard[w] /\ row[w].holder # d]
  /\ stage' = [stage EXCEPT ![d] = [w \in Writes |-> "idle"]]
  /\ reply' = [reply EXCEPT ![d] = [w \in Writes |-> "none"]]
  /\ capable' = [w \in Writes |-> IF capable[w] = d THEN None ELSE capable[w]]
  /\ UNCHANGED <<row, wire, effects>>

-----------------------------------------------------------------------------
(* completeProgrammaticWrite: with the exact response, even of a lease     *)
(* that has run out.                                                       *)
Complete(d, w) ==
  /\ Holds(d, w) /\ row[w].status = "COMMITTING" /\ reply[d][w] = "received"
  /\ Put(w, Completed(row[w]))
  /\ UNCHANGED <<heard, stage, reply, capable, wire, effects>>

Settleable(r) ==
  r.commit # Never /\ (r.status \in Crossed \/ r.unresolved)

(* completeMassWriteWithSettlementToken: with no lease at all.             *)
SettleByToken(d, w) ==
  /\ capable[w] = d /\ reply[d][w] = "received" /\ Settleable(row[w])
  /\ Put(w, Completed(row[w]))
  /\ UNCHANGED <<heard, stage, reply, capable, wire, effects>>

(* Mutant: a write being reconciled counts as not sent.                    *)
ReachedOnWire(r) == r.status = "COMMITTING"

(* failProgrammaticWrite: what the device says of the effect is not        *)
(* believed once the commit was granted.                                   *)
Reached(r) == r.status = "COMMITTING" \/ r.commit # Never

Fail(d, w) ==
  /\ Holds(d, w) /\ row[w].status \in Lane
  /\ row[w].status # "COMMITTING" => row[w].lease > 0
  /\ row[w].status = "RECONCILE_REQUIRED" => Persistent
  /\ IF Once(w) /\ Reached(row[w])
     THEN /\ Put(w, [Lease(row[w], d, "RECONCILE_REQUIRED")
                       EXCEPT !.started = Started(row[w])])
          /\ \/ UNCHANGED heard
             \/ heard' = [heard EXCEPT ![w] = FALSE]
     ELSE /\ \E s \in {"RETRY_SCHEDULED", "FAILED"} :
               Put(w, [Freed(row[w], s) EXCEPT !.commit = Never])
          /\ UNCHANGED heard
  /\ stage' = [stage EXCEPT ![d][w] = "idle"]
  /\ UNCHANGED <<reply, capable, wire, effects>>

-----------------------------------------------------------------------------
(* reconcileProgrammaticWrite and what closes a write that stays unknown.  *)
Reconciling(d, w) == HoldsLive(d, w) /\ row[w].status = "RECONCILE_REQUIRED"

WaitForReadback(d, w) ==
  /\ Reconciling(d, w)
  /\ Put(w, IF Anchor(row[w].started, row[w].commit) = 0
            THEN Unresolved(row[w])
            ELSE [row[w] EXCEPT !.lease = LeaseLen])
  /\ UNCHANGED <<heard, stage, reply, capable, wire, effects>>

(* Mutant: a match needs no evidence.                                      *)
MatchUnproven(d, w) ==
  /\ Reconciling(d, w) /\ ~Create(w)
  /\ Put(w, Completed(row[w]))
  /\ UNCHANGED <<heard, stage, reply, capable, wire, effects>>

Match(d, w) ==
  /\ Reconciling(d, w) /\ ~Create(w) /\ effects[w] > 0
  /\ Put(w, Completed(row[w]))
  /\ UNCHANGED <<heard, stage, reply, capable, wire, effects>>

CloseUnresolved(d, w) ==
  /\ Reconciling(d, w)
  /\ Put(w, Unresolved(row[w]))
  /\ UNCHANGED <<heard, stage, reply, capable, wire, effects>>

(* A user finds the remote object of a write that was given up.            *)
ResolveMatched(w) ==
  /\ ~Receipted(w) /\ row[w].unresolved /\ effects[w] > 0
  /\ Put(w, Completed(row[w]))
  /\ UNCHANGED <<heard, stage, reply, capable, wire, effects>>

(* applyCurrent: a snapshot of the provider's queues without the queue of  *)
(* a cancel proves it; an empty one settles what a lost create may have    *)
(* left behind, and says nothing of its outcome.                           *)
SnapshotProves(w) ==
  /\ Cancel(w) /\ effects[w] > 0 /\ Settleable(row[w])
  /\ Put(w, Completed(row[w]))
  /\ UNCHANGED <<heard, stage, reply, capable, wire, effects>>

SnapshotEmpty(w) ==
  /\ Doubted(w)
  /\ Put(w, [row[w] EXCEPT !.settled = TRUE])
  /\ UNCHANGED <<heard, stage, reply, capable, wire, effects>>

(* The queue of a cancel is delivered or gone without it.                  *)
QueueEnds(w) ==
  /\ Cancel(w) /\ effects[w] = 0
  /\ effects' = [effects EXCEPT ![w] = 1]
  /\ UNCHANGED <<row, heard, stage, reply, capable, wire>>

-----------------------------------------------------------------------------
Down(n) == IF n > 0 THEN n - 1 ELSE n

Tick ==
  /\ row' = [w \in Writes |-> [row[w] EXCEPT !.lease = Down(@),
                                             !.commit = Down(@),
                                             !.started = Down(@)]]
  /\ row' # row
  /\ UNCHANGED <<heard, stage, reply, capable, wire, effects>>

Init ==
  /\ row = [w \in Writes |-> NoRow]
  /\ heard = [w \in Writes |-> FALSE]
  /\ stage = [d \in Devices |-> [w \in Writes |-> "idle"]]
  /\ reply = [d \in Devices |-> [w \in Writes |-> "none"]]
  /\ capable = [w \in Writes |-> None]
  /\ wire = [w \in Writes |-> 0]
  /\ effects = [w \in Writes |-> 0]

OfDevice(d, w) ==
  \/ ReserveIntent(d, w) \/ Reserve(d, w) \/ Start(d, w)
  \/ \E told \in BOOLEAN : Prepare(d, w, told)
  \/ Post(d, w) \/ Respond(d, w) \/ Complete(d, w) \/ SettleByToken(d, w)
  \/ Fail(d, w) \/ WaitForReadback(d, w) \/ Match(d, w)
  \/ CloseUnresolved(d, w)

OfWrite(w) ==
  \/ Sweep(w) \/ Acknowledge(w) \/ Abandon(w) \/ Apply(w) \/ Lost(w)
  \/ ResolveMatched(w) \/ SnapshotProves(w) \/ SnapshotEmpty(w)
  \/ QueueEnds(w)

Next ==
  \/ \E d \in Devices, w \in Writes : OfDevice(d, w)
  \/ \E w \in Writes : OfWrite(w)
  \/ \E d \in Devices : Forget(d)
  \/ Tick

Spec == Init /\ [][Next]_vars

(* Time passes, and some device with the creator in its scope keeps asking *)
(* for automation work, which sweeps first; it need not know anything of   *)
(* these writes.  The server sweeps nothing on its own.                    *)
FairSpec == Spec /\ WF_vars(Tick) /\ \A w \in Writes : WF_vars(Sweep(w))

-----------------------------------------------------------------------------
Statuses == {"ABSENT", "QUEUED", "RETRY_SCHEDULED"} \cup Lane \cup Terminal

Clock == {Never} \cup 0..Window

(* The types of rows and of what devices know, and the range of clocks.    *)
TypeOK ==
  /\ row \in [Writes ->
       [status : Statuses, holder : Devices \cup {None}, lease : 0..LeaseLen,
        source : Devices \cup {None}, commit : Clock, started : Clock,
        unresolved : BOOLEAN, acked : BOOLEAN, settled : BOOLEAN]]
  /\ heard \in [Writes -> BOOLEAN]
  /\ stage \in [Devices -> [Writes -> {"idle", "claimed", "permitted"}]]
  /\ reply \in [Devices -> [Writes -> {"none", "awaited", "received"}]]
  /\ capable \in [Writes -> Devices \cup {None}]
  /\ wire \in [Writes -> 0..MaxWire]
  /\ effects \in [Writes -> Nat]

(* A write that is not idempotent reaches the provider at most once,       *)
(* whoever takes over, restarts, fails or loses an answer in between.      *)
AtMostOnce == \A w \in Writes : Once(w) => effects[w] + wire[w] <= 1

(* The recorded outcome is the truth: what is COMPLETED has happened; what *)
(* may be tried again or was refused has not happened, is not on its way,  *)
(* and nobody is left who may send it.                                     *)
OutcomeIsTrue ==
  \A w \in Writes :
    /\ row[w].status = "COMPLETED" => effects[w] > 0
    /\ /\ Once(w)
       /\ row[w].status \notin Crossed \cup {"COMPLETED"}
       /\ ~row[w].unresolved
       => /\ effects[w] = 0 /\ wire[w] = 0
          /\ \A d \in Devices : stage[d][w] # "permitted"

(* While the outcome of a mass message is in doubt, no other message with  *)
(* the same audience and content is under way.                             *)
NoBlindResend ==
  \A v, w \in Writes :
    /\ v # w /\ Create(v) /\ Create(w) /\ Payload[v] = Payload[w]
    /\ row[v].status \in Crossed \/ Doubted(v)
    => row[w].status \in Terminal \cup {"ABSENT"}

(* An accepted mass message can still be recorded by the device that has   *)
(* the provider's exact answer, whatever became of the lease meanwhile.    *)
AcceptedIsSettleable ==
  \A w \in Writes :
    Create(w) /\ effects[w] > 0 /\ row[w].status # "COMPLETED" =>
      Settleable(row[w])

(* A granted write does not keep the creator's lane: it is decided or      *)
(* given up for good, though every device may have disappeared.            *)
GrantedIsDecided ==
  \A w \in Writes :
    Once(w) => (row[w].status = "COMMITTING" ~> row[w].status \in Terminal)

(* The promise to the owner of a write that must not be repeated.          *)
Recorded(w) ==
  CASE row[w].status = "COMPLETED" -> "succeeded"
    [] row[w].status \in Crossed -> "granted"
    [] row[w].status = "FAILED" /\ row[w].unresolved -> "unknown"
    [] row[w].status = "CANCELED" \/ (row[w].status = "FAILED" /\ ~row[w].unresolved) ->
         "denied"
    [] OTHER -> "open"

OnceWrites == {w \in Writes : Once(w)}

Promise == INSTANCE ExternalWrite WITH
  Writes <- OnceWrites,
  outcome <- [w \in OnceWrites |-> Recorded(w)],
  effects <- [w \in OnceWrites |-> effects[w]]

Promised == Promise!Spec
=============================================================================
