------------------------------- MODULE Billing -------------------------------
(* Prepaid billing of one agency: top-up orders, the provider's callbacks, the *)
(* wallet and the monthly subscriptions of creators.                           *)
(*                                                                             *)
(* Workers are requests, callbacks and the scheduler. Each runs one root       *)
(* transaction: it waits for its advisory locks, takes the agency's billing    *)
(* lock, reads, and commits or is rolled back. The provider, its callbacks and *)
(* the customer are the environment: a callback may come late, twice, in any   *)
(* order or never.                                                             *)
EXTENDS Integers, FiniteSets

CONSTANTS
    Orders, Creators, Workers,
    NoOne,             \* no worker holds the lock
    Amount,            \* what each order brings
    Price,             \* of one period of one creator
    Period,            \* ticks of a period
    Grace,             \* ticks a renewal may be late without moving the boundary
    Denials,           \* reasons besides the balance to refuse a debit
    Reports,           \* the statuses that the provider may give a payment
    MaxNow,            \* bound of the clock
    MaxCrashes         \* bound of transactions that are rolled back

ProviderStatuses == {"waiting", "partially_paid", "finished", "refunded", "expired", "failed"}

ASSUME BillingAssumption ==
    /\ Amount \in [Orders -> Nat \ {0}] /\ Price \in Nat /\ Price > 0
    /\ Period \in Nat /\ Grace \in Nat /\ Period > Grace
    /\ Denials \subseteq {"earnings", "disabled"}
    /\ Reports \subseteq ProviderStatuses
    /\ MaxNow \in Nat /\ MaxCrashes \in Nat
    /\ NoOne \notin Workers

VARIABLES
    order,       \* BillingOrder
    checkout,    \* the request that reserved the order and asks for the invoice
    payment,     \* the provider: the status of the invoice's payment
    reported,    \* the statuses it went through: callbacks that may arrive
    inbox,       \* BillingProviderEvent: absent, open or processed
    activation,  \* the deployment credits this wallet's orders
    balance, entries,    \* AgencyBillingWallet, BillingWalletTransaction
    ent,         \* CreatorBillingEntitlement
    now,         \* the database's clock
    lock,        \* who holds the agency's row FOR UPDATE
    job,         \* what each worker is doing
    crashes

moneyVars == <<balance, entries>>
outside == <<checkout, payment, reported, activation>>
vars == <<order, outside, inbox, moneyVars, ent, now, lock, job, crashes>>

-----------------------------------------------------------------------------
(* Orders.                                                                     *)

OrderStatuses == {"NONE", "CREATED", "CHECKOUT_CREATED", "PROCESSING", "PARTIALLY_PAID",
                  "PAID", "REFUNDED", "EXPIRED", "FAILED"}

orderStatusForProviderStatus ==
    [s \in ProviderStatuses |->
        CASE s = "finished" -> "PAID"
          [] s = "partially_paid" -> "PARTIALLY_PAID"
          [] s = "refunded" -> "REFUNDED"
          [] s = "expired" -> "EXPIRED"
          [] s = "failed" -> "FAILED"
          [] s = "waiting" -> "PROCESSING"]

\* The status of an order after a payment's status s was reported.
monotonicOrderStatus(current, s) ==
    LET next == orderStatusForProviderStatus[s]
        stays == \/ current = "REFUNDED"
                 \/ current = "PAID" /\ next # "REFUNDED"
                 \/ current = "PARTIALLY_PAID" /\ next = "PROCESSING"
                 \/ current \in {"FAILED", "EXPIRED"} /\ next \notin {"PAID", "REFUNDED"}
    IN IF stays THEN current ELSE next

NoOrder == [status |-> "NONE", attempt |-> FALSE, activated |-> FALSE]

Events == [order : Orders, status : Reports, via : {"ipn", "fetch"}]

-----------------------------------------------------------------------------
(* Entries of the wallet.                                                      *)

TopUp(o) == [type |-> "TOP_UP", of |-> o, amount |-> Amount[o]]
Refund(o) == [type |-> "TOP_UP_REFUND", of |-> o, amount |-> -Amount[o]]
Debit(reason, c, start) ==
    [type |-> "SUBSCRIPTION_DEBIT", of |-> <<reason, c, start>>, amount |-> -Price]

\* mutateWallet: a known key changes nothing; the balance written is computed
\* from the one that the transaction read.
mutateWallet(e, before) ==
    IF e \in entries THEN UNCHANGED moneyVars
    ELSE entries' = entries \cup {e} /\ balance' = before + e.amount

-----------------------------------------------------------------------------
(* Workers.                                                                    *)

Idle == [kind |-> "idle"]
Jobs ==
    {Idle}
    \cup [kind : {"event"}, pc : {"ready", "locked"}, event : Events,
          seen : OrderStatuses, before : Int]
    \cup [kind : {"credit"}, pc : {"ready", "locked"}, order : Orders, before : Int]
    \cup [kind : {"start", "cancel", "renew"}, pc : {"ready", "locked"}, creator : Creators,
          before : Int]
    \cup [kind : {"report"}, creator : Creators, code : {"balance"} \cup Denials, at : Nat]

Entitlements == [until : Nat, renew : BOOLEAN, error : BOOLEAN]

Finish(w) == job' = [job EXCEPT ![w] = Idle] /\ lock' = NoOne
Keeps(w) == job[w].kind # "idle" /\ "pc" \in DOMAIN job[w] /\ job[w].pc = "locked"

-----------------------------------------------------------------------------
(* Checkout.                                                                   *)

\* createWalletTopUpCheckout up to its commit: the order is the reservation, and
\* whoever repeats the command finds it and asks for nothing.
Reserve(o) ==
    /\ order[o].status = "NONE"
    /\ order' = [order EXCEPT ![o].status = "CREATED"]
    /\ checkout' = [checkout EXCEPT ![o] = "posting"]
    /\ UNCHANGED <<payment, reported, activation, inbox, moneyVars, ent, now, lock, job, crashes>>

\* The provider gets the request; its answer is under way.
InvoiceMade(o) ==
    /\ checkout[o] = "posting"
    /\ checkout' = [checkout EXCEPT ![o] = "answered"]
    /\ payment' = [payment EXCEPT ![o] = "invoice"]
    /\ UNCHANGED <<order, reported, activation, inbox, moneyVars, ent, now, lock, job, crashes>>

(* Mutant: the late invoice does not look at the order's status. *)
AttachInvoiceAnyway(o) ==
    /\ checkout[o] = "answered"
    /\ checkout' = [checkout EXCEPT ![o] = "over"]
    /\ order' = [order EXCEPT ![o].status = "CHECKOUT_CREATED"]
    /\ UNCHANGED <<payment, reported, activation, inbox, moneyVars, ent, now, lock, job, crashes>>

\* The answer arrives: metadata is attached, and only an order that no callback
\* has moved yet becomes CHECKOUT_CREATED.
AttachInvoice(o) ==
    /\ checkout[o] = "answered"
    /\ checkout' = [checkout EXCEPT ![o] = "over"]
    /\ order' = [order EXCEPT ![o].status = IF @ = "CREATED" THEN "CHECKOUT_CREATED" ELSE @]
    /\ UNCHANGED <<payment, reported, activation, inbox, moneyVars, ent, now, lock, job, crashes>>

\* The request or its answer is lost, or the server restarts: the outcome stays
\* unknown and the reservation is not reopened.
InvoiceUnknown(o) ==
    /\ checkout[o] \in {"posting", "answered"}
    /\ checkout' = [checkout EXCEPT ![o] = "over"]
    /\ UNCHANGED <<order, payment, reported, activation, inbox, moneyVars, ent, now, lock, job, crashes>>

\* The customer and the provider: a payment moves, and every status it takes will
\* be reported by a callback of its own.
MayBecome ==
    [invoice |-> {"waiting", "partially_paid", "finished", "expired", "failed"},
     waiting |-> {"partially_paid", "finished", "expired", "failed"},
     partially_paid |-> {"finished", "expired", "refunded"},
     finished |-> {"refunded"}, expired |-> {"finished"}, failed |-> {}, refunded |-> {}]
PaymentMoves(o) ==
    /\ payment[o] # "none"
    /\ \E s \in Reports \cap MayBecome[payment[o]] :
         /\ payment' = [payment EXCEPT ![o] = s]
         /\ reported' = [reported EXCEPT ![o] = @ \cup {s}]
    /\ UNCHANGED <<order, checkout, activation, inbox, moneyVars, ent, now, lock, job, crashes>>

-----------------------------------------------------------------------------
(* Provider events.                                                            *)

Free(w) == job[w] = Idle
Begin(w, e) == job' = [job EXCEPT ![w] = [kind |-> "event", pc |-> "ready", event |-> e,
                                          seen |-> "NONE", before |-> 0]]

(* Mutant: a callback counts as processed once it is stored. *)
StoredAsProcessed(e) == inbox' = [inbox EXCEPT ![e] = "processed"]

\* The inbox row is committed on its own, before anything is made of it.
Stored(e) == inbox' = [inbox EXCEPT ![e] = IF @ = "absent" THEN "open" ELSE @]

\* A callback arrives, perhaps not for the first time.
Receive(w, e) ==
    /\ Free(w) /\ e.via = "ipn" /\ e.status \in reported[e.order]
    /\ Begin(w, e) /\ Stored(e)
    /\ UNCHANGED <<order, outside, moneyVars, ent, now, lock, crashes>>

\* reconcileOrder: the owner asks for a payment that a callback made known; what
\* the provider says now is applied later.
Fetch(w, o) ==
    /\ Free(w) /\ order[o].attempt /\ payment[o] \in ProviderStatuses
    /\ LET e == [order |-> o, status |-> payment[o], via |-> "fetch"]
       IN Begin(w, e) /\ Stored(e)
    /\ UNCHANGED <<order, outside, moneyVars, ent, now, lock, crashes>>

\* reconcileOrder goes on: an order that is paid and was never credited.
Afterwards(w, e, o) ==
    job' = [job EXCEPT ![w] =
        IF e.via = "fetch" /\ o.status = "PAID" /\ ~o.activated
        THEN [kind |-> "credit", pc |-> "ready", order |-> e.order, before |-> 0] ELSE Idle]

\* The event's own lock comes first: whoever finds it processed only reads.
ReplayEvent(w) ==
    /\ job[w].kind = "event" /\ job[w].pc = "ready"
    /\ inbox[job[w].event] = "processed"
    /\ Afterwards(w, job[w].event, order[job[w].event.order])
    /\ UNCHANGED <<order, outside, inbox, moneyVars, ent, now, lock, crashes>>

(* Mutant: callbacks and renewals do not wait for each other. *)
LockNothing(w) ==
    /\ lock' = w
    /\ \/ /\ job[w].kind = "event" /\ job[w].pc = "ready"
          /\ inbox[job[w].event] # "processed"
          /\ job' = [job EXCEPT ![w].pc = "locked", ![w].before = balance,
                                ![w].seen = order[job[w].event.order].status]
       \/ /\ job[w].kind \in {"credit", "start", "cancel", "renew"} /\ job[w].pc = "ready"
          /\ job' = [job EXCEPT ![w].pc = "locked", ![w].before = balance]
    /\ UNCHANGED <<order, outside, inbox, moneyVars, ent, now, crashes>>

\* lockAgencyBillingMutation, and what is read under it.
LockAgency(w) ==
    /\ lock = NoOne /\ lock' = w
    /\ \/ /\ job[w].kind = "event" /\ job[w].pc = "ready"
          /\ inbox[job[w].event] # "processed"
          /\ job' = [job EXCEPT ![w].pc = "locked", ![w].before = balance,
                                ![w].seen = order[job[w].event.order].status]
       \/ /\ job[w].kind \in {"credit", "start", "cancel", "renew"} /\ job[w].pc = "ready"
          /\ job' = [job EXCEPT ![w].pc = "locked", ![w].before = balance]
    /\ UNCHANGED <<order, outside, inbox, moneyVars, ent, now, crashes>>

(* Mutant: the credit does not look at the order again. *)
CreditableBlind(o, status) == activation /\ TopUp(o) \notin entries /\ ~order[o].activated
\* creditPaidTopUp, refundTopUp: the wallet follows the order.
Creditable(o, status) ==
    /\ status = "PAID" /\ activation
    /\ TopUp(o) \notin entries /\ ~order[o].activated
Reversible(o, status) == status = "REFUNDED" /\ TopUp(o) \in entries

\* The update compares the status that was read; a late invoice may have moved it.
Reread(w) ==
    /\ job[w].kind = "event" /\ Keeps(w)
    /\ LET current == order[job[w].event.order].status IN
       /\ job[w].seen # current
       /\ job' = [job EXCEPT ![w].seen = current]
    /\ UNCHANGED <<order, outside, inbox, moneyVars, ent, now, lock, crashes>>

\* applyProviderPayment: order, attempt, wallet and receipt in one commit.
Project(w) ==
    /\ job[w].kind = "event" /\ Keeps(w)
    /\ LET e == job[w].event
           status == monotonicOrderStatus(job[w].seen, e.status)
           credit == Creditable(e.order, status)
           after == [order[e.order] EXCEPT !.status = status, !.attempt = TRUE,
                                           !.activated = @ \/ credit]
       IN /\ job[w].seen = order[e.order].status
          /\ order' = [order EXCEPT ![e.order] = after]
          /\ inbox' = [inbox EXCEPT ![e] = "processed"]
          /\ CASE credit -> mutateWallet(TopUp(e.order), job[w].before)
               [] Reversible(e.order, status) -> mutateWallet(Refund(e.order), job[w].before)
               [] OTHER -> UNCHANGED moneyVars
          /\ Afterwards(w, e, after)
    /\ lock' = NoOne
    /\ UNCHANGED <<outside, ent, now, crashes>>

\* The rest of reconcileOrder.
Credit(w) ==
    /\ job[w].kind = "credit" /\ Keeps(w)
    /\ LET o == job[w].order IN
       IF Creditable(o, order[o].status)
       THEN /\ order' = [order EXCEPT ![o].activated = TRUE]
            /\ mutateWallet(TopUp(o), job[w].before)
       ELSE UNCHANGED <<order, moneyVars>>
    /\ Finish(w)
    /\ UNCHANGED <<outside, inbox, ent, now, crashes>>

-----------------------------------------------------------------------------
(* Subscriptions.                                                              *)

(* Mutant: a subscription is due a tick before its end. *)
DueEarly(c) == ent[c].until <= now + 1
Due(c) == ent[c].until <= now

Ask(w, kind, c) ==
    /\ Free(w)
    /\ kind = "renew" => ent[c].renew /\ Due(c)     \* what the scheduler's page shows
    /\ job' = [job EXCEPT ![w] = [kind |-> kind, pc |-> "ready", creator |-> c, before |-> 0]]
    /\ UNCHANGED <<order, outside, inbox, moneyVars, ent, now, lock, crashes>>

(* Mutant: a period is added before the old one is looked at. *)
renewalStartNext(c) == ent[c].until + Period
\* A renewal that is a little late keeps the boundary, unless it was late for
\* want of money; anything else starts now.
renewalStartAt(c) ==
    IF ~ent[c].error /\ now - ent[c].until <= Grace THEN ent[c].until ELSE now

\* chargeMonthlyPeriod: the period, its debit and the entitlement.
Charge(c, reason, start, before) ==
    /\ mutateWallet(Debit(reason, c, start), before)
    /\ ent' = [ent EXCEPT ![c] = [until |-> start + Period, renew |-> TRUE, error |-> FALSE]]

Enough(w) == job[w].before >= Price

StartSubscription(w) ==
    /\ job[w].kind = "start" /\ Keeps(w)
    /\ LET c == job[w].creator IN
       \/ /\ ~Due(c)
          /\ ent' = [ent EXCEPT ![c].renew = TRUE, ![c].error = FALSE]
          /\ UNCHANGED moneyVars
       \/ Due(c) /\ Enough(w) /\ Charge(c, "start", now, job[w].before)
       \/ /\ "disabled" \in Denials \/ (Due(c) /\ (~Enough(w) \/ Denials # {}))
          /\ UNCHANGED <<ent, moneyVars>>
    /\ Finish(w)
    /\ UNCHANGED <<order, outside, inbox, now, crashes>>

CancelRenewal(w) ==
    /\ job[w].kind = "cancel" /\ Keeps(w)
    /\ ent' = [ent EXCEPT ![job[w].creator].renew = FALSE, ![job[w].creator].error = FALSE]
    /\ Finish(w)
    /\ UNCHANGED <<order, outside, inbox, moneyVars, now, crashes>>

(* Mutant: what the scheduler's page showed is trusted. *)
RenewStale(w) ==
    /\ job[w].kind = "renew" /\ Keeps(w)
    /\ LET c == job[w].creator IN
       /\ Enough(w)
       /\ Charge(c, "renew", renewalStartAt(c), job[w].before)
    /\ Finish(w)
    /\ UNCHANGED <<order, outside, inbox, now, crashes>>

\* renewCreatorSubscription under the lock: the page it was found on is stale.
Renew(w) ==
    /\ job[w].kind = "renew" /\ Keeps(w)
    /\ LET c == job[w].creator IN
       /\ ent[c].renew /\ Due(c) /\ Enough(w)
       /\ Charge(c, "renew", renewalStartAt(c), job[w].before)
    /\ Finish(w)
    /\ UNCHANGED <<order, outside, inbox, now, crashes>>
SkipRenewal(w) ==
    /\ job[w].kind = "renew" /\ Keeps(w)
    /\ ~ent[job[w].creator].renew \/ ~Due(job[w].creator)
    /\ Finish(w)
    /\ UNCHANGED <<order, outside, inbox, moneyVars, ent, now, crashes>>

\* A refused debit is rolled back; what is said of it is written afterwards, in a
\* statement of its own.
RefuseRenewal(w) ==
    /\ job[w].kind = "renew" /\ Keeps(w)
    /\ LET c == job[w].creator IN
       /\ ent[c].renew /\ Due(c)
       /\ \E code \in Denials \cup (IF Enough(w) THEN {} ELSE {"balance"}) :
            job' = [job EXCEPT ![w] = [kind |-> "report", creator |-> c, code |-> code, at |-> now]]
    /\ lock' = NoOne
    /\ UNCHANGED <<order, outside, inbox, moneyVars, ent, now, crashes>>
ReportRefusal(w) ==
    /\ job[w].kind = "report"
    /\ LET c == job[w].creator IN
       ent' = IF ent[c].renew /\ ent[c].until <= job[w].at
              THEN [ent EXCEPT ![c].error = job[w].code # "disabled",
                               ![c].renew = job[w].code # "disabled"]
              ELSE ent
    /\ job' = [job EXCEPT ![w] = Idle]
    /\ UNCHANGED <<order, outside, inbox, moneyVars, now, lock, crashes>>

-----------------------------------------------------------------------------
(* The environment.                                                            *)

\* A conflict, a timeout or a restart: the transaction is rolled back. An event
\* stays open in the inbox, and nobody but its sender repeats it.
Crash(w) ==
    /\ ~Free(w) /\ crashes < MaxCrashes
    /\ crashes' = crashes + 1
    /\ job' = [job EXCEPT ![w] = Idle]
    /\ lock' = IF Keeps(w) THEN NoOne ELSE lock
    /\ UNCHANGED <<order, outside, inbox, moneyVars, ent, now>>

Deploy ==
    /\ ~activation /\ activation' = TRUE
    /\ UNCHANGED <<order, checkout, payment, reported, inbox, moneyVars, ent, now, lock, job, crashes>>

Tick ==
    /\ now < MaxNow /\ now' = now + 1
    /\ UNCHANGED <<order, outside, inbox, moneyVars, ent, lock, job, crashes>>

Init ==
    /\ order = [o \in Orders |-> NoOrder]
    /\ checkout = [o \in Orders |-> "none"]
    /\ payment = [o \in Orders |-> "none"]
    /\ reported = [o \in Orders |-> {}]
    /\ inbox = [e \in Events |-> "absent"]
    /\ activation \in BOOLEAN
    /\ balance = 0 /\ entries = {}
    /\ ent = [c \in Creators |-> [until |-> 0, renew |-> FALSE, error |-> FALSE]]
    /\ now = 0 /\ lock = NoOne /\ crashes = 0
    /\ job = [w \in Workers |-> Idle]

Work(w) ==
    \/ ReplayEvent(w) \/ LockAgency(w) \/ Reread(w) \/ Project(w) \/ Credit(w)
    \/ StartSubscription(w) \/ CancelRenewal(w)
    \/ Renew(w) \/ SkipRenewal(w) \/ RefuseRenewal(w) \/ ReportRefusal(w)

Next ==
    \/ \E o \in Orders : Reserve(o) \/ InvoiceMade(o) \/ AttachInvoice(o)
                         \/ InvoiceUnknown(o) \/ PaymentMoves(o)
    \/ \E w \in Workers :
         \/ \E e \in Events : Receive(w, e)
         \/ \E o \in Orders : Fetch(w, o)
         \/ \E c \in Creators, kind \in {"start", "cancel", "renew"} : Ask(w, kind, c)
         \/ Work(w) \/ Crash(w)
    \/ Deploy \/ Tick

Spec == Init /\ [][Next]_vars

-----------------------------------------------------------------------------
(* Properties.                                                                 *)

\* Every variable has its type.
TypeOK ==
    /\ order \in [Orders -> [status : OrderStatuses, attempt : BOOLEAN, activated : BOOLEAN]]
    /\ checkout \in [Orders -> {"none", "posting", "answered", "over"}]
    /\ payment \in [Orders -> {"none", "invoice"} \cup Reports]
    /\ reported \in [Orders -> SUBSET Reports]
    /\ inbox \in [Events -> {"absent", "open", "processed"}]
    /\ activation \in BOOLEAN
    /\ balance \in Int
    /\ entries \subseteq {TopUp(o) : o \in Orders} \cup {Refund(o) : o \in Orders}
         \cup {Debit(r, c, t) : r \in {"start", "renew"}, c \in Creators, t \in 0..MaxNow}
    /\ ent \in [Creators -> Entitlements]
    /\ now \in 0..MaxNow /\ crashes \in 0..MaxCrashes
    /\ lock \in Workers \cup {NoOne}
    /\ job \in [Workers -> Jobs]

\* The wallet has an order's money exactly while the order is paid and credited,
\* whatever the order in which callbacks and the owner's checks were applied; and
\* it is credited, or taken back, only if the provider finished, or refunded, it.
WalletFollowsOrders ==
    \A o \in Orders :
        /\ (TopUp(o) \in entries /\ Refund(o) \notin entries)
             <=> (order[o].status = "PAID" /\ order[o].activated)
        /\ TopUp(o) \in entries => "finished" \in reported[o]
        /\ Refund(o) \in entries => "refunded" \in reported[o]

\* An order only moves forward: a refund is final, a paid order only becomes
\* refunded, and the late answer of the invoice takes none of them back.
Rank == [s \in OrderStatuses |->
    CASE s = "NONE" -> 0 [] s = "CREATED" -> 1 [] s = "CHECKOUT_CREATED" -> 2
      [] s = "PROCESSING" -> 3 [] s = "PARTIALLY_PAID" -> 4 [] s \in {"EXPIRED", "FAILED"} -> 5
      [] s = "PAID" -> 6 [] s = "REFUNDED" -> 7]
OrdersMoveForward ==
    [][\A o \in Orders : Rank[order'[o].status] >= Rank[order[o].status]]_order

\* A creator's time is sold once, since periods that were charged do not overlap,
\* and granted as sold: the entitlement ends with the last charged period.
Covers(e, t) == e.type = "SUBSCRIPTION_DEBIT" /\ e.of[3] <= t /\ t < e.of[3] + Period
TimeIsSoldOnce ==
    \A c \in Creators :
        /\ \A t \in 0..(MaxNow + Period), e, f \in entries :
              (Covers(e, t) /\ Covers(f, t) /\ e.of[2] = c /\ f.of[2] = c) => e = f
        /\ ent[c].until > 0 =>
              \E e \in entries : Covers(e, ent[c].until - 1) /\ e.of[2] = c

\* Nobody is charged again after renewal was cancelled, unless it was started
\* anew: a scheduler that found the subscription before must look again.
CancelHolds ==
    [][\A c \in Creators, t \in 0..MaxNow :
         (Debit("renew", c, t) \in entries' \ entries) => ent[c].renew /\ ent[c].until <= now]_vars

\* The wallet implements the ledger.
Ledger == INSTANCE MoneyLedger WITH
    Entries <- {TopUp(o) : o \in Orders} \cup {Refund(o) : o \in Orders}
                 \cup {Debit(r, c, t) : r \in {"start", "renew"}, c \in Creators, t \in 0..MaxNow}
KeepsLedger == Ledger!Spec

-----------------------------------------------------------------------------
(* Liveness.                                                                   *)

\* The provider repeats the callback of a payment's status until it was accepted,
\* and a transaction that may go on does.
FairSpec ==
    /\ Spec
    /\ \A o \in Orders : SF_vars(\E w \in Workers, e \in Events :
           e.order = o /\ e.status = payment[o] /\ inbox[e] # "processed" /\ Receive(w, e))
    /\ \A w \in Workers : SF_vars(Work(w))

\* Money that arrived reaches the wallet, or is refunded, while the deployment
\* credits at all.
PaidArrives ==
    \A o \in Orders :
        [](payment[o] = "finished" /\ activation /\ ~(order[o].status = "PAID" /\ ~order[o].activated)
           => <>(TopUp(o) \in entries \/ payment[o] = "refunded"))
=============================================================================
