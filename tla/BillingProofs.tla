---------------------------- MODULE BillingProofs -----------------------------
(* Theorems of Billing for every value of its constants: types, the order of   *)
(* statuses, the wallet and its ledger, the months that are sold.              *)
EXTENDS Billing, TLAPS, FiniteSetTheorems, WellFoundedInduction

-----------------------------------------------------------------------------
(* What a worker is doing, by kind.                                            *)
Pc == {"ready", "locked"}
EventJobs == [kind : {"event"}, pc : Pc, event : Events, seen : OrderStatuses, before : Int]
CreditJobs == [kind : {"credit"}, pc : Pc, order : Orders, before : Int]
CreatorJobs == [kind : {"start", "cancel", "renew"}, pc : Pc, creator : Creators, before : Int]
ReportJobs == [kind : {"report"}, creator : Creators, code : {"balance"} \cup Denials, at : Nat]

LEMMA JobsAre == Jobs = {Idle} \cup EventJobs \cup CreditJobs \cup CreatorJobs \cup ReportJobs
BY DEF Jobs, EventJobs, CreditJobs, CreatorJobs, ReportJobs, Pc

LEMMA JobKinds ==
    ASSUME NEW j \in Jobs
    PROVE  /\ j.kind \in {"idle", "event", "credit", "start", "cancel", "renew", "report"}
           /\ j.kind = "idle" <=> j = Idle
           /\ j.kind = "event" <=> j \in EventJobs
           /\ j.kind = "credit" <=> j \in CreditJobs
           /\ j.kind \in {"start", "cancel", "renew"} <=> j \in CreatorJobs
           /\ j.kind = "report" <=> j \in ReportJobs
BY JobsAre DEF Idle, EventJobs, CreditJobs, CreatorJobs, ReportJobs

(* The kinds that wait for the agency's lock.                                  *)
Locking == {"event", "credit", "start", "cancel", "renew"}

LEMMA KeepsIs ==
    ASSUME NEW w, job[w] \in Jobs
    PROVE  Keeps(w) <=> job[w].kind \in Locking /\ job[w].pc = "locked"
<1>1. job[w].kind \in Locking => "pc" \in DOMAIN job[w]
    BY JobKinds DEF Locking, EventJobs, CreditJobs, CreatorJobs
<1>2. job[w].kind = "report" => "pc" \notin DOMAIN job[w]
    BY JobKinds DEF ReportJobs
<1> QED  BY <1>1, <1>2, JobKinds DEF Keeps, Locking

-----------------------------------------------------------------------------
(* Statuses.                                                                   *)
LEMMA StatusTable ==
    \A s \in ProviderStatuses :
        /\ orderStatusForProviderStatus[s] \in
             {"PROCESSING", "PARTIALLY_PAID", "PAID", "REFUNDED", "EXPIRED", "FAILED"}
        /\ orderStatusForProviderStatus[s] = "PAID" => s = "finished"
        /\ orderStatusForProviderStatus[s] = "REFUNDED" => s = "refunded"
BY DEF orderStatusForProviderStatus, ProviderStatuses

(* A status only moves forward, and is only paid or refunded when reported.    *)
LEMMA Monotonic ==
    ASSUME NEW current \in OrderStatuses, NEW s \in ProviderStatuses
    PROVE  LET n == monotonicOrderStatus(current, s)
           IN /\ n \in OrderStatuses
              /\ Rank[n] >= Rank[current]
              /\ n = "PAID" => current = "PAID" \/ s = "finished"
              /\ n = "REFUNDED" => current = "REFUNDED" \/ s = "refunded"
              /\ current = "REFUNDED" => n = "REFUNDED"
              /\ current = "PAID" => n \in {"PAID", "REFUNDED"}
<1> DEFINE next == orderStatusForProviderStatus[s]
           n == monotonicOrderStatus(current, s)
<1>1. /\ next \in {"PROCESSING", "PARTIALLY_PAID", "PAID", "REFUNDED", "EXPIRED", "FAILED"}
      /\ next = "PAID" => s = "finished"
      /\ next = "REFUNDED" => s = "refunded"
    BY StatusTable
<1>2. n = IF \/ current = "REFUNDED"
             \/ current = "PAID" /\ next # "REFUNDED"
             \/ current = "PARTIALLY_PAID" /\ next = "PROCESSING"
             \/ current \in {"FAILED", "EXPIRED"} /\ next \notin {"PAID", "REFUNDED"}
          THEN current ELSE next
    BY DEF monotonicOrderStatus
<1>3. /\ Rank["NONE"] = 0 /\ Rank["CREATED"] = 1 /\ Rank["CHECKOUT_CREATED"] = 2
      /\ Rank["PROCESSING"] = 3 /\ Rank["PARTIALLY_PAID"] = 4 /\ Rank["EXPIRED"] = 5
      /\ Rank["FAILED"] = 5 /\ Rank["PAID"] = 6 /\ Rank["REFUNDED"] = 7
    BY DEF Rank, OrderStatuses
<1> HIDE DEF next, n
<1> QED  BY <1>1, <1>2, <1>3 DEF n, OrderStatuses

-----------------------------------------------------------------------------
(* Entries.                                                                    *)
AllEntries ==
    {TopUp(o) : o \in Orders} \cup {Refund(o) : o \in Orders}
      \cup {Debit(r, c, t) : r \in {"start", "renew"}, c \in Creators, t \in 0..MaxNow}

LEMMA EntryTypes ==
    /\ \A o \in Orders : TopUp(o) \in AllEntries /\ Refund(o) \in AllEntries
    /\ \A r \in {"start", "renew"}, c \in Creators, t \in 0..MaxNow :
         Debit(r, c, t) \in AllEntries
    /\ \A e \in AllEntries : e.amount \in Int
<1>1. \A o \in Orders : TopUp(o).amount \in Int /\ Refund(o).amount \in Int
    BY BillingAssumption DEF TopUp, Refund
<1>2. \A r, c, t : Debit(r, c, t).amount \in Int
    BY BillingAssumption DEF Debit
<1> QED  BY <1>1, <1>2 DEF AllEntries

(* Entries that differ.                                                        *)
LEMMA EntriesDiffer ==
    /\ \A o, p : TopUp(o) = TopUp(p) => o = p
    /\ \A o, p : Refund(o) = Refund(p) => o = p
    /\ \A o, p : TopUp(o) # Refund(p)
    /\ \A o, r, c, t : TopUp(o) # Debit(r, c, t) /\ Refund(o) # Debit(r, c, t)
<1>1. \A o : TopUp(o).type = "TOP_UP" /\ TopUp(o).of = o
    BY DEF TopUp
<1>2. \A o : Refund(o).type = "TOP_UP_REFUND" /\ Refund(o).of = o
    BY DEF Refund
<1>3. \A r, c, t : Debit(r, c, t).type = "SUBSCRIPTION_DEBIT"
    BY DEF Debit
<1> QED  BY <1>1, <1>2, <1>3

LEMMA DebitsDiffer ==
    ASSUME NEW r, NEW c, NEW t, NEW q, NEW d, NEW u, Debit(r, c, t) = Debit(q, d, u)
    PROVE  r = q /\ c = d /\ t = u
<1>1. Debit(r, c, t).of = <<r, c, t>> /\ Debit(q, d, u).of = <<q, d, u>>
    BY DEF Debit
<1> QED  BY <1>1

(* What a transaction does to the money.                                       *)
LEMMA MoneyMoves ==
    ASSUME entries \subseteq AllEntries, balance \in Int, NEW e \in AllEntries,
           NEW before \in Int, mutateWallet(e, before)
    PROVE  /\ entries' \subseteq AllEntries /\ balance' \in Int
           /\ \/ e \in entries /\ entries' = entries /\ balance' = balance
              \/ /\ e \notin entries /\ entries' = entries \cup {e}
                 /\ balance' = before + e.amount
BY EntryTypes DEF mutateWallet, moneyVars

-----------------------------------------------------------------------------
(* Types.                                                                      *)
OrderRow == [status : OrderStatuses, attempt : BOOLEAN, activated : BOOLEAN]

LEMMA IdleIs == Idle \in Jobs /\ Idle.kind = "idle"
BY DEF Jobs, Idle

(* A job of the right type is written.                                         *)
LEMMA JobWrite ==
    ASSUME job \in [Workers -> Jobs], NEW w \in Workers, NEW j \in Jobs,
           job' = [job EXCEPT ![w] = j]
    PROVE  /\ job' \in [Workers -> Jobs] /\ job'[w] = j
           /\ \A v \in Workers : v # w => job'[v] = job[v]
OBVIOUS

(* The environment of orders.                                                  *)
LEMMA TypeOutside ==
    ASSUME TypeOK, NEW o \in Orders,
           Reserve(o) \/ InvoiceMade(o) \/ AttachInvoice(o) \/ InvoiceUnknown(o) \/ PaymentMoves(o)
    PROVE  TypeOK'
<1> USE DEF TypeOK
<1>1. CASE Reserve(o)
    <2>1. order' \in [Orders -> OrderRow]
        BY <1>1 DEF Reserve, OrderStatuses, OrderRow
    <2> QED  BY <1>1, <2>1 DEF Reserve, moneyVars, OrderRow
<1>2. CASE InvoiceMade(o)
    BY <1>2 DEF InvoiceMade, moneyVars
<1>3. CASE AttachInvoice(o)
    <2>1. order'[o].status \in OrderStatuses /\ order' \in [Orders -> OrderRow]
        BY <1>3 DEF AttachInvoice, OrderStatuses, OrderRow
    <2> QED  BY <1>3, <2>1 DEF AttachInvoice, moneyVars, OrderRow
<1>4. CASE InvoiceUnknown(o)
    BY <1>4 DEF InvoiceUnknown, moneyVars
<1>5. CASE PaymentMoves(o)
    BY <1>5 DEF PaymentMoves, moneyVars
<1> QED  BY <1>1, <1>2, <1>3, <1>4, <1>5

(* Workers that begin.                                                         *)
LEMMA BeginType ==
    ASSUME TypeOK, NEW w \in Workers, NEW e \in Events, Begin(w, e), Stored(e)
    PROVE  job' \in [Workers -> Jobs] /\ inbox' \in [Events -> {"absent", "open", "processed"}]
<1> DEFINE j == [kind |-> "event", pc |-> "ready", event |-> e, seen |-> "NONE", before |-> 0]
<1>1. j \in EventJobs
    BY DEF EventJobs, Pc, OrderStatuses
<1>2. job' = [job EXCEPT ![w] = j] /\ j \in Jobs /\ job \in [Workers -> Jobs]
    BY <1>1, JobsAre DEF Begin, TypeOK
<1> HIDE DEF j
<1>3. job' \in [Workers -> Jobs]
    BY <1>2, JobWrite
<1>4. inbox' \in [Events -> {"absent", "open", "processed"}]
    BY DEF Stored, TypeOK
<1> QED  BY <1>3, <1>4

LEMMA FetchedEvent ==
    ASSUME TypeOK, NEW o \in Orders, payment[o] \in ProviderStatuses
    PROVE  /\ payment[o] \in Reports
           /\ [order |-> o, status |-> payment[o], via |-> "fetch"] \in Events
<1>1. payment[o] \in {"none", "invoice"} \cup Reports
    BY DEF TypeOK
<1>2. payment[o] \in Reports
    BY <1>1 DEF ProviderStatuses
<1> QED  BY <1>2 DEF Events

LEMMA TypeBegin ==
    ASSUME TypeOK, NEW w \in Workers,
           \/ \E e \in Events : Receive(w, e)
           \/ \E o \in Orders : Fetch(w, o)
           \/ \E c \in Creators, kind \in {"start", "cancel", "renew"} : Ask(w, kind, c)
    PROVE  TypeOK'
<1>1. ASSUME NEW e \in Events, Receive(w, e) PROVE TypeOK'
    BY <1>1, BeginType DEF Receive, TypeOK, outside, moneyVars
<1>2. ASSUME NEW o \in Orders, Fetch(w, o) PROVE TypeOK'
    <2> DEFINE e == [order |-> o, status |-> payment[o], via |-> "fetch"]
    <2>1. e \in Events /\ Begin(w, e) /\ Stored(e)
        BY <1>2, FetchedEvent DEF Fetch
    <2> HIDE DEF e
    <2>2. job' \in [Workers -> Jobs] /\ inbox' \in [Events -> {"absent", "open", "processed"}]
        BY <2>1, BeginType
    <2> QED  BY <1>2, <2>2 DEF Fetch, TypeOK, outside, moneyVars
<1>3. ASSUME NEW c \in Creators, NEW kind \in {"start", "cancel", "renew"}, Ask(w, kind, c)
      PROVE  TypeOK'
    <2> DEFINE j == [kind |-> kind, pc |-> "ready", creator |-> c, before |-> 0]
    <2>1. j \in Jobs /\ job' = [job EXCEPT ![w] = j] /\ job \in [Workers -> Jobs]
        BY <1>3, JobsAre DEF Ask, CreatorJobs, Pc, TypeOK
    <2> HIDE DEF j
    <2>2. job' \in [Workers -> Jobs]
        BY <2>1, JobWrite
    <2> QED  BY <1>3, <2>2 DEF Ask, TypeOK, outside, moneyVars
<1> QED  BY <1>1, <1>2, <1>3

(* What the rest of reconcileOrder makes of a worker.                          *)
LEMMA AfterwardsType ==
    ASSUME job \in [Workers -> Jobs], NEW w \in Workers, NEW e \in Events, NEW o,
           Afterwards(w, e, o)
    PROVE  /\ job' \in [Workers -> Jobs]
           /\ \/ job'[w] = Idle
              \/ job'[w].kind = "credit" /\ job'[w].pc = "ready"
           /\ \A v \in Workers : v # w => job'[v] = job[v]
<1> DEFINE j == [kind |-> "credit", pc |-> "ready", order |-> e.order, before |-> 0]
<1>1. j \in Jobs /\ j.kind = "credit" /\ j.pc = "ready" /\ Idle \in Jobs
    BY JobsAre DEF CreditJobs, Pc, Events
<1>2. job' = [job EXCEPT ![w] = j] \/ job' = [job EXCEPT ![w] = Idle]
    BY DEF Afterwards
<1> HIDE DEF j
<1> QED  BY <1>1, <1>2

(* The agency's lock and what is read under it.                                *)
LEMMA LockedJob ==
    ASSUME TypeOK, NEW w \in Workers, LockAgency(w)
    PROVE  /\ job' \in [Workers -> Jobs]
           /\ job'[w].kind = job[w].kind /\ job'[w].pc = "locked" /\ job'[w].before = balance
           /\ job[w].kind \in Locking
           /\ job[w].kind = "event" => job'[w].event = job[w].event
           /\ \A v \in Workers : v # w => job'[v] = job[v]
<1> DEFINE j == job[w]
<1>1. j \in Jobs /\ balance \in Int /\ job \in [Workers -> Jobs]
      /\ order \in [Orders -> OrderRow]
    BY DEF TypeOK, OrderRow
<1>2. CASE j.kind = "event"
    <2> DEFINE st == order[j.event.order].status
               n == [j EXCEPT !.pc = "locked", !.before = balance, !.seen = st]
    <2>1. j \in EventJobs
        BY <1>1, <1>2, JobKinds
    <2>2. st \in OrderStatuses
        BY <1>1, <2>1 DEF EventJobs, Events, OrderRow
    <2>3. job' = [job EXCEPT ![w] = n]
        BY <1>1, <1>2 DEF LockAgency
    <2>4. /\ n \in EventJobs /\ n.kind = j.kind /\ n.pc = "locked" /\ n.before = balance
          /\ n.event = j.event
        <3> HIDE DEF j, st
        <3> QED  BY <1>1, <2>1, <2>2 DEF EventJobs, Pc
    <2> HIDE DEF n
    <2>5. n \in Jobs
        BY <2>4, JobsAre
    <2> QED  BY <1>1, <1>2, <2>3, <2>4, <2>5, JobWrite DEF Locking
<1>3. CASE j.kind # "event"
    <2> DEFINE n == [j EXCEPT !.pc = "locked", !.before = balance]
    <2>1. j \in CreditJobs \cup CreatorJobs /\ j.kind \in Locking
        BY <1>1, <1>3, JobKinds DEF LockAgency, Locking
    <2>2. job' = [job EXCEPT ![w] = n]
        BY <1>1, <1>3 DEF LockAgency
    <2>3. /\ n \in CreditJobs \cup CreatorJobs /\ n.kind = j.kind /\ n.pc = "locked"
          /\ n.before = balance
        <3> HIDE DEF j
        <3> QED  BY <1>1, <2>1 DEF CreditJobs, CreatorJobs, Pc
    <2> HIDE DEF n
    <2>4. n \in Jobs
        BY <2>3, JobsAre
    <2> QED  BY <1>1, <1>3, <2>1, <2>2, <2>3, <2>4, JobWrite
<1> QED  BY <1>2, <1>3

(* The jobs that hold the agency's lock, and how they end.                     *)
LEMMA Held ==
    ASSUME TypeOK, NEW w \in Workers, Keeps(w)
    PROVE  /\ job[w].kind = "event" => job[w] \in EventJobs
           /\ job[w].kind = "credit" => job[w] \in CreditJobs
           /\ job[w].kind \in {"start", "cancel", "renew"} => job[w] \in CreatorJobs
           /\ job[w].before \in Int
<1>1. job[w] \in Jobs /\ job[w].kind \in Locking
    BY KeepsIs DEF TypeOK
<1> QED  BY <1>1, JobKinds DEF EventJobs, CreditJobs, CreatorJobs, Locking

LEMMA FinishType ==
    ASSUME TypeOK, NEW w \in Workers, Finish(w)
    PROVE  /\ job' \in [Workers -> Jobs] /\ lock' \in Workers \cup {NoOne}
           /\ job'[w] = Idle /\ lock' = NoOne
           /\ \A v \in Workers : v # w => job'[v] = job[v]
BY IdleIs, JobWrite DEF Finish, TypeOK

LEMMA TypeProject ==
    ASSUME TypeOK, NEW w \in Workers, Project(w)
    PROVE  TypeOK'
<1> DEFINE e == job[w].event
           status == monotonicOrderStatus(job[w].seen, e.status)
           credit == Creditable(e.order, status)
           act == order[e.order].activated \/ credit
           after == [order[e.order] EXCEPT !.status = status, !.attempt = TRUE,
                                           !.activated = act]
<1>1. /\ e \in Events /\ e.order \in Orders /\ e.status \in ProviderStatuses
      /\ job[w].seen \in OrderStatuses /\ job[w].before \in Int
    BY Held, BillingAssumption DEF Project, EventJobs, Events
<1>2. status \in OrderStatuses
    BY <1>1, Monotonic
<1>3. act \in BOOLEAN
    BY <1>1 DEF TypeOK
<1>4. after \in OrderRow
    <2> DEFINE r == order[e.order]
    <2>1. r \in OrderRow
        BY <1>1 DEF TypeOK, OrderRow
    <2> HIDE DEF status, act, r
    <2> QED  BY <1>2, <1>3, <2>1 DEF OrderRow, r
<1>5. order' = [order EXCEPT ![e.order] = after] /\ inbox' = [inbox EXCEPT ![e] = "processed"]
      /\ Afterwards(w, e, after) /\ lock' = NoOne
    BY DEF Project
<1>6. /\ order' \in [Orders -> OrderRow]
      /\ inbox' \in [Events -> {"absent", "open", "processed"}]
      /\ job' \in [Workers -> Jobs]
    <2>1. order' \in [Orders -> OrderRow]
        <3>1. order \in [Orders -> OrderRow]
            BY DEF TypeOK, OrderRow
        <3> HIDE DEF after, e
        <3> QED  BY <1>4, <1>5, <3>1
    <2>2. inbox' \in [Events -> {"absent", "open", "processed"}]
        <3>1. inbox \in [Events -> {"absent", "open", "processed"}]
            BY DEF TypeOK
        <3> HIDE DEF e, after
        <3> QED  BY <1>5, <3>1
    <2>3. job' \in [Workers -> Jobs]
        <3> HIDE DEF e, after
        <3> QED  BY <1>1, <1>5, AfterwardsType DEF TypeOK
    <2> QED  BY <2>1, <2>2, <2>3
<1>7. entries' \subseteq AllEntries /\ balance' \in Int
    <2>1. \/ mutateWallet(TopUp(e.order), job[w].before)
          \/ mutateWallet(Refund(e.order), job[w].before)
          \/ UNCHANGED moneyVars
        <3> HIDE DEF e
        <3> QED  BY DEF Project, e
    <2>2. TopUp(e.order) \in AllEntries /\ Refund(e.order) \in AllEntries
          /\ entries \subseteq AllEntries /\ balance \in Int
        BY <1>1, EntryTypes DEF TypeOK, AllEntries
    <2> HIDE DEF e
    <2> QED  BY <1>1, <2>1, <2>2, MoneyMoves DEF moneyVars
<1>8. lock' = NoOne /\ UNCHANGED <<outside, ent, now, crashes>>
    BY DEF Project
<1> HIDE DEF e, after
<1> QED  BY <1>6, <1>7, <1>8 DEF TypeOK, outside, AllEntries, OrderRow

LEMMA TypeCredit ==
    ASSUME TypeOK, NEW w \in Workers, Credit(w)
    PROVE  TypeOK'
<1> DEFINE o == job[w].order
<1>1. o \in Orders /\ job[w].before \in Int /\ TopUp(o) \in AllEntries
      /\ entries \subseteq AllEntries /\ balance \in Int
    BY Held, EntryTypes DEF Credit, CreditJobs, TypeOK, AllEntries
<1>2. order' \in [Orders -> OrderRow]
    <2>1. order \in [Orders -> OrderRow]
        BY DEF TypeOK, OrderRow
    <2>2. order' = order \/ order' = [order EXCEPT ![o].activated = TRUE]
        BY DEF Credit
    <2> HIDE DEF o
    <2> QED  BY <1>1, <2>1, <2>2 DEF OrderRow
<1>3. entries' \subseteq AllEntries /\ balance' \in Int
    <2>1. mutateWallet(TopUp(o), job[w].before) \/ UNCHANGED moneyVars
        BY DEF Credit, moneyVars
    <2> HIDE DEF o
    <2> QED  BY <1>1, <2>1, MoneyMoves DEF moneyVars
<1>4. job' \in [Workers -> Jobs] /\ lock' \in Workers \cup {NoOne}
    BY FinishType DEF Credit
<1> QED  BY <1>2, <1>3, <1>4 DEF Credit, TypeOK, outside, AllEntries, OrderRow

(* A period starts between the end of the last one and now.                    *)
LEMMA StartBetween ==
    ASSUME TypeOK, NEW c \in Creators, Due(c)
    PROVE  renewalStartAt(c) \in ent[c].until..now
BY DEF Due, renewalStartAt, TypeOK, Entitlements

LEMMA ChargeType ==
    ASSUME TypeOK, NEW c \in Creators, NEW reason \in {"start", "renew"},
           NEW start \in 0..now, NEW before \in Int, Charge(c, reason, start, before)
    PROVE  /\ entries' \subseteq AllEntries /\ balance' \in Int
           /\ ent' \in [Creators -> Entitlements]
           /\ \/ Debit(reason, c, start) \in entries /\ entries' = entries /\ balance' = balance
              \/ /\ Debit(reason, c, start) \notin entries
                 /\ entries' = entries \cup {Debit(reason, c, start)}
                 /\ balance' = before - Price
<1>1. start \in 0..MaxNow
    <2>1. now \in 0..MaxNow /\ MaxNow \in Nat
        BY BillingAssumption DEF TypeOK
    <2> QED  BY <2>1
<1>2. Debit(reason, c, start) \in AllEntries /\ Debit(reason, c, start).amount = -Price
      /\ Price \in Int
    BY <1>1, EntryTypes, BillingAssumption DEF Debit
<1>3. mutateWallet(Debit(reason, c, start), before) /\ entries \subseteq AllEntries
      /\ balance \in Int
    BY DEF Charge, TypeOK, AllEntries
<1>4. /\ entries' \subseteq AllEntries /\ balance' \in Int
      /\ \/ Debit(reason, c, start) \in entries /\ entries' = entries /\ balance' = balance
         \/ /\ Debit(reason, c, start) \notin entries
            /\ entries' = entries \cup {Debit(reason, c, start)}
            /\ balance' = before + (-Price)
    BY <1>2, <1>3, MoneyMoves
<1>5. ent' \in [Creators -> Entitlements]
    <2>1. [until |-> start + Period, renew |-> TRUE, error |-> FALSE] \in Entitlements
        BY BillingAssumption DEF Entitlements, TypeOK
    <2> QED  BY <2>1 DEF Charge, TypeOK
<1>6. before + (-Price) = before - Price
    BY <1>2
<1> QED  BY <1>4, <1>5, <1>6

(* The transactions on a creator's subscription, but for the refusals.         *)
LEMMA TypeSubscription ==
    ASSUME TypeOK, NEW w \in Workers, StartSubscription(w) \/ CancelRenewal(w) \/ Renew(w)
    PROVE  TypeOK'
<1> DEFINE c == job[w].creator
<1>1. c \in Creators /\ job[w].before \in Int /\ now \in Nat
    BY Held DEF StartSubscription, CancelRenewal, Renew, CreatorJobs, TypeOK
<1>2. job' \in [Workers -> Jobs] /\ lock' \in Workers \cup {NoOne}
    BY FinishType DEF StartSubscription, CancelRenewal, Renew
<1>3. /\ entries' \subseteq AllEntries /\ balance' \in Int
      /\ ent' \in [Creators -> Entitlements]
    <2>1. CASE \E s \in 0..now, reason \in {"start", "renew"} : Charge(c, reason, s, job[w].before)
        <3> HIDE DEF c
        <3> QED  BY <1>1, <2>1, ChargeType
    <2>2. CASE UNCHANGED moneyVars
              /\ \/ UNCHANGED ent
                 \/ \E b \in BOOLEAN : ent' = [ent EXCEPT ![c].renew = b, ![c].error = FALSE]
        <3>1. entries' \subseteq AllEntries /\ balance' \in Int
            BY <2>2 DEF moneyVars, TypeOK, AllEntries
        <3>2. ent \in [Creators -> Entitlements]
            BY DEF TypeOK
        <3> HIDE DEF c
        <3>3. ent' \in [Creators -> Entitlements]
            BY <2>2, <3>2 DEF Entitlements
        <3> QED  BY <3>1, <3>3
    <2>3. CASE StartSubscription(w)
        <3>1. now \in 0..now
            BY <1>1
        <3> QED  BY <2>1, <2>2, <2>3, <3>1 DEF StartSubscription
    <2>4. CASE CancelRenewal(w)
        BY <2>2, <2>4 DEF CancelRenewal
    <2>5. CASE Renew(w)
        <3>1. renewalStartAt(c) \in 0..now
            BY <1>1, <2>5, StartBetween DEF Renew, TypeOK, Entitlements
        <3> QED  BY <2>1, <2>5, <3>1 DEF Renew
    <2> QED  BY <2>3, <2>4, <2>5
<1> HIDE DEF c
<1> QED  BY <1>2, <1>3 DEF StartSubscription, CancelRenewal, Renew, TypeOK, outside, AllEntries

LEMMA TypeRest ==
    ASSUME TypeOK, NEW w \in Workers,
           \/ ReplayEvent(w) \/ LockAgency(w) \/ Reread(w)
           \/ SkipRenewal(w) \/ RefuseRenewal(w) \/ ReportRefusal(w) \/ Crash(w)
    PROVE  TypeOK'
<1>1. job \in [Workers -> Jobs] /\ job[w] \in Jobs /\ lock \in Workers \cup {NoOne}
    BY DEF TypeOK
<1>2. CASE ReplayEvent(w)
    <2>1. job[w].event \in Events
        BY <1>1, <1>2, JobKinds DEF ReplayEvent, EventJobs
    <2>2. job' \in [Workers -> Jobs]
        BY <1>1, <1>2, <2>1, AfterwardsType DEF ReplayEvent
    <2> QED  BY <1>2, <2>2 DEF ReplayEvent, TypeOK, outside, moneyVars
<1>3. CASE LockAgency(w)
    <2>1. job' \in [Workers -> Jobs] /\ lock' = w
        BY <1>3, LockedJob DEF LockAgency
    <2>2. UNCHANGED <<order, outside, inbox, moneyVars, ent, now, crashes>>
        BY <1>3 DEF LockAgency
    <2> QED  BY <2>1, <2>2 DEF TypeOK, outside, moneyVars
<1>4. CASE Reread(w)
    <2> DEFINE j == job[w]
               st == order[j.event.order].status
               n == [j EXCEPT !.seen = st]
    <2>1. j \in EventJobs /\ st \in OrderStatuses
        BY <1>4, Held DEF Reread, EventJobs, Events, TypeOK
    <2>2. n \in EventJobs
        <3> HIDE DEF j, st
        <3> QED  BY <2>1 DEF EventJobs
    <2>3. job' = [job EXCEPT ![w] = n]
        BY <1>4 DEF Reread
    <2> HIDE DEF n
    <2>4. job' \in [Workers -> Jobs]
        BY <1>1, <2>2, <2>3, JobsAre
    <2> QED  BY <1>4, <2>4 DEF Reread, TypeOK, outside, moneyVars
<1>5. CASE SkipRenewal(w)
    BY <1>5, FinishType DEF SkipRenewal, TypeOK, outside, moneyVars
<1>6. CASE RefuseRenewal(w)
    <2> DEFINE c == job[w].creator
    <2>1. PICK code \in Denials \cup {"balance"} :
            job' = [job EXCEPT ![w] = [kind |-> "report", creator |-> c, code |-> code, at |-> now]]
        BY <1>6 DEF RefuseRenewal
    <2>2. [kind |-> "report", creator |-> c, code |-> code, at |-> now] \in Jobs
        BY <1>6, Held, JobsAre DEF RefuseRenewal, CreatorJobs, ReportJobs, TypeOK
    <2>3. job' \in [Workers -> Jobs]
        <3> HIDE DEF c
        <3> QED  BY <1>1, <2>1, <2>2
    <2> QED  BY <1>6, <2>3 DEF RefuseRenewal, TypeOK, outside, moneyVars
<1>7. CASE ReportRefusal(w)
    <2> DEFINE c == job[w].creator
               b == job[w].code # "disabled"
    <2>1. /\ b \in BOOLEAN /\ ent \in [Creators -> Entitlements]
          /\ ent' = [ent EXCEPT ![c].error = b, ![c].renew = b] \/ ent' = ent
        BY <1>7 DEF ReportRefusal, TypeOK
    <2>2. ent' \in [Creators -> Entitlements]
        <3> HIDE DEF b, c
        <3> QED  BY <2>1 DEF Entitlements
    <2>3. job' \in [Workers -> Jobs]
        BY <1>1, <1>7, IdleIs DEF ReportRefusal
    <2> QED  BY <1>7, <2>2, <2>3 DEF ReportRefusal, TypeOK, outside, moneyVars
<1>8. CASE Crash(w)
    <2>1. job' \in [Workers -> Jobs] /\ lock' \in Workers \cup {NoOne}
        BY <1>1, <1>8, IdleIs DEF Crash
    <2>2. crashes' \in 0..MaxCrashes
        BY <1>8, BillingAssumption DEF Crash, TypeOK
    <2> QED  BY <1>8, <2>1, <2>2 DEF Crash, TypeOK, outside, moneyVars
<1> QED  BY <1>2, <1>3, <1>4, <1>5, <1>6, <1>7, <1>8

LEMMA TypeStep == TypeOK /\ [Next]_vars => TypeOK'
<1> SUFFICES ASSUME TypeOK, [Next]_vars PROVE TypeOK'
    OBVIOUS
<1>1. CASE Deploy \/ Tick
    <2>1. CASE Deploy
        BY <2>1 DEF Deploy, TypeOK, moneyVars
    <2>2. CASE Tick
        <3>1. now' \in 0..MaxNow
            BY <2>2, BillingAssumption DEF Tick, TypeOK
        <3> QED  BY <2>2, <3>1 DEF Tick, TypeOK, outside, moneyVars
    <2> QED  BY <1>1, <2>1, <2>2
<1>2. CASE UNCHANGED vars
    BY <1>2 DEF vars, TypeOK, outside, moneyVars
<1> QED
    BY <1>1, <1>2, TypeOutside, TypeBegin, TypeProject, TypeCredit, TypeSubscription,
       TypeRest DEF Next, Work

LEMMA TypeInit == Init => TypeOK
<1> SUFFICES ASSUME Init PROVE TypeOK
    OBVIOUS
<1>1. order \in [Orders -> OrderRow]
    BY DEF Init, NoOrder, OrderRow, OrderStatuses
<1>2. now \in 0..MaxNow /\ crashes \in 0..MaxCrashes
    BY BillingAssumption DEF Init
<1>3. ent \in [Creators -> Entitlements]
    BY DEF Init, Entitlements
<1>4. job \in [Workers -> Jobs]
    BY IdleIs DEF Init
<1> QED  BY <1>1, <1>2, <1>3, <1>4 DEF Init, TypeOK, OrderRow

(* Orders, payments, the inbox, the wallet, subscriptions and workers keep     *)
(* their types, for any number of orders, creators and workers, any prices,    *)
(* periods and denials.                                                        *)
THEOREM TypeCorrect == Spec => []TypeOK
BY TypeInit, TypeStep, PTL DEF Spec

-----------------------------------------------------------------------------
(* The agency's lock: one worker has it, and the balance it read still holds.  *)
Locked(j) == j.kind \in Locking /\ j.pc = "locked"

LockInv == \A w \in Workers : Locked(job[w]) => lock = w /\ job[w].before = balance

LEMMA LockWrite ==
    ASSUME LockInv, NEW w \in Workers, \A v \in Workers : v # w => job'[v] = job[v],
           \/ /\ ~Locked(job'[w])
              /\ (lock' = lock /\ balance' = balance) \/ Locked(job[w])
           \/ /\ lock' = w /\ balance' = balance /\ job'[w].before = balance
              /\ lock = NoOne \/ Locked(job[w])
    PROVE  LockInv'
<1> SUFFICES ASSUME NEW v \in Workers, Locked(job'[v])
             PROVE  lock' = v /\ job'[v].before = balance'
    BY DEF LockInv, Locked
<1>1. NoOne \notin Workers
    BY BillingAssumption
<1> QED  BY <1>1 DEF LockInv

LEMMA KeepsLocked ==
    ASSUME TypeOK, NEW w \in Workers
    PROVE  Keeps(w) <=> Locked(job[w])
<1>1. job[w] \in Jobs
    BY DEF TypeOK
<1> QED  BY <1>1, KeepsIs DEF Locked

LEMMA FreeHands ==
    /\ ~Locked(Idle)
    /\ \A j : j.kind = "report" \/ j.pc = "ready" => ~Locked(j)
BY DEF Locked, Idle, Locking

(* A transaction ends, or is rolled back.                                      *)
LEMMA LockEnds ==
    ASSUME TypeOK, LockInv, NEW w \in Workers,
           \/ Project(w) \/ Credit(w) \/ StartSubscription(w) \/ CancelRenewal(w)
           \/ Renew(w) \/ SkipRenewal(w) \/ RefuseRenewal(w)
    PROVE  LockInv'
<1>1. Keeps(w) /\ job \in [Workers -> Jobs]
    BY DEF Project, Credit, StartSubscription, CancelRenewal, Renew, SkipRenewal,
           RefuseRenewal, TypeOK
<1>2. \A v \in Workers : v # w => job'[v] = job[v]
    <2>1. CASE Project(w)
        <3>1. job[w].event \in Events
            BY <1>1, <2>1, Held DEF Project, EventJobs
        <3> QED  BY <1>1, <2>1, <3>1, AfterwardsType DEF Project
    <2>2. CASE RefuseRenewal(w)
        BY <1>1, <2>2 DEF RefuseRenewal
    <2>3. CASE ~Project(w) /\ ~RefuseRenewal(w)
        BY <2>3, FinishType DEF Credit, StartSubscription, CancelRenewal, Renew, SkipRenewal
    <2> QED  BY <2>1, <2>2, <2>3
<1>3. ~Locked(job'[w])
    <2>1. CASE Project(w)
        <3>1. job[w].event \in Events
            BY <1>1, <2>1, Held DEF Project, EventJobs
        <3> QED  BY <1>1, <2>1, <3>1, AfterwardsType, FreeHands DEF Project
    <2>2. CASE RefuseRenewal(w)
        <3>1. job'[w].kind = "report"
            BY <1>1, <2>2 DEF RefuseRenewal
        <3> QED  BY <3>1, FreeHands
    <2>3. CASE ~Project(w) /\ ~RefuseRenewal(w)
        BY <2>3, FinishType, FreeHands
        DEF Credit, StartSubscription, CancelRenewal, Renew, SkipRenewal
    <2> QED  BY <2>1, <2>2, <2>3
<1> QED  BY <1>1, <1>2, <1>3, KeepsLocked, LockWrite

LEMMA LockBegins ==
    ASSUME TypeOK, LockInv, NEW w \in Workers,
           \/ \E e \in Events : Receive(w, e)
           \/ \E o \in Orders : Fetch(w, o)
           \/ \E c \in Creators, kind \in {"start", "cancel", "renew"} : Ask(w, kind, c)
           \/ ReplayEvent(w) \/ LockAgency(w) \/ Reread(w) \/ ReportRefusal(w) \/ Crash(w)
    PROVE  LockInv'
<1>1. job \in [Workers -> Jobs] /\ job[w] \in Jobs
    BY DEF TypeOK
<1>2. CASE \/ \E e \in Events : Receive(w, e)
           \/ \E o \in Orders : Fetch(w, o)
           \/ \E c \in Creators, kind \in {"start", "cancel", "renew"} : Ask(w, kind, c)
    <2>1. /\ \A v \in Workers : v # w => job'[v] = job[v]
          /\ job'[w].pc = "ready"
        <3>1. \A e : Begin(w, e) =>
                /\ \A v \in Workers : v # w => job'[v] = job[v]
                /\ job'[w].pc = "ready"
            BY <1>1 DEF Begin
        <3>2. \A c, kind : Ask(w, kind, c) =>
                /\ \A v \in Workers : v # w => job'[v] = job[v]
                /\ job'[w].pc = "ready"
            BY <1>1 DEF Ask
        <3> QED  BY <1>2, <3>1, <3>2 DEF Receive, Fetch
    <2>2. lock' = lock /\ balance' = balance
        BY <1>2 DEF Receive, Fetch, Ask, moneyVars
    <2> QED  BY <2>1, <2>2, FreeHands, LockWrite
<1>3. CASE ReplayEvent(w)
    <2>1. job[w].event \in Events
        BY <1>1, <1>3, JobKinds DEF ReplayEvent, EventJobs
    <2>2. /\ \A v \in Workers : v # w => job'[v] = job[v]
          /\ job'[w] = Idle \/ job'[w].pc = "ready"
        BY <1>1, <1>3, <2>1, AfterwardsType DEF ReplayEvent
    <2>3. lock' = lock /\ balance' = balance
        BY <1>3 DEF ReplayEvent, moneyVars
    <2> QED  BY <2>2, <2>3, FreeHands, LockWrite
<1>4. CASE LockAgency(w)
    <2>1. lock = NoOne /\ lock' = w /\ balance' = balance
        BY <1>4 DEF LockAgency, moneyVars
    <2> QED  BY <1>4, <2>1, LockedJob, LockWrite
<1>5. CASE Reread(w)
    <2>1. /\ \A v \in Workers : v # w => job'[v] = job[v]
          /\ job'[w] = [job[w] EXCEPT !.seen = order[job[w].event.order].status]
          /\ lock' = lock /\ balance' = balance
        BY <1>1, <1>5 DEF Reread, moneyVars
    <2>2. job[w] \in EventJobs /\ Locked(job[w])
        BY <1>5, Held, KeepsLocked DEF Reread
    <2>3. job'[w].before = job[w].before
        BY <2>1, <2>2 DEF EventJobs
    <2> QED  BY <2>1, <2>2, <2>3, LockWrite DEF LockInv
<1>6. CASE ReportRefusal(w)
    <2>1. /\ \A v \in Workers : v # w => job'[v] = job[v]
          /\ job'[w] = Idle /\ lock' = lock /\ balance' = balance
        BY <1>1, <1>6 DEF ReportRefusal, moneyVars
    <2> QED  BY <2>1, FreeHands, LockWrite
<1>7. CASE Crash(w)
    <2>1. /\ \A v \in Workers : v # w => job'[v] = job[v]
          /\ job'[w] = Idle /\ balance' = balance
          /\ lock' = IF Keeps(w) THEN NoOne ELSE lock
        BY <1>1, <1>7 DEF Crash, moneyVars
    <2> QED  BY <2>1, FreeHands, KeepsLocked, LockWrite
<1> QED  BY <1>2, <1>3, <1>4, <1>5, <1>6, <1>7

LEMMA LockStep == TypeOK /\ LockInv /\ [Next]_vars => LockInv'
<1> SUFFICES ASSUME TypeOK, LockInv, [Next]_vars PROVE LockInv'
    OBVIOUS
<1>1. ASSUME job' = job, lock' = lock, balance' = balance PROVE LockInv'
    BY <1>1 DEF LockInv, Locked
<1>2. ASSUME NEW o \in Orders,
             Reserve(o) \/ InvoiceMade(o) \/ AttachInvoice(o) \/ InvoiceUnknown(o) \/ PaymentMoves(o)
      PROVE  LockInv'
    BY <1>1, <1>2 DEF Reserve, InvoiceMade, AttachInvoice, InvoiceUnknown, PaymentMoves, moneyVars
<1>3. CASE Deploy \/ Tick \/ UNCHANGED vars
    BY <1>1, <1>3 DEF Deploy, Tick, vars, moneyVars
<1> QED  BY <1>2, <1>3, LockEnds, LockBegins DEF Next, Work

LEMMA LockInvariant == Spec => [](TypeOK /\ LockInv)
<1>1. Init => LockInv
    BY FreeHands DEF Init, LockInv
<1> QED  BY <1>1, TypeInit, TypeStep, LockStep, PTL DEF Spec

-----------------------------------------------------------------------------
(* What the steps do to orders and money.                                      *)
Credited(o, n) == n = "PAID" /\ activation /\ TopUp(o) \notin entries /\ ~order[o].activated
Returned(o, n) == n = "REFUNDED" /\ TopUp(o) \in entries

(* n is the status that the order of a callback gets.                          *)
Projected(o, n) ==
    /\ order' \in [Orders -> OrderRow]
    /\ \A p \in Orders : p # o => order'[p] = order[p]
    /\ order'[o].status = n
    /\ order'[o].activated = (order[o].activated \/ Credited(o, n))
    /\ CASE Credited(o, n) -> /\ entries' = entries \cup {TopUp(o)}
                              /\ balance' = balance + Amount[o]
         [] Returned(o, n) -> /\ entries' = entries \cup {Refund(o)}
                              /\ balance' = IF Refund(o) \in entries THEN balance
                                            ELSE balance - Amount[o]
         [] OTHER -> entries' = entries /\ balance' = balance

LEMMA MoneyPosted ==
    ASSUME TypeOK, NEW o \in Orders
    PROVE  /\ mutateWallet(TopUp(o), balance) /\ TopUp(o) \notin entries =>
                entries' = entries \cup {TopUp(o)} /\ balance' = balance + Amount[o]
           /\ mutateWallet(Refund(o), balance) =>
                /\ entries' = entries \cup {Refund(o)}
                /\ balance' = IF Refund(o) \in entries THEN balance ELSE balance - Amount[o]
<1>1. TopUp(o).amount = Amount[o] /\ Refund(o).amount = -Amount[o] /\ Amount[o] \in Int
      /\ balance \in Int
    BY BillingAssumption DEF TopUp, Refund, TypeOK
<1> QED  BY <1>1 DEF mutateWallet, moneyVars

LEMMA ProjectIs ==
    ASSUME TypeOK, LockInv, NEW w \in Workers, Project(w)
    PROVE  LET e == job[w].event
           IN /\ e \in Events /\ e.order \in Orders /\ e.status \in ProviderStatuses
              /\ job[w].kind = "event"
              /\ Projected(e.order, monotonicOrderStatus(order[e.order].status, e.status))
<1> DEFINE e == job[w].event
           o == e.order
           n == monotonicOrderStatus(order[o].status, e.status)
           act == order[o].activated \/ Credited(o, n)
           after == [order[o] EXCEPT !.status = n, !.attempt = TRUE, !.activated = act]
<1>1. /\ e \in Events /\ o \in Orders /\ e.status \in ProviderStatuses
      /\ job[w].seen = order[o].status /\ job[w].before = balance
      /\ order \in [Orders -> OrderRow] /\ job[w].kind = "event"
    BY Held, KeepsLocked, BillingAssumption DEF Project, EventJobs, Events, LockInv, TypeOK,
       OrderRow
<1>2. n \in OrderStatuses /\ act \in BOOLEAN
    <2>1. order[o].status \in OrderStatuses /\ order[o].activated \in BOOLEAN
        BY <1>1 DEF OrderRow
    <2> HIDE DEF o, e
    <2>2. n \in OrderStatuses
        BY <1>1, <2>1, Monotonic DEF o
    <2> QED  BY <2>1, <2>2
<1>3. /\ after \in OrderRow /\ after.status = n /\ after.activated = act
    <2> DEFINE r == order[o]
    <2>1. r \in OrderRow
        BY <1>1
    <2> HIDE DEF n, act, r
    <2> QED  BY <1>2, <2>1 DEF OrderRow, r
<1>4. order' = [order EXCEPT ![o] = after]
    BY <1>1 DEF Project, Credited, Creditable
<1>5. /\ Creditable(o, n) => mutateWallet(TopUp(o), balance)
      /\ ~Creditable(o, n) /\ Reversible(o, n) => mutateWallet(Refund(o), balance)
      /\ ~Creditable(o, n) /\ ~Reversible(o, n) => UNCHANGED moneyVars
    <2>1. ~(Creditable(o, n) /\ Reversible(o, n))
        BY DEF Creditable, Reversible
    <2>2. LET status == monotonicOrderStatus(job[w].seen, e.status)
          IN CASE Creditable(o, status) -> mutateWallet(TopUp(o), job[w].before)
               [] Reversible(o, status) -> mutateWallet(Refund(o), job[w].before)
               [] OTHER -> UNCHANGED moneyVars
        BY DEF Project
    <2> HIDE DEF o, e
    <2> QED  BY <1>1, <2>1, <2>2
<1>6. \A p \in Orders : p # o => order'[p] = order[p]
    <2> HIDE DEF after, o
    <2> QED  BY <1>1, <1>4
<1>7. order' \in [Orders -> OrderRow] /\ order'[o] = after
    <2> HIDE DEF after, o
    <2> QED  BY <1>1, <1>3, <1>4
<1>8. order'[o].status = n /\ order'[o].activated = (order[o].activated \/ Credited(o, n))
    <2> HIDE DEF after, o, n
    <2> QED  BY <1>3, <1>7
<1>9. Projected(o, n)
    <2> HIDE DEF after, o, n, e
    <2>1. CASE Credited(o, n)
        <3>1. mutateWallet(TopUp(o), balance) /\ TopUp(o) \notin entries
            BY <1>5, <2>1 DEF Credited, Creditable
        <3>2. entries' = entries \cup {TopUp(o)} /\ balance' = balance + Amount[o]
            BY <1>1, <3>1, MoneyPosted
        <3>3. ~Returned(o, n)
            BY <2>1 DEF Credited, Returned
        <3> QED  BY <1>6, <1>7, <1>8, <2>1, <3>2, <3>3 DEF Projected
    <2>2. CASE ~Credited(o, n) /\ Returned(o, n)
        <3>1. mutateWallet(Refund(o), balance)
            BY <1>5, <2>2 DEF Credited, Creditable, Returned, Reversible
        <3>2. /\ entries' = entries \cup {Refund(o)}
              /\ balance' = IF Refund(o) \in entries THEN balance ELSE balance - Amount[o]
            BY <1>1, <3>1, MoneyPosted
        <3> QED  BY <1>6, <1>7, <1>8, <2>2, <3>2 DEF Projected
    <2>3. CASE ~Credited(o, n) /\ ~Returned(o, n)
        <3>1. entries' = entries /\ balance' = balance
            BY <1>5, <2>3 DEF Credited, Creditable, Returned, Reversible, moneyVars
        <3> QED  BY <1>6, <1>7, <1>8, <2>3, <3>1 DEF Projected
    <2> QED  BY <2>1, <2>2, <2>3
<1> QED  BY <1>1, <1>9

LEMMA CreditIs ==
    ASSUME TypeOK, LockInv, NEW w \in Workers, Credit(w)
    PROVE  LET o == job[w].order
           IN \/ o \in Orders /\ Projected(o, order[o].status) /\ job[w].kind = "credit"
              \/ UNCHANGED <<order, entries, balance>>
<1> DEFINE o == job[w].order
<1>1. order \in [Orders -> OrderRow] /\ job[w].kind = "credit"
    BY DEF Credit, TypeOK, OrderRow
<1>2. o \in Orders
    BY Held DEF Credit, CreditJobs
<1>3. job[w].before = balance
    BY KeepsLocked DEF Credit, LockInv
<1>4. CASE Creditable(o, order[o].status)
    <2>1. /\ order' = [order EXCEPT ![o].activated = TRUE]
          /\ mutateWallet(TopUp(o), balance)
        BY <1>3, <1>4 DEF Credit
    <2>2. TopUp(o) \notin entries /\ Credited(o, order[o].status)
        BY <1>4 DEF Creditable, Credited
    <2> HIDE DEF o
    <2>3. entries' = entries \cup {TopUp(o)} /\ balance' = balance + Amount[o]
        BY <1>2, <2>1, <2>2, MoneyPosted
    <2>4. /\ order' \in [Orders -> OrderRow] /\ \A p \in Orders : p # o => order'[p] = order[p]
          /\ order'[o].status = order[o].status /\ order'[o].activated = TRUE
        <3>1. order[o] \in OrderRow
            BY <1>1, <1>2
        <3> DEFINE r == [order[o] EXCEPT !.activated = TRUE]
        <3>2. r \in OrderRow /\ r.status = order[o].status /\ r.activated = TRUE
            BY <3>1 DEF OrderRow
        <3>3. order' = [order EXCEPT ![o] = r]
            BY <1>1, <1>2, <2>1
        <3> HIDE DEF r
        <3> QED  BY <1>1, <1>2, <3>2, <3>3
    <2>5. ~Returned(o, order[o].status)
        BY <2>2 DEF Credited, Returned
    <2>6. Projected(o, order[o].status)
        BY <1>1, <1>2, <2>2, <2>3, <2>4, <2>5 DEF Projected
    <2> QED  BY <1>1, <1>2, <2>6 DEF o
<1>5. CASE ~Creditable(o, order[o].status)
    BY <1>5 DEF Credit, moneyVars
<1> QED  BY <1>4, <1>5

-----------------------------------------------------------------------------
(* What is applied was reported.                                               *)
ReportedInv ==
    /\ \A o \in Orders : payment[o] \in ProviderStatuses => payment[o] \in reported[o]
    /\ \A w \in Workers : job[w].kind = "event" =>
         job[w].event.status \in reported[job[w].event.order]

LEMMA ReportedWrite ==
    ASSUME ReportedInv, payment' = payment, reported' = reported, NEW w \in Workers,
           \A v \in Workers : v # w => job'[v] = job[v],
           job'[w].kind = "event" => job'[w].event.status \in reported[job'[w].event.order]
    PROVE  ReportedInv'
BY DEF ReportedInv

LEMMA ReportedOutside ==
    ASSUME TypeOK, ReportedInv, NEW o \in Orders,
           Reserve(o) \/ InvoiceMade(o) \/ AttachInvoice(o) \/ InvoiceUnknown(o) \/ PaymentMoves(o)
    PROVE  ReportedInv'
<1>1. /\ payment \in [Orders -> {"none", "invoice"} \cup Reports]
      /\ reported \in [Orders -> SUBSET Reports] /\ job' = job
    BY DEF TypeOK, Reserve, InvoiceMade, AttachInvoice, InvoiceUnknown, PaymentMoves
<1>2. CASE Reserve(o) \/ AttachInvoice(o) \/ InvoiceUnknown(o)
    BY <1>1, <1>2 DEF ReportedInv, Reserve, AttachInvoice, InvoiceUnknown
<1>3. CASE InvoiceMade(o)
    <2>1. payment' = [payment EXCEPT ![o] = "invoice"] /\ reported' = reported
        BY <1>3 DEF InvoiceMade
    <2> QED  BY <1>1, <2>1 DEF ReportedInv, ProviderStatuses
<1>4. CASE PaymentMoves(o)
    <2>1. PICK s \in Reports : /\ payment' = [payment EXCEPT ![o] = s]
                               /\ reported' = [reported EXCEPT ![o] = @ \cup {s}]
        BY <1>4 DEF PaymentMoves
    <2>2. \A p \in Orders : reported[p] \subseteq reported'[p]
        BY <1>1, <2>1
    <2>3. \A p \in Orders : payment'[p] \in ProviderStatuses => payment'[p] \in reported'[p]
        BY <1>1, <2>1, <2>2 DEF ReportedInv
    <2>4. \A w \in Workers : job[w].kind = "event" => job[w].event.order \in Orders
        BY JobKinds DEF TypeOK, EventJobs, Events
    <2> QED  BY <1>1, <2>2, <2>3, <2>4 DEF ReportedInv
<1> QED  BY <1>2, <1>3, <1>4

LEMMA ReportedBegins ==
    ASSUME TypeOK, ReportedInv, NEW w \in Workers, NEW e \in Events, Begin(w, e),
           e.status \in reported[e.order], payment' = payment, reported' = reported
    PROVE  ReportedInv'
<1> DEFINE j == [kind |-> "event", pc |-> "ready", event |-> e, seen |-> "NONE", before |-> 0]
<1>1. job' = [job EXCEPT ![w] = j] /\ j.event = e /\ job \in [Workers -> Jobs]
    BY DEF Begin, TypeOK
<1> HIDE DEF j
<1>2. job'[w] = j /\ \A v \in Workers : v # w => job'[v] = job[v]
    BY <1>1
<1> QED  BY <1>1, <1>2, ReportedWrite

LEMMA ReportedWorks ==
    ASSUME TypeOK, ReportedInv, NEW w \in Workers, Work(w) \/ Crash(w)
    PROVE  ReportedInv'
<1>1. job \in [Workers -> Jobs] /\ payment' = payment /\ reported' = reported
    BY DEF TypeOK, Work, Crash, outside, ReplayEvent, LockAgency, Reread, Project, Credit,
       StartSubscription, CancelRenewal, Renew, SkipRenewal, RefuseRenewal, ReportRefusal
<1>2. /\ \A v \in Workers : v # w => job'[v] = job[v]
      /\ job'[w].kind = "event" => job[w].kind = "event" /\ job'[w].event = job[w].event
    <2>1. CASE ReplayEvent(w) \/ Project(w)
        <3>1. job[w] \in EventJobs
            BY <1>1, <2>1, JobKinds DEF ReplayEvent, Project
        <3>2. job[w].event \in Events
            BY <3>1 DEF EventJobs
        <3>3. \E o : Afterwards(w, job[w].event, o)
            BY <2>1 DEF ReplayEvent, Project
        <3> QED  BY <1>1, <3>2, <3>3, AfterwardsType, IdleIs
    <2>2. CASE LockAgency(w)
        BY <2>2, LockedJob
    <2>3. CASE Reread(w)
        <3>1. job' = [job EXCEPT ![w] = [job[w] EXCEPT !.seen = order[job[w].event.order].status]]
            BY <1>1, <2>3 DEF Reread
        <3>2. job[w] \in EventJobs
            BY <2>3, Held DEF Reread
        <3> QED  BY <1>1, <3>1, <3>2 DEF EventJobs
    <2>4. CASE Credit(w) \/ StartSubscription(w) \/ CancelRenewal(w) \/ Renew(w) \/ SkipRenewal(w)
        <3>1. Finish(w)
            BY <2>4 DEF Credit, StartSubscription, CancelRenewal, Renew, SkipRenewal
        <3> QED  BY <3>1, FinishType, IdleIs
    <2>5. CASE RefuseRenewal(w)
        <3>1. PICK code : job' = [job EXCEPT ![w] =
                  [kind |-> "report", creator |-> job[w].creator, code |-> code, at |-> now]]
            BY <2>5 DEF RefuseRenewal
        <3> QED  BY <1>1, <3>1
    <2>6. CASE ReportRefusal(w) \/ Crash(w)
        <3>1. job' = [job EXCEPT ![w] = Idle]
            BY <2>6 DEF ReportRefusal, Crash
        <3> QED  BY <1>1, <3>1, IdleIs
    <2> QED  BY <2>1, <2>2, <2>3, <2>4, <2>5, <2>6 DEF Work
<1> QED  BY <1>1, <1>2, ReportedWrite DEF ReportedInv

LEMMA ReportedStep == TypeOK /\ ReportedInv /\ [Next]_vars => ReportedInv'
<1> SUFFICES ASSUME TypeOK, ReportedInv, [Next]_vars PROVE ReportedInv'
    OBVIOUS
<1>1. CASE Deploy \/ Tick \/ UNCHANGED vars
    BY <1>1 DEF Deploy, Tick, vars, outside, ReportedInv
<1>2. ASSUME NEW w \in Workers, NEW e \in Events, Receive(w, e) PROVE ReportedInv'
    BY <1>2, ReportedBegins DEF Receive, outside
<1>3. ASSUME NEW w \in Workers, NEW o \in Orders, Fetch(w, o) PROVE ReportedInv'
    <2> DEFINE e == [order |-> o, status |-> payment[o], via |-> "fetch"]
    <2>1. e \in Events /\ Begin(w, e) /\ payment' = payment /\ reported' = reported
        BY <1>3, FetchedEvent DEF Fetch, outside
    <2>2. e.status \in reported[e.order]
        BY <1>3 DEF Fetch, ReportedInv
    <2> HIDE DEF e
    <2> QED  BY <2>1, <2>2, ReportedBegins
<1>4. ASSUME NEW w \in Workers, NEW c, NEW kind \in {"start", "cancel", "renew"}, Ask(w, kind, c)
      PROVE  ReportedInv'
    <2> DEFINE j == [kind |-> kind, pc |-> "ready", creator |-> c, before |-> 0]
    <2>1. job' = [job EXCEPT ![w] = j] /\ j.kind # "event" /\ job \in [Workers -> Jobs]
          /\ payment' = payment /\ reported' = reported
        BY <1>4 DEF Ask, TypeOK, outside
    <2> HIDE DEF j
    <2> QED  BY <2>1, ReportedWrite
<1> QED  BY <1>1, <1>2, <1>3, <1>4, ReportedOutside, ReportedWorks DEF Next

Inv == TypeOK /\ LockInv /\ ReportedInv

LEMMA InvInit == Init => Inv
<1> SUFFICES ASSUME Init PROVE Inv
    OBVIOUS
<1>1. LockInv
    BY FreeHands DEF Init, LockInv
<1>2. ReportedInv
    BY IdleIs DEF Init, ReportedInv, ProviderStatuses
<1> QED  BY <1>1, <1>2, TypeInit DEF Inv

LEMMA InvStep == Inv /\ [Next]_vars => Inv'
BY TypeStep, LockStep, ReportedStep DEF Inv

LEMMA InvHolds == Spec => []Inv
BY InvInit, InvStep, PTL DEF Spec

-----------------------------------------------------------------------------
(* Every step, as far as orders and money are concerned.                       *)
Opened(o) ==
    /\ UNCHANGED moneyVars
    /\ order' \in [Orders -> OrderRow]
    /\ \A p \in Orders : p # o => order'[p] = order[p]
    /\ order'[o].activated = order[o].activated
    /\ \/ order'[o].status = order[o].status
       \/ order[o].status = "NONE" /\ order'[o].status = "CREATED"
       \/ order[o].status = "CREATED" /\ order'[o].status = "CHECKOUT_CREATED"

\* What a callback, or the owner's check, makes of an order.
Applied(o) ==
    \/ Projected(o, order[o].status)
    \/ \E s \in reported[o] \cap ProviderStatuses :
         Projected(o, monotonicOrderStatus(order[o].status, s))

Charged(w) ==
    /\ order' = order /\ job[w].creator \in Creators /\ Due(job[w].creator)
    /\ balance >= Price
    /\ \/ Charge(job[w].creator, "start", now, balance)
       \/ /\ ent[job[w].creator].renew
          /\ Charge(job[w].creator, "renew", renewalStartAt(job[w].creator), balance)

LEMMA OpenedIs ==
    ASSUME TypeOK, NEW o \in Orders, Reserve(o) \/ AttachInvoice(o)
    PROVE  Opened(o)
<1>1. order \in [Orders -> OrderRow] /\ UNCHANGED moneyVars
    BY DEF TypeOK, OrderRow, Reserve, AttachInvoice
<1>2. PICK s \in OrderStatuses :
        /\ order' = [order EXCEPT ![o] = [order[o] EXCEPT !.status = s]]
        /\ \/ s = order[o].status
           \/ order[o].status = "NONE" /\ s = "CREATED"
           \/ order[o].status = "CREATED" /\ s = "CHECKOUT_CREATED"
    <2>1. order[o].status \in OrderStatuses
        BY <1>1 DEF OrderRow
    <2>2. CASE Reserve(o)
        BY <1>1, <2>2 DEF Reserve, OrderStatuses
    <2>3. CASE AttachInvoice(o)
        BY <1>1, <2>1, <2>3 DEF AttachInvoice, OrderStatuses
    <2> QED  BY <2>2, <2>3
<1> DEFINE r == [order[o] EXCEPT !.status = s]
<1>3. r \in OrderRow /\ r.status = s /\ r.activated = order[o].activated
    <2>1. order[o] \in OrderRow
        BY <1>1
    <2> QED  BY <1>2, <2>1 DEF OrderRow
<1> HIDE DEF r
<1>4. /\ order' \in [Orders -> OrderRow] /\ order'[o] = r
      /\ \A p \in Orders : p # o => order'[p] = order[p]
    BY <1>1, <1>2, <1>3 DEF r
<1> QED  BY <1>1, <1>2, <1>3, <1>4 DEF Opened

LEMMA ChargedIs ==
    ASSUME TypeOK, LockInv, NEW w \in Workers, StartSubscription(w) \/ Renew(w)
    PROVE  Charged(w) \/ UNCHANGED <<order, moneyVars>>
<1>1. job[w].creator \in Creators /\ job[w].before = balance /\ order' = order
    <2>1. Keeps(w) /\ job[w].kind \in {"start", "renew"} /\ order' = order
        BY DEF StartSubscription, Renew
    <2> QED  BY <2>1, Held, KeepsLocked DEF CreatorJobs, LockInv
<1>2. CASE StartSubscription(w)
    <2>1. \/ UNCHANGED moneyVars
          \/ /\ Due(job[w].creator) /\ Enough(w)
             /\ Charge(job[w].creator, "start", now, job[w].before)
        BY <1>2 DEF StartSubscription
    <2> QED  BY <1>1, <2>1 DEF Charged, Enough
<1>3. CASE Renew(w)
    <2>1. /\ ent[job[w].creator].renew /\ Due(job[w].creator) /\ Enough(w)
          /\ Charge(job[w].creator, "renew", renewalStartAt(job[w].creator), job[w].before)
        BY <1>3 DEF Renew
    <2> QED  BY <1>1, <2>1 DEF Charged, Enough
<1> QED  BY <1>2, <1>3

LEMMA StepIs ==
    ASSUME Inv, [Next]_vars
    PROVE  \/ UNCHANGED <<order, moneyVars>>
           \/ \E o \in Orders : Opened(o) \/ Applied(o)
           \/ \E w \in Workers : Charged(w)
<1> USE DEF Inv
<1>1. CASE Deploy \/ Tick \/ UNCHANGED vars
    BY <1>1 DEF Deploy, Tick, vars
<1>2. ASSUME NEW o \in Orders,
             Reserve(o) \/ InvoiceMade(o) \/ AttachInvoice(o) \/ InvoiceUnknown(o) \/ PaymentMoves(o)
      PROVE  Opened(o) \/ UNCHANGED <<order, moneyVars>>
    BY <1>2, OpenedIs DEF InvoiceMade, InvoiceUnknown, PaymentMoves
<1>3. ASSUME NEW w \in Workers,
             \/ \E e \in Events : Receive(w, e)
             \/ \E o \in Orders : Fetch(w, o)
             \/ \E c \in Creators, kind \in {"start", "cancel", "renew"} : Ask(w, kind, c)
             \/ ReplayEvent(w) \/ LockAgency(w) \/ Reread(w) \/ CancelRenewal(w)
             \/ SkipRenewal(w) \/ RefuseRenewal(w) \/ ReportRefusal(w) \/ Crash(w)
      PROVE  UNCHANGED <<order, moneyVars>>
    BY <1>3 DEF Receive, Fetch, Ask, ReplayEvent, LockAgency, Reread, CancelRenewal, SkipRenewal,
       RefuseRenewal, ReportRefusal, Crash
<1>4. ASSUME NEW w \in Workers, Project(w)
      PROVE  \E o \in Orders : Applied(o)
    <2>1. job[w].kind = "event" /\ job[w].event.order \in Orders
          /\ job[w].event.status \in ProviderStatuses
          /\ Projected(job[w].event.order,
                monotonicOrderStatus(order[job[w].event.order].status, job[w].event.status))
        BY <1>4, ProjectIs
    <2>2. job[w].event.status \in reported[job[w].event.order]
        BY <2>1 DEF ReportedInv
    <2> QED  BY <2>1, <2>2 DEF Applied
<1>5. ASSUME NEW w \in Workers, Credit(w)
      PROVE  (\E o \in Orders : Applied(o)) \/ UNCHANGED <<order, moneyVars>>
    BY <1>5, CreditIs DEF Applied, moneyVars
<1> QED  BY <1>1, <1>2, <1>3, <1>4, <1>5, ChargedIs DEF Next, Work

-----------------------------------------------------------------------------
(* Orders move forward.                                                        *)
LEMMA RankIs ==
    /\ \A s \in OrderStatuses : Rank[s] \in Nat
    /\ Rank["NONE"] = 0 /\ Rank["CREATED"] = 1 /\ Rank["CHECKOUT_CREATED"] = 2
BY DEF Rank, OrderStatuses

LEMMA ForwardStep ==
    Inv /\ [Next]_vars => [\A o \in Orders : Rank[order'[o].status] >= Rank[order[o].status]]_order
<1> SUFFICES ASSUME Inv, [Next]_vars, order' # order, NEW p \in Orders
             PROVE  Rank[order'[p].status] >= Rank[order[p].status]
    OBVIOUS
<1>1. \A q \in Orders : order[q].status \in OrderStatuses /\ Rank[order[q].status] \in Nat
    BY RankIs DEF Inv, TypeOK
<1>2. PICK o \in Orders : Opened(o) \/ Applied(o)
    BY StepIs DEF Charged
<1>3. p # o => order'[p] = order[p]
    BY <1>2 DEF Opened, Applied, Projected
<1>4. Rank[order'[o].status] >= Rank[order[o].status]
    <2>1. CASE Opened(o)
        BY <1>1, <2>1, RankIs DEF Opened
    <2>2. CASE Applied(o)
        <3>1. \/ order'[o].status = order[o].status
              \/ \E s \in ProviderStatuses :
                   order'[o].status = monotonicOrderStatus(order[o].status, s)
            BY <2>2 DEF Applied, Projected
        <3> QED  BY <1>1, <3>1, Monotonic
    <2> QED  BY <1>2, <2>1, <2>2
<1> QED  BY <1>1, <1>3, <1>4

(* An order's status only moves forward, whatever the order in which callbacks, *)
(* checks by the owner and the late answer of the invoice are applied.         *)
THEOREM Forward == Spec => OrdersMoveForward
<1>1. Inv /\ [Next]_vars => [\A o \in Orders : Rank[order'[o].status] >= Rank[order[o].status]]_order
    BY ForwardStep
<1> QED  BY <1>1, InvHolds, PTL DEF Spec, OrdersMoveForward

-----------------------------------------------------------------------------
(* The ledger.                                                                 *)
LEMMA EntryKeys ==
    ASSUME NEW e \in AllEntries, NEW f \in AllEntries, e.type = f.type, e.of = f.of
    PROVE  e = f
<1>1. \A o : TopUp(o).type = "TOP_UP" /\ TopUp(o).of = o
    BY DEF TopUp
<1>2. \A o : Refund(o).type = "TOP_UP_REFUND" /\ Refund(o).of = o
    BY DEF Refund
<1>3. \A r, c, t : Debit(r, c, t).type = "SUBSCRIPTION_DEBIT" /\ Debit(r, c, t).of = <<r, c, t>>
    BY DEF Debit
<1>4. CASE \E o \in Orders : e = TopUp(o)
    BY <1>1, <1>2, <1>3, <1>4 DEF AllEntries
<1>5. CASE \E o \in Orders : e = Refund(o)
    BY <1>1, <1>2, <1>3, <1>5 DEF AllEntries
<1>6. CASE \E r \in {"start", "renew"}, c \in Creators, t \in 0..MaxNow : e = Debit(r, c, t)
    <2>1. PICK r, c, t : e = Debit(r, c, t)
        BY <1>6
    <2>2. PICK q, d, u : f = Debit(q, d, u)
        BY <1>1, <1>2, <1>3, <2>1 DEF AllEntries
    <2>3. <<r, c, t>> = <<q, d, u>>
        BY <1>3, <2>1, <2>2
    <2> QED  BY <2>1, <2>2, <2>3
<1> QED  BY <1>4, <1>5, <1>6 DEF AllEntries

LEMMA Posting ==
    ASSUME TypeOK, NEW e \in AllEntries, e \notin entries,
           entries' = entries \cup {e}, balance' = balance + e.amount,
           e.type = "SUBSCRIPTION_DEBIT" => balance + e.amount >= 0,
           e.type = "TOP_UP_REFUND" =>
             \E f \in entries : f.type = "TOP_UP" /\ f.of = e.of /\ f.amount = -e.amount
    PROVE  Ledger!Next
<1>1. \A f \in entries : ~Ledger!Same(e, f)
    BY EntryKeys DEF TypeOK, AllEntries, Ledger!Same
<1>2. Ledger!Post(e)
    BY <1>1 DEF Ledger!Post
<1> QED  BY <1>2 DEF Ledger!Next, AllEntries

LEMMA ProjectedPosts ==
    ASSUME TypeOK, NEW o \in Orders, NEW n, Projected(o, n)
    PROVE  Ledger!Next \/ UNCHANGED moneyVars
<1>1. /\ TopUp(o).type = "TOP_UP" /\ TopUp(o).of = o /\ TopUp(o).amount = Amount[o]
      /\ Refund(o).type = "TOP_UP_REFUND" /\ Refund(o).of = o /\ Refund(o).amount = -Amount[o]
      /\ Amount[o] \in Int /\ balance \in Int
      /\ TopUp(o) \in AllEntries /\ Refund(o) \in AllEntries
    BY BillingAssumption, EntryTypes DEF TypeOK, TopUp, Refund
<1>2. CASE Credited(o, n)
    <2>1. ~Returned(o, n) /\ TopUp(o) \notin entries
        BY <1>2 DEF Credited, Returned
    <2>2. entries' = entries \cup {TopUp(o)} /\ balance' = balance + Amount[o]
        BY <1>2, <2>1 DEF Projected
    <2> QED  BY <1>1, <2>1, <2>2, Posting
<1>3. CASE ~Credited(o, n) /\ Returned(o, n)
    <2>1. /\ entries' = entries \cup {Refund(o)}
          /\ balance' = IF Refund(o) \in entries THEN balance ELSE balance - Amount[o]
        BY <1>3 DEF Projected
    <2>2. TopUp(o) \in entries /\ TopUp(o).amount = -Refund(o).amount
        BY <1>1, <1>3 DEF Returned
    <2>3. CASE Refund(o) \in entries
        BY <2>1, <2>3 DEF moneyVars
    <2>4. CASE Refund(o) \notin entries
        <3>1. balance' = balance + Refund(o).amount
            BY <1>1, <2>1, <2>4
        <3>2. \E f \in entries : f.type = "TOP_UP" /\ f.of = Refund(o).of
                                 /\ f.amount = -Refund(o).amount
            BY <1>1, <2>2
        <3> QED  BY <1>1, <2>1, <2>4, <3>1, <3>2, Posting
    <2> QED  BY <2>3, <2>4
<1>4. CASE ~Credited(o, n) /\ ~Returned(o, n)
    BY <1>4 DEF Projected, moneyVars
<1> QED  BY <1>2, <1>3, <1>4

(* A charge is a debit that was not there and is covered, or nothing.          *)
LEMMA ChargedDebit ==
    ASSUME TypeOK, NEW w \in Workers, Charged(w)
    PROVE  \E r \in {"start", "renew"}, t \in 0..now :
             LET c == job[w].creator IN
             /\ c \in Creators /\ t \in ent[c].until..now
             /\ r = "renew" => ent[c].renew
             /\ ent' = [ent EXCEPT ![c] = [until |-> t + Period, renew |-> TRUE, error |-> FALSE]]
             /\ \/ Debit(r, c, t) \in entries /\ entries' = entries /\ balance' = balance
                \/ /\ Debit(r, c, t) \notin entries /\ entries' = entries \cup {Debit(r, c, t)}
                   /\ balance' = balance - Price
<1> DEFINE c == job[w].creator
<1>1. c \in Creators /\ balance \in Int /\ now \in Nat /\ ent[c].until \in Nat
      /\ ent[c].until <= now
    BY DEF Charged, TypeOK, Entitlements, Due
<1>2. PICK r \in {"start", "renew"}, t \in 0..now :
        /\ t \in ent[c].until..now /\ Charge(c, r, t, balance)
        /\ r = "renew" => ent[c].renew
    <2>1. CASE Charge(c, "start", now, balance)
        BY <1>1, <2>1
    <2>2. CASE ent[c].renew /\ Charge(c, "renew", renewalStartAt(c), balance)
        <3>1. renewalStartAt(c) \in ent[c].until..now
            BY <1>1, StartBetween DEF Due
        <3>2. renewalStartAt(c) \in 0..now
            BY <1>1, <3>1
        <3> QED  BY <2>2, <3>1, <3>2
    <2> QED  BY <2>1, <2>2 DEF Charged
<1> HIDE DEF c
<1>3. \/ Debit(r, c, t) \in entries /\ entries' = entries /\ balance' = balance
      \/ /\ Debit(r, c, t) \notin entries /\ entries' = entries \cup {Debit(r, c, t)}
         /\ balance' = balance - Price
    BY <1>1, <1>2, ChargeType
<1>4. ent' = [ent EXCEPT ![c] = [until |-> t + Period, renew |-> TRUE, error |-> FALSE]]
    BY <1>2 DEF Charge
<1> QED  BY <1>1, <1>2, <1>3, <1>4 DEF c

LEMMA ChargedPosts ==
    ASSUME TypeOK, NEW w \in Workers, Charged(w)
    PROVE  Ledger!Next \/ UNCHANGED moneyVars
<1>1. PICK r \in {"start", "renew"}, c \in Creators, t \in 0..now :
        \/ entries' = entries /\ balance' = balance
        \/ /\ Debit(r, c, t) \notin entries /\ entries' = entries \cup {Debit(r, c, t)}
           /\ balance' = balance - Price
    BY ChargedDebit
<1> DEFINE e == Debit(r, c, t)
<1>2. e.type = "SUBSCRIPTION_DEBIT" /\ e.amount = -Price /\ Price \in Int /\ balance \in Int
      /\ balance >= Price
    BY BillingAssumption DEF Debit, TypeOK, Charged
<1>3. e \in AllEntries
    <2>1. t \in 0..MaxNow
        BY BillingAssumption DEF TypeOK
    <2> QED  BY <2>1, EntryTypes
<1>4. CASE entries' = entries /\ balance' = balance
    BY <1>4 DEF moneyVars
<1>5. CASE e \notin entries /\ entries' = entries \cup {e} /\ balance' = balance - Price
    <2> HIDE DEF e
    <2>1. balance' = balance + e.amount /\ balance + e.amount >= 0
        BY <1>2, <1>5
    <2> QED  BY <1>2, <1>3, <1>5, <2>1, Posting
<1> QED  BY <1>1, <1>4, <1>5

LEMMA LedgerStep == Inv /\ [Next]_vars => [Ledger!Next]_<<balance, entries>>
<1> SUFFICES ASSUME Inv, [Next]_vars PROVE Ledger!Next \/ UNCHANGED moneyVars
    BY DEF moneyVars
<1> QED  BY StepIs, ProjectedPosts, ChargedPosts DEF Inv, Opened, Applied, moneyVars

(* The wallet is a ledger: the balance is the sum of entries posted once each,  *)
(* a debit is covered when it is posted and a refund takes back what came.     *)
THEOREM IsLedger == Spec => KeepsLedger
<1>1. Init => Ledger!Init
    BY DEF Init, Ledger!Init
<1>2. Inv /\ [Next]_vars => [Ledger!Next]_<<balance, entries>>
    BY LedgerStep
<1> QED  BY <1>1, <1>2, InvHolds, PTL DEF Spec, KeepsLedger, Ledger!Spec

-----------------------------------------------------------------------------
(* Entries that a step adds.                                                   *)
LEMMA ProjectedEntries ==
    ASSUME NEW o \in Orders, NEW n, Projected(o, n)
    PROVE  entries \subseteq entries' /\ entries' \subseteq entries \cup {TopUp(o), Refund(o)}
<1>1. ~(Credited(o, n) /\ Returned(o, n))
    BY DEF Credited, Returned
<1> QED  BY <1>1 DEF Projected

\* No debit is posted.
NoDebit == \A r, c, t : Debit(r, c, t) \in entries' <=> Debit(r, c, t) \in entries

LEMMA DebitsAre == ASSUME Inv, [Next]_vars PROVE NoDebit \/ \E w \in Workers : Charged(w)
<1>1. ASSUME NEW o \in Orders, NEW n, Projected(o, n) PROVE NoDebit
    BY <1>1, ProjectedEntries, EntriesDiffer DEF NoDebit
<1> QED  BY <1>1, StepIs DEF NoDebit, Opened, Applied, moneyVars

LEMMA CancelStep ==
    Inv /\ [Next]_vars =>
        [\A c \in Creators, t \in 0..MaxNow :
           (Debit("renew", c, t) \in entries' \ entries) => ent[c].renew /\ ent[c].until <= now]_vars
<1> SUFFICES ASSUME Inv, [Next]_vars, NEW c \in Creators, NEW t \in 0..MaxNow,
                    Debit("renew", c, t) \in entries' \ entries
             PROVE  ent[c].renew /\ ent[c].until <= now
    OBVIOUS
<1>1. PICK w \in Workers : Charged(w)
    BY DebitsAre DEF NoDebit
<1>2. PICK r \in {"start", "renew"}, u \in 0..now :
        /\ r = "renew" => ent[job[w].creator].renew
        /\ entries' \subseteq entries \cup {Debit(r, job[w].creator, u)}
    BY <1>1, ChargedDebit DEF Inv
<1>3. r = "renew" /\ job[w].creator = c
    BY <1>2, DebitsDiffer
<1> QED  BY <1>1, <1>2, <1>3 DEF Charged, Due

(* Nobody is charged for a renewal that is not due or was cancelled, however    *)
(* stale the page is on which the scheduler found it.                          *)
THEOREM CancelIsKept == Spec => CancelHolds
<1>1. Inv /\ [Next]_vars =>
        [\A c \in Creators, t \in 0..MaxNow :
           (Debit("renew", c, t) \in entries' \ entries) => ent[c].renew /\ ent[c].until <= now]_vars
    BY CancelStep
<1> QED  BY <1>1, InvHolds, PTL DEF Spec, CancelHolds

-----------------------------------------------------------------------------
(* The wallet follows the orders.                                              *)
Follows(o) ==
    /\ order[o].activated <=> TopUp(o) \in entries
    /\ order[o].status = "PAID" => "finished" \in reported[o]
    /\ order[o].status = "REFUNDED" => "refunded" \in reported[o]
    /\ TopUp(o) \in entries => order[o].status \in {"PAID", "REFUNDED"} /\ "finished" \in reported[o]
    /\ Refund(o) \in entries <=> TopUp(o) \in entries /\ order[o].status = "REFUNDED"

FollowInv == \A o \in Orders : Follows(o)

LEMMA ReportedGrows ==
    ASSUME TypeOK, [Next]_vars, NEW o \in Orders
    PROVE  reported[o] \subseteq reported'[o]
<1>1. reported \in [Orders -> SUBSET Reports]
    BY DEF TypeOK
<1>2. ASSUME NEW p \in Orders,
             Reserve(p) \/ InvoiceMade(p) \/ AttachInvoice(p) \/ InvoiceUnknown(p) \/ PaymentMoves(p)
      PROVE  reported[o] \subseteq reported'[o]
    BY <1>1, <1>2 DEF Reserve, InvoiceMade, AttachInvoice, InvoiceUnknown, PaymentMoves
<1>3. ASSUME NEW w \in Workers, Work(w) \/ Crash(w) PROVE reported' = reported
    BY <1>3 DEF Work, Crash, outside, ReplayEvent, LockAgency, Reread, Project, Credit,
       StartSubscription, CancelRenewal, Renew, SkipRenewal, RefuseRenewal, ReportRefusal
<1>4. ASSUME NEW w \in Workers,
             \/ \E e \in Events : Receive(w, e)
             \/ \E p \in Orders : Fetch(w, p)
             \/ \E c \in Creators, kind \in {"start", "cancel", "renew"} : Ask(w, kind, c)
      PROVE  reported' = reported
    BY <1>4 DEF Receive, Fetch, Ask, outside
<1>5. CASE Deploy \/ Tick \/ UNCHANGED vars
    BY <1>5 DEF Deploy, Tick, vars, outside
<1> QED  BY <1>2, <1>3, <1>4, <1>5 DEF Next

(* An order that a callback, or a check, was applied to.                       *)
LEMMA FollowsApplied ==
    ASSUME TypeOK, NEW o \in Orders, Follows(o), Applied(o), reported[o] \subseteq reported'[o]
    PROVE  Follows(o)'
<1> DEFINE cur == order[o].status
           new == order'[o].status
<1>1. PICK n : /\ Projected(o, n)
               /\ n = "PAID" => "finished" \in reported[o]
               /\ n = "REFUNDED" => "refunded" \in reported[o]
               /\ cur = "REFUNDED" => n = "REFUNDED"
               /\ cur = "PAID" => n \in {"PAID", "REFUNDED"}
    <2>1. cur \in OrderStatuses
        BY DEF TypeOK
    <2>2. CASE Projected(o, cur)
        BY <2>2 DEF Follows
    <2>3. ASSUME NEW s \in reported[o] \cap ProviderStatuses,
                 Projected(o, monotonicOrderStatus(cur, s))
          PROVE  \E n : /\ Projected(o, n)
                        /\ n = "PAID" => "finished" \in reported[o]
                        /\ n = "REFUNDED" => "refunded" \in reported[o]
                        /\ cur = "REFUNDED" => n = "REFUNDED"
                        /\ cur = "PAID" => n \in {"PAID", "REFUNDED"}
        <3> DEFINE m == monotonicOrderStatus(cur, s)
        <3>1. /\ m = "PAID" => cur = "PAID" \/ s = "finished"
              /\ m = "REFUNDED" => cur = "REFUNDED" \/ s = "refunded"
              /\ cur = "REFUNDED" => m = "REFUNDED"
              /\ cur = "PAID" => m \in {"PAID", "REFUNDED"}
            BY <2>1, Monotonic
        <3>2. Projected(o, m)
            BY <2>3
        <3> HIDE DEF m
        <3> QED  BY <3>1, <3>2 DEF Follows
    <2> QED  BY <2>2, <2>3 DEF Applied
<1>2. new = n /\ order'[o].activated = (order[o].activated \/ Credited(o, n))
    BY <1>1 DEF Projected
<1>3. TopUp(o) # Refund(o)
    BY EntriesDiffer
<1>4. /\ TopUp(o) \in entries' <=> TopUp(o) \in entries \/ Credited(o, n)
      /\ Refund(o) \in entries' <=> Refund(o) \in entries \/ Returned(o, n)
    <2>1. ~(Credited(o, n) /\ Returned(o, n))
        BY DEF Credited, Returned
    <2>2. CASE Credited(o, n)
        BY <1>1, <1>3, <2>1, <2>2 DEF Projected
    <2>3. CASE Returned(o, n)
        BY <1>1, <1>3, <2>1, <2>3 DEF Projected
    <2>4. CASE ~Credited(o, n) /\ ~Returned(o, n)
        BY <1>1, <2>4 DEF Projected
    <2> QED  BY <2>2, <2>3, <2>4
<1> HIDE DEF cur, new
<1>5. order'[o].activated <=> TopUp(o) \in entries'
    BY <1>2, <1>4 DEF Follows
<1>6. /\ new = "PAID" => "finished" \in reported'[o]
      /\ new = "REFUNDED" => "refunded" \in reported'[o]
    BY <1>1, <1>2
<1>7. TopUp(o) \in entries' => new \in {"PAID", "REFUNDED"} /\ "finished" \in reported'[o]
    BY <1>1, <1>2, <1>4 DEF Follows, Credited, cur
<1>8. Refund(o) \in entries' <=> TopUp(o) \in entries' /\ new = "REFUNDED"
    BY <1>1, <1>2, <1>4 DEF Follows, Credited, Returned, cur
<1> QED  BY <1>5, <1>6, <1>7, <1>8 DEF Follows, new

LEMMA FollowStep == Inv /\ FollowInv /\ [Next]_vars => FollowInv'
<1> SUFFICES ASSUME Inv, FollowInv, [Next]_vars, NEW o \in Orders PROVE Follows(o)'
    BY DEF FollowInv
<1>1. reported[o] \subseteq reported'[o] /\ TypeOK /\ Follows(o)
    BY ReportedGrows DEF Inv, FollowInv
<1>2. ASSUME order'[o] = order[o], TopUp(o) \in entries' <=> TopUp(o) \in entries,
             Refund(o) \in entries' <=> Refund(o) \in entries
      PROVE  Follows(o)'
    BY <1>1, <1>2 DEF Follows
<1>3. CASE UNCHANGED <<order, moneyVars>>
    BY <1>2, <1>3 DEF moneyVars
<1>4. ASSUME NEW p \in Orders, Opened(p) PROVE Follows(o)'
    <2>1. entries' = entries
        BY <1>4 DEF Opened, moneyVars
    <2>2. CASE p = o
        BY <1>1, <1>4, <2>1, <2>2 DEF Follows, Opened
    <2>3. CASE p # o
        BY <1>2, <1>4, <2>1, <2>3 DEF Opened
    <2> QED  BY <2>2, <2>3
<1>5. ASSUME NEW p \in Orders, Applied(p) PROVE Follows(o)'
    <2>1. CASE p = o
        BY <1>1, <1>5, <2>1, FollowsApplied
    <2>2. CASE p # o
        <3>1. PICK n : Projected(p, n)
            BY <1>5 DEF Applied
        <3>2. order'[o] = order[o]
            BY <2>2, <3>1 DEF Projected
        <3> QED  BY <1>2, <2>2, <3>1, <3>2, ProjectedEntries, EntriesDiffer
    <2> QED  BY <2>1, <2>2
<1>6. ASSUME NEW w \in Workers, Charged(w) PROVE Follows(o)'
    <2>1. PICK r, c, t : entries' = entries \/ entries' = entries \cup {Debit(r, c, t)}
        BY <1>1, <1>6, ChargedDebit
    <2> QED  BY <1>2, <1>6, <2>1, EntriesDiffer DEF Charged
<1> QED  BY <1>3, <1>4, <1>5, <1>6, StepIs

(* The wallet holds an order's money exactly while the order is paid and       *)
(* credited, and is credited or debited only for what the provider reported.   *)
THEOREM Followed == Spec => []WalletFollowsOrders
<1>1. Init => FollowInv
    BY DEF Init, FollowInv, Follows, NoOrder
<1>2. FollowInv => WalletFollowsOrders
    BY DEF FollowInv, Follows, WalletFollowsOrders
<1> QED  BY <1>1, <1>2, FollowStep, InvHolds, PTL DEF Spec

-----------------------------------------------------------------------------
(* Time is sold once.                                                          *)
Reasons == {"start", "renew"}

\* Every charged period of c ends by the entitlement's end, two of them do not
\* overlap, and one of them ends there.
Sold(c) ==
    /\ \A r \in Reasons, t \in Nat : Debit(r, c, t) \in entries => t + Period <= ent[c].until
    /\ \A r, q \in Reasons, t, u \in Nat :
         Debit(r, c, t) \in entries /\ Debit(q, c, u) \in entries =>
           (r = q /\ t = u) \/ t + Period <= u \/ u + Period <= t
    /\ ent[c].until > 0 =>
         \E r \in Reasons, t \in Nat : Debit(r, c, t) \in entries /\ t + Period = ent[c].until

SoldInv == \A c \in Creators : Sold(c)

\* Nobody's boundary moves.
Boundaries == \A c \in Creators : ent'[c].until = ent[c].until

LEMMA BoundariesKept ==
    ASSUME TypeOK, LockInv, [Next]_vars
    PROVE  Boundaries \/ \E w \in Workers : Charged(w)
<1>1. ent \in [Creators -> Entitlements]
    BY DEF TypeOK
<1>2. ASSUME NEW o \in Orders,
             Reserve(o) \/ InvoiceMade(o) \/ AttachInvoice(o) \/ InvoiceUnknown(o) \/ PaymentMoves(o)
      PROVE  Boundaries
    BY <1>2 DEF Reserve, InvoiceMade, AttachInvoice, InvoiceUnknown, PaymentMoves, Boundaries
<1>3. CASE Deploy \/ Tick \/ UNCHANGED vars
    BY <1>3 DEF Deploy, Tick, vars, Boundaries
<1>4. ASSUME NEW w \in Workers,
             \/ \E e \in Events : Receive(w, e)
             \/ \E o \in Orders : Fetch(w, o)
             \/ \E c \in Creators, kind \in {"start", "cancel", "renew"} : Ask(w, kind, c)
             \/ ReplayEvent(w) \/ LockAgency(w) \/ Reread(w) \/ Project(w) \/ Credit(w)
             \/ SkipRenewal(w) \/ RefuseRenewal(w) \/ Crash(w)
      PROVE  Boundaries
    BY <1>4 DEF Receive, Fetch, Ask, ReplayEvent, LockAgency, Reread, Project, Credit, SkipRenewal,
       RefuseRenewal, Crash, Boundaries
<1>5. ASSUME NEW w \in Workers, CancelRenewal(w) \/ ReportRefusal(w) PROVE Boundaries
    <2>2. \A c \in Creators : ent[c] \in Entitlements
        BY <1>1
    <2>3. CASE CancelRenewal(w)
        <3>1. ent' = [ent EXCEPT ![job[w].creator].renew = FALSE, ![job[w].creator].error = FALSE]
            BY <2>3 DEF CancelRenewal
        <3> QED  BY <1>1, <2>2, <3>1 DEF Boundaries, Entitlements
    <2>4. CASE ReportRefusal(w)
        <3>1. \/ ent' = ent
              \/ ent' = [ent EXCEPT ![job[w].creator].error = job[w].code # "disabled",
                                    ![job[w].creator].renew = job[w].code # "disabled"]
            BY <2>4 DEF ReportRefusal
        <3> QED  BY <1>1, <2>2, <3>1 DEF Boundaries, Entitlements
    <2> QED  BY <1>5, <2>3, <2>4
<1>6. ASSUME NEW w \in Workers, StartSubscription(w)
      PROVE  Boundaries \/ Charged(w)
    <2>1. job[w].creator \in Creators /\ job[w].before = balance /\ order' = order
        <3>1. Keeps(w) /\ job[w].kind = "start" /\ order' = order
            BY <1>6 DEF StartSubscription
        <3> QED  BY <3>1, Held, KeepsLocked DEF CreatorJobs, LockInv
    <2>2. \/ ent' = [ent EXCEPT ![job[w].creator].renew = TRUE, ![job[w].creator].error = FALSE]
          \/ ent' = ent
          \/ /\ Due(job[w].creator) /\ Enough(w)
             /\ Charge(job[w].creator, "start", now, job[w].before)
        BY <1>6 DEF StartSubscription
    <2>3. \A c \in Creators : ent[c] \in Entitlements
        BY <1>1
    <2>4. CASE ent' = [ent EXCEPT ![job[w].creator].renew = TRUE, ![job[w].creator].error = FALSE]
        BY <1>1, <2>3, <2>4 DEF Boundaries, Entitlements
    <2>5. CASE ent' = ent
        BY <2>5 DEF Boundaries
    <2>6. CASE /\ Due(job[w].creator) /\ Enough(w)
               /\ Charge(job[w].creator, "start", now, job[w].before)
        BY <2>1, <2>6 DEF Charged, Enough
    <2> QED  BY <2>2, <2>4, <2>5, <2>6
<1>7. ASSUME NEW w \in Workers, Renew(w) PROVE Charged(w)
    <2>1. job[w].creator \in Creators /\ job[w].before = balance /\ order' = order
        <3>1. Keeps(w) /\ job[w].kind = "renew" /\ order' = order
            BY <1>7 DEF Renew
        <3> QED  BY <3>1, Held, KeepsLocked DEF CreatorJobs, LockInv
    <2>2. /\ ent[job[w].creator].renew /\ Due(job[w].creator) /\ Enough(w)
          /\ Charge(job[w].creator, "renew", renewalStartAt(job[w].creator), job[w].before)
        BY <1>7 DEF Renew
    <2> QED  BY <2>1, <2>2 DEF Charged, Enough
<1> QED  BY <1>2, <1>3, <1>4, <1>5, <1>6, <1>7 DEF Next, Work

LEMMA SoldCharged ==
    ASSUME TypeOK, SoldInv, NEW w \in Workers, Charged(w)
    PROVE  SoldInv'
<1>1. Period \in Nat /\ Period > 0 /\ now \in Nat /\ ent \in [Creators -> Entitlements]
    BY BillingAssumption DEF TypeOK
<1> DEFINE d == job[w].creator
<1>2. PICK r \in Reasons, t \in 0..now :
        /\ d \in Creators /\ t \in ent[d].until..now
        /\ ent' = [ent EXCEPT ![d] = [until |-> t + Period, renew |-> TRUE, error |-> FALSE]]
        /\ \/ Debit(r, d, t) \in entries /\ entries' = entries
           \/ Debit(r, d, t) \notin entries /\ entries' = entries \cup {Debit(r, d, t)}
    BY ChargedDebit DEF Reasons
<1> HIDE DEF d
<1>3. ent[d].until \in Nat /\ ent[d].until <= t /\ t \in Nat
    BY <1>1, <1>2 DEF Entitlements
<1>4. Debit(r, d, t) \notin entries
    BY <1>1, <1>2, <1>3 DEF SoldInv, Sold
<1>5. ent'[d].until = t + Period /\ \A c \in Creators : c # d => ent'[c].until = ent[c].until
    BY <1>1, <1>2
<1>6. \A q, c, u : Debit(q, c, u) \in entries' <=>
                     Debit(q, c, u) \in entries \/ (q = r /\ c = d /\ u = t)
    <2>1. entries' = entries \cup {Debit(r, d, t)}
        BY <1>2, <1>4
    <2>2. \A q, c, u : Debit(q, c, u) = Debit(r, d, t) => q = r /\ c = d /\ u = t
        BY DebitsDiffer
    <2> QED  BY <2>1, <2>2
<1> SUFFICES ASSUME NEW c \in Creators PROVE Sold(c)'
    BY DEF SoldInv
<1>7. CASE c # d
    <2>1. \A q, u : Debit(q, c, u) \in entries' <=> Debit(q, c, u) \in entries
        BY <1>6, <1>7
    <2>2. ent'[c].until = ent[c].until
        BY <1>5, <1>7
    <2>3. Sold(c)
        BY DEF SoldInv
    <2> QED  BY <2>1, <2>2, <2>3 DEF Sold
<1>8. CASE c = d
    <2>1. \A q \in Reasons, u \in Nat : Debit(q, d, u) \in entries => u + Period <= t
        BY <1>1, <1>2, <1>3 DEF SoldInv, Sold
    <2>2. \A q \in Reasons, u \in Nat : Debit(q, d, u) \in entries' => u + Period <= ent'[d].until
        BY <1>1, <1>3, <1>5, <1>6, <2>1
    <2>3. \A q, p \in Reasons, u, v \in Nat :
             Debit(q, d, u) \in entries /\ Debit(p, d, v) \in entries =>
               (q = p /\ u = v) \/ u + Period <= v \/ v + Period <= u
        BY <1>2 DEF SoldInv, Sold
    <2>4. \A q, p \in Reasons, u, v \in Nat :
             Debit(q, d, u) \in entries' /\ Debit(p, d, v) \in entries' =>
               (q = p /\ u = v) \/ u + Period <= v \/ v + Period <= u
        BY <1>6, <2>1, <2>3
    <2>5. Debit(r, d, t) \in entries'
        BY <1>6
    <2> QED  BY <1>2, <1>3, <1>5, <1>8, <2>2, <2>4, <2>5 DEF Sold
<1> QED  BY <1>7, <1>8

LEMMA SoldStep == Inv /\ SoldInv /\ [Next]_vars => SoldInv'
<1> SUFFICES ASSUME Inv, SoldInv, [Next]_vars PROVE SoldInv'
    OBVIOUS
<1>1. CASE \E w \in Workers : Charged(w)
    BY <1>1, SoldCharged DEF Inv
<1>2. CASE ~\E w \in Workers : Charged(w)
    <2>1. NoDebit /\ Boundaries
        BY <1>2, DebitsAre, BoundariesKept DEF Inv
    <2> QED  BY <2>1 DEF NoDebit, Boundaries, SoldInv, Sold
<1> QED  BY <1>1, <1>2

LEMMA SoldOnce == ASSUME TypeOK, SoldInv PROVE TimeIsSoldOnce
<1>1. Period \in Nat /\ Period > 0 /\ MaxNow \in Nat
    BY BillingAssumption
<1>2. \A r, c, t : /\ Debit(r, c, t).type = "SUBSCRIPTION_DEBIT"
                   /\ Debit(r, c, t).of[2] = c /\ Debit(r, c, t).of[3] = t
    BY DEF Debit
<1>3. ASSUME NEW e \in entries, e.type = "SUBSCRIPTION_DEBIT"
      PROVE  \E r \in Reasons, t \in Nat : e = Debit(r, e.of[2], t) /\ e.of[3] = t
    <2>1. \A o : TopUp(o).type # e.type /\ Refund(o).type # e.type
        BY <1>3 DEF TopUp, Refund
    <2>2. PICK r \in Reasons, c \in Creators, t \in 0..MaxNow : e = Debit(r, c, t)
        BY <2>1 DEF TypeOK, Reasons
    <2> QED  BY <1>1, <1>2, <2>2
<1> SUFFICES ASSUME NEW c \in Creators
             PROVE  /\ \A t \in 0..(MaxNow + Period), e, f \in entries :
                         (Covers(e, t) /\ Covers(f, t) /\ e.of[2] = c /\ f.of[2] = c) => e = f
                    /\ ent[c].until > 0 =>
                         \E e \in entries : Covers(e, ent[c].until - 1) /\ e.of[2] = c
    BY DEF TimeIsSoldOnce
<1>4. Sold(c) /\ ent[c].until \in Nat
    BY DEF SoldInv, TypeOK, Entitlements
<1>5. ASSUME NEW t \in 0..(MaxNow + Period), NEW e \in entries, NEW f \in entries,
             Covers(e, t), Covers(f, t), e.of[2] = c, f.of[2] = c
      PROVE  e = f
    <2>1. PICK r \in Reasons, u \in Nat : e = Debit(r, c, u) /\ e.of[3] = u
        BY <1>3, <1>5 DEF Covers
    <2>2. PICK q \in Reasons, v \in Nat : f = Debit(q, c, v) /\ f.of[3] = v
        BY <1>3, <1>5 DEF Covers
    <2>3. u <= t /\ t < u + Period /\ v <= t /\ t < v + Period
        BY <1>5, <2>1, <2>2 DEF Covers
    <2>4. (r = q /\ u = v) \/ u + Period <= v \/ v + Period <= u
        BY <1>4, <2>1, <2>2 DEF Sold
    <2> QED  BY <1>1, <2>1, <2>2, <2>3, <2>4
<1>6. ASSUME ent[c].until > 0
      PROVE  \E e \in entries : Covers(e, ent[c].until - 1) /\ e.of[2] = c
    <2>1. PICK r \in Reasons, t \in Nat : Debit(r, c, t) \in entries /\ t + Period = ent[c].until
        BY <1>4, <1>6 DEF Sold
    <2>2. Covers(Debit(r, c, t), ent[c].until - 1) /\ Debit(r, c, t).of[2] = c
        BY <1>1, <1>2, <1>4, <2>1 DEF Covers
    <2> QED  BY <2>1, <2>2
<1> QED  BY <1>5, <1>6

(* A creator's time is sold once and granted as sold: charged periods do not    *)
(* overlap, and the entitlement ends where the last of them does.              *)
THEOREM TimeSoldOnce == Spec => []TimeIsSoldOnce
<1>1. Init => SoldInv
    BY DEF Init, SoldInv, Sold
<1>2. Inv /\ SoldInv => TimeIsSoldOnce
    BY SoldOnce DEF Inv
<1> QED  BY <1>1, <1>2, SoldStep, InvHolds, PTL DEF Spec

-----------------------------------------------------------------------------
(* The balance is the sum of the entries. T sums the subsets of U when it      *)
(* gives the empty one nothing and grows by the amount of what is added.       *)
Sums(T, U) ==
    /\ T \in [SUBSET U -> Int] /\ T[{}] = 0
    /\ \A S \in SUBSET U, e \in U : e \notin S => T[S \cup {e}] = T[S] + e.amount

Total(U) == (CHOOSE T : Sums(T, U))[U]

(* A set of subsets of a finite set has a member without a smaller one: this   *)
(* is the induction over what the wallet contains.                             *)
LEMMA Minimal ==
    ASSUME NEW U, IsFiniteSet(U), NEW F \in SUBSET (SUBSET U), F # {}
    PROVE  \E A \in F : \A B \in F : ~(B \subseteq A /\ B # A)
<1> DEFINE R == StrictSubsetOrdering(U)
<1>1. F \subseteq FiniteSubsetsOf(U)
    BY FS_FiniteSubsetsOfFinite
<1>2. IsWellFoundedOn(R, FiniteSubsetsOf(U))
    BY FS_StrictSubsetOrderingWellFounded
<1>3. PICK A \in F : \A B \in F : <<B, A>> \notin R
    <2> HIDE DEF R
    <2> QED  BY <1>1, <1>2, WFMin, Zenon
<1>4. ASSUME NEW B \in F, B \subseteq A, B # A PROVE FALSE
    <2>1. <<B, A>> \in R
        BY <1>4 DEF StrictSubsetOrdering
    <2> QED  BY <1>3, <2>1
<1> QED  BY <1>4

LEMMA SumExtends ==
    ASSUME NEW A, NEW x \in A, NEW T0, Sums(T0, A \ {x}), x.amount \in Int,
           \A e \in A : e.amount \in Int
    PROVE  \E T : Sums(T, A)
<1> DEFINE T == [S \in SUBSET A |-> IF x \in S THEN T0[S \ {x}] + x.amount ELSE T0[S]]
<1>1. \A S \in SUBSET (A \ {x}) : T0[S] \in Int
    BY DEF Sums
<1>2. ASSUME NEW S \in SUBSET A
      PROVE  /\ S \ {x} \in SUBSET (A \ {x})
             /\ x \notin S => S \in SUBSET (A \ {x})
    OBVIOUS
<1>3. T \in [SUBSET A -> Int]
    <2>1. ASSUME NEW S \in SUBSET A
          PROVE  (IF x \in S THEN T0[S \ {x}] + x.amount ELSE T0[S]) \in Int
        BY <1>1, <1>2
    <2> QED  BY <2>1
<1>4. T[{}] = 0
    BY DEF Sums
<1>5. ASSUME NEW S \in SUBSET A, NEW e \in A, e \notin S
      PROVE  T[S \cup {e}] = T[S] + e.amount
    <2>1. S \cup {e} \in SUBSET A
        OBVIOUS
    <2>2. CASE e = x
        <3>1. (S \cup {e}) \ {x} = S /\ x \notin S /\ x \in S \cup {e}
            BY <1>5, <2>2
        <3>2. T[S \cup {e}] = T0[(S \cup {e}) \ {x}] + x.amount /\ T[S] = T0[S]
            BY <2>1, <3>1
        <3> HIDE DEF T
        <3> QED  BY <2>2, <3>1, <3>2
    <2>3. CASE e # x /\ x \in S
        <3>1. /\ (S \cup {e}) \ {x} = (S \ {x}) \cup {e} /\ x \in S \cup {e}
              /\ S \ {x} \in SUBSET (A \ {x}) /\ e \in A \ {x} /\ e \notin S \ {x}
            BY <1>5, <2>3
        <3>2. /\ T[S \cup {e}] = T0[(S \cup {e}) \ {x}] + x.amount
              /\ T[S] = T0[S \ {x}] + x.amount
            BY <2>1, <2>3, <3>1
        <3>3. T0[(S \ {x}) \cup {e}] = T0[S \ {x}] + e.amount
            BY <3>1 DEF Sums
        <3>4. T0[S \ {x}] \in Int /\ e.amount \in Int
            BY <1>1, <3>1
        <3>5. T0[(S \cup {e}) \ {x}] = T0[S \ {x}] + e.amount
            BY <3>1, <3>3
        <3> HIDE DEF T
        <3> QED  BY <3>2, <3>4, <3>5
    <2>4. CASE e # x /\ x \notin S
        <3>1. /\ S \in SUBSET (A \ {x}) /\ e \in A \ {x} /\ x \notin S \cup {e}
            BY <1>5, <2>4
        <3>2. T[S \cup {e}] = T0[S \cup {e}] /\ T[S] = T0[S]
            BY <2>1, <2>4, <3>1
        <3>3. T0[S \cup {e}] = T0[S] + e.amount
            BY <1>5, <3>1 DEF Sums
        <3> HIDE DEF T
        <3> QED  BY <3>2, <3>3
    <2> QED  BY <2>2, <2>3, <2>4
<1> HIDE DEF T
<1> QED  BY <1>3, <1>4, <1>5 DEF Sums

(* A finite set has exactly one way to be summed.                              *)
LEMMA SumExists ==
    ASSUME NEW U, IsFiniteSet(U), \A e \in U : e.amount \in Int
    PROVE  \E T : Sums(T, U)
<1> DEFINE F == {A \in SUBSET U : ~\E T : Sums(T, A)}
<1>1. ASSUME F # {} PROVE FALSE
    <2>1. PICK A \in F : \A B \in F : ~(B \subseteq A /\ B # A)
        <3>1. F \in SUBSET (SUBSET U)
            OBVIOUS
        <3> HIDE DEF F
        <3> QED  BY <1>1, <3>1, Minimal
    <2>2. A # {}
        <3> DEFINE T == [S \in SUBSET {} |-> 0]
        <3>1. Sums(T, {})
            BY DEF Sums
        <3> QED  BY <3>1
    <2>3. PICK x \in A : TRUE
        BY <2>2
    <2>4. A \ {x} \subseteq A /\ A \ {x} # A /\ A \ {x} \in SUBSET U
        OBVIOUS
    <2>5. \E T : Sums(T, A \ {x})
        BY <2>1, <2>4
    <2>6. x.amount \in Int /\ \A e \in A : e.amount \in Int
        OBVIOUS
    <2>7. \E T : Sums(T, A)
        BY <2>5, <2>6, SumExtends
    <2> QED  BY <2>7
<1> QED  BY <1>1

LEMMA SumUnique ==
    ASSUME NEW U, IsFiniteSet(U), NEW T1, NEW T2, Sums(T1, U), Sums(T2, U)
    PROVE  T1[U] = T2[U]
<1> DEFINE F == {A \in SUBSET U : T1[A] # T2[A]}
<1>1. ASSUME F # {} PROVE FALSE
    <2>1. PICK A \in F : \A B \in F : ~(B \subseteq A /\ B # A)
        <3>1. F \in SUBSET (SUBSET U)
            OBVIOUS
        <3> HIDE DEF F
        <3> QED  BY <1>1, <3>1, Minimal
    <2>2. A # {}
        BY <2>1 DEF Sums
    <2>3. PICK x \in A : TRUE
        BY <2>2
    <2>4. /\ A \ {x} \subseteq A /\ A \ {x} # A /\ A \ {x} \in SUBSET U
          /\ x \in U /\ x \notin A \ {x} /\ (A \ {x}) \cup {x} = A
        OBVIOUS
    <2>5. T1[A \ {x}] = T2[A \ {x}]
        BY <2>1, <2>4
    <2>6. T1[A] = T1[A \ {x}] + x.amount /\ T2[A] = T2[A \ {x}] + x.amount
        <3>1. T1[(A \ {x}) \cup {x}] = T1[A \ {x}] + x.amount
            BY <2>4 DEF Sums
        <3>2. T2[(A \ {x}) \cup {x}] = T2[A \ {x}] + x.amount
            BY <2>4 DEF Sums
        <3> QED  BY <2>4, <3>1, <3>2
    <2> QED  BY <2>1, <2>5, <2>6
<1> QED  BY <1>1

LEMMA TotalIs ==
    ASSUME NEW U, IsFiniteSet(U), NEW T, Sums(T, U)
    PROVE  Total(U) = T[U]
<1>1. Sums(CHOOSE Z : Sums(Z, U), U)
    OBVIOUS
<1> QED  BY <1>1, SumUnique DEF Total

LEMMA TotalOfNone == Total({}) = 0
<1> DEFINE T == [S \in SUBSET {} |-> 0]
<1>1. Sums(T, {}) /\ T[{}] = 0
    BY DEF Sums
<1> HIDE DEF T
<1> QED  BY <1>1, FS_EmptySet, TotalIs

LEMMA TotalGrows ==
    ASSUME NEW U, IsFiniteSet(U), NEW x, x \notin U, x.amount \in Int,
           \A e \in U : e.amount \in Int
    PROVE  Total(U \cup {x}) = Total(U) + x.amount
<1> DEFINE V == U \cup {x}
<1>1. IsFiniteSet(V) /\ \A e \in V : e.amount \in Int
    BY FS_AddElement
<1>2. PICK T : Sums(T, V)
    BY <1>1, SumExists
<1> DEFINE P == [S \in SUBSET U |-> T[S]]
<1>3. Sums(P, U) /\ P[U] = T[U]
    <2>1. \A S \in SUBSET U : S \in SUBSET V /\ P[S] = T[S] /\ T[S] \in Int
        BY <1>2 DEF Sums
    <2>2. P \in [SUBSET U -> Int]
        BY <2>1
    <2>3. P[{}] = 0
        BY <1>2, <2>1 DEF Sums
    <2>4. ASSUME NEW S \in SUBSET U, NEW e \in U, e \notin S
          PROVE  P[S \cup {e}] = P[S] + e.amount
        <3>1. S \cup {e} \in SUBSET U /\ S \in SUBSET V /\ e \in V
            OBVIOUS
        <3>2. T[S \cup {e}] = T[S] + e.amount
            BY <1>2, <2>4, <3>1 DEF Sums
        <3> HIDE DEF P
        <3> QED  BY <2>1, <3>1, <3>2
    <2> HIDE DEF P
    <2> QED  BY <2>1, <2>2, <2>3, <2>4 DEF Sums
<1>4. T[V] = T[U] + x.amount
    <2>1. U \in SUBSET V /\ x \in V
        OBVIOUS
    <2> HIDE DEF V
    <2>2. T[U \cup {x}] = T[U] + x.amount
        BY <1>2, <2>1 DEF Sums
    <2> QED  BY <2>2 DEF V
<1> HIDE DEF P
<1>5. Total(V) = T[V]
    BY <1>1, <1>2, TotalIs
<1>6. Total(U) = P[U]
    BY <1>3, TotalIs
<1> QED  BY <1>3, <1>4, <1>5, <1>6

(* What the wallet holds is what its entries add up to.                        *)
BalanceIsSum == IsFiniteSet(entries) /\ balance = Total(entries)

LEMMA SumStep == Inv /\ BalanceIsSum /\ [Next]_vars => BalanceIsSum'
<1> SUFFICES ASSUME Inv, BalanceIsSum, [Next]_vars PROVE BalanceIsSum'
    OBVIOUS
<1>1. Ledger!Next \/ UNCHANGED <<balance, entries>>
    BY LedgerStep
<1>2. CASE UNCHANGED <<balance, entries>>
    BY <1>2 DEF BalanceIsSum
<1>3. CASE Ledger!Next
    <2>1. PICK e \in AllEntries : Ledger!Post(e)
        BY <1>3 DEF Ledger!Next, AllEntries
    <2>2. /\ e \notin entries /\ e.amount \in Int
          /\ entries' = entries \cup {e} /\ balance' = balance + e.amount
        BY <2>1, EntryTypes DEF Ledger!Post, Ledger!Same
    <2>3. \A f \in entries : f.amount \in Int
        BY EntryTypes DEF Inv, TypeOK, AllEntries
    <2>4. IsFiniteSet(entries')
        BY <2>2, FS_AddElement DEF BalanceIsSum
    <2>5. Total(entries') = Total(entries) + e.amount
        BY <2>2, <2>3, TotalGrows DEF BalanceIsSum
    <2> QED  BY <2>2, <2>4, <2>5 DEF BalanceIsSum
<1> QED  BY <1>1, <1>2, <1>3

(* However callbacks, charges, refunds, conflicts and restarts interleave, the *)
(* balance that mutateWallet computed from what a transaction read is the sum  *)
(* of the entries: no update is lost and none is applied twice.                *)
THEOREM WalletAddsUp == Spec => []BalanceIsSum
<1>1. Init => BalanceIsSum
    BY TotalOfNone, FS_EmptySet DEF Init, BalanceIsSum
<1> QED  BY <1>1, SumStep, InvHolds, PTL DEF Spec

-----------------------------------------------------------------------------
(* A callback that was marked as processed counts: its order is at least as    *)
(* far as the reported status takes it, and never falls behind it again.       *)
ProcessedCounts ==
    \A e \in Events : inbox[e] = "processed" =>
        Rank[order[e.order].status] >= Rank[orderStatusForProviderStatus[e.status]]

LEMMA Reaches ==
    ASSUME NEW current \in OrderStatuses, NEW s \in ProviderStatuses
    PROVE  Rank[monotonicOrderStatus(current, s)] >= Rank[orderStatusForProviderStatus[s]]
<1> DEFINE next == orderStatusForProviderStatus[s]
           n == monotonicOrderStatus(current, s)
<1>1. next \in {"PROCESSING", "PARTIALLY_PAID", "PAID", "REFUNDED", "EXPIRED", "FAILED"}
    BY StatusTable
<1>2. n = IF \/ current = "REFUNDED"
             \/ current = "PAID" /\ next # "REFUNDED"
             \/ current = "PARTIALLY_PAID" /\ next = "PROCESSING"
             \/ current \in {"FAILED", "EXPIRED"} /\ next \notin {"PAID", "REFUNDED"}
          THEN current ELSE next
    BY DEF monotonicOrderStatus
<1>3. /\ Rank["PROCESSING"] = 3 /\ Rank["PARTIALLY_PAID"] = 4 /\ Rank["EXPIRED"] = 5
      /\ Rank["FAILED"] = 5 /\ Rank["PAID"] = 6 /\ Rank["REFUNDED"] = 7
    BY DEF Rank, OrderStatuses
<1> HIDE DEF next, n
<1>4. Rank[n] >= Rank[next]
    BY <1>1, <1>2, <1>3
<1> QED  BY <1>4 DEF n, next

LEMMA InboxStep ==
    ASSUME Inv, [Next]_vars, NEW e \in Events, inbox'[e] = "processed", inbox[e] # "processed"
    PROVE  Rank[order'[e.order].status] >= Rank[orderStatusForProviderStatus[e.status]]
<1>1. inbox \in [Events -> {"absent", "open", "processed"}] /\ TypeOK /\ LockInv
    BY DEF Inv, TypeOK
<1>2. \A f \in Events : Stored(f) => inbox'[e] = inbox[e] \/ inbox'[e] = "open"
    BY <1>1 DEF Stored
<1>3. PICK w \in Workers : Project(w)
    <2>1. ASSUME NEW o \in Orders,
                 Reserve(o) \/ InvoiceMade(o) \/ AttachInvoice(o) \/ InvoiceUnknown(o)
                 \/ PaymentMoves(o)
          PROVE  inbox' = inbox
        BY <2>1 DEF Reserve, InvoiceMade, AttachInvoice, InvoiceUnknown, PaymentMoves
    <2>2. ASSUME NEW w \in Workers, NEW f \in Events, Receive(w, f) PROVE FALSE
        BY <1>2, <2>2 DEF Receive
    <2>3. ASSUME NEW w \in Workers, NEW o \in Orders, Fetch(w, o) PROVE FALSE
        <3> DEFINE f == [order |-> o, status |-> payment[o], via |-> "fetch"]
        <3>1. f \in Events /\ Stored(f)
            BY <1>1, <2>3, FetchedEvent DEF Fetch
        <3> HIDE DEF f
        <3> QED  BY <1>2, <3>1
    <2>4. ASSUME NEW w \in Workers,
                 \/ \E c \in Creators, kind \in {"start", "cancel", "renew"} : Ask(w, kind, c)
                 \/ Work(w) /\ ~Project(w)
                 \/ Crash(w)
          PROVE  inbox' = inbox
        BY <2>4 DEF Ask, Crash, Work, ReplayEvent, LockAgency, Reread, Credit,
           StartSubscription, CancelRenewal, Renew, SkipRenewal, RefuseRenewal, ReportRefusal
    <2>5. CASE Deploy \/ Tick \/ UNCHANGED vars
        BY <2>5 DEF Deploy, Tick, vars
    <2> QED  BY <2>1, <2>2, <2>3, <2>4, <2>5 DEF Next
<1>4. inbox' = [inbox EXCEPT ![job[w].event] = "processed"]
    BY <1>3 DEF Project
<1>5. job[w].event \in Events /\ e = job[w].event
    BY <1>1, <1>3, <1>4, ProjectIs
<1>6. /\ e.order \in Orders /\ e.status \in ProviderStatuses
      /\ Projected(e.order, monotonicOrderStatus(order[e.order].status, e.status))
    BY <1>1, <1>3, <1>5, ProjectIs
<1>7. order[e.order].status \in OrderStatuses
    BY <1>1, <1>6 DEF TypeOK
<1> QED  BY <1>6, <1>7, Reaches DEF Projected

LEMMA ProcessedStep == Inv /\ ProcessedCounts /\ [Next]_vars => ProcessedCounts'
<1> SUFFICES ASSUME Inv, ProcessedCounts, [Next]_vars,
                    NEW e \in Events, inbox'[e] = "processed"
             PROVE  Rank[order'[e.order].status] >= Rank[orderStatusForProviderStatus[e.status]]
    BY DEF ProcessedCounts
<1>1. e.order \in Orders /\ e.status \in ProviderStatuses
    BY BillingAssumption DEF Events
<1>2. CASE inbox[e] = "processed"
    <2>1. Rank[order'[e.order].status] >= Rank[order[e.order].status]
        <3>1. order' # order => \A o \in Orders : Rank[order'[o].status] >= Rank[order[o].status]
            BY ForwardStep
        <3>2. Rank[order[e.order].status] \in Nat
            BY <1>1, RankIs DEF Inv, TypeOK
        <3> QED  BY <1>1, <3>1, <3>2
    <2>2. Rank[order[e.order].status] >= Rank[orderStatusForProviderStatus[e.status]]
        BY <1>2 DEF ProcessedCounts
    <2>3. /\ Rank[order[e.order].status] \in Nat /\ Rank[order'[e.order].status] \in Nat
          /\ Rank[orderStatusForProviderStatus[e.status]] \in Nat
        <3>1. TypeOK /\ TypeOK'
            BY TypeStep DEF Inv
        <3>2. /\ order[e.order].status \in OrderStatuses
              /\ order'[e.order].status \in OrderStatuses
              /\ orderStatusForProviderStatus[e.status] \in OrderStatuses
            BY <1>1, <3>1, StatusTable DEF TypeOK, OrderStatuses
        <3> QED  BY <3>2, RankIs
    <2> QED  BY <2>1, <2>2, <2>3
<1>3. CASE inbox[e] # "processed"
    BY <1>3, InboxStep
<1> QED  BY <1>2, <1>3

(* No callback is accepted without its effect: applyProviderPayment marks it   *)
(* in the transaction that moves the order, and nothing moves the order back.  *)
THEOREM AcceptedIsApplied == Spec => []ProcessedCounts
<1>1. Init => ProcessedCounts
    BY DEF Init, ProcessedCounts
<1> QED  BY <1>1, ProcessedStep, InvHolds, PTL DEF Spec

-----------------------------------------------------------------------------
(* The agency's row is locked by a transaction that is still running.          *)
LockIsHeld == \A w \in Workers : lock = w <=> Keeps(w)

\* Whom the lock names works under it.
HolderWorks == \A w \in Workers : lock = w => Locked(job[w])

LEMMA HolderWrite ==
    ASSUME HolderWorks, NEW w \in Workers, \A v \in Workers : v # w => job'[v] = job[v],
           \/ lock' = NoOne
           \/ lock' = lock /\ ~Locked(job[w])
           \/ lock' = w /\ Locked(job'[w])
    PROVE  HolderWorks'
<1>1. NoOne \notin Workers
    BY BillingAssumption
<1> QED  BY <1>1 DEF HolderWorks, Locked

LEMMA HolderStep == TypeOK /\ LockInv /\ HolderWorks /\ [Next]_vars => HolderWorks'
<1> SUFFICES ASSUME TypeOK, LockInv, HolderWorks, [Next]_vars PROVE HolderWorks'
    OBVIOUS
<1>1. ASSUME job' = job, lock' = lock PROVE HolderWorks'
    BY <1>1 DEF HolderWorks, Locked
<1>2. CASE \/ \E o \in Orders : Reserve(o) \/ InvoiceMade(o) \/ AttachInvoice(o)
                                \/ InvoiceUnknown(o) \/ PaymentMoves(o)
           \/ Deploy \/ Tick \/ UNCHANGED vars
    BY <1>1, <1>2 DEF Reserve, InvoiceMade, AttachInvoice, InvoiceUnknown, PaymentMoves, Deploy,
       Tick, vars
<1>3. ASSUME NEW w \in Workers,
             \/ \E e \in Events : Receive(w, e)
             \/ \E o \in Orders : Fetch(w, o)
             \/ \E c \in Creators, kind \in {"start", "cancel", "renew"} : Ask(w, kind, c)
      PROVE  HolderWorks'
    <2>1. job \in [Workers -> Jobs]
        BY DEF TypeOK
    <2>2. \A v \in Workers : v # w => job'[v] = job[v]
        <3>1. \A e : Begin(w, e) => \A v \in Workers : v # w => job'[v] = job[v]
            BY <2>1 DEF Begin
        <3>2. \A c, kind : Ask(w, kind, c) => \A v \in Workers : v # w => job'[v] = job[v]
            BY <2>1 DEF Ask
        <3> QED  BY <1>3, <3>1, <3>2 DEF Receive, Fetch
    <2>3. lock' = lock /\ ~Locked(job[w])
        BY <1>3, FreeHands DEF Receive, Fetch, Ask, Free
    <2> QED  BY <2>2, <2>3, HolderWrite
<1>4. ASSUME NEW w \in Workers, ReplayEvent(w) \/ ReportRefusal(w) PROVE HolderWorks'
    <2>1. lock' = lock /\ ~Locked(job[w])
        BY <1>4, FreeHands DEF ReplayEvent, ReportRefusal
    <2>2. \A v \in Workers : v # w => job'[v] = job[v]
        <3>1. job \in [Workers -> Jobs] /\ job[w] \in Jobs
            BY DEF TypeOK
        <3>2. CASE ReplayEvent(w)
            <4>1. job[w].event \in Events
                BY <3>1, <3>2, JobKinds DEF ReplayEvent, EventJobs
            <4> QED  BY <3>1, <3>2, <4>1, AfterwardsType DEF ReplayEvent
        <3>3. CASE ReportRefusal(w)
            BY <3>1, <3>3 DEF ReportRefusal
        <3> QED  BY <1>4, <3>2, <3>3
    <2> QED  BY <2>1, <2>2, HolderWrite
<1>5. ASSUME NEW w \in Workers, LockAgency(w) PROVE HolderWorks'
    <2>1. lock' = w /\ Locked(job'[w]) /\ \A v \in Workers : v # w => job'[v] = job[v]
        BY <1>5, LockedJob DEF LockAgency, Locked
    <2> QED  BY <2>1, HolderWrite
<1>6. ASSUME NEW w \in Workers, Reread(w) PROVE HolderWorks'
    <2>1. /\ \A v \in Workers : v # w => job'[v] = job[v]
          /\ job'[w] = [job[w] EXCEPT !.seen = order[job[w].event.order].status]
          /\ lock' = lock
        BY <1>6 DEF Reread, TypeOK
    <2>2. job[w] \in EventJobs /\ Locked(job[w])
        BY <1>6, Held, KeepsLocked DEF Reread
    <2>3. Locked(job'[w])
        BY <2>1, <2>2 DEF Locked, EventJobs
    <2>4. lock = w
        BY <2>2 DEF LockInv
    <2> QED  BY <2>1, <2>3, <2>4, HolderWrite
<1>7. ASSUME NEW w \in Workers,
             \/ Project(w) \/ Credit(w) \/ StartSubscription(w) \/ CancelRenewal(w)
             \/ Renew(w) \/ SkipRenewal(w) \/ RefuseRenewal(w)
      PROVE  HolderWorks'
    <2>1. lock' = NoOne
        BY <1>7 DEF Project, Credit, StartSubscription, CancelRenewal, Renew, SkipRenewal,
           RefuseRenewal, Finish
    <2> QED  BY <2>1, BillingAssumption DEF HolderWorks
<1>8. ASSUME NEW w \in Workers, Crash(w) PROVE HolderWorks'
    <2>1. /\ \A v \in Workers : v # w => job'[v] = job[v]
          /\ lock' = IF Keeps(w) THEN NoOne ELSE lock
        BY <1>8 DEF Crash, TypeOK
    <2> QED  BY <2>1, KeepsLocked, HolderWrite
<1> QED  BY <1>2, <1>3, <1>4, <1>5, <1>6, <1>7, <1>8 DEF Next, Work

(* lockAgencyBillingMutation and its ends belong together: whatever conflicts, *)
(* restarts and refusals end a transaction, the lock goes with it, and while   *)
(* it runs nobody else has the lock.                                           *)
THEOREM LockGoesWithWork == Spec => []LockIsHeld
<1>1. Init => HolderWorks
    BY BillingAssumption DEF Init, HolderWorks
<1>2. TypeOK /\ LockInv /\ HolderWorks => LockIsHeld
    BY KeepsLocked DEF LockInv, HolderWorks, LockIsHeld
<1> QED  BY <1>1, <1>2, HolderStep, LockInvariant, PTL DEF Spec
=============================================================================
