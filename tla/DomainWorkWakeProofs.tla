------------------------- MODULE DomainWorkWakeProofs -------------------------
(***************************************************************************)
(* More theorems of DomainWork: nobody sleeps through its wake, nothing    *)
(* sleeps or is parked without cause, and no page of an older generation's *)
(* executor counts for a row that is DONE.                                 *)
(***************************************************************************)
EXTENDS DomainWorkProofs

LEMMA StoredShape ==
  ASSUME NEW old \in Row, NEW new \in Row
  PROVE  LET n == Stored(old, new)
         IN /\ n.dep = new.dep /\ n.depRev = new.depRev
            /\ \/ /\ n.state = new.state /\ n.requested = new.requested
                  /\ n.owner = new.owner /\ n.fence = new.fence
                  /\ n.claimed = new.claimed /\ n.cursor = new.cursor
               \/ /\ n.state = IF old.state = "BLOCKED" THEN "BLOCKED" ELSE "READY"
                  /\ n.requested = Later(new.requested, old.requested + 1)
                  /\ old.state # "ABSENT" /\ n.cursor = NoCursor
BY DEF Stored, Row

-----------------------------------------------------------------------------
(* Wakes.  The wake row of a dependency names it at its current revision,  *)
(* and is to be executed as long as somebody sleeps on an older one; whose *)
(* claim of it is current has found everybody that there was to wake, once *)
(* it says that nobody remains.                                            *)
WakeRow(d) ==
  LET r == rows[WakeOf[d]]
  IN /\ r.state # "BLOCKED"
     /\ r.state = "ABSENT" => deps[d] = 0
     /\ r.state # "ABSENT" => r.dep = d /\ r.depRev = deps[d]
     /\ Asleep(rows, d, deps[d]) # {} => r.state \notin {"ABSENT", "DONE"}

WakeHandle(w, h) ==
  /\ h.blocked => h.item \in DomainItems
  /\ \A d \in Deps :
       h.busy /\ h.item = WakeOf[d] /\ Owns(w, h, rows[h.item]) =>
         /\ h.claimed <= rows[h.item].requested
         /\ h.claimed = rows[h.item].requested =>
              /\ h.dep = d /\ h.depRev = deps[d]
              /\ h.read > 0 /\ ~h.remaining => Asleep(rows, d, deps[d]) = {}

WInv ==
  /\ TypeOK
  /\ \A d \in Deps : WakeRow(d)
  /\ \A w \in Workers : WakeHandle(w, handle[w])

(* What a write other than a change of the dependency does to a row.  Only *)
(* by may have claimed it.                                                 *)
Settles(i, r, n, by) ==
  /\ r.requested <= n.requested
  /\ n.state = "CLAIMED" =>
       n.owner = by \/ (r.state = "CLAIMED" /\ n.owner = r.owner /\ n.fence = r.fence)
  /\ n.state = "BLOCKED" \/ r.state = "BLOCKED" =>
       \/ r.state = "BLOCKED" /\ n.dep = r.dep /\ n.depRev = r.depRev
       \/ n.dep \notin Deps \/ n.depRev = deps[n.dep]
  /\ i \in WakeItems /\ r.state # "BLOCKED" =>
       /\ n.dep = r.dep /\ n.depRev = r.depRev /\ n.state # "BLOCKED"
       /\ n.state = "ABSENT" <=> r.state = "ABSENT"
       /\ n.state = "DONE" =>
            r.state = "DONE" \/ \A d \in Deps : i = WakeOf[d] => Asleep(rows, d, deps[d]) = {}

LEMMA StoredSettles ==
  ASSUME NEW i, NEW r \in Row, NEW new \in Row, NEW by, Settles(i, r, new, by)
  PROVE  Settles(i, r, Stored(r, new), by)
<1> DEFINE n == Stored(r, new)
<1>1. /\ n.dep = new.dep /\ n.depRev = new.depRev
      /\ \/ /\ n.state = new.state /\ n.requested = new.requested
            /\ n.owner = new.owner /\ n.fence = new.fence
         \/ /\ n.state = IF r.state = "BLOCKED" THEN "BLOCKED" ELSE "READY"
            /\ n.requested = Later(new.requested, r.requested + 1)
            /\ r.state # "ABSENT"
  BY StoredShape
<1>2. r.requested \in Nat /\ new.requested \in Nat
  BY RowTypes
<1>3. r.requested <= n.requested
  <2> HIDE DEF n
  <2> QED  BY <1>1, <1>2 DEF Later, Settles
<1> HIDE DEF n
<1>4. Settles(i, r, n, by)
  BY <1>1, <1>3 DEF Settles
<1> QED  BY <1>4 DEF n

LEMMA SettlesItself == \A i, by : \A r \in Row : Settles(i, r, r, by)
<1> TAKE i, by
<1> TAKE r \in Row
<1>1. r.requested \in Nat
  BY RowTypes
<1> QED  BY <1>1 DEF Settles

(* Nobody falls asleep on an old revision. *)
LEMMA NobodyElseAsleep ==
  ASSUME deps \in [Deps -> Nat], deps' = deps, NEW by,
         \A i \in Work : Settles(i, rows[i], rows'[i], by), NEW d \in Deps
  PROVE  Asleep(rows', d, deps'[d]) \subseteq Asleep(rows, d, deps[d])
<1> SUFFICES ASSUME NEW i \in Work, rows'[i].state = "BLOCKED",
                    rows'[i].dep = d, rows'[i].depRev < deps[d]
             PROVE  /\ rows[i].state = "BLOCKED" /\ rows[i].dep = d
                    /\ rows[i].depRev < deps[d]
  BY DEF Asleep
<1>1. deps[d] \in Nat
  OBVIOUS
<1> QED  BY <1>1 DEF Settles

LEMMA SleepStep ==
  ASSUME WInv, TypeOK', deps' = deps, NEW by,
         \A i \in Work : Settles(i, rows[i], rows'[i], by),
         \A v \in Workers :
           (v # by /\ handle'[v] = handle[v]) \/ WakeHandle(v, handle[v])'
  PROVE  WInv'
<1>1. \A d \in Deps : Asleep(rows', d, deps'[d]) \subseteq Asleep(rows, d, deps[d])
  BY NobodyElseAsleep DEF WInv, TypeOK
<1>2. ASSUME NEW d \in Deps PROVE WakeRow(d)'
  <2>1. WakeOf[d] \in Work /\ WakeOf[d] \in WakeItems
    BY WorkAssumption DEF WakeItems
  <2>2. WakeRow(d) /\ Settles(WakeOf[d], rows[WakeOf[d]], rows'[WakeOf[d]], by)
    BY <2>1 DEF WInv
  <2> QED  BY <1>1, <2>1, <2>2 DEF WakeRow, Settles
<1>3. ASSUME NEW v \in Workers PROVE WakeHandle(v, handle[v])'
  <2> SUFFICES ASSUME v # by, handle'[v] = handle[v] PROVE WakeHandle(v, handle[v])'
    OBVIOUS
  <2> DEFINE h == handle[v]
             r == rows[h.item]
             n == rows'[h.item]
  <2>1. WakeHandle(v, h) /\ h.item \in Work
    BY DEF WInv, TypeOK, Handle
  <2>2. r \in Row /\ n \in Row /\ Settles(h.item, r, n, by) /\ h \in Handle
    BY <2>1 DEF WInv, TypeOK
  <2>3. r.requested \in Nat /\ n.requested \in Nat /\ h.claimed \in Nat
    BY <2>2 DEF Row, Handle
  <2>4. Owns(v, h, n) => Owns(v, h, r)
    BY <2>2 DEF Owns, Settles
  <2>5. r.requested <= n.requested
    BY <2>2 DEF Settles
  <2>6. ASSUME NEW d \in Deps, h.busy, h.item = WakeOf[d], Owns(v, h, n)
        PROVE  /\ h.claimed <= n.requested
               /\ h.claimed = n.requested =>
                    /\ h.dep = d /\ h.depRev = deps'[d]
                    /\ h.read > 0 /\ ~h.remaining => Asleep(rows', d, deps'[d]) = {}
    <3>1. h.claimed <= r.requested
      BY <2>1, <2>4, <2>6 DEF WakeHandle
    <3>2. h.claimed <= n.requested /\ (h.claimed = n.requested => h.claimed = r.requested)
      <4> HIDE DEF h, r, n
      <4> QED  BY <2>3, <2>5, <3>1
    <3>3. h.claimed = r.requested =>
            /\ h.dep = d /\ h.depRev = deps[d]
            /\ h.read > 0 /\ ~h.remaining => Asleep(rows, d, deps[d]) = {}
      BY <2>1, <2>4, <2>6 DEF WakeHandle
    <3> QED  BY <1>1, <3>2, <3>3
  <2> QED  BY <2>1, <2>6 DEF WakeHandle
<1> QED  BY <1>2, <1>3 DEF WInv

LEMMA OneRowSettles ==
  ASSUME TypeOK, NEW i \in Work, NEW new \in Row, NEW by,
         rows' = Write(i, new), Settles(i, rows[i], new, by)
  PROVE  \A j \in Work : Settles(j, rows[j], rows'[j], by)
<1> TAKE j \in Work
<1>1. rows[j] \in Row /\ rows[i] \in Row
  BY DEF TypeOK
<1>2. rows'[j] = IF j = i THEN Stored(rows[i], new) ELSE rows[j]
  BY DEF Write, TypeOK
<1>3. CASE j = i
  BY <1>1, <1>2, <1>3, StoredSettles
<1>4. CASE j # i
  BY <1>1, <1>2, <1>4, SettlesItself
<1> QED  BY <1>3, <1>4

(* What the executor's settling leaves of a claimed row. *)
Keeps(r, n) ==
  /\ n.requested = r.requested /\ n.dep = r.dep /\ n.depRev = r.depRev
  /\ n.state \notin {"BLOCKED", "ABSENT"}
  /\ n.state = "CLAIMED" => n.owner = r.owner /\ n.fence = r.fence

LEMMA AckedWakes ==
  ASSUME NEW w, NEW h, NEW r \in Row
  PROVE  Keeps(r, Acked(w, h, r)) /\ (Acked(w, h, r).state = "DONE" => ~Newer(w))
<1>1. LET n == Acked(w, h, r)
      IN /\ n.requested = r.requested /\ n.dep = r.dep /\ n.depRev = r.depRev
         /\ n.state = IF Newer(w) THEN "READY" ELSE "DONE"
  BY DEF Acked, Released, Row
<1> QED  BY <1>1 DEF Keeps

LEMMA YieldedWakes ==
  ASSUME NEW w, NEW h, NEW r \in Row, NEW due
  PROVE  Keeps(r, Yielded(w, h, r, due)) /\ Yielded(w, h, r, due).state # "DONE"
<1>1. LET n == Yielded(w, h, r, due)
      IN /\ n.requested = r.requested /\ n.dep = r.dep /\ n.depRev = r.depRev
         /\ n.state = "READY"
  BY DEF Yielded, Released, Row
<1> QED  BY <1>1 DEF Keeps

LEMMA SavedWakes ==
  ASSUME NEW h, NEW r \in Row, r.state = "CLAIMED"
  PROVE  Keeps(r, Saved(h, r)) /\ Saved(h, r).state # "DONE"
<1>1. LET n == Saved(h, r)
      IN /\ n.requested = r.requested /\ n.dep = r.dep /\ n.depRev = r.depRev
         /\ n.state = "CLAIMED" /\ n.owner = r.owner /\ n.fence = r.fence
  BY DEF Saved, Row
<1> QED  BY <1>1 DEF Keeps

LEMMA FailedWakes ==
  ASSUME NEW w, NEW h, NEW r \in Row, NEW kind, NEW due
  PROVE  Keeps(r, Failed(w, h, r, kind, due)) /\ Failed(w, h, r, kind, due).state # "DONE"
<1>1. LET n == Failed(w, h, r, kind, due)
      IN /\ n.requested = r.requested /\ n.dep = r.dep /\ n.depRev = r.depRev
         /\ n.state \in {"READY", "RECONCILE_REQUIRED"}
  BY DEF Failed, Released, Row
<1> QED  BY <1>1 DEF Keeps

LEMMA ExtendedWakes ==
  ASSUME NEW r \in Row, r.state = "CLAIMED"
  PROVE  LET n == [r EXCEPT !.lease = LeaseLen] IN Keeps(r, n) /\ n.state # "DONE"
BY DEF Row, Keeps

LEMMA BlockedWakes ==
  ASSUME NEW w, NEW h, NEW r \in Row
  PROVE  LET n == Blocked(w, h, r)
         IN /\ n.requested = r.requested /\ n.dep = h.dep /\ n.depRev = deps[h.dep]
            /\ n.state \in {"BLOCKED", "READY"}
BY DEF Blocked, Released, Row

(* What opens a row, or keeps it as it is. *)
LEMMA OpenedWakes ==
  ASSUME NEW r \in Row
  PROVE  /\ \A n \in {Repaired(r), Woken(r)} :
              /\ r.requested <= n.requested /\ n.dep = r.dep /\ n.depRev = r.depRev
              /\ n.state = "READY"
         /\ LET n == Aged(r)
            IN /\ n.requested = r.requested /\ n.dep = r.dep /\ n.depRev = r.depRev
               /\ n.state = r.state /\ n.owner = r.owner /\ n.fence = r.fence
         /\ \A delay, d, dRev :
              LET n == Published(r, delay, d, dRev)
              IN /\ n.requested = r.requested + 1 /\ n.dep = d
                 /\ n.depRev = IF r.state = "ABSENT" THEN dRev ELSE Later(r.depRev, dRev)
                 /\ n.state = IF r.state = "CLAIMED" THEN "CLAIMED" ELSE "READY"
                 /\ n.owner = r.owner /\ n.fence = r.fence
<1>1. r.requested \in Nat
  BY RowTypes
<1>2. LET n == Repaired(r)
      IN /\ n.requested = r.requested + 1 /\ n.dep = r.dep /\ n.depRev = r.depRev
         /\ n.state = "READY"
  BY DEF Repaired, Released, Row
<1>3. LET n == Woken(r)
      IN /\ n.requested = r.requested /\ n.dep = r.dep /\ n.depRev = r.depRev
         /\ n.state = "READY"
  BY DEF Woken, Row
<1>5. LET n == Aged(r)
      IN /\ n.requested = r.requested /\ n.dep = r.dep /\ n.depRev = r.depRev
         /\ n.state = r.state /\ n.owner = r.owner /\ n.fence = r.fence
  BY DEF Aged, Row
<1>6. ASSUME NEW delay, NEW d, NEW dRev
      PROVE  LET n == Published(r, delay, d, dRev)
             IN /\ n.requested = r.requested + 1 /\ n.dep = d
                /\ n.depRev = IF r.state = "ABSENT" THEN dRev ELSE Later(r.depRev, dRev)
                /\ n.state = IF r.state = "CLAIMED" THEN "CLAIMED" ELSE "READY"
                /\ n.owner = r.owner /\ n.fence = r.fence
  BY DEF Published, Row
<1>7. \A n \in {Repaired(r), Woken(r)} : r.requested <= n.requested
  BY <1>1, <1>2, <1>3
<1> QED  BY <1>2, <1>3, <1>5, <1>6, <1>7

LEMMA WakeBump ==
  ASSUME WInv, TypeOK', NEW d \in Deps, Bump(d)
  PROVE  WInv'
<1> DEFINE i == WakeOf[d]
           r == rows[i]
           m == Published(r, 0, d, deps[d] + 1)
           n == Stored(r, m)
<1>1. /\ i \in Work /\ r \in Row /\ deps[d] \in Nat /\ d \in Deps \cup {NoDep}
      /\ deps' = [deps EXCEPT ![d] = deps[d] + 1] /\ handle' = handle
      /\ rows' = [rows EXCEPT ![i] = n]
      /\ rows'[i] = n /\ \A j \in Work : j # i => rows'[j] = rows[j]
  BY WorkAssumption DEF Bump, Write, WInv, TypeOK
<1>2. m \in Row
  BY <1>1, PublishedType
<1>3. /\ m.requested = r.requested + 1 /\ m.dep = d
      /\ m.depRev = IF r.state = "ABSENT" THEN deps[d] + 1 ELSE Later(r.depRev, deps[d] + 1)
      /\ m.state = IF r.state = "CLAIMED" THEN "CLAIMED" ELSE "READY"
      /\ m.owner = r.owner /\ m.fence = r.fence
  BY <1>1, OpenedWakes
<1>4. WakeRow(d) /\ r.state # "BLOCKED"
  BY DEF WInv, WakeRow
<1>5. r.requested \in Nat
  BY <1>1, RowTypes
<1>6. m.depRev = deps[d] + 1
  BY <1>1, <1>3, <1>4 DEF WakeRow, Later
<1>7. /\ n.dep = d /\ n.depRev = deps[d] + 1 /\ n.state \in {"CLAIMED", "READY"}
      /\ n.requested > r.requested
      /\ n.state = "CLAIMED" =>
           r.state = "CLAIMED" /\ n.owner = r.owner /\ n.fence = r.fence
  <2>1. /\ n.dep = m.dep /\ n.depRev = m.depRev
        /\ \/ /\ n.state = m.state /\ n.requested = m.requested
              /\ n.owner = m.owner /\ n.fence = m.fence
           \/ /\ n.state = "READY"
              /\ n.requested = Later(m.requested, r.requested + 1)
    <3> HIDE DEF r, m
    <3> QED  BY <1>1, <1>2, <1>4, StoredShape
  <2> HIDE DEF n, m
  <2> QED  BY <2>1, <1>3, <1>5, <1>6 DEF Later
<1>8. \A e \in Deps : e # d =>
        /\ WakeOf[e] # i /\ WakeOf[e] \in Work /\ deps'[e] = deps[e]
        /\ Asleep(rows', e, deps'[e]) = Asleep(rows, e, deps[e])
  <2> SUFFICES ASSUME NEW e \in Deps, e # d
               PROVE  /\ WakeOf[e] # i /\ WakeOf[e] \in Work /\ deps'[e] = deps[e]
                      /\ Asleep(rows', e, deps'[e]) = Asleep(rows, e, deps[e])
    OBVIOUS
  <2>1. WakeOf[e] # i /\ WakeOf[e] \in Work
    BY WorkAssumption
  <2>2. deps'[e] = deps[e]
    BY <1>1 DEF WInv, TypeOK
  <2>3. \A j \in Work : rows'[j].state = "BLOCKED" \/ rows[j].state = "BLOCKED"
                         => rows'[j] = rows[j]
    <3> HIDE DEF n, r
    <3> QED  BY <1>1, <1>4, <1>7 DEF r
  <2> QED  BY <2>1, <2>2, <2>3 DEF Asleep
<1>9. ASSUME NEW e \in Deps PROVE WakeRow(e)'
  <2>1. CASE e = d
    <3>1. deps'[d] = deps[d] + 1
      BY <1>1 DEF WInv, TypeOK
    <3> HIDE DEF n
    <3> QED  BY <1>1, <1>7, <2>1, <3>1 DEF WakeRow
  <2>2. CASE e # d
    <3>1. WakeRow(e)
      BY DEF WInv
    <3> HIDE DEF n, i
    <3> QED  BY <1>1, <1>8, <2>2, <3>1 DEF WakeRow
  <2> QED  BY <2>1, <2>2
<1>10. ASSUME NEW v \in Workers PROVE WakeHandle(v, handle[v])'
  <2> DEFINE h == handle[v]
  <2>1. WakeHandle(v, h) /\ h \in Handle /\ handle'[v] = h
    BY <1>1 DEF WInv, TypeOK
  <2>2. h.claimed \in Nat
    BY <2>1 DEF Handle
  <2>3. ASSUME NEW e \in Deps, h.busy, h.item = WakeOf[e], Owns(v, h, rows'[h.item])
        PROVE  /\ h.claimed <= rows'[h.item].requested
               /\ h.claimed = rows'[h.item].requested =>
                    /\ h.dep = e /\ h.depRev = deps'[e]
                    /\ h.read > 0 /\ ~h.remaining => Asleep(rows', e, deps'[e]) = {}
    <3>1. CASE e = d
      <4>1. Owns(v, h, r)
        <5> HIDE DEF n
        <5> QED  BY <1>1, <1>7, <2>3, <3>1 DEF Owns
      <4>2. h.claimed <= r.requested
        BY <2>1, <2>3, <3>1, <4>1 DEF WakeHandle
      <4>3. n.requested \in Nat
        <5>1. n \in Row
          BY <1>1, <1>2, StoredType DEF WInv, TypeOK
        <5> QED  BY <5>1, RowTypes
      <4>4. rows'[h.item] = n
        BY <1>1, <2>3, <3>1
      <4> HIDE DEF n, r, h
      <4> QED  BY <1>5, <1>7, <2>2, <4>2, <4>3, <4>4
    <3>2. CASE e # d
      <4>1. rows'[h.item] = rows[h.item]
        <5> HIDE DEF n
        <5> QED  BY <1>1, <1>8, <2>3, <3>2
      <4> QED  BY <1>8, <2>1, <2>3, <3>2, <4>1 DEF WakeHandle
    <3> QED  BY <3>1, <3>2
  <2> QED  BY <2>1, <2>3 DEF WakeHandle
<1> QED  BY <1>9, <1>10 DEF WInv

LEMMA IdleWakes == \A w : WakeHandle(w, Idle)' /\ WakeHandle(w, Idle)
BY DEF WakeHandle, Idle

(* A step of w that writes its row and lets go of it or keeps its handle. *)
LEMMA WakeSettle ==
  ASSUME WInv, TypeOK', NEW w \in Workers, deps' = deps,
         NEW new \in Row, rows' = Write(handle[w].item, new),
         Settles(handle[w].item, rows[handle[w].item], new, NoWorker),
         handle' = handle \/ handle' = [handle EXCEPT ![w] = Idle]
  PROVE  WInv'
<1>1. handle[w].item \in Work /\ TypeOK /\ NoWorker \notin Workers
  BY WorkAssumption DEF WInv, TypeOK, Handle
<1>2. \A i \in Work : Settles(i, rows[i], rows'[i], NoWorker)
  BY <1>1, OneRowSettles
<1>3. ASSUME NEW v \in Workers
      PROVE  (v # NoWorker /\ handle'[v] = handle[v]) \/ WakeHandle(v, handle[v])'
  <2>1. CASE handle'[v] = handle[v]
    BY <1>1, <2>1
  <2>2. CASE handle'[v] = Idle
    BY <2>2, IdleWakes DEF WakeHandle
  <2> QED  BY <1>1, <2>1, <2>2 DEF TypeOK
<1> QED  BY <1>2, <1>3, SleepStep

LEMMA WakeSettles ==
  ASSUME WInv, TypeOK', NEW w \in Workers,
         \/ Ack(w) \/ Yield(w) \/ Block(w) \/ Heartbeat(w)
         \/ \E kind \in FailureKinds : Fail(w, kind)
  PROVE  WInv'
<1> DEFINE h == handle[w]
           r == rows[h.item]
<1>1. h \in Handle /\ r \in Row /\ h.item \in Work /\ deps' = deps
      /\ Holds(w) /\ r.state = "CLAIMED" /\ r.requested \in Nat
      /\ Owns(w, h, r) /\ MaxDelay \in Nat /\ h.busy
      /\ WakeHandle(w, h) /\ h.claimed \in Nat
  BY BoundAssumption DEF Ack, Yield, Block, Heartbeat, Fail, Holds, WInv, TypeOK, Handle, Row, Owns
<1>2. ASSUME NEW n, n.requested = r.requested, n.dep = r.dep, n.depRev = r.depRev,
             n.state \notin {"BLOCKED", "ABSENT"},
             n.state = "CLAIMED" => n.owner = r.owner /\ n.fence = r.fence,
             n.state = "DONE" =>
               \A d \in Deps : h.item = WakeOf[d] => Asleep(rows, d, deps[d]) = {}
      PROVE  Settles(h.item, r, n, NoWorker)
  <2> HIDE DEF h, r
  <2> QED  BY <1>1, <1>2 DEF Settles
<1>3. CASE Ack(w)
  <2> DEFINE n == Acked(w, h, r)
  <2>1. n \in Row
    <3>1. 0 \in Nat
      OBVIOUS
    <3> HIDE DEF h, r
    <3> QED  BY <1>1, <3>1, SettledType
  <2>2. /\ n.requested = r.requested /\ n.dep = r.dep /\ n.depRev = r.depRev
        /\ n.state \notin {"BLOCKED", "ABSENT"}
        /\ n.state = "CLAIMED" => n.owner = r.owner /\ n.fence = r.fence
        /\ n.state = "DONE" => ~Newer(w)
    <3> HIDE DEF h, r
    <3> QED  BY <1>1, AckedWakes DEF Keeps
  <2>3. ASSUME n.state = "DONE", NEW d \in Deps, h.item = WakeOf[d]
        PROVE  Asleep(rows, d, deps[d]) = {}
    <3>1. ~Newer(w) /\ h.read > 0 /\ ~h.remaining
      <4>1. h.item \in WakeItems
        BY <2>3 DEF WakeItems
      <4> QED  BY <1>3, <2>2, <2>3, <4>1 DEF Ack, Finished
    <3>2. h.claimed <= r.requested /\ ~(r.requested > h.claimed)
      BY <1>1, <2>3, <3>1 DEF WakeHandle, Newer
    <3>3. h.claimed = r.requested
      <4> HIDE DEF h, r
      <4> QED  BY <1>1, <3>2
    <3> QED  BY <1>1, <2>3, <3>1, <3>3 DEF WakeHandle
  <2>4. Settles(h.item, r, n, NoWorker)
    <3> HIDE DEF n
    <3> QED  BY <1>2, <2>2, <2>3
  <2>5. rows' = Write(h.item, n) /\ handle' = [handle EXCEPT ![w] = Idle]
    BY <1>3 DEF Ack
  <2> HIDE DEF n
  <2> QED  BY <1>1, <2>1, <2>4, <2>5, WakeSettle
<1>4. ASSUME NEW n \in Row, rows' = Write(h.item, n),
             n.requested = r.requested, n.dep = r.dep, n.depRev = r.depRev,
             n.state \notin {"BLOCKED", "ABSENT", "DONE"},
             n.state = "CLAIMED" => n.owner = r.owner /\ n.fence = r.fence,
             handle' = handle \/ handle' = [handle EXCEPT ![w] = Idle]
      PROVE  WInv'
  <2>1. Settles(h.item, r, n, NoWorker)
    BY <1>2, <1>4
  <2> QED  BY <1>1, <1>4, <2>1, WakeSettle
<1>5. CASE Yield(w)
  <2>1. PICK due \in {0, MaxDelay} : rows' = Write(h.item, Yielded(w, h, r, due))
    BY <1>5 DEF Yield
  <2>2. /\ handle' = [handle EXCEPT ![w] = Idle] /\ ~Finished(h) /\ due \in Nat
    BY <1>1, <1>5 DEF Yield
  <2> DEFINE n == Yielded(w, h, r, due)
  <2>3. n \in Row
    <3> HIDE DEF h, r
    <3> QED  BY <1>1, <2>2, SettledType
  <2>4. /\ n.requested = r.requested /\ n.dep = r.dep /\ n.depRev = r.depRev
        /\ n.state \notin {"BLOCKED", "ABSENT", "DONE"}
        /\ n.state = "CLAIMED" => n.owner = r.owner /\ n.fence = r.fence
    <3> HIDE DEF h, r
    <3> QED  BY <1>1, YieldedWakes DEF Keeps
  <2> HIDE DEF n
  <2> QED  BY <1>4, <2>1, <2>2, <2>3, <2>4 DEF n
<1>6. ASSUME NEW kind \in FailureKinds, Fail(w, kind) PROVE WInv'
  <2>1. PICK due \in 1..MaxDelay : rows' = Write(h.item, Failed(w, h, r, kind, due))
    BY <1>6 DEF Fail
  <2>2. /\ handle' = [handle EXCEPT ![w] = Idle] /\ due \in Nat
        /\ kind \in {"contract", "database", "other"}
    BY <1>1, <1>6, WorkAssumption DEF Fail
  <2> DEFINE n == Failed(w, h, r, kind, due)
  <2>3. n \in Row
    <3> HIDE DEF h, r
    <3> QED  BY <1>1, <2>2, SettledType
  <2>4. /\ n.requested = r.requested /\ n.dep = r.dep /\ n.depRev = r.depRev
        /\ n.state \notin {"BLOCKED", "ABSENT", "DONE"}
        /\ n.state = "CLAIMED" => n.owner = r.owner /\ n.fence = r.fence
    <3> HIDE DEF h, r
    <3> QED  BY <1>1, FailedWakes DEF Keeps
  <2> HIDE DEF n
  <2> QED  BY <1>4, <2>1, <2>2, <2>3, <2>4 DEF n
<1>7. CASE Heartbeat(w)
  <2> DEFINE n == [r EXCEPT !.lease = LeaseLen]
  <2>1. rows' = Write(h.item, n) /\ handle' = handle
    BY <1>7 DEF Heartbeat
  <2>2. n \in Row
    BY <1>1, ReopenedType
  <2>3. /\ n.requested = r.requested /\ n.dep = r.dep /\ n.depRev = r.depRev
        /\ n.state \notin {"BLOCKED", "ABSENT", "DONE"}
        /\ n.state = "CLAIMED" => n.owner = r.owner /\ n.fence = r.fence
    <3> HIDE DEF h, r
    <3> QED  BY <1>1, ExtendedWakes DEF Keeps
  <2> HIDE DEF n
  <2> QED  BY <1>4, <2>1, <2>2, <2>3
<1>8. CASE Block(w)
  <2> DEFINE n == Blocked(w, h, r)
  <2>1. /\ rows' = Write(h.item, n) /\ handle' = [handle EXCEPT ![w] = Idle]
        /\ h.item \notin WakeItems /\ h.dep \in Deps
    BY <1>1, <1>8 DEF Block, WakeHandle, DomainItems, WInv, TypeOK
  <2>2. n \in Row
    <3> HIDE DEF h, r
    <3> QED  BY <1>1, <2>1, BlockedType DEF WInv, TypeOK
  <2>3. /\ n.requested = r.requested /\ n.dep = h.dep /\ n.depRev = deps[h.dep]
        /\ n.state \in {"BLOCKED", "READY"}
    <3> HIDE DEF h, r
    <3> QED  BY <1>1, BlockedWakes DEF Keeps
  <2>4. Settles(h.item, r, n, NoWorker)
    <3> HIDE DEF n, h, r
    <3> QED  BY <1>1, <2>1, <2>3 DEF Settles
  <2> HIDE DEF n
  <2> QED  BY <1>1, <2>1, <2>2, <2>4, WakeSettle
<1> QED  BY <1>3, <1>5, <1>6, <1>7, <1>8

LEMMA WakeOpen ==
  ASSUME WInv, TypeOK', NEW i \in Work, Publish(i) \/ Repair(i)
  PROVE  WInv'
<1> DEFINE r == rows[i]
<1>1. r \in Row /\ r.requested \in Nat /\ TypeOK /\ deps' = deps /\ handle' = handle
      /\ NoWorker \notin Workers
  BY WorkAssumption DEF WInv, TypeOK, Row, Publish, Repair
<1>2. ASSUME NEW n \in Row, rows' = Write(i, n), Settles(i, r, n, NoWorker)
      PROVE  WInv'
  <2>1. \A j \in Work : Settles(j, rows[j], rows'[j], NoWorker)
    BY <1>1, <1>2, OneRowSettles
  <2> QED  BY <1>1, <2>1, SleepStep
<1>3. CASE Publish(i)
  <2>1. PICK delay \in {0, MaxDelay} : rows' = Write(i, Published(r, delay, NoDep, 0))
    BY <1>3 DEF Publish
  <2>2. i \notin WakeItems /\ NoDep \notin Deps /\ delay \in Nat
    BY <1>3, WorkAssumption, BoundAssumption DEF Publish, DomainItems
  <2> DEFINE n == Published(r, delay, NoDep, 0)
  <2>3. n \in Row
    <3> HIDE DEF r
    <3> QED  BY <1>1, <2>2, PublishedType
  <2>4. /\ n.requested = r.requested + 1 /\ n.dep = NoDep
        /\ n.state = IF r.state = "CLAIMED" THEN "CLAIMED" ELSE "READY"
        /\ n.owner = r.owner /\ n.fence = r.fence
    <3> HIDE DEF r
    <3> QED  BY <1>1, OpenedWakes
  <2>5. Settles(i, r, n, NoWorker)
    <3> HIDE DEF n, r
    <3> QED  BY <1>1, <2>2, <2>4 DEF Settles
  <2> HIDE DEF n
  <2> QED  BY <1>2, <2>1, <2>3, <2>5 DEF n
<1>4. CASE Repair(i)
  <2> DEFINE n == Repaired(r)
  <2>1. rows' = Write(i, n) /\ r.state = "RECONCILE_REQUIRED" /\ n \in Row
    BY <1>1, <1>4, ReopenedType DEF Repair
  <2>2. /\ r.requested <= n.requested /\ n.dep = r.dep /\ n.depRev = r.depRev
        /\ n.state = "READY"
    <3> HIDE DEF r
    <3> QED  BY <1>1, OpenedWakes
  <2>3. Settles(i, r, n, NoWorker)
    <3> HIDE DEF n, r
    <3> QED  BY <2>1, <2>2 DEF Settles
  <2> QED  BY <1>2, <2>1, <2>3
<1> QED  BY <1>3, <1>4

LEMMA WakeClaim ==
  ASSUME WInv, TypeOK', NEW w \in Workers, NEW i \in Work, Claim(w, i)
  PROVE  WInv'
<1> DEFINE r == rows[i]
           m == Claimed(w, r)
           c == Stored(r, m)
           g == handle'[w]
<1>1. /\ r \in Row /\ TypeOK /\ deps' = deps /\ r.requested \in Nat
      /\ rows' = Write(i, m) /\ r.state \in {"READY", "CLAIMED"}
      /\ rows'[i] = c /\ rows' = [rows EXCEPT ![i] = c]
  BY DEF WInv, TypeOK, Row, Claim, Claimable, Write
<1>2. /\ m.requested = r.requested /\ m.dep = r.dep /\ m.depRev = r.depRev
      /\ m.state = "CLAIMED" /\ m.owner = w /\ m \in Row /\ m.claimed = r.requested
  <2>1. m.claimed = r.requested
    BY <1>1 DEF Claimed, Row
  <2>2. m \in Row
    BY <1>1, ReopenedType
  <2>3. /\ m.requested = r.requested /\ m.dep = r.dep /\ m.depRev = r.depRev
        /\ m.state = "CLAIMED" /\ m.owner = w
    BY <1>1 DEF Claimed, Row
  <2> QED  BY <2>1, <2>2, <2>3
<1>3. Settles(i, r, m, w)
  <2> HIDE DEF m, r
  <2> QED  BY <1>1, <1>2 DEF Settles
<1>4. \A j \in Work : Settles(j, rows[j], rows'[j], w)
  <2> HIDE DEF m
  <2> QED  BY <1>1, <1>2, <1>3, OneRowSettles
<1>5. \A v \in Workers : v # w => handle'[v] = handle[v]
  BY DEF Claim, WInv, TypeOK
<1>6. /\ ~g.blocked /\ g.item = i /\ g.claimed = c.claimed /\ g.read = 0
      /\ i \in WakeItems => g.dep = c.dep /\ g.depRev = c.depRev
  BY <1>1 DEF Claim, Idle, TypeOK
<1>7. WakeHandle(w, handle[w])'
  <2> SUFFICES ASSUME NEW d \in Deps, i = WakeOf[d], Owns(w, g, c)
               PROVE  /\ g.claimed = c.requested
                      /\ g.dep = d /\ g.depRev = deps[d] /\ g.read = 0
    <3>1. c.requested \in Nat /\ 0 \in Nat
      <4>1. c \in Row
        BY <1>1, <1>2, StoredType DEF WInv, TypeOK
      <4> QED  BY <4>1, RowTypes
    <3> HIDE DEF c
    <3> QED  BY <1>1, <1>6, <3>1 DEF WakeHandle
  <2>1. i \in WakeItems /\ WakeRow(d)
    BY DEF WakeItems, WInv
  <2>2. /\ c.dep = m.dep /\ c.depRev = m.depRev
        /\ \/ c.claimed = m.claimed /\ c.requested = m.requested
           \/ c.state # "CLAIMED"
    <3> HIDE DEF m, r
    <3> QED  BY <1>1, <1>2, StoredShape
  <2>3. r.dep = d /\ r.depRev = deps[d]
    BY <1>1, <2>1 DEF WakeRow
  <2> HIDE DEF c, m, r, g
  <2> QED  BY <1>2, <1>6, <2>1, <2>2, <2>3 DEF Owns
<1> HIDE DEF g
<1> QED  BY <1>1, <1>4, <1>5, <1>7, SleepStep

LEMMA WakeBatch ==
  ASSUME WInv, TypeOK', NEW w \in Workers, Wake(w)
  PROVE  WInv'
<1> DEFINE h == handle[w]
           g == handle'[w]
<1>1. PICK batch \in SUBSET Asleep(rows, h.dep, h.depRev) :
        rows' = [i \in Work |-> IF i \in batch
                   THEN Stored(rows[i], Woken(rows[i])) ELSE rows[i]]
  BY DEF Wake
<1>2. /\ TypeOK /\ deps' = deps /\ NoWorker \notin Workers
      /\ h.item \in WakeItems /\ h.item \in Work
      /\ \A v \in Workers : v # w => handle'[v] = handle[v]
  BY WorkAssumption DEF Wake, WInv, TypeOK, Handle
<1>3. ASSUME NEW i \in Work
      PROVE  /\ Settles(i, rows[i], rows'[i], NoWorker)
             /\ rows[i].state # "BLOCKED" => rows'[i] = rows[i]
  <2>1. rows[i] \in Row
    BY <1>2 DEF TypeOK
  <2>2. CASE i \notin batch
    BY <1>1, <2>1, <2>2, SettlesItself
  <2>3. CASE i \in batch
    <3> DEFINE r == rows[i]
               n == Woken(r)
    <3>1. r.state = "BLOCKED" /\ rows'[i] = Stored(r, n) /\ n \in Row
      BY <1>1, <2>1, <2>3, ReopenedType DEF Asleep
    <3>2. r.requested <= n.requested /\ n.dep = r.dep /\ n.depRev = r.depRev /\ n.state = "READY"
      <4> HIDE DEF r
      <4> QED  BY <2>1, OpenedWakes DEF r
    <3>3. Settles(i, r, n, NoWorker)
      <4> HIDE DEF r, n
      <4> QED  BY <3>1, <3>2 DEF Settles
    <3> HIDE DEF n
    <3> QED  BY <2>1, <3>1, <3>3, StoredSettles
  <2> QED  BY <2>2, <2>3
<1>4. /\ ~g.blocked \/ h.blocked
      /\ g.item = h.item /\ g.fence = h.fence /\ g.claimed = h.claimed
      /\ g.busy = h.busy /\ g.dep = h.dep /\ g.depRev = h.depRev /\ g.read = 1
      /\ g.blocked = h.blocked
      /\ g.remaining = (Asleep(rows', h.dep, h.depRev) # {})
  BY DEF Wake, WInv, TypeOK, Handle
<1>5. rows'[h.item] = rows[h.item]
  <2>1. PICK d \in Deps : h.item = WakeOf[d]
    BY <1>2 DEF WakeItems
  <2>2. WakeRow(d)
    BY DEF WInv
  <2> QED  BY <1>2, <1>3, <2>1, <2>2 DEF WakeRow
<1>6. WakeHandle(w, handle[w])'
  <2>1. WakeHandle(w, h)
    BY DEF WInv
  <2> SUFFICES ASSUME NEW d \in Deps, h.busy, h.item = WakeOf[d],
                      Owns(w, h, rows[h.item])
               PROVE  /\ h.claimed <= rows[h.item].requested
                      /\ h.claimed = rows[h.item].requested =>
                           /\ h.dep = d /\ h.depRev = deps[d]
                           /\ ~g.remaining => Asleep(rows', d, deps[d]) = {}
    <3> HIDE DEF g
    <3> QED  BY <1>2, <1>4, <1>5, <2>1 DEF WakeHandle, Owns, g
  <2>2. /\ h.claimed <= rows[h.item].requested
        /\ h.claimed = rows[h.item].requested => h.dep = d /\ h.depRev = deps[d]
    BY <2>1 DEF WakeHandle
  <2> QED  BY <1>4, <2>2
<1> HIDE DEF g
<1>7. \A v \in Workers :
        (v # NoWorker /\ handle'[v] = handle[v]) \/ WakeHandle(v, handle[v])'
  BY <1>2, <1>6
<1> QED  BY <1>2, <1>3, <1>7, SleepStep

(* Steps of an executor of a domain row, between claim and settle. *)
LEMMA WakeProgress ==
  ASSUME WInv, TypeOK', NEW w \in Workers,
         SaveProgress(w) \/ Process(w) \/ \E d \in Deps : Capture(w, d) \/ Observe(w, d)
  PROVE  WInv'
<1> DEFINE h == handle[w]
           r == rows[h.item]
           g == handle'[w]
<1>1. /\ h.item \in DomainItems /\ h.item \in Work /\ h.item \notin WakeItems
      /\ TypeOK /\ deps' = deps /\ g.item = h.item /\ r \in Row
      /\ \A v \in Workers : v # w => handle'[v] = handle[v]
      /\ NoWorker \notin Workers
  <2>1. h.item \in DomainItems
    BY WorkAssumption DEF SaveProgress, Process, Capture, Observe
  <2>2. handle \in [Workers -> Handle] /\ rows \in [Work -> Row] /\ TypeOK
    BY DEF WInv, TypeOK
  <2>3. h \in Handle /\ r \in Row /\ h.item \in Work /\ h.item \notin WakeItems
    BY <2>1, <2>2 DEF DomainItems
  <2>4. deps' = deps
    BY DEF SaveProgress, Process, Capture, Observe
  <2>5. g.item = h.item /\ \A v \in Workers : v # w => handle'[v] = handle[v]
    <3>1. CASE SaveProgress(w)
      BY <2>2, <2>3, <3>1 DEF SaveProgress, Handle
    <3>2. CASE Process(w)
      BY <2>2, <2>3, <3>2 DEF Process, Handle
    <3>3. CASE \E d \in Deps : Capture(w, d) \/ Observe(w, d)
      BY <2>2, <2>3, <3>3 DEF Capture, Observe, Handle
    <3> QED  BY <3>1, <3>2, <3>3
  <2> QED  BY <2>1, <2>2, <2>3, <2>4, <2>5, WorkAssumption
<1>2. WakeHandle(w, handle[w])'
  <2> HIDE DEF g
  <2> QED  BY <1>1 DEF WakeHandle, WakeItems, g
<1>3. \A v \in Workers :
        (v # NoWorker /\ handle'[v] = handle[v]) \/ WakeHandle(v, handle[v])'
  BY <1>1, <1>2
<1>4. \A i \in Work : Settles(i, rows[i], rows'[i], NoWorker)
  <2>1. CASE SaveProgress(w)
    <3> DEFINE n == Saved(h, r)
    <3>1. /\ rows' = Write(h.item, n) /\ ~Finished(h) /\ r.state = "CLAIMED"
          /\ h \in Handle /\ r.requested \in Nat
      <4>1. h \in Handle /\ r.requested \in Nat
        BY <1>1 DEF TypeOK, Row
      <4> QED  BY <2>1, <4>1 DEF SaveProgress, Holds
    <3>2. n \in Row
      <4>1. 0 \in Nat /\ "other" \in {"contract", "database", "other"}
        OBVIOUS
      <4> HIDE DEF h, r
      <4> QED  BY <1>1, <3>1, <4>1, SettledType
    <3>3. Keeps(r, n) /\ n.state # "DONE"
      <4> HIDE DEF h, r
      <4> QED  BY <1>1, <3>1, SavedWakes
    <3>4. Settles(h.item, r, n, NoWorker)
      <4> HIDE DEF h, r, n
      <4> QED  BY <1>1, <3>1, <3>3 DEF Keeps, Settles
    <3> HIDE DEF n
    <3> QED  BY <1>1, <3>1, <3>2, <3>4, OneRowSettles
  <2>2. CASE ~SaveProgress(w)
    <3>1. rows' = rows
      BY <2>2 DEF Process, Capture, Observe
    <3> QED  BY <1>1, <3>1, SettlesItself DEF TypeOK
  <2> QED  BY <2>1, <2>2
<1> QED  BY <1>1, <1>3, <1>4, SleepStep

LEMMA WakeQuiet ==
  ASSUME WInv, TypeOK',
         \/ Tick \/ Activate \/ UNCHANGED vars
         \/ \E w \in Workers : LoseClaim(w) \/ Crash(w)
  PROVE  WInv'
<1>1. /\ TypeOK /\ deps' = deps /\ NoWorker \notin Workers
      /\ \A v \in Workers : handle'[v] = handle[v] \/ handle'[v] = Idle
      /\ rows' = rows \/ rows' = [i \in Work |-> Aged(rows[i])]
  BY WorkAssumption DEF Tick, Activate, vars, LoseClaim, Crash, WInv, TypeOK
<1>2. \A v \in Workers :
        (v # NoWorker /\ handle'[v] = handle[v]) \/ WakeHandle(v, handle[v])'
  BY <1>1, IdleWakes DEF WakeHandle
<1>3. ASSUME NEW i \in Work PROVE Settles(i, rows[i], rows'[i], NoWorker)
  <2>1. rows[i] \in Row /\ rows[i].requested \in Nat
    BY <1>1 DEF TypeOK, Row
  <2>2. CASE rows' = rows
    BY <2>1, <2>2, SettlesItself
  <2>3. CASE rows' = [j \in Work |-> Aged(rows[j])]
    <3>1. rows'[i] = Aged(rows[i])
      BY <2>3
    <3> QED  BY <2>1, <3>1, OpenedWakes DEF Settles
  <2> QED  BY <1>1, <2>2, <2>3
<1> QED  BY <1>1, <1>2, <1>3, SleepStep

LEMMA WakeInvariant == Spec => []WInv
<1>1. Init => WInv
  <2> SUFFICES ASSUME Init PROVE WInv
    OBVIOUS
  <2>1. TypeOK
    BY AbsentType, IdleType DEF Init, TypeOK
  <2>2. ASSUME NEW d \in Deps PROVE WakeRow(d)
    <3>1. WakeOf[d] \in Work
      BY WorkAssumption
    <3>2. \A i \in Work : rows[i].state = "ABSENT"
      BY DEF Init, Absent
    <3> QED  BY <3>1, <3>2 DEF WakeRow, Asleep, Init
  <2>3. \A w \in Workers : WakeHandle(w, handle[w])
    BY IdleWakes DEF Init
  <2> QED  BY <2>1, <2>2, <2>3 DEF WInv
<1>2. WInv /\ [Next]_vars => WInv'
  <2> SUFFICES ASSUME WInv, [Next]_vars PROVE WInv'
    OBVIOUS
  <2>1. TypeOK'
    BY TypeStep DEF WInv
  <2> QED
    BY <2>1, WakeBump, WakeSettles, WakeOpen, WakeClaim, WakeBatch, WakeProgress,
       WakeQuiet DEF Next, Execute
<1> QED  BY <1>1, <1>2, PTL DEF Spec

(* Whoever sleeps on a revision that its dependency has left behind is     *)
(* within reach of a wake row that is still to be executed, whatever races *)
(* the wake: claims that lapse, rows it skips, rows that go to sleep while *)
(* it runs, new changes, and the hand-over of generations.                 *)
THEOREM WakesKept == Spec => []NoLostWake
<1>1. WInv => NoLostWake
  BY DEF WInv, WakeRow, NoLostWake, Outstanding
<1> QED  BY <1>1, WakeInvariant, PTL

-----------------------------------------------------------------------------
(* Sleep.  Executors read the revision of the dependency before they look  *)
(* at it, and no generation is activated: then what a row sleeps on, or is *)
(* parked for, is what was claimed, and it was looked at since.            *)
Rests(r) ==
  /\ r.claimed <= r.requested
  /\ r.state = "BLOCKED" =>
       /\ r.dep \in Deps /\ r.claimed = r.requested /\ r.depRev <= deps[r.dep]
       /\ open[r.dep] => r.depRev < deps[r.dep]
  /\ r.state = "RECONCILE_REQUIRED" => r.failRev = r.requested

Current(r) == r.state # "ABSENT" => r.gen = generation

Looked(h) ==
  /\ h.blocked => h.item \in DomainItems
  /\ h.item \in DomainItems /\ h.dep \in Deps =>
       /\ h.depRev \in 0..deps[h.dep]
       /\ h.blocked /\ open[h.dep] => h.depRev < deps[h.dep]

SInv ==
  /\ TypeOK /\ generation = 1
  /\ \A i \in Work : Rests(rows[i]) /\ Current(rows[i])
  /\ \A w \in Workers : Looked(handle[w])

(* A row that is neither asleep nor parked. *)
Awake(r, n) ==
  /\ n.claimed <= n.requested /\ n.gen = r.gen
  /\ n.state \notin {"BLOCKED", "RECONCILE_REQUIRED"}

LEMMA IdleLooked == Looked(Idle) /\ Looked(Idle)'
BY WorkAssumption DEF Looked, Idle

LEMMA SleepTypes ==
  ASSUME NEW r \in Row
  PROVE  /\ r.claimed \in Nat /\ r.requested \in Nat /\ r.depRev \in Nat
         /\ r.failRev \in Nat
BY DEF Row

LEMMA SleepWrite ==
  ASSUME SInv, TypeOK', deps' = deps, open' = open, generation' = generation,
         NEW i \in Work, NEW n \in Row, rows' = Write(i, n),
         n.gen = rows[i].gen, Rests(n),
         \A v \in Workers : handle'[v] = handle[v] \/ Looked(handle[v])'
  PROVE  SInv'
<1> DEFINE r == rows[i]
           m == Stored(r, n)
<1>1. /\ r \in Row /\ rows'[i] = m /\ Current(r)
      /\ \A j \in Work : j # i => rows'[j] = rows[j]
  BY DEF SInv, TypeOK, Write
<1>2. m = n \/ m = [n EXCEPT !.gen = generation]
  BY <1>1 DEF Stored, Current
<1>3. m.gen = generation
  BY <1>1 DEF Stored, Current, Row
<1>4. /\ m.claimed = n.claimed /\ m.requested = n.requested /\ m.state = n.state
      /\ m.dep = n.dep /\ m.depRev = n.depRev /\ m.failRev = n.failRev
  <2> HIDE DEF m
  <2> QED  BY <1>2 DEF Row
<1>5. \A j \in Work : (Rests(rows[j]) /\ Current(rows[j]))'
  <2> TAKE j \in Work
  <2>1. CASE j = i
    <3> HIDE DEF m
    <3> QED  BY <1>1, <1>3, <1>4, <2>1 DEF Rests, Current
  <2>2. CASE j # i
    BY <1>1, <2>2 DEF Rests, Current, SInv
  <2> QED  BY <2>1, <2>2
<1>6. \A v \in Workers : Looked(handle[v])'
  BY DEF Looked, SInv
<1> QED  BY <1>5, <1>6 DEF SInv

LEMMA PublishedAwake ==
  ASSUME NEW r \in Row, r.claimed <= r.requested, NEW delay, NEW d, NEW dRev
  PROVE  Awake(r, Published(r, delay, d, dRev))
<1>1. LET n == Published(r, delay, d, dRev)
      IN /\ n.claimed = r.claimed /\ n.requested = r.requested + 1 /\ n.gen = r.gen
         /\ n.state \in {"CLAIMED", "READY"}
  BY DEF Published, Row
<1> QED  BY <1>1, SleepTypes DEF Awake

LEMMA RepairedAwake ==
  ASSUME NEW r \in Row, r.claimed <= r.requested
  PROVE  Awake(r, Repaired(r))
<1>1. LET n == Repaired(r)
      IN /\ n.claimed = r.claimed /\ n.requested = r.requested + 1 /\ n.gen = r.gen
         /\ n.state = "READY"
  BY DEF Repaired, Released, Row
<1> QED  BY <1>1, SleepTypes DEF Awake

LEMMA WokenAwake ==
  ASSUME NEW r \in Row, r.claimed <= r.requested
  PROVE  Awake(r, Woken(r))
<1>1. LET n == Woken(r)
      IN /\ n.claimed = r.claimed /\ n.requested = r.requested /\ n.gen = r.gen
         /\ n.state = "READY"
  BY DEF Woken, Row
<1> QED  BY <1>1 DEF Awake

LEMMA ClaimedAwake ==
  ASSUME NEW r \in Row, NEW w
  PROVE  Awake(r, Claimed(w, r))
<1>1. LET n == Claimed(w, r)
      IN /\ n.claimed = r.requested /\ n.requested = r.requested /\ n.gen = r.gen
         /\ n.state = "CLAIMED"
  BY DEF Claimed, Row
<1> QED  BY <1>1, SleepTypes DEF Awake

LEMMA ExtendedAwake ==
  ASSUME NEW r \in Row, r.claimed <= r.requested, r.state = "CLAIMED"
  PROVE  Awake(r, [r EXCEPT !.lease = LeaseLen])
BY DEF Row, Awake

LEMMA AckedAwake ==
  ASSUME NEW r \in Row, r.claimed <= r.requested, NEW w, NEW h
  PROVE  Awake(r, Acked(w, h, r))
<1>1. LET n == Acked(w, h, r)
      IN /\ n.claimed = r.claimed /\ n.requested = r.requested /\ n.gen = r.gen
         /\ n.state \in {"READY", "DONE"}
  BY DEF Acked, Released, Row
<1> QED  BY <1>1 DEF Awake

LEMMA YieldedAwake ==
  ASSUME NEW r \in Row, r.claimed <= r.requested, NEW w, NEW h, NEW due
  PROVE  Awake(r, Yielded(w, h, r, due))
<1>1. LET n == Yielded(w, h, r, due)
      IN /\ n.claimed = r.claimed /\ n.requested = r.requested /\ n.gen = r.gen
         /\ n.state = "READY"
  BY DEF Yielded, Released, Row
<1> QED  BY <1>1 DEF Awake

LEMMA SavedAwake ==
  ASSUME NEW r \in Row, r.claimed <= r.requested, r.state = "CLAIMED", NEW h
  PROVE  Awake(r, Saved(h, r))
<1>1. LET n == Saved(h, r)
      IN /\ n.claimed = r.claimed /\ n.requested = r.requested /\ n.gen = r.gen
         /\ n.state = "CLAIMED"
  BY DEF Saved, Row
<1> QED  BY <1>1 DEF Awake

LEMMA FailedParks ==
  ASSUME NEW r \in Row, NEW w, NEW h, NEW kind, NEW due
  PROVE  LET n == Failed(w, h, r, kind, due)
         IN /\ n.claimed = r.claimed /\ n.requested = r.requested /\ n.gen = r.gen
            /\ \/ n.state = "READY"
               \/ n.state = "RECONCILE_REQUIRED" /\ ~Newer(w) /\ n.failRev = h.claimed
<1>1. CASE Newer(w)
  BY <1>1 DEF Failed, Released, Row
<1>2. CASE ~Newer(w) /\ Parks(h, r, kind)
  BY <1>2 DEF Failed, Released, Row
<1>3. CASE ~Newer(w) /\ ~Parks(h, r, kind)
  BY <1>3 DEF Failed, Released, Row
<1> QED  BY <1>1, <1>2, <1>3

LEMMA BlockedSleeps ==
  ASSUME NEW r \in Row, NEW w, NEW h
  PROVE  LET n == Blocked(w, h, r)
         IN /\ n.claimed = r.claimed /\ n.requested = r.requested /\ n.gen = r.gen
            /\ n.dep = h.dep /\ n.depRev = deps[h.dep]
            /\ \/ n.state = "READY"
               \/ n.state = "BLOCKED" /\ ~Newer(w) /\ ~DependencyMoved(h)
<1>1. CASE ~DependencyMoved(h) /\ ~Newer(w)
  BY <1>1 DEF Blocked, Released, Row
<1>2. CASE DependencyMoved(h) \/ Newer(w)
  BY <1>2 DEF Blocked, Released, Row
<1> QED  BY <1>1, <1>2

(* A row that stays awake is written. *)
LEMMA AwakeWrite ==
  ASSUME SInv, TypeOK', deps' = deps, open' = open, generation' = generation,
         NEW i \in Work, NEW n \in Row, rows' = Write(i, n), Awake(rows[i], n),
         \A v \in Workers : handle'[v] = handle[v] \/ Looked(handle[v])'
  PROVE  SInv'
<1>1. n.gen = rows[i].gen /\ Rests(n)
  BY DEF Awake, Rests
<1> QED  BY <1>1, SleepWrite

LEMMA SleepOpen ==
  ASSUME SInv, TypeOK', NEW i \in Work, Publish(i) \/ Repair(i)
  PROVE  SInv'
<1> DEFINE r == rows[i]
<1>1. /\ r \in Row /\ r.claimed <= r.requested /\ deps' = deps /\ open' = open
      /\ generation' = generation /\ handle' = handle
  BY DEF SInv, TypeOK, Rests, Publish, Repair
<1>2. CASE Publish(i)
  <2>1. PICK delay \in {0, MaxDelay} : rows' = Write(i, Published(r, delay, NoDep, 0))
    BY <1>2 DEF Publish
  <2> DEFINE n == Published(r, delay, NoDep, 0)
  <2>2. delay \in Nat
    BY BoundAssumption
  <2>3. n \in Row /\ Awake(r, n)
    <3> HIDE DEF r
    <3> QED  BY <1>1, <2>2, PublishedType, PublishedAwake
  <2> HIDE DEF n
  <2> QED  BY <1>1, <2>1, <2>3, AwakeWrite DEF n
<1>3. CASE Repair(i)
  <2> DEFINE n == Repaired(r)
  <2>1. n \in Row /\ Awake(r, n)
    <3> HIDE DEF r
    <3> QED  BY <1>1, ReopenedType, RepairedAwake
  <2>2. rows' = Write(i, n)
    BY <1>3 DEF Repair
  <2> HIDE DEF n
  <2> QED  BY <1>1, <2>1, <2>2, AwakeWrite
<1> QED  BY <1>2, <1>3

(* The dependency changes: who sleeps on it now sleeps on an old revision. *)
LEMMA SleepBump ==
  ASSUME SInv, TypeOK', NEW d \in Deps, Bump(d)
  PROVE  SInv'
<1> DEFINE i == WakeOf[d]
           r == rows[i]
           n == Published(r, 0, d, deps[d] + 1)
           m == Stored(r, n)
<1>1. /\ i \in Work /\ r \in Row /\ deps \in [Deps -> Nat] /\ Current(r)
      /\ r.claimed <= r.requested /\ generation \in Nat
      /\ deps' = [deps EXCEPT ![d] = deps[d] + 1] /\ handle' = handle
      /\ generation' = generation /\ open' \in [Deps -> BOOLEAN]
      /\ \A e \in Deps : e # d => open'[e] = open[e]
      /\ rows'[i] = m /\ \A j \in Work : j # i => rows'[j] = rows[j]
  BY WorkAssumption DEF Bump, Write, SInv, TypeOK, Rests
<1>2. n \in Row /\ Awake(r, n)
  <2> HIDE DEF r
  <2> QED  BY <1>1, PublishedType, PublishedAwake
<1>3. m = n \/ m = [n EXCEPT !.gen = generation]
  BY <1>1 DEF Stored, Current
<1>4. m.gen = generation
  <2> HIDE DEF n, r
  <2> QED  BY <1>1, <1>2 DEF Stored, Current, Awake, Row
<1>5. /\ m.claimed <= m.requested
      /\ m.state \notin {"BLOCKED", "RECONCILE_REQUIRED"}
  <2> HIDE DEF n, m, r
  <2> QED  BY <1>2, <1>3 DEF Row, Awake
<1>6. ASSUME NEW j \in Work PROVE (Rests(rows[j]) /\ Current(rows[j]))'
  <2>1. CASE j = i
    <3> HIDE DEF m
    <3> QED  BY <1>1, <1>4, <1>5, <2>1 DEF Rests, Current
  <2>2. CASE j # i
    <3> DEFINE o == rows[j]
    <3>1. rows'[j] = o /\ Rests(o) /\ Current(o) /\ o \in Row
      BY <1>1, <2>2 DEF SInv, TypeOK
    <3>2. o.depRev \in Nat
      BY <3>1, SleepTypes
    <3>3. o.state = "BLOCKED" =>
            /\ o.depRev <= deps'[o.dep]
            /\ open'[o.dep] => o.depRev < deps'[o.dep]
      <4> SUFFICES ASSUME o.state = "BLOCKED"
                   PROVE  /\ o.depRev <= deps'[o.dep]
                          /\ open'[o.dep] => o.depRev < deps'[o.dep]
        OBVIOUS
      <4> HIDE DEF o
      <4>1. o.dep \in Deps /\ o.depRev <= deps[o.dep] /\ deps[o.dep] \in Nat
            /\ (open[o.dep] => o.depRev < deps[o.dep])
        BY <1>1, <3>1 DEF Rests
      <4>2. CASE o.dep = d
        <5>1. deps'[o.dep] = deps[o.dep] + 1
          BY <1>1, <4>2
        <5> QED  BY <3>2, <4>1, <5>1
      <4>3. CASE o.dep # d
        <5>1. deps'[o.dep] = deps[o.dep] /\ open'[o.dep] = open[o.dep]
          BY <1>1, <4>1, <4>3
        <5> QED  BY <4>1, <5>1
      <4> QED  BY <4>2, <4>3
    <3> HIDE DEF o
    <3>4. Rests(o)' /\ Current(o)'
      <4> QED  BY <1>1, <3>1, <3>3 DEF Rests, Current, o
    <3> QED  BY <3>1, <3>4 DEF o
  <2> QED  BY <2>1, <2>2
<1>7. ASSUME NEW v \in Workers PROVE Looked(handle[v])'
  <2> DEFINE h == handle[v]
  <2>1. Looked(h) /\ handle'[v] = h
    BY <1>1 DEF SInv
  <2> HIDE DEF h
  <2>2. ASSUME h.item \in DomainItems, h.dep \in Deps
        PROVE  /\ h.depRev \in 0..deps'[h.dep]
               /\ h.blocked /\ open'[h.dep] => h.depRev < deps'[h.dep]
    <3>1. /\ h.depRev \in 0..deps[h.dep] /\ deps[h.dep] \in Nat
          /\ h.blocked /\ open[h.dep] => h.depRev < deps[h.dep]
      BY <1>1, <2>1, <2>2 DEF Looked
    <3>2. CASE h.dep = d
      <4>1. deps'[h.dep] = deps[h.dep] + 1
        BY <1>1, <3>2
      <4> QED  BY <3>1, <4>1
    <3>3. CASE h.dep # d
      <4>1. deps'[h.dep] = deps[h.dep] /\ open'[h.dep] = open[h.dep]
        BY <1>1, <2>2, <3>3
      <4> QED  BY <3>1, <4>1
    <3> QED  BY <3>2, <3>3
  <2> QED  BY <2>1, <2>2 DEF Looked, h
<1> QED  BY <1>1, <1>6, <1>7 DEF SInv

LEMMA SleepClaim ==
  ASSUME SInv, TypeOK', NEW w \in Workers, NEW i \in Work, Claim(w, i)
  PROVE  SInv'
<1> DEFINE r == rows[i]
           n == Claimed(w, r)
<1>1. /\ r \in Row /\ deps' = deps /\ open' = open /\ generation' = generation
      /\ rows' = Write(i, n)
  BY DEF SInv, TypeOK, Claim, Write
<1>2. n \in Row /\ Awake(r, n)
  <2> HIDE DEF r
  <2> QED  BY <1>1, ReopenedType, ClaimedAwake
<1>3. \A v \in Workers : v # w => handle'[v] = handle[v]
  BY DEF Claim, SInv, TypeOK
<1>4. Looked(handle[w])'
  <2>1. /\ handle'[w].item = i /\ ~handle'[w].blocked
        /\ i \notin WakeItems => handle'[w].dep = NoDep
    BY DEF Claim, SInv, TypeOK, Idle
  <2> QED  BY <2>1, WorkAssumption DEF Looked, DomainItems
<1> HIDE DEF n
<1> QED  BY <1>1, <1>2, <1>3, <1>4, AwakeWrite

LEMMA SleepBatch ==
  ASSUME SInv, TypeOK', NEW w \in Workers, Wake(w)
  PROVE  SInv'
<1> DEFINE h == handle[w]
<1>1. PICK batch \in SUBSET Work :
        rows' = [i \in Work |-> IF i \in batch
                   THEN Stored(rows[i], Woken(rows[i])) ELSE rows[i]]
  BY DEF Wake, Asleep
<1>2. /\ deps' = deps /\ open' = open /\ generation' = generation
      /\ h.item \notin DomainItems
  BY DEF Wake, DomainItems
<1>3. ASSUME NEW i \in Work PROVE (Rests(rows[i]) /\ Current(rows[i]))'
  <2> DEFINE r == rows[i]
             n == Woken(r)
             m == Stored(r, n)
  <2>1. /\ r \in Row /\ Rests(r) /\ Current(r) /\ r.claimed <= r.requested
        /\ rows'[i] = IF i \in batch THEN m ELSE r
    BY <1>1 DEF SInv, TypeOK, Rests
  <2>2. n \in Row /\ Awake(r, n)
    <3> HIDE DEF r
    <3> QED  BY <2>1, ReopenedType, WokenAwake
  <2>3. m = n \/ m = [n EXCEPT !.gen = generation]
    BY <2>1 DEF Stored, Current
  <2>4. m.gen = generation
    <3> HIDE DEF n, r
    <3> QED  BY <2>1, <2>2 DEF Stored, Current, Awake, Row
  <2>5. /\ m.claimed <= m.requested
        /\ m.state \notin {"BLOCKED", "RECONCILE_REQUIRED"}
    <3> HIDE DEF n, m, r
    <3> QED  BY <2>2, <2>3 DEF Row, Awake
  <2> HIDE DEF m, r
  <2> QED  BY <1>2, <2>1, <2>4, <2>5 DEF Rests, Current, r
<1>4. ASSUME NEW v \in Workers PROVE Looked(handle[v])'
  <2>1. handle'[v].item = handle[v].item /\ handle'[v].blocked = handle[v].blocked
        /\ (v # w => handle'[v] = handle[v])
    BY DEF Wake, SInv, TypeOK, Handle
  <2> QED  BY <1>2, <2>1 DEF Looked, SInv
<1> QED  BY <1>2, <1>3, <1>4 DEF SInv


LEMMA SleepSettles ==
  ASSUME SInv, TypeOK', NEW w \in Workers,
         \/ Ack(w) \/ Yield(w) \/ Block(w) \/ Heartbeat(w) \/ SaveProgress(w)
         \/ \E kind \in FailureKinds : Fail(w, kind)
  PROVE  SInv'
<1> DEFINE h == handle[w]
           r == rows[h.item]
<1>1. /\ h \in Handle /\ r \in Row /\ h.item \in Work /\ r.claimed <= r.requested
      /\ r.state = "CLAIMED" /\ r.claimed = h.claimed /\ Looked(h)
      /\ r.claimed \in Nat /\ r.requested \in Nat
  BY DEF Ack, Yield, Block, Heartbeat, SaveProgress, Fail, Holds, SInv, TypeOK,
         Handle, Row, Rests
<1>2. deps' = deps /\ open' = open /\ generation' = generation
  BY DEF Ack, Yield, Block, Heartbeat, SaveProgress, Fail
<1>3. \A v \in Workers : handle'[v] = handle[v] \/ Looked(handle[v])'
  <2>1. CASE SaveProgress(w)
    <3>1. /\ handle'[w].item = h.item /\ handle'[w].dep = h.dep
          /\ handle'[w].depRev = h.depRev /\ handle'[w].blocked = h.blocked
          /\ \A v \in Workers : v # w => handle'[v] = handle[v]
      BY <2>1 DEF SaveProgress, SInv, TypeOK, Handle
    <3>2. Looked(handle[w])'
      BY <1>1, <1>2, <3>1 DEF Looked
    <3> QED  BY <3>1, <3>2
  <2>2. CASE ~SaveProgress(w)
    <3>1. handle' = handle \/ handle' = [handle EXCEPT ![w] = Idle]
      BY <2>2 DEF Ack, Yield, Block, Heartbeat, Fail
    <3>2. \A v \in Workers : handle'[v] = handle[v] \/ handle'[v] = Idle
      BY <3>1 DEF SInv, TypeOK
    <3> QED  BY <3>2, IdleLooked DEF Looked
  <2> QED  BY <2>1, <2>2
<1>4. ASSUME NEW n \in Row, rows' = Write(h.item, n), Awake(r, n)
      PROVE  SInv'
  BY <1>1, <1>2, <1>3, <1>4, AwakeWrite
<1>5. ~Newer(w) => r.claimed = r.requested
  <2>1. ~Newer(w) => ~(r.requested > h.claimed)
    BY DEF Newer
  <2> HIDE DEF r, h
  <2> QED  BY <1>1, <2>1
<1>6. CASE Ack(w)
  <2> DEFINE n == Acked(w, h, r)
  <2>1. n \in Row /\ Awake(r, n)
    <3>1. 0 \in Nat /\ "other" \in {"contract", "database", "other"}
      OBVIOUS
    <3> HIDE DEF h, r
    <3> QED  BY <1>1, <3>1, SettledType, AckedAwake
  <2>2. rows' = Write(h.item, n)
    BY <1>6 DEF Ack
  <2> HIDE DEF n
  <2> QED  BY <1>4, <2>1, <2>2
<1>7. CASE Yield(w)
  <2>1. PICK due \in {0, MaxDelay} : rows' = Write(h.item, Yielded(w, h, r, due))
    BY <1>7 DEF Yield
  <2>2. ~Finished(h) /\ due \in Nat
    BY <1>7, BoundAssumption DEF Yield
  <2> DEFINE n == Yielded(w, h, r, due)
  <2>3. n \in Row /\ Awake(r, n)
    <3> HIDE DEF h, r
    <3> QED  BY <1>1, <2>2, SettledType, YieldedAwake
  <2> HIDE DEF n
  <2> QED  BY <1>4, <2>1, <2>3 DEF n
<1>8. CASE SaveProgress(w)
  <2> DEFINE n == Saved(h, r)
  <2>1. ~Finished(h) /\ rows' = Write(h.item, n) /\ h.item \notin WakeItems
    BY <1>8, WorkAssumption DEF SaveProgress, DomainItems
  <2>2. n \in Row /\ Awake(r, n)
    <3>1. 0 \in Nat /\ "other" \in {"contract", "database", "other"}
      OBVIOUS
    <3> HIDE DEF h, r
    <3> QED  BY <1>1, <2>1, <3>1, SettledType, SavedAwake
  <2> HIDE DEF n
  <2> QED  BY <1>4, <2>1, <2>2
<1>9. CASE Heartbeat(w)
  <2> DEFINE n == [r EXCEPT !.lease = LeaseLen]
  <2>1. rows' = Write(h.item, n)
    BY <1>9 DEF Heartbeat
  <2>2. n \in Row /\ Awake(r, n)
    <3> HIDE DEF h, r
    <3> QED  BY <1>1, ReopenedType, ExtendedAwake
  <2> HIDE DEF n
  <2> QED  BY <1>4, <2>1, <2>2
<1>10. ASSUME NEW kind \in FailureKinds, Fail(w, kind) PROVE SInv'
  <2>1. PICK due \in 1..MaxDelay : rows' = Write(h.item, Failed(w, h, r, kind, due))
    BY <1>10 DEF Fail
  <2>2. due \in Nat /\ kind \in {"contract", "database", "other"}
    BY <1>10, WorkAssumption, BoundAssumption
  <2> DEFINE n == Failed(w, h, r, kind, due)
  <2>3. n \in Row
    <3> HIDE DEF h, r
    <3> QED  BY <1>1, <2>2, SettledType
  <2>4. /\ n.claimed = r.claimed /\ n.requested = r.requested /\ n.gen = r.gen
        /\ \/ n.state = "READY"
           \/ n.state = "RECONCILE_REQUIRED" /\ ~Newer(w) /\ n.failRev = h.claimed
    <3> HIDE DEF h, r
    <3> QED  BY <1>1, FailedParks
  <2>5. Rests(n) /\ n.gen = r.gen
    <3> HIDE DEF h, r, n
    <3> QED  BY <1>1, <1>5, <2>4 DEF Rests
  <2> HIDE DEF n
  <2> QED  BY <1>1, <1>2, <1>3, <2>1, <2>3, <2>5, SleepWrite DEF n
<1>11. CASE Block(w)
  <2> DEFINE n == Blocked(w, h, r)
  <2>1. /\ rows' = Write(h.item, n) /\ h.dep \in Deps /\ h.blocked
        /\ deps \in [Deps -> Nat]
    BY <1>1, <1>11 DEF Block, SInv, TypeOK
  <2>2. n \in Row
    <3> HIDE DEF h, r
    <3> QED  BY <1>1, <2>1, BlockedType
  <2>3. /\ n.claimed = r.claimed /\ n.requested = r.requested /\ n.gen = r.gen
        /\ n.dep = h.dep /\ n.depRev = deps[h.dep]
        /\ \/ n.state = "READY"
           \/ n.state = "BLOCKED" /\ ~Newer(w) /\ ~DependencyMoved(h)
    <3> HIDE DEF h, r
    <3> QED  BY <1>1, BlockedSleeps
  <2>4. ~DependencyMoved(h) => ~open[h.dep]
    <3> HIDE DEF h, r
    <3>1. /\ h.depRev \in 0..deps[h.dep] /\ deps[h.dep] \in Nat
          /\ open[h.dep] => h.depRev < deps[h.dep]
      BY <1>1, <2>1 DEF Looked
    <3> QED  BY <3>1 DEF DependencyMoved
  <2>5. Rests(n) /\ n.gen = r.gen
    <3>1. deps[h.dep] \in Nat
      BY <2>1
    <3> HIDE DEF h, r, n
    <3> QED  BY <1>1, <1>5, <2>1, <2>3, <2>4, <3>1 DEF Rests
  <2> HIDE DEF n
  <2> QED  BY <1>1, <1>2, <1>3, <2>1, <2>2, <2>5, SleepWrite
<1> QED  BY <1>6, <1>7, <1>8, <1>9, <1>10, <1>11

(* The revision is read first, then the dependency is looked at. *)
LEMMA SleepLook ==
  ASSUME EarlyReaders = DomainItems, SInv, TypeOK', NEW w \in Workers,
         Process(w) \/ \E d \in Deps : Capture(w, d) \/ Observe(w, d)
  PROVE  SInv'
<1> DEFINE h == handle[w]
           g == handle'[w]
<1>1. /\ rows' = rows /\ deps' = deps /\ open' = open /\ generation' = generation
      /\ \A v \in Workers : v # w => handle'[v] = handle[v]
      /\ h.item \in DomainItems /\ Looked(h) /\ deps \in [Deps -> Nat]
  BY DEF Process, Capture, Observe, SInv, TypeOK
<1>2. Looked(handle[w])'
  <2>1. CASE Process(w)
    <3>1. g.item = h.item /\ g.dep = NoDep /\ ~g.blocked
      BY <2>1 DEF Process, SInv, TypeOK, Handle
    <3> QED  BY <1>1, <3>1, WorkAssumption DEF Looked
  <2>2. ASSUME NEW d \in Deps, Capture(w, d) PROVE Looked(handle[w])'
    <3>1. g = [h EXCEPT !.dep = d, !.depRev = deps[d]] /\ h \in Handle /\ ~h.blocked
      BY <1>1, <2>2 DEF Capture, SInv, TypeOK
    <3>2. g.item = h.item /\ g.dep = d /\ g.depRev = deps[d] /\ ~g.blocked
      <4> HIDE DEF g, h
      <4> QED  BY <3>1 DEF Handle
    <3> HIDE DEF g
    <3> QED  BY <1>1, <3>1, <3>2 DEF Looked, g
  <2>3. ASSUME NEW d \in Deps, Observe(w, d) PROVE Looked(handle[w])'
    <3>1. /\ g = [h EXCEPT !.dep = d, !.blocked = TRUE] /\ h \in Handle
          /\ h.dep = d /\ ~open[d]
      BY <1>1, <2>3 DEF Observe, SInv, TypeOK
    <3>2. /\ g.item = h.item /\ g.dep = d /\ g.depRev = h.depRev
      <4> HIDE DEF g, h
      <4> QED  BY <3>1 DEF Handle
    <3> HIDE DEF g
    <3> QED  BY <1>1, <3>1, <3>2 DEF Looked, g
  <2> QED  BY <2>1, <2>2, <2>3
<1>3. \A i \in Work : (Rests(rows[i]) /\ Current(rows[i]))'
  BY <1>1 DEF Rests, Current, SInv
<1>4. \A v \in Workers : Looked(handle[v])'
  BY <1>1, <1>2 DEF Looked, SInv
<1> QED  BY <1>1, <1>3, <1>4 DEF SInv

LEMMA SleepQuiet ==
  ASSUME MaxGeneration = 1, SInv, TypeOK',
         \/ Tick \/ Activate \/ UNCHANGED vars
         \/ \E w \in Workers : LoseClaim(w) \/ Crash(w)
  PROVE  SInv'
<1>1. ~Activate
  BY DEF Activate, SInv
<1>2. /\ deps' = deps /\ open' = open /\ generation' = generation
      /\ \A v \in Workers : handle'[v] = handle[v] \/ handle'[v] = Idle
      /\ rows' = rows \/ rows' = [i \in Work |-> Aged(rows[i])]
  BY <1>1 DEF Tick, vars, LoseClaim, Crash, SInv, TypeOK
<1>3. ASSUME NEW i \in Work PROVE (Rests(rows[i]) /\ Current(rows[i]))'
  <2> DEFINE r == rows[i]
             n == rows'[i]
  <2>1. r \in Row /\ Rests(r) /\ Current(r) /\ (n = r \/ n = Aged(r))
    BY <1>2 DEF SInv, TypeOK
  <2>2. /\ n.claimed = r.claimed /\ n.requested = r.requested /\ n.state = r.state
        /\ n.dep = r.dep /\ n.depRev = r.depRev /\ n.failRev = r.failRev
        /\ n.gen = r.gen
    <3> HIDE DEF r, n
    <3> QED  BY <2>1 DEF Aged, Row
  <2> HIDE DEF n
  <2> QED  BY <1>2, <2>1, <2>2 DEF Rests, Current, n
<1>4. \A v \in Workers : Looked(handle[v])'
  BY <1>2, IdleLooked DEF Looked, SInv
<1> QED  BY <1>2, <1>3, <1>4 DEF SInv

LEMMA SleepInvariant ==
  ASSUME EarlyReaders = DomainItems, MaxGeneration = 1
  PROVE  Spec => []SInv
<1>1. Init => SInv
  <2> SUFFICES ASSUME Init PROVE SInv
    OBVIOUS
  <2>1. TypeOK
    BY AbsentType, IdleType DEF Init, TypeOK
  <2>2. \A i \in Work : Rests(rows[i]) /\ Current(rows[i])
    BY DEF Init, Absent, Rests, Current
  <2>3. \A w \in Workers : Looked(handle[w])
    BY IdleLooked DEF Init
  <2> QED  BY <2>1, <2>2, <2>3 DEF SInv, Init
<1>2. SInv /\ [Next]_vars => SInv'
  <2> SUFFICES ASSUME SInv, [Next]_vars PROVE SInv'
    OBVIOUS
  <2>1. TypeOK'
    BY TypeStep DEF SInv
  <2> QED
    BY <2>1, SleepBump, SleepSettles, SleepOpen, SleepClaim, SleepBatch, SleepLook,
       SleepQuiet DEF Next, Execute
<1> QED  BY <1>1, <1>2, PTL DEF Spec

(* Whoever sleeps is woken: where executors read the dependency's revision *)
(* before they look at it, and while the generation stays, a row sleeps    *)
(* only on what has not happened yet or on a revision that the dependency  *)
(* left behind, with the wake row still to be executed; and neither sleep  *)
(* nor parking swallows a revision newer than the one that was claimed.    *)
THEOREM SleepersWake ==
  ASSUME EarlyReaders = DomainItems, MaxGeneration = 1
  PROVE  Spec => []SleepersAreWoken
<1>1. SInv => BlockedForCause /\ ParkedExactly
  BY DEF SInv, Rests, BlockedForCause, ParkedExactly
<1> QED  BY <1>1, SleepInvariant, WakesKept, PTL DEF SleepersAreWoken

-----------------------------------------------------------------------------
(* Generations, for executors that commit a page with the settle.  g tells *)
(* which generation wrote each page.  A cursor vouches for the pages       *)
(* before it, a row that is DONE for all, and a claim of the row's own     *)
(* generation for the pages before the one it is at.                       *)
Written(r, g) ==
  /\ \A p \in 1..r.cursor.page : g[p] = r.gen
  /\ r.state = "ABSENT" => r.cursor = NoCursor
  /\ r.state = "DONE" => \A p \in 1..Pages : g[p] = r.gen

Writes(w, h, r, g) ==
  h.busy /\ h.item \in Atomic /\ Owns(w, h, r) /\ h.gen = r.gen =>
    \A p \in 1..h.page : g[p] = h.gen

GInv ==
  /\ TypeOK
  /\ \A i \in Atomic : Written(rows[i], seenGen[i])
  /\ \A w \in Workers :
       Writes(w, handle[w], rows[handle[w].item], seenGen[handle[w].item])

(* A write passes a claim on only within its generation.                   *)
PassesOn(r, n, by) ==
  n.state = "CLAIMED" =>
    /\ n.gen = r.gen
    /\ n.owner = by \/ (r.state = "CLAIMED" /\ n.owner = r.owner /\ n.fence = r.fence)

LEMMA StoredWritten ==
  ASSUME NEW r \in Row, NEW n \in Row, NEW g, NEW by, n.gen = r.gen,
         Written(n, g), PassesOn(r, n, by), n.state # "ABSENT",
         r.state = "ABSENT" => n.cursor = NoCursor /\ n.state = "READY"
  PROVE  Written(Stored(r, n), g) /\ PassesOn(r, Stored(r, n), by)
<1> DEFINE m == Stored(r, n)
<1>1. CASE r.state = "ABSENT"
  <2>1. m.cursor = NoCursor /\ m.state = "READY"
    BY <1>1 DEF Stored, Row
  <2> HIDE DEF m
  <2>2. Written(m, g) /\ PassesOn(r, m, by)
    BY <2>1 DEF Written, PassesOn, NoCursor
  <2> QED  BY <2>2 DEF m
<1>2. CASE r.state # "ABSENT" /\ r.gen = generation
  BY <1>2 DEF Stored
<1>3. CASE r.state # "ABSENT" /\ r.gen # generation
  <2>1. m.cursor = NoCursor /\ m.state \in {"BLOCKED", "READY"}
    BY <1>3 DEF Stored, Row
  <2> HIDE DEF m
  <2>2. Written(m, g) /\ PassesOn(r, m, by)
    BY <2>1 DEF Written, PassesOn, NoCursor
  <2> QED  BY <2>2 DEF m
<1> QED  BY <1>1, <1>2, <1>3

LEMMA GenerationStep ==
  ASSUME GInv, TypeOK', NEW by,
         \A i \in Atomic : /\ Written(rows'[i], seenGen'[i])
                           /\ PassesOn(rows[i], rows'[i], by),
         \A v \in Workers :
           \/ /\ v # by /\ handle'[v] = handle[v]
              /\ handle[v].item \in Atomic /\ Owns(v, handle[v], rows[handle[v].item])
                   => seenGen'[handle[v].item] = seenGen[handle[v].item]
           \/ Writes(v, handle[v], rows[handle[v].item], seenGen[handle[v].item])'
  PROVE  GInv'
<1>1. ASSUME NEW v \in Workers
      PROVE  Writes(v, handle[v], rows[handle[v].item], seenGen[handle[v].item])'
  <2> DEFINE h == handle[v]
             i == h.item
  <2> SUFFICES ASSUME v # by, handle'[v] = h,
                      i \in Atomic /\ Owns(v, h, rows[i]) => seenGen'[i] = seenGen[i],
                      h.busy, i \in Atomic, Owns(v, h, rows'[i]), h.gen = rows'[i].gen
               PROVE  \A p \in 1..h.page : seenGen'[i][p] = h.gen
    BY DEF Writes
  <2>1. Writes(v, h, rows[i], seenGen[i]) /\ PassesOn(rows[i], rows'[i], by)
    BY DEF GInv
  <2>2. Owns(v, h, rows[i]) /\ h.gen = rows[i].gen
    <3> HIDE DEF h, i
    <3> QED  BY <2>1 DEF PassesOn, Owns
  <2> QED  BY <2>1, <2>2 DEF Writes
<1> QED  BY <1>1 DEF GInv

LEMMA IdleWrites == \A w, r, g : Writes(w, Idle, r, g)
BY DEF Writes, Idle

LEMMA WrittenItself == \A r, by : PassesOn(r, r, by)
BY DEF PassesOn

(* One row is written and reopened, put to sleep, parked or kept.          *)
Reopens(r, n) ==
  /\ n.gen = r.gen
  /\ n.cursor = r.cursor \/ n.cursor = NoCursor
  /\ n.state \notin {"ABSENT", "DONE"}
  /\ r.state = "ABSENT" => n.state = "READY"
  /\ n.state = "CLAIMED" => r.state = "CLAIMED" /\ n.owner = r.owner /\ n.fence = r.fence

LEMMA ReopensWritten ==
  ASSUME NEW r \in Row, NEW n \in Row, NEW g, Written(r, g), Reopens(r, n), NEW by
  PROVE  Written(Stored(r, n), g) /\ PassesOn(r, Stored(r, n), by)
<1>1. Written(n, g)
  <2>1. CASE n.cursor = NoCursor
    BY <2>1 DEF Written, Reopens, NoCursor
  <2>2. CASE n.cursor = r.cursor
    BY <2>2 DEF Written, Reopens
  <2> QED  BY <2>1, <2>2 DEF Reopens
<1>2. PassesOn(r, n, by) /\ n.gen = r.gen /\ n.state # "ABSENT"
  BY DEF PassesOn, Reopens
<1>3. r.state = "ABSENT" => n.cursor = NoCursor /\ n.state = "READY"
  BY DEF Reopens, Written
<1> QED  BY <1>1, <1>2, <1>3, StoredWritten

LEMMA ReopenStep ==
  ASSUME GInv, TypeOK', seenGen' = seenGen, NEW i \in Work, NEW n \in Row,
         rows' = Write(i, n), Reopens(rows[i], n),
         \A v \in Workers : handle'[v] = handle[v] \/ handle'[v] = Idle
  PROVE  GInv'
<1>1. /\ NoWorker \notin Workers /\ TypeOK /\ Atomic \subseteq Work
  BY WorkAssumption DEF GInv, DomainItems
<1>2. ASSUME NEW j \in Atomic
      PROVE  /\ Written(rows'[j], seenGen'[j])
             /\ PassesOn(rows[j], rows'[j], NoWorker)
  <2>1. /\ rows[j] \in Row /\ Written(rows[j], seenGen[j]) /\ j \in Work
        /\ rows'[j] = IF j = i THEN Stored(rows[i], n) ELSE rows[j]
    BY <1>1 DEF GInv, TypeOK, Write
  <2>2. CASE j = i
    BY <2>1, <2>2, ReopensWritten
  <2>3. CASE j # i
    BY <2>1, <2>3, WrittenItself
  <2> QED  BY <2>2, <2>3
<1>3. ASSUME NEW v \in Workers
      PROVE  \/ v # NoWorker /\ handle'[v] = handle[v]
             \/ Writes(v, handle[v], rows[handle[v].item], seenGen[handle[v].item])'
  BY <1>1, IdleWrites
<1> QED  BY <1>2, <1>3, GenerationStep


LEMMA PublishedReopens ==
  ASSUME NEW r \in Row, NEW delay, NEW d, NEW dRev
  PROVE  Reopens(r, Published(r, delay, d, dRev))
<1>1. LET n == Published(r, delay, d, dRev)
      IN /\ n.gen = r.gen /\ n.owner = r.owner /\ n.fence = r.fence
         /\ n.cursor = r.cursor \/ n.cursor = NoCursor
         /\ n.state = IF r.state = "CLAIMED" THEN "CLAIMED" ELSE "READY"
  BY DEF Published, Row
<1> QED  BY <1>1 DEF Reopens

LEMMA RepairedReopens ==
  ASSUME NEW r \in Row
  PROVE  Reopens(r, Repaired(r)) /\ Reopens(r, Woken(r))
<1>1. LET n == Repaired(r)
      IN n.gen = r.gen /\ n.cursor = NoCursor /\ n.state = "READY"
  BY DEF Repaired, Released, Row
<1>2. LET n == Woken(r)
      IN n.gen = r.gen /\ n.cursor = NoCursor /\ n.state = "READY"
  BY DEF Woken, Row
<1> QED  BY <1>1, <1>2 DEF Reopens

LEMMA ExtendedReopens ==
  ASSUME NEW r \in Row, r.state = "CLAIMED"
  PROVE  Reopens(r, [r EXCEPT !.lease = LeaseLen])
BY DEF Row, Reopens

LEMMA BlockedReopens ==
  ASSUME NEW r \in Row, r.state = "CLAIMED", NEW w, NEW h
  PROVE  Reopens(r, Blocked(w, h, r))
<1>1. LET n == Blocked(w, h, r)
      IN /\ n.gen = r.gen /\ n.cursor \in {r.cursor, NoCursor}
         /\ n.state \in {"READY", "BLOCKED"}
  BY DEF Blocked, Released, Row
<1> QED  BY <1>1 DEF Reopens

LEMMA FailedReopens ==
  ASSUME NEW r \in Row, r.state = "CLAIMED", NEW w, NEW h, NEW kind, NEW due
  PROVE  Reopens(r, Failed(w, h, r, kind, due))
<1>1. LET n == Failed(w, h, r, kind, due)
      IN /\ n.gen = r.gen /\ n.cursor \in {r.cursor, NoCursor}
         /\ n.state \in {"READY", "RECONCILE_REQUIRED"}
  BY DEF Failed, Released, Row
<1> QED  BY <1>1 DEF Reopens

LEMMA GenerationOpen ==
  ASSUME GInv, TypeOK',
         \/ \E i \in Work : Publish(i) \/ Repair(i)
         \/ \E d \in Deps : Bump(d)
  PROVE  GInv'
<1>1. seenGen' = seenGen /\ handle' = handle /\ TypeOK
  BY DEF Publish, Repair, Bump, GInv
<1>2. ASSUME NEW i \in Work, NEW n \in Row, rows' = Write(i, n), Reopens(rows[i], n)
      PROVE  GInv'
  BY <1>1, <1>2, ReopenStep
<1>3. ASSUME NEW i \in Work, Publish(i) PROVE GInv'
  <2>1. PICK delay \in {0, MaxDelay} : rows' = Write(i, Published(rows[i], delay, NoDep, 0))
    BY <1>3 DEF Publish
  <2>2. delay \in Nat /\ rows[i] \in Row
    BY <1>1, BoundAssumption DEF TypeOK
  <2> DEFINE n == Published(rows[i], delay, NoDep, 0)
  <2>3. n \in Row /\ Reopens(rows[i], n)
    BY <2>2, PublishedType, PublishedReopens
  <2> HIDE DEF n
  <2> QED  BY <1>2, <2>1, <2>3 DEF n
<1>4. ASSUME NEW i \in Work, Repair(i) PROVE GInv'
  <2> DEFINE n == Repaired(rows[i])
  <2>1. rows' = Write(i, n) /\ rows[i] \in Row
    BY <1>1, <1>4 DEF Repair, TypeOK
  <2>2. n \in Row /\ Reopens(rows[i], n)
    BY <2>1, ReopenedType, RepairedReopens
  <2> HIDE DEF n
  <2> QED  BY <1>2, <2>1, <2>2
<1>5. ASSUME NEW d \in Deps, Bump(d) PROVE GInv'
  <2> DEFINE i == WakeOf[d]
             n == Published(rows[i], 0, d, deps[d] + 1)
  <2>1. /\ rows' = Write(i, n) /\ i \in Work /\ rows[i] \in Row
        /\ deps[d] + 1 \in Nat
    BY <1>1, <1>5, WorkAssumption DEF Bump, TypeOK
  <2>2. n \in Row /\ Reopens(rows[i], n)
    <3> HIDE DEF i
    <3> QED  BY <2>1, PublishedType, PublishedReopens
  <2> HIDE DEF n
  <2> QED  BY <1>2, <2>1, <2>2
<1> QED  BY <1>3, <1>4, <1>5

(* Settles that commit no page.                                            *)
LEMMA GenerationRelease ==
  ASSUME GInv, TypeOK', NEW w \in Workers,
         Block(w) \/ Heartbeat(w) \/ \E kind \in FailureKinds : Fail(w, kind)
  PROVE  GInv'
<1> DEFINE h == handle[w]
           r == rows[h.item]
<1>1. /\ seenGen' = seenGen /\ TypeOK /\ h \in Handle /\ h.item \in Work /\ r \in Row
      /\ r.state = "CLAIMED"
  BY DEF Block, Heartbeat, Fail, Holds, GInv, TypeOK, Handle
<1>2. \A v \in Workers : handle'[v] = handle[v] \/ handle'[v] = Idle
  <2>1. handle' = handle \/ handle' = [handle EXCEPT ![w] = Idle]
    BY DEF Block, Heartbeat, Fail
  <2> QED  BY <1>1, <2>1 DEF TypeOK
<1>3. ASSUME NEW n \in Row, rows' = Write(h.item, n), Reopens(r, n)
      PROVE  GInv'
  BY <1>1, <1>2, <1>3, ReopenStep
<1>4. CASE Block(w)
  <2> DEFINE n == Blocked(w, h, r)
  <2>1. rows' = Write(h.item, n) /\ h.dep \in Deps /\ deps \in [Deps -> Nat]
    BY <1>1, <1>4 DEF Block, TypeOK
  <2>2. n \in Row /\ Reopens(r, n)
    <3> HIDE DEF h, r
    <3> QED  BY <1>1, <2>1, BlockedType, BlockedReopens
  <2> HIDE DEF n
  <2> QED  BY <1>3, <2>1, <2>2
<1>5. CASE Heartbeat(w)
  <2> DEFINE n == [r EXCEPT !.lease = LeaseLen]
  <2>1. rows' = Write(h.item, n)
    BY <1>5 DEF Heartbeat
  <2>2. n \in Row /\ Reopens(r, n)
    <3> HIDE DEF h, r
    <3> QED  BY <1>1, ReopenedType, ExtendedReopens
  <2> HIDE DEF n
  <2> QED  BY <1>3, <2>1, <2>2
<1>6. ASSUME NEW kind \in FailureKinds, Fail(w, kind) PROVE GInv'
  <2>1. PICK due \in 1..MaxDelay : rows' = Write(h.item, Failed(w, h, r, kind, due))
    BY <1>6 DEF Fail
  <2>2. due \in Nat /\ kind \in {"contract", "database", "other"}
    BY WorkAssumption, BoundAssumption
  <2> DEFINE n == Failed(w, h, r, kind, due)
  <2>3. n \in Row /\ Reopens(r, n)
    <3> HIDE DEF h, r
    <3> QED  BY <1>1, <2>2, SettledType, FailedReopens
  <2> HIDE DEF n
  <2> QED  BY <1>3, <2>1, <2>3 DEF n
<1> QED  BY <1>4, <1>5, <1>6

LEMMA GenerationClaim ==
  ASSUME GInv, TypeOK', NEW w \in Workers, NEW i \in Work, Claim(w, i)
  PROVE  GInv'
<1> DEFINE r == rows[i]
           n == Claimed(w, r)
           c == Stored(r, n)
           g == handle'[w]
<1>1. /\ TypeOK /\ r \in Row /\ r.state \in {"READY", "CLAIMED"} /\ seenGen' = seenGen
      /\ rows'[i] = c /\ \A j \in Work : j # i => rows'[j] = rows[j]
      /\ \A v \in Workers : v # w => handle'[v] = handle[v]
  BY DEF GInv, TypeOK, Claim, Claimable
<1>2. /\ n \in Row /\ n.gen = r.gen /\ n.cursor = r.cursor /\ n.state = "CLAIMED"
      /\ n.owner = w
  <2>1. n \in Row
    BY <1>1, ReopenedType
  <2>2. n.gen = r.gen /\ n.cursor = r.cursor /\ n.state = "CLAIMED" /\ n.owner = w
    BY <1>1 DEF Claimed, Row
  <2> QED  BY <2>1, <2>2
<1>3. ASSUME i \in Atomic
      PROVE  /\ Written(c, seenGen[i]) /\ PassesOn(r, c, w)
             /\ c.state = "CLAIMED" => c.cursor = r.cursor
  <2>1. Written(r, seenGen[i])
    BY <1>3 DEF GInv
  <2>2. Written(n, seenGen[i]) /\ PassesOn(r, n, w)
    <3> HIDE DEF n, r
    <3> QED  BY <1>1, <1>2, <2>1 DEF Written, PassesOn
  <2>3. Written(c, seenGen[i]) /\ PassesOn(r, c, w)
    <3> HIDE DEF n, r
    <3> QED  BY <1>1, <1>2, <2>2, StoredWritten
  <2>4. c.state = "CLAIMED" => c.cursor = n.cursor
    <3> HIDE DEF n, r
    <3> QED  BY <1>1, <1>2, StoredShape
  <2> QED  BY <1>2, <2>3, <2>4
<1>4. \A j \in Atomic : /\ Written(rows'[j], seenGen'[j])
                        /\ PassesOn(rows[j], rows'[j], w)
  <2> TAKE j \in Atomic
  <2>1. j \in Work /\ Written(rows[j], seenGen[j])
    BY WorkAssumption DEF GInv, DomainItems
  <2>2. CASE j = i
    BY <1>1, <1>3, <2>2
  <2>3. CASE j # i
    BY <1>1, <2>1, <2>3, WrittenItself
  <2> QED  BY <2>2, <2>3
<1>5. Writes(w, handle[w], rows[handle[w].item], seenGen[handle[w].item])'
  <2>1. /\ g.item = i /\ g.gen = r.gen
        /\ g.page = IF i \in WakeItems THEN 0 ELSE StartPage(i, c)
    BY <1>1 DEF Claim, TypeOK, Idle
  <2>2. g.page = 0 \/ g.page = c.cursor.page
    <3> HIDE DEF c, g
    <3> QED  BY <2>1 DEF StartPage
  <2>3. ASSUME i \in Atomic, Owns(w, g, c), g.gen = c.gen
        PROVE  \A p \in 1..g.page : seenGen[i][p] = g.gen
    <3>1. \A p \in 1..c.cursor.page : seenGen[i][p] = c.gen
      BY <1>3, <2>3 DEF Written
    <3> HIDE DEF c, g
    <3> QED  BY <2>2, <2>3, <3>1
  <2> HIDE DEF c, g
  <2> QED  BY <1>1, <2>1, <2>3 DEF Writes, g
<1> HIDE DEF g, n, c
<1> QED  BY <1>1, <1>4, <1>5, GenerationStep


(* The settles that commit a page: the claim is of the row's generation,   *)
(* and the page completes what it vouches for.                             *)
LEMMA GenerationCommit ==
  ASSUME GInv, TypeOK', NEW w \in Workers, Ack(w) \/ Yield(w) \/ SaveProgress(w)
  PROVE  GInv'
<1> DEFINE h == handle[w]
           i == h.item
           r == rows[i]
           s == seenGen'[i]
<1>1. /\ TypeOK /\ h \in Handle /\ i \in Work /\ r \in Row /\ Holds(w)
      /\ Owns(w, h, r) /\ h.gen = r.gen /\ h.busy /\ PageCommitted(h)
      /\ r.state = "CLAIMED"
  BY DEF Ack, Yield, SaveProgress, Holds, GInv, TypeOK, Handle, Owns
<1>2. /\ h.page \in 0..(Pages - 1) /\ Pages \in Nat \ {0}
      /\ Atomic \subseteq DomainItems /\ Atomic \subseteq Work
  BY <1>1, BoundAssumption, WorkAssumption DEF Handle, DomainItems
<1>3. /\ i \in Atomic => \A p \in 1..(h.page + 1) : s[p] = r.gen
      /\ \A j \in Atomic : j # i => seenGen'[j] = seenGen[j]
  <2>1. CASE i \in Atomic
    <3>1. /\ seenGen' = [seenGen EXCEPT ![i][h.page + 1] = r.gen]
          /\ seenGen[i] \in [1..Pages -> Nat] /\ i \in DomainItems
          /\ seenGen \in [DomainItems -> [1..Pages -> Nat]]
          /\ \A p \in 1..h.page : seenGen[i][p] = r.gen
      BY <1>1, <1>2, <2>1 DEF PageCommitted, GInv, TypeOK, Writes
    <3> DEFINE page == h.page
    <3>2. /\ 1..(page + 1) \subseteq 1..Pages
          /\ \A p \in 1..(page + 1) : p \in 1..page \/ p = page + 1
      <4>1. page \in 0..(Pages - 1) /\ Pages \in Nat \ {0}
        BY <1>2
      <4> HIDE DEF page
      <4> QED  BY <4>1
    <3>3. s = [seenGen[i] EXCEPT ![h.page + 1] = r.gen]
      BY <3>1
    <3> QED  BY <1>2, <3>1, <3>2, <3>3
  <2>2. CASE i \notin Atomic
    BY <1>1, <2>2 DEF PageCommitted
  <2> QED  BY <2>1, <2>2
<1>4. ASSUME NEW n \in Row, rows' = Write(i, n), n.gen = r.gen,
             n.state \in {"READY", "DONE", "CLAIMED"},
             n.state = "CLAIMED" => n.owner = r.owner /\ n.fence = r.fence,
             n.state = "DONE" => (i \in Atomic => h.page + 1 = Pages),
             \/ n.cursor = NoCursor
             \/ i \in Atomic => n.cursor.page = h.page + 1
             \/ n.cursor = r.cursor /\ (i \in Atomic => h.page + 1 = Pages),
             \/ handle' = [handle EXCEPT ![w] = Idle]
             \/ handle' = [handle EXCEPT ![w].page = @ + 1, ![w].read = 0]
      PROVE  GInv'
  <2>1. ASSUME i \in Atomic
        PROVE  Written(Stored(r, n), s) /\ PassesOn(r, Stored(r, n), NoWorker)
    <3>1. /\ n.state = "DONE" => \A p \in 1..Pages : s[p] = r.gen
          /\ \A p \in 1..n.cursor.page : s[p] = r.gen
      <4>1. h.page + 1 = Pages => \A p \in 1..Pages : s[p] = r.gen
        BY <1>3, <2>1
      <4>2. r.cursor.page \in 0..(Pages - 1)
        BY <1>1, RowTypes
      <4>3. 1..r.cursor.page \subseteq 1..Pages
        BY <1>2, <4>2
      <4>4. CASE n.cursor = NoCursor
        BY <1>4, <2>1, <4>1, <4>4 DEF NoCursor
      <4>5. CASE n.cursor.page = h.page + 1
        BY <1>3, <1>4, <2>1, <4>1, <4>5
      <4>6. CASE n.cursor = r.cursor /\ h.page + 1 = Pages
        BY <1>4, <2>1, <4>1, <4>3, <4>6
      <4> QED  BY <1>4, <2>1, <4>4, <4>5, <4>6
    <3> HIDE DEF r, s, h, i
    <3>2. Written(n, s) /\ PassesOn(r, n, NoWorker) /\ n.state # "ABSENT"
      BY <1>1, <1>4, <3>1 DEF Written, PassesOn
    <3> QED  BY <1>1, <1>4, <3>2, StoredWritten
  <2>2. \A j \in Work : rows'[j] = IF j = i THEN Stored(r, n) ELSE rows[j]
    BY <1>1, <1>4 DEF Write, TypeOK
  <2>3. ASSUME NEW j \in Atomic
        PROVE  Written(rows'[j], seenGen'[j]) /\ PassesOn(rows[j], rows'[j], NoWorker)
    <3>1. Written(rows[j], seenGen[j]) /\ j \in Work
      BY <1>2 DEF GInv
    <3>2. CASE j = i
      BY <2>1, <2>2, <2>3, <3>1, <3>2
    <3>3. CASE j # i
      BY <1>3, <2>2, <2>3, <3>1, <3>3, WrittenItself
    <3> QED  BY <3>2, <3>3
  <2>4. ASSUME NEW v \in Workers
        PROVE  \/ /\ v # NoWorker /\ handle'[v] = handle[v]
                  /\ handle[v].item \in Atomic /\ Owns(v, handle[v], rows[handle[v].item])
                       => seenGen'[handle[v].item] = seenGen[handle[v].item]
               \/ Writes(v, handle[v], rows[handle[v].item], seenGen[handle[v].item])'
    <3>1. CASE v # w
      <4>1. handle'[v] = handle[v] /\ v # NoWorker
        BY <1>1, <1>4, <3>1, WorkAssumption DEF TypeOK
      <4>2. ASSUME handle[v].item = i PROVE ~Owns(v, handle[v], rows[handle[v].item])
        BY <1>1, <3>1, <4>2 DEF Owns
      <4> QED  BY <1>3, <4>1, <4>2
    <3>2. CASE v = w
      <4>1. CASE handle'[w] = Idle
        BY <3>2, <4>1, IdleWrites
      <4>2. CASE handle' = [handle EXCEPT ![w].page = @ + 1, ![w].read = 0]
        <5> DEFINE g == handle'[w]
        <5>1. g.item = i /\ g.page = h.page + 1 /\ g.gen = h.gen
          BY <1>1, <4>2 DEF TypeOK, Handle
        <5> HIDE DEF g, h, i, r, s
        <5>2. Writes(w, g, rows'[i], s)
          BY <1>1, <1>3, <5>1 DEF Writes
        <5> QED  BY <3>2, <5>1, <5>2 DEF g, s
      <4> QED  BY <1>1, <1>4, <4>1, <4>2 DEF TypeOK
    <3> QED  BY <3>1, <3>2
  <2> QED  BY <2>3, <2>4, GenerationStep
<1>5. i \in Atomic /\ Finished(h) => h.page + 1 = Pages
  BY <1>2 DEF Finished, DomainItems
<1>6. i \in Atomic => NextCursor(h).page = h.page + 1
  BY <1>2 DEF NextCursor, DomainItems
<1>7. CASE Ack(w)
  <2> DEFINE n == Acked(w, h, r)
  <2>1. /\ rows' = Write(i, n) /\ Finished(h)
        /\ handle' = [handle EXCEPT ![w] = Idle]
    BY <1>7 DEF Ack
  <2>2. n \in Row
    <3>1. 0 \in Nat /\ "other" \in {"contract", "database", "other"}
      OBVIOUS
    <3> HIDE DEF h, r
    <3> QED  BY <1>1, <3>1, SettledType
  <2>3. /\ n.gen = r.gen /\ n.state \in {"READY", "DONE"}
        /\ n.cursor = r.cursor \/ n.cursor = NoCursor
    <3> HIDE DEF h, r
    <3> QED  BY <1>1 DEF Acked, Released, Row
  <2> HIDE DEF n
  <2> QED  BY <1>4, <1>5, <2>1, <2>2, <2>3
<1>8. CASE Yield(w)
  <2>1. PICK due \in {0, MaxDelay} : rows' = Write(i, Yielded(w, h, r, due))
    BY <1>8 DEF Yield
  <2>2. /\ ~Finished(h) /\ due \in Nat /\ handle' = [handle EXCEPT ![w] = Idle]
    BY <1>8, BoundAssumption DEF Yield
  <2> DEFINE n == Yielded(w, h, r, due)
  <2>3. n \in Row
    <3> HIDE DEF h, r
    <3> QED  BY <1>1, <2>2, SettledType
  <2>4. /\ n.gen = r.gen /\ n.state = "READY"
        /\ n.cursor = NextCursor(h) \/ n.cursor = NoCursor
    <3> HIDE DEF h, r
    <3> QED  BY <1>1 DEF Yielded, Released, Row
  <2> HIDE DEF n
  <2> QED  BY <1>4, <1>6, <2>1, <2>2, <2>3, <2>4 DEF n
<1>9. CASE SaveProgress(w)
  <2> DEFINE n == Saved(h, r)
  <2>1. /\ rows' = Write(i, n) /\ ~Finished(h) /\ i \in Atomic
        /\ handle' = [handle EXCEPT ![w].page = @ + 1, ![w].read = 0]
        /\ i \notin WakeItems
    BY <1>2, <1>9 DEF SaveProgress, DomainItems
  <2>2. n \in Row
    <3>1. 0 \in Nat /\ "other" \in {"contract", "database", "other"}
      OBVIOUS
    <3> HIDE DEF h, r
    <3> QED  BY <1>1, <2>1, <3>1, SettledType DEF h
  <2>3. /\ n.gen = r.gen /\ n.state = "CLAIMED" /\ n.cursor = NextCursor(h)
        /\ n.owner = r.owner /\ n.fence = r.fence
    <3> HIDE DEF h, r
    <3> QED  BY <1>1 DEF Saved, Row
  <2> HIDE DEF n
  <2> QED  BY <1>4, <1>6, <2>1, <2>2, <2>3
<1> QED  BY <1>7, <1>8, <1>9


(* Steps that write no row: the executor at work, lost claims, crashes.    *)
LEMMA GenerationProgress ==
  ASSUME GInv, TypeOK', NEW w \in Workers,
         \/ Process(w) \/ LoseClaim(w) \/ Crash(w)
         \/ \E d \in Deps : Capture(w, d) \/ Observe(w, d)
  PROVE  GInv'
<1> DEFINE h == handle[w]
           g == handle'[w]
<1>1. /\ rows' = rows /\ TypeOK /\ h \in Handle
      /\ \A v \in Workers : v # w => handle'[v] = handle[v]
      /\ g = Idle \/ (g.item = h.item /\ g.page = h.page /\ g.gen = h.gen
                      /\ g.busy = h.busy /\ g.fence = h.fence)
  <2>1. rows' = rows /\ TypeOK /\ h \in Handle
    BY DEF Process, LoseClaim, Crash, Capture, Observe, GInv, TypeOK
  <2>2. /\ \A v \in Workers : v # w => handle'[v] = handle[v]
        /\ g = Idle \/ (g.item = h.item /\ g.page = h.page /\ g.gen = h.gen
                        /\ g.busy = h.busy /\ g.fence = h.fence)
    <3>1. CASE Process(w)
      BY <2>1, <3>1 DEF Process, TypeOK, Handle
    <3>2. CASE LoseClaim(w) \/ Crash(w)
      BY <2>1, <3>2 DEF LoseClaim, Crash, TypeOK
    <3>3. CASE \E d \in Deps : Capture(w, d) \/ Observe(w, d)
      <4>1. PICK d \in Deps : Capture(w, d) \/ Observe(w, d)
        BY <3>3
      <4>2. /\ \/ g = [h EXCEPT !.dep = d, !.depRev = deps[d]]
               \/ g = [h EXCEPT !.dep = d, !.blocked = TRUE]
            /\ \A v \in Workers : v # w => handle'[v] = handle[v]
        BY <2>1, <4>1 DEF Capture, Observe, TypeOK
      <4> HIDE DEF g, h
      <4> QED  BY <2>1, <4>2 DEF Handle
    <3> QED  BY <3>1, <3>2, <3>3
  <2> QED  BY <2>1, <2>2
<1>2. \A i \in Atomic : seenGen'[i] = seenGen[i]
  <2>1. CASE Process(w)
    <3>1. CASE h.item \in Atomic
      BY <2>1, <3>1 DEF Process
    <3>2. CASE h.item \notin Atomic
      <4> DEFINE item == h.item
                 page == h.page + 1
                 gen == h.gen
      <4>1. /\ seenGen' = [seenGen EXCEPT ![item][page] = gen]
            /\ seenGen \in [DomainItems -> [1..Pages -> Nat]]
            /\ item \notin Atomic /\ Atomic \subseteq DomainItems
        BY <1>1, <2>1, <3>2, WorkAssumption DEF Process, TypeOK
      <4> HIDE DEF item, page, gen
      <4> QED  BY <4>1
    <3> QED  BY <3>1, <3>2
  <2>2. CASE ~Process(w)
    BY <2>2 DEF LoseClaim, Crash, Capture, Observe
  <2> QED  BY <2>1, <2>2
<1>3. \A i \in Atomic : /\ Written(rows'[i], seenGen'[i])
                        /\ PassesOn(rows[i], rows'[i], NoWorker)
  BY <1>1, <1>2, WrittenItself DEF GInv
<1>4. Writes(w, handle[w], rows[handle[w].item], seenGen[handle[w].item])'
  <2>1. CASE g = Idle
    BY <2>1, IdleWrites
  <2>2. CASE g # Idle
    <3>1. Writes(w, h, rows[h.item], seenGen[h.item])
      BY DEF GInv
    <3> HIDE DEF g, h
    <3>2. Writes(w, g, rows[h.item], seenGen'[h.item])
      BY <1>1, <1>2, <2>2, <3>1 DEF Writes, Owns
    <3> QED  BY <1>1, <2>2, <3>2 DEF g
  <2> QED  BY <2>1, <2>2
<1>5. NoWorker \notin Workers
  BY WorkAssumption
<1> QED  BY <1>1, <1>2, <1>3, <1>4, <1>5, GenerationStep

LEMMA GenerationBatch ==
  ASSUME GInv, TypeOK', NEW w \in Workers, Wake(w)
  PROVE  GInv'
<1> DEFINE h == handle[w]
<1>1. PICK batch \in SUBSET Work :
        rows' = [i \in Work |-> IF i \in batch
                   THEN Stored(rows[i], Woken(rows[i])) ELSE rows[i]]
  BY DEF Wake, Asleep
<1>2. /\ seenGen' = seenGen /\ TypeOK /\ h.item \notin Atomic
      /\ \A v \in Workers : v # w => handle'[v] = handle[v]
      /\ handle'[w].item = h.item /\ NoWorker \notin Workers
  BY WorkAssumption DEF Wake, GInv, TypeOK, Handle, DomainItems
<1>3. ASSUME NEW i \in Atomic
      PROVE  /\ Written(rows'[i], seenGen'[i])
             /\ PassesOn(rows[i], rows'[i], NoWorker)
  <2> DEFINE r == rows[i]
             n == Woken(r)
  <2>1. /\ r \in Row /\ Written(r, seenGen[i]) /\ i \in Work
        /\ rows'[i] = IF i \in batch THEN Stored(r, n) ELSE r
    BY <1>1, WorkAssumption DEF GInv, TypeOK, DomainItems
  <2>2. n \in Row /\ Reopens(r, n)
    BY <2>1, ReopenedType, RepairedReopens
  <2> HIDE DEF n
  <2>3. Written(Stored(r, n), seenGen[i]) /\ PassesOn(r, Stored(r, n), NoWorker)
    BY <2>1, <2>2, ReopensWritten
  <2> QED  BY <1>2, <2>1, <2>3, WrittenItself
<1>4. Writes(w, handle[w], rows[handle[w].item], seenGen[handle[w].item])'
  BY <1>2 DEF Writes
<1> QED  BY <1>2, <1>3, <1>4, GenerationStep

LEMMA GenerationQuiet ==
  ASSUME GInv, TypeOK', Tick \/ Activate \/ UNCHANGED vars
  PROVE  GInv'
<1>1. /\ seenGen' = seenGen /\ handle' = handle /\ TypeOK
      /\ rows' = rows \/ rows' = [i \in Work |-> Aged(rows[i])]
  BY DEF Tick, Activate, vars, GInv
<1>2. ASSUME NEW i \in Work
      PROVE  /\ rows'[i].state = rows[i].state /\ rows'[i].gen = rows[i].gen
             /\ rows'[i].cursor = rows[i].cursor /\ rows'[i].owner = rows[i].owner
             /\ rows'[i].fence = rows[i].fence
  <2> DEFINE r == rows[i]
             n == rows'[i]
  <2>1. r \in Row /\ (n = r \/ n = Aged(r))
    BY <1>1 DEF TypeOK
  <2> HIDE DEF r, n
  <2>2. /\ n.state = r.state /\ n.gen = r.gen /\ n.cursor = r.cursor
        /\ n.owner = r.owner /\ n.fence = r.fence
    BY <2>1 DEF Aged, Row
  <2> QED  BY <2>2 DEF r, n
<1>3. \A i \in Atomic : /\ Written(rows'[i], seenGen'[i])
                        /\ PassesOn(rows[i], rows'[i], NoWorker)
  BY <1>1, <1>2, WorkAssumption DEF Written, PassesOn, GInv, DomainItems
<1>4. NoWorker \notin Workers
  BY WorkAssumption
<1> QED  BY <1>1, <1>3, <1>4, GenerationStep

LEMMA GenerationInvariant == Spec => []GInv
<1>1. Init => GInv
  <2> SUFFICES ASSUME Init PROVE GInv
    OBVIOUS
  <2>1. TypeOK
    BY AbsentType, IdleType DEF Init, TypeOK
  <2>2. ASSUME NEW i \in Atomic PROVE Written(rows[i], seenGen[i])
    <3>1. rows[i] = Absent
      BY WorkAssumption DEF Init, DomainItems
    <3> QED  BY <3>1 DEF Absent, Written, NoCursor
  <2>3. \A w \in Workers :
          Writes(w, handle[w], rows[handle[w].item], seenGen[handle[w].item])
    BY IdleWrites DEF Init
  <2> QED  BY <2>1, <2>2, <2>3 DEF GInv
<1>2. GInv /\ [Next]_vars => GInv'
  <2> SUFFICES ASSUME GInv, [Next]_vars PROVE GInv'
    OBVIOUS
  <2>1. TypeOK'
    BY TypeStep DEF GInv
  <2> QED
    BY <2>1, GenerationOpen, GenerationRelease, GenerationClaim, GenerationCommit,
       GenerationProgress, GenerationBatch, GenerationQuiet DEF Next, Execute
<1> QED  BY <1>1, <1>2, PTL DEF Spec

(* However often a hand-over of generations meets a running enumeration, a *)
(* row whose executor commits its pages with the settle is only DONE when  *)
(* executors of its own generation wrote every page.                       *)
THEOREM GenerationsFenced == Spec => []GenerationFenced
<1>1. GInv => GenerationFenced
  BY DEF GInv, Written, GenerationFenced
<1> QED  BY <1>1, GenerationInvariant, PTL
=============================================================================
