-------------------------- MODULE DomainWorkProofs --------------------------
(***************************************************************************)
(* Theorems of DomainWork for every value of its constants: types, the     *)
(* acknowledgement of invalidations and the order of effects.              *)
(***************************************************************************)
EXTENDS DomainWork, FiniteSetTheorems, TLAPS

-----------------------------------------------------------------------------
(* Type correctness.  The rows that the operators build are rows. *)

LEMMA CursorType == NoCursor \in [page : 0..(Pages - 1), rev : Nat]
BY BoundAssumption DEF NoCursor

LEMMA IdleType == Idle \in Handle /\ ~Idle.blocked /\ ~Idle.busy
<1>1. (CHOOSE i \in Work : TRUE) \in Work
  BY WorkAssumption
<1>2. 0 \in 0..(Pages - 1)
  BY BoundAssumption
<1> QED  BY <1>1, <1>2 DEF Idle, Handle

LEMMA AbsentType == Absent \in Row
BY CursorType DEF Absent, Row

LEMMA StoredType ==
  ASSUME NEW old \in Row, NEW new \in Row, generation \in Nat
  PROVE  Stored(old, new) \in Row
<1> DEFINE rq == Later(new.requested, old.requested + 1)
           fe == Later(new.fence, old.fence + 1)
           st == IF old.state = "BLOCKED" THEN "BLOCKED" ELSE "READY"
<1>1. rq \in Nat /\ fe \in Nat /\ st \in {"BLOCKED", "READY"}
  BY DEF Row, Later
<1>2. [new EXCEPT !.gen = generation] \in Row
  BY DEF Row
<1>3. [new EXCEPT !.gen = generation, !.claimed = 0, !.owner = NoWorker,
                  !.requested = rq, !.fence = fe,
                  !.lease = 0, !.nextIn = 0, !.cursor = NoCursor,
                  !.state = st] \in Row
  <2> HIDE DEF rq, fe, st
  <2> QED  BY <1>1, CursorType DEF Row
<1> QED  BY <1>2, <1>3 DEF Stored

LEMMA WriteType ==
  ASSUME TypeOK, NEW i \in Work, NEW new \in Row
  PROVE  Write(i, new) \in [Work -> Row]
BY StoredType DEF Write, TypeOK

LEMMA PublishedType ==
  ASSUME NEW r \in Row, NEW delay \in Nat, NEW d \in Deps \cup {NoDep},
         NEW dRev \in Nat
  PROVE  Published(r, delay, d, dRev) \in Row
<1> DEFINE dr == Later(r.depRev, dRev)
           av == Sooner(r.availableIn, delay)
           cu == IF r.state = "CLAIMED" THEN r.cursor ELSE NoCursor
           st == IF r.state = "CLAIMED" THEN "CLAIMED" ELSE "READY"
           rq == r.requested + 1
<1>1. dr \in Nat /\ av \in Nat /\ st \in {"CLAIMED", "READY"} /\ rq \in Nat
  BY DEF Row, Later, Sooner
<1>2. cu \in [page : 0..(Pages - 1), rev : Nat]
  BY CursorType DEF Row
<1>3. [r EXCEPT !.state = "READY", !.requested = rq, !.dep = d,
                !.depRev = dRev, !.availableIn = delay] \in Row
  <2> HIDE DEF rq
  <2> QED  BY <1>1 DEF Row
<1>4. [r EXCEPT !.requested = rq, !.dep = d, !.depRev = dr, !.state = st,
                !.availableIn = av, !.nextIn = 0, !.cursor = cu] \in Row
  <2> HIDE DEF dr, av, cu, st, rq
  <2> QED  BY <1>1, <1>2 DEF Row
<1> QED  BY <1>3, <1>4 DEF Published

LEMMA ReleasedType ==
  ASSUME NEW r \in Row,
         NEW state \in {"READY", "BLOCKED", "RECONCILE_REQUIRED", "DONE"}
  PROVE  Released(r, state) \in Row
BY DEF Released, Row

LEMMA SettledType ==
  ASSUME NEW w, NEW h \in Handle, NEW r \in Row,
         NEW kind \in {"contract", "database", "other"}, NEW due \in Nat
  PROVE  /\ Acked(w, h, r) \in Row
         /\ ~Finished(h) => Yielded(w, h, r, due) \in Row
         /\ h.item \notin WakeItems /\ ~Finished(h) => Saved(h, r) \in Row
         /\ Failed(w, h, r, kind, due) \in Row
<1> DEFINE a == Released(r, IF Newer(w) THEN "READY" ELSE "DONE")
           co == Later(a.completed, h.claimed)
           av == IF Newer(w) THEN 0 ELSE a.availableIn
           cu == IF Newer(w) THEN NoCursor ELSE a.cursor
           b == Released(r, "READY")
           fs == IF h.item \in WakeItems THEN b.fails ELSE 0
           fr == IF h.item \in WakeItems THEN b.failRev ELSE 0
           n == Failures(h, r)
           p == Released(r, "RECONCILE_REQUIRED")
           nc == NextCursor(h)
<1>1. a \in Row /\ b \in Row /\ p \in Row
  BY ReleasedType
<1>2. co \in Nat /\ av \in Nat /\ fs \in Nat /\ fr \in Nat
  BY <1>1 DEF Row, Handle, Later
<1>3. cu \in [page : 0..(Pages - 1), rev : Nat]
  BY <1>1, CursorType DEF Row
<1>4. n \in Nat /\ h.claimed \in Nat
  BY DEF Failures, Row, Handle
<1>5. ~Finished(h) => nc \in [page : 0..(Pages - 1), rev : Nat]
  BY BoundAssumption, CursorType DEF Finished, NextCursor, Handle
<1>6. [a EXCEPT !.completed = co, !.nextIn = 0, !.availableIn = av,
                !.fails = 0, !.failRev = 0, !.cursor = cu] \in Row
  <2> HIDE DEF a, co, av, cu
  <2> QED  BY <1>1, <1>2, <1>3 DEF Row
<1>7. Acked(w, h, r) \in Row
  BY <1>6 DEF Acked
<1>8. [b EXCEPT !.availableIn = 0, !.nextIn = 0, !.cursor = NoCursor] \in Row
  <2> HIDE DEF b
  <2> QED  BY <1>1, CursorType DEF Row
<1>9. ASSUME ~Finished(h)
      PROVE  [b EXCEPT !.availableIn = due, !.nextIn = 0, !.cursor = nc,
                       !.fails = fs, !.failRev = fr] \in Row
  <2> HIDE DEF b, nc, fs, fr
  <2> QED  BY <1>1, <1>2, <1>5, <1>9 DEF Row
<1>10. ~Finished(h) => Yielded(w, h, r, due) \in Row
  BY <1>8, <1>9 DEF Yielded
<1>11. ASSUME ~Finished(h) PROVE Saved(h, r) \in Row
  <2>1. [r EXCEPT !.cursor = nc, !.fails = 0, !.failRev = 0] \in Row
    <3> HIDE DEF nc
    <3> QED  BY <1>5, <1>11 DEF Row
  <2> QED  BY <2>1 DEF Saved
<1>12. /\ [b EXCEPT !.availableIn = 0, !.nextIn = 0, !.cursor = NoCursor,
                    !.fails = 0, !.failRev = 0] \in Row
       /\ [p EXCEPT !.nextIn = 0, !.fails = n,
                    !.failRev = h.claimed] \in Row
       /\ [b EXCEPT !.availableIn = due, !.nextIn = due, !.fails = n,
                    !.failRev = h.claimed] \in Row
  <2> HIDE DEF b, p, n
  <2> QED  BY <1>1, <1>4, CursorType DEF Row
<1>13. Failed(w, h, r, kind, due) \in Row
  BY <1>12 DEF Failed
<1> QED  BY <1>7, <1>10, <1>11, <1>13

LEMMA BlockedType ==
  ASSUME NEW w, NEW h \in Handle, NEW r \in Row, h.dep \in Deps,
         deps \in [Deps -> Nat]
  PROVE  Blocked(w, h, r) \in Row
<1> DEFINE b == Released(r, "BLOCKED")
           a == Released(r, "READY")
           dr == deps[h.dep]
<1>1. a \in Row /\ b \in Row /\ dr \in Nat
  BY ReleasedType
<1>2. /\ [b EXCEPT !.dep = h.dep, !.depRev = dr, !.nextIn = 0] \in Row
      /\ [a EXCEPT !.dep = h.dep, !.depRev = dr, !.nextIn = 0,
                   !.availableIn = 0, !.cursor = NoCursor] \in Row
  <2> HIDE DEF a, b, dr
  <2> QED  BY <1>1, CursorType DEF Row
<1> QED  BY <1>2 DEF Blocked

LEMMA ReopenedType ==
  ASSUME NEW r \in Row
  PROVE  /\ Repaired(r) \in Row
         /\ Woken(r) \in Row
         /\ \A w \in Workers : Claimed(w, r) \in Row
         /\ [r EXCEPT !.lease = LeaseLen] \in Row
         /\ Aged(r) \in Row
<1> DEFINE b == Released(r, "READY")
           rq == b.requested + 1
           fe == r.fence + 1
           l == Closer(r.lease)
           a == Closer(r.availableIn)
           n == Closer(r.nextIn)
<1>1. b \in Row /\ rq \in Nat /\ fe \in Nat /\ r.requested \in Nat
  BY ReleasedType DEF Row
<1>2. l \in Nat /\ a \in Nat /\ n \in Nat
  BY DEF Row, Closer
<1>3. [b EXCEPT !.requested = rq, !.availableIn = 0, !.nextIn = 0,
                !.fails = 0, !.failRev = 0, !.cursor = NoCursor] \in Row
  <2> HIDE DEF b, rq
  <2> QED  BY <1>1, CursorType DEF Row
<1>4. [r EXCEPT !.lease = l, !.availableIn = a, !.nextIn = n] \in Row
  <2> HIDE DEF l, a, n
  <2> QED  BY <1>2 DEF Row
<1>5. Woken(r) \in Row
  BY CursorType DEF Woken, Row
<1>6. ASSUME NEW w \in Workers
      PROVE  [r EXCEPT !.state = "CLAIMED", !.owner = w, !.fence = fe,
                       !.claimed = r.requested, !.lease = LeaseLen] \in Row
  <2> HIDE DEF fe
  <2> QED  BY <1>1, BoundAssumption DEF Row
<1>7. [r EXCEPT !.lease = LeaseLen] \in Row
  BY BoundAssumption DEF Row
<1> QED  BY <1>3, <1>4, <1>5, <1>6, <1>7 DEF Repaired, Claimed, Aged

(* An executor lets go of its row. *)
LEMMA DropType ==
  ASSUME TypeOK, NEW w \in Workers,
         handle' = [handle EXCEPT ![w] = Idle]
  PROVE  /\ handle' \in [Workers -> Handle]
         /\ \A v \in Workers : handle'[v].blocked => handle'[v].dep \in Deps
BY IdleType DEF TypeOK

(* What the settling transaction commits of the page is of the right type. *)
LEMMA PageType ==
  ASSUME TypeOK, NEW w \in Workers, PageCommitted(handle[w])
  PROVE  /\ seen' \in [DomainItems -> [1..Pages -> Nat]]
         /\ seenGen' \in [DomainItems -> [1..Pages -> Nat]]
<1> DEFINE h == handle[w]
<1>1. h.read \in Nat /\ h.gen \in Nat
  BY DEF TypeOK, Handle
<1>2. CASE h.item \in Atomic
  <2> DEFINE read == h.read
             gen == h.gen
             item == h.item
             page == h.page + 1
  <2>1. /\ seen' = [seen EXCEPT ![item][page] = read]
        /\ seenGen' = [seenGen EXCEPT ![item][page] = gen]
    BY <1>2 DEF PageCommitted
  <2> HIDE DEF read, gen, item, page
  <2> QED  BY <1>1, <2>1 DEF TypeOK, read, gen
<1>3. CASE h.item \notin Atomic
  BY <1>3 DEF PageCommitted, TypeOK
<1> QED  BY <1>2, <1>3

LEMMA TypeStep == TypeOK /\ [Next]_vars => TypeOK'
<1> SUFFICES ASSUME TypeOK, [Next]_vars PROVE TypeOK'
  OBVIOUS
<1> USE DEF TypeOK
<1>1. ASSUME NEW i \in Work, Publish(i) PROVE TypeOK'
  <2>1. PICK delay \in {0, MaxDelay} :
          rows' = Write(i, Published(rows[i], delay, NoDep, 0))
    BY <1>1 DEF Publish
  <2>2. delay \in Nat
    BY BoundAssumption
  <2>3. Published(rows[i], delay, NoDep, 0) \in Row
    BY <2>2, PublishedType
  <2>4. rows' \in [Work -> Row]
    BY <2>1, <2>3, WriteType
  <2> QED  BY <1>1, <2>4 DEF Publish
<1>2. ASSUME NEW i \in Work, Repair(i) PROVE TypeOK'
  <2>1. Repaired(rows[i]) \in Row
    BY ReopenedType
  <2>2. rows' \in [Work -> Row]
    BY <1>2, <2>1, WriteType DEF Repair
  <2> QED  BY <1>2, <2>2 DEF Repair
<1>3. ASSUME NEW d \in Deps, Bump(d) PROVE TypeOK'
  <2>1. WakeOf[d] \in Work /\ deps[d] + 1 \in Nat
    BY WorkAssumption
  <2>2. Published(rows[WakeOf[d]], 0, d, deps[d] + 1) \in Row
    BY <2>1, PublishedType
  <2>3. rows' \in [Work -> Row]
    BY <1>3, <2>1, <2>2, WriteType DEF Bump
  <2>4. deps' \in [Deps -> Nat] /\ open' \in [Deps -> BOOLEAN]
    BY <1>3 DEF Bump
  <2> QED  BY <1>3, <2>3, <2>4 DEF Bump
<1>4. ASSUME NEW w \in Workers, NEW i \in Work, Claim(w, i) PROVE TypeOK'
  <2> DEFINE c == Stored(rows[i], Claimed(w, rows[i]))
             page == IF i \in WakeItems THEN 0 ELSE StartPage(i, c)
             dp == IF i \in WakeItems THEN c.dep ELSE NoDep
             dr == IF i \in WakeItems THEN c.depRev ELSE -1
             g == rows[i].gen
             h == [Idle EXCEPT !.busy = TRUE, !.item = i, !.fence = c.fence,
                     !.claimed = c.claimed, !.gen = g, !.page = page,
                     !.dep = dp, !.depRev = dr]
  <2>1. c \in Row
    BY ReopenedType, StoredType
  <2>2. /\ c.fence \in Nat /\ c.claimed \in Nat /\ g \in Nat
        /\ dp \in Deps \cup {NoDep} /\ dr \in Nat \cup {-1}
    <3> HIDE DEF c
    <3> QED  BY <2>1 DEF Row
  <2>7. page \in 0..(Pages - 1)
    <3> HIDE DEF c
    <3>1. c.cursor \in [page : 0..(Pages - 1), rev : Nat]
      BY <2>1 DEF Row
    <3>2. c.cursor.page \in 0..(Pages - 1) /\ 0 \in 0..(Pages - 1)
      BY <3>1, BoundAssumption
    <3> QED  BY <3>2 DEF StartPage
  <2>3. rows' = [rows EXCEPT ![i] = c] /\ handle' = [handle EXCEPT ![w] = h]
    BY <1>4 DEF Claim
  <2>4. h \in Handle /\ h.blocked = FALSE
    <3> HIDE DEF c, page, dp, dr, g
    <3> QED  BY <2>2, <2>7, IdleType DEF Handle
  <2> HIDE DEF c, h
  <2>5. rows' \in [Work -> Row] /\ handle' \in [Workers -> Handle]
    BY <2>1, <2>3, <2>4
  <2>6. \A v \in Workers : handle'[v].blocked => handle'[v].dep \in Deps
    BY <2>3, <2>4
  <2> QED  BY <1>4, <2>5, <2>6 DEF Claim
<1>5. ASSUME NEW w \in Workers, Process(w) PROVE TypeOK'
  <2> DEFINE h == handle[w]
             item == h.item
             page == h.page + 1
             source == rows[item].requested
             gen == h.gen
             n == [h EXCEPT !.read = source, !.dep = NoDep, !.depRev = -1]
  <2>1. source \in Nat /\ gen \in Nat
    BY DEF Handle, Row
  <2>2. handle' = [handle EXCEPT ![w] = n]
    BY <1>5 DEF Process
  <2>3. n \in Handle /\ ~n.blocked
    <3>1. h \in Handle /\ ~h.blocked
      BY <1>5 DEF Process
    <3> HIDE DEF source, h
    <3> QED  BY <2>1, <3>1 DEF Handle
  <2>4. /\ seen' = seen \/ seen' = [seen EXCEPT ![item][page] = source]
        /\ seenGen' = seenGen
             \/ seenGen' = [seenGen EXCEPT ![item][page] = gen]
    BY <1>5 DEF Process
  <2> HIDE DEF h, item, page, source, gen, n
  <2>5. seen' \in [DomainItems -> [1..Pages -> Nat]]
    <3>1. [seen EXCEPT ![item][page] = source]
             \in [DomainItems -> [1..Pages -> Nat]]
      BY <2>1
    <3> QED  BY <2>4, <3>1
  <2>8. seenGen' \in [DomainItems -> [1..Pages -> Nat]]
    <3>1. [seenGen EXCEPT ![item][page] = gen]
             \in [DomainItems -> [1..Pages -> Nat]]
      BY <2>1
    <3> QED  BY <2>4, <3>1
  <2>6. handle' \in [Workers -> Handle]
    BY <2>2, <2>3
  <2>7. \A v \in Workers : handle'[v].blocked => handle'[v].dep \in Deps
    BY <2>2, <2>3
  <2> QED  BY <1>5, <2>5, <2>6, <2>7, <2>8 DEF Process
<1>6. ASSUME NEW w \in Workers, Wake(w) PROVE TypeOK'
  <2>1. PICK batch \in SUBSET Work :
          rows' = [i \in Work |-> IF i \in batch
                     THEN Stored(rows[i], Woken(rows[i])) ELSE rows[i]]
    BY <1>6 DEF Wake, Asleep
  <2>2. \A i \in Work : Stored(rows[i], Woken(rows[i])) \in Row
    BY ReopenedType, StoredType
  <2>3. rows' \in [Work -> Row]
    BY <2>1, <2>2
  <2>4. lapses' \in Nat
    BY <1>6 DEF Wake
  <2> DEFINE rest == Asleep(rows', handle[w].dep, handle[w].depRev) # {}
             n == [handle[w] EXCEPT !.read = 1, !.remaining = rest]
  <2>5. handle' = [handle EXCEPT ![w] = n]
    BY <1>6 DEF Wake
  <2>6. n \in Handle /\ n.blocked = handle[w].blocked
          /\ n.dep = handle[w].dep
    <3>1. rest \in BOOLEAN
      OBVIOUS
    <3> HIDE DEF rest
    <3> QED  BY <3>1 DEF Handle
  <2> HIDE DEF n
  <2>7. /\ handle' \in [Workers -> Handle]
        /\ \A v \in Workers : handle'[v].blocked => handle'[v].dep \in Deps
    BY <2>5, <2>6
  <2> QED  BY <1>6, <2>3, <2>4, <2>7 DEF Wake
<1>7. ASSUME NEW w \in Workers, Ack(w) PROVE TypeOK'
  <2>1. Acked(w, handle[w], rows[handle[w].item]) \in Row
          /\ handle[w].item \in Work
    BY SettledType DEF Handle
  <2>2. rows' \in [Work -> Row]
    BY <1>7, <2>1, WriteType DEF Ack
  <2> QED  BY <1>7, <2>2, DropType, PageType DEF Ack
<1>8. ASSUME NEW w \in Workers, Yield(w) PROVE TypeOK'
  <2>1. PICK due \in {0, MaxDelay} : rows' =
          Write(handle[w].item,
                Yielded(w, handle[w], rows[handle[w].item], due))
    BY <1>8 DEF Yield
  <2>2. due \in Nat /\ handle[w].item \in Work
    BY BoundAssumption DEF Handle
  <2>3. Yielded(w, handle[w], rows[handle[w].item], due) \in Row
    BY <1>8, <2>2, SettledType DEF Yield
  <2>4. rows' \in [Work -> Row]
    BY <2>1, <2>2, <2>3, WriteType
  <2> QED  BY <1>8, <2>4, DropType, PageType DEF Yield
<1>9. ASSUME NEW w \in Workers, SaveProgress(w) PROVE TypeOK'
  <2> DEFINE h == handle[w]
             page == h.page + 1
             n == [h EXCEPT !.page = page, !.read = 0]
  <2>1. h.item \in Work /\ h.item \notin WakeItems /\ ~Finished(h)
    BY <1>9, WorkAssumption DEF SaveProgress, Handle, DomainItems
  <2>2. Saved(h, rows[h.item]) \in Row
    BY <2>1, SettledType
  <2>3. rows' \in [Work -> Row]
    BY <1>9, <2>1, <2>2, WriteType DEF SaveProgress
  <2>4. page \in 0..(Pages - 1)
    BY <2>1, BoundAssumption DEF Finished, Handle
  <2>5. handle' = [handle EXCEPT ![w] = n]
    BY <1>9 DEF SaveProgress
  <2>6. n \in Handle /\ n.blocked = handle[w].blocked
          /\ n.dep = handle[w].dep
    <3> HIDE DEF page
    <3> QED  BY <2>4 DEF Handle
  <2> HIDE DEF n
  <2>7. /\ handle' \in [Workers -> Handle]
        /\ \A v \in Workers : handle'[v].blocked => handle'[v].dep \in Deps
    BY <2>5, <2>6
  <2> QED  BY <1>9, <2>3, <2>7, PageType DEF SaveProgress
<1>10. ASSUME NEW w \in Workers, Block(w) PROVE TypeOK'
  <2>1. handle[w].item \in Work /\ handle[w].dep \in Deps
    BY <1>10 DEF Block, Handle
  <2>2. Blocked(w, handle[w], rows[handle[w].item]) \in Row
    BY <2>1, BlockedType
  <2>3. rows' \in [Work -> Row]
    BY <1>10, <2>1, <2>2, WriteType DEF Block
  <2> QED  BY <1>10, <2>3, DropType DEF Block
<1>11. ASSUME NEW w \in Workers, LoseClaim(w) \/ Crash(w) PROVE TypeOK'
  <2>1. lapses' \in Nat
    BY <1>11 DEF LoseClaim, Crash
  <2>2. handle' = [handle EXCEPT ![w] = Idle]
    BY <1>11 DEF LoseClaim, Crash
  <2> QED  BY <1>11, <2>1, <2>2, DropType DEF LoseClaim, Crash
<1>12. ASSUME NEW w \in Workers, NEW d \in Deps,
              Capture(w, d) \/ Observe(w, d)
       PROVE  TypeOK'
  <2> DEFINE n == [handle[w] EXCEPT !.dep = d, !.depRev = deps[d]]
             m == [handle[w] EXCEPT !.dep = d, !.blocked = TRUE]
  <2>1. \/ handle' = [handle EXCEPT ![w] = n]
        \/ handle' = [handle EXCEPT ![w] = m]
    BY <1>12 DEF Capture, Observe
  <2>2. n \in Handle /\ m \in Handle /\ n.dep = d /\ m.dep = d
    BY DEF Handle
  <2> HIDE DEF n, m
  <2>3. /\ handle' \in [Workers -> Handle]
        /\ \A v \in Workers : handle'[v].blocked => handle'[v].dep \in Deps
    BY <2>1, <2>2
  <2> QED  BY <1>12, <2>3 DEF Capture, Observe
<1>13. ASSUME NEW w \in Workers, NEW kind \in FailureKinds, Fail(w, kind)
       PROVE  TypeOK'
  <2>1. PICK due \in 1..MaxDelay : rows' =
          Write(handle[w].item,
                Failed(w, handle[w], rows[handle[w].item], kind, due))
    BY <1>13 DEF Fail
  <2>2. due \in Nat /\ handle[w].item \in Work
          /\ kind \in {"contract", "database", "other"}
    BY BoundAssumption, WorkAssumption DEF Handle
  <2>3. Failed(w, handle[w], rows[handle[w].item], kind, due) \in Row
    BY <2>2, SettledType
  <2>4. rows' \in [Work -> Row]
    BY <2>1, <2>2, <2>3, WriteType
  <2>5. lapses' \in Nat
    BY <1>13 DEF Fail
  <2> QED  BY <1>13, <2>4, <2>5, DropType DEF Fail
<1>14. ASSUME NEW w \in Workers, Heartbeat(w) PROVE TypeOK'
  <2>1. [rows[handle[w].item] EXCEPT !.lease = LeaseLen] \in Row
          /\ handle[w].item \in Work
    BY ReopenedType DEF Handle
  <2>2. rows' \in [Work -> Row]
    BY <1>14, <2>1, WriteType DEF Heartbeat
  <2> QED  BY <1>14, <2>2 DEF Heartbeat
<1>15. CASE Activate
  BY <1>15 DEF Activate
<1>16. CASE Tick
  <2>1. IsFiniteSet(Lapsing)
    BY WorkAssumption, FS_Subset DEF Lapsing
  <2>2. Cardinality(Lapsing) \in Nat
    BY <2>1, FS_CardinalityType
  <2>3. lapses' \in Nat
    <3>1. lapses \in Nat /\ lapses' = lapses + Cardinality(Lapsing)
      BY <1>16 DEF Tick
    <3> HIDE DEF TypeOK
    <3> QED  BY <2>2, <3>1
  <2>4. \A i \in Work : Aged(rows[i]) \in Row
    BY ReopenedType
  <2>5. rows' \in [Work -> Row]
    BY <1>16, <2>4 DEF Tick
  <2> QED  BY <1>16, <2>3, <2>5 DEF Tick
<1>17. CASE UNCHANGED vars
  BY <1>17 DEF vars
<1> QED
  BY <1>1, <1>2, <1>3, <1>4, <1>5, <1>6, <1>7, <1>8, <1>9, <1>10, <1>11,
     <1>12, <1>13, <1>14, <1>15, <1>16, <1>17 DEF Next, Execute

(* Every column and every handle keeps its type for any number of rows,    *)
(* dependencies, executors, pages and ticks.                               *)
THEOREM TypeCorrect == Spec => []TypeOK
<1>1. Init => TypeOK
  BY AbsentType, IdleType DEF Init, TypeOK
<1> QED  BY <1>1, TypeStep, PTL DEF Spec

-----------------------------------------------------------------------------
(***************************************************************************)
(* The inductive invariant.  r is the row of i and s what its pages        *)
(* reflect.  A cursor of the requested revision vouches for the pages      *)
(* before it; so does the handle of the worker whose claim is current, as  *)
(* long as no newer revision arrived.                                      *)
(***************************************************************************)
RowGood(i, r, s) ==
  /\ \A p \in 1..Pages : s[p] <= r.requested
  /\ r.completed <= r.requested
  /\ r.state = "DONE" => r.completed = r.requested
  /\ i \in Tagged =>
       /\ r.cursor.rev <= r.requested
       /\ r.cursor.rev = r.requested =>
            \A p \in 1..r.cursor.page : s[p] = r.requested
       /\ r.state = "DONE" => \A p \in 1..Pages : s[p] = r.requested

Owns(w, h, r) == r.state = "CLAIMED" /\ r.owner = w /\ r.fence = h.fence

HandleGood(w, h, r, s) ==
  h.busy /\ h.item \in DomainItems =>
    /\ h.fence <= r.fence /\ h.claimed <= r.requested
    /\ h.read <= r.requested
    /\ h.read > 0 => h.claimed <= h.read
    /\ Owns(w, h, r) =>
         /\ h.item \in Tagged /\ r.requested = h.claimed =>
              /\ \A p \in 1..h.page : s[p] = r.requested
              /\ h.read > 0 /\ h.item \notin Atomic =>
                   s[h.page + 1] = r.requested
         /\ h.item \in Atomic /\ h.read > 0 =>
              \A p \in 1..Pages : s[p] <= h.read

IInv ==
  /\ TypeOK
  /\ \A i \in DomainItems : RowGood(i, rows[i], seen[i])
  /\ \A w \in Workers : HandleGood(w, handle[w], rows[handle[w].item],
                                   seen[handle[w].item])

(* What every write does to the order of revisions and fences. *)
Succeeds(old, new) ==
  /\ old.requested <= new.requested /\ old.fence <= new.fence
  /\ new.state = "CLAIMED" /\ new.fence = old.fence =>
       old.state = "CLAIMED" /\ new.owner = old.owner

LEMMA LeqTransitive ==
  \A a, b, c \in Nat : a <= b /\ b <= c => a <= c
OBVIOUS

LEMMA RowTypes ==
  ASSUME NEW r \in Row
  PROVE  /\ r.requested \in Nat /\ r.completed \in Nat /\ r.claimed \in Nat
         /\ r.fence \in Nat
         /\ r.cursor.page \in 0..(Pages - 1) /\ r.cursor.rev \in Nat
BY DEF Row

LEMMA StoredFields ==
  ASSUME NEW old \in Row, NEW new \in Row
  PROVE  LET n == Stored(old, new)
         IN \/ /\ n.requested = new.requested /\ n.completed = new.completed
               /\ n.state = new.state /\ n.cursor = new.cursor
               /\ n.fence = new.fence /\ n.owner = new.owner
            \/ /\ n.requested = Later(new.requested, old.requested + 1)
               /\ n.fence = Later(new.fence, old.fence + 1)
               /\ n.completed = new.completed /\ n.cursor = NoCursor
               /\ n.state \in {"BLOCKED", "READY"}
<1>1. CASE old.state = "ABSENT" \/ old.gen = generation
  BY <1>1 DEF Stored, Row
<1>2. CASE old.state # "ABSENT" /\ old.gen # generation
  BY <1>2 DEF Stored, Row
<1> QED  BY <1>1, <1>2

LEMMA StoredGood ==
  ASSUME NEW i \in DomainItems, NEW old \in Row, NEW new \in Row,
         NEW s \in [1..Pages -> Nat], generation \in Nat,
         RowGood(i, new, s)
  PROVE  RowGood(i, Stored(old, new), s)
<1> DEFINE n == Stored(old, new)
<1>1. /\ old.requested \in Nat /\ new.requested \in Nat
      /\ new.completed \in Nat /\ \A p \in 1..Pages : s[p] \in Nat
  BY RowTypes
<1>2. CASE /\ n.requested = new.requested /\ n.completed = new.completed
           /\ n.state = new.state /\ n.cursor = new.cursor
  <2>1. RowGood(i, n, s)
    <3> HIDE DEF n
    <3> QED  BY <1>2 DEF RowGood
  <2> QED  BY <2>1
<1>3. CASE /\ n.requested = Later(new.requested, old.requested + 1)
           /\ n.completed = new.completed /\ n.cursor = NoCursor
           /\ n.state \in {"BLOCKED", "READY"}
  <2>1. n.requested \in Nat /\ new.requested <= n.requested
    <3> HIDE DEF n
    <3> QED  BY <1>1, <1>3 DEF Later
  <2>2. new.completed <= new.requested
          /\ \A p \in 1..Pages : s[p] <= new.requested
    BY DEF RowGood
  <2>3. n.completed <= n.requested /\ \A p \in 1..Pages : s[p] <= n.requested
    <3> HIDE DEF n
    <3> QED  BY <1>1, <1>3, <2>1, <2>2, LeqTransitive
  <2>4. n.cursor.page = 0 /\ n.cursor.rev = 0
    BY <1>3 DEF NoCursor
  <2>5. RowGood(i, n, s)
    <3> HIDE DEF n
    <3> QED  BY <1>3, <2>1, <2>3, <2>4 DEF RowGood
  <2> QED  BY <2>5
<1> QED  BY <1>2, <1>3, StoredFields

LEMMA StoredSucceeds ==
  ASSUME NEW old \in Row, NEW new \in Row, Succeeds(old, new)
  PROVE  Succeeds(old, Stored(old, new))
<1> DEFINE n == Stored(old, new)
<1>1. /\ old.requested \in Nat /\ new.requested \in Nat
      /\ old.fence \in Nat /\ new.fence \in Nat
  BY RowTypes
<1>2. CASE /\ n.requested = new.requested /\ n.fence = new.fence
           /\ n.state = new.state /\ n.owner = new.owner
  <2>1. Succeeds(old, n)
    <3> HIDE DEF n
    <3> QED  BY <1>2 DEF Succeeds
  <2> QED  BY <2>1
<1>3. CASE /\ n.requested = Later(new.requested, old.requested + 1)
           /\ n.fence = Later(new.fence, old.fence + 1)
           /\ n.state \in {"BLOCKED", "READY"}
  <2>1. /\ old.requested <= n.requested
        /\ old.fence <= n.fence /\ n.fence # old.fence
    <3> HIDE DEF n
    <3> QED  BY <1>1, <1>3 DEF Later
  <2>2. Succeeds(old, n)
    <3> HIDE DEF n
    <3> QED  BY <1>3, <2>1 DEF Succeeds
  <2> QED  BY <2>2
<1> QED  BY <1>2, <1>3, StoredFields

(* A handle stays good while others write its row. *)
LEMMA HandleKept ==
  ASSUME NEW w \in Workers, NEW h \in Handle, NEW r \in Row, NEW n \in Row,
         NEW s \in [1..Pages -> Nat], NEW t \in [1..Pages -> Nat],
         HandleGood(w, h, r, s), Succeeds(r, n),
         Owns(w, h, r) =>
           \A p \in 1..Pages : \/ t[p] = s[p]
                               \/ h.item \notin Atomic /\ t[p] = n.requested
  PROVE  HandleGood(w, h, n, t)
<1> SUFFICES ASSUME h.busy, h.item \in DomainItems
             PROVE  HandleGood(w, h, n, t)
  BY DEF HandleGood
<1>1. /\ h.claimed \in Nat /\ h.read \in Nat /\ h.fence \in Nat
      /\ h.page \in 0..(Pages - 1) /\ Pages \in Nat \ {0}
      /\ r.requested \in Nat /\ n.requested \in Nat
      /\ r.fence \in Nat /\ n.fence \in Nat
  BY BoundAssumption DEF Handle, Row
<1>2. /\ h.fence <= n.fence /\ h.claimed <= n.requested
      /\ h.read <= n.requested /\ (h.read > 0 => h.claimed <= h.read)
  <2>1. /\ h.fence <= r.fence /\ h.claimed <= r.requested
        /\ h.read <= r.requested /\ (h.read > 0 => h.claimed <= h.read)
    BY DEF HandleGood
  <2>2. r.requested <= n.requested /\ r.fence <= n.fence
    BY DEF Succeeds
  <2>3. h.fence <= n.fence
    BY <1>1, <2>1, <2>2, LeqTransitive
  <2>4. h.claimed <= n.requested
    BY <1>1, <2>1, <2>2, LeqTransitive
  <2>5. h.read <= n.requested
    BY <1>1, <2>1, <2>2, LeqTransitive
  <2> QED  BY <2>1, <2>3, <2>4, <2>5
<1>3. ASSUME Owns(w, h, n)
      PROVE  /\ h.item \in Tagged /\ n.requested = h.claimed =>
                  /\ \A p \in 1..h.page : t[p] = n.requested
                  /\ h.read > 0 /\ h.item \notin Atomic =>
                       t[h.page + 1] = n.requested
             /\ h.item \in Atomic /\ h.read > 0 =>
                  \A p \in 1..Pages : t[p] <= h.read
  <2>1. Owns(w, h, r)
    <3>1. n.fence = r.fence
      BY <1>1, <1>3 DEF HandleGood, Succeeds, Owns
    <3> QED  BY <1>3, <3>1 DEF Succeeds, Owns
  <2>2. n.requested = h.claimed => r.requested = n.requested
    BY <1>1 DEF HandleGood, Succeeds
  <2>3. 1..h.page \subseteq 1..Pages /\ h.page + 1 \in 1..Pages
    <3> DEFINE page == h.page
    <3>1. page \in 0..(Pages - 1) /\ Pages \in Nat \ {0}
      BY <1>1
    <3> HIDE DEF page
    <3>2. page \in Int /\ page <= Pages - 1 /\ page >= 0 /\ Pages \in Int
      BY <3>1
    <3>3. 1..page \subseteq 1..Pages /\ page + 1 \in 1..Pages
      BY <3>2
    <3> QED  BY <3>3 DEF page
  <2> QED  BY <2>1, <2>2, <2>3 DEF HandleGood
<1> QED  BY <1>2, <1>3 DEF HandleGood

LEMMA SucceedsItself == \A r \in Row : Succeeds(r, r)
<1> TAKE r \in Row
<1>1. r.requested \in Nat /\ r.fence \in Nat
  BY RowTypes
<1> QED  BY <1>1 DEF Succeeds

(* A step keeps the invariant when every row it writes succeeds the old    *)
(* one and is good, and every handle is either made good or left alone     *)
(* while the pages of the row it owns stay, or reach what is requested.    *)
LEMMA GoodStep ==
  ASSUME IInv, TypeOK',
         \A i \in Work : Succeeds(rows[i], rows'[i]),
         \A i \in DomainItems : RowGood(i, rows'[i], seen'[i]),
         \A v \in Workers :
           LET h == handle[v]
               i == h.item
           IN \/ /\ handle'[v] = h
                 /\ Owns(v, h, rows[i]) /\ i \in DomainItems =>
                      \A p \in 1..Pages :
                        \/ seen'[i][p] = seen[i][p]
                        \/ i \notin Atomic /\ seen'[i][p] = rows'[i].requested
              \/ HandleGood(v, handle'[v], rows'[handle'[v].item],
                            seen'[handle'[v].item])
  PROVE  IInv'
<1>1. ASSUME NEW v \in Workers
      PROVE  HandleGood(v, handle'[v], rows'[handle'[v].item],
                        seen'[handle'[v].item])
  <2> DEFINE h == handle[v]
             i == h.item
  <2> SUFFICES ASSUME handle'[v] = h, i \in DomainItems,
                      Owns(v, h, rows[i]) =>
                        \A p \in 1..Pages :
                          \/ seen'[i][p] = seen[i][p]
                          \/ /\ i \notin Atomic
                             /\ seen'[i][p] = rows'[i].requested
               PROVE  HandleGood(v, h, rows'[i], seen'[i])
    <3>1. i \notin DomainItems => HandleGood(v, h, rows'[i], seen'[i])
      BY DEF HandleGood
    <3> QED  BY <3>1
  <2>1. /\ h \in Handle /\ i \in Work
        /\ rows[i] \in Row /\ rows'[i] \in Row
        /\ seen[i] \in [1..Pages -> Nat] /\ seen'[i] \in [1..Pages -> Nat]
    BY DEF IInv, TypeOK, DomainItems
  <2>2. HandleGood(v, h, rows[i], seen[i]) /\ Succeeds(rows[i], rows'[i])
    BY <2>1 DEF IInv
  <2>3. HandleGood(v, h, rows'[i], seen'[i])
    <3>1. h.item = i
      OBVIOUS
    <3> HIDE DEF h, i
    <3> QED  BY <2>1, <2>2, <3>1, HandleKept
  <2> QED  BY <2>3
<1> QED  BY <1>1 DEF IInv

(* One row is written, one handle changes, no page does. *)
LEMMA OneRow ==
  ASSUME IInv, TypeOK', NEW i \in Work, NEW n \in Row,
         rows' = [rows EXCEPT ![i] = n], seen' = seen,
         Succeeds(rows[i], n),
         i \in DomainItems => RowGood(i, n, seen[i]),
         \A v \in Workers :
           \/ handle'[v] = handle[v]
           \/ HandleGood(v, handle'[v], rows'[handle'[v].item],
                         seen'[handle'[v].item])
  PROVE  IInv'
<1>1. \A j \in Work : rows'[j] = IF j = i THEN n ELSE rows[j]
  BY DEF IInv, TypeOK
<1>2. \A j \in Work : Succeeds(rows[j], rows'[j])
  BY <1>1, SucceedsItself DEF IInv, TypeOK
<1>3. \A j \in DomainItems : RowGood(j, rows'[j], seen'[j])
  BY <1>1 DEF IInv, DomainItems
<1> QED  BY <1>2, <1>3, GoodStep

LEMMA IdleGood ==
  ASSUME NEW v, NEW r, NEW s
  PROVE  HandleGood(v, Idle, r, s)
BY DEF HandleGood, Idle

(* The rows of the handlers that commit no page. *)
LEMMA GoodKept ==
  ASSUME NEW i \in DomainItems, NEW r \in Row, NEW n \in Row,
         NEW s \in [1..Pages -> Nat], RowGood(i, r, s),
         n.requested \in {r.requested, r.requested + 1},
         n.completed = r.completed,
         n.cursor = r.cursor \/ n.cursor = NoCursor,
         n.state = "DONE" => n.state = r.state /\ n.requested = r.requested
  PROVE  RowGood(i, n, s)
<1>1. /\ r.requested \in Nat /\ n.requested \in Nat /\ r.completed \in Nat
      /\ \A p \in 1..Pages : s[p] \in Nat
      /\ r.cursor.rev \in Nat
  BY RowTypes
<1>2. r.requested <= n.requested
  BY <1>1
<1>3. \A p \in 1..Pages : s[p] <= n.requested
  BY <1>1, <1>2, LeqTransitive DEF RowGood
<1>4. n.completed <= n.requested
  BY <1>1, <1>2, LeqTransitive DEF RowGood
<1>5. n.state = "DONE" => n.completed = n.requested
  BY DEF RowGood
<1>6. ASSUME i \in Tagged
      PROVE  /\ n.cursor.rev <= n.requested
             /\ n.cursor.rev = n.requested =>
                  \A p \in 1..n.cursor.page : s[p] = n.requested
             /\ n.state = "DONE" => \A p \in 1..Pages : s[p] = n.requested
  <2>1. CASE n.cursor = NoCursor
    <3>1. n.cursor.rev = 0 /\ n.cursor.page = 0
      BY <2>1 DEF NoCursor
    <3> QED  BY <1>1, <1>6, <3>1 DEF RowGood
  <2>2. CASE n.cursor = r.cursor
    <3>1. r.cursor.rev <= r.requested
      BY <1>6 DEF RowGood
    <3>2. n.cursor.rev <= n.requested
      BY <1>1, <1>2, <2>2, <3>1, LeqTransitive
    <3>3. n.cursor.rev = n.requested => r.requested = n.requested
      BY <1>1, <2>2, <3>1
    <3> QED  BY <1>6, <2>2, <3>2, <3>3 DEF RowGood
  <2> QED  BY <2>1, <2>2
<1> QED  BY <1>3, <1>4, <1>5, <1>6 DEF RowGood

(* The fields the invariant reads, of each row a handler writes. *)
LEMMA OpenedFields ==
  ASSUME NEW r \in Row
  PROVE  /\ \A delay \in Nat, d \in Deps \cup {NoDep}, dRev \in Nat :
              LET n == Published(r, delay, d, dRev)
              IN /\ n.requested = r.requested + 1 /\ n.fence = r.fence
                 /\ n.completed = r.completed
                 /\ n.cursor = r.cursor \/ n.cursor = NoCursor
                 /\ \/ n.state = "READY"
                    \/ n.state = "CLAIMED" /\ r.state = "CLAIMED"
                         /\ n.owner = r.owner
         /\ LET n == Repaired(r)
            IN /\ n.requested = r.requested + 1 /\ n.fence = r.fence
               /\ n.completed = r.completed /\ n.cursor = NoCursor
               /\ n.state = "READY"
         /\ LET n == Woken(r)
            IN /\ n.requested = r.requested /\ n.fence = r.fence
               /\ n.completed = r.completed /\ n.cursor = NoCursor
               /\ n.state = "READY"
         /\ \A w \in Workers :
              LET n == Claimed(w, r)
              IN /\ n.requested = r.requested /\ n.fence = r.fence + 1
                 /\ n.completed = r.completed /\ n.cursor = r.cursor
                 /\ n.state = "CLAIMED" /\ n.claimed = r.requested
         /\ LET n == [r EXCEPT !.lease = LeaseLen]
            IN /\ n.requested = r.requested /\ n.fence = r.fence
               /\ n.completed = r.completed /\ n.cursor = r.cursor
               /\ n.state = r.state /\ n.owner = r.owner
         /\ LET n == Aged(r)
            IN /\ n.requested = r.requested /\ n.fence = r.fence
               /\ n.completed = r.completed /\ n.cursor = r.cursor
               /\ n.state = r.state /\ n.owner = r.owner
<1>1. ASSUME NEW delay \in Nat, NEW d \in Deps \cup {NoDep}, NEW dRev \in Nat
      PROVE  LET n == Published(r, delay, d, dRev)
             IN /\ n.requested = r.requested + 1 /\ n.fence = r.fence
                /\ n.completed = r.completed
                /\ n.cursor = r.cursor \/ n.cursor = NoCursor
                /\ \/ n.state = "READY"
                   \/ n.state = "CLAIMED" /\ r.state = "CLAIMED"
                        /\ n.owner = r.owner
  <2>1. CASE r.state = "ABSENT"
    BY <2>1 DEF Published, Row
  <2>2. CASE r.state # "ABSENT"
    BY <2>2 DEF Published, Row
  <2> QED  BY <2>1, <2>2
<1>2. LET n == Repaired(r)
      IN /\ n.requested = r.requested + 1 /\ n.fence = r.fence
         /\ n.completed = r.completed /\ n.cursor = NoCursor
         /\ n.state = "READY"
  BY DEF Repaired, Released, Row
<1>3. LET n == Woken(r)
      IN /\ n.requested = r.requested /\ n.fence = r.fence
         /\ n.completed = r.completed /\ n.cursor = NoCursor
         /\ n.state = "READY"
  BY DEF Woken, Row
<1>4. ASSUME NEW w \in Workers
      PROVE  LET n == Claimed(w, r)
             IN /\ n.requested = r.requested /\ n.fence = r.fence + 1
                /\ n.completed = r.completed /\ n.cursor = r.cursor
                /\ n.state = "CLAIMED" /\ n.claimed = r.requested
  BY DEF Claimed, Row
<1>5. LET n == Aged(r)
      IN /\ n.requested = r.requested /\ n.fence = r.fence
         /\ n.completed = r.completed /\ n.cursor = r.cursor
         /\ n.state = r.state /\ n.owner = r.owner
  BY DEF Aged, Row
<1> QED  BY <1>1, <1>2, <1>3, <1>4, <1>5 DEF Row

LEMMA SettledFields ==
  ASSUME NEW w \in Workers, NEW h \in Handle, NEW r \in Row,
         NEW kind, NEW due \in Nat
  PROVE  /\ LET n == Acked(w, h, r)
            IN /\ n.requested = r.requested /\ n.fence = r.fence
               /\ n.completed = Later(r.completed, h.claimed)
               /\ n.state = IF Newer(w) THEN "READY" ELSE "DONE"
               /\ n.cursor = IF Newer(w) THEN NoCursor ELSE r.cursor
         /\ LET n == Yielded(w, h, r, due)
            IN /\ n.requested = r.requested /\ n.fence = r.fence
               /\ n.completed = r.completed /\ n.state = "READY"
               /\ n.cursor = IF Newer(w) THEN NoCursor ELSE NextCursor(h)
         /\ LET n == Saved(h, r)
            IN /\ n.requested = r.requested /\ n.fence = r.fence
               /\ n.completed = r.completed /\ n.state = r.state
               /\ n.owner = r.owner /\ n.cursor = NextCursor(h)
         /\ LET n == Blocked(w, h, r)
            IN /\ n.requested = r.requested /\ n.fence = r.fence
               /\ n.completed = r.completed
               /\ n.state \in {"READY", "BLOCKED"}
               /\ n.cursor = r.cursor \/ n.cursor = NoCursor
         /\ LET n == Failed(w, h, r, kind, due)
            IN /\ n.requested = r.requested /\ n.fence = r.fence
               /\ n.completed = r.completed
               /\ n.state \in {"READY", "RECONCILE_REQUIRED"}
               /\ n.cursor = r.cursor \/ n.cursor = NoCursor
<1>1. LET n == Acked(w, h, r)
      IN /\ n.requested = r.requested /\ n.fence = r.fence
         /\ n.completed = Later(r.completed, h.claimed)
         /\ n.state = IF Newer(w) THEN "READY" ELSE "DONE"
         /\ n.cursor = IF Newer(w) THEN NoCursor ELSE r.cursor
  BY DEF Acked, Released, Row
<1>2. LET n == Yielded(w, h, r, due)
      IN /\ n.requested = r.requested /\ n.fence = r.fence
         /\ n.completed = r.completed /\ n.state = "READY"
         /\ n.cursor = IF Newer(w) THEN NoCursor ELSE NextCursor(h)
  <2>1. CASE Newer(w)
    BY <2>1 DEF Yielded, Released, Row
  <2>2. CASE ~Newer(w)
    BY <2>2 DEF Yielded, Released, Row
  <2> QED  BY <2>1, <2>2
<1>3. LET n == Saved(h, r)
      IN /\ n.requested = r.requested /\ n.fence = r.fence
         /\ n.completed = r.completed /\ n.state = r.state
         /\ n.owner = r.owner /\ n.cursor = NextCursor(h)
  BY DEF Saved, Row
<1>4. LET n == Blocked(w, h, r)
      IN /\ n.requested = r.requested /\ n.fence = r.fence
         /\ n.completed = r.completed
         /\ n.state \in {"READY", "BLOCKED"}
         /\ n.cursor = r.cursor \/ n.cursor = NoCursor
  <2>1. CASE ~DependencyMoved(h) /\ ~Newer(w)
    BY <2>1 DEF Blocked, Released, Row
  <2>2. CASE DependencyMoved(h) \/ Newer(w)
    BY <2>2 DEF Blocked, Released, Row
  <2> QED  BY <2>1, <2>2
<1>5. LET n == Failed(w, h, r, kind, due)
      IN /\ n.requested = r.requested /\ n.fence = r.fence
         /\ n.completed = r.completed
         /\ n.state \in {"READY", "RECONCILE_REQUIRED"}
         /\ n.cursor = r.cursor \/ n.cursor = NoCursor
  <2>1. CASE Newer(w)
    BY <2>1 DEF Failed, Released, Row
  <2>2. CASE ~Newer(w) /\ Parks(h, r, kind)
    BY <2>2 DEF Failed, Released, Row
  <2>3. CASE ~Newer(w) /\ ~Parks(h, r, kind)
    BY <2>3 DEF Failed, Released, Row
  <2> QED  BY <2>1, <2>2, <2>3
<1> QED  BY <1>1, <1>2, <1>3, <1>4, <1>5

(* A row written over with the page's commit left alone. *)
LEMMA StoredKept ==
  ASSUME NEW i \in Work, NEW r \in Row, NEW m \in Row, generation \in Nat,
         seen \in [DomainItems -> [1..Pages -> Nat]],
         i \in DomainItems => RowGood(i, r, seen[i]),
         m.requested \in {r.requested, r.requested + 1},
         m.completed = r.completed, m.fence = r.fence,
         m.cursor = r.cursor \/ m.cursor = NoCursor,
         m.state # "DONE",
         m.state = "CLAIMED" => r.state = "CLAIMED" /\ m.owner = r.owner
  PROVE  /\ Stored(r, m) \in Row /\ Succeeds(r, Stored(r, m))
         /\ i \in DomainItems => RowGood(i, Stored(r, m), seen[i])
<1>1. /\ r.requested \in Nat /\ r.fence \in Nat
  BY RowTypes
<1>2. Succeeds(r, m)
  BY <1>1 DEF Succeeds
<1>3. ASSUME i \in DomainItems PROVE RowGood(i, m, seen[i])
  <2> DEFINE s == seen[i]
  <2>1. s \in [1..Pages -> Nat] /\ RowGood(i, r, s)
    BY <1>3
  <2>2. m.state = "DONE" => m.state = r.state /\ m.requested = r.requested
    OBVIOUS
  <2>3. RowGood(i, m, s)
    <3> HIDE DEF s
    <3> QED  BY ONLY <1>3, <2>1, <2>2, GoodKept, r \in Row, m \in Row,
                m.requested \in {r.requested, r.requested + 1},
                m.completed = r.completed,
                m.cursor = r.cursor \/ m.cursor = NoCursor
  <2> QED  BY <2>3
<1> QED  BY <1>2, <1>3, StoredSucceeds, StoredGood, StoredType

(* The settling handlers that commit a page: Ack, Yield and SaveProgress.  *)
(* m is the row they ask for; it vouches for the page just committed.      *)
LEMMA PageSettled ==
  ASSUME IInv, NEW w \in Workers, Holds(w), handle[w].read > 0,
         PageCommitted(handle[w])
  PROVE  LET h == handle[w]
             i == h.item
             r == rows[i]
         IN i \in DomainItems =>
              /\ \A p \in 1..Pages : seen'[i][p] \in Nat
                                       /\ seen'[i][p] <= r.requested
              /\ \A p \in 1..Pages : seen[i][p] <= seen'[i][p]
              /\ ~Newer(w) => r.requested = h.claimed
              /\ i \in Tagged /\ ~Newer(w) =>
                   \A p \in 1..(h.page + 1) : seen'[i][p] = r.requested
              /\ \A j \in DomainItems : j # i => seen'[j] = seen[j]
<1> DEFINE h == handle[w]
           i == h.item
           r == rows[i]
           s == seen[i]
           t == seen'[i]
<1> SUFFICES ASSUME i \in DomainItems
             PROVE  /\ \A p \in 1..Pages : t[p] \in Nat /\ t[p] <= r.requested
                    /\ \A p \in 1..Pages : s[p] <= t[p]
                    /\ ~Newer(w) => r.requested = h.claimed
                    /\ i \in Tagged /\ ~Newer(w) =>
                         \A p \in 1..(h.page + 1) : t[p] = r.requested
                    /\ \A j \in DomainItems : j # i => seen'[j] = seen[j]
  OBVIOUS
<1>1. /\ h \in Handle /\ i \in Work /\ r \in Row /\ s \in [1..Pages -> Nat]
      /\ seen \in [DomainItems -> [1..Pages -> Nat]]
  BY DEF IInv, TypeOK, DomainItems
<1>2. /\ h.claimed \in Nat /\ h.read \in Nat /\ h.page \in 0..(Pages - 1)
      /\ Pages \in Nat \ {0} /\ r.requested \in Nat
      /\ \A p \in 1..Pages : s[p] \in Nat
  <2> HIDE DEF h, r, s
  <2> QED  BY <1>1, RowTypes, BoundAssumption DEF Handle
<1>3. RowGood(i, r, s) /\ HandleGood(w, h, r, s)
  BY DEF IInv
<1>4. h.busy /\ Owns(w, h, r) /\ h.read > 0
  BY DEF Holds, Owns
<1>5. /\ h.claimed <= h.read /\ h.read <= r.requested
      /\ h.claimed <= r.requested
  BY <1>3, <1>4 DEF HandleGood
<1>6. ~Newer(w) => r.requested = h.claimed /\ h.read = h.claimed
  BY <1>2, <1>5 DEF Newer
<1>7. /\ i \in Tagged /\ ~Newer(w) =>
           /\ \A p \in 1..h.page : s[p] = r.requested
           /\ i \notin Atomic => s[h.page + 1] = r.requested
      /\ i \in Atomic => \A p \in 1..Pages : s[p] <= h.read
      /\ \A p \in 1..Pages : s[p] <= r.requested
  BY <1>3, <1>4, <1>6 DEF HandleGood, RowGood
<1>8. CASE i \in Atomic
  <2> DEFINE page == h.page + 1
             read == h.read
  <2>1. seen' = [seen EXCEPT ![i][page] = read]
    BY <1>8 DEF PageCommitted
  <2>2. \A j \in DomainItems : j # i => seen'[j] = seen[j]
    BY <1>1, <2>1
  <2>3. t = [s EXCEPT ![page] = read]
    BY <1>1, <2>1
  <2>4. page \in 1..Pages /\ h.page \in Nat
    BY <1>2
  <2>5. \A p \in 1..Pages : t[p] = IF p = page THEN read ELSE s[p]
    BY <1>1, <2>3, <2>4
  <2>6. \A p \in 1..Pages : t[p] \in Nat /\ t[p] <= r.requested
    BY <1>2, <1>5, <1>7, <2>5
  <2>7. \A p \in 1..Pages : s[p] <= t[p]
    <3> TAKE p \in 1..Pages
    <3>1. CASE p = page
      BY <1>7, <1>8, <2>5, <3>1
    <3>2. CASE p # page
      <4>1. t[p] = s[p] /\ s[p] \in Nat
        BY <1>2, <2>5, <3>2
      <4> QED  BY <4>1
    <3> QED  BY <3>1, <3>2
  <2>8. ASSUME i \in Tagged, ~Newer(w), NEW p \in 1..page
        PROVE  t[p] = r.requested
    <3>1. p \in 1..Pages /\ (p = page \/ p \in 1..h.page)
      <4> DEFINE q == h.page
      <4>1. q \in Nat /\ q <= Pages - 1 /\ Pages \in Nat
              /\ p \in 1..(q + 1)
        BY <1>2, <2>8
      <4> HIDE DEF q
      <4>2. p \in 1..Pages /\ (p = q + 1 \/ p \in 1..q)
        BY <4>1
      <4> QED  BY <4>2 DEF q
    <3> QED  BY <1>6, <1>7, <2>5, <2>8, <3>1
  <2> QED  BY <1>6, <2>2, <2>6, <2>7, <2>8
<1>9. CASE i \notin Atomic
  <2>1. seen' = seen
    BY <1>9 DEF PageCommitted
  <2>2. \A p \in 1..Pages : t[p] = s[p] /\ s[p] \in Nat
    BY <1>2, <2>1
  <2>3. \A p \in 1..Pages : t[p] \in Nat /\ t[p] <= r.requested
                              /\ s[p] <= t[p]
    BY <1>7, <2>2
  <2>4. ASSUME i \in Tagged, ~Newer(w), NEW p \in 1..(h.page + 1)
        PROVE  t[p] = r.requested
    <3> DEFINE q == h.page
    <3>1. q \in Nat /\ q <= Pages - 1 /\ Pages \in Nat /\ p \in 1..(q + 1)
      BY <1>2, <2>4
    <3>2. p \in 1..Pages /\ (p = q + 1 \/ p \in 1..q)
      <4> HIDE DEF q
      <4> QED  BY <3>1
    <3>3. p = q + 1 => t[p] = r.requested
      BY <1>7, <1>9, <2>2, <2>4, <3>2
    <3>4. p \in 1..q => t[p] = r.requested
      BY <1>7, <2>2, <2>4, <3>2
    <3> QED  BY <3>2, <3>3, <3>4
  <2> QED  BY <1>6, <2>1, <2>3, <2>4
<1> QED  BY <1>8, <1>9

LEMMA PageGood ==
  ASSUME IInv, TypeOK', NEW w \in Workers, Holds(w), handle[w].read > 0,
         PageCommitted(handle[w]), NEW m \in Row,
         rows' = Write(handle[w].item, m),
         m.requested = rows[handle[w].item].requested,
         m.fence = rows[handle[w].item].fence,
         \/ m.completed = rows[handle[w].item].completed /\ m.state # "DONE"
         \/ /\ m.completed =
                 Later(rows[handle[w].item].completed, handle[w].claimed)
            /\ m.state = "DONE" => ~Newer(w) /\ handle[w].page + 1 = Pages,
         m.state = "CLAIMED" => m.owner = w,
         \/ m.cursor = NoCursor
         \/ m.cursor = rows[handle[w].item].cursor /\ ~Newer(w)
         \/ m.cursor = NextCursor(handle[w]) /\ ~Newer(w),
         \/ handle'[w] = Idle
         \/ /\ ~Newer(w) /\ handle[w].page + 1 < Pages
            /\ handle'[w] = [handle[w] EXCEPT !.page = @ + 1, !.read = 0],
         \A v \in Workers : v # w => handle'[v] = handle[v],
         handle[w].item \in DomainItems
  PROVE  IInv'
<1> DEFINE h == handle[w]
           i == h.item
           r == rows[i]
           n == Stored(r, m)
           s == seen[i]
           t == seen'[i]
<1>1. /\ h \in Handle /\ i \in Work /\ r \in Row /\ s \in [1..Pages -> Nat]
      /\ t \in [1..Pages -> Nat] /\ generation \in Nat
  BY DEF IInv, TypeOK, DomainItems
<1>2. /\ r.requested \in Nat /\ r.fence \in Nat /\ r.completed \in Nat
      /\ h.claimed \in Nat /\ h.page \in 0..(Pages - 1) /\ Pages \in Nat \ {0}
      /\ r.cursor.page \in 0..(Pages - 1) /\ r.cursor.rev \in Nat
  <2> HIDE DEF h, r
  <2> QED  BY <1>1, RowTypes, BoundAssumption DEF Handle
<1>3. /\ \A p \in 1..Pages : t[p] \in Nat /\ t[p] <= r.requested
      /\ \A p \in 1..Pages : s[p] <= t[p]
      /\ ~Newer(w) => r.requested = h.claimed
      /\ i \in Tagged /\ ~Newer(w) =>
           \A p \in 1..(h.page + 1) : t[p] = r.requested
      /\ \A j \in DomainItems : j # i => seen'[j] = seen[j]
  BY PageSettled
<1>4. RowGood(i, r, s) /\ HandleGood(w, h, r, s)
  BY DEF IInv
<1>5. h.busy /\ Owns(w, h, r) /\ h.claimed <= r.requested
  BY <1>4 DEF Holds, Owns, HandleGood
<1>6. RowGood(i, m, t)
  <2>1. m.requested = r.requested
    OBVIOUS
  <2>2. m.completed <= m.requested
    <3>1. r.completed <= r.requested
      BY <1>4 DEF RowGood
    <3>2. \/ m.completed = r.completed
          \/ m.completed = Later(r.completed, h.claimed)
      OBVIOUS
    <3> HIDE DEF h, r
    <3> QED  BY <1>2, <1>5, <2>1, <3>1, <3>2 DEF Later
  <2>3. ASSUME m.state = "DONE"
        PROVE  /\ m.completed = m.requested
               /\ i \in Tagged => \A p \in 1..Pages : t[p] = m.requested
    <3>1. /\ m.completed = Later(r.completed, h.claimed)
          /\ ~Newer(w) /\ h.page + 1 = Pages
      BY <2>3
    <3>2. r.requested = h.claimed /\ r.completed <= r.requested
      BY <1>3, <1>4, <3>1 DEF RowGood
    <3>3. m.completed = m.requested
      <4> HIDE DEF h, r
      <4> QED  BY <1>2, <2>1, <3>1, <3>2 DEF Later
    <3>4. i \in Tagged => \A p \in 1..Pages : t[p] = m.requested
      BY <1>3, <2>1, <3>1
    <3> QED  BY <3>3, <3>4
  <2>4. ASSUME i \in Tagged
        PROVE  /\ m.cursor.rev <= m.requested
               /\ m.cursor.rev = m.requested =>
                    \A p \in 1..m.cursor.page : t[p] = m.requested
    <3>1. CASE m.cursor = NoCursor
      <4>1. m.cursor.rev = 0 /\ m.cursor.page = 0
        BY <3>1 DEF NoCursor
      <4> QED  BY <1>2, <2>1, <4>1
    <3>2. CASE m.cursor = r.cursor /\ ~Newer(w)
      <4>1. /\ r.cursor.rev <= r.requested
            /\ r.cursor.rev = r.requested =>
                 \A p \in 1..r.cursor.page : s[p] = r.requested
        BY <1>4, <2>4 DEF RowGood
      <4>2. ASSUME r.cursor.rev = r.requested, NEW p \in 1..r.cursor.page
            PROVE  t[p] = r.requested
        <5>1. p \in 1..Pages
          <6> DEFINE q == r.cursor.page
          <6>1. q \in Nat /\ q <= Pages - 1 /\ Pages \in Nat /\ p \in 1..q
            BY <1>2, <4>2
          <6> HIDE DEF q
          <6> QED  BY <6>1
        <5>2. /\ s[p] = r.requested /\ s[p] <= t[p]
              /\ t[p] \in Nat /\ t[p] <= r.requested
          BY <1>3, <4>1, <4>2, <5>1
        <5> QED  BY <1>2, <5>2
      <4> QED  BY <2>1, <3>2, <4>1, <4>2
    <3>3. CASE m.cursor = NextCursor(h) /\ ~Newer(w)
      <4>1. i \notin WakeItems
        BY DEF DomainItems
      <4>2. m.cursor.page = h.page + 1 /\ m.cursor.rev = h.claimed
        BY <2>4, <3>3, <4>1 DEF NextCursor
      <4> QED  BY <1>2, <1>3, <2>1, <2>4, <3>3, <4>2
    <3> QED  BY <3>1, <3>2, <3>3
  <2> HIDE DEF i, t
  <2> QED  BY <1>3, <2>1, <2>2, <2>3, <2>4 DEF RowGood
<1>7. Succeeds(r, m)
  BY <1>2, <1>5 DEF Succeeds, Owns
<1>8. n \in Row /\ RowGood(i, n, t) /\ Succeeds(r, n)
  <2> HIDE DEF h, i, r, t
  <2>1. i \in DomainItems
    BY DEF i, h
  <2> QED  BY <1>1, <1>6, <1>7, <2>1, StoredType, StoredGood, StoredSucceeds
<1>9. rows' = [rows EXCEPT ![i] = n]
  BY DEF Write
<1>10. \A j \in Work : rows'[j] = IF j = i THEN n ELSE rows[j]
  BY <1>9 DEF IInv, TypeOK
<1>11. \A j \in Work : Succeeds(rows[j], rows'[j])
  <2> HIDE DEF n
  <2> QED  BY <1>8, <1>10, SucceedsItself DEF IInv, TypeOK
<1>12. \A j \in DomainItems : RowGood(j, rows'[j], seen'[j])
  <2> TAKE j \in DomainItems
  <2>1. CASE j = i
    BY <1>1, <1>8, <1>10, <2>1
  <2>2. CASE j # i
    BY <1>3, <1>10, <2>2 DEF IInv, DomainItems
  <2> QED  BY <2>1, <2>2
<1>13. HandleGood(w, handle'[w], rows'[handle'[w].item],
                  seen'[handle'[w].item])
  <2>1. CASE handle'[w] = Idle
    BY <2>1, IdleGood
  <2>2. CASE /\ ~Newer(w) /\ h.page + 1 < Pages
             /\ handle'[w] = [h EXCEPT !.page = @ + 1, !.read = 0]
    <3> DEFINE k == handle'[w]
    <3>1. /\ k.item = i /\ k.busy /\ k.fence = h.fence
          /\ k.claimed = h.claimed /\ k.read = 0 /\ k.page = h.page + 1
      BY <1>1, <1>5, <2>2 DEF Handle
    <3>2. rows'[i] = n
      BY <1>1, <1>10
    <3>3. h.fence <= r.fence /\ h.fence \in Nat
      BY <1>1, <1>4, <1>5 DEF HandleGood, Handle
    <3>4. r.fence <= n.fence /\ r.requested <= n.requested
          /\ n.fence \in Nat /\ n.requested \in Nat
      BY <1>8, RowTypes DEF Succeeds
    <3>5. h.fence <= n.fence /\ h.claimed <= n.requested
      <4> HIDE DEF h, r, n
      <4> QED  BY <1>2, <1>5, <3>3, <3>4, LeqTransitive
    <3>6. ASSUME i \in Tagged, n.requested = h.claimed
          PROVE  \A p \in 1..(h.page + 1) : t[p] = n.requested
      <4>1. n.requested = r.requested
        BY <1>3, <2>2, <3>6
      <4> QED  BY <1>3, <2>2, <3>6, <4>1
    <3>7. HandleGood(w, k, n, t)
      <4> HIDE DEF k, n, h, r, t, i
      <4> QED  BY <3>1, <3>4, <3>5, <3>6 DEF HandleGood
    <3> QED  BY <3>1, <3>2, <3>7
  <2>3. \/ handle'[w] = Idle
        \/ /\ ~Newer(w) /\ h.page + 1 < Pages
           /\ handle'[w] = [h EXCEPT !.page = @ + 1, !.read = 0]
    OBVIOUS
  <2> HIDE DEF h
  <2> QED  BY <2>1, <2>2, <2>3
<1>14. ASSUME NEW v \in Workers, v # w,
              Owns(v, handle[v], rows[handle[v].item]),
              handle[v].item \in DomainItems
       PROVE  seen'[handle[v].item] = seen[handle[v].item]
  <2>1. handle[v].item # i
    BY <1>5, <1>14 DEF Owns
  <2> QED  BY <1>3, <1>14, <2>1
<1> HIDE DEF h, i, r, n, s, t
<1> QED  BY <1>11, <1>12, <1>13, <1>14, GoodStep

(* The settling handlers that commit no page: Block and Fail.              *)
LEMMA SettleGood ==
  ASSUME IInv, TypeOK', NEW w \in Workers, NEW m \in Row,
         handle[w].item \in Work,
         rows' = Write(handle[w].item, m), seen' = seen,
         m.requested = rows[handle[w].item].requested,
         m.fence = rows[handle[w].item].fence,
         m.completed = rows[handle[w].item].completed,
         m.cursor = rows[handle[w].item].cursor \/ m.cursor = NoCursor,
         m.state # "DONE", m.state # "CLAIMED",
         handle' = [handle EXCEPT ![w] = Idle]
  PROVE  IInv'
<1> DEFINE i == handle[w].item
           r == rows[i]
           n == Stored(r, m)
<1>1. /\ r \in Row /\ generation \in Nat
      /\ seen \in [DomainItems -> [1..Pages -> Nat]]
      /\ i \in DomainItems => RowGood(i, r, seen[i])
  BY DEF IInv, TypeOK
<1>2. n \in Row /\ Succeeds(r, n) /\ (i \in DomainItems => RowGood(i, n, seen[i]))
  <2>1. /\ i \in Work /\ m.requested \in {r.requested, r.requested + 1}
        /\ m.completed = r.completed /\ m.fence = r.fence
        /\ m.cursor = r.cursor \/ m.cursor = NoCursor
    OBVIOUS
  <2> HIDE DEF i, r
  <2> QED  BY <1>1, <2>1, StoredKept
<1>3. rows' = [rows EXCEPT ![i] = n]
  BY DEF Write
<1>4. \A v \in Workers :
        \/ handle'[v] = handle[v]
        \/ HandleGood(v, handle'[v], rows'[handle'[v].item],
                      seen'[handle'[v].item])
  <2> TAKE v \in Workers
  <2>1. handle'[v] = IF v = w THEN Idle ELSE handle[v]
    BY DEF IInv, TypeOK
  <2> QED  BY <2>1, IdleGood
<1>5. i \in Work
  OBVIOUS
<1> HIDE DEF i, n, r
<1> QED  BY <1>2, <1>3, <1>4, <1>5, OneRow DEF r

(* The handlers of producers, operators and heartbeats: no handle changes. *)
LEMMA WriteGood ==
  ASSUME IInv, TypeOK', NEW i \in Work, NEW m \in Row,
         rows' = Write(i, m), UNCHANGED <<handle, seen>>,
         m.requested \in {rows[i].requested, rows[i].requested + 1},
         m.fence = rows[i].fence, m.completed = rows[i].completed,
         m.cursor = rows[i].cursor \/ m.cursor = NoCursor,
         m.state # "DONE",
         m.state = "CLAIMED" =>
           rows[i].state = "CLAIMED" /\ m.owner = rows[i].owner
  PROVE  IInv'
<1> DEFINE r == rows[i]
           n == Stored(r, m)
<1>1. /\ r \in Row /\ generation \in Nat
      /\ seen \in [DomainItems -> [1..Pages -> Nat]]
      /\ i \in DomainItems => RowGood(i, r, seen[i])
  BY DEF IInv, TypeOK
<1>2. n \in Row /\ Succeeds(r, n) /\ (i \in DomainItems => RowGood(i, n, seen[i]))
  <2>1. /\ m.requested \in {r.requested, r.requested + 1}
        /\ m.completed = r.completed /\ m.fence = r.fence
        /\ m.cursor = r.cursor \/ m.cursor = NoCursor
        /\ m.state = "CLAIMED" => r.state = "CLAIMED" /\ m.owner = r.owner
    OBVIOUS
  <2> HIDE DEF r
  <2> QED  BY <1>1, <2>1, StoredKept
<1>3. rows' = [rows EXCEPT ![i] = n]
  BY DEF Write
<1> HIDE DEF n, r
<1> QED  BY <1>2, <1>3, OneRow DEF r

LEMMA ClaimGood ==
  ASSUME IInv, TypeOK', NEW w \in Workers, NEW i \in Work, Claim(w, i)
  PROVE  IInv'
<1> DEFINE r == rows[i]
           m == Claimed(w, r)
           n == Stored(r, m)
           k == handle'[w]
<1>1. /\ r \in Row /\ generation \in Nat /\ m \in Row /\ n \in Row
      /\ seen \in [DomainItems -> [1..Pages -> Nat]]
      /\ i \in DomainItems => RowGood(i, r, seen[i])
  BY ReopenedType, StoredType DEF IInv, TypeOK
<1>2. /\ m.requested = r.requested /\ m.fence = r.fence + 1
      /\ m.completed = r.completed /\ m.cursor = r.cursor
      /\ m.state = "CLAIMED" /\ m.claimed = r.requested
  <2> HIDE DEF r
  <2> QED  BY <1>1, OpenedFields
<1>3. /\ r.requested \in Nat /\ r.fence \in Nat
      /\ n.requested \in Nat /\ n.fence \in Nat /\ n.claimed \in Nat
  BY <1>1, RowTypes
<1>4. Succeeds(r, n)
  <2>1. Succeeds(r, m)
    <3> HIDE DEF r, m
    <3> QED  BY <1>2, <1>3 DEF Succeeds
  <2> HIDE DEF r, m
  <2> QED  BY <1>1, <2>1, StoredSucceeds
<1>5. ASSUME i \in DomainItems PROVE RowGood(i, n, seen[i])
  <2> DEFINE s == seen[i]
  <2>1. s \in [1..Pages -> Nat] /\ RowGood(i, r, s)
    BY <1>1, <1>5
  <2>2. RowGood(i, m, s)
    <3> HIDE DEF r, m, s
    <3> QED  BY <1>1, <1>2, <1>5, <2>1, GoodKept
  <2>3. RowGood(i, n, s)
    <3> HIDE DEF r, m, s
    <3> QED  BY <1>1, <1>5, <2>1, <2>2, StoredGood
  <2> QED  BY <2>3
<1>6. rows' = [rows EXCEPT ![i] = n] /\ seen' = seen
  BY DEF Claim
<1>7. /\ k.item = i /\ k.fence = n.fence /\ k.claimed = n.claimed
      /\ k.read = 0 /\ (i \notin WakeItems => k.page = StartPage(i, n))
  BY DEF Claim, IInv, TypeOK, Idle
<1>8. rows'[i] = n
  BY <1>6 DEF IInv, TypeOK
<1>9. n.claimed <= n.requested
      /\ (n.state = "CLAIMED" => n.claimed = n.requested)
  <2>1. CASE n = m \/ n = [m EXCEPT !.gen = generation]
    <3>1. /\ n.claimed = m.claimed /\ n.requested = m.requested
      BY <1>1, <2>1 DEF Row
    <3> HIDE DEF n, m, r
    <3> QED  BY <1>2, <1>3, <3>1
  <2>2. CASE n # m /\ n # [m EXCEPT !.gen = generation]
    <3>1. n.claimed = 0 /\ n.state # "CLAIMED"
      BY <1>1, <2>2 DEF Stored, Row
    <3> HIDE DEF n, m, r
    <3> QED  BY <1>3, <3>1
  <2> QED  BY <2>1, <2>2
<1>10. HandleGood(w, k, rows'[k.item], seen'[k.item])
  <2>1. ASSUME i \in DomainItems PROVE HandleGood(w, k, n, seen[i])
    <3>1. k.page = StartPage(i, n) /\ RowGood(i, n, seen[i])
      BY <1>5, <1>7, <2>1 DEF DomainItems
    <3>2. ASSUME n.state = "CLAIMED", i \in Tagged
          PROVE  \A p \in 1..k.page : seen[i][p] = n.requested
      <4>1. CASE n.cursor.rev # n.claimed
        BY <3>1, <3>2, <4>1 DEF StartPage
      <4>2. CASE n.cursor.rev = n.claimed
        <5>1. k.page = n.cursor.page /\ n.cursor.rev = n.requested
          BY <1>9, <3>1, <3>2, <4>2 DEF StartPage
        <5> QED  BY <3>1, <3>2, <5>1 DEF RowGood
      <4> QED  BY <4>1, <4>2
    <3> HIDE DEF k, n
    <3> QED  BY <1>3, <1>7, <1>9, <3>2 DEF HandleGood, Owns
  <2>2. ASSUME i \notin DomainItems PROVE HandleGood(w, k, n, seen'[i])
    BY <1>7, <2>2 DEF HandleGood
  <2> HIDE DEF k, n
  <2> QED  BY <1>6, <1>7, <1>8, <2>1, <2>2
<1>11. \A v \in Workers : v # w => handle'[v] = handle[v]
  BY DEF Claim, IInv, TypeOK
<1> HIDE DEF k, n, m, r
<1> QED  BY <1>1, <1>4, <1>5, <1>6, <1>10, <1>11, OneRow DEF k, r

LEMMA ProcessGood ==
  ASSUME IInv, TypeOK', NEW w \in Workers, Process(w)
  PROVE  IInv'
<1> DEFINE h == handle[w]
           i == h.item
           r == rows[i]
           page == h.page + 1
           k == handle'[w]
<1>1. /\ h \in Handle /\ i \in DomainItems /\ r \in Row /\ rows' = rows
      /\ seen \in [DomainItems -> [1..Pages -> Nat]] /\ h.busy
      /\ seen' \in [DomainItems -> [1..Pages -> Nat]]
  BY DEF Process, IInv, TypeOK, DomainItems
<1>2. /\ h.page \in Nat /\ page \in 1..Pages /\ r.requested \in Nat
      /\ h.claimed \in Nat /\ r.fence \in Nat
  <2> DEFINE q == h.page
  <2>1. q \in 0..(Pages - 1) /\ Pages \in Nat \ {0}
    BY <1>1, BoundAssumption DEF Handle
  <2>2. q \in Nat /\ q + 1 \in 1..Pages
    <3> HIDE DEF q
    <3> QED  BY <2>1
  <2>3. h.claimed \in Nat
    BY <1>1 DEF Handle
  <2> HIDE DEF h, r
  <2> QED  BY <1>1, <2>2, <2>3, RowTypes
<1>3. \A j \in DomainItems : j # i => seen'[j] = seen[j]
  BY <1>1 DEF Process
<1>4. IF i \in Atomic THEN seen' = seen
      ELSE seen' = [seen EXCEPT ![i][page] = r.requested]
  BY DEF Process
<1>5. \A p \in 1..Pages :
        seen'[i][p] = IF i \notin Atomic /\ p = page THEN r.requested
                      ELSE seen[i][p]
  <2> HIDE DEF h, i, r, page
  <2> QED  BY <1>1, <1>2, <1>4
<1>6. \A j \in Work : Succeeds(rows[j], rows'[j])
  BY <1>1, SucceedsItself DEF IInv, TypeOK
<1>7. \A j \in DomainItems : RowGood(j, rows'[j], seen'[j])
  <2> TAKE j \in DomainItems
  <2>1. CASE j # i
    BY <1>1, <1>3, <2>1 DEF IInv
  <2>2. CASE j = i
    <3>1. RowGood(i, r, seen[i])
      BY <1>1 DEF IInv
    <3>2. \A p \in 1..Pages : seen'[i][p] <= r.requested
      BY <1>2, <1>5, <3>1 DEF RowGood
    <3>3. \A p \in 1..Pages : seen[i][p] = r.requested
                                => seen'[i][p] = r.requested
      BY <1>5
    <3>4. 1..r.cursor.page \subseteq 1..Pages
      <4> DEFINE q == r.cursor.page
      <4>1. q \in 0..(Pages - 1) /\ Pages \in Nat \ {0}
        <5> HIDE DEF r
        <5> QED  BY <1>1, RowTypes, BoundAssumption DEF q
      <4>2. 1..q \subseteq 1..Pages
        <5> HIDE DEF q
        <5> QED  BY <4>1
      <4> QED  BY <4>2
    <3>5. RowGood(i, r, seen'[i])
      <4> HIDE DEF h, i, r
      <4> QED  BY <3>1, <3>2, <3>3, <3>4 DEF RowGood
    <3> QED  BY <1>1, <2>2, <3>5
  <2> QED  BY <2>1, <2>2
<1>8. HandleGood(w, k, rows'[k.item], seen'[k.item])
  <2>1. /\ k.item = i /\ k.busy = h.busy /\ k.fence = h.fence
        /\ k.claimed = h.claimed /\ k.page = h.page
        /\ k.read = r.requested
    BY <1>1 DEF Process, IInv, TypeOK, Handle
  <2>2. HandleGood(w, h, r, seen[i]) /\ RowGood(i, r, seen[i])
    BY <1>1 DEF IInv
  <2>3. 1..h.page \subseteq 1..Pages
    <3> DEFINE q == h.page
    <3>1. q \in Nat /\ q + 1 \in 1..Pages /\ Pages \in Nat
      BY <1>2, BoundAssumption
    <3>2. 1..q \subseteq 1..Pages
      <4> HIDE DEF q
      <4> QED  BY <3>1
    <3> QED  BY <3>2
  <2>4. h.fence <= r.fence /\ h.claimed <= r.requested
    BY <1>1, <2>2 DEF HandleGood
  <2>5. ASSUME i \in Tagged, r.requested = h.claimed, Owns(w, h, r)
        PROVE  \A p \in 1..h.page : seen'[i][p] = r.requested
    <3>1. \A p \in 1..h.page : seen[i][p] = r.requested
      BY <1>1, <2>2, <2>5 DEF HandleGood
    <3> QED  BY <1>5, <2>3, <3>1
  <2>6. i \notin Atomic => seen'[i][h.page + 1] = r.requested
    BY <1>2, <1>5
  <2>7. i \in Atomic => \A p \in 1..Pages : seen'[i][p] <= r.requested
    BY <1>5, <2>2 DEF RowGood
  <2>8. Owns(w, k, r) => Owns(w, h, r)
    BY <2>1 DEF Owns
  <2>9. HandleGood(w, k, r, seen'[i])
    <3> HIDE DEF h, i, k, r
    <3> QED  BY <1>2, <2>1, <2>4, <2>5, <2>6, <2>7, <2>8
             DEF HandleGood, page
  <2> QED  BY <1>1, <2>1, <2>9
<1>9. ASSUME NEW v \in Workers, v # w
      PROVE  handle'[v] = handle[v]
  BY <1>9 DEF Process, IInv, TypeOK
<1>10. ASSUME NEW v \in Workers, handle[v].item \in DomainItems,
              NEW p \in 1..Pages
       PROVE  LET j == handle[v].item
              IN \/ seen'[j][p] = seen[j][p]
                 \/ j \notin Atomic /\ seen'[j][p] = rows'[j].requested
  <2>1. CASE handle[v].item = i
    BY <1>1, <1>5, <2>1
  <2>2. CASE handle[v].item # i
    BY <1>3, <1>10, <2>2
  <2> QED  BY <2>1, <2>2
<1> HIDE DEF h, i, r, page
<1> QED  BY <1>6, <1>7, <1>8, <1>9, <1>10, GoodStep

(* The steps that write many rows: the wake batch and the clock. *)
LEMMA BatchGood ==
  ASSUME IInv, TypeOK', seen' = seen,
         \A j \in Work :
           \/ rows'[j] = rows[j]
           \/ rows'[j] = Stored(rows[j], Woken(rows[j]))
           \/ rows'[j] = Aged(rows[j]),
         \A v \in Workers :
           \/ handle'[v] = handle[v]
           \/ HandleGood(v, handle'[v], rows'[handle'[v].item],
                         seen'[handle'[v].item])
  PROVE  IInv'
<1>1. ASSUME NEW j \in Work
      PROVE  /\ Succeeds(rows[j], rows'[j])
             /\ j \in DomainItems => RowGood(j, rows'[j], seen[j])
  <2> DEFINE r == rows[j]
             k == Woken(r)
             c == Aged(r)
  <2>1. /\ r \in Row /\ generation \in Nat /\ k \in Row /\ c \in Row
        /\ seen \in [DomainItems -> [1..Pages -> Nat]]
        /\ j \in DomainItems => RowGood(j, r, seen[j])
    BY ReopenedType DEF IInv, TypeOK
  <2>2. CASE rows'[j] = r
    BY <2>1, <2>2, SucceedsItself
  <2>3. CASE rows'[j] = Stored(r, k)
    <3>1. /\ k.requested \in {r.requested, r.requested + 1}
          /\ k.fence = r.fence
          /\ k.completed = r.completed
          /\ k.cursor = r.cursor \/ k.cursor = NoCursor
          /\ k.state # "DONE" /\ k.state # "CLAIMED"
      <4> HIDE DEF r
      <4> QED  BY <2>1, OpenedFields
    <3>2. /\ Succeeds(r, Stored(r, k))
          /\ j \in DomainItems => RowGood(j, Stored(r, k), seen[j])
      <4> HIDE DEF r, k
      <4> QED  BY <2>1, <3>1, StoredKept
    <3> QED  BY <2>3, <3>2
  <2>4. CASE rows'[j] = c
    <3>1. /\ c.requested = r.requested /\ c.fence = r.fence
          /\ c.completed = r.completed /\ c.cursor = r.cursor
          /\ c.state = r.state /\ c.owner = r.owner
      <4> HIDE DEF r
      <4> QED  BY <2>1, OpenedFields
    <3>2. r.requested \in Nat /\ r.fence \in Nat
      <4> HIDE DEF r
      <4> QED  BY <2>1, RowTypes
    <3>3. Succeeds(r, c)
      <4>1. /\ r.requested <= c.requested /\ r.fence <= c.fence
        <5> HIDE DEF r, c
        <5> QED  BY <3>1, <3>2
      <4> HIDE DEF r, c
      <4> QED  BY <3>1, <4>1 DEF Succeeds
    <3>4. ASSUME j \in DomainItems PROVE RowGood(j, c, seen[j])
      <4> DEFINE s == seen[j]
      <4>1. s \in [1..Pages -> Nat] /\ RowGood(j, r, s)
        BY <2>1, <3>4
      <4>2. RowGood(j, c, s)
        <5> HIDE DEF r, c, s
        <5> QED  BY <3>1, <4>1 DEF RowGood
      <4> QED  BY <4>2
    <3> QED  BY <2>4, <3>3, <3>4
  <2> QED  BY <2>2, <2>3, <2>4
<1>2. \A j \in DomainItems : RowGood(j, rows'[j], seen'[j])
  BY <1>1 DEF DomainItems
<1> QED  BY <1>1, <1>2, GoodStep

(* Ack and Yield of a wake row: there is no page.                          *)
LEMMA WakeSettled ==
  ASSUME IInv, TypeOK', NEW w \in Workers, NEW m \in Row,
         handle[w].item \notin DomainItems, PageCommitted(handle[w]),
         rows' = Write(handle[w].item, m),
         m.requested = rows[handle[w].item].requested,
         m.fence = rows[handle[w].item].fence,
         m.state # "CLAIMED",
         handle' = [handle EXCEPT ![w] = Idle]
  PROVE  IInv'
<1> DEFINE i == handle[w].item
           r == rows[i]
           n == Stored(r, m)
<1>1. i \in Work /\ r \in Row /\ generation \in Nat /\ n \in Row
  <2>1. i \in Work /\ rows[i] \in Row /\ generation \in Nat
    BY DEF IInv, TypeOK, Handle
  <2> HIDE DEF i
  <2> QED  BY <2>1, StoredType
<1>2. Succeeds(r, n)
  <2>1. r.requested \in Nat /\ r.fence \in Nat
    <3> HIDE DEF r
    <3> QED  BY <1>1, RowTypes
  <2>2. Succeeds(r, m)
    BY <2>1 DEF Succeeds
  <2> HIDE DEF r
  <2> QED  BY <1>1, <2>2, StoredSucceeds
<1>3. seen' = seen
  BY WorkAssumption DEF PageCommitted
<1>4. rows' = [rows EXCEPT ![i] = n]
  BY DEF Write
<1>5. \A v \in Workers :
        \/ handle'[v] = handle[v]
        \/ HandleGood(v, handle'[v], rows'[handle'[v].item],
                      seen'[handle'[v].item])
  <2> TAKE v \in Workers
  <2>1. handle'[v] = IF v = w THEN Idle ELSE handle[v]
    BY DEF IInv, TypeOK
  <2> QED  BY <2>1, IdleGood
<1>6. i \notin DomainItems
  OBVIOUS
<1> HIDE DEF i, n, r
<1> QED  BY <1>1, <1>2, <1>3, <1>4, <1>5, <1>6, OneRow DEF r

(* The steps of one executor that write no row and no page.                *)
LEMMA HandleStep ==
  ASSUME IInv, TypeOK', NEW w \in Workers, rows' = rows, seen' = seen,
         \A v \in Workers : v # w => handle'[v] = handle[v],
         \/ handle'[w] = Idle
         \/ /\ handle'[w].item = handle[w].item
            /\ handle'[w].busy = handle[w].busy
            /\ handle'[w].fence = handle[w].fence
            /\ handle'[w].claimed = handle[w].claimed
            /\ handle'[w].page = handle[w].page
            /\ handle'[w].read = handle[w].read
  PROVE  IInv'
<1> DEFINE h == handle[w]
           k == handle'[w]
<1>1. \A j \in Work : Succeeds(rows[j], rows'[j])
  BY SucceedsItself DEF IInv, TypeOK
<1>2. \A j \in DomainItems : RowGood(j, rows'[j], seen'[j])
  BY DEF IInv
<1>3. HandleGood(w, k, rows'[k.item], seen'[k.item])
  <2>1. CASE k = Idle
    BY <2>1, IdleGood
  <2>2. CASE /\ k.item = h.item /\ k.busy = h.busy /\ k.fence = h.fence
             /\ k.claimed = h.claimed /\ k.page = h.page
             /\ k.read = h.read
    <3> DEFINE r == rows[h.item]
               s == seen[h.item]
    <3>1. HandleGood(w, h, r, s)
      BY DEF IInv
    <3>2. HandleGood(w, k, r, s)
      <4> HIDE DEF h, k, r, s
      <4> QED  BY <2>2, <3>1 DEF HandleGood, Owns
    <3> QED  BY <2>2, <3>2
  <2> QED  BY <2>1, <2>2
<1> QED  BY <1>1, <1>2, <1>3, GoodStep

(* A worker that holds its claim: what its handler is given.               *)
LEMMA HandlerTypes ==
  ASSUME IInv, NEW w \in Workers
  PROVE  /\ handle[w] \in Handle /\ handle[w].item \in Work
         /\ rows[handle[w].item] \in Row
         /\ handle[w].page \in Nat /\ handle[w].page + 1 <= Pages
         /\ MaxDelay \in Nat
<1> DEFINE h == handle[w]
           q == h.page
<1>1. h \in Handle /\ h.item \in Work /\ rows[h.item] \in Row
  BY DEF IInv, TypeOK, Handle
<1>2. q \in 0..(Pages - 1) /\ Pages \in Nat /\ MaxDelay \in Nat
  BY <1>1, BoundAssumption DEF Handle
<1>3. q \in Nat /\ q + 1 <= Pages
  <2> HIDE DEF q
  <2> QED  BY <1>2
<1> QED  BY <1>1, <1>2, <1>3

LEMMA AckGood ==
  ASSUME IInv, TypeOK', NEW w \in Workers, Ack(w)
  PROVE  IInv'
<1> DEFINE h == handle[w]
           r == rows[h.item]
           m == Acked(w, h, r)
<1>1. h \in Handle /\ h.item \in Work /\ r \in Row
  BY HandlerTypes
<1>2. /\ m.requested = r.requested /\ m.fence = r.fence
      /\ m.completed = Later(r.completed, h.claimed)
      /\ m.state = IF Newer(w) THEN "READY" ELSE "DONE"
      /\ m.cursor = IF Newer(w) THEN NoCursor ELSE r.cursor
  <2>1. 0 \in Nat
    OBVIOUS
  <2> HIDE DEF h, r
  <2> QED  BY <1>1, <2>1, SettledFields
<1>3. m \in Row
  <2>1. 0 \in Nat
    OBVIOUS
  <2> HIDE DEF h, r
  <2> QED  BY <1>1, <2>1, SettledType
<1>4. /\ rows' = Write(h.item, m) /\ PageCommitted(h) /\ Holds(w)
      /\ h.read > 0 /\ Finished(h)
      /\ handle' = [handle EXCEPT ![w] = Idle]
  BY DEF Ack
<1>5. CASE h.item \in DomainItems
  <2>1. h.page + 1 = Pages
    BY <1>4, <1>5 DEF Finished, DomainItems
  <2>2. handle'[w] = Idle /\ \A v \in Workers : v # w => handle'[v] = handle[v]
    BY <1>4 DEF IInv, TypeOK
  <2>3. /\ \/ m.completed = r.completed /\ m.state # "DONE"
           \/ /\ m.completed = Later(r.completed, h.claimed)
              /\ m.state = "DONE" => ~Newer(w) /\ h.page + 1 = Pages
        /\ m.state = "CLAIMED" => m.owner = w
        /\ \/ m.cursor = NoCursor
           \/ m.cursor = r.cursor /\ ~Newer(w)
           \/ m.cursor = NextCursor(h) /\ ~Newer(w)
    <3> HIDE DEF m, r, h
    <3> QED  BY <1>2, <2>1
  <2> HIDE DEF m
  <2> QED  BY <1>2, <1>3, <1>4, <1>5, <2>2, <2>3, PageGood
<1>6. CASE h.item \notin DomainItems
  <2>1. m.state # "CLAIMED"
    BY <1>2
  <2> HIDE DEF m
  <2> QED  BY <1>2, <1>3, <1>4, <1>6, <2>1, WakeSettled
<1> QED  BY <1>5, <1>6

LEMMA YieldGood ==
  ASSUME IInv, TypeOK', NEW w \in Workers, Yield(w)
  PROVE  IInv'
<1> DEFINE h == handle[w]
           r == rows[h.item]
<1>1. h \in Handle /\ h.item \in Work /\ r \in Row /\ MaxDelay \in Nat
  BY HandlerTypes
<1>2. PICK due \in {0, MaxDelay} :
        rows' = Write(h.item, Yielded(w, h, r, due))
  BY DEF Yield
<1> DEFINE m == Yielded(w, h, r, due)
<1>3. due \in Nat
  BY <1>1
<1>4. /\ m.requested = r.requested /\ m.fence = r.fence
      /\ m.completed = r.completed /\ m.state = "READY"
      /\ m.cursor = IF Newer(w) THEN NoCursor ELSE NextCursor(h)
  <2> HIDE DEF h, r
  <2> QED  BY <1>1, <1>3, SettledFields
<1>5. /\ PageCommitted(h) /\ Holds(w) /\ h.read > 0 /\ ~Finished(h)
      /\ handle' = [handle EXCEPT ![w] = Idle]
  BY DEF Yield
<1>6. m \in Row
  <2>1. h.item \in DomainItems => h.page + 1 < Pages
    <3>1. h.item \in DomainItems => h.page + 1 # Pages
      BY <1>5 DEF Finished, DomainItems
    <3>2. h.page \in Nat /\ h.page + 1 <= Pages /\ Pages \in Nat
      BY HandlerTypes, BoundAssumption
    <3> QED  BY <3>1, <3>2
  <2> HIDE DEF h, r
  <2> QED  BY <1>1, <1>3, <1>5, <2>1, SettledType
<1>7. CASE h.item \in DomainItems
  <2>1. handle'[w] = Idle /\ \A v \in Workers : v # w => handle'[v] = handle[v]
    BY <1>5 DEF IInv, TypeOK
  <2>2. /\ \/ m.completed = r.completed /\ m.state # "DONE"
           \/ /\ m.completed = Later(r.completed, h.claimed)
              /\ m.state = "DONE" => ~Newer(w) /\ h.page + 1 = Pages
        /\ m.state = "CLAIMED" => m.owner = w
        /\ \/ m.cursor = NoCursor
           \/ m.cursor = r.cursor /\ ~Newer(w)
           \/ m.cursor = NextCursor(h) /\ ~Newer(w)
    <3> HIDE DEF m, r, h
    <3> QED  BY <1>4
  <2> HIDE DEF m
  <2> QED  BY <1>2, <1>4, <1>5, <1>6, <1>7, <2>1, <2>2, PageGood DEF m
<1>8. CASE h.item \notin DomainItems
  <2>1. m.state # "CLAIMED"
    BY <1>4
  <2>2. rows' = Write(h.item, m)
    BY <1>2
  <2> HIDE DEF m
  <2> QED  BY <1>4, <1>5, <1>6, <1>8, <2>1, <2>2, WakeSettled
<1> QED  BY <1>7, <1>8

LEMMA SaveGood ==
  ASSUME IInv, TypeOK', NEW w \in Workers, SaveProgress(w)
  PROVE  IInv'
<1> DEFINE h == handle[w]
           r == rows[h.item]
           m == Saved(h, r)
           k == [h EXCEPT !.page = @ + 1, !.read = 0]
<1>1. h \in Handle /\ h.item \in Work /\ r \in Row
  BY HandlerTypes
<1>2. /\ m.requested = r.requested /\ m.fence = r.fence
      /\ m.completed = r.completed /\ m.state = r.state
      /\ m.owner = r.owner /\ m.cursor = NextCursor(h)
  <2>1. 0 \in Nat
    OBVIOUS
  <2> HIDE DEF h, r
  <2> QED  BY <1>1, <2>1, SettledFields
<1>3. /\ rows' = Write(h.item, m) /\ PageCommitted(h) /\ Holds(w)
      /\ h.read > 0 /\ ~Finished(h) /\ ~Newer(w)
      /\ h.item \in DomainItems /\ h.item \notin WakeItems
  BY WorkAssumption DEF SaveProgress, DomainItems
<1>4. handle'[w] = k /\ \A v \in Workers : v # w => handle'[v] = handle[v]
  BY DEF SaveProgress, IInv, TypeOK
<1>5. h.page + 1 < Pages
  <2>1. h.page + 1 # Pages
    BY <1>3 DEF Finished
  <2>2. h.page \in Nat /\ h.page + 1 <= Pages /\ Pages \in Nat
    BY HandlerTypes, BoundAssumption
  <2> QED  BY <2>1, <2>2
<1>6. m \in Row
  <2>1. 0 \in Nat
    OBVIOUS
  <2> HIDE DEF h, r
  <2> QED  BY <1>1, <1>3, <2>1, SettledType
<1>7. r.state = "CLAIMED" /\ r.owner = w
  BY <1>3 DEF Holds
<1>8. /\ \/ m.completed = r.completed /\ m.state # "DONE"
         \/ /\ m.completed = Later(r.completed, h.claimed)
            /\ m.state = "DONE" => ~Newer(w) /\ h.page + 1 = Pages
      /\ m.state = "CLAIMED" => m.owner = w
      /\ \/ m.cursor = NoCursor
         \/ m.cursor = r.cursor /\ ~Newer(w)
         \/ m.cursor = NextCursor(h) /\ ~Newer(w)
  <2> HIDE DEF h, r, m
  <2> QED  BY <1>2, <1>3, <1>7
<1>9. \/ handle'[w] = Idle
      \/ /\ ~Newer(w) /\ h.page + 1 < Pages
         /\ handle'[w] = [h EXCEPT !.page = @ + 1, !.read = 0]
  BY <1>3, <1>4, <1>5
<1> HIDE DEF m
<1> QED  BY <1>2, <1>3, <1>4, <1>6, <1>8, <1>9, PageGood

LEMMA BlockGood ==
  ASSUME IInv, TypeOK', NEW w \in Workers, Block(w)
  PROVE  IInv'
<1> DEFINE h == handle[w]
           r == rows[h.item]
           m == Blocked(w, h, r)
<1>1. h \in Handle /\ h.item \in Work /\ r \in Row
  BY HandlerTypes
<1>2. /\ m.requested = r.requested /\ m.fence = r.fence
      /\ m.completed = r.completed
      /\ m.state \in {"READY", "BLOCKED"}
      /\ m.cursor = r.cursor \/ m.cursor = NoCursor
  <2>1. 0 \in Nat
    OBVIOUS
  <2> HIDE DEF h, r
  <2> QED  BY <1>1, <2>1, SettledFields
<1>3. m \in Row
  <2>1. h.dep \in Deps /\ deps \in [Deps -> Nat]
    BY DEF Block, IInv, TypeOK
  <2> HIDE DEF h, r
  <2> QED  BY <1>1, <2>1, BlockedType
<1>4. /\ rows' = Write(h.item, m) /\ seen' = seen
      /\ handle' = [handle EXCEPT ![w] = Idle]
  BY DEF Block
<1>5. m.state # "DONE" /\ m.state # "CLAIMED"
  BY <1>2
<1> HIDE DEF m
<1> QED  BY <1>1, <1>2, <1>3, <1>4, <1>5, SettleGood

LEMMA FailGood ==
  ASSUME IInv, TypeOK', NEW w \in Workers, NEW kind \in FailureKinds,
         Fail(w, kind)
  PROVE  IInv'
<1> DEFINE h == handle[w]
           r == rows[h.item]
<1>1. h \in Handle /\ h.item \in Work /\ r \in Row /\ MaxDelay \in Nat
  BY HandlerTypes
<1>2. PICK due \in 1..MaxDelay :
        rows' = Write(h.item, Failed(w, h, r, kind, due))
  BY DEF Fail
<1> DEFINE m == Failed(w, h, r, kind, due)
<1>3. due \in Nat /\ kind \in {"contract", "database", "other"}
  BY <1>1, WorkAssumption
<1>4. /\ m.requested = r.requested /\ m.fence = r.fence
      /\ m.completed = r.completed
      /\ m.state \in {"READY", "RECONCILE_REQUIRED"}
      /\ m.cursor = r.cursor \/ m.cursor = NoCursor
  <2> HIDE DEF h, r
  <2> QED  BY <1>1, <1>3, SettledFields
<1>5. m \in Row
  <2> HIDE DEF h, r
  <2> QED  BY <1>1, <1>3, SettledType
<1>6. /\ rows' = Write(h.item, m) /\ seen' = seen
      /\ handle' = [handle EXCEPT ![w] = Idle]
  BY <1>2 DEF Fail
<1>7. m.state # "DONE" /\ m.state # "CLAIMED"
  BY <1>4
<1> HIDE DEF m
<1> QED  BY <1>1, <1>4, <1>5, <1>6, <1>7, SettleGood

(* The writes of producers, operators and heartbeats.                      *)
LEMMA OpenGood ==
  ASSUME IInv, TypeOK',
         \/ \E i \in Work : Publish(i) \/ Repair(i)
         \/ \E d \in Deps : Bump(d)
         \/ \E w \in Workers : Heartbeat(w)
  PROVE  IInv'
<1>0. /\ \A i \in Work : rows[i] \in Row
      /\ 0 \in Nat /\ MaxDelay \in Nat
      /\ \A d \in Deps : deps[d] + 1 \in Nat /\ WakeOf[d] \in Work
  BY WorkAssumption, BoundAssumption DEF IInv, TypeOK
<1>1. ASSUME NEW i \in Work, NEW delay \in Nat, NEW d \in Deps \cup {NoDep},
             NEW dRev \in Nat, UNCHANGED <<handle, seen>>,
             rows' = Write(i, Published(rows[i], delay, d, dRev))
      PROVE  IInv'
  <2> DEFINE r == rows[i]
             m == Published(r, delay, d, dRev)
  <2>1. m \in Row
    <3> HIDE DEF r
    <3> QED  BY <1>0, PublishedType DEF r
  <2>2. /\ m.requested = r.requested + 1 /\ m.fence = r.fence
        /\ m.completed = r.completed
        /\ m.cursor = r.cursor \/ m.cursor = NoCursor
        /\ \/ m.state = "READY"
           \/ m.state = "CLAIMED" /\ r.state = "CLAIMED"
                /\ m.owner = r.owner
    <3>1. r \in Row
      BY <1>0
    <3> HIDE DEF r
    <3> QED  BY <3>1, OpenedFields
  <2>3. rows' = Write(i, m)
    BY <1>1
  <2> HIDE DEF m
  <2> QED  BY <1>1, <2>1, <2>2, <2>3, WriteGood
<1>2. ASSUME NEW i \in Work, Publish(i) PROVE IInv'
  <2>1. PICK delay \in {0, MaxDelay} :
          rows' = Write(i, Published(rows[i], delay, NoDep, 0))
    BY <1>2 DEF Publish
  <2>2. delay \in Nat /\ UNCHANGED <<handle, seen>>
    BY <1>0, <1>2 DEF Publish
  <2> QED  BY <1>0, <1>1, <2>1, <2>2
<1>3. ASSUME NEW d \in Deps, Bump(d) PROVE IInv'
  <2>1. /\ rows' = Write(WakeOf[d],
                     Published(rows[WakeOf[d]], 0, d, deps[d] + 1))
        /\ UNCHANGED <<handle, seen>>
    BY <1>3 DEF Bump
  <2> QED  BY <1>0, <1>1, <2>1
<1>4. ASSUME NEW i \in Work, Repair(i) PROVE IInv'
  <2> DEFINE r == rows[i]
             m == Repaired(r)
  <2>1. r \in Row /\ rows' = Write(i, m) /\ UNCHANGED <<handle, seen>>
    BY <1>0, <1>4 DEF Repair
  <2>2. /\ m \in Row
        /\ m.requested = r.requested + 1 /\ m.fence = r.fence
        /\ m.completed = r.completed /\ m.cursor = NoCursor
        /\ m.state = "READY"
    <3> HIDE DEF r
    <3> QED  BY <2>1, OpenedFields, ReopenedType
  <2> HIDE DEF m
  <2> QED  BY <2>1, <2>2, WriteGood
<1>5. ASSUME NEW w \in Workers, Heartbeat(w) PROVE IInv'
  <2> DEFINE i == handle[w].item
             r == rows[i]
             m == [r EXCEPT !.lease = LeaseLen]
  <2>1. /\ i \in Work /\ r \in Row /\ rows' = Write(i, m)
        /\ r.state = "CLAIMED" /\ UNCHANGED <<handle, seen>>
    BY <1>5, HandlerTypes DEF Heartbeat, Holds
  <2>2. /\ m \in Row
        /\ m.requested = r.requested /\ m.fence = r.fence
        /\ m.completed = r.completed /\ m.cursor = r.cursor
        /\ m.state = r.state /\ m.owner = r.owner
    <3> HIDE DEF r
    <3> QED  BY <2>1, OpenedFields, ReopenedType
  <2>3. /\ m.requested \in {rows[i].requested, rows[i].requested + 1}
        /\ m.fence = rows[i].fence /\ m.completed = rows[i].completed
        /\ m.cursor = rows[i].cursor \/ m.cursor = NoCursor
        /\ m.state # "DONE"
        /\ m.state = "CLAIMED" =>
             rows[i].state = "CLAIMED" /\ m.owner = rows[i].owner
    <3> HIDE DEF m
    <3> QED  BY <2>1, <2>2
  <2> HIDE DEF m, i
  <2> QED  BY <2>1, <2>2, <2>3, WriteGood
<1> QED  BY <1>2, <1>3, <1>4, <1>5

LEMMA InductiveStep == IInv /\ [Next]_vars => IInv'
<1> SUFFICES ASSUME IInv, [Next]_vars PROVE IInv'
  OBVIOUS
<1>0. TypeOK'
  BY TypeStep DEF IInv
<1>1. CASE \/ \E i \in Work : Publish(i) \/ Repair(i)
           \/ \E d \in Deps : Bump(d)
           \/ \E w \in Workers : Heartbeat(w)
  BY <1>0, <1>1, OpenGood
<1>2. ASSUME NEW w \in Workers, NEW i \in Work, Claim(w, i) PROVE IInv'
  BY <1>0, <1>2, ClaimGood
<1>3. ASSUME NEW w \in Workers, Process(w) PROVE IInv'
  BY <1>0, <1>3, ProcessGood
<1>4. ASSUME NEW w \in Workers, Wake(w) PROVE IInv'
  <2>1. PICK batch \in SUBSET Asleep(rows, handle[w].dep, handle[w].depRev) :
          rows' = [i \in Work |-> IF i \in batch
                     THEN Stored(rows[i], Woken(rows[i])) ELSE rows[i]]
    BY <1>4 DEF Wake
  <2>2. \A j \in Work : \/ rows'[j] = rows[j]
                        \/ rows'[j] = Stored(rows[j], Woken(rows[j]))
                        \/ rows'[j] = Aged(rows[j])
    BY <2>1
  <2>3. \A v \in Workers : v # w => handle'[v] = handle[v]
    BY <1>4 DEF Wake, IInv, TypeOK
  <2>4. handle'[w].item \notin DomainItems
    BY <1>4 DEF Wake, IInv, TypeOK, Handle, DomainItems
  <2>5. \A v \in Workers :
          \/ handle'[v] = handle[v]
          \/ HandleGood(v, handle'[v], rows'[handle'[v].item],
                        seen'[handle'[v].item])
    BY <2>3, <2>4 DEF HandleGood
  <2>6. seen' = seen
    BY <1>4 DEF Wake
  <2> QED  BY <1>0, <2>2, <2>5, <2>6, BatchGood
<1>5. ASSUME NEW w \in Workers, Ack(w) PROVE IInv'
  BY <1>0, <1>5, AckGood
<1>6. ASSUME NEW w \in Workers, Yield(w) PROVE IInv'
  BY <1>0, <1>6, YieldGood
<1>7. ASSUME NEW w \in Workers, SaveProgress(w) PROVE IInv'
  BY <1>0, <1>7, SaveGood
<1>8. ASSUME NEW w \in Workers, Block(w) PROVE IInv'
  BY <1>0, <1>8, BlockGood
<1>9. ASSUME NEW w \in Workers, NEW kind \in FailureKinds, Fail(w, kind)
      PROVE  IInv'
  BY <1>0, <1>9, FailGood
<1>10. ASSUME NEW w \in Workers, LoseClaim(w) \/ Crash(w) PROVE IInv'
  <2>1. /\ rows' = rows /\ seen' = seen
        /\ handle'[w] = Idle
        /\ \A v \in Workers : v # w => handle'[v] = handle[v]
    BY <1>10 DEF LoseClaim, Crash, IInv, TypeOK
  <2> QED  BY <1>0, <2>1, HandleStep
<1>11. ASSUME NEW w \in Workers, NEW d \in Deps,
              Capture(w, d) \/ Observe(w, d)
       PROVE  IInv'
  <2>1. /\ rows' = rows /\ seen' = seen
        /\ \A v \in Workers : v # w => handle'[v] = handle[v]
    BY <1>11 DEF Capture, Observe, IInv, TypeOK
  <2>2. /\ handle'[w].item = handle[w].item
        /\ handle'[w].busy = handle[w].busy
        /\ handle'[w].fence = handle[w].fence
        /\ handle'[w].claimed = handle[w].claimed
        /\ handle'[w].page = handle[w].page
        /\ handle'[w].read = handle[w].read
    BY <1>11 DEF Capture, Observe, IInv, TypeOK, Handle
  <2> QED  BY <1>0, <2>1, <2>2, HandleStep
<1>12. CASE Tick
  <2>1. /\ \A j \in Work : rows'[j] = Aged(rows[j])
        /\ seen' = seen /\ \A v \in Workers : handle'[v] = handle[v]
    BY <1>12 DEF Tick
  <2> QED  BY <1>0, <2>1, BatchGood
<1>13. CASE Activate \/ UNCHANGED vars
  <2>1. rows' = rows /\ seen' = seen /\ handle' = handle
    BY <1>13 DEF Activate, vars
  <2> QED  BY <1>0, <2>1 DEF IInv
<1> QED
  BY <1>1, <1>2, <1>3, <1>4, <1>5, <1>6, <1>7, <1>8, <1>9, <1>10, <1>11,
     <1>12, <1>13 DEF Next, Execute

LEMMA InitiallyGood == Init => IInv
<1> SUFFICES ASSUME Init PROVE IInv
  OBVIOUS
<1>1. TypeOK
  BY AbsentType, IdleType DEF Init, TypeOK
<1>2. ASSUME NEW i \in DomainItems PROVE RowGood(i, rows[i], seen[i])
  <2>1. rows[i] = Absent /\ seen[i] = [p \in 1..Pages |-> 0]
    BY <1>2 DEF Init, DomainItems
  <2> QED  BY <2>1 DEF RowGood, Absent, NoCursor
<1>3. ASSUME NEW w \in Workers
      PROVE  HandleGood(w, handle[w], rows[handle[w].item],
                        seen[handle[w].item])
  BY IdleGood DEF Init
<1> QED  BY <1>1, <1>2, <1>3 DEF IInv

LEMMA Inductive == Spec => []IInv
<1> QED  BY InitiallyGood, InductiveStep, PTL DEF Spec

(* When every executor records in its cursor the revision it enumerates,   *)
(* a row is only acknowledged with all of its pages at the revision that   *)
(* is requested, whatever races the claim, its expiry or the hand-over of  *)
(* generations.                                                            *)
THEOREM InvalidationKept ==
  ASSUME Tagged = DomainItems PROVE Spec => []NoLostInvalidation
<1>1. IInv => NoLostInvalidation
  BY DEF IInv, RowGood, NoLostInvalidation
<1> QED  BY <1>1, Inductive, PTL

(* A worker whose claim was overtaken never takes a page of a projection   *)
(* back to an older revision, with or without the cursor's revision.       *)
LEMMA SeenGrows ==
  IInv /\ [Next]_vars => [\A i \in DomainItems, p \in 1..Pages :
                             seen'[i][p] >= seen[i][p]]_vars
<1> SUFFICES ASSUME IInv, Next,
                    NEW i \in DomainItems, NEW p \in 1..Pages
             PROVE  seen'[i][p] >= seen[i][p]
  BY DEF vars
<1>1. seen[i] \in [1..Pages -> Nat]
  BY DEF IInv, TypeOK
<1>2. seen[i][p] \in Nat
  BY <1>1
<1>3. CASE seen' = seen
  BY <1>2, <1>3
<1>4. ASSUME NEW w \in Workers, Process(w)
      PROVE  seen'[i][p] >= seen[i][p]
  <2> DEFINE h == handle[w]
             source == rows[h.item].requested
             q == h.page + 1
  <2>1. seen' = seen \/ seen' = [seen EXCEPT ![h.item][q] = source]
    BY <1>4 DEF Process
  <2>2. i = h.item => seen[i][p] <= source
    BY DEF IInv, RowGood
  <2>3. seen \in [DomainItems -> [1..Pages -> Nat]]
    BY DEF IInv, TypeOK
  <2>4. i = h.item => source \in Nat
    <3>1. i = h.item => rows[i] \in Row
      BY DEF IInv, TypeOK, DomainItems
    <3> QED  BY <3>1, RowTypes
  <2>5. seen'[i][p] = seen[i][p] \/ (i = h.item /\ seen'[i][p] = source)
    <3> HIDE DEF h, source, q
    <3> QED  BY <2>1, <2>3
  <2> HIDE DEF h, source
  <2> QED  BY <1>2, <2>2, <2>4, <2>5
<1>5. ASSUME NEW w \in Workers, Ack(w) \/ Yield(w) \/ SaveProgress(w)
      PROVE  seen'[i][p] >= seen[i][p]
  <2>1. Holds(w) /\ handle[w].read > 0 /\ PageCommitted(handle[w])
    BY <1>5 DEF Ack, Yield, SaveProgress
  <2>2. CASE handle[w].item \notin DomainItems
    <3>1. seen' = seen
      BY <2>1, <2>2, WorkAssumption DEF PageCommitted
    <3> QED  BY <1>3, <3>1
  <2>3. CASE handle[w].item \in DomainItems
    <3>1. /\ i = handle[w].item =>
               seen'[i][p] \in Nat /\ seen[i][p] <= seen'[i][p]
          /\ i # handle[w].item => seen'[i] = seen[i]
      BY <2>1, <2>3, PageSettled
    <3> QED  BY <1>2, <3>1
  <2> QED  BY <2>2, <2>3
<1>6. \/ seen' = seen
      \/ \E w \in Workers : Process(w)
      \/ \E w \in Workers : Ack(w) \/ Yield(w) \/ SaveProgress(w)
  BY DEF Next, Execute, Publish, Repair, Bump, Claim, Heartbeat, Crash,
         Activate, Tick, Wake, Block, LoseClaim, Capture, Observe, Fail
<1> QED  BY <1>3, <1>4, <1>5, <1>6

THEOREM EffectsGrow == Spec => NoStaleEffect
<1>1. IInv /\ [Next]_vars => [\A i \in DomainItems, p \in 1..Pages :
                                 seen'[i][p] >= seen[i][p]]_vars
  BY SeenGrows
<1> QED  BY <1>1, Inductive, PTL DEF Spec, NoStaleEffect

-----------------------------------------------------------------------------
(***************************************************************************)
(* The order of a row's life.  Revisions, completions and fences only go   *)
(* up, whoever writes, and a row that is DONE is only reopened by a newer  *)
(* revision.                                                               *)
(***************************************************************************)
Onward(old, new) ==
  /\ old.requested <= new.requested /\ old.completed <= new.completed
  /\ old.fence <= new.fence
  /\ old.state = "DONE" =>
       new.state = "DONE" \/ new.requested > old.requested

LEMMA OnwardItself == \A r \in Row : Onward(r, r)
<1> TAKE r \in Row
<1>1. r.requested \in Nat /\ r.completed \in Nat /\ r.fence \in Nat
  BY RowTypes
<1> QED  BY <1>1 DEF Onward

(* What the trigger makes of a write goes onward when the write does.      *)
LEMMA StoredOnward ==
  ASSUME NEW old \in Row, NEW new \in Row, Onward(old, new)
  PROVE  Onward(old, Stored(old, new))
<1> DEFINE n == Stored(old, new)
<1>1. /\ old.requested \in Nat /\ new.requested \in Nat
      /\ old.fence \in Nat /\ new.fence \in Nat
  BY RowTypes
<1>2. CASE /\ n.requested = new.requested /\ n.completed = new.completed
           /\ n.state = new.state /\ n.fence = new.fence
  <2>1. Onward(old, n)
    <3> HIDE DEF n
    <3> QED  BY <1>2 DEF Onward
  <2> QED  BY <2>1
<1>3. CASE /\ n.requested = Later(new.requested, old.requested + 1)
           /\ n.fence = Later(new.fence, old.fence + 1)
           /\ n.completed = new.completed
  <2>1. /\ old.requested <= n.requested /\ n.requested > old.requested
        /\ old.fence <= n.fence
    <3> HIDE DEF n
    <3> QED  BY <1>1, <1>3 DEF Later
  <2>2. Onward(old, n)
    <3> HIDE DEF n
    <3> QED  BY <1>3, <2>1 DEF Onward
  <2> QED  BY <2>2
<1> QED  BY <1>2, <1>3, StoredFields

(* The same for the row a handler writes, from the fields it is known by.  *)
LEMMA WriteOnward ==
  ASSUME TypeOK, NEW i \in Work, NEW m \in Row, rows' = Write(i, m),
         m.requested \in {rows[i].requested, rows[i].requested + 1},
         rows[i].completed <= m.completed,
         rows[i].fence <= m.fence,
         \/ m.requested = rows[i].requested + 1
         \/ rows[i].state # "DONE"
  PROVE  \A j \in Work : Onward(rows[j], rows'[j])
<1>1. rows \in [Work -> Row] /\ rows[i] \in Row /\ rows[i].requested \in Nat
  BY RowTypes DEF TypeOK
<1>2. Onward(rows[i], m)
  BY <1>1 DEF Onward
<1>3. Onward(rows[i], Stored(rows[i], m))
  BY <1>1, <1>2, StoredOnward
<1>4. \A j \in Work : rows'[j] = IF j = i THEN Stored(rows[i], m) ELSE rows[j]
  BY <1>1 DEF Write
<1> QED  BY <1>1, <1>3, <1>4, OnwardItself

(* A settle or a heartbeat leaves the requested revision, and the row it   *)
(* writes is claimed.                                                      *)
LEMMA HeldOnward ==
  ASSUME IInv, NEW w \in Workers, Holds(w), NEW m \in Row,
         rows' = Write(handle[w].item, m),
         m.requested = rows[handle[w].item].requested,
         m.fence = rows[handle[w].item].fence,
         m.completed \in {rows[handle[w].item].completed,
                          Later(rows[handle[w].item].completed,
                                handle[w].claimed)}
  PROVE  \A j \in Work : Onward(rows[j], rows'[j])
<1> DEFINE h == handle[w]
           i == h.item
           r == rows[i]
<1>1. h \in Handle /\ i \in Work /\ r \in Row
  BY HandlerTypes
<1>2. h.claimed \in Nat /\ r.completed \in Nat /\ r.fence \in Nat
  <2> HIDE DEF h, r
  <2> QED  BY <1>1, RowTypes DEF Handle
<1>3. r.state = "CLAIMED"
  BY DEF Holds
<1>4. r.completed <= m.completed /\ r.fence <= m.fence
  <2> HIDE DEF r
  <2> QED  BY <1>2 DEF Later, r
<1> HIDE DEF h, i
<1> QED  BY <1>1, <1>3, <1>4, WriteOnward DEF IInv, h, i

LEMMA SettleOnward ==
  ASSUME IInv, NEW w \in Workers,
         \/ Ack(w) \/ Yield(w) \/ SaveProgress(w) \/ Block(w)
         \/ \E kind \in FailureKinds : Fail(w, kind)
  PROVE  \A j \in Work : Onward(rows[j], rows'[j])
<1> DEFINE h == handle[w]
           r == rows[h.item]
<1>1. h \in Handle /\ r \in Row /\ 0 \in Nat
  BY HandlerTypes
<1>2. CASE Ack(w)
  <2> DEFINE m == Acked(w, h, r)
  <2>1. Holds(w) /\ rows' = Write(h.item, m)
    BY <1>2 DEF Ack
  <2>2. /\ m \in Row /\ m.requested = r.requested /\ m.fence = r.fence
        /\ m.completed = Later(r.completed, h.claimed)
    <3> HIDE DEF h, r
    <3> QED  BY <1>1, SettledType, SettledFields
  <2> HIDE DEF m
  <2> QED  BY <2>1, <2>2, HeldOnward
<1>3. CASE Yield(w)
  <2>1. PICK due \in {0, MaxDelay} :
          rows' = Write(h.item, Yielded(w, h, r, due))
    BY <1>3 DEF Yield
  <2> DEFINE m == Yielded(w, h, r, due)
  <2>2. due \in Nat /\ Holds(w) /\ ~Finished(h)
    BY <1>3, BoundAssumption DEF Yield
  <2>3. /\ m \in Row /\ m.requested = r.requested /\ m.fence = r.fence
        /\ m.completed = r.completed
    <3> HIDE DEF h, r
    <3> QED  BY <1>1, <2>2, SettledType, SettledFields
  <2> HIDE DEF m
  <2> QED  BY <2>1, <2>2, <2>3, HeldOnward DEF m
<1>4. CASE SaveProgress(w)
  <2> DEFINE m == Saved(h, r)
  <2>1. /\ Holds(w) /\ rows' = Write(h.item, m)
        /\ h.item \notin WakeItems /\ ~Finished(h)
    BY <1>4, WorkAssumption DEF SaveProgress, DomainItems
  <2>2. /\ m \in Row /\ m.requested = r.requested /\ m.fence = r.fence
        /\ m.completed = r.completed
    <3> HIDE DEF h, r
    <3> QED  BY <1>1, <2>1, SettledType, SettledFields
  <2> HIDE DEF m
  <2> QED  BY <2>1, <2>2, HeldOnward
<1>5. CASE Block(w)
  <2> DEFINE m == Blocked(w, h, r)
  <2>1. /\ Holds(w) /\ rows' = Write(h.item, m)
        /\ h.dep \in Deps /\ deps \in [Deps -> Nat]
    BY <1>5 DEF Block, IInv, TypeOK
  <2>2. /\ m \in Row /\ m.requested = r.requested /\ m.fence = r.fence
        /\ m.completed = r.completed
    <3> HIDE DEF h, r
    <3> QED  BY <1>1, <2>1, BlockedType, SettledFields
  <2> HIDE DEF m
  <2> QED  BY <2>1, <2>2, HeldOnward
<1>6. ASSUME NEW kind \in FailureKinds, Fail(w, kind)
      PROVE  \A j \in Work : Onward(rows[j], rows'[j])
  <2>1. PICK due \in 1..MaxDelay :
          rows' = Write(h.item, Failed(w, h, r, kind, due))
    BY <1>6 DEF Fail
  <2> DEFINE m == Failed(w, h, r, kind, due)
  <2>2. due \in Nat /\ Holds(w) /\ kind \in {"contract", "database", "other"}
    BY <1>6, WorkAssumption DEF Fail
  <2>3. /\ m \in Row /\ m.requested = r.requested /\ m.fence = r.fence
        /\ m.completed = r.completed
    <3> HIDE DEF h, r
    <3> QED  BY <1>1, <2>2, SettledType, SettledFields
  <2> HIDE DEF m
  <2> QED  BY <2>1, <2>2, <2>3, HeldOnward DEF m
<1> QED  BY <1>2, <1>3, <1>4, <1>5, <1>6

LEMMA OpenOnward ==
  ASSUME IInv,
         \/ \E i \in Work : Publish(i) \/ Repair(i)
         \/ \E d \in Deps : Bump(d)
         \/ \E w \in Workers : Heartbeat(w)
         \/ \E w \in Workers, i \in Work : Claim(w, i)
  PROVE  \A j \in Work : Onward(rows[j], rows'[j])
<1>0. /\ TypeOK /\ \A i \in Work : rows[i] \in Row
      /\ 0 \in Nat /\ MaxDelay \in Nat
      /\ \A d \in Deps : deps[d] + 1 \in Nat /\ WakeOf[d] \in Work
      /\ \A r \in Row : r.requested \in Nat /\ r.completed \in Nat
                          /\ r.fence \in Nat
  BY WorkAssumption, BoundAssumption, RowTypes DEF IInv, TypeOK
<1>1. ASSUME NEW i \in Work, NEW delay \in Nat, NEW d \in Deps \cup {NoDep},
             NEW dRev \in Nat,
             rows' = Write(i, Published(rows[i], delay, d, dRev))
      PROVE  \A j \in Work : Onward(rows[j], rows'[j])
  <2> DEFINE r == rows[i]
             m == Published(r, delay, d, dRev)
  <2>1. r \in Row
    BY <1>0
  <2>2. /\ m \in Row /\ m.requested = r.requested + 1
        /\ m.completed = r.completed /\ m.fence = r.fence
    <3> HIDE DEF r
    <3> QED  BY <2>1, PublishedType, OpenedFields
  <2>3. rows' = Write(i, m) /\ r.completed <= m.completed
          /\ r.fence <= m.fence
    <3>1. rows' = Write(i, m)
      BY <1>1
    <3> HIDE DEF m, r
    <3> QED  BY <1>0, <2>1, <2>2, <3>1
  <2> HIDE DEF m
  <2> QED  BY <1>0, <2>2, <2>3, WriteOnward
<1>2. ASSUME NEW i \in Work, Publish(i)
      PROVE  \A j \in Work : Onward(rows[j], rows'[j])
  <2>1. PICK delay \in {0, MaxDelay} :
          rows' = Write(i, Published(rows[i], delay, NoDep, 0))
    BY <1>2 DEF Publish
  <2> QED  BY <1>0, <1>1, <2>1
<1>3. ASSUME NEW d \in Deps, Bump(d)
      PROVE  \A j \in Work : Onward(rows[j], rows'[j])
  <2>1. rows' = Write(WakeOf[d],
                  Published(rows[WakeOf[d]], 0, d, deps[d] + 1))
    BY <1>3 DEF Bump
  <2> QED  BY <1>0, <1>1, <2>1
<1>4. ASSUME NEW i \in Work, Repair(i)
      PROVE  \A j \in Work : Onward(rows[j], rows'[j])
  <2> DEFINE r == rows[i]
             m == Repaired(r)
  <2>1. r \in Row /\ rows' = Write(i, m)
    BY <1>0, <1>4 DEF Repair
  <2>2. /\ m \in Row /\ m.requested = r.requested + 1
        /\ m.completed = r.completed /\ m.fence = r.fence
    <3> HIDE DEF r
    <3> QED  BY <2>1, OpenedFields, ReopenedType
  <2>3. r.completed <= m.completed /\ r.fence <= m.fence
    <3> HIDE DEF m, r
    <3> QED  BY <1>0, <2>1, <2>2
  <2> HIDE DEF m
  <2> QED  BY <1>0, <2>1, <2>2, <2>3, WriteOnward
<1>5. ASSUME NEW w \in Workers, Heartbeat(w)
      PROVE  \A j \in Work : Onward(rows[j], rows'[j])
  <2> DEFINE i == handle[w].item
             r == rows[i]
             m == [r EXCEPT !.lease = LeaseLen]
  <2>1. r \in Row /\ rows' = Write(i, m) /\ Holds(w)
    BY <1>5, HandlerTypes DEF Heartbeat
  <2>2. /\ m \in Row /\ m.requested = r.requested
        /\ m.completed = r.completed /\ m.fence = r.fence
    <3> HIDE DEF r
    <3> QED  BY <2>1, OpenedFields, ReopenedType
  <2> HIDE DEF m
  <2> QED  BY <2>1, <2>2, HeldOnward
<1>6. ASSUME NEW w \in Workers, NEW i \in Work, Claim(w, i)
      PROVE  \A j \in Work : Onward(rows[j], rows'[j])
  <2> DEFINE r == rows[i]
             m == Claimed(w, r)
  <2>1. r \in Row /\ rows' = Write(i, m) /\ r.state # "DONE"
    BY <1>0, <1>6 DEF Claim, Claimable, Write
  <2>2. /\ m \in Row /\ m.requested = r.requested
        /\ m.completed = r.completed /\ m.fence = r.fence + 1
    <3> HIDE DEF r
    <3>1. m \in Row
      BY <2>1, ReopenedType
    <3>2. /\ m.requested = r.requested
          /\ m.completed = r.completed /\ m.fence = r.fence + 1
      BY <2>1 DEF Claimed, Row
    <3> QED  BY <3>1, <3>2
  <2>3. r.completed <= m.completed /\ r.fence <= m.fence
    <3> HIDE DEF m, r
    <3> QED  BY <1>0, <2>1, <2>2
  <2> HIDE DEF m
  <2> QED  BY <1>0, <2>1, <2>2, <2>3, WriteOnward
<1> QED  BY <1>2, <1>3, <1>4, <1>5, <1>6

LEMMA StepOnward ==
  IInv /\ [Next]_vars => [\A i \in Work : Onward(rows[i], rows'[i])]_vars
<1> SUFFICES ASSUME IInv, Next
             PROVE  \A i \in Work : Onward(rows[i], rows'[i])
  BY DEF vars
<1>1. \A i \in Work : rows[i] \in Row
  BY DEF IInv, TypeOK
<1>2. ASSUME rows' = rows
      PROVE  \A i \in Work : Onward(rows[i], rows'[i])
  BY <1>1, <1>2, OnwardItself
<1>3. ASSUME NEW w \in Workers, Wake(w)
      PROVE  \A i \in Work : Onward(rows[i], rows'[i])
  <2>1. PICK batch \in SUBSET Asleep(rows, handle[w].dep, handle[w].depRev) :
          rows' = [i \in Work |-> IF i \in batch
                     THEN Stored(rows[i], Woken(rows[i])) ELSE rows[i]]
    BY <1>3 DEF Wake
  <2> SUFFICES ASSUME NEW i \in Work PROVE Onward(rows[i], rows'[i])
    OBVIOUS
  <2>2. CASE i \in batch
    <3> DEFINE r == rows[i]
               m == Woken(r)
    <3>1. r \in Row /\ rows'[i] = Stored(r, m) /\ r.state = "BLOCKED"
      BY <1>1, <2>1, <2>2 DEF Asleep
    <3>2. m \in Row /\ Onward(r, m)
      <4>1. /\ m \in Row /\ m.requested = r.requested
            /\ m.completed = r.completed /\ m.fence = r.fence
        <5> HIDE DEF r
        <5> QED  BY <3>1, OpenedFields, ReopenedType
      <4>2. r.requested \in Nat /\ r.completed \in Nat /\ r.fence \in Nat
        BY <3>1, RowTypes
      <4> HIDE DEF m, r
      <4> QED  BY <3>1, <4>1, <4>2 DEF Onward
    <3> HIDE DEF m
    <3> QED  BY <3>1, <3>2, StoredOnward
  <2>3. CASE i \notin batch
    BY <1>1, <2>1, <2>3, OnwardItself
  <2> QED  BY <2>2, <2>3
<1>4. ASSUME Tick
      PROVE  \A i \in Work : Onward(rows[i], rows'[i])
  <2> SUFFICES ASSUME NEW i \in Work PROVE Onward(rows[i], rows'[i])
    OBVIOUS
  <2> DEFINE r == rows[i]
             m == Aged(r)
  <2>1. r \in Row /\ rows'[i] = m
    BY <1>1, <1>4 DEF Tick
  <2>2. /\ m.requested = r.requested /\ m.completed = r.completed
        /\ m.fence = r.fence /\ m.state = r.state
    <3> HIDE DEF r
    <3> QED  BY <2>1, OpenedFields
  <2>3. r.requested \in Nat /\ r.completed \in Nat /\ r.fence \in Nat
    BY <2>1, RowTypes
  <2>4. Onward(r, m)
    <3> HIDE DEF m, r
    <3> QED  BY <2>2, <2>3 DEF Onward
  <2> QED  BY <2>1, <2>4
<1>5. \/ rows' = rows
      \/ Tick
      \/ \E w \in Workers : Wake(w)
      \/ \E w \in Workers :
           \/ Ack(w) \/ Yield(w) \/ SaveProgress(w) \/ Block(w)
           \/ \E kind \in FailureKinds : Fail(w, kind)
      \/ \/ \E i \in Work : Publish(i) \/ Repair(i)
         \/ \E d \in Deps : Bump(d)
         \/ \E w \in Workers : Heartbeat(w)
         \/ \E w \in Workers, i \in Work : Claim(w, i)
  BY DEF Next, Execute, Process, Crash, Activate, LoseClaim, Capture, Observe
<1> QED  BY <1>2, <1>3, <1>4, <1>5, SettleOnward, OpenOnward

(* Whatever executors keep in their cursors: no write of a producer, an    *)
(* executor, an operator, the clock or the generation trigger takes a row  *)
(* back to an older revision, completion or fence, and none but a newer    *)
(* revision reopens a row that is DONE.                                    *)
THEOREM RowsGoOnward ==
  Spec => [][\A i \in Work : Onward(rows[i], rows'[i])]_vars
BY StepOnward, Inductive, PTL DEF Spec

(* When every executor records in its cursor the revision it enumerates,   *)
(* the queue keeps its projections as IncrementalView promises it.         *)
THEOREM KeepsView ==
  ASSUME Tagged = DomainItems PROVE Spec => Promised
<1>1. Init => Promise!Init
  <2> SUFFICES ASSUME Init PROVE Promise!Init
    OBVIOUS
  <2>1. \A i \in DomainItems : rows[i] = Absent
    BY DEF Init, DomainItems
  <2>2. \A i \in DomainItems :
          rows[i].requested = 0 /\ rows[i].state # "DONE"
    BY <2>1 DEF Absent
  <2>3. [i \in DomainItems |-> rows[i].requested]
          = [v \in DomainItems |-> 0]
    BY <2>2
  <2>4. {i \in DomainItems : rows[i].state = "DONE"} = {}
    BY <2>2
  <2> QED  BY <2>3, <2>4 DEF Init, Promise!Init
<1>2. IInv /\ IInv' /\ [Next]_vars => [Promise!Next]_Promise!vars
  <2> SUFFICES ASSUME IInv, IInv', Next PROVE Promise!Next
    BY DEF vars, Promise!vars
  <2> DEFINE was == [i \in DomainItems |-> rows[i].requested]
             is == [i \in DomainItems |-> rows'[i].requested]
             done == {i \in DomainItems : rows[i].state = "DONE"}
             kept == {i \in DomainItems : rows'[i].state = "DONE"}
  <2>1. \A i \in DomainItems : Onward(rows[i], rows'[i])
    <3>1. \A i \in Work : rows[i] \in Row
      BY DEF IInv, TypeOK
    <3>2. \A i \in Work : Onward(rows[i], rows'[i])
      BY <3>1, StepOnward, OnwardItself DEF vars
    <3> QED  BY <3>2 DEF DomainItems
  <2>2. \A i \in DomainItems :
          /\ rows'[i].requested \in Nat /\ rows[i].requested \in Nat
          /\ seen[i] \in [1..Pages -> Nat] /\ seen'[i] \in [1..Pages -> Nat]
    <3>1. \A i \in DomainItems : rows[i] \in Row /\ rows'[i] \in Row
      BY DEF IInv, TypeOK, DomainItems
    <3> QED  BY <3>1, RowTypes DEF IInv, TypeOK
  <2>3. /\ is \in [DomainItems -> Nat] /\ kept \subseteq DomainItems
        /\ seen' \in [DomainItems -> [1..Pages -> Nat]]
    BY <2>2 DEF IInv, TypeOK
  <2>4. ASSUME NEW i \in DomainItems
        PROVE  /\ is[i] >= was[i]
               /\ \A p \in 1..Pages : /\ seen[i][p] <= seen'[i][p]
                                      /\ seen'[i][p] <= is[i]
    <3>1. is[i] >= was[i]
      BY <2>1, <2>2, <2>4 DEF Onward
    <3>2. \A p \in 1..Pages : seen'[i][p] >= seen[i][p]
      <4>1. (\A p \in 1..Pages : seen'[i][p] >= seen[i][p])
              \/ seen' = seen
        BY SeenGrows DEF vars
      <4>2. \A p \in 1..Pages : seen[i][p] \in Nat
        BY <2>2
      <4> QED  BY <4>1, <4>2
    <3>3. \A p \in 1..Pages : seen'[i][p] <= is[i]
      BY DEF IInv, RowGood
    <3> QED  BY <2>2, <3>1, <3>2, <3>3
  <2>5. ASSUME NEW i \in DomainItems, i \in kept
        PROVE  \A p \in 1..Pages : seen'[i][p] = is[i]
    BY <2>5 DEF IInv, RowGood
  <2>6. ASSUME NEW i \in DomainItems, i \in done
        PROVE  i \in kept \/ is[i] > was[i]
    BY <2>1, <2>6 DEF Onward
  <2> QED  BY <2>3, <2>4, <2>5, <2>6
             DEF Promise!Next, Promise!Advance, Promise!Settle,
                 Promise!Unsettle
<1> QED  BY <1>1, <1>2, Inductive, PTL DEF Spec, Promised, Promise!Spec
=============================================================================
