------------------------- MODULE AdminCommandProofs -------------------------
(***************************************************************************)
(* Theorems of AdminCommand for every value of its constants: types, the   *)
(* receipt and its effect, what clients were told, revocation, and that    *)
(* the endpoint implements CommandOutcome.                                 *)
(***************************************************************************)
EXTENDS AdminCommand, TLAPS, FiniteSetTheorems, WellFoundedInduction

(* The inductive invariant.  Mutex: an identity is locked by one attempt.  *)
(* AttemptGood: what the pc of an attempt says of its draft, its locks and *)
(* the receipt of its command.  CommandGood: the rows of a command.        *)
Mutex == \A r, q \in Requests : r # q => held[r] \cap held[q] = {}

AnswerGood(r) ==
  LET row == receipt[CommandOf[r]]
  IN /\ answer[r] \in {"SUCCEEDED", "REJECTED"} =>
           /\ row # NoReceipt /\ row.outcome = answer[r]
           /\ IntentOf[row.by] = IntentOf[r]
     /\ answer[r] \in {"denied", "conflict", "mismatch"}
        /\ row # NoReceipt => row.by # r

Written(r) ==
  LET d == draft[r]
  IN /\ d.result \in {"SUCCEEDED", "REJECTED"}
     /\ d.effect <=> (d.fresh /\ d.result = "SUCCEEDED")
     /\ d.hint \/ d.staged \/ d.published => d.effect

Matches(r) ==
  LET row == receipt[CommandOf[r]]
  IN /\ row # NoReceipt /\ row.outcome = draft[r].result
     /\ IntentOf[row.by] = IntentOf[r]

(* Receipts are never deleted, so a snapshot only shows what still is.     *)
SnapshotGood(r) == \A c \in snapshot[r].receipts : receipt[c] # NoReceipt

AttemptGood(r) ==
  /\ answer[r] = "none" <=> pc[r] # "answered"
  /\ pc[r] \in {"idle", "locking", "authorized", "answered"} =>
       draft[r] = Blank
  /\ pc[r] \in Authorized => CommandOf[r] \in held[r] /\ ~Revoked(r)
  /\ pc[r] \in {"running", "worked", "rejected"} =>
       /\ draft[r].fresh /\ ~draft[r].published
       /\ receipt[CommandOf[r]] = NoReceipt
  /\ pc[r] = "worked" => draft[r].effect
  /\ pc[r] \in {"preparing", "committing", "committed"} => Written(r)
  /\ pc[r] \in {"preparing", "committing"} =>
       IF draft[r].fresh THEN receipt[CommandOf[r]] = NoReceipt
                         ELSE Matches(r)
  /\ pc[r] = "committed" =>
       Matches(r) /\ (draft[r].fresh <=> receipt[CommandOf[r]].by = r)
  /\ receipt[CommandOf[r]] # NoReceipt /\ receipt[CommandOf[r]].by = r =>
       pc[r] \in {"committed", "answered"}
  /\ AnswerGood(r) /\ SnapshotGood(r)

CommandGood(c) ==
  LET row == receipt[c]
  IN /\ row # NoReceipt => CommandOf[row.by] = c
     /\ effects[c] = IF row # NoReceipt /\ row.outcome = "SUCCEEDED"
                     THEN 1 ELSE 0
     /\ feed[c] <= effects[c]
     /\ hinted[c] = 0 \/ /\ hinted[c] = 1 /\ row # NoReceipt
                         /\ row.outcome = "SUCCEEDED"
                         /\ pc[row.by] = "answered"

IInv ==
  /\ TypeOK /\ Mutex
  /\ \A r \in Requests : AttemptGood(r)
  /\ \A c \in Commands : CommandGood(c)

-----------------------------------------------------------------------------
LEMMA InitiallyGood == Init => IInv
<1> SUFFICES ASSUME Init PROVE IInv
  OBVIOUS
<1>1. TypeOK
  BY RequestAssumption DEF Init, TypeOK, Active, Authorized, NoSnapshot, Blank,
                           Draft
<1>2. Mutex
  BY DEF Init, Mutex
<1>3. ASSUME NEW r \in Requests PROVE AttemptGood(r)
  <2>1. CommandOf[r] \in Commands
    BY RequestAssumption
  <2>2. pc[r] = "idle" /\ answer[r] = "none" /\ draft[r] = Blank
        /\ receipt[CommandOf[r]] = NoReceipt
    BY <2>1 DEF Init
  <2>3. snapshot[r].receipts = {}
    BY DEF Init, NoSnapshot
  <2> QED  BY <2>2, <2>3 DEF AttemptGood, AnswerGood, SnapshotGood, Authorized
<1>4. ASSUME NEW c \in Commands PROVE CommandGood(c)
  BY DEF Init, CommandGood
<1> QED  BY <1>1, <1>2, <1>3, <1>4 DEF IInv

(* A step of request r that writes nothing durable leaves every other      *)
(* attempt and every command as good as it was.                            *)
LEMMA OthersKept ==
  ASSUME IInv, NEW r \in Requests, NEW q \in Requests, q # r,
         pc'[q] = pc[q], held'[q] = held[q], draft'[q] = draft[q],
         answer'[q] = answer[q], snapshot'[q] = snapshot[q],
         UNCHANGED <<receipt, session>>
  PROVE  AttemptGood(q)'
<1>1. AttemptGood(q)
  BY DEF IInv
<1> QED  BY <1>1 DEF AttemptGood, AnswerGood, SnapshotGood, Written, Matches, Revoked

LEMMA CommandsKept ==
  ASSUME IInv, NEW r \in Requests, pc[r] \notin {"answered"},
         \A q \in Requests \ {r} : pc'[q] = pc[q],
         UNCHANGED <<receipt, effects, feed, hinted>>
  PROVE  \A c \in Commands : CommandGood(c)'
<1> SUFFICES ASSUME NEW c \in Commands PROVE CommandGood(c)'
  OBVIOUS
<1>1. CommandGood(c) /\ TypeOK
  BY DEF IInv
<1>2. receipt[c] # NoReceipt => receipt[c].by \in Requests
  BY <1>1 DEF TypeOK
<1> QED  BY <1>1, <1>2 DEF CommandGood

LEMMA Blanks == Blank \in Draft /\ ~Blank.fresh /\ ~Blank.published
                /\ ~Blank.effect /\ Blank.result = "none"
BY DEF Blank, Draft

(* What a step inside an attempt has to show.                              *)
LEMMA Advance ==
  ASSUME IInv, NEW r \in Requests, pc[r] # "answered",
         \A q \in Requests \ {r} :
            /\ pc'[q] = pc[q] /\ held'[q] = held[q]
            /\ draft'[q] = draft[q] /\ answer'[q] = answer[q]
            /\ snapshot'[q] = snapshot[q],
         UNCHANGED <<receipt, effects, feed, hinted, session>>,
         TypeOK', Mutex', AttemptGood(r)'
  PROVE  IInv'
<1>1. \A q \in Requests : AttemptGood(q)'
  BY OthersKept
<1>2. \A c \in Commands : CommandGood(c)'
  BY CommandsKept
<1> QED  BY <1>1, <1>2 DEF IInv

LEMMA MutexShrinks ==
  ASSUME Mutex, TypeOK, NEW r \in Requests,
         held' = held \/ held' = [held EXCEPT ![r] = {}]
  PROVE  Mutex'
BY DEF Mutex, TypeOK

(* The drafts that the steps make. *)
LEMMA Edits ==
  ASSUME NEW e \in Draft, NEW hint \in BOOLEAN, NEW staged \in BOOLEAN,
         NEW result \in {"RUNNING", "SUCCEEDED", "REJECTED"}
  PROVE  /\ [e EXCEPT !.result = result] \in Draft
         /\ [e EXCEPT !.fresh = TRUE, !.result = result] \in Draft
         /\ [e EXCEPT !.effect = TRUE, !.hint = hint,
                      !.staged = staged] \in Draft
         /\ [e EXCEPT !.published = e.staged, !.staged = FALSE] \in Draft
<1>1. e.staged \in BOOLEAN
  BY DEF Draft
<1> QED  BY <1>1 DEF Draft

LEMMA NoSnapshotType == NoSnapshot \in [receipts : SUBSET Commands, revoked : BOOLEAN]
BY DEF NoSnapshot

LEMMA AbortKeeps ==
  ASSUME IInv, NEW r \in Requests, pc[r] \in Active \cup {"committed"},
         NEW a \in {"denied", "conflict", "mismatch", "unknown"},
         \/ pc[r] \in Active /\ (Retried(r) \/ Thrown(r, a))
         \/ Thrown(r, a) /\ a = "unknown"
  PROVE  IInv'
<1>1. TypeOK /\ AttemptGood(r) /\ Mutex
  BY DEF IInv
<1>2. pc[r] # "answered" /\ pc[r] # "idle"
  BY DEF Active, Authorized
<1>3. CASE Retried(r) /\ pc[r] \in Active
  <2>1. /\ pc' = [pc EXCEPT ![r] = "idle"] /\ answer' = answer
        /\ held' = [held EXCEPT ![r] = {}]
        /\ draft' = [draft EXCEPT ![r] = Blank]
        /\ snapshot' = [snapshot EXCEPT ![r] = NoSnapshot]
        /\ UNCHANGED <<attempt, receipt, effects, feed, hinted, session>>
    BY <1>3 DEF Retried, RolledBack
  <2>2. TypeOK'
    BY <1>1, <2>1, Blanks, NoSnapshotType DEF TypeOK
  <2>3. Mutex'
    BY <1>1, <2>1, MutexShrinks
  <2>4. pc'[r] = "idle" /\ draft'[r] = Blank /\ answer'[r] = answer[r]
        /\ snapshot'[r].receipts = {}
    BY <1>1, <2>1 DEF TypeOK, NoSnapshot
  <2>5. pc[r] # "committed"
    BY <1>3 DEF Active, Authorized
  <2>6. AttemptGood(r)'
    BY <1>1, <1>2, <2>1, <2>4, <2>5 DEF AttemptGood, AnswerGood, SnapshotGood, Authorized
  <2>7. \A q \in Requests \ {r} :
            /\ pc'[q] = pc[q] /\ held'[q] = held[q]
            /\ draft'[q] = draft[q] /\ answer'[q] = answer[q]
            /\ snapshot'[q] = snapshot[q]
    BY <1>1, <2>1 DEF TypeOK
  <2> QED  BY <1>2, <2>1, <2>2, <2>3, <2>6, <2>7, Advance
<1>4. CASE Thrown(r, a) /\ (pc[r] \in Active \/ a = "unknown")
  <2>1. /\ pc' = [pc EXCEPT ![r] = "answered"]
        /\ answer' = [answer EXCEPT ![r] = a]
        /\ held' = [held EXCEPT ![r] = {}]
        /\ draft' = [draft EXCEPT ![r] = Blank]
        /\ snapshot' = [snapshot EXCEPT ![r] = NoSnapshot]
        /\ UNCHANGED <<attempt, receipt, effects, feed, hinted, session>>
    BY <1>4 DEF Thrown, RolledBack
  <2>2. TypeOK'
    BY <1>1, <2>1, Blanks, NoSnapshotType DEF TypeOK
  <2>3. Mutex'
    BY <1>1, <2>1, MutexShrinks
  <2>4. pc'[r] = "answered" /\ draft'[r] = Blank /\ answer'[r] = a
        /\ snapshot'[r].receipts = {}
    BY <1>1, <2>1 DEF TypeOK, NoSnapshot
  <2>5. pc[r] \in Active => pc[r] # "committed"
    BY DEF Active, Authorized
  <2>6. AttemptGood(r)'
    BY <1>1, <1>2, <1>4, <2>1, <2>4, <2>5 DEF AttemptGood, AnswerGood, SnapshotGood, Authorized
  <2>7. \A q \in Requests \ {r} :
            /\ pc'[q] = pc[q] /\ held'[q] = held[q]
            /\ draft'[q] = draft[q] /\ answer'[q] = answer[q]
            /\ snapshot'[q] = snapshot[q]
    BY <1>1, <2>1 DEF TypeOK
  <2> QED  BY <1>2, <2>1, <2>2, <2>3, <2>6, <2>7, Advance
<1> QED  BY <1>3, <1>4

-----------------------------------------------------------------------------
LEMMA BeginKeeps ==
  ASSUME IInv, NEW r \in Requests, Begin(r) PROVE IInv'
<1>1. TypeOK /\ AttemptGood(r) /\ Mutex
  BY DEF IInv
<1>2. /\ pc[r] = "idle" /\ pc' = [pc EXCEPT ![r] = "locking"]
      /\ attempt[r] < MaxAttempts
      /\ attempt' = [attempt EXCEPT ![r] = @ + 1]
      /\ UNCHANGED <<held, draft, answer, receipt, effects, feed, hinted,
                     session>>
  BY DEF Begin
<1>3. /\ snapshot' \in [Requests -> [receipts : SUBSET Commands,
                                     revoked : BOOLEAN]]
      /\ \A c \in snapshot'[r].receipts : receipt[c] # NoReceipt
      /\ \A q \in Requests \ {r} : snapshot'[q] = snapshot[q]
  <2>1. Revoked(r) \in BOOLEAN
    BY <1>1, RequestAssumption DEF TypeOK, Revoked
  <2> DEFINE s == IF r \in Serializable
                  THEN [receipts |-> {c \in Commands : receipt[c] # NoReceipt},
                        revoked |-> Revoked(r)]
                  ELSE NoSnapshot
  <2>2. s \in [receipts : SUBSET Commands, revoked : BOOLEAN]
    BY <2>1, NoSnapshotType
  <2>3. snapshot' = [snapshot EXCEPT ![r] = s]
    BY DEF Begin
  <2>4. \A c \in s.receipts : receipt[c] # NoReceipt
    BY DEF NoSnapshot
  <2> HIDE DEF s
  <2>5. snapshot'[r] = s
    BY <1>1, <2>3 DEF TypeOK
  <2> QED  BY <1>1, <2>2, <2>3, <2>4, <2>5 DEF TypeOK
<1>4. attempt' \in [Requests -> 0..MaxAttempts]
  BY <1>1, <1>2, RequestAssumption DEF TypeOK
<1>5. TypeOK'
  BY <1>1, <1>2, <1>3, <1>4 DEF TypeOK, Active
<1>6. Mutex'
  BY <1>1, <1>2 DEF Mutex
<1>7. pc'[r] = "locking"
  BY <1>1, <1>2 DEF TypeOK
<1>8. AttemptGood(r)'
  BY <1>1, <1>2, <1>3, <1>7
     DEF AttemptGood, AnswerGood, SnapshotGood, Authorized
<1>9. \A q \in Requests \ {r} :
          /\ pc'[q] = pc[q] /\ held'[q] = held[q]
          /\ draft'[q] = draft[q] /\ answer'[q] = answer[q]
            /\ snapshot'[q] = snapshot[q]
  BY <1>1, <1>2, <1>3 DEF TypeOK
<1> QED  BY <1>2, <1>5, <1>6, <1>8, <1>9, Advance

(* A step that only moves the pc and rewrites the draft of r.              *)
Rewrites(r, next, d) ==
  /\ pc' = [pc EXCEPT ![r] = next] /\ draft' = [draft EXCEPT ![r] = d]
  /\ UNCHANGED <<attempt, held, snapshot, answer, receipt, effects, feed,
                 hinted, session>>

LEMMA RewriteKeeps ==
  ASSUME IInv, NEW r \in Requests, NEW next \in Authorized,
         NEW d \in Draft, Rewrites(r, next, d),
         pc[r] \notin {"idle", "committed", "answered"},
         AttemptGood(r)'
  PROVE  IInv'
<1>1. TypeOK /\ Mutex
  BY DEF IInv
<1>2. TypeOK'
  BY <1>1 DEF TypeOK, Rewrites, Active
<1>3. Mutex'
  BY <1>1 DEF Mutex, Rewrites
<1>4. \A q \in Requests \ {r} :
          /\ pc'[q] = pc[q] /\ held'[q] = held[q]
          /\ draft'[q] = draft[q] /\ answer'[q] = answer[q]
            /\ snapshot'[q] = snapshot[q]
  BY <1>1 DEF TypeOK, Rewrites
<1> QED  BY <1>2, <1>3, <1>4, Advance DEF Rewrites

LEMMA LockIdentityKeeps ==
  ASSUME IInv, NEW r \in Requests, LockIdentity(r) PROVE IInv'
<1>1. TypeOK /\ AttemptGood(r) /\ Mutex
  BY DEF IInv
<1>2. PICK c \in Commands :
         /\ \A q \in Requests \ {r} : c \notin held[q]
         /\ held' = [held EXCEPT ![r] = @ \cup {c}]
  BY DEF LockIdentity
<1>3. /\ pc[r] = "locking"
      /\ UNCHANGED <<pc, attempt, snapshot, draft, answer, receipt, effects,
                     feed, hinted, session>>
  BY DEF LockIdentity
<1>4. TypeOK'
  BY <1>1, <1>2, <1>3 DEF TypeOK
<1>5. Mutex'
  BY <1>1, <1>2 DEF Mutex, TypeOK
<1>6. AttemptGood(r)'
  BY <1>1, <1>3 DEF AttemptGood, AnswerGood, SnapshotGood, Authorized
<1>7. \A q \in Requests \ {r} :
          /\ pc'[q] = pc[q] /\ held'[q] = held[q]
          /\ draft'[q] = draft[q] /\ answer'[q] = answer[q]
            /\ snapshot'[q] = snapshot[q]
  BY <1>1, <1>2, <1>3 DEF TypeOK
<1> QED  BY <1>3, <1>4, <1>5, <1>6, <1>7, Advance

LEMMA LockActorKeeps ==
  ASSUME IInv, NEW r \in Requests, LockActor(r) PROVE IInv'
<1>1. TypeOK /\ AttemptGood(r) /\ Mutex
  BY DEF IInv
<1>2. pc[r] = "locking" /\ Unlocked(r) = {}
  BY DEF LockActor
<1>3. CASE Retried(r) \/ Thrown(r, "conflict") \/ Thrown(r, "denied")
  BY <1>2, <1>3, AbortKeeps DEF Active
<1>4. CASE /\ ~Revoked(r) /\ pc' = [pc EXCEPT ![r] = "authorized"]
           /\ UNCHANGED <<attempt, held, snapshot, draft, answer, receipt,
                          effects, feed, hinted, session>>
  <2>1. Rewrites(r, "authorized", draft[r]) /\ draft[r] \in Draft
    BY <1>1, <1>4 DEF Rewrites, TypeOK
  <2>2. pc'[r] = "authorized" /\ draft'[r] = draft[r]
    BY <1>1, <1>4 DEF TypeOK
  <2>3. CommandOf[r] \in held[r]
    BY <1>2 DEF Unlocked, Identities
  <2>4. AttemptGood(r)'
    BY <1>1, <1>2, <1>4, <2>2, <2>3
       DEF AttemptGood, AnswerGood, SnapshotGood, Authorized, Revoked
  <2> QED  BY <1>2, <2>1, <2>4, RewriteKeeps DEF Authorized
<1> QED  BY <1>3, <1>4 DEF LockActor

LEMMA VisibleReceipt ==
  ASSUME IInv, NEW r \in Requests, Visible(r)
  PROVE  receipt[CommandOf[r]] # NoReceipt
BY DEF IInv, AttemptGood, SnapshotGood, Visible

LEMMA ReplayKeeps ==
  ASSUME IInv, NEW r \in Requests, Replay(r) PROVE IInv'
<1> DEFINE row == receipt[CommandOf[r]]
           d == [draft[r] EXCEPT !.result = row.outcome]
<1>1. TypeOK /\ AttemptGood(r) /\ Mutex
  BY DEF IInv
<1>2. pc[r] = "authorized" /\ draft[r] = Blank /\ Visible(r)
  BY <1>1 DEF Replay, AttemptGood
<1>3. CASE Thrown(r, "mismatch") \/ Thrown(r, "denied")
  BY <1>2, <1>3, AbortKeeps DEF Active, Authorized
<1>4. CASE /\ IntentOf[row.by] = IntentOf[r]
           /\ pc' = [pc EXCEPT ![r] = "preparing"]
           /\ draft' = [draft EXCEPT ![r].result = row.outcome]
           /\ UNCHANGED <<attempt, held, snapshot, answer, receipt,
                          effects, feed, hinted, session>>
  <2>1. row # NoReceipt
    BY <1>2, VisibleReceipt
  <2>2. row.outcome \in {"SUCCEEDED", "REJECTED"}
    BY <1>1, <2>1, RequestAssumption DEF TypeOK
  <2>3. d \in Draft /\ d.result = row.outcome /\ ~d.fresh /\ ~d.effect
        /\ ~d.hint /\ ~d.staged /\ ~d.published
    <3>1. d \in Draft
      BY <1>2, <2>2, Blanks, Edits
    <3> QED  BY <1>2, <3>1 DEF Blank
  <2>4. Rewrites(r, "preparing", d)
    BY <1>1, <1>4 DEF Rewrites, TypeOK
  <2>5. pc'[r] = "preparing" /\ draft'[r] = d
    BY <1>1, <2>4 DEF TypeOK, Rewrites
  <2>6. AttemptGood(r)'
    <3> HIDE DEF d
    <3> QED  BY <1>1, <1>2, <1>4, <2>1, <2>2, <2>3, <2>5
                DEF AttemptGood, AnswerGood, SnapshotGood, Authorized, Revoked, Written,
                    Matches
  <2> HIDE DEF d
  <2> QED  BY <1>2, <2>3, <2>4, <2>6, RewriteKeeps DEF Authorized
<1> QED  BY <1>3, <1>4 DEF Replay

LEMMA CreateKeeps ==
  ASSUME IInv, NEW r \in Requests, Create(r) PROVE IInv'
<1> DEFINE d == [draft[r] EXCEPT !.fresh = TRUE, !.result = "RUNNING"]
<1>1. TypeOK /\ AttemptGood(r) /\ Mutex
  BY DEF IInv
<1>2. pc[r] = "authorized" /\ draft[r] = Blank
  BY <1>1 DEF Create, AttemptGood
<1>3. CASE \/ Retried(r) \/ Thrown(r, "conflict")
           \/ Thrown(r, "unknown")
  BY <1>2, <1>3, AbortKeeps DEF Active, Authorized
<1>4. CASE /\ receipt[CommandOf[r]] = NoReceipt
           /\ pc' = [pc EXCEPT ![r] = "running"]
           /\ draft' = [draft EXCEPT ![r].fresh = TRUE,
                                     ![r].result = "RUNNING"]
           /\ UNCHANGED <<attempt, held, snapshot, answer, receipt, effects,
                          feed, hinted, session>>
  <2>1. d \in Draft /\ d.fresh /\ ~d.published
    <3>1. d \in Draft
      BY <1>2, Blanks, Edits
    <3> QED  BY <1>2, <3>1 DEF Blank
  <2>2. Rewrites(r, "running", d)
    BY <1>1, <1>4 DEF Rewrites, TypeOK
  <2>3. pc'[r] = "running" /\ draft'[r] = d
    BY <1>1, <2>2 DEF TypeOK, Rewrites
  <2>4. AttemptGood(r)'
    <3> HIDE DEF d
    <3> QED  BY <1>1, <1>2, <1>4, <2>1, <2>3
                DEF AttemptGood, AnswerGood, SnapshotGood, Authorized, Revoked
  <2> HIDE DEF d
  <2> QED  BY <1>2, <2>1, <2>2, <2>4, RewriteKeeps DEF Authorized
<1> QED  BY <1>3, <1>4 DEF Create

LEMMA WorkKeeps ==
  ASSUME IInv, NEW r \in Requests, Work(r) PROVE IInv'
<1>1. TypeOK /\ AttemptGood(r) /\ Mutex
  BY DEF IInv
<1>2. PICK accepted \in BOOLEAN, hint \in BOOLEAN, staged \in BOOLEAN :
         /\ draft' = [draft EXCEPT ![r].effect = TRUE, ![r].hint = hint,
                                   ![r].staged = staged]
         /\ pc' = [pc EXCEPT ![r] =
                     IF accepted /\ Alive(r) THEN "worked" ELSE "rejected"]
  BY DEF Work
<1>3. /\ pc[r] = "running"
      /\ UNCHANGED <<attempt, held, snapshot, answer, receipt, effects, feed,
                     hinted, session>>
  BY DEF Work
<1> DEFINE next == IF accepted /\ Alive(r) THEN "worked" ELSE "rejected"
           d == [draft[r] EXCEPT !.effect = TRUE, !.hint = hint,
                                 !.staged = staged]
<1>4. /\ d \in Draft /\ d.fresh = draft[r].fresh /\ d.effect
      /\ d.published = draft[r].published
  <2>1. draft[r] \in Draft
    BY <1>1 DEF TypeOK
  <2>2. d \in Draft
    BY <2>1, Edits
  <2> QED  BY <2>1, <2>2 DEF Draft
<1>5. next \in {"worked", "rejected"}
  OBVIOUS
<1>6. Rewrites(r, next, d)
  BY <1>1, <1>2, <1>3 DEF Rewrites, TypeOK
<1> HIDE DEF next, d
<1>7. pc'[r] = next /\ draft'[r] = d
  BY <1>1, <1>6 DEF TypeOK, Rewrites
<1>8. AttemptGood(r)'
  BY <1>1, <1>3, <1>4, <1>5, <1>7
     DEF AttemptGood, AnswerGood, SnapshotGood, Authorized, Revoked
<1> QED  BY <1>3, <1>4, <1>5, <1>6, <1>8, RewriteKeeps DEF Authorized

LEMMA PersistKeeps ==
  ASSUME IInv, NEW r \in Requests, Persist(r) PROVE IInv'
<1> DEFINE next == IF Alive(r) THEN "preparing" ELSE "rejected"
           d == [draft[r] EXCEPT !.result = "SUCCEEDED"]
<1>1. TypeOK /\ AttemptGood(r) /\ Mutex
  BY DEF IInv
<1>2. /\ pc[r] = "worked"
      /\ UNCHANGED <<attempt, held, snapshot, answer, receipt, effects, feed,
                     hinted, session>>
  BY DEF Persist
<1>3. draft[r] \in Draft /\ draft[r].fresh /\ draft[r].effect
      /\ ~draft[r].published
  BY <1>1, <1>2 DEF TypeOK, AttemptGood
<1>4. /\ d \in Draft /\ d.fresh /\ d.effect /\ d.result = "SUCCEEDED"
      /\ ~d.published
  BY <1>3 DEF Draft
<1>5. next \in {"preparing", "rejected"}
  OBVIOUS
<1>6. Rewrites(r, next, d)
  BY <1>1, <1>2 DEF Rewrites, TypeOK, Persist
<1> HIDE DEF next, d
<1>7. pc'[r] = next /\ draft'[r] = d
  BY <1>1, <1>6 DEF TypeOK, Rewrites
<1>8. AttemptGood(r)'
  BY <1>1, <1>2, <1>4, <1>5, <1>7
     DEF AttemptGood, AnswerGood, SnapshotGood, Authorized, Revoked, Written
<1> QED  BY <1>2, <1>4, <1>5, <1>6, <1>8, RewriteKeeps DEF Authorized

LEMMA RejectKeeps ==
  ASSUME IInv, NEW r \in Requests, Reject(r) PROVE IInv'
<1> DEFINE d == Denied(draft[r])
<1>1. TypeOK /\ AttemptGood(r) /\ Mutex
  BY DEF IInv
<1>2. /\ pc[r] = "rejected" /\ Rewrites(r, "preparing", d)
      /\ UNCHANGED <<attempt, held, snapshot, answer, receipt, effects, feed,
                     hinted, session>>
  BY DEF Reject, Rewrites
<1>3. /\ d \in Draft /\ d.fresh /\ d.result = "REJECTED" /\ ~d.effect
      /\ ~d.hint /\ ~d.staged /\ ~d.published
  BY DEF Denied, Blank, Draft
<1> HIDE DEF d
<1>4. pc'[r] = "preparing" /\ draft'[r] = d
  BY <1>1, <1>2 DEF TypeOK, Rewrites
<1>5. AttemptGood(r)'
  BY <1>1, <1>2, <1>3, <1>4
     DEF AttemptGood, AnswerGood, SnapshotGood, Authorized, Revoked, Written
<1> QED  BY <1>2, <1>3, <1>5, RewriteKeeps DEF Authorized

LEMMA PrepareKeeps ==
  ASSUME IInv, NEW r \in Requests, Prepare(r) PROVE IInv'
<1> DEFINE d == [draft[r] EXCEPT !.published = draft[r].staged,
                                 !.staged = FALSE]
<1>1. TypeOK /\ AttemptGood(r) /\ Mutex
  BY DEF IInv
<1>2. /\ pc[r] = "preparing"
      /\ UNCHANGED <<attempt, held, snapshot, answer, receipt, effects, feed,
                     hinted, session>>
  BY DEF Prepare
<1>3. Rewrites(r, "committing", d)
  BY <1>1 DEF Prepare, Rewrites, TypeOK
<1>4. /\ d \in Draft /\ d.fresh = draft[r].fresh
      /\ d.result = draft[r].result /\ d.effect = draft[r].effect
      /\ d.hint = draft[r].hint /\ ~d.staged /\ d.published = draft[r].staged
  <2>1. draft[r] \in Draft
    BY <1>1 DEF TypeOK
  <2>2. d \in Draft
    BY <2>1, Edits
  <2> QED  BY <2>1, <2>2 DEF Draft
<1> HIDE DEF d
<1>5. pc'[r] = "committing" /\ draft'[r] = d
  BY <1>1, <1>3 DEF TypeOK, Rewrites
<1>6. AttemptGood(r)'
  BY <1>1, <1>2, <1>4, <1>5
     DEF AttemptGood, AnswerGood, SnapshotGood, Authorized, Revoked, Written, Matches
<1> QED  BY <1>2, <1>3, <1>4, <1>6, RewriteKeeps DEF Authorized

-----------------------------------------------------------------------------
(* The commit of an attempt that created its receipt finds none, and none  *)
(* of the other requests of the command is past its authorization.         *)
LEMMA CommitAlone ==
  ASSUME IInv, NEW r \in Requests, pc[r] = "committing", draft[r].fresh,
         NEW q \in Requests, q # r, CommandOf[q] = CommandOf[r]
  PROVE  /\ receipt[CommandOf[r]] = NoReceipt
         /\ pc[q] \notin Authorized /\ pc[q] # "committed"
<1>1. AttemptGood(r) /\ AttemptGood(q) /\ Mutex
  BY DEF IInv
<1>2. receipt[CommandOf[r]] = NoReceipt /\ CommandOf[r] \in held[r]
  BY <1>1 DEF AttemptGood, Authorized
<1>3. CommandOf[q] \notin held[q]
  BY <1>1, <1>2 DEF Mutex
<1> QED  BY <1>1, <1>2, <1>3 DEF AttemptGood, Matches

LEMMA CommitKeeps ==
  ASSUME IInv, NEW r \in Requests, Commit(r) PROVE IInv'
<1> DEFINE c == CommandOf[r]
           d == draft[r]
           row == [by |-> r, outcome |-> d.result]
<1>1. TypeOK /\ AttemptGood(r) /\ Mutex /\ c \in Commands
  BY RequestAssumption DEF IInv
<1>2. /\ pc[r] = "committing" /\ pc' = [pc EXCEPT ![r] = "committed"]
      /\ held' = [held EXCEPT ![r] = {}]
      /\ snapshot' = [snapshot EXCEPT ![r] = NoSnapshot]
      /\ receipt' = IF d.fresh THEN [receipt EXCEPT ![c] = row] ELSE receipt
      /\ effects' = IF d.effect THEN [effects EXCEPT ![c] = @ + 1]
                                ELSE effects
      /\ feed' = IF d.published THEN [feed EXCEPT ![c] = @ + 1] ELSE feed
      /\ UNCHANGED <<attempt, draft, answer, hinted, session>>
  BY DEF Commit
<1>3. Written(r) /\ (IF d.fresh THEN receipt[c] = NoReceipt ELSE Matches(r))
  BY <1>1, <1>2 DEF AttemptGood
<1>4. d.result \in {"SUCCEEDED", "REJECTED"}
  BY <1>3 DEF Written
<1>5. row # NoReceipt
      /\ row \in [by : Requests, outcome : {"SUCCEEDED", "REJECTED"}]
  BY <1>4, RequestAssumption
<1>6. TypeOK'
  <2>1. receipt' \in [Commands -> {NoReceipt} \cup
                  [by : Requests, outcome : {"SUCCEEDED", "REJECTED"}]]
    <3> HIDE DEF row
    <3> QED  BY <1>1, <1>2, <1>5 DEF TypeOK
  <2>2. effects' \in [Commands -> Nat] /\ feed' \in [Commands -> Nat]
    <3> HIDE DEF d
    <3> QED  BY <1>1, <1>2 DEF TypeOK
  <2> QED  BY <1>1, <1>2, <2>1, <2>2, NoSnapshotType DEF TypeOK
<1>7. Mutex'
  BY <1>1, <1>2, MutexShrinks
<1>8. receipt'[c] = IF d.fresh THEN row ELSE receipt[c]
  <2> HIDE DEF row
  <2> QED  BY <1>1, <1>2 DEF TypeOK
<1>9. ASSUME NEW e \in Commands, e # c
      PROVE  receipt'[e] = receipt[e] /\ effects'[e] = effects[e]
             /\ feed'[e] = feed[e]
  <2> HIDE DEF row, d
  <2> QED  BY <1>1, <1>2, <1>9 DEF TypeOK
<1>10. \A e \in Commands : receipt[e] # NoReceipt => receipt'[e] # NoReceipt
  <2> HIDE DEF row
  <2> QED  BY <1>5, <1>8, <1>9
<1>11. pc'[r] = "committed" /\ draft'[r] = d /\ answer'[r] = answer[r]
       /\ snapshot'[r].receipts = {}
  BY <1>1, <1>2 DEF TypeOK, NoSnapshot
<1>12. AttemptGood(r)'
  <2>1. Matches(r)' /\ (draft'[r].fresh <=> receipt'[c].by = r)
    <3>1. CASE d.fresh
      BY <1>5, <1>8, <1>11, <3>1 DEF Matches
    <3>2. CASE ~d.fresh
      BY <1>1, <1>2, <1>3, <1>8, <1>11, <3>2 DEF Matches, AttemptGood
    <3> QED  BY <3>1, <3>2
  <2>2. Written(r)'
    BY <1>3, <1>11 DEF Written
  <2>3. answer[r] = "none"
    BY <1>1, <1>2 DEF AttemptGood
  <2> QED  BY <1>11, <2>1, <2>2, <2>3
           DEF AttemptGood, AnswerGood, SnapshotGood, Authorized
<1>13. ASSUME NEW q \in Requests, q # r PROVE AttemptGood(q)'
  <2>1. AttemptGood(q) /\ CommandOf[q] \in Commands
    BY RequestAssumption DEF IInv
  <2>2. /\ pc'[q] = pc[q] /\ held'[q] = held[q] /\ draft'[q] = draft[q]
        /\ answer'[q] = answer[q] /\ snapshot'[q] = snapshot[q]
        /\ (Revoked(q) <=> Revoked(q)')
    BY <1>1, <1>2, <1>13 DEF TypeOK, Revoked
  <2>3. SnapshotGood(q)'
    BY <1>1, <1>10, <2>1, <2>2 DEF AttemptGood, SnapshotGood, TypeOK
  <2>4. CASE receipt'[CommandOf[q]] = receipt[CommandOf[q]]
    BY <2>1, <2>2, <2>3, <2>4 DEF AttemptGood, AnswerGood, Written, Matches
  <2>5. CASE receipt'[CommandOf[q]] # receipt[CommandOf[q]]
    <3>1. CommandOf[q] = c /\ d.fresh
      <4> HIDE DEF row
      <4> QED  BY <1>8, <1>9, <2>1, <2>5
    <3>2. /\ receipt[c] = NoReceipt /\ pc[q] \notin Authorized
          /\ pc[q] # "committed"
      BY <1>2, <1>13, <3>1, CommitAlone
    <3>3. receipt'[CommandOf[q]].by = r
      BY <1>8, <3>1
    <3> QED  BY <1>13, <2>1, <2>2, <2>3, <3>1, <3>2, <3>3
             DEF AttemptGood, AnswerGood, Authorized
  <2> QED  BY <2>4, <2>5
<1>14. ASSUME NEW e \in Commands PROVE CommandGood(e)'
  <2>1. CommandGood(e) /\ effects[e] \in Nat /\ feed[e] \in Nat
    BY DEF IInv, TypeOK
  <2>2. receipt[e] # NoReceipt => receipt[e].by \in Requests
    BY <1>1 DEF TypeOK
  <2>3. CASE receipt'[e] = receipt[e]
    <3>1. effects'[e] = effects[e] /\ feed'[e] = feed[e]
      <4>1. CASE e # c
        BY <1>9, <4>1
      <4>2. CASE e = c
        <5>1. ~d.fresh
          <6> HIDE DEF row
          <6> QED  BY <1>3, <1>5, <1>8, <2>3, <4>2
        <5> QED  BY <1>2, <1>3, <5>1 DEF Written
      <4> QED  BY <4>1, <4>2
    <3>2. receipt[e] # NoReceipt /\ pc[receipt[e].by] = "answered"
             => pc'[receipt[e].by] = "answered"
      BY <1>1, <1>2, <2>2 DEF TypeOK
    <3> QED  BY <1>2, <2>1, <2>3, <3>1, <3>2 DEF CommandGood
  <2>4. CASE receipt'[e] # receipt[e]
    <3>1. e = c /\ d.fresh /\ receipt[e] = NoReceipt
      <4> HIDE DEF row
      <4> QED  BY <1>3, <1>8, <1>9, <2>4
    <3>2. effects[e] = 0 /\ feed[e] = 0 /\ hinted'[e] = 0
      BY <1>2, <2>1, <3>1 DEF CommandGood
    <3>3. /\ effects'[e] = IF d.effect THEN 1 ELSE 0
          /\ feed'[e] = IF d.published THEN 1 ELSE 0
      <4> HIDE DEF d
      <4> QED  BY <1>1, <1>2, <3>1, <3>2 DEF TypeOK
    <3>4. receipt'[e] = row
      <4> HIDE DEF row
      <4> QED  BY <1>8, <3>1
    <3> QED  BY <1>3, <1>5, <3>1, <3>2, <3>3, <3>4 DEF CommandGood, Written
  <2> QED  BY <2>3, <2>4
<1> QED  BY <1>6, <1>7, <1>12, <1>13, <1>14 DEF IInv

LEMMA FlushKeeps ==
  ASSUME IInv, NEW r \in Requests, Flush(r) PROVE IInv'
<1> DEFINE c == CommandOf[r]
           d == draft[r]
<1>1. TypeOK /\ AttemptGood(r) /\ Mutex /\ c \in Commands
  BY RequestAssumption DEF IInv
<1>2. /\ pc[r] = "committed" /\ pc' = [pc EXCEPT ![r] = "answered"]
      /\ answer' = [answer EXCEPT ![r] = d.result]
      /\ hinted' = IF d.hint THEN [hinted EXCEPT ![c] = @ + 1] ELSE hinted
      /\ draft' = [draft EXCEPT ![r] = Blank]
      /\ UNCHANGED <<attempt, held, snapshot, receipt, effects, feed, session>>
  BY DEF Flush
<1>3. Written(r) /\ Matches(r) /\ (d.fresh <=> receipt[c].by = r)
  BY <1>1, <1>2 DEF AttemptGood
<1>4. d.result \in {"SUCCEEDED", "REJECTED"}
  BY <1>3 DEF Written
<1>5. hinted' \in [Commands -> Nat]
  <2> HIDE DEF d
  <2> QED  BY <1>1, <1>2 DEF TypeOK
<1>6. TypeOK'
  <2> HIDE DEF d
  <2> QED  BY <1>1, <1>2, <1>4, <1>5, Blanks DEF TypeOK
<1>7. Mutex'
  BY <1>1, <1>2 DEF Mutex
<1>8. pc'[r] = "answered" /\ draft'[r] = Blank /\ answer'[r] = d.result
  <2> HIDE DEF d
  <2> QED  BY <1>1, <1>2 DEF TypeOK
<1>9. AttemptGood(r)'
  BY <1>1, <1>2, <1>3, <1>4, <1>8
     DEF AttemptGood, AnswerGood, SnapshotGood, Authorized, Matches
<1>10. ASSUME NEW q \in Requests, q # r PROVE AttemptGood(q)'
  <2>1. /\ pc'[q] = pc[q] /\ held'[q] = held[q] /\ draft'[q] = draft[q]
        /\ answer'[q] = answer[q] /\ snapshot'[q] = snapshot[q]
    BY <1>1, <1>2, <1>10 DEF TypeOK
  <2> QED  BY <1>2, <1>10, <2>1, OthersKept
<1>11. ASSUME NEW e \in Commands PROVE CommandGood(e)'
  <2>1. CommandGood(e) /\ hinted[e] \in Nat
    BY DEF IInv, TypeOK
  <2>2. receipt[e] # NoReceipt => receipt[e].by \in Requests
    BY <1>1 DEF TypeOK
  <2>3. receipt[e] # NoReceipt /\ pc[receipt[e].by] = "answered"
           => pc'[receipt[e].by] = "answered"
    BY <1>1, <1>2, <2>2 DEF TypeOK
  <2>4. CASE hinted'[e] = hinted[e]
    BY <1>2, <2>1, <2>3, <2>4 DEF CommandGood
  <2>5. CASE hinted'[e] # hinted[e]
    <3>1. e = c /\ d.hint /\ hinted'[e] = hinted[e] + 1
      <4> HIDE DEF d
      <4> QED  BY <1>1, <1>2, <2>5 DEF TypeOK
    <3>2. /\ receipt[e].by = r /\ receipt[e] # NoReceipt
          /\ receipt[e].outcome = "SUCCEEDED"
      BY <1>3, <3>1 DEF Written, Matches
    <3>3. hinted[e] = 0
      BY <1>2, <2>1, <3>2 DEF CommandGood
    <3> QED  BY <1>2, <1>8, <2>1, <3>1, <3>2, <3>3 DEF CommandGood
  <2> QED  BY <2>4, <2>5
<1> QED  BY <1>6, <1>7, <1>9, <1>10, <1>11 DEF IInv

LEMMA SessionKeeps ==
  ASSUME IInv, NEW s \in Sessions, Logout(s) \/ Expire(s) PROVE IInv'
<1>1. TypeOK /\ Mutex
  BY DEF IInv
<1>2. /\ UNCHANGED <<pc, attempt, held, snapshot, draft, answer, receipt,
                     effects, feed, hinted>>
      /\ \/ session' = [session EXCEPT ![s].revoked = TRUE] /\ Unheld(s)
         \/ session' = [session EXCEPT ![s].valid = FALSE]
  BY DEF Logout, Expire
<1> DEFINE a == [session[s] EXCEPT !.revoked = TRUE]
           b == [session[s] EXCEPT !.valid = FALSE]
<1>3. /\ a \in [valid : BOOLEAN, revoked : BOOLEAN]
      /\ b \in [valid : BOOLEAN, revoked : BOOLEAN]
      /\ b.revoked = session[s].revoked
  BY <1>1 DEF TypeOK
<1>8. \/ session' = [session EXCEPT ![s] = a] /\ Unheld(s)
      \/ session' = [session EXCEPT ![s] = b]
  BY <1>1, <1>2 DEF TypeOK
<1> HIDE DEF a, b
<1>4. TypeOK'
  <2>1. session' \in [Sessions -> [valid : BOOLEAN, revoked : BOOLEAN]]
    BY <1>1, <1>3, <1>8 DEF TypeOK
  <2> QED  BY <1>1, <1>2, <2>1 DEF TypeOK
<1>5. ASSUME NEW r \in Requests PROVE AttemptGood(r)'
  <2>1. AttemptGood(r) /\ SessionOf[r] \in Sessions
    BY RequestAssumption DEF IInv
  <2>2. pc[r] \in Authorized => ~Revoked(r)'
    <3>1. ASSUME pc[r] \in Authorized
          PROVE  session'[SessionOf[r]].revoked = session[SessionOf[r]].revoked
      BY <1>1, <1>3, <1>8, <2>1, <3>1 DEF TypeOK, Unheld
    <3> QED  BY <2>1, <3>1 DEF AttemptGood, Revoked
  <2> QED  BY <1>2, <2>1, <2>2
           DEF AttemptGood, AnswerGood, SnapshotGood, Written, Matches
<1>6. ASSUME NEW c \in Commands PROVE CommandGood(c)'
  BY <1>2 DEF IInv, CommandGood
<1>7. Mutex'
  BY <1>1, <1>2 DEF Mutex
<1> QED  BY <1>4, <1>5, <1>6, <1>7 DEF IInv

LEMMA InductiveStep == IInv /\ [Next]_vars => IInv'
<1> SUFFICES ASSUME IInv, [Next]_vars PROVE IInv'
  OBVIOUS
<1>1. CASE UNCHANGED vars
  BY <1>1 DEF vars, IInv, TypeOK, Mutex, AttemptGood, AnswerGood,
              SnapshotGood, Written, Matches, Revoked, CommandGood
<1>2. ASSUME NEW r \in Requests, Step(r) PROVE IInv'
  BY <1>2, BeginKeeps, LockIdentityKeeps, LockActorKeeps, ReplayKeeps,
     CreateKeeps, WorkKeeps, PersistKeeps, RejectKeeps, PrepareKeeps,
     CommitKeeps, FlushKeeps DEF Step
<1>3. ASSUME NEW r \in Requests, Conflict(r) \/ Fail(r) \/ Lose(r)
      PROVE  IInv'
  BY <1>3, AbortKeeps DEF Conflict, Fail, Lose
<1> QED  BY <1>1, <1>2, <1>3, SessionKeeps DEF Next

LEMMA Inductive == Spec => []IInv
BY InitiallyGood, InductiveStep, PTL DEF Spec

-----------------------------------------------------------------------------
(* Every row and every attempt keeps its type, and no root commit takes    *)
(* more attempts than it may.                                              *)
THEOREM TypeCorrect == Spec => []TypeOK
BY Inductive, PTL DEF IInv

(* Whatever conflicts, retries, resends, expiries and lost answers happen, *)
(* a command that succeeded has its effect once, any other command has     *)
(* none, and no feed entry or hint speaks of an effect that is not there.  *)
THEOREM EffectOnce == Spec => []ReceiptTellsEffect
<1>1. IInv => ReceiptTellsEffect
  <2> SUFFICES ASSUME IInv, NEW c \in Commands
               PROVE  /\ effects[c] = IF /\ receipt[c] # NoReceipt
                                         /\ receipt[c].outcome = "SUCCEEDED"
                                      THEN 1 ELSE 0
                      /\ feed[c] <= effects[c] /\ hinted[c] <= effects[c]
    BY DEF ReceiptTellsEffect
  <2> QED  BY DEF IInv, CommandGood
<1> QED  BY <1>1, Inductive, PTL

(* What a client was told is durable; a client that was refused has left   *)
(* nothing behind.                                                         *)
THEOREM AnswersHold == Spec => []AnswerIsDurable
<1>1. IInv => AnswerIsDurable
  BY DEF IInv, AttemptGood, AnswerGood, AnswerIsDurable
<1> QED  BY <1>1, Inductive, PTL

(* No command of a session is decided after the session was revoked.       *)
LEMMA DecidedUnrevoked ==
  IInv /\ [Next]_vars =>
    [\A c \in Commands : receipt'[c] # receipt[c] =>
        ~session[SessionOf[receipt'[c].by]].revoked]_vars
<1> SUFFICES ASSUME IInv, Next, NEW c \in Commands, receipt'[c] # receipt[c]
             PROVE  ~session[SessionOf[receipt'[c].by]].revoked
  BY DEF vars
<1>1. PICK r \in Requests : Commit(r)
  BY DEF Next, Step, Conflict, Fail, Lose, Logout, Expire, Begin, LockIdentity,
         LockActor, Replay, Create, Work, Persist, Reject, Prepare, Flush,
         Retried, Thrown, RolledBack
<1> DEFINE row == [by |-> r, outcome |-> draft[r].result]
<1>2. receipt' = [receipt EXCEPT ![CommandOf[r]] = row]
  BY <1>1 DEF Commit
<1>3. row.by = r
  OBVIOUS
<1>4. CommandOf[r] \in Commands /\ receipt \in [Commands ->
         {NoReceipt} \cup [by : Requests, outcome : {"SUCCEEDED", "REJECTED"}]]
  BY RequestAssumption DEF IInv, TypeOK
<1>5. receipt'[c] = row
  <2> HIDE DEF row
  <2> QED  BY <1>2, <1>4
<1>6. AttemptGood(r) /\ pc[r] = "committing"
  BY <1>1 DEF IInv, Commit
<1> QED  BY <1>3, <1>5, <1>6 DEF AttemptGood, Authorized, Revoked

THEOREM RevocationHolds == Spec => RevokedActsNoMore
BY DecidedUnrevoked, Inductive, PTL DEF Spec, RevokedActsNoMore

-----------------------------------------------------------------------------
(* The endpoint implements CommandOutcome: the commit decides, the answer  *)
(* of an attempt responds, every other step stutters.                      *)
LEMMA ThrownResponds ==
  ASSUME IInv, NEW r \in Requests, pc[r] # "answered",
         NEW a \in {"denied", "conflict", "mismatch", "unknown"},
         Thrown(r, a), a \in {"denied", "conflict"} => pc[r] # "committed",
         a = "mismatch" => /\ receipt[CommandOf[r]] # NoReceipt
                           /\ IntentOf[receipt[CommandOf[r]].by] # IntentOf[r]
  PROVE  Promise!Respond(r, a)
<1>1. AttemptGood(r)
  BY DEF IInv
<1>2. answer[r] = "none"
  BY <1>1 DEF AttemptGood
<1>3. a \in {"denied", "conflict"} /\ receipt[CommandOf[r]] # NoReceipt
         => receipt[CommandOf[r]].by # r
  BY <1>1 DEF AttemptGood
<1> QED  BY <1>2, <1>3 DEF Thrown, RolledBack, Promise!Respond, Promise!Agrees,
            Promise!Decided, Promise!Outcomes, Promise!Refusals

LEMMA CommitDecides ==
  ASSUME IInv, NEW r \in Requests, Commit(r)
  PROVE  Promise!Next \/ UNCHANGED Promise!vars
<1> DEFINE c == CommandOf[r]
           d == draft[r]
<1>1. AttemptGood(r) /\ pc[r] = "committing"
  BY DEF IInv, Commit
<1>2. Written(r)
  BY <1>1 DEF AttemptGood
<1>3. CASE d.fresh
  <2>1. receipt[c] = NoReceipt /\ answer[r] = "none"
    BY <1>1, <1>3 DEF AttemptGood
  <2>2. CASE d.result = "SUCCEEDED"
    <3>1. Promise!Decide(r, "SUCCEEDED")
      BY <1>2, <1>3, <2>1, <2>2
         DEF Commit, Written, Promise!Decide, Promise!Decided
    <3> QED  BY <3>1 DEF Promise!Next, Promise!Outcomes
  <2>3. CASE d.result = "REJECTED"
    <3>1. Promise!Decide(r, "REJECTED")
      BY <1>2, <1>3, <2>1, <2>3
         DEF Commit, Written, Promise!Decide, Promise!Decided
    <3> QED  BY <3>1 DEF Promise!Next, Promise!Outcomes
  <2> QED  BY <1>2, <2>2, <2>3 DEF Written
<1>4. CASE ~d.fresh
  BY <1>2, <1>4 DEF Commit, Written, Promise!vars
<1> QED  BY <1>3, <1>4

LEMMA FlushResponds ==
  ASSUME IInv, NEW r \in Requests, Flush(r) PROVE Promise!Next
<1> DEFINE c == CommandOf[r]
           d == draft[r]
<1>1. AttemptGood(r) /\ pc[r] = "committed"
  BY DEF IInv, Flush
<1>2. /\ Written(r) /\ Matches(r) /\ (d.fresh <=> receipt[c].by = r)
      /\ answer[r] = "none"
  BY <1>1 DEF AttemptGood
<1>3. Promise!Agrees(r, d.result) /\ d.result # "none"
  BY <1>2 DEF Written, Matches, Promise!Agrees, Promise!Decided,
              Promise!Outcomes, Promise!Refusals
<1>4. d.hint => /\ receipt[c] # NoReceipt /\ receipt[c].by = r
                /\ receipt[c].outcome = "SUCCEEDED"
  BY <1>2 DEF Written, Matches
<1>5. Promise!Respond(r, d.result)
  BY <1>2, <1>3, <1>4 DEF Flush, Promise!Respond, Promise!Decided
<1>6. d.result \in Promise!Answers
  BY <1>2 DEF Written, Promise!Answers, Promise!Outcomes
<1> QED  BY <1>5, <1>6 DEF Promise!Next

LEMMA StepImplements == IInv /\ [Next]_vars => [Promise!Next]_(Promise!vars)
<1> SUFFICES ASSUME IInv, [Next]_vars
             PROVE  Promise!Next \/ UNCHANGED Promise!vars
  OBVIOUS
<1>1. CASE UNCHANGED vars
  BY <1>1 DEF vars, Promise!vars
<1>2. ASSUME NEW r \in Requests,
             NEW a \in {"denied", "conflict", "mismatch", "unknown"},
             Promise!Respond(r, a)
      PROVE  Promise!Next
  BY <1>2 DEF Promise!Next, Promise!Answers, Promise!Outcomes,
              Promise!Refusals
<1>3. ASSUME NEW r \in Requests, Retried(r)
      PROVE  UNCHANGED Promise!vars
  BY <1>3 DEF Retried, RolledBack, Promise!vars
<1>4. ASSUME NEW r \in Requests, pc[r] \in Active,
             NEW a \in {"denied", "conflict", "unknown"}, Thrown(r, a)
      PROVE  Promise!Next
  BY <1>2, <1>4, ThrownResponds DEF Active, Authorized
<1>5. ASSUME NEW r \in Requests, Conflict(r) \/ Fail(r)
      PROVE  Promise!Next \/ UNCHANGED Promise!vars
  BY <1>3, <1>4, <1>5 DEF Conflict, Fail
<1>6. ASSUME NEW r \in Requests, Lose(r) PROVE Promise!Next
  BY <1>2, <1>6, ThrownResponds DEF Lose
<1>7. ASSUME NEW r \in Requests, LockActor(r) \/ Create(r)
      PROVE  Promise!Next \/ UNCHANGED Promise!vars
  <2>1. pc[r] \in Active
    BY <1>7 DEF LockActor, Create, Active, Authorized
  <2>2. \/ Retried(r) \/ Thrown(r, "conflict") \/ Thrown(r, "denied")
        \/ Thrown(r, "unknown")
        \/ UNCHANGED Promise!vars
    BY <1>7 DEF LockActor, Create, Promise!vars
  <2> QED  BY <1>3, <1>4, <2>1, <2>2
<1>8. ASSUME NEW r \in Requests, Replay(r)
      PROVE  Promise!Next \/ UNCHANGED Promise!vars
  <2>1. pc[r] = "authorized" /\ receipt[CommandOf[r]] # NoReceipt
    BY <1>8, VisibleReceipt DEF Replay
  <2>2. CASE /\ Thrown(r, "mismatch")
             /\ IntentOf[receipt[CommandOf[r]].by] # IntentOf[r]
    BY <1>2, <2>1, <2>2, ThrownResponds
  <2>3. CASE Thrown(r, "denied")
    BY <1>4, <2>1, <2>3 DEF Active, Authorized
  <2>4. CASE UNCHANGED Promise!vars
    BY <2>4
  <2> QED  BY <1>8, <2>2, <2>3, <2>4 DEF Replay, Promise!vars
<1>9. ASSUME NEW r \in Requests,
             \/ Begin(r) \/ LockIdentity(r) \/ Work(r) \/ Persist(r)
             \/ Reject(r) \/ Prepare(r)
      PROVE  UNCHANGED Promise!vars
  BY <1>9 DEF Begin, LockIdentity, Work, Persist, Reject, Prepare,
              Promise!vars
<1>10. ASSUME NEW s \in Sessions, Logout(s) \/ Expire(s)
       PROVE  UNCHANGED Promise!vars
  BY <1>10 DEF Logout, Expire, Promise!vars
<1> QED  BY <1>1, <1>5, <1>6, <1>7, <1>8, <1>9, <1>10, CommitDecides,
            FlushResponds DEF Next, Step

(* Every behaviour of the endpoint is one that CommandOutcome allows.      *)
THEOREM KeepsPromise == Spec => Promised
<1>1. Init => Promise!Init
  BY DEF Init, Promise!Init
<1>2. IInv /\ [Next]_vars => [Promise!Next]_(Promise!vars)
  BY StepImplements
<1> QED  BY <1>1, <1>2, Inductive, PTL DEF Spec, Promised, Promise!Spec

-----------------------------------------------------------------------------
(* No deadlock.  Every finite nonempty set of numbers has a least and a    *)
(* greatest one, because inclusion of its finite subsets is well founded.  *)
LEMMA Least ==
  ASSUME NEW T \in SUBSET Nat, T # {}, IsFiniteSet(T)
  PROVE  \E m \in T : \A n \in T : m <= n
<1> DEFINE Below(m) == {n \in T : n < m}
           F == {Below(m) : m \in T}
           R == StrictSubsetOrdering(T)
<1>1. F # {} /\ \A A \in F : A \in SUBSET T
  OBVIOUS
<1>2. \A A \in F : A \in FiniteSubsetsOf(T)
  BY <1>1, FS_Subset DEF FiniteSubsetsOf
<1>3. IsWellFoundedOn(R, FiniteSubsetsOf(T))
  BY FS_StrictSubsetOrderingWellFounded
<1>4. PICK A \in F : \A B \in F : <<B, A>> \notin R
  <2> HIDE DEF F, R
  <2>1. F \subseteq FiniteSubsetsOf(T)
    BY <1>2
  <2> QED  BY <1>1, <1>3, <2>1, WFMin, Zenon
<1>5. PICK m \in T : A = Below(m)
  BY <1>4
<1>6. ASSUME NEW n \in T, n < m PROVE FALSE
  <2>1. n \in Nat /\ m \in Nat /\ \A k \in T : k \in Nat
    OBVIOUS
  <2>2. Below(n) \subseteq Below(m)
    <3>1. ASSUME NEW k \in T, k < n PROVE k < m
      BY <1>6, <2>1, <3>1
    <3> QED  BY <3>1
  <2>3. n \in Below(m) /\ n \notin Below(n)
    BY <1>6, <2>1
  <2>4. Below(n) \in F /\ Below(m) \in F
    OBVIOUS
  <2> HIDE DEF Below, F
  <2>5. <<Below(n), Below(m)>> \in R
    BY <1>1, <2>2, <2>3, <2>4 DEF StrictSubsetOrdering
  <2> QED  BY <1>4, <1>5, <2>4, <2>5
<1> QED  BY <1>6

LEMMA Greatest ==
  ASSUME NEW T \in SUBSET Nat, T # {}, IsFiniteSet(T)
  PROVE  \E m \in T : \A n \in T : n <= m
<1> DEFINE Above(m) == {n \in T : m < n}
           F == {Above(m) : m \in T}
           R == StrictSubsetOrdering(T)
<1>1. F # {} /\ \A A \in F : A \in SUBSET T
  OBVIOUS
<1>2. \A A \in F : A \in FiniteSubsetsOf(T)
  BY <1>1, FS_Subset DEF FiniteSubsetsOf
<1>3. IsWellFoundedOn(R, FiniteSubsetsOf(T))
  BY FS_StrictSubsetOrderingWellFounded
<1>4. PICK A \in F : \A B \in F : <<B, A>> \notin R
  <2> HIDE DEF F, R
  <2>1. F \subseteq FiniteSubsetsOf(T)
    BY <1>2
  <2> QED  BY <1>1, <1>3, <2>1, WFMin, Zenon
<1>5. PICK m \in T : A = Above(m)
  BY <1>4
<1>6. ASSUME NEW n \in T, m < n PROVE FALSE
  <2>1. n \in Nat /\ m \in Nat /\ \A k \in T : k \in Nat
    OBVIOUS
  <2>2. Above(n) \subseteq Above(m)
    <3>1. ASSUME NEW k \in T, n < k PROVE m < k
      BY <1>6, <2>1, <3>1
    <3> QED  BY <3>1
  <2>3. n \in Above(m) /\ n \notin Above(n)
    BY <1>6, <2>1
  <2>4. Above(n) \in F /\ Above(m) \in F
    OBVIOUS
  <2> HIDE DEF Above, F
  <2>5. <<Above(n), Above(m)>> \in R
    BY <1>1, <2>2, <2>3, <2>4 DEF StrictSubsetOrdering
  <2> QED  BY <1>4, <1>5, <2>4, <2>5
<1> QED  BY <1>6

(* An attempt locks in ascending order, keeps its locks no longer than it  *)
(* lasts, and an idle request has an attempt left.                         *)
LocksAscend(r) ==
  /\ held[r] # {} => pc[r] \in Active
  /\ pc[r] = "locking" =>
       \A c \in held[r], d \in Unlocked(r) : c < d
  /\ pc[r] = "idle" => attempt[r] < MaxAttempts

Ordered == \A r \in Requests : LocksAscend(r)

LEMMA OrderedInitially == Init => Ordered
BY RequestAssumption DEF Init, Ordered, LocksAscend, Active, Authorized

LEMMA IdentitiesAreCommands ==
  ASSUME NEW r \in Requests PROVE Identities(r) \in SUBSET Commands
BY RequestAssumption DEF Identities

LEMMA RestKeepsOrder ==
  ASSUME Ordered, NEW r \in Requests, NEW q \in Requests, q # r,
         pc'[q] = pc[q], held'[q] = held[q],
         attempt'[q] = attempt[q]
  PROVE  LocksAscend(q)'
BY DEF Ordered, LocksAscend, Unlocked, Identities

LEMMA AbortKeepsOrder ==
  ASSUME TypeOK, Ordered, NEW r \in Requests,
         NEW a \in {"denied", "conflict", "mismatch", "unknown"},
         Retried(r) \/ Thrown(r, a)
  PROVE  Ordered'
<1>1. held' = [held EXCEPT ![r] = {}] /\ attempt' = attempt
  BY DEF Retried, Thrown, RolledBack
<1>2. \/ pc' = [pc EXCEPT ![r] = "idle"] /\ attempt[r] < MaxAttempts
      \/ pc' = [pc EXCEPT ![r] = "answered"]
  BY DEF Retried, Thrown
<1>3. LocksAscend(r)'
  BY <1>1, <1>2 DEF TypeOK, LocksAscend
<1>4. ASSUME NEW q \in Requests, q # r PROVE LocksAscend(q)'
  BY <1>1, <1>2, <1>4, RestKeepsOrder DEF TypeOK
<1> QED  BY <1>3, <1>4 DEF Ordered

LEMMA LockIdentityKeepsOrder ==
  ASSUME TypeOK, Ordered, NEW r \in Requests, LockIdentity(r)
  PROVE  Ordered'
<1>1. PICK c \in Commands :
         NextIdentity(r, c) /\ held' = [held EXCEPT ![r] = @ \cup {c}]
  BY DEF LockIdentity
<1>2. pc[r] = "locking" /\ UNCHANGED <<pc, attempt>>
  BY DEF LockIdentity
<1>3. held'[r] = held[r] \cup {c}
  BY <1>1 DEF TypeOK
<1>4. ASSUME NEW e \in held'[r], NEW d \in Unlocked(r)' PROVE e < d
  <2>1. d \in Unlocked(r) /\ d # c
    BY <1>3 DEF Unlocked, Identities
  <2>2. c \in Nat /\ d \in Nat
    BY <2>1, IdentitiesAreCommands, RequestAssumption DEF Unlocked
  <2>3. c < d
    BY <1>1, <2>1, <2>2 DEF NextIdentity
  <2> QED  BY <1>2, <1>3, <2>1, <2>3 DEF Ordered, LocksAscend
<1>5. LocksAscend(r)'
  BY <1>2, <1>4 DEF LocksAscend, Active
<1>6. ASSUME NEW q \in Requests, q # r PROVE LocksAscend(q)'
  BY <1>1, <1>2, <1>6, RestKeepsOrder DEF TypeOK
<1> QED  BY <1>5, <1>6 DEF Ordered

(* A step of r that takes no lock: it begins an attempt, or it goes on     *)
(* from one place behind the locks to another, or it ends the attempt.     *)
LEMMA MoveKeepsOrder ==
  ASSUME TypeOK, Ordered, NEW r \in Requests,
         NEW next \in Authorized \cup {"locking", "committed", "answered"},
         pc' = [pc EXCEPT ![r] = next],
         held' = held \/ held' = [held EXCEPT ![r] = {}],
         next = "locking" => held[r] = {},
         next \in {"committed", "answered"} => held'[r] = {},
         \A q \in Requests \ {r} : attempt'[q] = attempt[q]
  PROVE  Ordered'
<1>1. pc'[r] = next /\ held'[r] \subseteq held[r]
  BY DEF TypeOK
<1>2. LocksAscend(r)'
  BY <1>1 DEF LocksAscend, Active, Authorized
<1>3. ASSUME NEW q \in Requests, q # r PROVE LocksAscend(q)'
  BY <1>3, RestKeepsOrder DEF TypeOK
<1> QED  BY <1>2, <1>3 DEF Ordered

LEMMA OrderKept == IInv /\ Ordered /\ [Next]_vars => Ordered'
<1> SUFFICES ASSUME IInv, Ordered, [Next]_vars PROVE Ordered'
  OBVIOUS
<1>0. TypeOK
  BY DEF IInv
<1>1. ASSUME UNCHANGED <<pc, attempt, held>> PROVE Ordered'
  BY <1>1 DEF Ordered, LocksAscend, Unlocked, Identities
<1>2. ASSUME NEW r \in Requests, Step(r) PROVE Ordered'
  <2>1. CASE Begin(r)
    <3>1. held[r] = {}
      BY <2>1 DEF Begin, Ordered, LocksAscend, Active, Authorized
    <3> QED  BY <1>0, <2>1, <3>1, MoveKeepsOrder DEF Begin, TypeOK
  <2>2. CASE LockIdentity(r)
    BY <1>0, <2>2, LockIdentityKeepsOrder
  <2>3. CASE LockActor(r)
    <3>1. CASE Retried(r) \/ Thrown(r, "conflict") \/ Thrown(r, "denied")
      BY <1>0, <3>1, AbortKeepsOrder
    <3>2. CASE /\ pc' = [pc EXCEPT ![r] = "authorized"]
               /\ UNCHANGED <<attempt, held>>
      BY <1>0, <3>2, MoveKeepsOrder DEF Authorized
    <3> QED  BY <2>3, <3>1, <3>2 DEF LockActor
  <2>4. CASE Replay(r)
    <3>1. CASE Thrown(r, "mismatch") \/ Thrown(r, "denied")
      BY <1>0, <3>1, AbortKeepsOrder
    <3>2. CASE /\ pc' = [pc EXCEPT ![r] = "preparing"]
               /\ UNCHANGED <<attempt, held>>
      BY <1>0, <3>2, MoveKeepsOrder DEF Authorized
    <3> QED  BY <2>4, <3>1, <3>2 DEF Replay
  <2>5. CASE Create(r)
    <3>1. CASE Retried(r) \/ Thrown(r, "conflict") \/ Thrown(r, "unknown")
      BY <1>0, <3>1, AbortKeepsOrder
    <3>2. CASE /\ pc' = [pc EXCEPT ![r] = "running"]
               /\ UNCHANGED <<attempt, held>>
      BY <1>0, <3>2, MoveKeepsOrder DEF Authorized
    <3> QED  BY <2>5, <3>1, <3>2 DEF Create
  <2>6. CASE Work(r)
    <3>1. PICK next \in {"worked", "rejected"} :
             pc' = [pc EXCEPT ![r] = next]
      BY <2>6 DEF Work
    <3>2. UNCHANGED <<attempt, held>>
      BY <2>6 DEF Work
    <3> QED  BY <1>0, <3>1, <3>2, MoveKeepsOrder DEF Authorized
  <2>7. CASE Persist(r)
    <3>1. PICK next \in {"preparing", "rejected"} :
             pc' = [pc EXCEPT ![r] = next]
      BY <2>7 DEF Persist
    <3>2. UNCHANGED <<attempt, held>>
      BY <2>7 DEF Persist
    <3> QED  BY <1>0, <3>1, <3>2, MoveKeepsOrder DEF Authorized
  <2>8. CASE Reject(r)
    BY <1>0, <2>8, MoveKeepsOrder DEF Reject, Authorized
  <2>9. CASE Prepare(r)
    BY <1>0, <2>9, MoveKeepsOrder DEF Prepare, Authorized
  <2>10. CASE Commit(r)
    <3>1. /\ pc' = [pc EXCEPT ![r] = "committed"]
          /\ held' = [held EXCEPT ![r] = {}] /\ attempt' = attempt
      BY <2>10 DEF Commit
    <3>2. held'[r] = {}
      BY <1>0, <3>1 DEF TypeOK
    <3> QED  BY <1>0, <3>1, <3>2, MoveKeepsOrder
  <2>11. CASE Flush(r)
    <3>1. /\ pc' = [pc EXCEPT ![r] = "answered"] /\ pc[r] = "committed"
          /\ UNCHANGED <<held, attempt>>
      BY <2>11 DEF Flush
    <3>2. held[r] = {}
      BY <3>1 DEF Ordered, LocksAscend, Active, Authorized
    <3> QED  BY <1>0, <3>1, <3>2, MoveKeepsOrder
  <2> QED  BY <1>2, <2>1, <2>2, <2>3, <2>4, <2>5, <2>6, <2>7, <2>8, <2>9,
              <2>10, <2>11 DEF Step
<1>3. ASSUME NEW r \in Requests, Conflict(r) \/ Fail(r) \/ Lose(r)
      PROVE  Ordered'
  BY <1>0, <1>3, AbortKeepsOrder DEF Conflict, Fail, Lose
<1>4. ASSUME NEW s \in Sessions, Logout(s) \/ Expire(s) PROVE Ordered'
  BY <1>1, <1>4 DEF Logout, Expire
<1> QED  BY <1>1, <1>2, <1>3, <1>4 DEF Next, vars

(* Request r waits for the advisory lock that q holds.                     *)
WaitsFor(r, q) ==
  /\ pc[r] = "locking" /\ q # r
  /\ \E c \in held[q] : NextIdentity(r, c)

(* No set of requests waits for one another.                               *)
NoCycleOfWaits ==
  \A D \in SUBSET Requests :
    D # {} => \E r \in D : \A q \in D : ~WaitsFor(r, q)

(* The guard of the next step of r's attempt.                              *)
CanStep(r) ==
  \/ pc[r] = "idle" /\ attempt[r] < MaxAttempts
  \/ /\ pc[r] = "locking"
     /\ \/ Unlocked(r) = {}
        \/ \E c \in Commands : /\ NextIdentity(r, c)
                               /\ \A q \in Requests \ {r} : c \notin held[q]
  \/ pc[r] \in Authorized \cup {"committed"}

(* As long as a request is unanswered, some unanswered request can go on.  *)
SomebodyMoves ==
  (\E r \in Requests : pc[r] # "answered") =>
     \E q \in Requests : pc[q] # "answered" /\ CanStep(q)

(* The greatest identity that is waited for inside D is waited for by one  *)
(* whose holder does not wait inside D: it would wait for a greater one.   *)
LEMMA AcyclicWaits ==
  ASSUME TypeOK, Ordered PROVE NoCycleOfWaits
<1> SUFFICES ASSUME NEW D \in SUBSET Requests, D # {},
                    \A r \in D : \E q \in D : WaitsFor(r, q)
             PROVE  FALSE
  BY DEF NoCycleOfWaits
<1> DEFINE W == {c \in Commands : \E r \in D : NextIdentity(r, c)}
<1>1. ASSUME NEW r \in D
      PROVE  \E q \in D, c \in W :
               q # r /\ pc[r] = "locking" /\ c \in held[q] /\ NextIdentity(r, c)
  <2>1. PICK q \in D : WaitsFor(r, q)
    OBVIOUS
  <2>2. PICK c \in held[q] : NextIdentity(r, c)
    BY <2>1 DEF WaitsFor
  <2>3. held[q] \subseteq Commands
    BY DEF TypeOK
  <2> QED  BY <2>1, <2>2, <2>3 DEF WaitsFor
<1>2. W # {}
  BY <1>1
<1>3. W \in SUBSET Nat /\ IsFiniteSet(W)
  BY RequestAssumption, FS_Subset
<1>4. PICK m \in W : \A n \in W : n <= m
  BY <1>2, <1>3, Greatest
<1>5. PICK r \in D : NextIdentity(r, m)
  BY <1>4
<1>6. PICK q \in D, c \in W : /\ pc[r] = "locking" /\ c \in held[q]
                              /\ NextIdentity(r, c)
  BY <1>1
<1>7. c = m
  <2>1. c \in Nat /\ m \in Nat
    BY <1>3
  <2>2. c \in Unlocked(r) /\ m \in Unlocked(r)
    BY <1>5, <1>6 DEF NextIdentity
  <2>3. c <= m /\ m <= c
    BY <1>5, <1>6, <2>2 DEF NextIdentity
  <2> QED  BY <2>1, <2>3
<1>8. PICK p \in D, d \in W : pc[q] = "locking" /\ NextIdentity(q, d)
  BY <1>1
<1>9. m < d
  BY <1>6, <1>7, <1>8 DEF Ordered, LocksAscend, NextIdentity
<1>10. d <= m /\ d \in Nat /\ m \in Nat
  BY <1>3, <1>4
<1> QED  BY <1>9, <1>10

LEMMA SomeoneCanStep ==
  ASSUME TypeOK, Ordered PROVE SomebodyMoves
<1> SUFFICES ASSUME NEW r \in Requests, pc[r] # "answered",
                    \A q \in Requests : pc[q] # "answered" => ~CanStep(q)
             PROVE  FALSE
  BY DEF SomebodyMoves
<1> DEFINE D == {q \in Requests : pc[q] # "answered"}
<1>1. ASSUME NEW q \in D PROVE pc[q] = "locking"
  <2>1. ~CanStep(q) /\ LocksAscend(q)
    BY DEF Ordered
  <2>2. pc[q] \in Active \cup {"idle", "committed", "answered"}
    BY DEF TypeOK
  <2> QED  BY <2>1, <2>2 DEF CanStep, LocksAscend, Active
<1>2. ASSUME NEW q \in D PROVE \E p \in D : WaitsFor(q, p)
  <2>1. ~CanStep(q) /\ pc[q] = "locking"
    BY <1>1
  <2>2. /\ Unlocked(q) # {} /\ Unlocked(q) \in SUBSET Commands
        /\ Unlocked(q) \in SUBSET Nat /\ IsFiniteSet(Unlocked(q))
    BY <2>1, IdentitiesAreCommands, RequestAssumption, FS_Subset
       DEF CanStep, Unlocked
  <2>3. PICK c \in Unlocked(q) : NextIdentity(q, c)
    BY <2>2, Least DEF NextIdentity
  <2>4. PICK p \in Requests \ {q} : c \in held[p]
    BY <2>1, <2>2, <2>3 DEF CanStep
  <2>5. pc[p] # "answered"
    BY <2>4 DEF Ordered, LocksAscend, Active, Authorized
  <2> QED  BY <2>1, <2>3, <2>4, <2>5 DEF WaitsFor
<1>3. D \in SUBSET Requests /\ D # {}
  OBVIOUS
<1> HIDE DEF D
<1> QED  BY <1>2, <1>3, AcyclicWaits DEF NoCycleOfWaits

LEMMA AlwaysOrdered == Spec => []Ordered
<1>1. IInv /\ Ordered /\ [Next]_vars => Ordered'
  BY OrderKept
<1> QED  BY <1>1, OrderedInitially, Inductive, PTL DEF Spec

(* Whatever identities the requests name and in whatever order they arrive *)
(* no set of attempts waits for one another: sorting the identities is     *)
(* enough.  This is the lockCommandIdentity loop of executeAdminCommand.   *)
THEOREM NoDeadlock == Spec => []NoCycleOfWaits
<1>1. IInv /\ Ordered => NoCycleOfWaits
  BY AcyclicWaits DEF IInv
<1> QED  BY <1>1, Inductive, AlwaysOrdered, PTL

(* Until every request is answered some request can take its next step:    *)
(* what EveryRequestAnswered needs besides fairness.                       *)
THEOREM NeverStuck == Spec => []SomebodyMoves
<1>1. IInv /\ Ordered => SomebodyMoves
  BY SomeoneCanStep DEF IInv
<1> QED  BY <1>1, Inductive, AlwaysOrdered, PTL

(* Receipts are never deleted and never rewritten: whatever resends,       *)
(* retries and lost answers follow, a decision stands.                     *)
DecisionsStand ==
  [][\A c \in Commands : receipt[c] # NoReceipt => receipt'[c] = receipt[c]]_vars

LEMMA ReceiptKept ==
  IInv /\ [Next]_vars =>
    [\A c \in Commands : receipt[c] # NoReceipt => receipt'[c] = receipt[c]]_vars
<1> SUFFICES ASSUME IInv, Next, NEW c \in Commands, receipt'[c] # receipt[c]
             PROVE  receipt[c] = NoReceipt
  BY DEF vars
<1>1. PICK r \in Requests : Commit(r)
  BY DEF Next, Step, Conflict, Fail, Lose, Logout, Expire, Begin, LockIdentity,
         LockActor, Replay, Create, Work, Persist, Reject, Prepare, Flush,
         Retried, Thrown, RolledBack
<1> DEFINE row == [by |-> r, outcome |-> draft[r].result]
<1>2. /\ pc[r] = "committing"
      /\ receipt' = IF draft[r].fresh
                    THEN [receipt EXCEPT ![CommandOf[r]] = row] ELSE receipt
  BY <1>1 DEF Commit
<1>3. receipt \in [Commands ->
         {NoReceipt} \cup [by : Requests, outcome : {"SUCCEEDED", "REJECTED"}]]
  BY DEF IInv, TypeOK
<1>4. draft[r].fresh /\ c = CommandOf[r]
  <2> HIDE DEF row
  <2> QED  BY <1>2, <1>3
<1> QED  BY <1>2, <1>4 DEF IInv, AttemptGood

THEOREM DecisionsLast == Spec => DecisionsStand
BY ReceiptKept, Inductive, PTL DEF Spec, DecisionsStand
=============================================================================
