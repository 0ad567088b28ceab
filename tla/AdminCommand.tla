---------------------------- MODULE AdminCommand ----------------------------
(***************************************************************************)
(* executeAdminCommand of admin-commit-authority-service.js run by         *)
(* runRootCommit of db-commit-kernel.js.                                   *)
(*                                                                         *)
(* A request is an HTTP request that carries a command identity; a client  *)
(* that was not answered sends another request with the same identity.     *)
(* Each request is one root commit: attempts of one PostgreSQL transaction *)
(* that are rolled back and retried on a conflict.  What an attempt wrote  *)
(* and is not yet durable is its draft; locks last as long as the attempt. *)
(***************************************************************************)
EXTENDS Naturals, FiniteSets

CONSTANTS
  Requests,      \* HTTP requests
  Commands,      \* command identities; they are locked in ascending order
  Sessions,      \* AdminSession rows
  CommandOf,     \* [Requests -> Commands]
  RelatedOf,     \* [Requests -> SUBSET Commands]: parentIdentity, resumeIdentity
  IntentOf,      \* [Requests -> intents]: what payloadHash tells apart
  SessionOf,     \* [Requests -> Sessions]
  Serializable,  \* requests whose action runs at isolation Serializable
  MaxAttempts,   \* maxAttempts of the root commit
  NoReceipt      \* no AdminCommand row

ASSUME RequestAssumption ==
  /\ Commands \subseteq Nat /\ IsFiniteSet(Commands)
  /\ CommandOf \in [Requests -> Commands]
  /\ RelatedOf \in [Requests -> SUBSET Commands]
  /\ SessionOf \in [Requests -> Sessions]
  /\ Serializable \subseteq Requests
  /\ MaxAttempts \in Nat \ {0}
  /\ \A r \in Requests, s \in {"SUCCEEDED", "REJECTED"} :
        NoReceipt # [by |-> r, outcome |-> s]

VARIABLES
  pc,        \* how far the current attempt of a request is
  attempt,   \* attempts begun
  held,      \* advisory locks on command identities
  snapshot,  \* what was committed when a Serializable attempt began
  draft,     \* what the attempt has written and is not yet durable
  answer,    \* what the client was told
  receipt,   \* AdminCommand rows: the deciding request and the status
  effects,   \* domain effects that are durable
  feed,      \* entity changes that are durable
  hinted,    \* post-commit hints that were sent
  session    \* AdminSession: before expiresAt, and revokedAt

vars == <<pc, attempt, held, snapshot, draft, answer, receipt, effects, feed,
          hinted, session>>

Blank == [fresh |-> FALSE, result |-> "none", effect |-> FALSE,
          hint |-> FALSE, staged |-> FALSE, published |-> FALSE]

NoSnapshot == [receipts |-> {}, revoked |-> FALSE]

(* pc of an attempt that holds the actor's rows FOR SHARE.                 *)
Authorized == {"authorized", "running", "worked", "rejected", "preparing",
               "committing"}
Active == Authorized \cup {"locking"}

Alive(r) == session[SessionOf[r]].valid
Revoked(r) == session[SessionOf[r]].revoked

-----------------------------------------------------------------------------
(* runRootCommit.                                                          *)
Begin(r) ==
  /\ pc[r] = "idle" /\ attempt[r] < MaxAttempts
  /\ pc' = [pc EXCEPT ![r] = "locking"]
  /\ attempt' = [attempt EXCEPT ![r] = @ + 1]
  /\ snapshot' = [snapshot EXCEPT ![r] =
       IF r \in Serializable
       THEN [receipts |-> {c \in Commands : receipt[c] # NoReceipt},
             revoked |-> Revoked(r)]
       ELSE NoSnapshot]
  /\ UNCHANGED <<held, draft, answer, receipt, effects, feed, hinted, session>>

RolledBack(r) ==
  /\ held' = [held EXCEPT ![r] = {}]
  /\ draft' = [draft EXCEPT ![r] = Blank]
  /\ snapshot' = [snapshot EXCEPT ![r] = NoSnapshot]
  /\ UNCHANGED <<attempt, receipt, effects, feed, hinted, session>>

(* An error that is no conflict ends the command.                          *)
Thrown(r, a) ==
  /\ RolledBack(r)
  /\ pc' = [pc EXCEPT ![r] = "answered"]
  /\ answer' = [answer EXCEPT ![r] = a]

(* A conflict is retried while attempts and deadline last.                 *)
Retried(r) ==
  /\ RolledBack(r) /\ attempt[r] < MaxAttempts
  /\ pc' = [pc EXCEPT ![r] = "idle"]
  /\ UNCHANGED answer

Conflict(r) == pc[r] \in Active /\ (Retried(r) \/ Thrown(r, "conflict"))

(* A timeout, a lost connection, the deadline or a crash before COMMIT.    *)
Fail(r) == pc[r] \in Active /\ Thrown(r, "unknown")

(* The preparations run last inside the transaction, in the order of keys. *)
Prepare(r) ==
  /\ pc[r] = "preparing"
  /\ pc' = [pc EXCEPT ![r] = "committing"]
  /\ draft' = [draft EXCEPT ![r].published = draft[r].staged,
                            ![r].staged = FALSE]
  /\ UNCHANGED <<attempt, held, snapshot, answer, receipt, effects, feed,
                 hinted, session>>

Commit(r) ==
  LET c == CommandOf[r]
      d == draft[r]
  IN /\ pc[r] = "committing"
     /\ pc' = [pc EXCEPT ![r] = "committed"]
     /\ held' = [held EXCEPT ![r] = {}]
     /\ receipt' = IF d.fresh
          THEN [receipt EXCEPT ![c] = [by |-> r, outcome |-> d.result]]
          ELSE receipt
     /\ effects' = IF d.effect THEN [effects EXCEPT ![c] = @ + 1] ELSE effects
     /\ feed' = IF d.published THEN [feed EXCEPT ![c] = @ + 1] ELSE feed
     /\ snapshot' = [snapshot EXCEPT ![r] = NoSnapshot]
     /\ UNCHANGED <<attempt, draft, answer, hinted, session>>

Flush(r) ==
  LET c == CommandOf[r]
  IN /\ pc[r] = "committed"
     /\ pc' = [pc EXCEPT ![r] = "answered"]
     /\ answer' = [answer EXCEPT ![r] = draft[r].result]
     /\ hinted' = IF draft[r].hint THEN [hinted EXCEPT ![c] = @ + 1]
                                   ELSE hinted
     /\ draft' = [draft EXCEPT ![r] = Blank]
     /\ UNCHANGED <<attempt, held, snapshot, receipt, effects, feed, session>>

(* COMMIT took place but its confirmation was lost, or the process died.   *)
LoseAsConflict(r) ==
  pc[r] = "committed" /\ (Retried(r) \/ Thrown(r, "conflict"))

Lose(r) == pc[r] = "committed" /\ Thrown(r, "unknown")

-----------------------------------------------------------------------------
(* executeAdminCommand.                                                    *)
Identities(r) == {CommandOf[r]} \cup RelatedOf[r]

Unlocked(r) == Identities(r) \ held[r]

OwnIdentityFirst(r, c) ==
  c \in Unlocked(r) /\ (CommandOf[r] \in Unlocked(r) => c = CommandOf[r])

NextIdentity(r, c) == c \in Unlocked(r) /\ \A d \in Unlocked(r) : c <= d

LockIdentity(r) ==
  /\ pc[r] = "locking"
  /\ \E c \in Commands :
       /\ NextIdentity(r, c)
       /\ \A q \in Requests \ {r} : c \notin held[q]
       /\ held' = [held EXCEPT ![r] = @ \cup {c}]
  /\ UNCHANGED <<pc, attempt, snapshot, draft, answer, receipt, effects, feed,
                 hinted, session>>

(* lockAdminActor.  FOR SHARE of a row that changed after the snapshot of  *)
(* a Serializable attempt is a serialization failure.                      *)
LockActor(r) ==
  /\ pc[r] = "locking" /\ Unlocked(r) = {}
  /\ IF r \in Serializable /\ Revoked(r) # snapshot[r].revoked
     THEN Retried(r) \/ Thrown(r, "conflict")
     ELSE IF Revoked(r) \/ ~Alive(r)
     THEN Thrown(r, "denied")
     ELSE /\ pc' = [pc EXCEPT ![r] = "authorized"]
          /\ UNCHANGED <<attempt, held, snapshot, draft, answer, receipt,
                         effects, feed, hinted, session>>

Visible(r) ==
  IF r \in Serializable THEN CommandOf[r] \in snapshot[r].receipts
                        ELSE receipt[CommandOf[r]] # NoReceipt

Replay(r) ==
  LET row == receipt[CommandOf[r]]
  IN /\ pc[r] = "authorized" /\ Visible(r)
     /\ IF IntentOf[row.by] # IntentOf[r] THEN Thrown(r, "mismatch")
        ELSE IF ~Alive(r) THEN Thrown(r, "denied")
        ELSE /\ pc' = [pc EXCEPT ![r] = "preparing"]
             /\ draft' = [draft EXCEPT ![r].result = row.outcome]
             /\ UNCHANGED <<attempt, held, snapshot, answer, receipt,
                            effects, feed, hinted, session>>

(* The RUNNING row and the savepoint.  A receipt behind the snapshot makes *)
(* the insert fail, as a conflict or as a violation of the unique key.     *)
Create(r) ==
  /\ pc[r] = "authorized" /\ ~Visible(r)
  /\ IF receipt[CommandOf[r]] # NoReceipt
     THEN Retried(r) \/ Thrown(r, "conflict") \/ Thrown(r, "unknown")
     ELSE /\ pc' = [pc EXCEPT ![r] = "running"]
          /\ draft' = [draft EXCEPT ![r].fresh = TRUE, ![r].result = "RUNNING"]
          /\ UNCHANGED <<attempt, held, snapshot, answer, receipt, effects,
                         feed, hinted, session>>

(* The domain callback inside the savepoint, then the session's lifetime.  *)
Work(r) ==
  /\ pc[r] = "running"
  /\ \E accepted, hint, staged \in BOOLEAN :
       /\ draft' = [draft EXCEPT ![r].effect = TRUE, ![r].hint = hint,
                                 ![r].staged = staged]
       /\ pc' = [pc EXCEPT ![r] =
                   IF accepted /\ Alive(r) THEN "worked" ELSE "rejected"]
  /\ UNCHANGED <<attempt, held, snapshot, answer, receipt, effects, feed,
                 hinted, session>>

(* persistOutcome of a success, then the lifetime once more.               *)
Persist(r) ==
  /\ pc[r] = "worked"
  /\ draft' = [draft EXCEPT ![r].result = "SUCCEEDED"]
  /\ pc' = [pc EXCEPT ![r] = IF Alive(r) THEN "preparing" ELSE "rejected"]
  /\ UNCHANGED <<attempt, held, snapshot, answer, receipt, effects, feed,
                 hinted, session>>

(* ROLLBACK TO SAVEPOINT, discardCommitHints, persistOutcome of a denial.  *)
Unrecorded(d) == [Blank EXCEPT !.fresh = TRUE, !.result = "RUNNING"]
ChangesKept(d) == [Blank EXCEPT !.fresh = TRUE, !.result = "REJECTED",
                                !.staged = d.staged]
EffectKept(d) == [Blank EXCEPT !.fresh = TRUE, !.result = "REJECTED",
                               !.effect = d.effect]
Denied(d) == [Blank EXCEPT !.fresh = TRUE, !.result = "REJECTED"]

Reject(r) ==
  /\ pc[r] = "rejected"
  /\ draft' = [draft EXCEPT ![r] = Denied(draft[r])]
  /\ pc' = [pc EXCEPT ![r] = "preparing"]
  /\ UNCHANGED <<attempt, held, snapshot, answer, receipt, effects, feed,
                 hinted, session>>

-----------------------------------------------------------------------------
(* logoutAdmin: FOR UPDATE waits for every attempt that holds the row.     *)
LogoutAtOnce(s) == TRUE
Unheld(s) == \A r \in Requests : SessionOf[r] = s => pc[r] \notin Authorized

Logout(s) ==
  /\ ~session[s].revoked /\ Unheld(s)
  /\ session' = [session EXCEPT ![s].revoked = TRUE]
  /\ UNCHANGED <<pc, attempt, held, snapshot, draft, answer, receipt, effects,
                 feed, hinted>>

(* The database clock passes expiresAt.                                    *)
Expire(s) ==
  /\ session[s].valid
  /\ session' = [session EXCEPT ![s].valid = FALSE]
  /\ UNCHANGED <<pc, attempt, held, snapshot, draft, answer, receipt, effects,
                 feed, hinted>>

Init ==
  /\ pc = [r \in Requests |-> "idle"]
  /\ attempt = [r \in Requests |-> 0]
  /\ held = [r \in Requests |-> {}]
  /\ snapshot = [r \in Requests |-> NoSnapshot]
  /\ draft = [r \in Requests |-> Blank]
  /\ answer = [r \in Requests |-> "none"]
  /\ receipt = [c \in Commands |-> NoReceipt]
  /\ effects = [c \in Commands |-> 0]
  /\ feed = [c \in Commands |-> 0]
  /\ hinted = [c \in Commands |-> 0]
  /\ session = [s \in Sessions |-> [valid |-> TRUE, revoked |-> FALSE]]

Step(r) ==
  \/ Begin(r) \/ LockIdentity(r) \/ LockActor(r) \/ Replay(r) \/ Create(r)
  \/ Work(r) \/ Persist(r) \/ Reject(r) \/ Prepare(r) \/ Commit(r) \/ Flush(r)

Next ==
  \/ \E r \in Requests : Step(r) \/ Conflict(r) \/ Fail(r) \/ Lose(r)
  \/ \E s \in Sessions : Logout(s) \/ Expire(s)

Spec == Init /\ [][Next]_vars

(* A request that runs takes its next step.  Nothing obliges the database  *)
(* to break a deadlock or time out, or a session to end.                   *)
FairSpec == Spec /\ \A r \in Requests : WF_vars(Step(r))

-----------------------------------------------------------------------------
Draft ==
  [fresh : BOOLEAN,
   result : {"none", "RUNNING", "SUCCEEDED", "REJECTED"},
   effect : BOOLEAN, hint : BOOLEAN, staged : BOOLEAN, published : BOOLEAN]

(* The types of the rows and of what an attempt keeps, and the bound on    *)
(* the attempts of one root commit.                                        *)
TypeOK ==
  /\ pc \in [Requests -> Active \cup {"idle", "committed", "answered"}]
  /\ attempt \in [Requests -> 0..MaxAttempts]
  /\ held \in [Requests -> SUBSET Commands]
  /\ snapshot \in [Requests -> [receipts : SUBSET Commands, revoked : BOOLEAN]]
  /\ draft \in [Requests -> Draft]
  /\ answer \in [Requests -> {"none", "SUCCEEDED", "REJECTED", "mismatch",
                              "denied", "conflict", "unknown"}]
  /\ receipt \in [Commands -> {NoReceipt} \cup
                   [by : Requests, outcome : {"SUCCEEDED", "REJECTED"}]]
  /\ effects \in [Commands -> Nat] /\ feed \in [Commands -> Nat]
  /\ hinted \in [Commands -> Nat]
  /\ session \in [Sessions -> [valid : BOOLEAN, revoked : BOOLEAN]]

(* The receipt tells what happened: a success has its effect exactly once, *)
(* a rejection and an undecided command have none, and neither the change  *)
(* feed nor a hint speaks of an effect that is not durable.                *)
ReceiptTellsEffect ==
  \A c \in Commands :
    /\ effects[c] = IF receipt[c] # NoReceipt /\ receipt[c].outcome = "SUCCEEDED"
                    THEN 1 ELSE 0
    /\ feed[c] <= effects[c] /\ hinted[c] <= effects[c]

(* What a client was told is durable, and a client that was told that it   *)
(* was refused has left nothing behind, however many attempts it took.     *)
AnswerIsDurable ==
  \A r \in Requests :
    LET row == receipt[CommandOf[r]]
    IN /\ answer[r] \in {"SUCCEEDED", "REJECTED"} =>
             /\ row # NoReceipt /\ row.outcome = answer[r]
             /\ IntentOf[row.by] = IntentOf[r]
       /\ answer[r] \in {"denied", "conflict", "mismatch"}
          /\ row # NoReceipt => row.by # r

(* Once a logout is done no command of that session takes effect any more, *)
(* not even one that was authorized before.                                *)
RevokedActsNoMore ==
  [][\A c \in Commands : receipt'[c] # receipt[c] =>
        ~session[SessionOf[receipt'[c].by]].revoked]_vars

(* Every request is answered without a deadlock for PostgreSQL to break:   *)
(* identities are locked in one order, and the actor's rows after them.    *)
EveryRequestAnswered ==
  \A r \in Requests : <>(pc[r] = "answered")

(* The promise, on the rows themselves.                                    *)
Promise == INSTANCE CommandOutcome
             WITH Undecided <- NoReceipt, decision <- receipt
Promised == Promise!Spec
=============================================================================
