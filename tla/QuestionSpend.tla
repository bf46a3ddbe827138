---------------------------- MODULE QuestionSpend ----------------------------
(***************************************************************************)
(* Paying for a question: SQLTokenRepository.spend_question and everything *)
(* it calls, run by concurrent requests against one Postgres store at READ *)
(* COMMITTED, beside the operator's revocation, the clock, the nightly     *)
(* purge of question keys and process crashes.                             *)
(*                                                                         *)
(* The variables used, hash and attempts hold what is COMMITTED.  An       *)
(* uncommitted spend is visible only as the lock its UPDATE holds on the   *)
(* grant's row.  One action is one statement with the Python up to the     *)
(* next await, or a statement and the commit that follows it when nothing  *)
(* can come between them that another transaction could observe.           *)
(***************************************************************************)
EXTENDS Integers, FiniteSets

CONSTANTS
  Requests,     \* HTTP requests that reach spend_question, each at most once
  Grants,       \* rows of the tokens table
  Keys,         \* idempotency keys a client may choose
  Messages,     \* SHA-256 hashes of question texts
  Versions,     \* token versions: v1 and v2
  Version,      \* the version each grant was issued with
  MaxQueries,   \* each grant's allowance
  MaxAttempts,  \* MAX_QUESTION_ATTEMPTS
  NoMessage,    \* no question_keys row
  NoOne         \* the grant's row is not locked

ASSUME RequestsAssumption == IsFiniteSet(Requests) /\ NoOne \notin Requests
ASSUME MessagesAssumption == NoMessage \notin Messages
ASSUME GrantsAssumption == /\ Version \in [Grants -> Versions]
                           /\ MaxQueries \in [Grants -> Nat]
ASSUME AttemptsAssumption == MaxAttempts \in Nat \ {0}

VARIABLES
  revoked,      \* tokens.revoked_at IS NOT NULL, committed
  expired,      \* the wall clock has passed tokens.expires_at
  used,         \* tokens.used_queries, committed
  lock,         \* which request's open transaction holds the grant's row
  hash,         \* question_keys.message_hash, or NoMessage where no row is
  attempts,     \* question_keys.attempts, 0 where no row is
  pc,           \* where each request is, or how it was answered
  req,          \* what each request carries
  sawExpired,   \* the comparison a request's captured `now` will make
  purged,       \* history: the questions whose key was ever purged
  hopeless      \* history: the requests whose grant was dead on arrival

store == <<used, hash, attempts>>
clock == <<revoked, expired>>
vars  == <<revoked, expired, used, lock, hash, attempts, pc, req, sawExpired,
           purged, hopeless>>

Questions == Grants \X Keys
Request   == [grant : Grants, key : Keys, message : Messages, version : Versions]

Working  == {"lookup", "spend", "commit", "explain", "reread", "check", "take"}
Served   == {"paid", "retried"}
Refusals == {"TokenRevoked", "InvalidToken", "TokenExpired", "QuotaExhausted",
             "IdempotencyKeyReused", "RetriesExhausted"}
Answered == Served \cup Refusals \cup {"crashed"}

TypeOK ==
  /\ revoked \in [Grants -> BOOLEAN]
  /\ expired \in [Grants -> BOOLEAN]
  /\ used \in [Grants -> Nat]
  /\ lock \in [Grants -> Requests \cup {NoOne}]
  /\ hash \in [Questions -> Messages \cup {NoMessage}]
  /\ attempts \in [Questions -> 0..MaxAttempts]
  /\ pc \in [Requests -> {"idle"} \cup Working \cup Answered]
  /\ req \in [Requests -> Request]
  /\ sawExpired \in [Requests -> BOOLEAN]
  /\ purged \in SUBSET Questions
  /\ hopeless \in SUBSET Requests

Init ==
  /\ revoked \in [Grants -> BOOLEAN]
  /\ expired \in [Grants -> BOOLEAN]
  /\ used = [g \in Grants |-> 0]
  /\ lock = [g \in Grants |-> NoOne]
  /\ hash = [q \in Questions |-> NoMessage]
  /\ attempts = [q \in Questions |-> 0]
  /\ pc = [r \in Requests |-> "idle"]
  /\ req \in [Requests -> Request]
  /\ sawExpired = [r \in Requests |-> FALSE]
  /\ purged = {}
  /\ hopeless = {}

-----------------------------------------------------------------------------
(* What a request asks about, and what the code asks of its grant.         *)

Grant(r)    == req[r].grant
Question(r) == <<req[r].grant, req[r].key>>

Goto(r, from, to) == pc[r] = from /\ pc' = [pc EXCEPT ![r] = to]

\* Mutant: a grant past its expiry counts as live.
RefusalIgnoringExpiry(r) ==
  IF revoked[Grant(r)]                        THEN "TokenRevoked"
  ELSE IF Version[Grant(r)] # req[r].version  THEN "InvalidToken"
  ELSE "none"

\* Grant.refusal: the most specific reason first, the allowance not among them.
Refusal(r) ==
  IF revoked[Grant(r)]                        THEN "TokenRevoked"
  ELSE IF Version[Grant(r)] # req[r].version  THEN "InvalidToken"
  ELSE IF sawExpired[r]                       THEN "TokenExpired"
  ELSE "none"

\* Mutant: the UPDATE does not ask whether the grant is revoked.
PayableOnceRevoked(r) ==
  /\ ~sawExpired[r]
  /\ used[Grant(r)] < MaxQueries[Grant(r)]
  /\ Version[Grant(r)] = req[r].version

\* The WHERE clause of the spend.
Payable(r) ==
  /\ ~revoked[Grant(r)]
  /\ ~sawExpired[r]
  /\ used[Grant(r)] < MaxQueries[Grant(r)]
  /\ Version[Grant(r)] = req[r].version

-----------------------------------------------------------------------------
(* The handler, one statement at a time.                                   *)

Arrive(r) ==
  /\ Goto(r, "idle", "lookup")
  /\ hopeless' = IF \/ revoked[Grant(r)]
                    \/ expired[Grant(r)]
                    \/ Version[Grant(r)] # req[r].version
                 THEN hopeless \cup {r}
                 ELSE hopeless
  /\ UNCHANGED <<clock, store, lock, req, sawExpired, purged>>

\* The first SELECT finds the key: this is a retry.
KeyFound(r) ==
  /\ hash[Question(r)] # NoMessage
  /\ Goto(r, "lookup", "reread")
  /\ UNCHANGED <<clock, store, lock, req, sawExpired, purged, hopeless>>

\* It does not: `now` is read, and the spend will be tried with it.
KeyAbsent(r) ==
  /\ hash[Question(r)] = NoMessage
  /\ Goto(r, "lookup", "spend")
  /\ sawExpired' = [sawExpired EXCEPT ![r] = expired[Grant(r)]]
  /\ UNCHANGED <<clock, store, lock, req, purged, hopeless>>

\* The UPDATE matches, and takes the row's lock: another transaction that
\* matches the row waits for it, then checks its WHERE clause again.
SpendTaken(r) ==
  /\ Payable(r)
  /\ lock[Grant(r)] = NoOne
  /\ Goto(r, "spend", "commit")
  /\ lock' = [lock EXCEPT ![Grant(r)] = r]
  /\ UNCHANGED <<clock, store, req, sawExpired, purged, hopeless>>

\* It matches nothing.  Postgres waits for a lock only on a row that matches
\* as last committed, so this does not wait.
SpendMissed(r) ==
  /\ ~Payable(r)
  /\ Goto(r, "spend", "explain")
  /\ UNCHANGED <<clock, store, lock, req, sawExpired, purged, hopeless>>

Explain(r) ==
  /\ Goto(r, "explain",
          IF Refusal(r) = "none" THEN "QuotaExhausted" ELSE Refusal(r))
  /\ UNCHANGED <<clock, store, lock, req, sawExpired, purged, hopeless>>

\* Mutant: the key is upserted, so its primary key decides no race.
SpendCommittedByUpsert(r) ==
  /\ Goto(r, "commit", "paid")
  /\ used' = [used EXCEPT ![Grant(r)] = @ + 1]
  /\ hash' = [hash EXCEPT ![Question(r)] = req[r].message]
  /\ attempts' = [attempts EXCEPT ![Question(r)] = 1]
  /\ lock' = [lock EXCEPT ![Grant(r)] = NoOne]
  /\ UNCHANGED <<clock, req, sawExpired, purged, hopeless>>

\* INSERT of the key and COMMIT: the spend and the key in one transaction.
SpendCommitted(r) ==
  /\ hash[Question(r)] = NoMessage
  /\ Goto(r, "commit", "paid")
  /\ used' = [used EXCEPT ![Grant(r)] = @ + 1]
  /\ hash' = [hash EXCEPT ![Question(r)] = req[r].message]
  /\ attempts' = [attempts EXCEPT ![Question(r)] = 1]
  /\ lock' = [lock EXCEPT ![Grant(r)] = NoOne]
  /\ UNCHANGED <<clock, req, sawExpired, purged, hopeless>>

\* Mutant: the spend is committed before the key is tried.
SpendConflictedButKept(r) ==
  /\ hash[Question(r)] # NoMessage
  /\ Goto(r, "commit", "reread")
  /\ used' = [used EXCEPT ![Grant(r)] = @ + 1]
  /\ lock' = [lock EXCEPT ![Grant(r)] = NoOne]
  /\ UNCHANGED <<clock, hash, attempts, req, sawExpired, purged, hopeless>>

\* Mutant: the key is tried under a savepoint, and only that is rolled back:
\* the retry is answered with the spend's transaction, and lock, still open.
SpendConflictedToSavepoint(r) ==
  /\ hash[Question(r)] # NoMessage
  /\ Goto(r, "commit", "reread")
  /\ UNCHANGED <<clock, store, lock, req, sawExpired, purged, hopeless>>

\* The key's primary key refuses the INSERT: a twin was first, and the
\* rollback hands back this request's spend.
SpendConflicted(r) ==
  /\ hash[Question(r)] # NoMessage
  /\ Goto(r, "commit", "reread")
  /\ lock' = [lock EXCEPT ![Grant(r)] = NoOne]
  /\ UNCHANGED <<clock, store, req, sawExpired, purged, hopeless>>

\* _retry: is it the same question?  A key purged meanwhile is not.
Reread(r) ==
  /\ Goto(r, "reread", IF hash[Question(r)] = req[r].message
                       THEN "check" ELSE "IdempotencyKeyReused")
  /\ sawExpired' = [sawExpired EXCEPT ![r] = expired[Grant(r)]]
  /\ UNCHANGED <<clock, store, lock, req, purged, hopeless>>

\* The retry asks of its grant everything but the allowance.
CheckGrant(r) ==
  /\ Goto(r, "check", IF Refusal(r) = "none" THEN "take" ELSE Refusal(r))
  /\ UNCHANGED <<clock, store, lock, req, sawExpired, purged, hopeless>>

\* Mutant: the cap is not in the statement's WHERE clause.
AttemptTakenUncapped(r) ==
  /\ hash[Question(r)] # NoMessage
  /\ Goto(r, "take", "retried")
  /\ attempts' = [attempts EXCEPT ![Question(r)] = @ + 1]
  /\ UNCHANGED <<clock, used, hash, lock, req, sawExpired, purged, hopeless>>

\* One statement holds the cap on attempts.
AttemptTaken(r) ==
  /\ hash[Question(r)] # NoMessage
  /\ attempts[Question(r)] < MaxAttempts
  /\ Goto(r, "take", "retried")
  /\ attempts' = [attempts EXCEPT ![Question(r)] = @ + 1]
  /\ UNCHANGED <<clock, used, hash, lock, req, sawExpired, purged, hopeless>>

AttemptRefused(r) ==
  /\ \/ hash[Question(r)] = NoMessage
     \/ attempts[Question(r)] = MaxAttempts
  /\ Goto(r, "take", "RetriesExhausted")
  /\ UNCHANGED <<clock, store, lock, req, sawExpired, purged, hopeless>>

Step(r) ==
  \/ KeyFound(r) \/ KeyAbsent(r)
  \/ SpendTaken(r) \/ SpendMissed(r) \/ Explain(r)
  \/ SpendCommitted(r) \/ SpendConflicted(r)
  \/ Reread(r) \/ CheckGrant(r) \/ AttemptTaken(r) \/ AttemptRefused(r)

-----------------------------------------------------------------------------
(* Everything else that touches these rows.                                *)

\* The operator's kill switch.  Its UPDATE waits for the row's lock.
Revoke(g) ==
  /\ ~revoked[g]
  /\ lock[g] = NoOne
  /\ revoked' = [revoked EXCEPT ![g] = TRUE]
  /\ UNCHANGED <<expired, store, lock, pc, req, sawExpired, purged, hopeless>>

Expire(g) ==
  /\ ~expired[g]
  /\ expired' = [expired EXCEPT ![g] = TRUE]
  /\ UNCHANGED <<revoked, store, lock, pc, req, sawExpired, purged, hopeless>>

\* The nightly DELETE of keys older than a day.
Purge(q) ==
  /\ hash[q] # NoMessage
  /\ hash' = [hash EXCEPT ![q] = NoMessage]
  /\ attempts' = [attempts EXCEPT ![q] = 0]
  /\ purged' = purged \cup {q}
  /\ UNCHANGED <<clock, used, lock, pc, req, sawExpired, hopeless>>

\* The process or its connection dies: Postgres rolls the transaction back.
Crash(r) ==
  /\ pc[r] \in Working
  /\ pc' = [pc EXCEPT ![r] = "crashed"]
  /\ lock' = [g \in Grants |-> IF lock[g] = r THEN NoOne ELSE lock[g]]
  /\ UNCHANGED <<clock, store, req, sawExpired, purged, hopeless>>

Next ==
  \/ \E r \in Requests : Arrive(r) \/ Step(r) \/ Crash(r)
  \/ \E g \in Grants : Revoke(g) \/ Expire(g)
  \/ \E q \in Questions : Purge(q)

Spec == Init /\ [][Next]_vars

-----------------------------------------------------------------------------
(* What the handler promises.                                              *)

Payers(g)    == {r \in Requests : pc[r] = "paid" /\ Grant(r) = g}
PayersFor(q) == {r \in Requests : pc[r] = "paid" /\ Question(r) = q}
ServedFor(q) == {r \in Requests : pc[r] \in Served /\ Question(r) = q}

\* A grant is charged exactly once for every request that paid, and never past
\* its allowance: no lost update, no charge kept by a request that lost a race
\* for its key or crashed (token.py:93-95, 138-142).
LedgerBalances ==
  \A g \in Grants : /\ used[g] = Cardinality(Payers(g))
                    /\ used[g] <= MaxQueries[g]

\* While its key is kept, a question has one payer if the key is stored and
\* none if it is not: twins that race are charged once between them, and no
\* key stands without a spend (token.py:129-142).
QuestionPaidOnce ==
  \A q \in Questions \ purged :
    /\ hash[q] = NoMessage => PayersFor(q) = {}
    /\ hash[q] # NoMessage => \E r \in Requests : PayersFor(q) = {r}

\* While its key is kept, a question's counter is the number of requests that
\* were answered for it, so no race serves it more than MaxAttempts times
\* (token.py:192-209).
AttemptsCounted ==
  \A q \in Questions \ purged :
    /\ attempts[q] = Cardinality(ServedFor(q))
    /\ Cardinality(ServedFor(q)) <= MaxAttempts

\* While its key is kept, every request it served carried the message that
\* paid: a key buys one question and not three (token.py:183-185).
OneMessagePerKey ==
  \A q \in Questions \ purged : \A r \in ServedFor(q) : req[r].message = hash[q]

\* A request that arrives after its grant was revoked or expired, or with the
\* wrong version, is never served, as a spend or as a retry (token.py:96-106,
\* 187-190).
DeadGrantServesNobody == \A r \in hopeless : pc[r] \notin Served

\* Every change of a counter is one question, charged together with the new
\* key that names it, on a grant that is not revoked at that moment: the row's
\* lock keeps a revocation from landing between the UPDATE and the COMMIT.
ChargeIsOneNewQuestion ==
  [][\A g \in Grants : used'[g] # used[g] =>
       /\ used'[g] = used[g] + 1
       /\ ~revoked[g]
       /\ \E k \in Keys : hash[<<g, k>>] = NoMessage /\ hash'[<<g, k>>] # NoMessage]_vars

\* A request is told QuotaExhausted only when the allowance really is spent,
\* though the refusal is worked out by a later read than the one that failed
\* (token.py:123-127, 216-225).
QuotaRefusalIsTrue ==
  \A r \in Requests : pc[r] = "QuotaExhausted" => used[Grant(r)] = MaxQueries[Grant(r)]

\* While its key is kept, a retry is refused for want of attempts only when
\* they are all taken, and as a reused key only when the key paid for another
\* message (token.py:183-209).
RetryRefusalIsTrue ==
  \A r \in Requests : Question(r) \notin purged =>
    /\ pc[r] = "RetriesExhausted" => attempts[Question(r)] = MaxAttempts
    /\ pc[r] = "IdempotencyKeyReused" =>
         hash[Question(r)] \notin {NoMessage, req[r].message}

\* A grant's row is held only by a request whose next step lets it go, so a spend
\* or a kill switch that waits for one gets it: no lost race, crash or refusal
\* leaves the row locked (token.py:129-142).
HeldRowIsLetGo ==
  \A g \in Grants : lock[g] # NoOne => pc[lock[g]] = "commit" /\ Grant(lock[g]) = g

\* What a key buys, and what an answer says: the properties above together.
KeyBuysOneQuestion == QuestionPaidOnce /\ AttemptsCounted /\ OneMessagePerKey
AnswersAreTrue == DeadGrantServesNobody /\ QuotaRefusalIsTrue /\ RetryRefusalIsTrue

\* base.py:147-150: "A key seen before spends nothing ... An allowance at zero
\* does not refuse it: the question that failed may have been the last one."
\* So no request is refused for quota when its own question has been paid.
PaidQuestionNotRefusedForQuota ==
  \A r \in Requests :
    ~ /\ pc[r] = "QuotaExhausted"
      /\ hash[Question(r)] = req[r].message
=============================================================================
