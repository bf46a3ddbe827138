------------------------- MODULE QuestionSpend_proofs -------------------------
(***************************************************************************)
(* What QuestionSpend promises, proved for every number of requests,       *)
(* grants, keys and messages.                                              *)
(***************************************************************************)
EXTENDS QuestionSpend, FiniteSetTheorems, TLAPS

\* Every variable holds a value of its type in every reachable state.
THEOREM TypeCorrect == Spec => []TypeOK
<1>1. Init => TypeOK
  BY AttemptsAssumption DEF Init, TypeOK, Questions
<1>2. TypeOK /\ [Next]_vars => TypeOK'
  <2> SUFFICES ASSUME TypeOK, [Next]_vars PROVE TypeOK'
    OBVIOUS
  <2> USE DEF TypeOK, Working, Answered, Served, Refusals, Questions, Question,
              Grant, Request, Goto, store, clock
  <2>1. ASSUME NEW r \in Requests, Arrive(r) PROVE TypeOK'
    BY <2>1 DEF Arrive
  <2>2. ASSUME NEW r \in Requests, KeyFound(r) PROVE TypeOK'
    BY <2>2 DEF KeyFound
  <2>3. ASSUME NEW r \in Requests, KeyAbsent(r) PROVE TypeOK'
    BY <2>3 DEF KeyAbsent
  <2>4. ASSUME NEW r \in Requests, SpendTaken(r) PROVE TypeOK'
    BY <2>4 DEF SpendTaken
  <2>5. ASSUME NEW r \in Requests, SpendMissed(r) PROVE TypeOK'
    BY <2>5 DEF SpendMissed
  <2>6. ASSUME NEW r \in Requests, Explain(r) PROVE TypeOK'
    BY <2>6 DEF Explain, Refusal
  <2>7. ASSUME NEW r \in Requests, SpendCommitted(r) PROVE TypeOK'
    BY <2>7, AttemptsAssumption DEF SpendCommitted
  <2>8. ASSUME NEW r \in Requests, SpendConflicted(r) PROVE TypeOK'
    BY <2>8 DEF SpendConflicted
  <2>9. ASSUME NEW r \in Requests, Reread(r) PROVE TypeOK'
    BY <2>9 DEF Reread
  <2>10. ASSUME NEW r \in Requests, CheckGrant(r) PROVE TypeOK'
    BY <2>10 DEF CheckGrant, Refusal
  <2>11. ASSUME NEW r \in Requests, AttemptTaken(r) PROVE TypeOK'
    BY <2>11, AttemptsAssumption DEF AttemptTaken
  <2>12. ASSUME NEW r \in Requests, AttemptRefused(r) PROVE TypeOK'
    BY <2>12 DEF AttemptRefused
  <2>13. ASSUME NEW r \in Requests, Crash(r) PROVE TypeOK'
    BY <2>13 DEF Crash
  <2>14. ASSUME NEW g \in Grants, Revoke(g) PROVE TypeOK'
    BY <2>14 DEF Revoke
  <2>15. ASSUME NEW g \in Grants, Expire(g) PROVE TypeOK'
    BY <2>15 DEF Expire
  <2>16. ASSUME NEW q \in Questions, Purge(q) PROVE TypeOK'
    BY <2>16, AttemptsAssumption DEF Purge
  <2>17. CASE UNCHANGED vars
    BY <2>17 DEF vars
  <2>18. QED
    BY <2>1, <2>2, <2>3, <2>4, <2>5, <2>6, <2>7, <2>8, <2>9, <2>10, <2>11,
       <2>12, <2>13, <2>14, <2>15, <2>16, <2>17 DEF Next, Step
<1>3. QED
  BY <1>1, <1>2, PTL DEF Spec

-----------------------------------------------------------------------------
(* The row's lock.  It belongs to the one request between its UPDATE and   *)
(* its COMMIT, and while it is held the row stays as that UPDATE found it. *)

LockOK ==
  /\ \A g \in Grants : lock[g] # NoOne =>
       pc[lock[g]] = "commit" /\ Grant(lock[g]) = g
  /\ \A r \in Requests : pc[r] = "commit" =>
       /\ lock[Grant(r)] = r
       /\ ~revoked[Grant(r)]
       /\ used[Grant(r)] < MaxQueries[Grant(r)]
       /\ Version[Grant(r)] = req[r].version

\* The lock is held by exactly the request whose spend is uncommitted, on a
\* grant that is still live and still has a question left.
THEOREM LockHeld == Spec => []LockOK
<1>1. Init => LockOK
  BY DEF Init, LockOK
<1>2. TypeOK /\ LockOK /\ [Next]_vars => LockOK'
  <2> SUFFICES ASSUME TypeOK, LockOK, [Next]_vars PROVE LockOK'
    OBVIOUS
  <2> USE RequestsAssumption
      DEF TypeOK, LockOK, Working, Answered, Served, Refusals, Grant, Request,
          Goto, store, clock
  <2>1. ASSUME NEW r \in Requests, Arrive(r) PROVE LockOK'
    BY <2>1 DEF Arrive
  <2>2. ASSUME NEW r \in Requests, KeyFound(r) \/ KeyAbsent(r) PROVE LockOK'
    BY <2>2 DEF KeyFound, KeyAbsent
  <2>3. ASSUME NEW r \in Requests, SpendTaken(r) PROVE LockOK'
    BY <2>3 DEF SpendTaken, Payable
  <2>4. ASSUME NEW r \in Requests, SpendMissed(r) \/ Explain(r) PROVE LockOK'
    BY <2>4 DEF SpendMissed, Explain, Refusal
  <2>5. ASSUME NEW r \in Requests, SpendCommitted(r) PROVE LockOK'
    <3>1. \A s \in Requests : pc'[s] = "commit" => Grant(s) # Grant(r)
      BY <2>5 DEF SpendCommitted
    <3>2. QED
      BY <2>5, <3>1 DEF SpendCommitted
  <2>6. ASSUME NEW r \in Requests, SpendConflicted(r) PROVE LockOK'
    <3>1. \A s \in Requests : pc'[s] = "commit" => Grant(s) # Grant(r)
      BY <2>6 DEF SpendConflicted
    <3>2. QED
      BY <2>6, <3>1 DEF SpendConflicted
  <2>7. ASSUME NEW r \in Requests, Reread(r) \/ CheckGrant(r) PROVE LockOK'
    BY <2>7 DEF Reread, CheckGrant, Refusal
  <2>8. ASSUME NEW r \in Requests, AttemptTaken(r) \/ AttemptRefused(r) PROVE LockOK'
    BY <2>8 DEF AttemptTaken, AttemptRefused
  <2>9. ASSUME NEW r \in Requests, Crash(r) PROVE LockOK'
    BY <2>9 DEF Crash
  <2>10. ASSUME NEW g \in Grants, Revoke(g) PROVE LockOK'
    BY <2>10 DEF Revoke
  <2>11. ASSUME NEW g \in Grants, Expire(g) PROVE LockOK'
    BY <2>11 DEF Expire
  <2>12. ASSUME NEW q \in Questions, Purge(q) PROVE LockOK'
    BY <2>12 DEF Purge
  <2>13. CASE UNCHANGED vars
    BY <2>13 DEF vars
  <2>14. QED
    BY <2>1, <2>2, <2>3, <2>4, <2>5, <2>6, <2>7, <2>8, <2>9, <2>10, <2>11,
       <2>12, <2>13 DEF Next, Step
<1>3. QED
  BY <1>1, <1>2, TypeCorrect, PTL DEF Spec

-----------------------------------------------------------------------------
(* The ledger: a counter moves only when a request pays, and by one.       *)

\* Only SpendCommitted changes a counter or adds a payer.
LEMMA OnlyCommitPays ==
  ASSUME TypeOK, [Next]_vars,
         ~ \E r \in Requests : SpendCommitted(r)
  PROVE  /\ used' = used
         /\ \A g \in Grants : Payers(g)' = Payers(g)
<1> USE DEF TypeOK, Working, Answered, Served, Refusals, Grant, Request, Goto,
            store, clock
<1> DEFINE NobodyPays == /\ used' = used
                         /\ req' = req
                         /\ \A s \in Requests : pc'[s] = "paid" <=> pc[s] = "paid"
<1>1. NobodyPays
  <2>1. ASSUME NEW r \in Requests, Arrive(r) \/ KeyFound(r) \/ KeyAbsent(r)
               \/ SpendTaken(r) \/ SpendMissed(r)
        PROVE  NobodyPays
    BY <2>1 DEF Arrive, KeyFound, KeyAbsent, SpendTaken, SpendMissed
  <2>2. ASSUME NEW r \in Requests, Explain(r) \/ SpendConflicted(r)
               \/ Reread(r) \/ CheckGrant(r)
        PROVE  NobodyPays
    BY <2>2 DEF Explain, SpendConflicted, Reread, CheckGrant, Refusal
  <2>3. ASSUME NEW r \in Requests, AttemptTaken(r) \/ AttemptRefused(r) \/ Crash(r)
        PROVE  NobodyPays
    BY <2>3 DEF AttemptTaken, AttemptRefused, Crash
  <2>4. ASSUME NEW g \in Grants, Revoke(g) \/ Expire(g)
        PROVE  NobodyPays
    BY <2>4 DEF Revoke, Expire
  <2>5. ASSUME NEW q \in Questions, Purge(q)
        PROVE  NobodyPays
    BY <2>5 DEF Purge
  <2>6. CASE UNCHANGED vars
    BY <2>6 DEF vars
  <2>7. QED
    BY <2>1, <2>2, <2>3, <2>4, <2>5, <2>6 DEF Next, Step
<1>2. QED
  BY <1>1 DEF Payers

\* A grant's counter is the number of requests that paid from it, within its
\* allowance.
THEOREM Ledger == Spec => []LedgerBalances
<1>1. Init => LedgerBalances
  <2> SUFFICES ASSUME Init, NEW g \in Grants
               PROVE  used[g] = Cardinality(Payers(g)) /\ used[g] <= MaxQueries[g]
    BY DEF LedgerBalances
  <2>1. Payers(g) = {}
    BY DEF Init, Payers
  <2>2. QED
    BY <2>1, FS_EmptySet, GrantsAssumption DEF Init
<1>2. TypeOK /\ LockOK /\ LedgerBalances /\ [Next]_vars => LedgerBalances'
  <2> SUFFICES ASSUME TypeOK, LockOK, LedgerBalances, [Next]_vars
               PROVE  LedgerBalances'
    OBVIOUS
  <2>1. CASE ~ \E r \in Requests : SpendCommitted(r)
    BY <2>1, OnlyCommitPays DEF LedgerBalances
  <2>2. ASSUME NEW r \in Requests, SpendCommitted(r) PROVE LedgerBalances'
    <3> SUFFICES ASSUME NEW g \in Grants
                 PROVE  used'[g] = Cardinality(Payers(g)') /\ used'[g] <= MaxQueries[g]
      BY DEF LedgerBalances
    <3>1. used \in [Grants -> Nat] /\ pc[r] = "commit" /\ pc' = [pc EXCEPT ![r] = "paid"]
          /\ used' = [used EXCEPT ![Grant(r)] = @ + 1] /\ req' = req
      BY <2>2 DEF SpendCommitted, Goto, TypeOK
    <3>2. IsFiniteSet(Payers(g))
      BY RequestsAssumption, FS_Subset DEF Payers
    <3>3. CASE g = Grant(r)
      <4>1. Payers(g)' = Payers(g) \cup {r} /\ r \notin Payers(g)
        BY <3>1, <3>3 DEF Payers, Grant, TypeOK
      <4>2. Cardinality(Payers(g)') = Cardinality(Payers(g)) + 1
        BY <4>1, <3>2, FS_AddElement
      <4>3. used[g] < MaxQueries[g]
        BY <3>1, <3>3 DEF LockOK
      <4>4. used[g] \in Nat /\ MaxQueries[g] \in Nat /\ used'[g] = used[g] + 1
        BY <3>1, <3>3, GrantsAssumption
      <4>5. used[g] = Cardinality(Payers(g))
        BY DEF LedgerBalances
      <4>6. QED
        BY <4>2, <4>3, <4>4, <4>5
    <3>4. CASE g # Grant(r)
      <4>1. Payers(g)' = Payers(g)
        BY <3>1, <3>4 DEF Payers, Grant, TypeOK
      <4>2. QED
        BY <4>1, <3>1, <3>4 DEF LedgerBalances
    <3>5. QED
      BY <3>3, <3>4
  <2>3. QED
    BY <2>1, <2>2
<1>3. QED
  BY <1>1, <1>2, TypeCorrect, LockHeld, PTL DEF Spec

\* Every charge is one question, with its new key, on a grant not revoked.
THEOREM Charge == Spec => ChargeIsOneNewQuestion
<1> DEFINE OneNewQuestion ==
      \A g \in Grants : used'[g] # used[g] =>
        /\ used'[g] = used[g] + 1
        /\ ~revoked[g]
        /\ \E k \in Keys : hash[<<g, k>>] = NoMessage /\ hash'[<<g, k>>] # NoMessage
<1>1. TypeOK /\ LockOK /\ [Next]_vars => [OneNewQuestion]_vars
  <2> SUFFICES ASSUME TypeOK, LockOK, [Next]_vars PROVE OneNewQuestion
    OBVIOUS
  <2>1. CASE ~ \E r \in Requests : SpendCommitted(r)
    BY <2>1, OnlyCommitPays
  <2>2. ASSUME NEW r \in Requests, SpendCommitted(r) PROVE OneNewQuestion
    <3> SUFFICES ASSUME NEW g \in Grants, used'[g] # used[g]
                 PROVE  /\ used'[g] = used[g] + 1
                        /\ ~revoked[g]
                        /\ \E k \in Keys :
                             hash[<<g, k>>] = NoMessage /\ hash'[<<g, k>>] # NoMessage
      OBVIOUS
    <3>1. g = Grant(r) /\ used'[g] = used[g] + 1
      BY <2>2 DEF SpendCommitted, TypeOK
    <3>2. ~revoked[g]
      BY <2>2, <3>1 DEF SpendCommitted, Goto, LockOK
    <3>3. req[r].key \in Keys /\ Question(r) = <<g, req[r].key>> /\ Question(r) \in Questions
      BY <3>1 DEF Grant, Question, Questions, TypeOK, Request
    <3>4. hash[Question(r)] = NoMessage /\ hash'[Question(r)] # NoMessage
      BY <2>2, <3>3, MessagesAssumption DEF SpendCommitted, TypeOK, Request
    <3>5. QED
      BY <3>1, <3>2, <3>3, <3>4
  <2>3. QED
    BY <2>1, <2>2
<1>2. QED
  BY <1>1, TypeCorrect, LockHeld, PTL DEF Spec, ChargeIsOneNewQuestion

-----------------------------------------------------------------------------
(* The keys.  While a question's key is kept, every request past the key's *)
(* check agrees with what the key says.                                    *)

KeyAgrees(r) ==
  /\ pc[r] \in {"check", "take"} \cup Served => hash[Question(r)] = req[r].message
  /\ pc[r] = "reread" => hash[Question(r)] # NoMessage
  /\ pc[r] = "IdempotencyKeyReused" =>
       hash[Question(r)] \notin {NoMessage, req[r].message}
  /\ pc[r] = "RetriesExhausted" =>
       hash[Question(r)] # NoMessage /\ attempts[Question(r)] = MaxAttempts

KeyOK == \A r \in Requests : Question(r) \notin purged => KeyAgrees(r)

\* Past the check of its key a request agrees with the stored key, and a
\* refusal about the key still holds of it.
LEMMA KeysAgree == Spec => []KeyOK
<1>1. Init => KeyOK
  BY DEF Init, KeyOK, KeyAgrees, Served
<1>2. TypeOK /\ KeyOK /\ [Next]_vars => KeyOK'
  <2> SUFFICES ASSUME TypeOK, KeyOK, [Next]_vars PROVE KeyOK'
    OBVIOUS
  <2> USE MessagesAssumption
      DEF TypeOK, KeyOK, KeyAgrees, Working, Answered, Served, Refusals, Questions,
          Question, Grant, Request, Goto, store, clock
  <2>1. ASSUME NEW r \in Requests, Arrive(r) PROVE KeyOK'
    BY <2>1 DEF Arrive
  <2>2. ASSUME NEW r \in Requests, KeyFound(r) \/ KeyAbsent(r) PROVE KeyOK'
    <3>1. CASE KeyFound(r)
      BY <3>1 DEF KeyFound
    <3>2. CASE KeyAbsent(r)
      BY <3>2 DEF KeyAbsent
    <3>3. QED
      BY <2>2, <3>1, <3>2
  <2>3. ASSUME NEW r \in Requests, SpendTaken(r) \/ SpendMissed(r) PROVE KeyOK'
    BY <2>3 DEF SpendTaken, SpendMissed
  <2>4. ASSUME NEW r \in Requests, Explain(r) PROVE KeyOK'
    BY <2>4 DEF Explain, Refusal
  <2>5. ASSUME NEW r \in Requests, SpendCommitted(r) PROVE KeyOK'
    <3> SUFFICES ASSUME NEW s \in Requests, Question(s) \notin purged
                 PROVE  KeyAgrees(s)'
      BY <2>5 DEF SpendCommitted
    <3>1. CASE s = r
      BY <2>5, <3>1 DEF SpendCommitted
    <3>2. CASE s # r /\ Question(s) = Question(r)
      BY <2>5, <3>2 DEF SpendCommitted
    <3>3. CASE s # r /\ Question(s) # Question(r)
      BY <2>5, <3>3 DEF SpendCommitted
    <3>4. QED
      BY <3>1, <3>2, <3>3
  <2>6. ASSUME NEW r \in Requests, SpendConflicted(r) PROVE KeyOK'
    BY <2>6 DEF SpendConflicted
  <2>7. ASSUME NEW r \in Requests, Reread(r) PROVE KeyOK'
    BY <2>7 DEF Reread
  <2>8. ASSUME NEW r \in Requests, CheckGrant(r) PROVE KeyOK'
    BY <2>8 DEF CheckGrant, Refusal
  <2>9. ASSUME NEW r \in Requests, AttemptTaken(r) PROVE KeyOK'
    <3> SUFFICES ASSUME NEW s \in Requests, Question(s) \notin purged
                 PROVE  KeyAgrees(s)'
      BY <2>9 DEF AttemptTaken
    <3>1. CASE s = r
      BY <2>9, <3>1 DEF AttemptTaken
    <3>2. CASE s # r /\ Question(s) = Question(r)
      BY <2>9, <3>2 DEF AttemptTaken
    <3>3. CASE s # r /\ Question(s) # Question(r)
      BY <2>9, <3>3 DEF AttemptTaken
    <3>4. QED
      BY <3>1, <3>2, <3>3
  <2>10. ASSUME NEW r \in Requests, AttemptRefused(r) PROVE KeyOK'
    <3> SUFFICES ASSUME NEW s \in Requests, Question(s) \notin purged
                 PROVE  KeyAgrees(s)'
      BY <2>10 DEF AttemptRefused
    <3>1. CASE s = r
      BY <2>10, <3>1 DEF AttemptRefused
    <3>2. CASE s # r /\ Question(s) = Question(r)
      BY <2>10, <3>2 DEF AttemptRefused
    <3>3. CASE s # r /\ Question(s) # Question(r)
      BY <2>10, <3>3 DEF AttemptRefused
    <3>4. QED
      BY <3>1, <3>2, <3>3
  <2>11. ASSUME NEW r \in Requests, Crash(r) PROVE KeyOK'
    BY <2>11 DEF Crash
  <2>12. ASSUME NEW g \in Grants, Revoke(g) PROVE KeyOK'
    BY <2>12 DEF Revoke
  <2>13. ASSUME NEW g \in Grants, Expire(g) PROVE KeyOK'
    BY <2>13 DEF Expire
  <2>14. ASSUME NEW q \in Questions, Purge(q) PROVE KeyOK'
    BY <2>14 DEF Purge
  <2>15. CASE UNCHANGED vars
    BY <2>15 DEF vars
  <2>16. QED
    BY <2>1, <2>2, <2>3, <2>4, <2>5, <2>6, <2>7, <2>8, <2>9,
       <2>10, <2>11, <2>12, <2>13, <2>14, <2>15 DEF Next, Step
<1>3. QED
  BY <1>1, <1>2, TypeCorrect, PTL DEF Spec

\* While its key is kept, a question serves the one message that paid.
THEOREM OneMessage == Spec => []OneMessagePerKey
<1>1. KeyOK => OneMessagePerKey
  BY DEF KeyOK, KeyAgrees, OneMessagePerKey, ServedFor, Served
<1>2. QED
  BY <1>1, KeysAgree, PTL

\* While its key is kept, a retry's refusal tells the truth.
THEOREM RetryRefusal == Spec => []RetryRefusalIsTrue
<1>1. KeyOK => RetryRefusalIsTrue
  BY DEF KeyOK, KeyAgrees, RetryRefusalIsTrue
<1>2. QED
  BY <1>1, KeysAgree, PTL

-----------------------------------------------------------------------------
(* Dead grants.  A request that found its grant dead carries the reason to *)
(* whichever check it meets.                                               *)

DeadOK ==
  \A r \in hopeless :
    /\ pc[r] \notin {"idle", "commit", "take"} \cup Served
    /\ \/ revoked[Grant(r)]
       \/ expired[Grant(r)]
       \/ Version[Grant(r)] # req[r].version
    /\ pc[r] \in {"spend", "check"} =>
         \/ revoked[Grant(r)]
         \/ sawExpired[r]
         \/ Version[Grant(r)] # req[r].version

\* A request that arrives when its grant is dead is never served.
THEOREM DeadGrant == Spec => []DeadGrantServesNobody
<1>1. Init => DeadOK
  BY DEF Init, DeadOK
<1>2. TypeOK /\ DeadOK /\ [Next]_vars => DeadOK'
  <2> SUFFICES ASSUME TypeOK, DeadOK, [Next]_vars PROVE DeadOK'
    OBVIOUS
  <2> USE MessagesAssumption
      DEF TypeOK, DeadOK, Working, Answered, Served, Refusals, Questions,
          Question, Grant, Request, Goto, store, clock
  <2>1. ASSUME NEW r \in Requests, Arrive(r) PROVE DeadOK'
    BY <2>1 DEF Arrive
  <2>2. ASSUME NEW r \in Requests, KeyFound(r) \/ KeyAbsent(r) PROVE DeadOK'
    BY <2>2 DEF KeyFound, KeyAbsent
  <2>3. ASSUME NEW r \in Requests, SpendTaken(r) \/ SpendMissed(r) PROVE DeadOK'
    BY <2>3 DEF SpendTaken, SpendMissed, Payable
  <2>4. ASSUME NEW r \in Requests, Explain(r) PROVE DeadOK'
    BY <2>4 DEF Explain, Refusal
  <2>5. ASSUME NEW r \in Requests, SpendCommitted(r) PROVE DeadOK'
    BY <2>5 DEF SpendCommitted
  <2>6. ASSUME NEW r \in Requests, SpendConflicted(r) PROVE DeadOK'
    BY <2>6 DEF SpendConflicted
  <2>7. ASSUME NEW r \in Requests, Reread(r) PROVE DeadOK'
    BY <2>7 DEF Reread
  <2>8. ASSUME NEW r \in Requests, CheckGrant(r) PROVE DeadOK'
    BY <2>8 DEF CheckGrant, Refusal
  <2>9. ASSUME NEW r \in Requests, AttemptTaken(r) PROVE DeadOK'
    BY <2>9 DEF AttemptTaken
  <2>10. ASSUME NEW r \in Requests, AttemptRefused(r) PROVE DeadOK'
    BY <2>10 DEF AttemptRefused
  <2>11. ASSUME NEW r \in Requests, Crash(r) PROVE DeadOK'
    BY <2>11 DEF Crash
  <2>12. ASSUME NEW g \in Grants, Revoke(g) PROVE DeadOK'
    BY <2>12 DEF Revoke
  <2>13. ASSUME NEW g \in Grants, Expire(g) PROVE DeadOK'
    BY <2>13 DEF Expire
  <2>14. ASSUME NEW q \in Questions, Purge(q) PROVE DeadOK'
    BY <2>14 DEF Purge
  <2>15. CASE UNCHANGED vars
    BY <2>15 DEF vars
  <2>16. QED
    BY <2>1, <2>2, <2>3, <2>4, <2>5, <2>6, <2>7, <2>8, <2>9,
       <2>10, <2>11, <2>12, <2>13, <2>14, <2>15 DEF Next, Step
<1>3. DeadOK => DeadGrantServesNobody
  BY DEF DeadOK, DeadGrantServesNobody, Served
<1>4. QED
  BY <1>1, <1>2, <1>3, TypeCorrect, PTL DEF Spec

-----------------------------------------------------------------------------
(* The quota.  What the UPDATE found missing stays missing: revocation and *)
(* the counter only go one way, and the request keeps its `now`.           *)

QuotaOK ==
  \A r \in Requests :
    /\ pc[r] = "explain" => ~Payable(r)
    /\ pc[r] = "QuotaExhausted" => used[Grant(r)] >= MaxQueries[Grant(r)]

\* QuotaExhausted is answered only when the allowance is spent.
THEOREM QuotaRefusal == Spec => []QuotaRefusalIsTrue
<1>1. Init => QuotaOK
  BY DEF Init, QuotaOK
<1>2. TypeOK /\ QuotaOK /\ [Next]_vars => QuotaOK'
  <2> SUFFICES ASSUME TypeOK, QuotaOK, [Next]_vars PROVE QuotaOK'
    OBVIOUS
  <2> USE GrantsAssumption
      DEF TypeOK, QuotaOK, Payable, Working, Answered, Served, Refusals, Questions,
          Question, Grant, Request, Goto, store, clock
  <2>1. ASSUME NEW r \in Requests, Arrive(r) PROVE QuotaOK'
    BY <2>1 DEF Arrive
  <2>2. ASSUME NEW r \in Requests, KeyFound(r) \/ KeyAbsent(r) PROVE QuotaOK'
    BY <2>2 DEF KeyFound, KeyAbsent
  <2>3. ASSUME NEW r \in Requests, SpendTaken(r) \/ SpendMissed(r) PROVE QuotaOK'
    BY <2>3 DEF SpendTaken, SpendMissed
  <2>4. ASSUME NEW r \in Requests, Explain(r) PROVE QuotaOK'
    BY <2>4 DEF Explain, Refusal
  <2>5. ASSUME NEW r \in Requests, SpendCommitted(r) PROVE QuotaOK'
    BY <2>5 DEF SpendCommitted
  <2>6. ASSUME NEW r \in Requests, SpendConflicted(r) PROVE QuotaOK'
    BY <2>6 DEF SpendConflicted
  <2>7. ASSUME NEW r \in Requests, Reread(r) PROVE QuotaOK'
    BY <2>7 DEF Reread
  <2>8. ASSUME NEW r \in Requests, CheckGrant(r) PROVE QuotaOK'
    BY <2>8 DEF CheckGrant, Refusal
  <2>9. ASSUME NEW r \in Requests, AttemptTaken(r) PROVE QuotaOK'
    BY <2>9 DEF AttemptTaken
  <2>10. ASSUME NEW r \in Requests, AttemptRefused(r) PROVE QuotaOK'
    BY <2>10 DEF AttemptRefused
  <2>11. ASSUME NEW r \in Requests, Crash(r) PROVE QuotaOK'
    BY <2>11 DEF Crash
  <2>12. ASSUME NEW g \in Grants, Revoke(g) PROVE QuotaOK'
    BY <2>12 DEF Revoke
  <2>13. ASSUME NEW g \in Grants, Expire(g) PROVE QuotaOK'
    BY <2>13 DEF Expire
  <2>14. ASSUME NEW q \in Questions, Purge(q) PROVE QuotaOK'
    BY <2>14 DEF Purge
  <2>15. CASE UNCHANGED vars
    BY <2>15 DEF vars
  <2>16. QED
    BY <2>1, <2>2, <2>3, <2>4, <2>5, <2>6, <2>7, <2>8, <2>9,
       <2>10, <2>11, <2>12, <2>13, <2>14, <2>15 DEF Next, Step
<1>3. TypeOK /\ QuotaOK /\ LedgerBalances => QuotaRefusalIsTrue
  <2> SUFFICES ASSUME TypeOK, QuotaOK, LedgerBalances,
                      NEW r \in Requests, pc[r] = "QuotaExhausted"
               PROVE  used[Grant(r)] = MaxQueries[Grant(r)]
    BY DEF QuotaRefusalIsTrue
  <2>1. Grant(r) \in Grants
    BY DEF TypeOK, Request, Grant
  <2>2. used[Grant(r)] \in Nat /\ MaxQueries[Grant(r)] \in Nat
    BY <2>1, GrantsAssumption DEF TypeOK
  <2>3. used[Grant(r)] <= MaxQueries[Grant(r)] /\ used[Grant(r)] >= MaxQueries[Grant(r)]
    BY <2>1 DEF QuotaOK, LedgerBalances
  <2>4. QED
    BY <2>2, <2>3
<1>4. QED
  BY <1>1, <1>2, <1>3, TypeCorrect, Ledger, PTL DEF Spec

-----------------------------------------------------------------------------
(* The counts a key keeps.                                                 *)

\* Only SpendCommitted adds a payer or makes a key, only it and AttemptTaken
\* serve or count, and only Purge removes a key, which it remembers.
LEMMA OnlyServingCounts ==
  ASSUME TypeOK, [Next]_vars,
         ~ \E r \in Requests : SpendCommitted(r) \/ AttemptTaken(r),
         NEW q \in Questions \ purged'
  PROVE  /\ q \notin purged
         /\ hash'[q] = hash[q]
         /\ attempts'[q] = attempts[q]
         /\ PayersFor(q)' = PayersFor(q)
         /\ ServedFor(q)' = ServedFor(q)
<1> USE DEF TypeOK, Working, Answered, Served, Refusals, Grant, Request, Goto,
            store, clock
<1> DEFINE NobodyServed ==
      /\ req' = req
      /\ q \notin purged /\ hash'[q] = hash[q] /\ attempts'[q] = attempts[q]
      /\ \A s \in Requests : /\ pc'[s] = "paid" <=> pc[s] = "paid"
                             /\ pc'[s] \in Served <=> pc[s] \in Served
<1>1. NobodyServed
  <2>1. ASSUME NEW r \in Requests, Arrive(r) \/ KeyFound(r) \/ KeyAbsent(r)
               \/ SpendTaken(r) \/ SpendMissed(r)
        PROVE  NobodyServed
    BY <2>1 DEF Arrive, KeyFound, KeyAbsent, SpendTaken, SpendMissed
  <2>2. ASSUME NEW r \in Requests, Explain(r) \/ SpendConflicted(r)
               \/ Reread(r) \/ CheckGrant(r)
        PROVE  NobodyServed
    BY <2>2 DEF Explain, SpendConflicted, Reread, CheckGrant, Refusal
  <2>3. ASSUME NEW r \in Requests, AttemptRefused(r) \/ Crash(r)
        PROVE  NobodyServed
    BY <2>3 DEF AttemptRefused, Crash
  <2>4. ASSUME NEW g \in Grants, Revoke(g) \/ Expire(g)
        PROVE  NobodyServed
    BY <2>4 DEF Revoke, Expire
  <2>5. ASSUME NEW p \in Questions, Purge(p)
        PROVE  NobodyServed
    BY <2>5 DEF Purge
  <2>6. CASE UNCHANGED vars
    BY <2>6 DEF vars
  <2>7. QED
    BY <2>1, <2>2, <2>3, <2>4, <2>5, <2>6 DEF Next, Step
<1>2. QED
  BY <1>1 DEF PayersFor, ServedFor, Question

\* What one spend that commits does to the two counts of each question.
LEMMA CommitCounts ==
  ASSUME TypeOK, NEW r \in Requests, SpendCommitted(r),
         NEW q \in Questions
  PROVE  /\ purged' = purged
         /\ Question(r) \in Questions
         /\ q = Question(r) =>
              /\ hash[q] = NoMessage
              /\ hash'[q] # NoMessage
              /\ attempts'[q] = 1
              /\ PayersFor(q)' = PayersFor(q) \cup {r}
              /\ ServedFor(q)' = ServedFor(q) \cup {r}
         /\ q # Question(r) =>
              /\ hash'[q] = hash[q]
              /\ attempts'[q] = attempts[q]
              /\ PayersFor(q)' = PayersFor(q)
              /\ ServedFor(q)' = ServedFor(q)
<1>1. Question(r) \in Questions /\ req[r].message # NoMessage
  BY MessagesAssumption DEF Question, Questions, TypeOK, Request
<1>2. purged' = purged /\ req' = req /\ pc[r] = "commit" /\ pc' = [pc EXCEPT ![r] = "paid"]
      /\ hash[Question(r)] = NoMessage
      /\ hash' = [hash EXCEPT ![Question(r)] = req[r].message]
      /\ attempts' = [attempts EXCEPT ![Question(r)] = 1]
  BY DEF SpendCommitted, Goto
<1>3. CASE q = Question(r)
  <2>1. PayersFor(q)' = PayersFor(q) \cup {r}
    BY <1>2, <1>3 DEF PayersFor, Question, TypeOK
  <2>2. ServedFor(q)' = ServedFor(q) \cup {r}
    BY <1>2, <1>3 DEF ServedFor, Served, Question, TypeOK
  <2>3. QED
    BY <1>1, <1>2, <1>3, <2>1, <2>2 DEF TypeOK
<1>4. CASE q # Question(r)
  <2>1. PayersFor(q)' = PayersFor(q)
    BY <1>2, <1>4 DEF PayersFor, Question, TypeOK
  <2>2. ServedFor(q)' = ServedFor(q)
    BY <1>2, <1>4 DEF ServedFor, Served, Question, TypeOK
  <2>3. QED
    BY <1>1, <1>2, <1>4, <2>1, <2>2 DEF TypeOK
<1>5. QED
  BY <1>3, <1>4

\* What one retry that is served does to them.
LEMMA RetryCounts ==
  ASSUME TypeOK, NEW r \in Requests, AttemptTaken(r),
         NEW q \in Questions
  PROVE  /\ purged' = purged
         /\ hash' = hash
         /\ PayersFor(q)' = PayersFor(q)
         /\ q = Question(r) =>
              /\ r \notin ServedFor(q)
              /\ ServedFor(q)' = ServedFor(q) \cup {r}
              /\ attempts[q] < MaxAttempts
              /\ attempts'[q] = attempts[q] + 1
         /\ q # Question(r) =>
              /\ ServedFor(q)' = ServedFor(q)
              /\ attempts'[q] = attempts[q]
<1>1. purged' = purged /\ hash' = hash /\ req' = req
      /\ pc[r] = "take" /\ pc' = [pc EXCEPT ![r] = "retried"]
      /\ attempts[Question(r)] < MaxAttempts
      /\ attempts' = [attempts EXCEPT ![Question(r)] = @ + 1]
  BY DEF AttemptTaken, Goto
<1>2. PayersFor(q)' = PayersFor(q)
  BY <1>1 DEF PayersFor, Question, TypeOK
<1>3. CASE q = Question(r)
  <2>1. ServedFor(q)' = ServedFor(q) \cup {r} /\ r \notin ServedFor(q)
    BY <1>1, <1>3 DEF ServedFor, Served, Question, TypeOK
  <2>2. QED
    BY <1>1, <1>2, <1>3, <2>1 DEF TypeOK
<1>4. CASE q # Question(r)
  <2>1. ServedFor(q)' = ServedFor(q)
    BY <1>1, <1>4 DEF ServedFor, Served, Question, TypeOK
  <2>2. QED
    BY <1>1, <1>2, <1>4, <2>1 DEF TypeOK
<1>5. QED
  BY <1>3, <1>4

\* While its key is kept, a question has exactly one payer, and none without
\* a key.
THEOREM PaidOnce == Spec => []QuestionPaidOnce
<1>1. Init => QuestionPaidOnce
  BY DEF Init, QuestionPaidOnce, PayersFor
<1>2. TypeOK /\ QuestionPaidOnce /\ [Next]_vars => QuestionPaidOnce'
  <2> SUFFICES ASSUME TypeOK, QuestionPaidOnce, [Next]_vars,
                      NEW q \in Questions \ purged'
               PROVE  /\ hash'[q] = NoMessage => PayersFor(q)' = {}
                      /\ hash'[q] # NoMessage =>
                           \E s \in Requests : PayersFor(q)' = {s}
    BY DEF QuestionPaidOnce
  <2>1. CASE ~ \E r \in Requests : SpendCommitted(r) \/ AttemptTaken(r)
    BY <2>1, OnlyServingCounts DEF QuestionPaidOnce
  <2>2. ASSUME NEW r \in Requests, SpendCommitted(r)
        PROVE  /\ hash'[q] = NoMessage => PayersFor(q)' = {}
               /\ hash'[q] # NoMessage =>
                    \E s \in Requests : PayersFor(q)' = {s}
    <3>1. q \notin purged
      BY <2>2, CommitCounts
    <3>2. CASE q = Question(r)
      <4>1. PayersFor(q) = {} /\ PayersFor(q)' = PayersFor(q) \cup {r} /\ hash'[q] # NoMessage
        BY <2>2, <3>1, <3>2, CommitCounts DEF QuestionPaidOnce
      <4>2. QED
        BY <4>1
    <3>3. CASE q # Question(r)
      BY <2>2, <3>1, <3>3, CommitCounts DEF QuestionPaidOnce
    <3>4. QED
      BY <3>2, <3>3
  <2>3. ASSUME NEW r \in Requests, AttemptTaken(r)
        PROVE  /\ hash'[q] = NoMessage => PayersFor(q)' = {}
               /\ hash'[q] # NoMessage =>
                    \E s \in Requests : PayersFor(q)' = {s}
    BY <2>3, RetryCounts DEF QuestionPaidOnce
  <2>4. QED
    BY <2>1, <2>2, <2>3
<1>3. QED
  BY <1>1, <1>2, TypeCorrect, PTL DEF Spec

\* While its key is kept, its counter is the number of requests it served,
\* and never more than MaxAttempts of them.
THEOREM AttemptsCount == Spec => []AttemptsCounted
<1>1. Init => AttemptsCounted
  <2> SUFFICES ASSUME Init, NEW q \in Questions
               PROVE  /\ attempts[q] = Cardinality(ServedFor(q))
                      /\ Cardinality(ServedFor(q)) <= MaxAttempts
    BY DEF AttemptsCounted
  <2>1. ServedFor(q) = {}
    BY DEF Init, ServedFor, Served
  <2>2. QED
    BY <2>1, FS_EmptySet, AttemptsAssumption DEF Init
<1>2. TypeOK /\ OneMessagePerKey /\ AttemptsCounted /\ [Next]_vars => AttemptsCounted'
  <2> SUFFICES ASSUME TypeOK, OneMessagePerKey, AttemptsCounted, [Next]_vars,
                      NEW q \in Questions \ purged'
               PROVE  /\ attempts'[q] = Cardinality(ServedFor(q)')
                      /\ Cardinality(ServedFor(q)') <= MaxAttempts
    BY DEF AttemptsCounted
  <2>1. CASE ~ \E r \in Requests : SpendCommitted(r) \/ AttemptTaken(r)
    BY <2>1, OnlyServingCounts DEF AttemptsCounted
  <2>2. IsFiniteSet(ServedFor(q))
    BY RequestsAssumption, FS_Subset DEF ServedFor
  <2>3. ASSUME NEW r \in Requests, SpendCommitted(r)
        PROVE  /\ attempts'[q] = Cardinality(ServedFor(q)')
               /\ Cardinality(ServedFor(q)') <= MaxAttempts
    <3>1. q \notin purged
      BY <2>3, CommitCounts
    <3>2. CASE q = Question(r)
      <4>1. /\ hash[q] = NoMessage
            /\ attempts'[q] = 1
            /\ ServedFor(q)' = ServedFor(q) \cup {r}
        BY <2>3, <3>2, CommitCounts
      <4>2. ServedFor(q) = {}
        BY <3>1, <4>1, MessagesAssumption
           DEF OneMessagePerKey, ServedFor, TypeOK, Request
      <4>3. Cardinality(ServedFor(q)') = 1
        BY <4>1, <4>2, FS_Singleton
      <4>4. QED
        BY <4>1, <4>3, AttemptsAssumption
    <3>3. CASE q # Question(r)
      BY <2>3, <3>1, <3>3, CommitCounts DEF AttemptsCounted
    <3>4. QED
      BY <3>2, <3>3
  <2>4. ASSUME NEW r \in Requests, AttemptTaken(r)
        PROVE  /\ attempts'[q] = Cardinality(ServedFor(q)')
               /\ Cardinality(ServedFor(q)') <= MaxAttempts
    <3>1. q \notin purged
      BY <2>4, RetryCounts
    <3>2. CASE q = Question(r)
      <4>1. Cardinality(ServedFor(q)') = Cardinality(ServedFor(q)) + 1
        BY <2>2, <2>4, <3>2, RetryCounts, FS_AddElement
      <4>2. attempts[q] = Cardinality(ServedFor(q)) /\ attempts[q] \in 0..MaxAttempts
        BY <3>1 DEF AttemptsCounted, TypeOK
      <4>3. attempts'[q] = attempts[q] + 1 /\ attempts[q] < MaxAttempts
        BY <2>4, <3>2, RetryCounts
      <4>4. QED
        BY <4>1, <4>2, <4>3, AttemptsAssumption
    <3>3. CASE q # Question(r)
      BY <2>4, <3>1, <3>3, RetryCounts DEF AttemptsCounted
    <3>4. QED
      BY <3>2, <3>3
  <2>5. QED
    BY <2>1, <2>3, <2>4
<1>3. QED
  BY <1>1, <1>2, TypeCorrect, OneMessage, PTL DEF Spec

-----------------------------------------------------------------------------
(* The properties as the run checks them.                                  *)

\* While its key is kept, a question is charged to one request, answered at most
\* MaxAttempts times, and always for the message that paid.
THEOREM KeyBuys == Spec => []KeyBuysOneQuestion
<1>1. QuestionPaidOnce /\ AttemptsCounted /\ OneMessagePerKey => KeyBuysOneQuestion
  BY DEF KeyBuysOneQuestion
<1>2. QED
  BY <1>1, PaidOnce, AttemptsCount, OneMessage, PTL

\* Nobody is served on a grant that was dead when they asked, and every refusal
\* says what is so.
THEOREM AnswersTrue == Spec => []AnswersAreTrue
<1>1. DeadGrantServesNobody /\ QuotaRefusalIsTrue /\ RetryRefusalIsTrue => AnswersAreTrue
  BY DEF AnswersAreTrue
<1>2. QED
  BY <1>1, DeadGrant, QuotaRefusal, RetryRefusal, PTL

\* A grant's row is locked only by a request whose next statement ends its
\* transaction, for any number of requests.
THEOREM HeldRow == Spec => []HeldRowIsLetGo
<1>1. LockOK => HeldRowIsLetGo
  BY DEF LockOK, HeldRowIsLetGo
<1>2. QED
  BY <1>1, LockHeld, PTL

-----------------------------------------------------------------------------
(* Nobody waits for ever, and nothing is done twice.                       *)

\* The guards of r's statements: only the UPDATE of the spend waits, for the
\* grant's row, and only if the row would match.
CanGoOn(r) ==
  \/ pc[r] \in Working \ {"spend"}
  \/ pc[r] = "spend" /\ (~Payable(r) \/ lock[Grant(r)] = NoOne)

\* Whoever waits, waits for one whose next statement is its commit, on the same
\* grant.
WaitsAreShort ==
  \A r \in Requests : pc[r] \in Working =>
    \/ CanGoOn(r)
    \/ \E q \in Requests : Grant(q) = Grant(r) /\ pc[q] = "commit"

\* No two spends wait for each other, however many race for one grant.
THEOREM NobodyDeadlocks == Spec => []WaitsAreShort
<1>1. TypeOK /\ LockOK => WaitsAreShort
  BY DEF TypeOK, LockOK, WaitsAreShort, CanGoOn, Grant, Request
<1>2. QED
  BY <1>1, TypeCorrect, LockHeld, PTL

\* How far along its way a request is.
Stage(at) ==
  CASE at = "idle"                  -> 0
    [] at = "lookup"                -> 1
    [] at = "spend"                 -> 2
    [] at \in {"commit", "explain"}  -> 3
    [] at = "reread"                -> 4
    [] at = "check"                 -> 5
    [] at = "take"                  -> 6
    [] OTHER                        -> 7

OnlyOn == \A r \in Requests : pc'[r] # pc[r] => Stage(pc[r]) < Stage(pc'[r])

\* The places in their order.
LEMMA Stages ==
  /\ Stage("idle") = 0 /\ Stage("lookup") = 1 /\ Stage("spend") = 2
  /\ Stage("commit") = 3 /\ Stage("explain") = 3 /\ Stage("reread") = 4
  /\ Stage("check") = 5 /\ Stage("take") = 6
  /\ \A at \in Answered : Stage(at) = 7
BY DEF Stage, Answered, Served, Refusals

\* The ways between them that are not answers.
LEMMA Order ==
  /\ Stage("idle") < Stage("lookup")
  /\ Stage("lookup") < Stage("spend") /\ Stage("lookup") < Stage("reread")
  /\ Stage("spend") < Stage("commit") /\ Stage("spend") < Stage("explain")
  /\ Stage("commit") < Stage("reread") /\ Stage("reread") < Stage("check")
  /\ Stage("check") < Stage("take")
BY Stages

\* Going from one place to a later one.
Onward(r) == \E to : pc' = [pc EXCEPT ![r] = to] /\ Stage(pc[r]) < Stage(to)

\* Every step of a request takes it to a later place.
LEMMA StepGoesOn ==
  ASSUME NEW r \in Requests, Arrive(r) \/ Step(r)
  PROVE  Onward(r)
<1>1. ASSUME NEW from, NEW to, Goto(r, from, to), Stage(from) < Stage(to)
      PROVE  Onward(r)
  BY <1>1 DEF Goto, Onward
<1>2. ASSUME NEW from \in Working, NEW to \in Answered, Goto(r, from, to)
      PROVE  Onward(r)
  <2>1. Stage(from) < 7 /\ Stage(to) = 7
    BY <1>2, Stages DEF Working
  <2>2. QED
    BY <1>1, <1>2, <2>1
<1>3. Refusal(r) \in Answered \cup {"none"}
  BY DEF Refusal, Answered, Refusals
<1>4. ASSUME Arrive(r) PROVE Onward(r)
  BY <1>1, <1>4, Order DEF Arrive
<1>5. ASSUME KeyFound(r) \/ KeyAbsent(r) PROVE Onward(r)
  BY <1>1, <1>5, Order DEF KeyFound, KeyAbsent
<1>6. ASSUME SpendTaken(r) \/ SpendMissed(r) PROVE Onward(r)
  BY <1>1, <1>6, Order DEF SpendTaken, SpendMissed
<1>7. ASSUME Explain(r) PROVE Onward(r)
  <2> DEFINE to == IF Refusal(r) = "none" THEN "QuotaExhausted" ELSE Refusal(r)
  <2>1. Goto(r, "explain", to)
    BY <1>7 DEF Explain
  <2>2. to \in Answered
    BY <1>3 DEF Answered, Refusals
  <2> HIDE DEF to
  <2>3. QED
    BY <1>2, <2>1, <2>2 DEF Working
<1>8. ASSUME SpendCommitted(r) PROVE Onward(r)
  BY <1>2, <1>8 DEF SpendCommitted, Working, Answered, Served
<1>9. ASSUME SpendConflicted(r) PROVE Onward(r)
  BY <1>1, <1>9, Order DEF SpendConflicted
<1>10. ASSUME Reread(r) PROVE Onward(r)
  <2>1. CASE hash[Question(r)] = req[r].message
    BY <1>1, <1>10, <2>1, Order DEF Reread
  <2>2. CASE hash[Question(r)] # req[r].message
    BY <1>2, <1>10, <2>2 DEF Reread, Working, Answered, Refusals
  <2>3. QED
    BY <2>1, <2>2
<1>11. ASSUME CheckGrant(r) PROVE Onward(r)
  <2>1. CASE Refusal(r) = "none"
    BY <1>1, <1>11, <2>1, Order DEF CheckGrant
  <2>2. CASE Refusal(r) # "none"
    BY <1>2, <1>3, <1>11, <2>2 DEF CheckGrant, Working
  <2>3. QED
    BY <2>1, <2>2
<1>12. ASSUME AttemptTaken(r) PROVE Onward(r)
  BY <1>2, <1>12 DEF AttemptTaken, Working, Answered, Served
<1>13. ASSUME AttemptRefused(r) PROVE Onward(r)
  BY <1>2, <1>13 DEF AttemptRefused, Working, Answered, Refusals
<1>14. QED
  BY <1>4, <1>5, <1>6, <1>7, <1>8, <1>9, <1>10, <1>11, <1>12, <1>13 DEF Step

\* A request only ever moves on, so it has at most seven steps in all: no statement
\* of it is run twice, whatever the others do, and an answer is final.
THEOREM NoStatementTwice == Spec => [][OnlyOn]_vars
<1>1. ASSUME TypeOK, [Next]_vars PROVE OnlyOn
  <2>1. ASSUME NEW r \in Requests, Onward(r) PROVE OnlyOn
    BY <1>1, <2>1 DEF Onward, OnlyOn, TypeOK
  <2>2. ASSUME NEW r \in Requests, Arrive(r) \/ Step(r) PROVE OnlyOn
    BY <2>1, <2>2, StepGoesOn
  <2>3. ASSUME NEW r \in Requests, Crash(r) PROVE OnlyOn
    <3>1. Stage(pc[r]) < 7 /\ Stage("crashed") = 7
      BY <2>3, Stages DEF Crash, Working, Answered
    <3>2. QED
      BY <2>1, <2>3, <3>1 DEF Crash, Onward
  <2>4. ASSUME UNCHANGED pc PROVE OnlyOn
    BY <2>4 DEF OnlyOn
  <2>5. ASSUME NEW g \in Grants, Revoke(g) \/ Expire(g) PROVE OnlyOn
    BY <2>4, <2>5 DEF Revoke, Expire
  <2>6. ASSUME NEW q \in Questions, Purge(q) PROVE OnlyOn
    BY <2>4, <2>6 DEF Purge
  <2>7. QED
    BY <1>1, <2>2, <2>3, <2>4, <2>5, <2>6 DEF Next, vars
<1>2. TypeOK /\ [Next]_vars => [OnlyOn]_vars
  BY <1>1
<1>3. QED
  BY <1>2, TypeCorrect, PTL DEF Spec
=============================================================================
