----------------------- MODULE TrialReservation_proofs -----------------------
(***************************************************************************)
(* What the trial store promises, proved for any number of requests,       *)
(* addresses, challenges, browsers, days and trials a day.                 *)
(***************************************************************************)
EXTENDS TrialReservation, FiniteSetTheorems, TLAPS

-----------------------------------------------------------------------------
(* The inductive invariant, in parts.                                      *)

\* A day's budget row is locked by the one request about to insert its row for
\* that day, and the limit it read still leaves it room.
BudgetHeld ==
  /\ \A r \in Requests : pc[r] = "insert" =>
       holder[day[r]] = r /\ issued[day[r]] < DailyLimit
  /\ \A d \in Days : holder[d] # NoOne =>
       pc[holder[d]] = "insert" /\ day[holder[d]] = d

\* A request that is still on its way through reserve has reserved nothing.
Reserving == {"idle", "forget", "readAddress", "readChallenge", "budget", "insert",
              "reread"}
NotYet == \A r \in reserved : pc[r] \notin Reserving

\* Nobody has captured a day that is still to come, and a transaction deletes
\* rows of earlier days than the one it captured.
DaysOK ==
  /\ \A r \in Requests : day[r] <= today
  /\ \A r \in Requests : \A row \in deleted[r] : DayOf(row) < day[r]

\* Every row is some reservation's, and today's reservations have their rows.
RowsOK ==
  /\ \A row \in spent : \E r \in reserved : row = Row(r)
  /\ \A r \in ReservedOn(today) : Row(r) \in spent

\* No two of today's trials share an address or a challenge.
NoTwins ==
  \A r, s \in ReservedOn(today) :
    (req[r].address = req[s].address \/ req[r].challenge = req[s].challenge) => r = s

IInv == TypeOK /\ BudgetHeld /\ NotYet /\ DaysOK /\ RowsOK /\ NoTwins

-----------------------------------------------------------------------------
(* Every step keeps each part of it.                                       *)

\* The budget's UPDATE never takes a day past its limit.
LEMMA TypeStep ==
  ASSUME IInv, [Next]_vars
  PROVE  TypeOK'
<1> USE LimitsAssumption, RequestsAssumption
        DEF TypeOK, Working, Refused, Answered, Goto, clock, store, IInv,
            BudgetHeld
<1>1. ASSUME NEW r \in Requests, Start(r) PROVE TypeOK'
  BY <1>1 DEF Start
<1>2. ASSUME NEW r \in Requests, Forget(r) PROVE TypeOK'
  BY <1>2 DEF Forget, RowsBefore
<1>3. ASSUME NEW r \in Requests, AddressFree(r) PROVE TypeOK'
  BY <1>3 DEF AddressFree
<1>4. ASSUME NEW r \in Requests, ChallengeFree(r) PROVE TypeOK'
  BY <1>4 DEF ChallengeFree
<1>5. ASSUME NEW r \in Requests, AddressUsed(r) PROVE TypeOK'
  BY <1>5 DEF AddressUsed, LetGo
<1>6. ASSUME NEW r \in Requests, ChallengeUsed(r) PROVE TypeOK'
  BY <1>6 DEF ChallengeUsed, LetGo
<1>7. ASSUME NEW r \in Requests, BudgetTaken(r) PROVE TypeOK'
  BY <1>7 DEF BudgetTaken
<1>8. ASSUME NEW r \in Requests, BudgetSpent(r) PROVE TypeOK'
  BY <1>8 DEF BudgetSpent, LetGo
<1>9. ASSUME NEW r \in Requests, Reserved(r) PROVE TypeOK'
  BY <1>9 DEF Reserved, LetGo, Release, Visible, Row, Visit, Rows
<1>10. ASSUME NEW r \in Requests, Clashed(r) PROVE TypeOK'
  BY <1>10 DEF Clashed, LetGo, Release
<1>11. ASSUME NEW r \in Requests, Reread(r) PROVE TypeOK'
  BY <1>11 DEF Reread
<1>12. ASSUME NEW r \in Requests, Deadlocked(r) PROVE TypeOK'
  BY <1>12 DEF Deadlocked, LetGo, Release
<1>13. ASSUME NEW r \in Requests, GuestFound(r) PROVE TypeOK'
  BY <1>13 DEF GuestFound
<1>17. ASSUME NEW r \in Requests, SendPair(r) PROVE TypeOK'
  BY <1>17 DEF SendPair, Visit
<1>18. ASSUME NEW r \in Requests, TrialOpened(r) PROVE TypeOK'
  BY <1>18 DEF TrialOpened
<1>19. ASSUME NEW r \in Requests, Crash(r) PROVE TypeOK'
  BY <1>19 DEF Crash, LetGo, Release
<1>20. ASSUME NEW c \in Challenges, Issue(c) PROVE TypeOK'
  BY <1>20 DEF Issue
<1>21. ASSUME NEW c \in Challenges, Lapse(c) PROVE TypeOK'
  BY <1>21 DEF Lapse
<1>22. CASE Midnight
  BY <1>22 DEF Midnight, Days
<1>23. CASE Purge
  BY <1>23 DEF Purge, RowsBefore
<1>24. CASE UNCHANGED vars
  BY <1>24 DEF vars
<1> HIDE DEF IInv, TypeOK
<1>25. QED
  BY <1>1, <1>2, <1>3, <1>4, <1>5, <1>6, <1>7, <1>8, <1>9, <1>10, <1>11, <1>12,
     <1>13, <1>17, <1>18, <1>19, <1>20, <1>21, <1>22, <1>23, <1>24
     DEF Next, Step

\* Whoever takes a budget has the only hold on it, and ends it when it ends.
LEMMA HeldStep ==
  ASSUME IInv, [Next]_vars
  PROVE  BudgetHeld'
<1> USE LimitsAssumption, RequestsAssumption
        DEF TypeOK, Goto, clock, store, IInv, BudgetHeld
<1>1. ASSUME NEW r \in Requests, Start(r) PROVE BudgetHeld'
  BY <1>1 DEF Start
<1>2. ASSUME NEW r \in Requests, Forget(r) PROVE BudgetHeld'
  BY <1>2 DEF Forget, RowsBefore
<1>3. ASSUME NEW r \in Requests, AddressFree(r) PROVE BudgetHeld'
  BY <1>3 DEF AddressFree
<1>4. ASSUME NEW r \in Requests, ChallengeFree(r) PROVE BudgetHeld'
  BY <1>4 DEF ChallengeFree
<1>5. ASSUME NEW r \in Requests, AddressUsed(r) PROVE BudgetHeld'
  BY <1>5 DEF AddressUsed, LetGo
<1>6. ASSUME NEW r \in Requests, ChallengeUsed(r) PROVE BudgetHeld'
  BY <1>6 DEF ChallengeUsed, LetGo
<1>7. ASSUME NEW r \in Requests, BudgetTaken(r) PROVE BudgetHeld'
  BY <1>7 DEF BudgetTaken
<1>8. ASSUME NEW r \in Requests, BudgetSpent(r) PROVE BudgetHeld'
  BY <1>8 DEF BudgetSpent, LetGo
<1>9. ASSUME NEW r \in Requests, Reserved(r) PROVE BudgetHeld'
  BY <1>9 DEF Reserved, LetGo, Release, Visible
<1>10. ASSUME NEW r \in Requests, Clashed(r) PROVE BudgetHeld'
  BY <1>10 DEF Clashed, LetGo, Release
<1>11. ASSUME NEW r \in Requests, Reread(r) PROVE BudgetHeld'
  BY <1>11 DEF Reread
<1>12. ASSUME NEW r \in Requests, Deadlocked(r) PROVE BudgetHeld'
  BY <1>12 DEF Deadlocked, LetGo, Release
<1>13. ASSUME NEW r \in Requests, GuestFound(r) PROVE BudgetHeld'
  BY <1>13 DEF GuestFound
<1>17. ASSUME NEW r \in Requests, SendPair(r) PROVE BudgetHeld'
  BY <1>17 DEF SendPair
<1>18. ASSUME NEW r \in Requests, TrialOpened(r) PROVE BudgetHeld'
  BY <1>18 DEF TrialOpened
<1>19. ASSUME NEW r \in Requests, Crash(r) PROVE BudgetHeld'
  BY <1>19 DEF Crash, LetGo, Release
<1>20. ASSUME NEW c \in Challenges, Issue(c) PROVE BudgetHeld'
  BY <1>20 DEF Issue
<1>21. ASSUME NEW c \in Challenges, Lapse(c) PROVE BudgetHeld'
  BY <1>21 DEF Lapse
<1>22. CASE Midnight
  BY <1>22 DEF Midnight
<1>23. CASE Purge
  BY <1>23 DEF Purge, RowsBefore
<1>24. CASE UNCHANGED vars
  BY <1>24 DEF vars
<1> HIDE DEF IInv, BudgetHeld
<1>25. QED
  BY <1>1, <1>2, <1>3, <1>4, <1>5, <1>6, <1>7, <1>8, <1>9, <1>10, <1>11, <1>12,
     <1>13, <1>17, <1>18, <1>19, <1>20, <1>21, <1>22, <1>23, <1>24
     DEF Next, Step

\* Nobody comes back to reserve twice.
LEMMA NotYetStep ==
  ASSUME IInv, [Next]_vars
  PROVE  NotYet'
<1> USE LimitsAssumption, RequestsAssumption
        DEF TypeOK, Goto, clock, store, IInv, NotYet, Reserving
<1>1. ASSUME NEW r \in Requests, Start(r) PROVE NotYet'
  BY <1>1 DEF Start
<1>2. ASSUME NEW r \in Requests, Forget(r) PROVE NotYet'
  BY <1>2 DEF Forget, RowsBefore
<1>3. ASSUME NEW r \in Requests, AddressFree(r) PROVE NotYet'
  BY <1>3 DEF AddressFree
<1>4. ASSUME NEW r \in Requests, ChallengeFree(r) PROVE NotYet'
  BY <1>4 DEF ChallengeFree
<1>5. ASSUME NEW r \in Requests, AddressUsed(r) PROVE NotYet'
  BY <1>5 DEF AddressUsed, LetGo
<1>6. ASSUME NEW r \in Requests, ChallengeUsed(r) PROVE NotYet'
  BY <1>6 DEF ChallengeUsed, LetGo
<1>7. ASSUME NEW r \in Requests, BudgetTaken(r) PROVE NotYet'
  BY <1>7 DEF BudgetTaken
<1>8. ASSUME NEW r \in Requests, BudgetSpent(r) PROVE NotYet'
  BY <1>8 DEF BudgetSpent, LetGo
<1>9. ASSUME NEW r \in Requests, Reserved(r) PROVE NotYet'
  BY <1>9 DEF Reserved, LetGo, Release, Visible
<1>10. ASSUME NEW r \in Requests, Clashed(r) PROVE NotYet'
  BY <1>10 DEF Clashed, LetGo, Release
<1>11. ASSUME NEW r \in Requests, Reread(r) PROVE NotYet'
  BY <1>11 DEF Reread
<1>12. ASSUME NEW r \in Requests, Deadlocked(r) PROVE NotYet'
  BY <1>12 DEF Deadlocked, LetGo, Release
<1>13. ASSUME NEW r \in Requests, GuestFound(r) PROVE NotYet'
  BY <1>13 DEF GuestFound
<1>17. ASSUME NEW r \in Requests, SendPair(r) PROVE NotYet'
  BY <1>17 DEF SendPair
<1>18. ASSUME NEW r \in Requests, TrialOpened(r) PROVE NotYet'
  BY <1>18 DEF TrialOpened
<1>19. ASSUME NEW r \in Requests, Crash(r) PROVE NotYet'
  BY <1>19 DEF Crash, LetGo, Release
<1>20. ASSUME NEW c \in Challenges, Issue(c) PROVE NotYet'
  BY <1>20 DEF Issue
<1>21. ASSUME NEW c \in Challenges, Lapse(c) PROVE NotYet'
  BY <1>21 DEF Lapse
<1>22. CASE Midnight
  BY <1>22 DEF Midnight
<1>23. CASE Purge
  BY <1>23 DEF Purge, RowsBefore
<1>24. CASE UNCHANGED vars
  BY <1>24 DEF vars
<1> HIDE DEF IInv, NotYet
<1>25. QED
  BY <1>1, <1>2, <1>3, <1>4, <1>5, <1>6, <1>7, <1>8, <1>9, <1>10, <1>11, <1>12,
     <1>13, <1>17, <1>18, <1>19, <1>20, <1>21, <1>22, <1>23, <1>24
     DEF Next, Step

\* A row's day is a date.
LEMMA DaysCount == \A row \in Rows : DayOf(row) \in Nat
BY LimitsAssumption DEF Rows, Days, DayOf

\* Only earlier days are deleted, and a captured day stays captured.
LEMMA DaysStep ==
  ASSUME IInv, [Next]_vars
  PROVE  DaysOK'
<1> USE LimitsAssumption, RequestsAssumption
        DEF TypeOK, Goto, clock, store, IInv, DaysOK
<1>1. ASSUME NEW r \in Requests, Start(r) PROVE DaysOK'
  <2>1. \A q \in Requests : \A row \in deleted[q] : DayOf(row) \in Nat
    BY DaysCount DEF TypeOK
  <2>2. today \in Nat /\ day \in [Requests -> Nat]
    BY DEF TypeOK, Days
  <2>3. /\ \A q \in Requests : day'[q] = IF q = r THEN today ELSE day[q]
        /\ today' = today /\ deleted' = deleted
    BY <1>1 DEF Start
  <2>4. QED
    BY <2>1, <2>2, <2>3
<1>2. ASSUME NEW r \in Requests, Forget(r) PROVE DaysOK'
  BY <1>2 DEF Forget, RowsBefore
<1>3. ASSUME NEW r \in Requests, AddressFree(r) PROVE DaysOK'
  BY <1>3 DEF AddressFree
<1>4. ASSUME NEW r \in Requests, ChallengeFree(r) PROVE DaysOK'
  BY <1>4 DEF ChallengeFree
<1>5. ASSUME NEW r \in Requests, AddressUsed(r) PROVE DaysOK'
  BY <1>5 DEF AddressUsed, LetGo
<1>6. ASSUME NEW r \in Requests, ChallengeUsed(r) PROVE DaysOK'
  BY <1>6 DEF ChallengeUsed, LetGo
<1>7. ASSUME NEW r \in Requests, BudgetTaken(r) PROVE DaysOK'
  BY <1>7 DEF BudgetTaken
<1>8. ASSUME NEW r \in Requests, BudgetSpent(r) PROVE DaysOK'
  BY <1>8 DEF BudgetSpent, LetGo
<1>9. ASSUME NEW r \in Requests, Reserved(r) PROVE DaysOK'
  BY <1>9 DEF Reserved, LetGo, Release, Visible
<1>10. ASSUME NEW r \in Requests, Clashed(r) PROVE DaysOK'
  BY <1>10 DEF Clashed, LetGo, Release
<1>11. ASSUME NEW r \in Requests, Reread(r) PROVE DaysOK'
  BY <1>11 DEF Reread
<1>12. ASSUME NEW r \in Requests, Deadlocked(r) PROVE DaysOK'
  BY <1>12 DEF Deadlocked, LetGo, Release
<1>13. ASSUME NEW r \in Requests, GuestFound(r) PROVE DaysOK'
  BY <1>13 DEF GuestFound
<1>17. ASSUME NEW r \in Requests, SendPair(r) PROVE DaysOK'
  BY <1>17 DEF SendPair
<1>18. ASSUME NEW r \in Requests, TrialOpened(r) PROVE DaysOK'
  BY <1>18 DEF TrialOpened
<1>19. ASSUME NEW r \in Requests, Crash(r) PROVE DaysOK'
  BY <1>19 DEF Crash, LetGo, Release
<1>20. ASSUME NEW c \in Challenges, Issue(c) PROVE DaysOK'
  BY <1>20 DEF Issue
<1>21. ASSUME NEW c \in Challenges, Lapse(c) PROVE DaysOK'
  BY <1>21 DEF Lapse
<1>22. CASE Midnight
  BY <1>22 DEF Midnight, Days
<1>23. CASE Purge
  BY <1>23 DEF Purge, RowsBefore
<1>24. CASE UNCHANGED vars
  BY <1>24 DEF vars
<1> HIDE DEF IInv, DaysOK
<1>25. QED
  BY <1>1, <1>2, <1>3, <1>4, <1>5, <1>6, <1>7, <1>8, <1>9, <1>10, <1>11, <1>12,
     <1>13, <1>17, <1>18, <1>19, <1>20, <1>21, <1>22, <1>23, <1>24
     DEF Next, Step

\* A row is added by its reservation, and goes when its day has gone.
LEMMA RowsStep ==
  ASSUME IInv, [Next]_vars
  PROVE  RowsOK'
<1> USE LimitsAssumption, RequestsAssumption
        DEF TypeOK, Days, Goto, clock, store, IInv, DaysOK, NotYet, Reserving,
            RowsOK, ReservedOn, Row, DayOf
<1>1. ASSUME NEW r \in Requests, Start(r) PROVE RowsOK'
  BY <1>1 DEF Start
<1>2. ASSUME NEW r \in Requests, Forget(r) PROVE RowsOK'
  BY <1>2 DEF Forget, RowsBefore
<1>3. ASSUME NEW r \in Requests, AddressFree(r) \/ ChallengeFree(r) PROVE RowsOK'
  BY <1>3 DEF AddressFree, ChallengeFree
<1>4. ASSUME NEW r \in Requests, AddressUsed(r) \/ ChallengeUsed(r) PROVE RowsOK'
  BY <1>4 DEF AddressUsed, ChallengeUsed, LetGo
<1>5. ASSUME NEW r \in Requests, BudgetTaken(r) PROVE RowsOK'
  BY <1>5 DEF BudgetTaken
<1>6. ASSUME NEW r \in Requests, BudgetSpent(r) PROVE RowsOK'
  BY <1>6 DEF BudgetSpent, LetGo
<1>7. ASSUME NEW r \in Requests, Reserved(r) PROVE RowsOK'
  BY <1>7 DEF Reserved, LetGo, Release, Visible
<1>8. ASSUME NEW r \in Requests, Clashed(r) PROVE RowsOK'
  BY <1>8 DEF Clashed, LetGo, Release
<1>9. ASSUME NEW r \in Requests, Reread(r) PROVE RowsOK'
  BY <1>9 DEF Reread
<1>10. ASSUME NEW r \in Requests, Deadlocked(r) PROVE RowsOK'
  BY <1>10 DEF Deadlocked, LetGo, Release
<1>11. ASSUME NEW r \in Requests, GuestFound(r) PROVE RowsOK'
  BY <1>11 DEF GuestFound
<1>12. ASSUME NEW r \in Requests, SendPair(r) \/ TrialOpened(r) PROVE RowsOK'
  BY <1>12 DEF SendPair, TrialOpened
<1>13. ASSUME NEW r \in Requests, Crash(r) PROVE RowsOK'
  BY <1>13 DEF Crash, LetGo, Release
<1>14. ASSUME NEW c \in Challenges, Issue(c) \/ Lapse(c) PROVE RowsOK'
  BY <1>14 DEF Issue, Lapse
<1>15. CASE Midnight
  BY <1>15 DEF Midnight
<1>16. CASE Purge
  BY <1>16 DEF Purge, RowsBefore
<1>17. CASE UNCHANGED vars
  BY <1>17 DEF vars
<1> HIDE DEF IInv, RowsOK
<1>18. QED
  BY <1>1, <1>2, <1>3, <1>4, <1>5, <1>6, <1>7, <1>8, <1>9, <1>10, <1>11, <1>12,
     <1>13, <1>14, <1>15, <1>16, <1>17 DEF Next, Step

\* The unique constraints keep out every other trial of the day.
LEMMA TwinsStep ==
  ASSUME IInv, [Next]_vars
  PROVE  NoTwins'
<1> USE LimitsAssumption, RequestsAssumption
        DEF TypeOK, Days, Goto, clock, store, IInv, DaysOK, NotYet, Reserving,
            RowsOK, NoTwins, ReservedOn, Row, DayOf
<1>1. ASSUME NEW r \in Requests, Start(r) PROVE NoTwins'
  BY <1>1 DEF Start
<1>2. ASSUME NEW r \in Requests, Forget(r) PROVE NoTwins'
  BY <1>2 DEF Forget, RowsBefore
<1>3. ASSUME NEW r \in Requests, AddressFree(r) \/ ChallengeFree(r) PROVE NoTwins'
  BY <1>3 DEF AddressFree, ChallengeFree
<1>4. ASSUME NEW r \in Requests, AddressUsed(r) \/ ChallengeUsed(r) PROVE NoTwins'
  BY <1>4 DEF AddressUsed, ChallengeUsed, LetGo
<1>5. ASSUME NEW r \in Requests, BudgetTaken(r) PROVE NoTwins'
  BY <1>5 DEF BudgetTaken
<1>6. ASSUME NEW r \in Requests, BudgetSpent(r) PROVE NoTwins'
  BY <1>6 DEF BudgetSpent, LetGo
<1>7. ASSUME NEW r \in Requests, Reserved(r) PROVE NoTwins'
  <2>1. ASSUME NEW s \in ReservedOn(today), day[r] = today
        PROVE  req[s].address # req[r].address /\ req[s].challenge # req[r].challenge
    <3>1. /\ s \in Requests /\ day[s] = day[r] /\ Row(s) \in spent
          /\ DayOf(Row(s)) = day[r] /\ AddressOf(Row(s)) = req[s].address
          /\ ChallengeOf(Row(s)) = req[s].challenge
      BY <2>1 DEF AddressOf, ChallengeOf
    <3>2. Row(s) \notin deleted[r]
      BY <3>1
    <3>3. Row(s) \notin AddressRows(r) /\ Row(s) \notin ChallengeRows(r)
      BY <1>7 DEF Reserved, Clashes
    <3>4. QED
      BY <3>1, <3>2, <3>3 DEF AddressRows, ChallengeRows, Visible
  <2>2. /\ today' = today /\ day' = day /\ req' = req
        /\ reserved' = reserved \cup {r} /\ r \in Requests
    BY <1>7 DEF Reserved
  <2>3. ReservedOn(today)' = {s \in ReservedOn(today) \cup {r} : day[s] = today}
    BY <2>2
  <2>4. QED
    BY <2>1, <2>2, <2>3
<1>8. ASSUME NEW r \in Requests, Clashed(r) PROVE NoTwins'
  BY <1>8 DEF Clashed, LetGo, Release
<1>9. ASSUME NEW r \in Requests, Reread(r) PROVE NoTwins'
  BY <1>9 DEF Reread
<1>10. ASSUME NEW r \in Requests, Deadlocked(r) PROVE NoTwins'
  BY <1>10 DEF Deadlocked, LetGo, Release
<1>11. ASSUME NEW r \in Requests, GuestFound(r) PROVE NoTwins'
  BY <1>11 DEF GuestFound
<1>12. ASSUME NEW r \in Requests, SendPair(r) \/ TrialOpened(r) PROVE NoTwins'
  BY <1>12 DEF SendPair, TrialOpened
<1>13. ASSUME NEW r \in Requests, Crash(r) PROVE NoTwins'
  BY <1>13 DEF Crash, LetGo, Release
<1>14. ASSUME NEW c \in Challenges, Issue(c) \/ Lapse(c) PROVE NoTwins'
  BY <1>14 DEF Issue, Lapse
<1>15. CASE Midnight
  BY <1>15 DEF Midnight
<1>16. CASE Purge
  BY <1>16 DEF Purge, RowsBefore
<1>17. CASE UNCHANGED vars
  BY <1>17 DEF vars
<1> HIDE DEF IInv, NoTwins
<1>18. QED
  BY <1>1, <1>2, <1>3, <1>4, <1>5, <1>6, <1>7, <1>8, <1>9, <1>10, <1>11, <1>12,
     <1>13, <1>14, <1>15, <1>16, <1>17 DEF Next, Step

-----------------------------------------------------------------------------
(* The theorems.                                                           *)

\* The invariant the rest follows from: it holds at first, and every step keeps it.
THEOREM Inductive == Spec => []IInv
<1>1. Init => IInv
  <2> SUFFICES ASSUME Init PROVE IInv
    OBVIOUS
  <2>1. TypeOK
    BY LimitsAssumption DEF Init, TypeOK, Days, Never
  <2>2. BudgetHeld /\ NotYet /\ DaysOK /\ RowsOK /\ NoTwins
    BY RequestsAssumption
       DEF Init, BudgetHeld, NotYet, DaysOK, RowsOK, NoTwins, ReservedOn
  <2>3. QED
    BY <2>1, <2>2 DEF IInv
<1>2. IInv /\ [Next]_vars => IInv'
  BY TypeStep, HeldStep, NotYetStep, DaysStep, RowsStep, TwinsStep DEF IInv
<1>3. QED
  BY <1>1, <1>2, PTL DEF Spec

\* Every variable holds a value of its type in every reachable state; so no
\* day's counter ever passes the limit.
THEOREM TypeCorrect == Spec => []TypeOK
<1>1. IInv => TypeOK
  BY DEF IInv
<1>2. QED
  BY <1>1, Inductive, PTL

\* While the day lasts, its rows are exactly the trials reserved on it, and no
\* two of them share an address or a challenge.
THEOREM OneTrialADay == Spec => []OnePerDay
<1>1. IInv => OnePerDay
  <2> SUFFICES ASSUME IInv PROVE OnePerDay
    OBVIOUS
  <2> USE DEF IInv, RowsOK, ReservedOn
  <2>1. \A r \in Requests : DayOf(Row(r)) = day[r]
    BY DEF Row, DayOf
  <2>2. \A row \in spent : DayOf(row) = today =>
          \E r \in ReservedOn(today) : row = Row(r)
    BY <2>1 DEF TypeOK
  <2>3. \A r \in ReservedOn(today) : Row(r) \in spent /\ DayOf(Row(r)) = today
    BY <2>1 DEF TypeOK
  <2>4. {row \in spent : DayOf(row) = today} = {Row(r) : r \in ReservedOn(today)}
    BY <2>2, <2>3
  <2>5. QED
    BY <2>4 DEF OnePerDay, NoTwins
<1>2. QED
  BY <1>1, Inductive, PTL

-----------------------------------------------------------------------------
(* The counters.                                                           *)

Counted == \A d \in Days : issued[d] = Cardinality(ReservedOn(d))

\* Only a reservation moves a counter, and what is reserved keeps its day.
LEMMA OnlyReservedCounts ==
  ASSUME IInv, [Next]_vars, \A r \in Requests : ~Reserved(r)
  PROVE  /\ issued' = issued /\ reserved' = reserved
         /\ \A r \in reserved : day'[r] = day[r]
<1> DEFINE Same == /\ issued' = issued /\ reserved' = reserved
                   /\ \A r \in reserved : day'[r] = day[r]
<1> USE DEF store, clock
<1>1. ASSUME NEW r \in Requests, Start(r) PROVE Same
  BY <1>1 DEF Start, Goto, IInv, NotYet, Reserving, TypeOK
<1>2. ASSUME NEW r \in Requests,
             \/ Forget(r) \/ AddressFree(r) \/ AddressUsed(r)
             \/ ChallengeFree(r) \/ ChallengeUsed(r)
      PROVE  Same
  BY <1>2 DEF Forget, AddressFree, AddressUsed, ChallengeFree, ChallengeUsed
<1>3. ASSUME NEW r \in Requests,
             BudgetTaken(r) \/ BudgetSpent(r) \/ Clashed(r) \/ Reread(r) \/ Deadlocked(r)
      PROVE  Same
  BY <1>3 DEF BudgetTaken, BudgetSpent, Clashed, Reread, Deadlocked
<1>4. ASSUME NEW r \in Requests, GuestFound(r) PROVE Same
  BY <1>4 DEF GuestFound
<1>5. ASSUME NEW r \in Requests, SendPair(r) \/ TrialOpened(r) \/ Crash(r) PROVE Same
  BY <1>5 DEF SendPair, TrialOpened, Crash
<1>6. ASSUME NEW c \in Challenges, Issue(c) \/ Lapse(c) PROVE Same
  BY <1>6 DEF Issue, Lapse
<1>7. ASSUME Midnight \/ Purge \/ UNCHANGED vars PROVE Same
  BY <1>7 DEF Midnight, Purge, vars
<1> HIDE DEF Same
<1>8. Same
  BY <1>1, <1>2, <1>3, <1>4, <1>5, <1>6, <1>7 DEF Next, Step
<1>9. QED
  BY <1>8 DEF Same

\* A reservation is counted on its own day, once.
LEMMA ReservationCounted ==
  ASSUME IInv, Counted, NEW r \in Requests, Reserved(r)
  PROVE  Counted'
<1>1. /\ r \notin reserved /\ reserved' = reserved \cup {r} /\ day' = day
      /\ day[r] \in Days /\ issued' = [issued EXCEPT ![day[r]] = @ + 1]
  BY DEF Reserved, Goto, IInv, NotYet, Reserving, TypeOK
<1>2. ASSUME NEW d \in Days, d # day[r] PROVE issued'[d] = Cardinality(ReservedOn(d)')
  <2>1. ReservedOn(d)' = ReservedOn(d)
    BY <1>1, <1>2 DEF ReservedOn
  <2>2. QED
    BY <1>1, <1>2, <2>1 DEF Counted, IInv, TypeOK
<1>3. ASSUME NEW d \in Days, d = day[r] PROVE issued'[d] = Cardinality(ReservedOn(d)')
  <2>1. ReservedOn(d)' = ReservedOn(d) \cup {r} /\ r \notin ReservedOn(d)
    BY <1>1, <1>3 DEF ReservedOn
  <2>2. IsFiniteSet(ReservedOn(d))
    <3>1. ReservedOn(d) \subseteq Requests
      BY DEF ReservedOn, IInv, TypeOK
    <3>2. QED
      BY <3>1, RequestsAssumption, FS_Subset
  <2>3. Cardinality(ReservedOn(d)') = Cardinality(ReservedOn(d)) + 1
    BY <2>1, <2>2, FS_AddElement
  <2>4. issued'[d] = issued[d] + 1
    BY <1>1, <1>3 DEF IInv, TypeOK
  <2>5. QED
    BY <2>3, <2>4 DEF Counted
<1>4. QED
  BY <1>2, <1>3 DEF Counted

\* A day's counter is the number of trials reserved on it, within the limit.
THEOREM BudgetIsKept == Spec => []BudgetBalances
<1>1. Init => Counted
  <2> SUFFICES ASSUME Init, NEW d \in Days PROVE issued[d] = Cardinality(ReservedOn(d))
    BY DEF Counted
  <2>1. ReservedOn(d) = {}
    BY DEF Init, ReservedOn
  <2>2. QED
    BY <2>1, FS_EmptySet DEF Init
<1>2. IInv /\ Counted /\ [Next]_vars => Counted'
  <2> SUFFICES ASSUME IInv, Counted, [Next]_vars PROVE Counted'
    OBVIOUS
  <2>1. ASSUME NEW r \in Requests, Reserved(r) PROVE Counted'
    BY <2>1, ReservationCounted
  <2>2. ASSUME \A r \in Requests : ~Reserved(r) PROVE Counted'
    <3>1. \A d \in Days : ReservedOn(d)' = ReservedOn(d)
      BY <2>2, OnlyReservedCounts DEF ReservedOn
    <3>2. QED
      BY <2>2, <3>1, OnlyReservedCounts DEF Counted
  <2>3. QED
    BY <2>1, <2>2
<1>3. IInv /\ Counted => BudgetBalances
  BY LimitsAssumption DEF IInv, TypeOK, Counted, BudgetBalances
<1>4. QED
  BY <1>1, <1>2, <1>3, Inductive, PTL DEF Spec

-----------------------------------------------------------------------------
(* The refusals, and what may be forgotten.                                *)

\* What a refused visitor was told stays true: the trials it speaks of are
\* neither taken back nor moved to another day.
LEMMA RefusalStep ==
  ASSUME IInv, RefusalIsTrue, [Next]_vars
  PROVE  RefusalIsTrue'
<1> USE LimitsAssumption, RequestsAssumption
        DEF RefusalIsTrue, TypeOK, Goto, clock, store, IInv, NotYet, Reserving,
            ReservedOn
<1>1. ASSUME NEW r \in Requests, Start(r) PROVE RefusalIsTrue'
  BY <1>1 DEF Start
<1>2. ASSUME NEW r \in Requests, Forget(r) PROVE RefusalIsTrue'
  BY <1>2 DEF Forget, RowsBefore
<1>3. ASSUME NEW r \in Requests, AddressFree(r) \/ ChallengeFree(r)
      PROVE  RefusalIsTrue'
  BY <1>3 DEF AddressFree, ChallengeFree
<1>4. ASSUME NEW r \in Requests, AddressUsed(r) PROVE RefusalIsTrue'
  BY <1>4 DEF AddressUsed, LetGo, AddressRows, AddressOf, DayOf, Visible,
      RowsOK, Row
<1>5. ASSUME NEW r \in Requests, ChallengeUsed(r) PROVE RefusalIsTrue'
  BY <1>5 DEF ChallengeUsed, LetGo
<1>6. ASSUME NEW r \in Requests, BudgetTaken(r) PROVE RefusalIsTrue'
  BY <1>6 DEF BudgetTaken
<1>7. ASSUME NEW r \in Requests, BudgetSpent(r) PROVE RefusalIsTrue'
  BY <1>7 DEF BudgetSpent, LetGo
<1>8. ASSUME NEW r \in Requests, Reserved(r) PROVE RefusalIsTrue'
  BY <1>8 DEF Reserved, LetGo, Release, Visible, BudgetHeld
<1>9. ASSUME NEW r \in Requests, Clashed(r) PROVE RefusalIsTrue'
  BY <1>9 DEF Clashed, LetGo, Release
<1>10. ASSUME NEW r \in Requests, Reread(r) PROVE RefusalIsTrue'
  BY <1>10 DEF Reread, AddressRows, AddressOf, DayOf, Visible, RowsOK, Row
<1>11. ASSUME NEW r \in Requests, Deadlocked(r) PROVE RefusalIsTrue'
  BY <1>11 DEF Deadlocked, LetGo, Release
<1>12. ASSUME NEW r \in Requests, GuestFound(r) PROVE RefusalIsTrue'
  BY <1>12 DEF GuestFound
<1>13. ASSUME NEW r \in Requests, SendPair(r) \/ TrialOpened(r)
      PROVE  RefusalIsTrue'
  BY <1>13 DEF SendPair, TrialOpened
<1>14. ASSUME NEW r \in Requests, Crash(r) PROVE RefusalIsTrue'
  BY <1>14 DEF Crash, LetGo, Release
<1>15. ASSUME NEW c \in Challenges, Issue(c) \/ Lapse(c) PROVE RefusalIsTrue'
  BY <1>15 DEF Issue, Lapse
<1>16. CASE Midnight
  BY <1>16 DEF Midnight
<1>17. CASE Purge
  BY <1>17 DEF Purge, RowsBefore
<1>18. CASE UNCHANGED vars
  BY <1>18 DEF vars
<1> HIDE DEF IInv, RefusalIsTrue
<1>19. QED
  BY <1>1, <1>2, <1>3, <1>4, <1>5, <1>6, <1>7, <1>8, <1>9, <1>10, <1>11, <1>12,
     <1>13, <1>14, <1>15, <1>16, <1>17, <1>18 DEF Next, Step

\* A visitor is told that the address has had today's trial only if it has, and
\* that the day's trials are gone only if they are.
THEOREM RefusalsAreTrue == Spec => []RefusalIsTrue
<1>1. Init => RefusalIsTrue
  BY DEF Init, RefusalIsTrue
<1>2. IInv /\ RefusalIsTrue /\ [Next]_vars => RefusalIsTrue'
  BY RefusalStep
<1>3. QED
  BY <1>1, <1>2, Inductive, PTL DEF Spec

\* Only a reservation's commit and the purge take rows away, and both take rows
\* of days that are over.
LEMMA RowsGoLate ==
  ASSUME IInv, [Next]_vars
  PROVE  \A row \in spent \ spent' : DayOf(row) < today
<1> USE DEF store, clock
<1>1. ASSUME NEW r \in Requests, Reserved(r)
      PROVE  \A row \in spent \ spent' : DayOf(row) < today
  <2> SUFFICES ASSUME NEW row \in spent \ spent' PROVE DayOf(row) < today
    OBVIOUS
  <2>1. row \in deleted[r] /\ row \in Rows
    BY <1>1 DEF Reserved, Visible, IInv, TypeOK
  <2>2. DayOf(row) < day[r] /\ day[r] <= today
    BY <2>1 DEF IInv, DaysOK
  <2>3. DayOf(row) \in Nat /\ day[r] \in Nat /\ today \in Nat
    BY <2>1, DaysCount DEF IInv, TypeOK, Days
  <2>4. QED
    BY <2>2, <2>3
<1>2. CASE Purge
  BY <1>2 DEF Purge, RowsBefore
<1>3. ASSUME NEW r \in Requests, Start(r) \/ Crash(r) PROVE spent' = spent
  BY <1>3 DEF Start, Crash
<1>4. ASSUME NEW r \in Requests,
             \/ Forget(r) \/ AddressFree(r) \/ AddressUsed(r)
             \/ ChallengeFree(r) \/ ChallengeUsed(r)
      PROVE  spent' = spent
  BY <1>4 DEF Forget, AddressFree, AddressUsed, ChallengeFree, ChallengeUsed
<1>5. ASSUME NEW r \in Requests,
             BudgetTaken(r) \/ BudgetSpent(r) \/ Clashed(r) \/ Reread(r) \/ Deadlocked(r)
      PROVE  spent' = spent
  BY <1>5 DEF BudgetTaken, BudgetSpent, Clashed, Reread, Deadlocked
<1>6. ASSUME NEW r \in Requests,
             GuestFound(r) \/ SendPair(r) \/ TrialOpened(r)
      PROVE  spent' = spent
  BY <1>6 DEF GuestFound, SendPair, TrialOpened
<1>7. ASSUME NEW c \in Challenges, Issue(c) \/ Lapse(c) PROVE spent' = spent
  BY <1>7 DEF Issue, Lapse
<1>8. ASSUME Midnight \/ UNCHANGED vars PROVE spent' = spent
  BY <1>8 DEF Midnight, vars
<1>9. QED
  BY <1>1, <1>2, <1>3, <1>4, <1>5, <1>6, <1>7, <1>8 DEF Next, Step

\* Nothing forgets a row before its day is over, whichever day the request that
\* does the forgetting captured.
THEOREM RowsAreKept == Spec => KeptForItsDay
<1>1. IInv /\ [Next]_vars => [\A row \in spent \ spent' : DayOf(row) < today]_vars
  BY RowsGoLate
<1>2. QED
  BY <1>1, Inductive, PTL DEF Spec, KeptForItsDay

-----------------------------------------------------------------------------
(* Nobody is stuck: whom a request may be waiting for, and why they go on. *)

\* A request is answered, or dies, within a day of having captured its own.
Underway == \A r \in Requests : pc[r] \in Working => day[r] = today \/ day[r] = today - 1

\* A deletion is in doubt only between the DELETE and the transaction's end; what
\* it took is still there, and it took everything of the days that no request
\* under way can still add to.
Sweeping == {"readAddress", "readChallenge", "budget", "insert"}
SweepOK ==
  \A r \in Requests : deleted[r] # {} =>
    /\ pc[r] \in Sweeping
    /\ deleted[r] \subseteq spent
    /\ RowsBefore(day[r] - 1) \subseteq deleted[r]

\* So two transactions never have deletions in doubt at once.
OneSweep == \A r, s \in Requests : deleted[r] # {} /\ deleted[s] # {} => r = s

Waiting == Underway /\ SweepOK /\ OneSweep

\* A day that is captured is today's, and no midnight passes over a request that
\* has already seen one.
LEMMA UnderwayStep ==
  ASSUME IInv, Waiting, [Next]_vars
  PROVE  Underway'
<1> DEFINE Goal == Underway'
<1> USE LimitsAssumption, RequestsAssumption
        DEF Waiting, Underway, Goto, clock, store, IInv, TypeOK, Days,
            Working, Refused, Answered
<1>1. ASSUME NEW r \in Requests, Start(r) PROVE Goal
  BY <1>1 DEF Start
<1>2. ASSUME NEW r \in Requests, Forget(r) PROVE Goal
  BY <1>2 DEF Forget
<1>3. ASSUME NEW r \in Requests, AddressFree(r) \/ ChallengeFree(r) PROVE Goal
  BY <1>3 DEF AddressFree, ChallengeFree
<1>4. ASSUME NEW r \in Requests, AddressUsed(r) \/ ChallengeUsed(r) PROVE Goal
  BY <1>4 DEF AddressUsed, ChallengeUsed
<1>5. ASSUME NEW r \in Requests, BudgetTaken(r) PROVE Goal
  BY <1>5 DEF BudgetTaken
<1>6. ASSUME NEW r \in Requests, BudgetSpent(r) PROVE Goal
  BY <1>6 DEF BudgetSpent
<1>7. ASSUME NEW r \in Requests, Reserved(r) PROVE Goal
  BY <1>7 DEF Reserved
<1>8. ASSUME NEW r \in Requests, Clashed(r) PROVE Goal
  BY <1>8 DEF Clashed
<1>9. ASSUME NEW r \in Requests, Reread(r) PROVE Goal
  BY <1>9 DEF Reread
<1>10. ASSUME NEW r \in Requests, Deadlocked(r) PROVE Goal
  BY <1>10 DEF Deadlocked, WaitsFor
<1>11. ASSUME NEW r \in Requests, GuestFound(r) PROVE Goal
  BY <1>11 DEF GuestFound
<1>12. ASSUME NEW r \in Requests, SendPair(r) \/ TrialOpened(r) PROVE Goal
  <2>1. CASE SendPair(r)
    BY <2>1 DEF SendPair
  <2>2. CASE TrialOpened(r)
    BY <2>2 DEF TrialOpened
  <2>3. QED
    BY <1>12, <2>1, <2>2
<1>13. ASSUME NEW r \in Requests, Crash(r) PROVE Goal
  BY <1>13 DEF Crash
<1>14. ASSUME NEW c \in Challenges, Issue(c) \/ Lapse(c) PROVE Goal
  BY <1>14 DEF Issue, Lapse
<1>15. CASE Midnight
  BY <1>15 DEF Midnight
<1>16. CASE Purge
  BY <1>16 DEF Purge
<1>17. CASE UNCHANGED vars
  BY <1>17 DEF vars
<1> HIDE DEF IInv, Waiting, Underway
<1>18. QED
  BY <1>1, <1>2, <1>3, <1>4, <1>5, <1>6, <1>7, <1>8, <1>9, <1>10, <1>11, <1>12,
     <1>13, <1>14, <1>15, <1>16, <1>17 DEF Next, Step

\* A DELETE waits for every other deletion of the same rows; a second one finds
\* nothing left to delete or waits.
LEMMA ForgetIsAlone ==
  ASSUME IInv, Waiting, NEW r \in Requests, Forget(r)
  PROVE  /\ deleted'[r] # {} => \A s \in Requests \ {r} : deleted[s] = {}
         /\ deleted[r] = {}
<1>1. deleted[r] = {}
  BY DEF Waiting, SweepOK, Sweeping, Forget, Goto
<1>2. ASSUME NEW s \in Requests \ {r}, deleted[s] # {} PROVE deleted'[r] = {}
  <2>1. PICK row \in deleted[s] : TRUE
    BY <1>2
  <2>2. /\ \A q \in Rows : DayOf(q) \in Nat
        /\ day[r] \in Nat /\ day[s] \in Nat /\ today \in Nat
    BY LimitsAssumption, DaysCount DEF IInv, TypeOK, Days
  <2>3. /\ deleted[s] \subseteq spent /\ spent \subseteq Rows
        /\ RowsBefore(day[s] - 1) \subseteq deleted[s]
        /\ pc[s] \in Working /\ pc[r] \in Working
    BY <1>2 DEF Waiting, SweepOK, Sweeping, Working, Forget, Goto, IInv, TypeOK
  <2>4. /\ day[s] = today \/ day[s] = today - 1
        /\ day[r] = today \/ day[r] = today - 1
    BY <2>3 DEF Waiting, Underway
  <2>5. DayOf(row) < day[s] /\ row \in spent /\ row \in Rows
    BY <2>1, <2>3 DEF IInv, DaysOK
  <2>6. RowsBefore(day[r]) \cap deleted[s] = {}
    BY DEF Forget
  <2>7. ~(DayOf(row) < day[r])
    BY <2>1, <2>5, <2>6 DEF RowsBefore
  <2>8. day[r] = day[s] - 1
    BY <2>2, <2>4, <2>5, <2>7
  <2>9. RowsBefore(day[r]) = {}
    BY <2>3, <2>6, <2>8
  <2>10. QED
    BY <2>9 DEF Forget, IInv, TypeOK
<1>3. QED
  BY <1>1, <1>2

\* A deletion ends with its transaction; what a commit takes away is its own.
LEMMA SweepStep ==
  ASSUME IInv, Waiting, [Next]_vars
  PROVE  SweepOK' /\ OneSweep'
<1> DEFINE Goal == SweepOK' /\ OneSweep'
           \* The deletions in doubt are some of those that were, of the same rows.
           Fewer == /\ spent' = spent /\ day' = day
                    /\ \A s \in Requests : \/ deleted'[s] = {}
                                           \/ deleted'[s] = deleted[s] /\ pc'[s] \in Sweeping
<1> USE DEF store, clock
<1>1. ASSUME Fewer PROVE Goal
  BY <1>1 DEF Waiting, SweepOK, OneSweep, RowsBefore
<1>2. ASSUME NEW r \in Requests, Start(r) PROVE Goal
  <2>1. deleted[r] = {} /\ deleted' = deleted /\ spent' = spent
    BY <1>2 DEF Start, Goto, Waiting, SweepOK, Sweeping
  <2>2. \A s \in Requests \ {r} : day'[s] = day[s] /\ pc'[s] = pc[s]
    BY <1>2 DEF Start, Goto, IInv, TypeOK
  <2>3. QED
    BY <2>1, <2>2 DEF Waiting, SweepOK, OneSweep, RowsBefore
<1>3. ASSUME NEW r \in Requests, Forget(r) PROVE Goal
  <2>1. /\ \A s \in Requests \ {r} : deleted'[s] = deleted[s] /\ pc'[s] = pc[s]
        /\ deleted'[r] = RowsBefore(day[r]) /\ pc'[r] = "readAddress"
        /\ spent' = spent /\ day' = day
    BY <1>3 DEF Forget, Goto, IInv, TypeOK
  <2>2. deleted'[r] # {} => \A s \in Requests \ {r} : deleted[s] = {}
    BY <1>3, ForgetIsAlone
  <2>3. RowsBefore(day[r]) \subseteq spent /\ RowsBefore(day[r] - 1) \subseteq RowsBefore(day[r])
    BY LimitsAssumption, DaysCount DEF RowsBefore, IInv, TypeOK, Days
  <2>4. OneSweep'
    BY <2>1, <2>2 DEF OneSweep, Waiting
  <2>5. SweepOK'
    BY <2>1, <2>3 DEF SweepOK, Sweeping, Waiting, RowsBefore
  <2>6. QED
    BY <2>4, <2>5
<1>4. ASSUME NEW r \in Requests, AddressFree(r) \/ ChallengeFree(r) PROVE Fewer
  BY <1>4 DEF AddressFree, ChallengeFree, Goto, Waiting, SweepOK, Sweeping, IInv, TypeOK
<1>5. ASSUME NEW r \in Requests, AddressUsed(r) \/ ChallengeUsed(r) \/ BudgetSpent(r)
      PROVE  Fewer
  BY <1>5 DEF AddressUsed, ChallengeUsed, BudgetSpent, LetGo, Goto, Waiting, SweepOK,
              IInv, TypeOK
<1>6. ASSUME NEW r \in Requests, BudgetTaken(r) PROVE Fewer
  BY <1>6 DEF BudgetTaken, Goto, Waiting, SweepOK, Sweeping, IInv, TypeOK
<1>7. ASSUME NEW r \in Requests, Clashed(r) \/ Deadlocked(r) \/ Crash(r) PROVE Fewer
  BY <1>7 DEF Clashed, Deadlocked, Crash, LetGo, Goto, Waiting, SweepOK, IInv, TypeOK
<1>8. ASSUME NEW r \in Requests, Reserved(r) PROVE Goal
  <2>1. /\ spent' = Visible(r) \cup {Row(r)} /\ day' = day /\ deleted'[r] = {}
        /\ \A s \in Requests \ {r} : deleted'[s] = deleted[s] /\ pc'[s] = pc[s]
        /\ pc[r] = "insert"
    BY <1>8 DEF Reserved, LetGo, Goto, IInv, TypeOK
  <2>2. OneSweep'
    BY <2>1 DEF OneSweep, Waiting
  <2>3. ASSUME NEW s \in Requests, deleted'[s] # {}
        PROVE  /\ pc'[s] \in Sweeping /\ deleted'[s] \subseteq spent'
               /\ \A row \in spent' : DayOf(row) < day[s] - 1 => row \in deleted'[s]
    <3>1. s # r /\ deleted'[s] = deleted[s] /\ pc'[s] = pc[s] /\ deleted[s] # {}
      BY <2>1, <2>3
    <3>2. deleted[r] = {} /\ spent' = spent \cup {Row(r)}
      BY <2>1, <3>1 DEF Waiting, OneSweep, Visible
    <3>3. day[r] \in Nat /\ day[s] \in Nat /\ today \in Nat
      BY LimitsAssumption DEF IInv, TypeOK, Days
    <3>4. day[s] <= today /\ (day[r] = today \/ day[r] = today - 1)
      BY <2>1 DEF IInv, DaysOK, Waiting, Underway, Working
    <3>5. DayOf(Row(r)) = day[r]
      BY DEF DayOf, Row
    <3>6. ~(DayOf(Row(r)) < day[s] - 1)
      BY <3>3, <3>4, <3>5
    <3>7. QED
      BY <3>1, <3>2, <3>6 DEF Waiting, SweepOK, RowsBefore
  <2>4. SweepOK'
    BY <2>1, <2>3 DEF SweepOK, RowsBefore
  <2>5. QED
    BY <2>2, <2>4
<1>9. ASSUME NEW r \in Requests,
             Reread(r) \/ GuestFound(r) \/ SendPair(r) \/ TrialOpened(r)
      PROVE  Fewer
  <2>1. pc[r] \notin Sweeping
    BY <1>9 DEF Reread, GuestFound, SendPair, TrialOpened, Goto, Sweeping
  <2>2. /\ spent' = spent /\ day' = day /\ deleted' = deleted
        /\ \A s \in Requests \ {r} : pc'[s] = pc[s]
    BY <1>9 DEF Reread, GuestFound, SendPair, TrialOpened, Goto, IInv, TypeOK
  <2>3. QED
    BY <2>1, <2>2 DEF Waiting, SweepOK
<1>10. ASSUME NEW c \in Challenges, Issue(c) \/ Lapse(c) PROVE Fewer
  BY <1>10 DEF Issue, Lapse, Waiting, SweepOK
<1>11. ASSUME Midnight \/ UNCHANGED vars PROVE Fewer
  BY <1>11 DEF Midnight, vars, Waiting, SweepOK
<1>12. ASSUME Purge PROVE Goal
  <2>1. /\ spent' = spent \ RowsBefore(today) /\ day' = day /\ deleted' = deleted
        /\ pc' = pc /\ \A s \in Requests : RowsBefore(today) \cap deleted[s] = {}
    BY <1>12 DEF Purge
  <2>2. \A s \in Requests : deleted[s] \cap RowsBefore(today) = {}
    BY <2>1
  <2>3. QED
    BY <2>1, <2>2 DEF Waiting, SweepOK, OneSweep, RowsBefore
<1> HIDE DEF Goal, Fewer
<1>13. ASSUME NEW r \in Requests, Step(r) PROVE Goal
  BY <1>1, <1>3, <1>4, <1>5, <1>6, <1>7, <1>8, <1>9, <1>13 DEF Step
<1>14. Goal
  BY <1>1, <1>2, <1>7, <1>10, <1>11, <1>12, <1>13 DEF Next
<1>15. QED
  BY <1>14 DEF Goal

\* At first nobody waits, and every step keeps what is said of those who do.
THEOREM WaitingIsKept == Spec => []Waiting
<1>1. Init => Waiting
  BY DEF Init, Waiting, Underway, Working, SweepOK, OneSweep
<1>2. IInv /\ Waiting /\ [Next]_vars => Waiting'
  BY UnderwayStep, SweepStep DEF Waiting
<1>3. QED
  BY <1>1, <1>2, Inductive, PTL DEF Spec

\* Somebody's next statement waits for nobody, or its wait is ended.
SomeoneGoesOn == \E r \in Requests : CanGoOn(r)

\* A request that holds the budget can insert, or waits for the only deletions in
\* doubt; whoever made those goes on, unless it waits for this very budget, and
\* then the two are a circle.
LEMMA InsertGoesOn ==
  ASSUME IInv, Waiting, NEW r \in Requests, pc[r] = "insert"
  PROVE  SomeoneGoesOn
<1>1. CASE Clashes(r) = {} \/ Clashes(r) \ InDoubt(r) # {}
  BY <1>1 DEF SomeoneGoesOn, CanGoOn
<1>2. CASE Clashes(r) # {} /\ Clashes(r) \ InDoubt(r) = {}
  <2>1. PICK s \in Requests : Clashes(r) \cap deleted[s] # {}
    BY <1>2 DEF InDoubt
  <2>2. \A q \in Requests : Clashes(q) \cap deleted[q] = {}
    BY DEF Clashes, AddressRows, ChallengeRows, Visible
  <2>3. s # r /\ deleted[s] # {} /\ pc[s] \in Sweeping
    BY <2>1, <2>2 DEF Waiting, SweepOK
  <2>4. \A q \in Requests : deleted[q] # {} => q = s
    BY <2>3 DEF Waiting, OneSweep
  <2>5. \A q \in Requests : InDoubt(q) = Clashes(q) \cap deleted[s]
    BY <2>4 DEF InDoubt
  <2>6. CASE pc[s] = "insert"
    <3>1. InDoubt(s) = {}
      BY <2>2, <2>5
    <3>2. QED
      BY <2>6, <3>1 DEF SomeoneGoesOn, CanGoOn
  <2>7. CASE pc[s] = "budget"
    <3>1. CASE issued[day[s]] >= DailyLimit \/ holder[day[s]] = NoOne
      BY <2>7, <3>1 DEF SomeoneGoesOn, CanGoOn
    <3>2. CASE issued[day[s]] < DailyLimit /\ holder[day[s]] # NoOne
      <4> DEFINE t == holder[day[s]]
      <4>1. t \in Requests /\ pc[t] = "insert" /\ t # s
        BY <2>7, <3>2 DEF IInv, TypeOK, BudgetHeld
      <4>2. WaitsFor(s, t)
        BY <2>7, <3>2, <4>1 DEF WaitsFor
      <4>3. CASE Clashes(t) = {} \/ Clashes(t) \ InDoubt(t) # {}
        BY <4>1, <4>3 DEF SomeoneGoesOn, CanGoOn
      <4>4. CASE Clashes(t) # {} /\ Clashes(t) \ InDoubt(t) = {}
        <5>1. Clashes(t) \cap deleted[s] # {}
          BY <2>5, <4>1, <4>4
        <5>2. WaitsFor(t, s)
          BY <4>1, <4>4, <5>1 DEF WaitsFor
        <5>3. QED
          BY <4>1, <4>2, <5>2 DEF SomeoneGoesOn, CanGoOn
      <4>5. QED
        BY <4>3, <4>4
    <3>3. issued[day[s]] \in Int /\ DailyLimit \in Int
      BY LimitsAssumption DEF IInv, TypeOK
    <3>4. QED
      BY <3>1, <3>2, <3>3
  <2>8. CASE pc[s] \in {"readAddress", "readChallenge"}
    BY <2>8 DEF SomeoneGoesOn, CanGoOn
  <2>9. QED
    BY <2>3, <2>6, <2>7, <2>8 DEF Sweeping
<1>3. QED
  BY <1>1, <1>2

\* A request that waits for the day's budget waits for one that inserts.
LEMMA BudgetGoesOn ==
  ASSUME IInv, Waiting, NEW r \in Requests, pc[r] = "budget"
  PROVE  SomeoneGoesOn
<1>1. CASE holder[day[r]] = NoOne
  BY <1>1 DEF SomeoneGoesOn, CanGoOn
<1>2. CASE holder[day[r]] # NoOne
  <2>1. holder[day[r]] \in Requests /\ pc[holder[day[r]]] = "insert"
    BY <1>2 DEF IInv, TypeOK, BudgetHeld
  <2>2. QED
    BY <2>1, InsertGoesOn
<1>3. QED
  BY <1>1, <1>2

\* A request that waits to forget waits for one that reads, takes or inserts.
LEMMA ForgetGoesOn ==
  ASSUME IInv, Waiting, NEW r \in Requests, pc[r] = "forget"
  PROVE  SomeoneGoesOn
<1>1. CASE \A s \in Requests \ {r} : RowsBefore(day[r]) \cap deleted[s] = {}
  BY <1>1 DEF SomeoneGoesOn, CanGoOn
<1>2. ASSUME NEW s \in Requests, deleted[s] # {} PROVE SomeoneGoesOn
  <2>1. pc[s] \in Sweeping
    BY <1>2 DEF Waiting, SweepOK
  <2>2. CASE pc[s] \in {"readAddress", "readChallenge"}
    BY <2>2 DEF SomeoneGoesOn, CanGoOn
  <2>3. QED
    BY <2>1, <2>2, BudgetGoesOn, InsertGoesOn DEF Sweeping
<1>3. QED
  BY <1>1, <1>2

\* While a request is under way, one of those that are can go on: a chain of
\* waiting ends at a request that does not wait, or in a circle of two, which
\* Postgres breaks.
THEOREM SomeoneAlwaysGoesOn == Spec => []NobodyStuck
<1>1. IInv /\ Waiting => NobodyStuck
  <2> SUFFICES ASSUME IInv, Waiting, NEW r \in Requests, pc[r] \in Working
               PROVE  SomeoneGoesOn
    BY DEF NobodyStuck, SomeoneGoesOn
  <2>2. CASE pc[r] \in {"readAddress", "readChallenge", "reread", "open", "grant", "sent"}
    BY <2>2 DEF SomeoneGoesOn, CanGoOn
  <2>3. QED
    BY <2>2, ForgetGoesOn, BudgetGoesOn, InsertGoesOn DEF Working
<1>2. QED
  BY <1>1, Inductive, WaitingIsKept, PTL

-----------------------------------------------------------------------------
(* Nothing is done twice.                                                  *)

\* How far along its way a request is; the statements of reserve in their order.
Stage(at) ==
  CASE at = "idle"             -> 0
    [] at = "forget"           -> 1
    [] at = "readAddress"      -> 2
    [] at = "readChallenge"    -> 3
    [] at = "budget"           -> 4
    [] at = "insert"           -> 5
    [] at \in {"reread", "open"} -> 6
    [] at = "grant"            -> 7
    [] at = "sent"             -> 8
    [] OTHER                   -> 9

OnlyOn == \A r \in Requests : pc'[r] # pc[r] => Stage(pc[r]) < Stage(pc'[r])

\* The places in their order.
LEMMA Stages ==
  /\ Stage("idle") = 0 /\ Stage("forget") = 1 /\ Stage("readAddress") = 2
  /\ Stage("readChallenge") = 3 /\ Stage("budget") = 4 /\ Stage("insert") = 5
  /\ Stage("reread") = 6 /\ Stage("open") = 6
  /\ Stage("grant") = 7 /\ Stage("sent") = 8
  /\ \A at \in Answered : Stage(at) = 9
BY DEF Stage, Answered, Refused

\* The places before an answer.
LEMMA Before == \A at \in Working : Stage(at) < 9
BY Stages DEF Working

\* Going from one place to a later one is going on.
LEMMA GoingOn ==
  ASSUME IInv, NEW r \in Requests, NEW from, NEW to, Goto(r, from, to),
         Stage(from) < Stage(to)
  PROVE  OnlyOn
BY DEF OnlyOn, Goto, IInv, TypeOK

\* Every step of a request takes it to a later place.
LEMMA EveryStepGoesOn ==
  ASSUME IInv, [Next]_vars
  PROVE  OnlyOn
<1>1. ASSUME NEW r \in Requests, Start(r) PROVE OnlyOn
  <2> DEFINE to == IF Remembered(req[r].browser) THEN "TrialAlreadyTried"
                   ELSE IF ~Current(req[r].challenge) THEN "TrialChallengeInvalid"
                   ELSE "forget"
  <2>1. Goto(r, "idle", to)
    BY <1>1 DEF Start
  <2>2. to \in Answered \cup {"forget"}
    BY DEF Answered, Refused
  <2> HIDE DEF to
  <2>3. Stage("idle") < Stage(to)
    BY <2>2, Stages
  <2>4. QED
    BY <2>1, <2>3, GoingOn
<1>2. ASSUME NEW r \in Requests, Reread(r) PROVE OnlyOn
  <2> DEFINE to == IF AddressRows(r) # {} THEN "TrialAlreadyUsed"
                   ELSE "TrialChallengeInvalid"
  <2>1. Goto(r, "reread", to)
    BY <1>2 DEF Reread
  <2>2. to \in Answered
    BY DEF Answered, Refused
  <2> HIDE DEF to
  <2>3. Stage("reread") < Stage(to)
    BY <2>2, Stages
  <2>4. QED
    BY <2>1, <2>3, GoingOn
<1>3. ASSUME NEW r \in Requests, NEW to \in {"deadlocked", "crashed"},
             pc[r] \in Working, pc' = [pc EXCEPT ![r] = to]
      PROVE  OnlyOn
  <2>1. Goto(r, pc[r], to)
    BY <1>3 DEF Goto
  <2>2. Stage(pc[r]) < Stage(to)
    BY <1>3, Stages, Before DEF Answered, Refused
  <2>3. QED
    BY <2>1, <2>2, GoingOn
<1>4. ASSUME NEW r \in Requests, Deadlocked(r) PROVE OnlyOn
  BY <1>3, <1>4 DEF Deadlocked, WaitsFor, Working
<1>5. ASSUME NEW r \in Requests, Crash(r) PROVE OnlyOn
  BY <1>3, <1>5 DEF Crash
<1>6. ASSUME NEW c \in Challenges, Issue(c) \/ Lapse(c) PROVE OnlyOn
  BY <1>6 DEF Issue, Lapse, OnlyOn
<1>7. ASSUME Midnight \/ Purge \/ UNCHANGED vars PROVE OnlyOn
  BY <1>7 DEF Midnight, Purge, vars, OnlyOn
<1>8. ASSUME NEW r \in Requests, Forget(r) PROVE OnlyOn
  <2>1. Goto(r, "forget", "readAddress")
    BY <1>8 DEF Forget
  <2>2. Stage("forget") < Stage("readAddress")
    BY Stages DEF Answered, Refused
  <2>3. QED
    BY <2>1, <2>2, GoingOn
<1>9. ASSUME NEW r \in Requests, AddressFree(r) PROVE OnlyOn
  <2>1. Goto(r, "readAddress", "readChallenge")
    BY <1>9 DEF AddressFree
  <2>2. Stage("readAddress") < Stage("readChallenge")
    BY Stages DEF Answered, Refused
  <2>3. QED
    BY <2>1, <2>2, GoingOn
<1>10. ASSUME NEW r \in Requests, AddressUsed(r) PROVE OnlyOn
  <2>1. Goto(r, "readAddress", "TrialAlreadyUsed")
    BY <1>10 DEF AddressUsed
  <2>2. Stage("readAddress") < Stage("TrialAlreadyUsed")
    BY Stages DEF Answered, Refused
  <2>3. QED
    BY <2>1, <2>2, GoingOn
<1>11. ASSUME NEW r \in Requests, ChallengeFree(r) PROVE OnlyOn
  <2>1. Goto(r, "readChallenge", "budget")
    BY <1>11 DEF ChallengeFree
  <2>2. Stage("readChallenge") < Stage("budget")
    BY Stages DEF Answered, Refused
  <2>3. QED
    BY <2>1, <2>2, GoingOn
<1>12. ASSUME NEW r \in Requests, ChallengeUsed(r) PROVE OnlyOn
  <2>1. Goto(r, "readChallenge", "TrialChallengeInvalid")
    BY <1>12 DEF ChallengeUsed
  <2>2. Stage("readChallenge") < Stage("TrialChallengeInvalid")
    BY Stages DEF Answered, Refused
  <2>3. QED
    BY <2>1, <2>2, GoingOn
<1>13. ASSUME NEW r \in Requests, BudgetTaken(r) PROVE OnlyOn
  <2>1. Goto(r, "budget", "insert")
    BY <1>13 DEF BudgetTaken
  <2>2. Stage("budget") < Stage("insert")
    BY Stages DEF Answered, Refused
  <2>3. QED
    BY <2>1, <2>2, GoingOn
<1>14. ASSUME NEW r \in Requests, BudgetSpent(r) PROVE OnlyOn
  <2>1. Goto(r, "budget", "TrialBudgetExhausted")
    BY <1>14 DEF BudgetSpent
  <2>2. Stage("budget") < Stage("TrialBudgetExhausted")
    BY Stages DEF Answered, Refused
  <2>3. QED
    BY <2>1, <2>2, GoingOn
<1>15. ASSUME NEW r \in Requests, Reserved(r) PROVE OnlyOn
  <2>1. Goto(r, "insert", "open")
    BY <1>15 DEF Reserved
  <2>2. Stage("insert") < Stage("open")
    BY Stages DEF Answered, Refused
  <2>3. QED
    BY <2>1, <2>2, GoingOn
<1>16. ASSUME NEW r \in Requests, Clashed(r) PROVE OnlyOn
  <2>1. Goto(r, "insert", "reread")
    BY <1>16 DEF Clashed
  <2>2. Stage("insert") < Stage("reread")
    BY Stages DEF Answered, Refused
  <2>3. QED
    BY <2>1, <2>2, GoingOn
<1>17. ASSUME NEW r \in Requests, GuestFound(r) PROVE OnlyOn
  <2>1. Goto(r, "open", "grant")
    BY <1>17 DEF GuestFound
  <2>2. Stage("open") < Stage("grant")
    BY Stages DEF Answered, Refused
  <2>3. QED
    BY <2>1, <2>2, GoingOn
<1>21. ASSUME NEW r \in Requests, SendPair(r) PROVE OnlyOn
  <2>1. Goto(r, "grant", "sent")
    BY <1>21 DEF SendPair
  <2>2. Stage("grant") < Stage("sent")
    BY Stages DEF Answered, Refused
  <2>3. QED
    BY <2>1, <2>2, GoingOn
<1>22. ASSUME NEW r \in Requests, TrialOpened(r) PROVE OnlyOn
  <2>1. Goto(r, "sent", "opened")
    BY <1>22 DEF TrialOpened
  <2>2. Stage("sent") < Stage("opened")
    BY Stages DEF Answered, Refused
  <2>3. QED
    BY <2>1, <2>2, GoingOn
<1>23. QED
  BY <1>1, <1>2, <1>3, <1>4, <1>5, <1>6, <1>7, <1>8, <1>9, <1>10, <1>11, <1>12,
     <1>13, <1>14, <1>15, <1>16, <1>17, <1>21, <1>22 DEF Next, Step

\* A request only ever moves on, so it has at most nine steps in all: no statement
\* of it is run twice, whatever the others do, and an answer is final.
THEOREM NoStatementTwice == Spec => [][OnlyOn]_vars
<1>1. IInv /\ [Next]_vars => [OnlyOn]_vars
  BY EveryStepGoesOn
<1>2. QED
  BY <1>1, Inductive, PTL DEF Spec
==============================================================================
