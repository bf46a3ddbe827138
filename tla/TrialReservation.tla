--------------------------- MODULE TrialReservation ---------------------------
(***************************************************************************)
(* Opening a guest trial: start_trial and SQLTrialRepository.reserve, run  *)
(* by concurrent requests against one Postgres store at READ COMMITTED,    *)
(* while days pass, challenges run out, the nightly purge runs and         *)
(* processes crash.                                                        *)
(*                                                                         *)
(* A row of trial_requests is a <<day, address, challenge>>.  The address  *)
(* stands for its keyed hash: the key changes with the day, so hashes of   *)
(* two days are never equal, and every comparison of addresses here is     *)
(* within a day.  spent and issued hold what is COMMITTED; what an open    *)
(* transaction has done is seen by others only through the rows it has     *)
(* deleted and the budget row it holds, both of which make them wait.      *)
(***************************************************************************)
EXTENDS Integers, FiniteSets

CONSTANTS
  Requests,     \* requests for a trial, each at most once
  Addresses,    \* visitors' addresses, as normalised
  Challenges,   \* proof-of-work challenges
  Browsers,
  DailyLimit,   \* trial_daily_limit
  CookieDays,   \* trial_cookie_days
  MaxDay,       \* bounds the days that pass
  NoOne         \* no request

ASSUME RequestsAssumption == IsFiniteSet(Requests) /\ NoOne \notin Requests
ASSUME LimitsAssumption == DailyLimit \in Nat /\ CookieDays \in Nat /\ MaxDay \in Nat

VARIABLES
  today,        \* the UTC date
  born,         \* the day each challenge was issued, or Never
  past,         \* challenges past their expiry
  spent,        \* the rows of trial_requests
  issued,       \* trial_budget.issued of each day, 0 where no row is
  holder,       \* whose open transaction has updated the day's budget row
  cookie,       \* the date on each browser's trial cookie, or Never
  pc,           \* where each request is, or how it was answered
  req,          \* the address, challenge and browser of each request
  day,          \* the date of the `now` each request captured
  deleted,      \* the rows each open transaction has deleted
  reserved      \* history: the requests that reserved a trial

clock  == <<today, born, past>>
store  == <<spent, issued>>
vars   == <<today, born, past, spent, issued, holder, cookie, pc, req, day,
            deleted, reserved>>

Days    == 0..MaxDay
Never   == -1
Visit   == [address : Addresses, challenge : Challenges, browser : Browsers]
Rows    == Days \X Addresses \X Challenges

Working == {"forget", "readAddress", "readChallenge", "budget", "insert",
            "reread", "open", "grant", "sent"}
Refused == {"TrialAlreadyTried", "TrialChallengeInvalid", "TrialAlreadyUsed",
            "TrialBudgetExhausted", "deadlocked"}
Answered == Refused \cup {"opened", "crashed"}

TypeOK ==
  /\ today \in Days
  /\ born \in [Challenges -> Days \cup {Never}]
  /\ past \in SUBSET Challenges
  /\ spent \in SUBSET Rows
  /\ issued \in [Days -> 0..DailyLimit]
  /\ holder \in [Days -> Requests \cup {NoOne}]
  /\ cookie \in [Browsers -> Days \cup {Never}]
  /\ pc \in [Requests -> {"idle"} \cup Working \cup Answered]
  /\ req \in [Requests -> Visit]
  /\ day \in [Requests -> Days]
  /\ deleted \in [Requests -> SUBSET Rows]
  /\ reserved \in SUBSET Requests

Init ==
  /\ today = 0
  /\ born = [c \in Challenges |-> Never]
  /\ past = {}
  /\ spent = {}
  /\ issued = [d \in Days |-> 0]
  /\ holder = [d \in Days |-> NoOne]
  /\ cookie = [b \in Browsers |-> Never]
  /\ pc = [r \in Requests |-> "idle"]
  /\ req \in [Requests -> Visit]
  /\ day = [r \in Requests |-> 0]
  /\ deleted = [r \in Requests |-> {}]
  /\ reserved = {}

-----------------------------------------------------------------------------

Goto(r, from, to) == pc[r] = from /\ pc' = [pc EXCEPT ![r] = to]

\* cookie.remembers, of a cookie that is really signed.
Remembered(b) ==
  /\ cookie[b] # Never
  /\ today - CookieDays < cookie[b]
  /\ cookie[b] <= today

\* verify_solution, of a solution that is really solved.
Current(c) == born[c] # Never /\ c \notin past

DayOf(row)       == row[1]
AddressOf(row)   == row[2]
ChallengeOf(row) == row[3]

Row(r)          == <<day[r], req[r].address, req[r].challenge>>
RowsBefore(d)   == {row \in spent : DayOf(row) < d}
Visible(r)      == spent \ deleted[r]
AddressRows(r)  == {row \in Visible(r) : DayOf(row) = day[r]
                                         /\ AddressOf(row) = req[r].address}
ChallengeRows(r) == {row \in Visible(r) : ChallengeOf(row) = req[r].challenge}

\* The rows that either unique constraint sets against r's own.
Clashes(r) == AddressRows(r) \cup ChallengeRows(r)
\* Those of them whose deletion is in doubt: r waits to see how it ends.
InDoubt(r) == Clashes(r) \cap UNION {deleted[s] : s \in Requests}

\* A transaction ends: its deletions are over, and so is its hold on a budget.
LetGo(r) == deleted' = [deleted EXCEPT ![r] = {}]
Release(r) == holder' = [d \in Days |-> IF holder[d] = r THEN NoOne ELSE holder[d]]

-----------------------------------------------------------------------------
(* start_trial up to the store: the cookie, then the proof of work.        *)

Start(r) ==
  /\ Goto(r, "idle", IF Remembered(req[r].browser)        THEN "TrialAlreadyTried"
                     ELSE IF ~Current(req[r].challenge)   THEN "TrialChallengeInvalid"
                     ELSE "forget")
  /\ day' = [day EXCEPT ![r] = today]
  /\ UNCHANGED <<clock, store, holder, cookie, req, deleted, reserved>>

-----------------------------------------------------------------------------
(* reserve, one statement at a time.                                       *)

\* Mutant: today's rows go with the earlier ones.
ForgetToday(r) ==
  /\ \A s \in Requests \ {r} : RowsBefore(day[r] + 1) \cap deleted[s] = {}
  /\ Goto(r, "forget", "readAddress")
  /\ deleted' = [deleted EXCEPT ![r] = RowsBefore(day[r] + 1)]
  /\ UNCHANGED <<clock, store, holder, cookie, req, day, reserved>>

\* DELETE of the earlier days.  Rows another transaction is deleting are
\* waited for.
Forget(r) ==
  /\ \A s \in Requests \ {r} : RowsBefore(day[r]) \cap deleted[s] = {}
  /\ Goto(r, "forget", "readAddress")
  /\ deleted' = [deleted EXCEPT ![r] = RowsBefore(day[r])]
  /\ UNCHANGED <<clock, store, holder, cookie, req, day, reserved>>

AddressFree(r) ==
  /\ AddressRows(r) = {}
  /\ Goto(r, "readAddress", "readChallenge")
  /\ UNCHANGED <<clock, store, holder, cookie, req, day, deleted, reserved>>

AddressUsed(r) ==
  /\ AddressRows(r) # {}
  /\ Goto(r, "readAddress", "TrialAlreadyUsed")
  /\ LetGo(r)
  /\ UNCHANGED <<clock, store, holder, cookie, req, day, reserved>>

ChallengeFree(r) ==
  /\ ChallengeRows(r) = {}
  /\ Goto(r, "readChallenge", "budget")
  /\ UNCHANGED <<clock, store, holder, cookie, req, day, deleted, reserved>>

ChallengeUsed(r) ==
  /\ ChallengeRows(r) # {}
  /\ Goto(r, "readChallenge", "TrialChallengeInvalid")
  /\ LetGo(r)
  /\ UNCHANGED <<clock, store, holder, cookie, req, day, reserved>>

\* Mutant: the limit is not in the UPDATE's WHERE clause.
BudgetTakenUncapped(r) ==
  /\ holder[day[r]] = NoOne
  /\ Goto(r, "budget", "insert")
  /\ holder' = [holder EXCEPT ![day[r]] = r]
  /\ UNCHANGED <<clock, store, cookie, req, day, deleted, reserved>>

\* The day's row is created or found, and the UPDATE takes its lock.  Whoever
\* holds it is waited for, and the limit looked at again.
BudgetTaken(r) ==
  /\ issued[day[r]] < DailyLimit
  /\ holder[day[r]] = NoOne
  /\ Goto(r, "budget", "insert")
  /\ holder' = [holder EXCEPT ![day[r]] = r]
  /\ UNCHANGED <<clock, store, cookie, req, day, deleted, reserved>>

BudgetSpent(r) ==
  /\ issued[day[r]] >= DailyLimit
  /\ Goto(r, "budget", "TrialBudgetExhausted")
  /\ LetGo(r)
  /\ UNCHANGED <<clock, store, holder, cookie, req, day, reserved>>

\* Mutant: no unique constraint stands behind the reads.
ReservedUnchecked(r) ==
  /\ Goto(r, "insert", "open")
  /\ spent' = Visible(r) \cup {Row(r)}
  /\ issued' = [issued EXCEPT ![day[r]] = @ + 1]
  /\ reserved' = reserved \cup {r}
  /\ Release(r) /\ LetGo(r)
  /\ UNCHANGED <<clock, cookie, req, day>>

\* Mutant: the row is flushed, and its commit left to a session nobody ends.
ReservedUncommitted(r) ==
  /\ Clashes(r) = {}
  /\ Goto(r, "insert", "open")
  /\ UNCHANGED <<clock, store, holder, cookie, req, day, deleted, reserved>>

\* The row is flushed past both unique constraints, and all of it committed:
\* the deletions, the budget and the row.
Reserved(r) ==
  /\ Clashes(r) = {}
  /\ Goto(r, "insert", "open")
  /\ spent' = Visible(r) \cup {Row(r)}
  /\ issued' = [issued EXCEPT ![day[r]] = @ + 1]
  /\ reserved' = reserved \cup {r}
  /\ Release(r) /\ LetGo(r)
  /\ UNCHANGED <<clock, cookie, req, day>>

\* Mutant: the increment is committed before the row is tried.
ClashedButKept(r) ==
  /\ Clashes(r) \ InDoubt(r) # {}
  /\ Goto(r, "insert", "reread")
  /\ issued' = [issued EXCEPT ![day[r]] = @ + 1]
  /\ Release(r) /\ LetGo(r)
  /\ UNCHANGED <<clock, spent, cookie, req, day, reserved>>

\* A twin was first.  The rollback takes back everything, budget and deletions.
Clashed(r) ==
  /\ Clashes(r) \ InDoubt(r) # {}
  /\ Goto(r, "insert", "reread")
  /\ Release(r) /\ LetGo(r)
  /\ UNCHANGED <<clock, store, cookie, req, day, reserved>>

\* Mutant: every lost race is put down to the address.
RereadAsAddress(r) ==
  /\ Goto(r, "reread", "TrialAlreadyUsed")
  /\ UNCHANGED <<clock, store, holder, cookie, req, day, deleted, reserved>>

\* _exists_after_rollback: which constraint was it?
Reread(r) ==
  /\ Goto(r, "reread", IF AddressRows(r) # {} THEN "TrialAlreadyUsed"
                       ELSE "TrialChallengeInvalid")
  /\ UNCHANGED <<clock, store, holder, cookie, req, day, deleted, reserved>>

\* Whose transaction r's next statement waits for.
WaitsFor(r, s) ==
  /\ s # r
  /\ \/ pc[r] = "forget" /\ RowsBefore(day[r]) \cap deleted[s] # {}
     \/ pc[r] = "budget" /\ issued[day[r]] < DailyLimit /\ holder[day[r]] = s
     \/ pc[r] = "insert" /\ Clashes(r) \ InDoubt(r) = {} /\ Clashes(r) \cap deleted[s] # {}

\* Postgres ends a transaction that waits in a circle; the request fails.
Deadlocked(r) ==
  /\ \E s \in Requests : WaitsFor(r, s) /\ WaitsFor(s, r)
  /\ pc' = [pc EXCEPT ![r] = "deadlocked"]
  /\ Release(r) /\ LetGo(r)
  /\ UNCHANGED <<clock, store, cookie, req, day, reserved>>

-----------------------------------------------------------------------------
(* After the reservation: the trial's user, the grant and its session, in  *)
(* a transaction that commits only once the response, with the new cookie, *)
(* has been sent.                                                          *)

\* get_by_name: a migration stored the trials' user before the service started.
GuestFound(r) ==
  /\ Goto(r, "open", "grant")
  /\ UNCHANGED <<clock, store, holder, cookie, req, day, deleted, reserved>>

SendPair(r) ==
  /\ Goto(r, "grant", "sent")
  /\ \/ cookie' = [cookie EXCEPT ![req[r].browser] = today]
     \/ cookie' = cookie             \* the response is lost
  /\ UNCHANGED <<clock, store, holder, req, day, deleted, reserved>>

TrialOpened(r) ==
  /\ Goto(r, "sent", "opened")
  /\ UNCHANGED <<clock, store, holder, cookie, req, day, deleted, reserved>>

Step(r) ==
  \/ Forget(r)
  \/ AddressFree(r) \/ AddressUsed(r)
  \/ ChallengeFree(r) \/ ChallengeUsed(r)
  \/ BudgetTaken(r) \/ BudgetSpent(r)
  \/ Reserved(r) \/ Clashed(r) \/ Reread(r) \/ Deadlocked(r)
  \/ GuestFound(r) \/ SendPair(r) \/ TrialOpened(r)

-----------------------------------------------------------------------------
(* Challenges, days, the purge and crashes.                                *)

\* The challenge endpoint: refused to a browser that has had a trial.
Issue(c) ==
  /\ born[c] = Never
  /\ \E b \in Browsers : ~Remembered(b)
  /\ born' = [born EXCEPT ![c] = today]
  /\ UNCHANGED <<today, past, store, holder, cookie, pc, req, day, deleted, reserved>>

\* CHALLENGE_TTL_SECONDS pass.
Lapse(c) ==
  /\ Current(c)
  /\ past' = past \cup {c}
  /\ UNCHANGED <<today, born, store, holder, cookie, pc, req, day, deleted, reserved>>

\* A challenge outlives one midnight at most, and so does a request.
Midnight ==
  /\ today < MaxDay
  /\ \A c \in Challenges : Current(c) => born[c] = today
  /\ \A r \in Requests : pc[r] \in Working => day[r] = today
  /\ today' = today + 1
  /\ UNCHANGED <<born, past, store, holder, cookie, pc, req, day, deleted, reserved>>

\* purge-trial-requests.sh.
Purge ==
  /\ RowsBefore(today) # {}
  /\ \A s \in Requests : RowsBefore(today) \cap deleted[s] = {}
  /\ spent' = spent \ RowsBefore(today)
  /\ UNCHANGED <<clock, issued, holder, cookie, pc, req, day, deleted, reserved>>

\* A crash after Reserved burns the reservation; before it, nothing is kept.
Crash(r) ==
  /\ pc[r] \in Working
  /\ pc' = [pc EXCEPT ![r] = "crashed"]
  /\ Release(r) /\ LetGo(r)
  /\ UNCHANGED <<clock, store, cookie, req, day, reserved>>

Next ==
  \/ \E r \in Requests : Start(r) \/ Step(r) \/ Crash(r)
  \/ \E c \in Challenges : Issue(c) \/ Lapse(c)
  \/ Midnight \/ Purge

Spec == Init /\ [][Next]_vars

-----------------------------------------------------------------------------
(* What the trial store promises.                                          *)

ReservedOn(d) == {r \in reserved : day[r] = d}

\* A day's counter is the number of trials reserved on it, within the limit: a
\* lost race, a refusal or a crash never leaves an increment behind, and every
\* reservation keeps its own (trial.py:45-56, 61-69).
BudgetBalances ==
  \A d \in Days : /\ issued[d] = Cardinality(ReservedOn(d))
                  /\ issued[d] <= DailyLimit

\* While the day lasts, its rows are exactly the trials reserved on it, and no
\* two of them share an address or a challenge (trial.py:33-36, 61-69).
OnePerDay ==
  /\ {row \in spent : DayOf(row) = today} = {Row(r) : r \in ReservedOn(today)}
  /\ \A r, s \in ReservedOn(today) :
       (req[r].address = req[s].address \/ req[r].challenge = req[s].challenge) => r = s

\* A visitor is told that the address has had today's trial only if it has,
\* and that the day's trials are gone only if they are: never on the strength
\* of a twin that was then rolled back (trial.py:33-36, 55-56, 62-69).
RefusalIsTrue ==
  \A r \in Requests :
    /\ pc[r] = "TrialAlreadyUsed" =>
         \E s \in ReservedOn(day[r]) \ {r} : req[s].address = req[r].address
    /\ pc[r] = "TrialBudgetExhausted" => issued[day[r]] = DailyLimit

\* Nothing forgets a row before its day is over, whichever day the request
\* that does the forgetting captured (trial.py:24-28).
KeptForItsDay ==
  [][\A row \in spent \ spent' : DayOf(row) < today]_vars

\* The guards of r's actions: its next statement waits for nobody, or r waits in
\* a circle and is ended.
CanGoOn(r) ==
  \/ pc[r] \in {"readAddress", "readChallenge", "reread", "open", "grant", "sent"}
  \/ pc[r] = "forget" /\ \A s \in Requests \ {r} : RowsBefore(day[r]) \cap deleted[s] = {}
  \/ pc[r] = "budget" /\ (issued[day[r]] >= DailyLimit \/ holder[day[r]] = NoOne)
  \/ pc[r] = "insert" /\ (Clashes(r) = {} \/ Clashes(r) \ InDoubt(r) # {})
  \/ \E s \in Requests : WaitsFor(r, s) /\ WaitsFor(s, r)

\* While a request is under way, one of those that are can go on: they wait for
\* a budget, for a deletion and so for each other, and no circle of them is left
\* standing.  No statement is run twice, so every
\* request is answered in the end or its process dies (trial.py:28, 48, 61-64).
NobodyStuck ==
  (\E r \in Requests : pc[r] \in Working) => \E r \in Requests : CanGoOn(r)

\* base.py:219-222: "One decision, made by the store so that no race can break
\* it: at most one trial per address per day, one per challenge".
OneTrialPerChallenge ==
  \A r, s \in reserved : req[r].challenge = req[s].challenge => r = s
=============================================================================
