# A verification project for workchat

workchat is a chat about a CV. A hirer is given a link that is worth a number of
questions; a visitor with no link may open a small trial. The backend is FastAPI
over Postgres, the client a Next.js page that can also be embedded, and a handful
of scripts run from cron on the host. What can go wrong in it is what can go wrong
between requests: every rule that matters is held by one SQL statement or one
unique constraint, and everything around that statement may interleave.

This directory holds TLA+ modules that model those parts, TLC configurations that
check them on small instances, and proofs that TLAPS checks for all instances.

    tlc -config QuestionSpend_race.cfg MCQuestionSpend.tla      check a run
    tlapm QuestionSpend_proofs.tla                              check the proofs

## 1. Inventory

Paths are relative to `src/`; `app` stands for `backend/app`.

| component | state | operations | correct means |
|---|---|---|---|
| **Question spend** `app/repositories/sql/token.py` | `tokens.used_queries`, `revoked_at`, `expires_at`; `question_keys` | `spend_question`, `_retry`, `revoke`; key purge | a question is charged once however it is raced; a retry is free, capped, tied to its question, and refused truthfully |
| **Refresh sessions** `app/services/auth`, `app/repositories/sql/refresh_session.py` | `refresh_tokens` rows chained by `rotated_to`; `tokens.claimed_at`, `owner_notified_at` | claim, refresh, live-session check, kill switch; session purge | one live session per grant; dead tokens buy nothing; a replay cuts, a client racing itself does not |
| **Guest trial** `app/services/trial`, `app/repositories/sql/trial.py`, `user.py` | `trial_requests`, `trial_budget`; a signed cookie; stateless challenges | challenge, start_trial, reserve; trial purge | one trial per address per day, one per challenge, a ceiling per day; hashes go with their day |
| **Request scope** `app/common/db.py` | one session and transaction per request | commit on success, rollback on failure | the commit follows the response; explicit commits are durable before it |
| **Chat turn** `app/services/chat` | locals of one generator | rounds, tools, signing, recording, failure frames | ends after at most MAX_TOOL_ROUNDS and one round; always recorded; a retry recorded once |
| **Transcript and retention** `app/repositories/sql/transcript.py`, `conversation.py`, `scripts/purge-chat-content.sh` | `conversations`, `chat_messages`, the key's `conversation_id` | record_question, record_reply, redact | counts equal rows; nothing readable after redaction |
| **Client session** `frontend/src/hooks/useSession.ts` | access token in memory, refresh cookie shared by tabs | open, refresh (single flight), resend on 401, trial | a race between tabs does not cost the hirer the session; the cookie kept is the newest |
| **Client chat** `frontend/src/hooks/useChat.ts`, `lib/transcript.ts`, `services/chat.service.ts` | transcript, usage, memory, failed question and its key, `sessionStorage` | ask, retry, stream callbacks, render, reload | one turn at a time; a retry keeps its key; the composer is shut only when nothing is left, and opens again; nothing read is lost |
| **Issuing links** `app/services/admin.py` | `users`, `tokens` | issue, revoke | one user per company |
| **Search and tools** `app/services/search.py`, `indexing.py`, `chat/tooling.py` | the records read once at startup, tool clients | word search and tag filter, tool dispatch | ranking; unknown tools answered |
| **HTTP surface, configuration, logging; interface; embed; migrations; deployment** | none of their own | wiring, parsing, rendering, I/O | out of scope |

How they interact. A question goes client chat → client session (which adds the
access token) → `_require_live_session` (refresh sessions) → `spend_question`
(question spend) → chat turn → transcript store. A 401 on the way sends the client
session to `/refresh`. A trial ends in the same pair of tokens that a claim does.
All requests share the store and nothing else: there are no in-process locks, so
the order of their statements is limited only by Postgres.

What is hard here: READ COMMITTED interleavings of multi-statement operations;
unique constraints as race arbiters with rollbacks that must hand everything back;
reads made before a write and used after it; a commit that follows the response;
crashes between two transactions of one operation; a purge or a date change under
a request in flight; retries and answers lost on the way. `PROJECT.json` lists each
hazard at its line with the properties that watch it.

## 2. The modules

The modules about the store treat it the same way. State variables hold what is
**committed**. A statement is an action, together with the Python up to the next
await. What an open transaction has done is visible to others only as what makes
them wait: a row lock, a deletion in doubt. A statement that waits is an action
whose guard is false. An `UPDATE` whose `WHERE` fails on the committed row does not
wait, and one that waited looks again, which is what READ COMMITTED does. `now`
captured once and used by later statements is a Boolean or a date captured in the
action that reads the clock. A crash can take any request at any point, and loses
exactly what it had not committed.

### QuestionSpend

`spend_question` and `_retry`, statement by statement: the key lookup
(`KeyFound`, `KeyAbsent`), the charging `UPDATE` (`SpendTaken`, `SpendMissed`), the
insertion of the key and the commit (`SpendCommitted`), the twin that loses on the
primary key (`SpendConflicted`), the retry's reread, its grant check and its attempt
(`Reread`, `CheckGrant`, `AttemptTaken`, `AttemptRefused`). Beside them: the kill
switch, the clock, the nightly purge and crashes. Reads of a grant's validity are
one operator, `Refusal`, as they are one method in the code. An unknown grant and a
bad signature are left out: they change nothing.

### SessionRows, and RefreshSessions that implements it

`SessionRows` is what the session store promises whoever holds its tokens, one
committed change at a time: a session is opened only on a grant that has none live, a
rotation hands the live one on to one successor, and sessions are cut only on a revoked
grant or because of a token rotated longer ago than the grace window. It stands between
two modules. `RefreshSessions` implements it with concurrent transactions
(`ImplementsStore`); `ClientSession` takes it as its server. In `RefreshSessions`:

The one-shot claim, rotation with its grace window, the cut that answers a replay,
the owner's message, the access token's live check, and the operator's kill switch.
A session is `none`, `live`, `rotated` or `cut`, which is what `revoked_at` and
`rotated_to` say together. `revoke_all_for_grant` is two actions because the rows
an `UPDATE` acts on are those it saw when it began. `open_session` is two because
its transaction commits after the response. Token signatures and hashes are
abstracted to "a token names the session it was minted with"; anyone may present
any token that was ever sent. `SessionExpires` and `GrantLapses` keep the order
that `_clamped_exp` guarantees. `PurgeSession` deletes one expired row at a time,
in any order, where the script deletes them all in one statement and a successor never
expires before the row it follows: the half-purged chains it leaves are more than the
code can reach, and what is checked over them covers what it can.

### TrialReservation

`start_trial` and `reserve`: the cookie and proof of work, the DELETE of earlier
days, the two reads, the budget, the insertion under two unique constraints, and
the grant that is opened after the reservation is durable. Days pass, challenges
are issued and lapse, the purge runs, and Postgres breaks waits in a circle
(`Deadlocked`; only circles of two arise, as `NobodyStuck` confirms). The user that all
trials belong to is there before the service starts, because migration `b7e3d9a1c2f4`
adds it so that first trials cannot race for its name; looking it up is one statement
(`GuestFound`). Addresses stand for their keyed hashes
and are compared within a day only, because the key is the day's. A waiting DELETE
is one action, so rows added while it waits are deleted too, where Postgres would
leave them for the next request.

### Turn, and the contract it keeps

`TurnContract` is what one turn promises whoever looks at it from outside: the model is
asked nothing before recording the question was tried, one reply at most is recorded and
only where there is a conversation, and the status it is recorded with and the last
frame agree. `Turn` is the chain of generators that keeps it: `answer` (the question,
the frames), `run_turn` (rounds of model calls and tools, the cap, the last call without
tools), `recorded` (the second accumulation of the reply, the write in a `finally`).
`pc` says where the chain is suspended. A fragment of text is a number, a tool call is
named by its round and its index and is whole or not, a message is its role, whether it
asks for tools, and the set of calls it makes or answers; texts and arguments are left
out. A message whose calls were all dropped still asks, with an empty list. The row of a
reply is what `record_reply` makes of it (`ReplyRow`): cut at `MaxStored` fragments,
which stand for `MAX_CONTENT_CHARS`, with its full length and whether it was cut. A
hang-up arrives as `GeneratorExit` at a yield or `CancelledError` at an await; both mark
the turn aborted. The recorder's own write may be cancelled again, and is then lost
(`HangUpLate`). The store is seen as a write that commits or does not. `KeepsContract`
is the refinement, mapping `pc` and the recorder's status to the contract's stage.

### Transcript

`record_question` and `record_reply` for concurrent turns, against the conversation's
row lock that `_bump` takes; the note on the key that leads a retry to the earlier
conversation; the operator's redaction and the two statements of the nightly script.
Between its question and its end each request does what `TurnContract` allows and no
more, and `TurnsKeepContract` says that it still does with everybody else's writes in
between, so the two modules meet in the contract: `Turn` shows that the code in one
request keeps it, `Transcript` what the store is worth when several do. A client's
conversation id counts as none unless the history it came with was signed
(`history.verify`), so `Admit` chooses any conversation or none. `Ask` takes its two
row locks, the conversation's and the key's, in one step. Keys are purged, and the
retention window passes, only while no turn is under way: the one takes a day, the
other thirty, and a turn takes minutes.

### ClientSession

`useSession` in the tabs of one browser, over `authService`. A call is *out* until the
server answers it at one moment (`Serve`, `ServeFetch`), or it fails on the way, and
*back* until the page takes the answer; the cookie changes when the page takes it
(`TakePair`), so answers reach the tabs in any order and may overwrite each other.
`authFetch` is `FetchSent` … `FetchReturns`; the shared refresh is one call per tab with
the fetches that wait for it (`Waiting`), answered together by `Refreshed` or
`NotRefreshed`; `RefreshAgain` is the retry on 409, with whatever cookie there is then.
Opening is the effect that runs once: `Opening` chooses between the claim in the address
and the cookie. Its cleanup sets `cancelled`, which makes the first run drop its answer,
while the second run returns at once because `opened.current` is set: `AnswerDropped` is
an answer that comes back after that, which leaves its cookie and nothing else, and
`dropped` the tabs where it happened. A page that is reloaded leaves its calls behind:
they may still reach the server, and their cookie may still be kept (`ghosts`). A
claim's or a trial's row is committed after its pair was sent (`Commit`), so a page can
use a pair the store does not have. An access token is named by its session and dies
with it or by age.

`trouble` is a history variable: whether something went wrong outside the client's
code, and whether a pair was lost by it. The properties are stated against it, because
the code promises different things with and without. `GraceEnds` carries one assumption
about time: a call, and the answer to it, take less than the 30 seconds of the grace
window. A tab with a v1 link has nothing to refresh and is left out, and so is the
question whether a trial is offered: any tab without a session may ask for one, and
may be refused.

### ClientChat

`useChat`, `useUsage`, `useConversationMemory`, the transcript reducer and
`chatService`'s loop, for one hirer. An attempt is one call of `runTurn`; a key is named
by the attempt that made it. The reducer's cases are operators on the last bubble
(`Opened`, `Spoken`, `Completed`, `Failed`, `Reopened`, all through `MapLast`), used by
the actions that dispatch them. `ReadDone`, `ReadError`, `ReadEnd`, `Broken` and the two
refusals are the ways a stream is read and ends. An attempt that the page gives up
before the response began may still reach the server (`GivenUp`), as one left behind by
a reload may. React's closures are the point of `view`: a handler sees what the last
render saw (`loading`, `failed`, the allowance, the history), while the `inFlight` ref
is read as it is; `Render` moves the one to the other and is where the conversation is
stored (`Save`), unless the browser's storage throws, which `saveConversation` swallows
(`SaveFails`, remembered in the history variable `unsaved`). A reload is taken to find
what was last saved. React renders before the next answer from the network is handled,
but two clicks may share a render. The server is what `QuestionSpend` promises, a key
charged once, with another tab spending from the same grant. Texts, progress codes and
the greeting are left out; a history is the questions it holds, a transcript its
bubbles, and a bubble's text is which attempts have spoken in it. `answered` keeps the
bubbles that have been on the screen complete, as they were.

## 3. What the runs show

Every property has a mutant, a change to one definition of the kind a slip in the
code would be, defined in the module above its original and marked `Mutant:`; under
it the run finds the property violated.

| run | bounds | shows |
|---|---|---|
| `QuestionSpend_race` | 3 requests, 1 grant with 2 questions, 2 keys, 2 messages, 2 attempts, bearers of both versions | the ledger balances, a key buys one question, answers are true, a held row is let go, with revocation, expiry, purge and crashes |
| `QuestionSpend_twins` | | *violation*, see 4 |
| `RefreshSessions_races` | 3 requests, 3 sessions, 1 grant | one live session, a linear chain, dead tokens buy nothing, one message per window; the transactions implement `SessionRows` |
| `RefreshSessions_replay` | 3 requests, 3 sessions | *violation*, see 4 |
| `TrialReservation_day` | 3 requests, 2 addresses, 2 challenges, 1 midnight, limit 2 | budget and rows are exactly the trials reserved; true refusals; nothing is forgotten early; whoever waits gets on, deadlock included |
| `TrialReservation_reuse` | | *violation*, see 4 |
| `Turn_rounds` | a cap of 2, 1 fragment and 2 calls in a model call, 2 fragments in a row | tools are paired, counted and bounded, one reply, cut in its row and flagged, the hirer is told and the status is true; the contract is kept; every turn ends |
| `Transcript_race` | 2 requests, 3 questions of 2 grants, 2 conversations | counts are rows, nobody writes in another grant's thread, a reply is where its question is, each turn keeps its contract |
| `Transcript_twice` | the same | *violation*, see 4 |
| `ClientSession_tabs` | 2 tabs, 2 calls in one of them, a link with 3 sessions and a trial with 1, 1 reload | the cookie at rest is good, only a lost answer leads to a cut, a tab alone stays in, nobody waits for nothing but a tab whose claim changed |
| `ClientSession_again` | 1 call in each tab, no reload | *violation*, see 4 |
| `ClientChat_turns` | 2 questions, 3 attempts, an allowance of 2, 2 calls to `/session` and answers to them under way at a time, 1 reload | paid once, bubbles are their own turn's, the composer is never shut early and always reopens, an answer read stays as it was |

Why the bounds are enough. Every conflict in this code is between two transactions over
one row or one unique value; a third request is what makes the outcome of such a
conflict visible to somebody else (an attempt cap, a replay during a rotation, the new
day's first visitor). In the transcript two requests suffice: its one lock is taken in
one statement, and nothing a third could see depends on who else waits. Its questions
and conversations come in the shapes that matter: one question twice, two questions of
one grant, questions of two grants. A turn with a cap of two has a first round, a round
after tools, and the round past the cap; two calls let one be whole and its neighbour
not; its three rounds may speak three fragments, one more than a row holds. Elsewhere
three requests, one contended row of each kind and one spare give each of these. One
midnight is enough because neither a challenge nor a request outlives two. Two tabs are
what it takes to share a cookie, and two calls in one of them to share a refresh; three
sessions are one to rotate, one to rotate to, and one that a stale tab rotates to next;
the trial's session is the second grant that can take the cookie over. Three attempts
are two questions and a retry, or one question retried twice. Requests come once each,
which bounds the model, and so the system may stop: deadlock is not checked in any run,
and `HeldRowIsLetGo`, `NobodyStuck`, `NobodyLeftWaiting` and `TurnEnds` are what shows
that nobody is stuck.

Symmetry is used only where no liveness property is checked, over sets whose members
are compared for equality alone.

Fairness. `WF_vars(Server)` for a turn (`Turn`): the event loop resumes it, and the
clients of the model and of the store time out. A model that never stops streaming is
bounded by `MaxTokens` and `MaxCalls`, as the provider bounds it by its token limit.
Hang-ups and crashes are not fair. In `ClientChat`, `WF_vars(Render)`, because React
renders what was dispatched, and `WF_vars` of each attempt's `Reads`: a request is
answered or broken off, because the browser, Caddy or the server gives up on it. Clicks,
the other tab, allowances and reloads are not fair. The store's modules need none:
that a waiting request gets on is an invariant there (`HeldRowIsLetGo`, `NobodyStuck`,
and what section 5 proves as `NobodyDeadlocks`), because no request runs a statement
twice, which is a theorem about each of them (`NoStatementTwice`).

## 4. Where the code and its documents disagree

Each of the five is a run with `expect: violation`; the trace TLC prints is the evidence.
What else was met follows them.

1. **The twin of the last question** (`QuestionSpend_twins`). Two requests with one
   key read it absent; the first spends the last question; the second's `UPDATE`
   finds no allowance and is told the quota is exhausted, though its question is
   paid. `repositories/base.py:147-150` says an allowance at zero does not refuse a
   question already paid for. A later retry is served.
2. **A replay during a rotation** (`RefreshSessions_replay`). The cut's `UPDATE`
   begins before a rotation commits, so the rotation's successor is not among its
   rows and stays live. `base.py:266-267` says every session on the grant is cut.
3. **A challenge across midnight** (`TrialReservation_reuse`). The day's rows are
   deleted with the challenges they name, which are good for 300 seconds whatever
   the date. `base.py:221-222` and `pow.py:14-15` say one solution opens one trial.

4. **A retry in the opening window** (`Transcript_twice`). The conversation is noted on
   the key in a transaction of its own, after the spend has committed and the stream
   has opened. A retry counted in between finds no conversation on its key and records
   the question again, in a second conversation. `common/schemas.py:205-207` says a
   retry neither stores it twice nor opens a second conversation.
5. **The retry on 409** (`ClientSession_again`). A tab whose refresh is answered 409
   sends it again at once. The rotation that won has committed, but the answer with its
   cookie may still be on its way to the other tab; the retry then presents the same
   token, is answered 409 again, and the tab is told that its session is spent though
   the browser is about to hold a good cookie. `useSession.ts:148-149` says that the
   winning tab "has already written the successor to the shared cookie jar, so one retry
   picks it up". A reload resumes.

In the third, the same deletion lets a request that straddles midnight, and reads the
store after a new day's request has committed, reserve a second trial of the old day for
its address. `OnePerDay` is therefore a statement about the current day.

Met in the models of the client, and stated as no property because no document denies
them: a page that changes the embed's `claim` attribute while its session is
being opened (`frontend/embed/src/element.tsx:120-142`, and StrictMode's second run in
development) leaves the tab loading until it is reloaded, because the first run of the
effect drops its answer and the second returns (`useSession.ts:207-214, 228, 259-261`);
the effect that opens a session treats every 409 as a spent link, a refresh's
included, and does not retry it; a second sending that fails on the network marks a
good session spent; a pair used before its row is committed is answered 401, whose
refresh is refused, and the tab is told its session is spent; a cookie that another
link's tab has overwritten changes a tab's grant at its next refresh, and its
conversation is then stored under the new one; a read that fails after the `done` frame
turns an answer that was on the screen into an error with a retry, and the history then
holds the question twice; what was answered since a save that failed is gone after a
reload; a question sent between the `done` frame and the end of the stream is dropped
without a word; an allowance that arrives late may show more than is left. In the turn,
a message whose calls were all dropped is sent with an empty `tool_calls` list
(`turn.py:234-242`); whether the provider takes it is not this code's to say.

**Two devices.** `OneLiveSession`, and `Open` in `SessionRows`, hold against the
repository's own words. `common/schemas.py:79-81`, `common/models/session.py:13-14` and
`docs/database.md:24` say that a hirer who opens the link on a laptop and on a phone has
two sessions, each rotating independently. They cannot: the claim is exchanged once, by
the `UPDATE` that matches only while `claimed_at` is null, and the second device is
answered 409 and its hirer sent for a new link, which is what `common/schemas.py:58-62`
says. The code agrees with the second text and so do the properties;
`RefreshSessions_races` refutes the first.

## 5. What is proved

`QuestionSpend_proofs` proves, for any finite set of requests, any grants, keys,
messages, versions, allowances and attempt cap, that `Spec` implies each of `TypeOK`,
`LedgerBalances`, `ChargeIsOneNewQuestion`, `OneMessagePerKey`, `RetryRefusalIsTrue`,
`DeadGrantServesNobody`, `QuotaRefusalIsTrue`, `QuestionPaidOnce` and `AttemptsCounted`,
and so of what the run checks as `KeyBuysOneQuestion` and `AnswersAreTrue`, and of
`HeldRowIsLetGo`. The assumptions are the four named ones of the module: requests are
finitely many, the "nobody" and "no message" values are not members of their sets,
allowances are naturals, and the attempt cap is positive.

The argument rests on one invariant, of which the run states the half that
`HeldRowIsLetGo` is, `LockOK`: a grant's row is held by exactly the request that is
between its `UPDATE` and its commit, and while it is held the grant is not revoked and
the allowance the `UPDATE` saw is still there. The ledger needs it (without it the
commit's increment could pass the allowance), and so does the charge property. The key
properties need `KeyOK`, which relates each request's place in `_retry` to what the key
holds or to its having been purged. `DeadOK` and `QuotaOK` play the same part for
refusals. The counting properties compare cardinalities before and after a step: the
lemmas `OnlyServingCounts`, `CommitCounts` and `RetryCounts` say which steps change the
counted set and by whom. Of waiting, `NobodyDeadlocks` says that a spend that waits for
its grant's row waits for a spend of the same grant whose next statement is its commit,
and `NoStatementTwice` that a request only moves on, in at most seven steps.

`Turn_proofs` proves, for any cap and any number of fragments and calls in a model call,
all of the turn's safety: `TypeOK`, `OneReply`, `ToolsHandled` (which is
`HistoryPaired`, `ToolsCounted` and `CallsBounded`), `HirerTold` (which is
`StatusIsTrue` and `AlwaysTold`), and the refinement `KeepsContract`. It assumes only
that the bounds are naturals and that the cap is positive (`MAX_TOOL_ROUNDS` is).
`RoundsOK` ties the count of calls to the place in the loop; without it nothing says
that a call without tools is the last. `EndOK` ties status, row, frame and hang-up to
each place; `StatusIsTrue`, `AlwaysTold` and the refinement follow from it. `TextOK`
says that the recorder is ahead of the loop by exactly the text of the round under way,
and needs that appending to a part is appending to the whole; the row is then the one
reply, cut as `ReplyRow` cuts it, of whatever length. `PairsOK` is what `HistoryPaired`
needs while tools are being run: a call with no result is in the queue, nothing but
results follows its message, the queue holds no call twice and none that has a result,
and every result is of a round already made, so that a new round's calls are new. In a
message the calls are a set, not a sequence: what `SelectSeq` returns cannot be proved
without induction over data. The safety half of `TurnEnds` is proved as well. `Left`
counts the steps a turn can still take: the rounds to come, the fragments, calls and
tools left of the one under way, and the end. `TurnRunsOut` says that every step leaves
fewer, the model's answers and a hang-up included, so that a turn takes at most
`RoundSteps * (MaxRounds + 1) + 7`; it needs `RoundsInvariant` and, for what is left of
a round, `BoundsAreKept`. `TurnGoesOn` says that until the turn has ended the guard of
one of the server's own steps holds.

`RefreshSessions_proofs` proves, for any finite set of sessions and any requests and
grants, `TypeOK`, `OneLiveSession`, `ChainIsLinear`, `DeadTokenBuysNothing`,
`OneMessagePerWindow` and the refinement `ImplementsStore`. A session's id is in one
transaction's hands until it is committed (`CarriesItsOwn`): without that, two
requests could commit one id. `LockOK` says that the request in `commit` holds the row it
presented and that the row is still live, so that a rotation ends what it started from.
`FirstOpening` says that an unclaimed grant has no session and that the claim's winner
is alone; with `LiveIsOnly` that makes one live session. `CutHasReason` is what the
refinement needs at the cut, because the rows that the `UPDATE` acts on, and the reason
for it, were read earlier; `DeathOutlastsIt` says for each place in a request why a token
that was dead on arrival still is. A claim, a rotation's commit, a cut's commit, a
revocation, the end of a grace and a purge map to the operations of `SessionRows`, every
other step to a stutter. `NobodyDeadlocks` says that a rotation or a cut that waits for a
row waits for a rotation whose next statement is its commit, and `NoStatementTwice` that
a claim, a refresh, a kill or a live check takes at most eight steps. A rotation
holds one row, and a cut takes all of its rows in one step of the model; whether two
cuts could meet the same rows in different orders is Postgres's to say and not stated.

`TrialReservation_proofs` proves, for any finite set of requests and any addresses,
challenges, browsers, days and daily limit, `TypeOK`, `OnePerDay`, `BudgetBalances`,
`RefusalIsTrue` and `KeptForItsDay`. `BudgetHeld` says that the day's counter is locked
by the one request that is about to insert, which is what makes the insertions of a day
one at a time. `RowsOK` relates the rows to the reservations in both directions, and
both are weaker for days that are over, because those may be swept at any moment;
`DaysOK` bounds what a sweep hides to days before the one its request captured.
`SomeoneAlwaysGoesOn` is `NobodyStuck` for any number of requests. Here waiting is not
short: a sweep waits for rows whose deletion is in doubt, the day's counter for its
holder, an insertion for what its unique values are waiting on. `Waiting` is the second
invariant this needs (`WaitingIsKept`): deletions of one request at most are in doubt.
Whoever waits is then followed to what it waits for, and the chain ends at a request
that does not wait or in a circle of two, which `Deadlocked` breaks. `NoStatementTwice`
is what makes that enough: a request takes nine steps at most and never returns to a
place.

`Transcript_proofs` proves, for any finite set of requests and any questions, grants and
conversations, `TypeOK`, `OwnThreadOnly`, `AnsweredWhereAsked`, `CountsMatch` and
`TurnsKeepContract`. `LockOK` says who may be holding a conversation's row and for whom;
`WritesOnce` that what a turn is about to write is not there yet, without which the count
and the contract's single reply would not follow; `AskedWhereNoted` follows a
question from the row to the note on its key and to the retry that reads the note. The
refinement maps each request's place to a stage of `TurnContract` and its stored reply to
the contract's row; what the others do is a stutter (`Unseen`). `NeverChangesHands` says
that no step gives a conversation to another grant. `NobodyDeadlocks` says that whoever
holds a conversation's row has only its commit to come, which covers the redaction and
the retention script, who wait for rows too; `AskersHold` is the invariant under it. It
is stated while a conversation's id is left to be drawn, a bound of the model and not of
the code. `NoStatementTwice` takes a turn through seven places at most.

`ClientSession_proofs` proves, for any tabs, fetches, grants, sessions and reloads,
`TypeOK`, `JarGoodAtRest`, `OnlyLostAnswersCut`, `LoneTabStaysIn` and
`NobodyLeftWaiting`. `TabsOK` says that those who wait share one refresh and that it is
under way. `Jar` holds until a pair is lost: the cookie's session is live, or its
successor is in some page's hands and nobody has presented it yet; and a session whose
grace is over is in nobody's. That is why answers in any order do no harm, and why
nothing short of a lost pair leads to a cut. A tab whose answer was dropped has no call
under way and its cookie is kept, so the jar is as good as it was. `BreaksShow` and
`AloneOK` are further invariants for a tab with nobody beside it. Besides naming the
nobody values and who owns what, the assumptions say that no session is one of the
strings by which a call is answered otherwise.

`ClientChat_proofs` proves, for any questions, allowance and bounds on attempts,
requests for usage and reloads, `TypeOK`, `PaidOnce`, `BubblesAreOwn`, `NeverShutEarly`
and `NothingForgotten`. `TurnsOK` ties the one attempt that can be in hand to the last
bubble and to what a retry would send; `ViewOK` says when a handler sees the page as it
is; `UsageOK` says that no allowance, shown or on its way, is less than the server's,
and needs that what remains never grows; `MemoryOK` says where an answer is between the
frame that completes it and the render that stores it, and needs that a question has one
bubble, that only complete bubbles are answers, and that what can be retried has failed.
Each action is first shown to be one of a few shapes of change to the attempts and the
bubbles, and the invariant is shown to survive each shape. Of `ComposerReopens` the
safety half is proved: `ShutOnlyForATurn` says that a bubble streams, or the ref is
held, only while some attempt is in hand, through every ending, retry and reload, and
`AttemptsOnlyEnd` that an attempt only moves on and that every reading of its answer
moves it. So a shut composer has an attempt that `Fairness` brings to its end in at most
two readings.

In each of these modules the invariant was checked by TLC on the run's instance before it
was proved, and `Inductive` is the theorem that states it.

Not proved, and left to TLC: `TurnEnds` and `ComposerReopens`, which are liveness, and
the five violations, which are counterexamples. Every invariant, every action property
and every refinement that a passing run checks is a theorem. `NobodyStuck`,
`NobodyDeadlocks` and `TurnGoesOn` are about guards (`CanGoOn`, `ServerCan`), written out
from the actions because nothing about `ENABLED` can be proved here. TLC was used to
compare the two on the instances of the runs, and they agree except where a bound of the
model, and not the code, stops a request; `Transcript`'s leave out the ways its store may
fail. The proofs' theorems that `PROJECT.json` does not list are parts of those it does.

## 6. Plan

Done: the store's four concurrent components, the turn with its contract, the client's
session over the abstract store, the client's chat, and the proofs about all of them,
of safety and of what keeps each of them from standing still.
Next, in this order.

1. **Lemmas that two proofs share** (a counted set that grows by one) in one place.
2. **Pure algorithms** as functions checked against a reference definition: the
   assembly of tool calls from deltas and the SSE line buffer.

## 7. Not modelled, and why

That a conversation stamped as redacted holds no text is not stated: a turn under way
when it is redacted, or a later question in it, leaves text there, and nothing in the
code says otherwise. The second `UPDATE` of the retention script is modelled as seeing
what is committed when it ends; one that waited would see some rows as they were.

Cryptography (tokens, signatures, hashes, proofs of work) is modelled by what it
distinguishes and not computed. Search counts the words of a query found in each
record, over records read once at startup: it changes no state, and is a function of
its query and the corpus that a unit test reaches as well as a model. Issuing a link
is two insertions by an operator at a terminal, one after the other. The HTTP
surface, configuration, logging, rendering, packaging, migrations, deployment and
backups keep no state that another part depends on, or are pure I/O. The owner's
message is a counter; whether it is delivered is not modelled. Postgres is taken at
its word: a commit is durable, a lock is exclusive, a unique constraint holds.
