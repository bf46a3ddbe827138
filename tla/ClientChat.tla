----------------------------- MODULE ClientChat -----------------------------
(***************************************************************************)
(* The chat page of one hirer: useChat's turns, the transcript reducer,    *)
(* the conversation it remembers and keeps in sessionStorage, the          *)
(* allowance it shows, and chatService's reading of the stream.            *)
(*                                                                         *)
(* Every attempt at a question is a call of runTurn, numbered in order; a  *)
(* question's key is named by the attempt that minted it.  The server is   *)
(* what QuestionSpend promises: a key is charged once.  A handler sees the *)
(* state its render saw (view), and React renders before the next answer   *)
(* from the network is handled; two clicks may share a render.             *)
(*                                                                         *)
(* A history and a transcript are the questions they hold.                 *)
(***************************************************************************)
EXTENDS Integers, Sequences, FiniteSets, SequencesExt

CONSTANTS
  Questions,    \* texts the hirer may send, each at most once
  MaxQueries,   \* the grant's allowance
  MaxAttempts,  \* calls of runTurn, and so keys
  MaxAsks,      \* calls to /session under way at a time
  MaxReloads

ASSUME BoundsAssumption ==
  /\ MaxQueries \in Nat \ {0} /\ MaxAttempts \in Nat \ {0}
  /\ MaxAsks \in Nat \ {0} /\ MaxReloads \in Nat

VARIABLES
  remaining,   \* what the grant has left, on the server
  paid,        \* keys it has charged
  turn,        \* the attempts, in order
  bubbles,     \* the assistant's bubbles of the transcript, each after its question
  memory,      \* memory.history
  failed,      \* the question to retry, with its key
  inFlight,    \* the ref
  shown,       \* usage.remaining, or -1 before it is known
  asks,        \* calls to /session not yet answered
  landing,     \* allowances on their way back
  stored,      \* sessionStorage: the bubbles and the history
  unsaved,     \* history: did the last save fail?
  view,        \* what the last render saw
  reloads,
  asked,       \* history: the questions the hirer has sent
  answered     \* history: the answers that have been on the screen

server == <<remaining, paid>>
page   == <<bubbles, memory, failed, inFlight, shown>>
usage  == <<asks, landing>>
kept   == <<stored, unsaved, view, reloads, asked, answered>>
vars   == <<server, turn, page, usage, kept>>

Attempts == 1..MaxAttempts
Nothing  == [question |-> "none", key |-> 0]
Failures == [question : Questions, key : Attempts] \cup {Nothing}
Bubble   == [of : Questions, status : {"streaming", "complete", "error"},
             text : SUBSET Attempts]

Loading == bubbles # <<>> /\ Last(bubbles).status = "streaming"
Current == [loading |-> Loading, failed |-> failed, shut |-> shown = 0,
            history |-> memory, asked |-> asked]
Rendered == view = Current

TypeOK ==
  /\ remaining \in 0..MaxQueries
  /\ paid \in SUBSET Attempts
  /\ turn \in Seq([question : Questions, key : Attempts, history : Seq(Questions),
                   usage : 0..MaxQueries,
                   at : {"out", "open", "finished", "gone", "over"}])
  /\ Len(turn) \in 0..MaxAttempts
  /\ bubbles \in Seq(Bubble)
  /\ memory \in Seq(Questions)
  /\ failed \in Failures
  /\ inFlight \in BOOLEAN
  /\ shown \in -1..MaxQueries
  /\ asks \in 0..MaxAsks
  /\ landing \in SUBSET (0..MaxQueries)
  /\ stored \in [bubbles : Seq(Bubble), history : Seq(Questions)]
  /\ unsaved \in BOOLEAN
  /\ view \in [loading : BOOLEAN, failed : Failures, shut : BOOLEAN,
               history : Seq(Questions), asked : SUBSET Questions]
  /\ reloads \in 0..MaxReloads
  /\ asked \in SUBSET Questions
  /\ answered \in SUBSET Bubble

\* The page on arrival, its allowance asked for.
Init ==
  /\ remaining = MaxQueries /\ paid = {}
  /\ turn = <<>>
  /\ bubbles = <<>> /\ memory = <<>> /\ failed = Nothing
  /\ inFlight = FALSE
  /\ shown = -1 /\ asks = 1 /\ landing = {}
  /\ stored = [bubbles |-> <<>>, history |-> <<>>] /\ unsaved = FALSE
  /\ asked = {} /\ answered = {}
  /\ view = Current
  /\ reloads = 0

-----------------------------------------------------------------------------
(* The transcript reducer: what happens to the last bubble.                *)

MapLast(b) == IF bubbles = <<>> THEN bubbles ELSE [bubbles EXCEPT ![Len(bubbles)] = b]

Opened(q)  == Append(bubbles, [of |-> q, status |-> "streaming", text |-> {}])
Reopened   == MapLast([Last(bubbles) EXCEPT !.status = "streaming", !.text = {}])
Spoken(n)  == MapLast([Last(bubbles) EXCEPT !.text = @ \cup {n}])
Completed  == MapLast([Last(bubbles) EXCEPT !.status = "complete"])
Failed     == MapLast([Last(bubbles) EXCEPT !.status = "error", !.text = {}])

-----------------------------------------------------------------------------
(* Handlers: they see the last render, and the ref.                        *)

RunTurn(q, k) ==
  /\ turn' = Append(turn, [question |-> q, key |-> k, history |-> view.history,
                           usage |-> 0, at |-> "out"])
  /\ inFlight' = TRUE
  /\ failed' = Nothing

SendMessage(q) ==
  /\ Len(turn) < MaxAttempts
  /\ q \notin view.asked
  /\ ~inFlight /\ ~view.loading /\ ~view.shut
  /\ bubbles' = Opened(q)
  /\ asked' = asked \cup {q}
  /\ RunTurn(q, Len(turn) + 1)
  /\ UNCHANGED <<server, memory, shown, usage, stored, unsaved, view, reloads, answered>>

\* Mutant: every attempt has a key of its own.
RetryRekeyed ==
  /\ Len(turn) < MaxAttempts
  /\ view.failed # Nothing /\ ~view.loading /\ ~inFlight
  /\ bubbles' = Reopened
  /\ RunTurn(view.failed.question, Len(turn) + 1)
  /\ UNCHANGED <<server, memory, shown, usage, kept>>

\* Mutant: a retry does not look at the ref.
RetryUnguarded ==
  /\ Len(turn) < MaxAttempts
  /\ view.failed # Nothing /\ ~view.loading
  /\ bubbles' = Reopened
  /\ RunTurn(view.failed.question, view.failed.key)
  /\ UNCHANGED <<server, memory, shown, usage, kept>>

Retry ==
  /\ Len(turn) < MaxAttempts
  /\ view.failed # Nothing /\ ~view.loading /\ ~inFlight
  /\ bubbles' = Reopened
  /\ RunTurn(view.failed.question, view.failed.key)
  /\ UNCHANGED <<server, memory, shown, usage, kept>>

-----------------------------------------------------------------------------
(* The server.                                                             *)

\* Mutant: the spend does not look at the limit.
AcceptUnlimited(n) ==
  LET t == turn[n]
  IN  /\ t.at \in {"out", "gone"}
      /\ paid' = paid \cup {t.key}
      /\ remaining' = IF t.key \in paid THEN remaining ELSE remaining - 1
      /\ turn' = [turn EXCEPT ![n].at = IF @ = "out" THEN "open" ELSE "over",
                              ![n].usage = IF t.at = "out" THEN remaining' ELSE 0]
      /\ UNCHANGED <<page, usage, kept>>

\* spend_question charges a key once; the response begins, and will end with
\* the allowance as it is now.  A page that has gone is not there to read it.
Accept(n) ==
  LET t == turn[n]
  IN  /\ t.at \in {"out", "gone"}
      /\ \/ t.key \in paid /\ UNCHANGED server
         \/ /\ t.key \notin paid /\ remaining > 0
            /\ paid' = paid \cup {t.key}
            /\ remaining' = remaining - 1
      /\ turn' = [turn EXCEPT ![n].at = IF @ = "out" THEN "open" ELSE "over",
                              ![n].usage = IF t.at = "out" THEN remaining' ELSE 0]
      /\ UNCHANGED <<page, usage, kept>>

\* Another tab on the same grant asks a question.
ElsewhereAsked ==
  /\ remaining > 0
  /\ remaining' = remaining - 1
  /\ UNCHANGED <<paid, turn, page, usage, kept>>

ServeUsage ==
  /\ asks > 0
  /\ asks' = asks - 1
  /\ landing' = landing \cup {remaining}
  /\ UNCHANGED <<server, turn, page, kept>>

-----------------------------------------------------------------------------
(* The stream as it is read, and how a turn ends.                          *)

RefreshUsage ==
  /\ asks' = IF asks + Cardinality(landing) < MaxAsks THEN asks + 1 ELSE asks
  /\ UNCHANGED landing

\* What can be asked again under the same key is offered again.
OfferRetry(n) ==
  /\ failed' = [question |-> turn[n].question, key |-> turn[n].key]
  /\ RefreshUsage

\* An attempt moves on, and the allowance its stream carried is read or lost.
MovedTo(n, at) == [turn EXCEPT ![n].at = at, ![n].usage = 0]

ReadToken(n) ==
  /\ Rendered /\ turn[n].at = "open"
  /\ bubbles' = Spoken(n)
  /\ UNCHANGED <<server, turn, memory, failed, inFlight, shown, usage, kept>>

ReadDone(n) ==
  /\ Rendered /\ turn[n].at = "open"
  /\ turn' = MovedTo(n, "finished")
  /\ shown' = turn[n].usage
  /\ memory' = Append(turn[n].history, turn[n].question)
  /\ bubbles' = Completed
  /\ UNCHANGED <<server, failed, inFlight, usage, kept>>

ReadError(n) ==
  /\ Rendered /\ turn[n].at = "open"
  /\ turn' = MovedTo(n, "finished")
  /\ bubbles' = Failed
  /\ OfferRetry(n)
  /\ UNCHANGED <<server, memory, inFlight, shown, kept>>

\* The body ends after a frame that said how the turn went.
ReadEnd(n) ==
  /\ Rendered /\ turn[n].at = "finished"
  /\ turn' = MovedTo(n, "over")
  /\ inFlight' = FALSE
  /\ UNCHANGED <<server, bubbles, memory, failed, shown, usage, kept>>

\* What is left of an attempt the page gave up: a request on its way may still
\* reach the server.
GivenUp(at) == IF at \in {"out", "gone"} THEN "gone" ELSE "over"

\* Mutant: a body that ends without such a frame is taken for an answer.
BrokenQuietly(n) ==
  /\ Rendered /\ turn[n].at \in {"out", "open", "finished"}
  /\ turn' = MovedTo(n, GivenUp(turn[n].at))
  /\ inFlight' = FALSE
  /\ UNCHANGED <<server, bubbles, memory, failed, shown, usage, kept>>

\* fetch or a read rejects, the server answers 5xx, or the body ends without
\* such a frame.  Even a turn that is finished is failed by a read that rejects,
\* and the answer it had completed is taken off the screen.
Broken(n) ==
  /\ Rendered /\ turn[n].at \in {"out", "open", "finished"}
  /\ turn' = MovedTo(n, GivenUp(turn[n].at))
  /\ bubbles' = Failed
  /\ answered' = answered \ {Last(bubbles)}
  /\ OfferRetry(n)
  /\ inFlight' = FALSE
  /\ UNCHANGED <<server, memory, shown, stored, unsaved, view, reloads, asked>>

Refused(n) ==
  /\ Rendered /\ turn[n].at = "out"
  /\ turn' = MovedTo(n, "over")
  /\ bubbles' = Failed
  /\ inFlight' = FALSE
  /\ UNCHANGED <<server, memory, failed, usage, kept>>

MarkExhausted == shown' = IF shown = -1 THEN shown ELSE 0

\* The backend's 429 "Query limit reached".
RefusedForQuota(n) ==
  /\ turn[n].key \notin paid /\ remaining = 0
  /\ Refused(n)
  /\ MarkExhausted

\* Mutant: any 429 means the allowance is gone.
RefusedTooFastShutting(n) ==
  /\ Refused(n)
  /\ MarkExhausted

\* The rate limiter's 429, or a refusal that a retry would only repeat.
RefusedOtherwise(n) ==
  /\ Refused(n)
  /\ UNCHANGED shown

UsageLands(a) ==
  /\ Rendered
  /\ landing' = landing \ {a}
  /\ shown' = a
  /\ UNCHANGED <<server, turn, bubbles, memory, failed, inFlight, asks, kept>>

UsageLost ==
  /\ asks > 0
  /\ asks' = asks - 1
  /\ UNCHANGED <<server, turn, page, landing, kept>>

-----------------------------------------------------------------------------
(* Renders and reloads.                                                    *)

Answers(seq) == {b \in ToSet(seq) : b.status = "complete"}

Save == stored' = [bubbles |-> bubbles, history |-> memory] /\ unsaved' = FALSE

\* saveConversation swallows what the browser's storage throws.
SaveFails == unsaved' = TRUE /\ UNCHANGED stored

\* A render, and the effect that saves what has settled.
Render ==
  /\ ~Rendered
  /\ view' = Current
  /\ IF Loading \/ memory = <<>> THEN UNCHANGED <<stored, unsaved>>
     ELSE Save \/ SaveFails
  /\ answered' = answered \cup Answers(bubbles)
  /\ UNCHANGED <<server, turn, page, usage, reloads, asked>>

Gone == [n \in DOMAIN turn |-> [turn[n] EXCEPT !.at = GivenUp(@), !.usage = 0]]

\* What is stored comes back on the screen; nothing else need come back if the
\* last save failed.
Restored == Answers(stored.bubbles) \cup (IF unsaved THEN {} ELSE answered)

\* Mutant: the transcript comes back, and the model's history does not.
ReloadScreenOnly ==
  /\ reloads < MaxReloads
  /\ reloads' = reloads + 1
  /\ turn' = Gone
  /\ bubbles' = stored.bubbles /\ memory' = <<>>
  /\ failed' = Nothing /\ inFlight' = FALSE
  /\ shown' = -1 /\ asks' = 1 /\ landing' = {}
  /\ view' = [loading |-> FALSE, failed |-> Nothing, shut |-> FALSE,
              history |-> <<>>, asked |-> asked]
  /\ answered' = Restored /\ unsaved' = FALSE
  /\ UNCHANGED <<server, stored, asked>>

\* The page starts again, with what was stored and nothing under way.
Reload ==
  /\ reloads < MaxReloads
  /\ reloads' = reloads + 1
  /\ turn' = Gone
  /\ bubbles' = stored.bubbles /\ memory' = stored.history
  /\ failed' = Nothing /\ inFlight' = FALSE
  /\ shown' = -1 /\ asks' = 1 /\ landing' = {}
  /\ view' = [loading |-> FALSE, failed |-> Nothing, shut |-> FALSE,
              history |-> stored.history, asked |-> asked]
  /\ answered' = Restored /\ unsaved' = FALSE
  /\ UNCHANGED <<server, stored, asked>>

Reads(n) == ReadDone(n) \/ ReadError(n) \/ ReadEnd(n) \/ Broken(n)
            \/ RefusedForQuota(n) \/ RefusedOtherwise(n)

Next ==
  \/ \E q \in Questions : SendMessage(q)
  \/ Retry
  \/ \E n \in DOMAIN turn : Accept(n) \/ ReadToken(n) \/ Reads(n)
  \/ ElsewhereAsked \/ ServeUsage \/ UsageLost
  \/ \E a \in landing : UsageLands(a)
  \/ Render \/ Reload

\* React renders, and a request is answered or broken off.
Fairness == /\ WF_vars(Render)
            /\ \A n \in Attempts : WF_vars(n \in DOMAIN turn /\ Reads(n))

Spec == Init /\ [][Next]_vars /\ Fairness

-----------------------------------------------------------------------------
(* What the page promises.                                                 *)

KeysOf(q) == {turn[n].key : n \in {m \in DOMAIN turn : turn[m].question = q}}

\* However often a question is retried, clicked, cut off or reloaded away, it is
\* charged at most once (useChat.ts:130-131, 119-120).
PaidOnce == \A q \in Questions : Cardinality(KeysOf(q) \cap paid) <= 1

Running(n) == turn[n].at \in {"out", "open"}

\* The transcript only ever rewrites its last bubble, so that has to be the one
\* of the turn that speaks: a bubble holds the words of one attempt at its own
\* question, and while an attempt runs nothing else has closed its bubble
\* (transcript.ts:47-54).
BubblesAreOwn ==
  /\ \A i \in DOMAIN bubbles :
       /\ Cardinality(bubbles[i].text) <= 1
       /\ \A n \in bubbles[i].text : turn[n].question = bubbles[i].of
  /\ \A n \in DOMAIN turn : Running(n) =>
       Loading /\ Last(bubbles).of = turn[n].question

\* The composer is never shut on a hirer who has a question left, whatever was
\* refused and however late an allowance arrives (failure.ts:15-24,
\* useChat.ts:215-216).
NeverShutEarly == shown # -1 => shown >= remaining

\* An answer that has been on the screen stays there, complete and in its own
\* words, and its question stays in what the next one is asked with, over later
\* turns that fail or are cut off, retries and reloads (useConversationMemory.ts:20-27).
\* Two things take an answer away: its own body breaking off after the frame that
\* completed it (Broken), and a reload after a save that failed (conversation.ts:118-121).
NothingForgotten ==
  \A b \in answered : Contains(memory, b.of) /\ b \in ToSet(bubbles)

\* No turn leaves the composer shut, however its stream ends
\* (chat.service.ts:262-264, useChat.ts:71-73).
ComposerReopens == Loading ~> ~Loading
=============================================================================
