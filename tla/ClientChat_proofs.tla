--------------------------- MODULE ClientChat_proofs ---------------------------
(***************************************************************************)
(* What the chat page promises, proved for any questions, allowance,       *)
(* attempts and reloads.                                                   *)
(***************************************************************************)
EXTENDS ClientChat, SequenceTheorems, FiniteSetTheorems, TLAPS

-----------------------------------------------------------------------------
(* The inductive invariant, in parts.                                      *)

\* The type invariant, a part of the system at a time.
Turns == [question : Questions, key : Attempts, history : Seq(Questions),
          usage : 0..MaxQueries, at : {"out", "open", "finished", "gone", "over"}]

TurnTyped == turn \in Seq(Turns) /\ Len(turn) \in 0..MaxAttempts

BubblesTyped ==
  /\ bubbles \in Seq(Bubble) /\ memory \in Seq(Questions)
  /\ stored \in [bubbles : Seq(Bubble), history : Seq(Questions)]

ViewTyped ==
  /\ failed \in Failures /\ inFlight \in BOOLEAN
  /\ view \in [loading : BOOLEAN, failed : Failures, shut : BOOLEAN,
               history : Seq(Questions), asked : SUBSET Questions]
  /\ asked \in SUBSET Questions /\ answered \in SUBSET Bubble /\ unsaved \in BOOLEAN

UsageTyped ==
  /\ remaining \in 0..MaxQueries /\ paid \in SUBSET Attempts
  /\ shown \in -1..MaxQueries
  /\ asks \in 0..MaxAsks /\ landing \in SUBSET (0..MaxQueries)
  /\ reloads \in 0..MaxReloads

Typed == TurnTyped /\ BubblesTyped /\ ViewTyped /\ UsageTyped

\* A question keeps the key its first attempt minted, and only what was asked
\* is attempted.
KeysOK ==
  /\ \A m, n \in DOMAIN turn : turn[m].question = turn[n].question => turn[m].key = turn[n].key
  /\ \A n \in DOMAIN turn : turn[n].question \in asked

\* Only the last attempt can be in hand, and the last bubble is its own; it
\* was sent with all that is remembered.  Once it is over, what can be retried
\* is the question of the last bubble.
InHand(n) ==
  /\ n = Len(turn) /\ inFlight
  /\ bubbles # <<>>
  /\ Last(bubbles).of = turn[n].question /\ Last(bubbles).text \subseteq {n}
  /\ failed \in {Nothing, [question |-> turn[n].question, key |-> turn[n].key]}

TurnsOK ==
  /\ \A n \in DOMAIN turn : Running(n) =>
       Loading /\ InHand(n) /\ turn[n].history = memory /\ failed = Nothing
  /\ \A n \in DOMAIN turn : turn[n].at = "finished" => ~Loading /\ InHand(n)
  /\ failed # Nothing =>
       /\ bubbles # <<>> /\ Last(bubbles).of = failed.question
       /\ \E n \in DOMAIN turn : turn[n].question = failed.question /\ turn[n].key = failed.key

\* A handler that finds no turn in flight sees the page as it is.
ViewOK == ~inFlight =>
  view.history = memory /\ view.asked = asked /\ view.failed \in {failed, Nothing}

\* A bubble, kept or not, is the only one of a question that was asked, and holds
\* the words of one attempt at it.
Owned(seq) == \A i \in DOMAIN seq :
  /\ seq[i].of \in asked
  /\ \A j \in DOMAIN seq : seq[i].of = seq[j].of => i = j
  /\ \A m, n \in seq[i].text : m = n
  /\ \A n \in seq[i].text : n \in DOMAIN turn /\ turn[n].question = seq[i].of
BubblesOK == Owned(bubbles) /\ Owned(stored.bubbles)

\* No allowance on the page, or on its way there, is less than what is left.
UsageOK ==
  /\ shown # -1 => shown >= remaining
  /\ \A a \in landing : a >= remaining
  /\ \A n \in DOMAIN turn : turn[n].at = "open" => turn[n].usage >= remaining

\* An answer that has been on the screen is there and remembered, and kept unless
\* the last save failed; what is complete and has not been on it yet is the turn's
\* that is in flight.  What can be retried has no answer.
Holds(seq, history) == \A b \in answered :
  Contains(history, b.of) /\ \E i \in DOMAIN seq : seq[i] = b
MemoryOK ==
  /\ Holds(bubbles, memory)
  /\ ~unsaved => Holds(stored.bubbles, stored.history)
  /\ \A i \in DOMAIN bubbles : bubbles[i].status = "complete" =>
       /\ Contains(memory, bubbles[i].of)
       /\ bubbles[i] \in answered \/ (inFlight /\ view.loading /\ ~Loading)
  /\ \A i \in DOMAIN stored.bubbles :
       stored.bubbles[i].status = "complete" => Contains(stored.history, stored.bubbles[i].of)
  /\ \A b \in answered : b.status = "complete"
  /\ failed # Nothing => Last(bubbles).status = "error"

IInv == Typed /\ KeysOK /\ TurnsOK /\ ViewOK /\ BubblesOK /\ UsageOK /\ MemoryOK

-----------------------------------------------------------------------------
(* What a step does to the attempts and to the bubbles.                    *)

\* An attempt is added.
Added(q, k) ==
  /\ TurnTyped'
  /\ Len(turn') = Len(turn) + 1 /\ DOMAIN turn' = 1..(Len(turn) + 1)
  /\ DOMAIN turn = 1..Len(turn) /\ Len(turn) \in Nat
  /\ DOMAIN turn' = DOMAIN turn \cup {Len(turn) + 1}
  /\ \A m \in DOMAIN turn : turn'[m] = turn[m]
  /\ turn'[Len(turn) + 1].question = q /\ turn'[Len(turn) + 1].key = k
  /\ turn'[Len(turn) + 1].history = view.history
  /\ turn'[Len(turn) + 1].at = "out"

\* What runTurn adds is an attempt, whatever the question and the key.
LEMMA RunTurnAdds ==
  ASSUME TurnTyped, ViewTyped, NEW q \in Questions, NEW k \in Attempts,
         Len(turn) < MaxAttempts, RunTurn(q, k)
  PROVE  Added(q, k)
<1> DEFINE t == [question |-> q, key |-> k, history |-> view.history, usage |-> 0, at |-> "out"]
<1>1. t \in Turns
  BY BoundsAssumption DEF Turns, ViewTyped
<1>2. turn' = Append(turn, t) /\ turn \in Seq(Turns) /\ Len(turn) \in Nat
  BY DEF RunTurn, TurnTyped
<1>3. /\ t.question = q /\ t.key = k /\ t.history = view.history /\ t.at = "out"
  OBVIOUS
<1> HIDE DEF t
<1>4. /\ turn' \in Seq(Turns) /\ Len(turn') = Len(turn) + 1
      /\ \A m \in 1..Len(turn) : turn'[m] = turn[m]
      /\ turn'[Len(turn) + 1] = t
  BY <1>1, <1>2, AppendProperties
<1>5. DOMAIN turn = 1..Len(turn) /\ DOMAIN turn' = 1..(Len(turn) + 1)
  BY <1>2, <1>4, LenProperties
<1>6. Len(turn') \in 0..MaxAttempts /\ DOMAIN turn' = DOMAIN turn \cup {Len(turn) + 1}
  BY <1>2, <1>4, <1>5, BoundsAssumption
<1>7. QED
  BY <1>2, <1>3, <1>4, <1>5, <1>6 DEF Added, TurnTyped

\* The attempts stay, each with its question, its key and its history.
Stay ==
  /\ TurnTyped'
  /\ Len(turn') = Len(turn) /\ DOMAIN turn' = DOMAIN turn /\ DOMAIN turn = 1..Len(turn)
  /\ Len(turn) \in Nat
  /\ \A m \in DOMAIN turn :
       /\ turn'[m].question = turn[m].question /\ turn'[m].key = turn[m].key
       /\ turn'[m].history = turn[m].history

\* One of them moves on, to `at`, with an allowance of `u`.
Moved(n, at, u) ==
  /\ Stay
  /\ turn'[n].at = at /\ turn'[n].usage = u
  /\ \A m \in DOMAIN turn : m # n => turn'[m] = turn[m]

\* An attempt that is given a stage, and perhaps an allowance, moves on.
LEMMA MovesOn ==
  ASSUME TurnTyped, NEW n \in DOMAIN turn,
         NEW at \in {"out", "open", "finished", "gone", "over"}, NEW u \in 0..MaxQueries,
         \/ turn' = [turn EXCEPT ![n].at = at] /\ u = turn[n].usage
         \/ turn' = [turn EXCEPT ![n].at = at, ![n].usage = u]
  PROVE  Moved(n, at, u)
<1>1. turn \in Seq(Turns) /\ Len(turn) \in Nat /\ DOMAIN turn = 1..Len(turn)
  BY LenProperties DEF TurnTyped
<1>2. turn[n] \in Turns
  BY <1>1, ElementOfSeq
<1> DEFINE t == [[turn[n] EXCEPT !.at = at] EXCEPT !.usage = u]
<1>3. /\ t \in Turns /\ t.at = at /\ t.usage = u /\ t.question = turn[n].question
      /\ t.key = turn[n].key /\ t.history = turn[n].history
  BY <1>2 DEF Turns
<1>4. turn' = [turn EXCEPT ![n] = t]
  <2>1. CASE turn' = [turn EXCEPT ![n].at = at] /\ u = turn[n].usage
    <3>1. t = [turn[n] EXCEPT !.at = at]
      BY <1>2, <2>1 DEF Turns
    <3>2. QED
      BY <1>1, <2>1, <3>1
  <2>2. CASE turn' = [turn EXCEPT ![n].at = at, ![n].usage = u]
    BY <1>1, <2>2
  <2>3. QED
    BY <2>1, <2>2
<1> HIDE DEF t
<1>5. /\ turn' \in Seq(Turns) /\ Len(turn') = Len(turn)
      /\ \A m \in 1..Len(turn) : turn'[m] = IF m = n THEN t ELSE turn[m]
  BY <1>1, <1>3, <1>4, ExceptSeq
<1>6. DOMAIN turn' = DOMAIN turn
  BY <1>1, <1>5, LenProperties
<1>7. QED
  BY <1>1, <1>3, <1>5, <1>6 DEF Moved, Stay, TurnTyped

\* All of them are gone, or over.
AllGone == Stay /\ \A m \in DOMAIN turn : turn'[m].at \in {"gone", "over"}

\* A reload leaves no attempt in hand.
LEMMA GoneGoes ==
  ASSUME TurnTyped, turn' = Gone
  PROVE  AllGone
<1>1. turn \in Seq(Turns) /\ Len(turn) \in Nat /\ DOMAIN turn = 1..Len(turn)
  BY LenProperties DEF TurnTyped
<1>2. \A m \in 1..Len(turn) : turn[m] \in Turns
  BY <1>1, ElementOfSeq
<1>3. DOMAIN turn' = 1..Len(turn)
  BY <1>1 DEF Gone
<1>4. ASSUME NEW m \in 1..Len(turn)
      PROVE  /\ turn'[m] \in Turns /\ turn'[m].at \in {"gone", "over"}
             /\ turn'[m].question = turn[m].question /\ turn'[m].key = turn[m].key
             /\ turn'[m].history = turn[m].history
  <2>1. turn'[m] = [turn[m] EXCEPT !.at = GivenUp(turn[m].at), !.usage = 0]
    BY <1>1 DEF Gone
  <2>2. GivenUp(turn[m].at) \in {"gone", "over"} /\ 0 \in 0..MaxQueries
    BY BoundsAssumption DEF GivenUp
  <2>3. QED
    BY <1>2, <2>1, <2>2 DEF Turns
<1>5. turn' \in [1..Len(turn) -> Turns]
  BY <1>1, <1>3, <1>4 DEF Gone
<1>6. turn' \in Seq(Turns) /\ Len(turn') = Len(turn)
  BY <1>1, <1>5
<1>7. QED
  BY <1>1, <1>3, <1>4, <1>6 DEF AllGone, Stay, TurnTyped

\* A bubble is added, for a question.
Grew(q) ==
  /\ bubbles' \in Seq(Bubble)
  /\ Len(bubbles) \in Nat /\ DOMAIN bubbles = 1..Len(bubbles)
  /\ Len(bubbles') = Len(bubbles) + 1 /\ DOMAIN bubbles' = 1..(Len(bubbles) + 1)
  /\ bubbles' # <<>> /\ Last(bubbles') = bubbles'[Len(bubbles) + 1]
  /\ \A i \in DOMAIN bubbles : bubbles'[i] = bubbles[i]
  /\ Last(bubbles').of = q /\ Last(bubbles').status = "streaming"
  /\ Last(bubbles').text = {}

\* The reducer opens a bubble after the others.
LEMMA OpenedGrows ==
  ASSUME BubblesTyped, NEW q \in Questions, bubbles' = Opened(q)
  PROVE  Grew(q)
<1> DEFINE b == [of |-> q, status |-> "streaming", text |-> {}]
<1>1. b \in Bubble /\ b.of = q /\ b.status = "streaming" /\ b.text = {}
  BY DEF Bubble
<1>2. bubbles' = Append(bubbles, b) /\ bubbles \in Seq(Bubble)
  BY DEF Opened, BubblesTyped
<1> HIDE DEF b
<1>3. /\ bubbles' \in Seq(Bubble) /\ Len(bubbles') = Len(bubbles) + 1
      /\ \A i \in 1..Len(bubbles) : bubbles'[i] = bubbles[i]
      /\ bubbles'[Len(bubbles) + 1] = b
  BY <1>1, <1>2, AppendProperties
<1>4. /\ Len(bubbles) \in Nat /\ DOMAIN bubbles = 1..Len(bubbles)
      /\ DOMAIN bubbles' = 1..(Len(bubbles) + 1)
  BY <1>2, <1>3, LenProperties
<1>5. bubbles' # <<>>
  BY <1>3, <1>4, EmptySeq
<1>6. QED
  BY <1>1, <1>3, <1>4, <1>5 DEF Grew, Last

\* The last bubble is given a status and a text.
Rewrote(status, text) ==
  /\ bubbles' \in Seq(Bubble)
  /\ Len(bubbles) \in Nat \ {0} /\ DOMAIN bubbles = 1..Len(bubbles)
  /\ Len(bubbles') = Len(bubbles) /\ DOMAIN bubbles' = 1..Len(bubbles)
  /\ bubbles' # <<>> /\ Last(bubbles') = bubbles'[Len(bubbles)]
  /\ \A i \in DOMAIN bubbles : i # Len(bubbles) => bubbles'[i] = bubbles[i]
  /\ Last(bubbles').of = Last(bubbles).of /\ Last(bubbles').status = status
  /\ Last(bubbles').text = text

\* The reducer's mapLast rewrites the last bubble and keeps its question.
LEMMA MapLastRewrites ==
  ASSUME BubblesTyped, bubbles # <<>>,
         NEW status \in {"streaming", "complete", "error"}, NEW text \in SUBSET Attempts,
         bubbles' = MapLast([[Last(bubbles) EXCEPT !.status = status] EXCEPT !.text = text])
  PROVE  Rewrote(status, text)
<1> DEFINE b == [[Last(bubbles) EXCEPT !.status = status] EXCEPT !.text = text]
<1>1. /\ bubbles \in Seq(Bubble) /\ Len(bubbles) \in Nat \ {0}
      /\ DOMAIN bubbles = 1..Len(bubbles)
  BY LenProperties, EmptySeq DEF BubblesTyped
<1>2. Last(bubbles) \in Bubble
  BY <1>1, ElementOfSeq DEF Last
<1>3. b \in Bubble /\ b.of = Last(bubbles).of /\ b.status = status /\ b.text = text
  BY <1>2 DEF Bubble
<1>4. bubbles' = [bubbles EXCEPT ![Len(bubbles)] = b]
  BY DEF MapLast
<1> HIDE DEF b
<1>5. /\ bubbles' \in Seq(Bubble) /\ Len(bubbles') = Len(bubbles)
      /\ \A i \in 1..Len(bubbles) : bubbles'[i] = IF i = Len(bubbles) THEN b ELSE bubbles[i]
  BY <1>1, <1>3, <1>4, ExceptSeq
<1>6. DOMAIN bubbles' = 1..Len(bubbles) /\ bubbles' # <<>>
  BY <1>1, <1>5, LenProperties, EmptySeq
<1>7. Last(bubbles') = b
  BY <1>1, <1>5 DEF Last
<1>8. QED
  BY <1>1, <1>3, <1>5, <1>6, <1>7 DEF Rewrote, Last

\* That is what the reducer does, whatever it is told.
LEMMA ReducerRewrites ==
  ASSUME BubblesTyped, bubbles # <<>>
  PROVE  /\ bubbles' = Reopened => Rewrote("streaming", {})
         /\ \A n \in Attempts : bubbles' = Spoken(n) =>
              Rewrote(Last(bubbles).status, Last(bubbles).text \cup {n})
         /\ bubbles' = Completed => Rewrote("complete", Last(bubbles).text)
         /\ bubbles' = Failed => Rewrote("error", {})
<1>1. Last(bubbles) \in Bubble
  BY LenProperties, EmptySeq, ElementOfSeq DEF BubblesTyped, Last
<1>2. ASSUME bubbles' = Reopened PROVE Rewrote("streaming", {})
  <2>1. [Last(bubbles) EXCEPT !.status = "streaming", !.text = {}]
        = [[Last(bubbles) EXCEPT !.status = "streaming"] EXCEPT !.text = {}]
    BY <1>1 DEF Bubble
  <2>2. bubbles' = MapLast([[Last(bubbles) EXCEPT !.status = "streaming"] EXCEPT !.text = {}])
    BY <1>2, <2>1 DEF Reopened
  <2>3. {} \in SUBSET Attempts
    OBVIOUS
  <2>4. QED
    BY <2>2, <2>3, MapLastRewrites
<1>3. ASSUME NEW n \in Attempts, bubbles' = Spoken(n)
      PROVE  Rewrote(Last(bubbles).status, Last(bubbles).text \cup {n})
  <2>1. [Last(bubbles) EXCEPT !.text = @ \cup {n}]
        = [[Last(bubbles) EXCEPT !.status = Last(bubbles).status]
              EXCEPT !.text = Last(bubbles).text \cup {n}]
    BY <1>1 DEF Bubble
  <2>2. /\ Last(bubbles).status \in {"streaming", "complete", "error"}
        /\ Last(bubbles).text \cup {n} \in SUBSET Attempts
    BY <1>1 DEF Bubble
  <2>3. QED
    BY <1>3, <2>1, <2>2, MapLastRewrites DEF Spoken
<1>4. ASSUME bubbles' = Completed PROVE Rewrote("complete", Last(bubbles).text)
  <2>1. [Last(bubbles) EXCEPT !.status = "complete"]
        = [[Last(bubbles) EXCEPT !.status = "complete"] EXCEPT !.text = Last(bubbles).text]
    BY <1>1 DEF Bubble
  <2>2. Last(bubbles).text \in SUBSET Attempts
    BY <1>1 DEF Bubble
  <2>3. QED
    BY <1>4, <2>1, <2>2, MapLastRewrites DEF Completed
<1>5. ASSUME bubbles' = Failed PROVE Rewrote("error", {})
  <2>1. [Last(bubbles) EXCEPT !.status = "error", !.text = {}]
        = [[Last(bubbles) EXCEPT !.status = "error"] EXCEPT !.text = {}]
    BY <1>1 DEF Bubble
  <2>2. bubbles' = MapLast([[Last(bubbles) EXCEPT !.status = "error"] EXCEPT !.text = {}])
    BY <1>5, <2>1 DEF Failed
  <2>3. {} \in SUBSET Attempts
    OBVIOUS
  <2>4. QED
    BY <2>2, <2>3, MapLastRewrites
<1>6. QED
  BY <1>2, <1>3, <1>4, <1>5

-----------------------------------------------------------------------------
(* Which of that each action does.                                         *)

\* An attempt is one of the bounded number there may be.
LEMMA AttemptsAreTurns ==
  ASSUME TurnTyped, NEW n \in DOMAIN turn
  PROVE  turn[n] \in Turns /\ n \in Attempts /\ DOMAIN turn = 1..Len(turn) /\ Len(turn) \in Nat
<1>1. turn \in Seq(Turns) /\ Len(turn) \in 0..MaxAttempts /\ DOMAIN turn = 1..Len(turn)
  BY LenProperties DEF TurnTyped
<1>2. turn[n] \in Turns
  BY <1>1, ElementOfSeq
<1>3. QED
  BY <1>1, <1>2, BoundsAssumption DEF Attempts

\* What was sent is answered on the page it was sent from, if at all.
LEMMA HeldInHand ==
  ASSUME IInv, NEW n \in DOMAIN turn, turn[n].at \in {"out", "open", "finished"}
  PROVE  InHand(n)
BY DEF IInv, TurnsOK, Running

\* A message that is sent mints a key and opens a bubble.
LEMMA SendDoes ==
  ASSUME IInv, NEW q \in Questions, SendMessage(q)
  PROVE  Added(q, Len(turn) + 1) /\ Grew(q)
<1>1. Len(turn) + 1 \in Attempts
  BY BoundsAssumption DEF IInv, Typed, TurnTyped, Attempts, SendMessage
<1>2. QED
  BY <1>1, RunTurnAdds, OpenedGrows DEF IInv, Typed, SendMessage

\* What is tried again is what failed last, under its own key.
LEMMA RetryDoes ==
  ASSUME IInv, Retry
  PROVE  /\ failed # Nothing /\ bubbles # <<>> /\ ~inFlight
         /\ Added(failed.question, failed.key) /\ Rewrote("streaming", {})
<1>1. view.failed = failed /\ failed # Nothing
  BY DEF IInv, ViewOK, Retry
<1>2. failed.question \in Questions /\ failed.key \in Attempts
  BY <1>1 DEF IInv, Typed, ViewTyped, Failures
<1>3. bubbles # <<>>
  BY <1>1 DEF IInv, TurnsOK
<1>4. Added(failed.question, failed.key)
  BY <1>1, <1>2, RunTurnAdds DEF IInv, Typed, Retry
<1>5. Rewrote("streaming", {})
  BY <1>3, ReducerRewrites DEF IInv, Typed, Retry
<1>6. QED
  BY <1>1, <1>3, <1>4, <1>5 DEF Retry

\* The server takes at most what is left, and the response carries what remains.
LEMMA AcceptDoes ==
  ASSUME IInv, NEW n \in DOMAIN turn, Accept(n)
  PROVE  /\ remaining' \in 0..remaining
         /\ Moved(n, IF turn[n].at = "out" THEN "open" ELSE "over",
                  IF turn[n].at = "out" THEN remaining' ELSE 0)
<1>1. remaining' \in 0..MaxQueries /\ remaining' \in 0..remaining
  BY BoundsAssumption DEF IInv, Typed, UsageTyped, Accept, server
<1>2. turn[n] \in Turns
  BY AttemptsAreTurns DEF IInv, Typed
<1> DEFINE at == IF turn[n].at = "out" THEN "open" ELSE "over"
           u  == IF turn[n].at = "out" THEN remaining' ELSE 0
<1>3. turn' = [turn EXCEPT ![n].at = at, ![n].usage = u]
  BY DEF Accept
<1>4. at \in {"out", "open", "finished", "gone", "over"} /\ u \in 0..MaxQueries
  BY <1>1, BoundsAssumption
<1> HIDE DEF at, u
<1>5. Moved(n, at, u)
  BY <1>3, <1>4, MovesOn DEF IInv, Typed
<1>6. QED
  BY <1>1, <1>5 DEF at, u

\* The stream is read, and ends.
LEMMA ReadingDoes ==
  ASSUME IInv, NEW n \in DOMAIN turn
  PROVE  /\ ReadToken(n) => Rewrote(Last(bubbles).status, Last(bubbles).text \cup {n})
         /\ ReadDone(n) => /\ Moved(n, "finished", 0)
                           /\ Rewrote("complete", Last(bubbles).text)
         /\ ReadError(n) => Moved(n, "finished", 0) /\ Rewrote("error", {})
         /\ ReadEnd(n) => Moved(n, "over", 0)
         /\ Broken(n) => Moved(n, GivenUp(turn[n].at), 0) /\ Rewrote("error", {})
         /\ Refused(n) => Moved(n, "over", 0) /\ Rewrote("error", {})
<1>1. turn[n] \in Turns /\ n \in Attempts
  BY AttemptsAreTurns DEF IInv, Typed
<1>2. 0 \in 0..MaxQueries /\ GivenUp(turn[n].at) \in {"gone", "over"}
  BY BoundsAssumption DEF GivenUp
<1>3. ASSUME NEW at \in {"finished", "gone", "over"}, turn' = MovedTo(n, at)
      PROVE  Moved(n, at, 0)
  <2>1. turn' = [turn EXCEPT ![n].at = at, ![n].usage = 0] /\ TurnTyped
    BY <1>3 DEF MovedTo, IInv, Typed
  <2>2. at \in {"out", "open", "finished", "gone", "over"} /\ 0 \in 0..MaxQueries
    BY <1>2
  <2>3. QED
    BY <2>1, <2>2, MovesOn
<1>4. turn[n].at \in {"out", "open", "finished"} => bubbles # <<>>
  BY HeldInHand DEF InHand
<1>5. ASSUME ReadToken(n)
      PROVE  Rewrote(Last(bubbles).status, Last(bubbles).text \cup {n})
  BY <1>1, <1>4, <1>5, ReducerRewrites DEF ReadToken, IInv, Typed
<1>6. ASSUME ReadDone(n)
      PROVE  Moved(n, "finished", 0) /\ Rewrote("complete", Last(bubbles).text)
  BY <1>3, <1>4, <1>6, ReducerRewrites DEF ReadDone, IInv, Typed
<1>7. ASSUME ReadError(n) PROVE Moved(n, "finished", 0) /\ Rewrote("error", {})
  BY <1>3, <1>4, <1>7, ReducerRewrites DEF ReadError, IInv, Typed
<1>8. ASSUME ReadEnd(n) PROVE Moved(n, "over", 0)
  BY <1>3, <1>8 DEF ReadEnd
<1>9. ASSUME Broken(n) PROVE Moved(n, GivenUp(turn[n].at), 0) /\ Rewrote("error", {})
  BY <1>2, <1>3, <1>4, <1>9, ReducerRewrites DEF Broken, IInv, Typed
<1>10. ASSUME Refused(n) PROVE Moved(n, "over", 0) /\ Rewrote("error", {})
  BY <1>3, <1>4, <1>10, ReducerRewrites DEF Refused, IInv, Typed
<1>11. QED
  BY <1>5, <1>6, <1>7, <1>8, <1>9, <1>10

\* A page that has rendered shows what it holds.
LEMMA RenderedSees ==
  ASSUME Rendered
  PROVE  /\ view.loading = Loading /\ view.failed = failed
         /\ view.history = memory /\ view.asked = asked
BY DEF Rendered, Current

\* Three things happen to the attempts: they stay, a new question's first is
\* added, or another of the one that failed.
Begun(q) == q \in Questions \ asked /\ Added(q, Len(turn) + 1) /\ asked' = asked \cup {q}
Again    == failed # Nothing /\ Added(failed.question, failed.key) /\ asked' = asked
Kept     == Stay /\ asked' = asked
Shapes   == Kept \/ (\E q \in Questions : Begun(q)) \/ Again

\* Attempts that are untouched stay.
LEMMA NothingMoves ==
  ASSUME IInv, turn' = turn
  PROVE  Stay
<1>1. TurnTyped'
  BY DEF IInv, Typed, TurnTyped
<1>2. DOMAIN turn = 1..Len(turn) /\ Len(turn) \in Nat
  BY LenProperties DEF IInv, Typed, TurnTyped
<1>3. QED
  BY <1>1, <1>2 DEF Stay

-----------------------------------------------------------------------------
(* Every step keeps each part of it.                                       *)

\* Every step does one of these.
LEMMA TurnShapes ==
  ASSUME IInv, [Next]_vars
  PROVE  Shapes
<1>1. ASSUME NEW q \in Questions, SendMessage(q) PROVE Shapes
  <2>1. q \notin asked
    BY <1>1 DEF SendMessage, IInv, ViewOK
  <2>2. Added(q, Len(turn) + 1) /\ asked' = asked \cup {q}
    BY <1>1, SendDoes DEF SendMessage
  <2>3. QED
    BY <2>1, <2>2 DEF Shapes, Begun
<1>2. CASE Retry
  <2>1. failed # Nothing /\ Added(failed.question, failed.key) /\ asked' = asked
    BY <1>2, RetryDoes DEF Retry, kept
  <2>2. QED
    BY <2>1 DEF Shapes, Again
<1>3. ASSUME NEW n \in DOMAIN turn, Accept(n) PROVE Shapes
  <2>1. Stay
    BY <1>3, AcceptDoes DEF Moved
  <2>2. asked' = asked
    BY <1>3 DEF Accept, kept
  <2>3. QED
    BY <2>1, <2>2 DEF Shapes, Kept
<1>4. ASSUME NEW n \in DOMAIN turn, ReadToken(n) PROVE Shapes
  BY <1>4, NothingMoves DEF ReadToken, kept, Shapes, Kept
<1>5. ASSUME NEW n \in DOMAIN turn, ReadDone(n) PROVE Shapes
  <2>1. Stay
    BY <1>5, ReadingDoes DEF Moved
  <2>2. asked' = asked
    BY <1>5 DEF ReadDone, kept
  <2>3. QED
    BY <2>1, <2>2 DEF Shapes, Kept
<1>6. ASSUME NEW n \in DOMAIN turn, ReadError(n) PROVE Shapes
  <2>1. Stay
    BY <1>6, ReadingDoes DEF Moved
  <2>2. asked' = asked
    BY <1>6 DEF ReadError, kept
  <2>3. QED
    BY <2>1, <2>2 DEF Shapes, Kept
<1>7. ASSUME NEW n \in DOMAIN turn, ReadEnd(n) PROVE Shapes
  <2>1. Stay
    BY <1>7, ReadingDoes DEF Moved
  <2>2. asked' = asked
    BY <1>7 DEF ReadEnd, kept
  <2>3. QED
    BY <2>1, <2>2 DEF Shapes, Kept
<1>8. ASSUME NEW n \in DOMAIN turn, Broken(n) PROVE Shapes
  <2>1. Stay
    BY <1>8, ReadingDoes DEF Moved
  <2>2. asked' = asked
    BY <1>8 DEF Broken, kept
  <2>3. QED
    BY <2>1, <2>2 DEF Shapes, Kept
<1>9. ASSUME NEW n \in DOMAIN turn, RefusedForQuota(n) \/ RefusedOtherwise(n)
      PROVE Shapes
  <2>1. Refused(n)
    BY <1>9 DEF RefusedForQuota, RefusedOtherwise
  <2>2. Stay
    BY <2>1, ReadingDoes DEF Moved
  <2>3. asked' = asked
    BY <2>1 DEF Refused, kept
  <2>4. QED
    BY <2>2, <2>3 DEF Shapes, Kept
<1>10. CASE ElsewhereAsked \/ ServeUsage \/ UsageLost
  BY <1>10, NothingMoves DEF ElsewhereAsked, ServeUsage, UsageLost, kept, Shapes, Kept
<1>11. ASSUME NEW a \in landing, UsageLands(a) PROVE Shapes
  BY <1>11, NothingMoves DEF UsageLands, kept, Shapes, Kept
<1>12. CASE Render
  BY <1>12, NothingMoves DEF Render, Shapes, Kept
<1>13. CASE Reload
  <2>1. Stay
    BY <1>13, GoneGoes DEF AllGone, Reload, IInv, Typed
  <2>2. asked' = asked
    BY <1>13 DEF Reload
  <2>3. QED
    BY <2>1, <2>2 DEF Shapes, Kept
<1>14. CASE UNCHANGED vars
  BY <1>14, NothingMoves DEF vars, kept, Shapes, Kept
<1>15. QED
  BY <1>1, <1>2, <1>3, <1>4, <1>5, <1>6, <1>7, <1>8, <1>9, <1>10, <1>11, <1>12,
     <1>13, <1>14 DEF Next, Reads

\* An attempt keeps what it was made with.
LEMMA TurnTypeStep ==
  ASSUME IInv, [Next]_vars
  PROVE  TurnTyped'
BY TurnShapes DEF Shapes, Kept, Begun, Again, Stay, Added

\* Only a question that was not asked before is given a key.
LEMMA KeysStep ==
  ASSUME IInv, [Next]_vars
  PROVE  KeysOK'
<1>1. KeysOK
  BY DEF IInv
<1>2. CASE Kept
  BY <1>1, <1>2 DEF KeysOK, Kept, Stay
<1>3. ASSUME NEW q \in Questions, Begun(q) PROVE KeysOK'
  <2>1. \A n \in DOMAIN turn : turn[n].question # q
    BY <1>1, <1>3 DEF KeysOK, Begun
  <2>2. DOMAIN turn' = DOMAIN turn \cup {Len(turn) + 1}
    BY <1>3 DEF Begun, Added
  <2>3. QED
    BY <1>1, <1>3, <2>1, <2>2 DEF KeysOK, Begun, Added
<1>4. CASE Again
  <2>1. PICK n \in DOMAIN turn : turn[n].question = failed.question /\ turn[n].key = failed.key
    BY <1>4 DEF Again, IInv, TurnsOK
  <2>2. DOMAIN turn' = DOMAIN turn \cup {Len(turn) + 1}
    BY <1>4 DEF Again, Added
  <2>3. QED
    BY <1>1, <1>4, <2>1, <2>2 DEF KeysOK, Again, Added
<1>5. QED
  BY <1>2, <1>3, <1>4, TurnShapes DEF Shapes


\* What is stored is what was on the page.
LEMMA BubblesTypeStep ==
  ASSUME IInv, [Next]_vars
  PROVE  BubblesTyped'
<1>1. ASSUME NEW q \in Questions, SendMessage(q) PROVE BubblesTyped'
  BY <1>1, SendDoes DEF SendMessage, RunTurn, server, page, usage, kept, Added,
      Grew, IInv, Typed, BubblesTyped
<1>2. CASE Retry
  BY <1>2, RetryDoes DEF Retry, RunTurn, server, page, usage, kept, Added,
      Rewrote, IInv, Typed, BubblesTyped
<1>3. ASSUME NEW n \in DOMAIN turn, Accept(n) PROVE BubblesTyped'
  BY <1>3, AcceptDoes DEF Accept, server, page, usage, kept, Moved, Stay, IInv,
      Typed, BubblesTyped
<1>4. ASSUME NEW n \in DOMAIN turn, ReadToken(n) PROVE BubblesTyped'
  BY <1>4, ReadingDoes DEF ReadToken, server, page, usage, kept, Rewrote, IInv,
      Typed, BubblesTyped
<1>5. ASSUME NEW n \in DOMAIN turn, ReadDone(n) PROVE BubblesTyped'
  <2>1. bubbles' \in Seq(Bubble) /\ stored' = stored
    BY <1>5, ReadingDoes DEF Rewrote, ReadDone, kept
  <2>2. turn[n].history \in Seq(Questions) /\ turn[n].question \in Questions
    BY AttemptsAreTurns DEF IInv, Typed, Turns
  <2>3. memory' \in Seq(Questions)
    BY <1>5, <2>2, AppendProperties DEF ReadDone
  <2>4. QED
    BY <2>1, <2>3 DEF BubblesTyped, IInv, Typed
<1>6. ASSUME NEW n \in DOMAIN turn, ReadError(n) PROVE BubblesTyped'
  BY <1>6, ReadingDoes DEF ReadError, OfferRetry, RefreshUsage, server, page,
      usage, kept, Moved, Stay, Rewrote, IInv, Typed, BubblesTyped
<1>7. ASSUME NEW n \in DOMAIN turn, ReadEnd(n) PROVE BubblesTyped'
  BY <1>7, ReadingDoes DEF ReadEnd, server, page, usage, kept, Moved, Stay,
      IInv, Typed, BubblesTyped
<1>8. ASSUME NEW n \in DOMAIN turn, Broken(n) PROVE BubblesTyped'
  BY <1>8, ReadingDoes DEF Broken, OfferRetry, RefreshUsage, server, page,
      usage, kept, Moved, Stay, Rewrote, IInv, Typed, BubblesTyped
<1>9. ASSUME NEW n \in DOMAIN turn, RefusedForQuota(n) \/ RefusedOtherwise(n)
      PROVE BubblesTyped'
  BY <1>9, ReadingDoes DEF RefusedForQuota, RefusedOtherwise, Refused,
      MarkExhausted, server, page, usage, kept, Moved, Stay, Rewrote, IInv,
      Typed, BubblesTyped
<1>10. CASE ElsewhereAsked \/ ServeUsage \/ UsageLost
  BY <1>10 DEF ElsewhereAsked, ServeUsage, UsageLost, server, page, usage,
      kept, IInv, Typed, BubblesTyped
<1>11. ASSUME NEW a \in landing, UsageLands(a) PROVE BubblesTyped'
  BY <1>11 DEF UsageLands, server, page, usage, kept, IInv, Typed, BubblesTyped
<1>12. CASE Render
  BY <1>12 DEF Render, Save, SaveFails, page, IInv, Typed, BubblesTyped
<1>13. CASE Reload
  BY <1>13, GoneGoes DEF Reload, server, page, usage, kept, AllGone, Stay,
      IInv, Typed, BubblesTyped
<1>14. CASE UNCHANGED vars
  BY <1>14 DEF vars, server, page, usage, kept, IInv, Typed, BubblesTyped
<1>15. QED
  BY <1>1, <1>2, <1>3, <1>4, <1>5, <1>6, <1>7, <1>8, <1>9, <1>10, <1>11, <1>12,
     <1>13, <1>14 DEF Next, Reads

\* An answer is a bubble.
LEMMA AnswersAreBubbles ==
  ASSUME NEW seq \in Seq(Bubble)
  PROVE  Answers(seq) \subseteq Bubble
<1>1. \A i \in DOMAIN seq : seq[i] \in Bubble
  BY LenProperties, ElementOfSeq
<1>2. QED
  BY <1>1 DEF Answers, ToSet

\* What a render sees is what is there.
LEMMA ViewTypeStep ==
  ASSUME IInv, [Next]_vars
  PROVE  ViewTyped'
<1>a. ViewTyped /\ BubblesTyped /\ UsageTyped
  BY DEF IInv, Typed
<1>1. ASSUME NEW q \in Questions, SendMessage(q) PROVE ViewTyped'
  <2>1. /\ failed' = Nothing /\ inFlight' = TRUE /\ view' = view
        /\ asked' = asked \cup {q} /\ answered' = answered /\ unsaved' = unsaved
    BY <1>1 DEF SendMessage, RunTurn
  <2>2. QED
    BY <1>a, <2>1 DEF ViewTyped, Failures
<1>2. CASE Retry
  <2>1. /\ failed' = Nothing /\ inFlight' = TRUE /\ view' = view
        /\ asked' = asked /\ answered' = answered /\ unsaved' = unsaved
    BY <1>2 DEF Retry, RunTurn, kept
  <2>2. QED
    BY <1>a, <2>1 DEF ViewTyped, Failures
<1>3. ASSUME NEW n \in DOMAIN turn, Accept(n) PROVE ViewTyped'
  BY <1>3, <1>a, AcceptDoes DEF Accept, server, page, usage, kept, ViewTyped
<1>4. ASSUME NEW n \in DOMAIN turn, ReadToken(n) PROVE ViewTyped'
  BY <1>4, <1>a, ReadingDoes DEF ReadToken, server, page, usage, kept,
      ViewTyped
<1>5. ASSUME NEW n \in DOMAIN turn, ReadDone(n) PROVE ViewTyped'
  BY <1>5, <1>a, ReadingDoes DEF ReadDone, server, page, usage, kept, ViewTyped
<1>6. ASSUME NEW n \in DOMAIN turn, ReadError(n) PROVE ViewTyped'
  <2>1. failed' \in Failures
    BY <1>6, AttemptsAreTurns DEF ReadError, OfferRetry, Failures, IInv, Typed, Turns
  <2>2. /\ inFlight' \in BOOLEAN /\ view' = view /\ asked' = asked
        /\ answered' = answered /\ unsaved' = unsaved
    BY <1>6, <1>a DEF ReadError, kept, ViewTyped
  <2>3. QED
    BY <1>a, <2>1, <2>2 DEF ViewTyped
<1>7. ASSUME NEW n \in DOMAIN turn, ReadEnd(n) PROVE ViewTyped'
  BY <1>7, <1>a, ReadingDoes DEF ReadEnd, server, page, usage, kept, ViewTyped
<1>8. ASSUME NEW n \in DOMAIN turn, Broken(n) PROVE ViewTyped'
  <2>1. failed' \in Failures
    BY <1>8, AttemptsAreTurns DEF Broken, OfferRetry, Failures, IInv, Typed, Turns
  <2>2. /\ inFlight' \in BOOLEAN /\ view' = view /\ asked' = asked
        /\ answered' \subseteq answered /\ unsaved' = unsaved
    BY <1>8, <1>a DEF Broken, ViewTyped
  <2>3. QED
    BY <1>a, <2>1, <2>2 DEF ViewTyped
<1>9. ASSUME NEW n \in DOMAIN turn, RefusedForQuota(n) \/ RefusedOtherwise(n)
      PROVE ViewTyped'
  BY <1>9, <1>a, ReadingDoes DEF RefusedForQuota, RefusedOtherwise, Refused,
      MarkExhausted, server, page, usage, kept, ViewTyped
<1>10. CASE ElsewhereAsked \/ ServeUsage \/ UsageLost
  BY <1>10, <1>a DEF ElsewhereAsked, ServeUsage, UsageLost, server, page,
      usage, kept, ViewTyped
<1>11. ASSUME NEW a \in landing, UsageLands(a) PROVE ViewTyped'
  BY <1>11, <1>a DEF UsageLands, server, page, usage, kept, ViewTyped
<1>12. CASE Render
  <2>1. /\ failed' = failed /\ inFlight' = inFlight /\ asked' = asked
    BY <1>12 DEF Render, page
  <2>2. view' \in [loading : BOOLEAN, failed : Failures, shut : BOOLEAN,
                   history : Seq(Questions), asked : SUBSET Questions]
    BY <1>12, <1>a DEF Render, Current, Loading, ViewTyped, BubblesTyped
  <2>3. answered' \in SUBSET Bubble /\ unsaved' \in BOOLEAN
    <3>1. Answers(bubbles) \subseteq Bubble
      BY <1>a, AnswersAreBubbles DEF BubblesTyped
    <3>2. QED
      BY <1>12, <1>a, <3>1 DEF Render, Save, SaveFails, ViewTyped
  <2>4. QED
    BY <1>a, <2>1, <2>2, <2>3 DEF ViewTyped
<1>13. CASE Reload
  <2>1. /\ failed' = Nothing /\ inFlight' = FALSE /\ asked' = asked /\ unsaved' = FALSE
        /\ view' = [loading |-> FALSE, failed |-> Nothing, shut |-> FALSE,
                    history |-> stored.history, asked |-> asked]
    BY <1>13 DEF Reload
  <2>2. answered' \in SUBSET Bubble
    BY <1>13, <1>a, AnswersAreBubbles DEF Reload, Restored, ViewTyped, BubblesTyped
  <2>3. QED
    BY <1>a, <2>1, <2>2 DEF ViewTyped, BubblesTyped, Failures
<1>14. CASE UNCHANGED vars
  BY <1>14, <1>a DEF vars, server, page, usage, kept, ViewTyped
<1>15. QED
  BY <1>1, <1>2, <1>3, <1>4, <1>5, <1>6, <1>7, <1>8, <1>9, <1>10, <1>11, <1>12,
     <1>13, <1>14 DEF Next, Reads

\* The calls that are out stay within their bound.
LEMMA RefreshesTyped ==
  ASSUME UsageTyped, RefreshUsage
  PROVE  asks' \in 0..MaxAsks /\ landing' = landing
<1>1. IsFiniteSet(0..MaxQueries)
  BY FS_Interval, BoundsAssumption
<1>2. Cardinality(landing) \in Nat
  BY <1>1, FS_Subset, FS_CardinalityType DEF UsageTyped
<1>3. QED
  BY <1>2, BoundsAssumption DEF RefreshUsage, UsageTyped

\* The allowance is never overspent.
LEMMA UsageTypeStep ==
  ASSUME IInv, [Next]_vars
  PROVE  UsageTyped'
<1>a. ViewTyped /\ BubblesTyped /\ UsageTyped
  BY DEF IInv, Typed
<1>1. ASSUME NEW q \in Questions, SendMessage(q) PROVE UsageTyped'
  BY <1>1, <1>a, SendDoes DEF SendMessage, RunTurn, server, page, usage, kept,
      UsageTyped
<1>2. CASE Retry
  BY <1>2, <1>a, RetryDoes DEF Retry, RunTurn, server, page, usage, kept,
      UsageTyped
<1>3. ASSUME NEW n \in DOMAIN turn, Accept(n) PROVE UsageTyped'
  <2>1. remaining' \in 0..MaxQueries
    BY <1>3, <1>a, AcceptDoes, BoundsAssumption DEF UsageTyped
  <2>2. paid' \in SUBSET Attempts
    BY <1>3, <1>a, AttemptsAreTurns DEF Accept, server, UsageTyped, IInv, Typed, Turns
  <2>3. UNCHANGED <<shown, asks, landing, reloads>>
    BY <1>3 DEF Accept, page, usage, kept
  <2>4. QED
    BY <1>a, <2>1, <2>2, <2>3 DEF UsageTyped
<1>4. ASSUME NEW n \in DOMAIN turn, ReadToken(n) PROVE UsageTyped'
  BY <1>4, <1>a, ReadingDoes DEF ReadToken, server, page, usage, kept,
      UsageTyped
<1>5. ASSUME NEW n \in DOMAIN turn, ReadDone(n) PROVE UsageTyped'
  <2>1. shown' \in 0..MaxQueries
    BY <1>5, AttemptsAreTurns DEF ReadDone, IInv, Typed, Turns
  <2>2. UNCHANGED <<remaining, paid, asks, landing, reloads>>
    BY <1>5 DEF ReadDone, server, usage, kept
  <2>3. QED
    BY <1>a, <2>1, <2>2, BoundsAssumption DEF UsageTyped
<1>6. ASSUME NEW n \in DOMAIN turn, ReadError(n) PROVE UsageTyped'
  <2>1. asks' \in 0..MaxAsks /\ landing' = landing
    BY <1>6, <1>a, RefreshesTyped DEF ReadError, OfferRetry
  <2>2. UNCHANGED <<remaining, paid, shown, reloads>>
    BY <1>6 DEF ReadError, server, kept
  <2>3. QED
    BY <1>a, <2>1, <2>2 DEF UsageTyped
<1>7. ASSUME NEW n \in DOMAIN turn, ReadEnd(n) PROVE UsageTyped'
  BY <1>7, <1>a, ReadingDoes DEF ReadEnd, server, page, usage, kept, UsageTyped
<1>8. ASSUME NEW n \in DOMAIN turn, Broken(n) PROVE UsageTyped'
  <2>1. asks' \in 0..MaxAsks /\ landing' = landing
    BY <1>8, <1>a, RefreshesTyped DEF Broken, OfferRetry
  <2>2. UNCHANGED <<remaining, paid, shown, reloads>>
    BY <1>8 DEF Broken, server, kept
  <2>3. QED
    BY <1>a, <2>1, <2>2 DEF UsageTyped
<1>9. ASSUME NEW n \in DOMAIN turn, RefusedForQuota(n) \/ RefusedOtherwise(n)
      PROVE UsageTyped'
  <2>1. /\ UNCHANGED <<remaining, paid, asks, landing, reloads>>
        /\ shown' \in {shown, 0}
    BY <1>9 DEF RefusedForQuota, RefusedOtherwise, Refused, MarkExhausted, server,
       usage, kept
  <2>2. QED
    BY <1>a, <2>1, BoundsAssumption DEF UsageTyped
<1>10. CASE ElsewhereAsked \/ ServeUsage \/ UsageLost
  <2>1. CASE ElsewhereAsked
    BY <1>a, <2>1, BoundsAssumption DEF ElsewhereAsked, page, usage, kept, UsageTyped
  <2>2. CASE ServeUsage
    BY <1>a, <2>2, BoundsAssumption DEF ServeUsage, server, page, kept, UsageTyped
  <2>3. CASE UsageLost
    BY <1>a, <2>3, BoundsAssumption DEF UsageLost, server, page, kept, UsageTyped
  <2>4. QED
    BY <1>10, <2>1, <2>2, <2>3
<1>11. ASSUME NEW a \in landing, UsageLands(a) PROVE UsageTyped'
  BY <1>11, <1>a DEF UsageLands, server, page, usage, kept, UsageTyped
<1>12. CASE Render
  BY <1>12, <1>a DEF Render, Current, server, page, usage, kept, UsageTyped
<1>13. CASE Reload
  <2>1. shown' = -1 /\ asks' = 1 /\ landing' = {} /\ UNCHANGED server
        /\ reloads < MaxReloads /\ reloads' = reloads + 1
    BY <1>13 DEF Reload
  <2>2. QED
    BY <1>a, <2>1, BoundsAssumption DEF UsageTyped, server
<1>14. CASE UNCHANGED vars
  BY <1>14, <1>a DEF vars, server, page, usage, kept, UsageTyped
<1>15. QED
  BY <1>1, <1>2, <1>3, <1>4, <1>5, <1>6, <1>7, <1>8, <1>9, <1>10, <1>11, <1>12,
     <1>13, <1>14 DEF Next, Reads

\* An attempt begins with none in hand, and with a bubble of its own.
LEMMA NewInHand ==
  ASSUME IInv, NEW q, NEW k, Added(q, k), ~inFlight, inFlight', failed' = Nothing,
         memory' = memory, bubbles' # <<>>, Last(bubbles').of = q,
         Last(bubbles').status = "streaming", Last(bubbles').text = {}
  PROVE  TurnsOK'
<1>1. \A m \in DOMAIN turn : turn[m].at \notin {"out", "open", "finished"}
  BY HeldInHand DEF InHand
<1>2. \A m \in DOMAIN turn' : turn'[m].at \in {"out", "open", "finished"} => m = Len(turn) + 1
  BY <1>1 DEF Added
<1>3. view.history = memory
  BY DEF IInv, ViewOK
<1>4. Loading'
  BY DEF Loading
<1>5. \A m \in DOMAIN turn' : m = Len(turn) + 1 => InHand(m)' /\ turn'[m].history = memory'
  BY <1>3 DEF InHand, Added
<1>6. \A m \in DOMAIN turn' : m = Len(turn) + 1 => turn'[m].at # "finished"
  BY DEF Added
<1>7. QED
  BY <1>2, <1>4, <1>5, <1>6 DEF TurnsOK, Running

\* An attempt that moves on by what the server does is in hand as it was.
LEMMA HandsStay ==
  ASSUME TurnsOK, Stay, bubbles' = bubbles, memory' = memory, failed' = failed,
         inFlight' = inFlight, \A m \in DOMAIN turn : Running(m)' => Running(m),
         \A m \in DOMAIN turn : turn'[m].at = "finished" => turn[m].at = "finished"
  PROVE  TurnsOK'
<1>1. Loading' = Loading
  BY DEF Loading
<1>2. \A m \in DOMAIN turn : InHand(m) => InHand(m)'
  BY DEF InHand, Stay
<1>3. \A m \in DOMAIN turn' : Running(m)' =>
        Loading' /\ InHand(m)' /\ turn'[m].history = memory' /\ failed' = Nothing
  BY <1>1, <1>2 DEF TurnsOK, Stay
<1>4. \A m \in DOMAIN turn' : turn'[m].at = "finished" => ~Loading' /\ InHand(m)'
  BY <1>1, <1>2 DEF TurnsOK, Stay
<1>5. failed' # Nothing =>
        /\ bubbles' # <<>> /\ Last(bubbles').of = failed'.question
        /\ \E n \in DOMAIN turn' :
             turn'[n].question = failed'.question /\ turn'[n].key = failed'.key
  BY DEF TurnsOK, Stay
<1>6. QED
  BY <1>3, <1>4, <1>5 DEF TurnsOK

\* When the attempt in hand is done with its bubble, nobody speaks, and its
\* question is what may be asked again.
LEMMA NoneLeft ==
  ASSUME IInv, NEW n \in DOMAIN turn, turn[n].at \in {"out", "open", "finished"},
         NEW at, NEW u, Moved(n, at, u),
         at \in {"gone", "over"} \/ (at = "finished" /\ inFlight' = inFlight),
         NEW status \in {"complete", "error"}, NEW text, Rewrote(status, text),
         text \subseteq {n},
         failed' \in {Nothing, [question |-> turn[n].question, key |-> turn[n].key]}
  PROVE  TurnsOK'
<1>1. InHand(n) /\ \A m \in DOMAIN turn : turn[m].at \in {"out", "open", "finished"} => m = n
  BY HeldInHand DEF InHand
<1>2. ~Loading'
  BY DEF Rewrote, Loading
<1>3. \A m \in DOMAIN turn' : turn'[m].at \notin {"out", "open"}
  BY <1>1 DEF Moved, Stay
<1>4. \A m \in DOMAIN turn' : turn'[m].at = "finished" => m = n /\ at = "finished"
  BY <1>1 DEF Moved, Stay
<1>5. turn'[n].question = turn[n].question /\ turn'[n].key = turn[n].key /\ n \in DOMAIN turn'
      /\ Len(turn') = Len(turn)
  BY DEF Moved, Stay
<1>6. bubbles' # <<>> /\ Last(bubbles').of = turn[n].question /\ Last(bubbles').text \subseteq {n}
  BY <1>1 DEF Rewrote, InHand
<1>7. at = "finished" => InHand(n)'
  BY <1>1, <1>5, <1>6 DEF InHand
<1>8. failed' # Nothing =>
        /\ failed'.question = turn[n].question /\ failed'.key = turn[n].key
  OBVIOUS
<1>9. QED
  BY <1>2, <1>3, <1>4, <1>5, <1>6, <1>7, <1>8 DEF TurnsOK, Running


\* An attempt is sent when none is in hand, and rewrites its own bubble.
LEMMA TurnsStep ==
  ASSUME IInv, [Next]_vars
  PROVE  TurnsOK'
<1>a. TurnsOK
  BY DEF IInv
<1>1. ASSUME NEW q \in Questions, SendMessage(q) PROVE TurnsOK'
  <2>1. /\ Added(q, Len(turn) + 1) /\ Grew(q) /\ failed' = Nothing /\ inFlight'
        /\ memory' = memory /\ ~inFlight
    BY <1>1, SendDoes DEF SendMessage, RunTurn
  <2>2. QED
    BY <2>1, NewInHand DEF Grew
<1>2. CASE Retry
  <2>1. /\ failed # Nothing /\ Added(failed.question, failed.key)
        /\ Rewrote("streaming", {}) /\ failed' = Nothing /\ inFlight'
        /\ memory' = memory /\ ~inFlight
    BY <1>2, RetryDoes DEF Retry, RunTurn
  <2>2. Last(bubbles).of = failed.question
    BY <1>a, <2>1 DEF TurnsOK
  <2>3. QED
    BY <2>1, <2>2, NewInHand DEF Rewrote
<1>3. ASSUME NEW n \in DOMAIN turn, Accept(n) PROVE TurnsOK'
  <2>1. /\ Moved(n, IF turn[n].at = "out" THEN "open" ELSE "over",
                 IF turn[n].at = "out" THEN remaining' ELSE 0)
        /\ bubbles' = bubbles /\ memory' = memory /\ failed' = failed /\ inFlight' = inFlight
    BY <1>3, AcceptDoes DEF Accept, page
  <2>2. \A m \in DOMAIN turn : Running(m)' => Running(m)
    BY <2>1 DEF Moved, Running
  <2>3. \A m \in DOMAIN turn : turn'[m].at = "finished" => turn[m].at = "finished"
    BY <2>1 DEF Moved
  <2>4. Stay
    BY <2>1 DEF Moved
  <2>5. QED
    BY <1>a, <2>1, <2>2, <2>3, <2>4, HandsStay
<1>4. ASSUME NEW n \in DOMAIN turn, ReadToken(n) PROVE TurnsOK'
  <2>1. /\ Rewrote(Last(bubbles).status, Last(bubbles).text \cup {n}) /\ turn' = turn
        /\ memory' = memory /\ failed' = failed /\ inFlight' = inFlight /\ turn[n].at = "open"
    BY <1>4, ReadingDoes DEF ReadToken
  <2>2. InHand(n) /\ Running(n)
    BY <2>1, HeldInHand DEF Running
  <2>3. /\ Loading /\ Last(bubbles).of = turn[n].question /\ Last(bubbles).text \subseteq {n}
        /\ turn[n].history = memory /\ failed = Nothing /\ n = Len(turn) /\ inFlight
    BY <1>a, <2>2 DEF TurnsOK, InHand
  <2>4. \A m \in DOMAIN turn : turn[m].at \in {"out", "open", "finished"} => m = n
    BY <2>2, HeldInHand DEF InHand
  <2>5. Loading' /\ InHand(n)'
    BY <2>1, <2>3 DEF Rewrote, Loading, InHand
  <2>6. QED
    BY <2>1, <2>3, <2>4, <2>5 DEF TurnsOK, Running
<1>5. ASSUME NEW n \in DOMAIN turn, ReadDone(n) PROVE TurnsOK'
  <2>1. /\ Rewrote("complete", Last(bubbles).text) /\ Moved(n, "finished", 0)
        /\ failed' = failed /\ inFlight' = inFlight /\ turn[n].at = "open"
    BY <1>5, ReadingDoes DEF ReadDone
  <2>2. Last(bubbles).text \subseteq {n} /\ failed = Nothing
    BY <1>a, <2>1 DEF TurnsOK, Running, InHand
  <2>3. QED
    BY <2>1, <2>2, NoneLeft
<1>6. ASSUME NEW n \in DOMAIN turn, ReadError(n) PROVE TurnsOK'
  <2>1. /\ Rewrote("error", {}) /\ Moved(n, "finished", 0)
        /\ failed' = [question |-> turn[n].question, key |-> turn[n].key]
        /\ inFlight' = inFlight /\ turn[n].at = "open"
    BY <1>6, ReadingDoes DEF ReadError, OfferRetry
  <2>2. QED
    BY <2>1, NoneLeft
<1>7. ASSUME NEW n \in DOMAIN turn, ReadEnd(n) PROVE TurnsOK'
  <2>1. /\ Moved(n, "over", 0) /\ turn[n].at = "finished"
        /\ bubbles' = bubbles /\ memory' = memory /\ failed' = failed
    BY <1>7, ReadingDoes DEF ReadEnd
  <2>2. \A m \in DOMAIN turn : turn[m].at \in {"out", "open", "finished"} => m = n
    BY <2>1, HeldInHand DEF InHand
  <2>3. \A m \in DOMAIN turn : turn'[m].at \notin {"out", "open", "finished"}
    BY <2>1, <2>2 DEF Moved
  <2>4. QED
    BY <1>a, <2>1, <2>3 DEF TurnsOK, Running, Moved, Stay
<1>8. ASSUME NEW n \in DOMAIN turn, Broken(n) PROVE TurnsOK'
  <2>1. /\ Rewrote("error", {}) /\ Moved(n, GivenUp(turn[n].at), 0)
        /\ failed' = [question |-> turn[n].question, key |-> turn[n].key]
        /\ turn[n].at \in {"out", "open", "finished"}
    BY <1>8, ReadingDoes DEF Broken, OfferRetry
  <2>2. GivenUp(turn[n].at) \in {"gone", "over"}
    BY DEF GivenUp
  <2>3. QED
    BY <2>1, <2>2, NoneLeft
<1>9. ASSUME NEW n \in DOMAIN turn, RefusedForQuota(n) \/ RefusedOtherwise(n)
      PROVE TurnsOK'
  <2>1. Refused(n)
    BY <1>9 DEF RefusedForQuota, RefusedOtherwise
  <2>2. /\ Rewrote("error", {}) /\ Moved(n, "over", 0)
        /\ failed' = failed /\ turn[n].at = "out"
    BY <2>1, ReadingDoes DEF Refused
  <2>3. failed = Nothing
    BY <1>a, <2>2 DEF TurnsOK, Running
  <2>4. QED
    BY <2>2, <2>3, NoneLeft
<1>10. CASE ElsewhereAsked \/ ServeUsage \/ UsageLost
  <2>1. UNCHANGED <<turn, bubbles, memory, failed, inFlight>>
    BY <1>10 DEF ElsewhereAsked, ServeUsage, UsageLost, page
  <2>2. QED
    BY <1>a, <2>1 DEF TurnsOK, Running, InHand, Loading
<1>11. ASSUME NEW a \in landing, UsageLands(a) PROVE TurnsOK'
  <2>1. UNCHANGED <<turn, bubbles, memory, failed, inFlight>>
    BY <1>11 DEF UsageLands
  <2>2. QED
    BY <1>a, <2>1 DEF TurnsOK, Running, InHand, Loading
<1>12. CASE Render
  <2>1. UNCHANGED <<turn, bubbles, memory, failed, inFlight>>
    BY <1>12 DEF Render, page
  <2>2. QED
    BY <1>a, <2>1 DEF TurnsOK, Running, InHand, Loading
<1>13. CASE Reload
  <2>1. AllGone /\ failed' = Nothing
    BY <1>13, GoneGoes DEF Reload, IInv, Typed
  <2>2. QED
    BY <2>1 DEF TurnsOK, Running, AllGone, Stay
<1>14. CASE UNCHANGED vars
  <2>1. UNCHANGED <<turn, bubbles, memory, failed, inFlight>>
    BY <1>14 DEF vars, page
  <2>2. QED
    BY <1>a, <2>1 DEF TurnsOK, Running, InHand, Loading
<1>15. QED
  BY <1>1, <1>2, <1>3, <1>4, <1>5, <1>6, <1>7, <1>8, <1>9, <1>10, <1>11, <1>12,
     <1>13, <1>14 DEF Next, Reads

\* The ref is cleared by handlers that run on the last render.
LEMMA ViewStep ==
  ASSUME IInv, [Next]_vars
  PROVE  ViewOK'
<1>1. ASSUME NEW q \in Questions, SendMessage(q) PROVE ViewOK'
  BY <1>1, SendDoes DEF SendMessage, RunTurn, server, page, usage, kept, Added,
      Grew, IInv, ViewOK
<1>2. CASE Retry
  BY <1>2, RetryDoes DEF Retry, RunTurn, server, page, usage, kept, Added,
      Rewrote, IInv, ViewOK
<1>3. ASSUME NEW n \in DOMAIN turn, Accept(n) PROVE ViewOK'
  BY <1>3, AcceptDoes DEF Accept, server, page, usage, kept, Moved, Stay, IInv,
      ViewOK
<1>4. ASSUME NEW n \in DOMAIN turn, ReadToken(n) PROVE ViewOK'
  BY <1>4, ReadingDoes DEF ReadToken, server, page, usage, kept, Rewrote, IInv,
      ViewOK
<1>5. ASSUME NEW n \in DOMAIN turn, ReadDone(n) PROVE ViewOK'
  <2>1. inFlight
    BY <1>5, HeldInHand DEF ReadDone, InHand
  <2>2. inFlight' = inFlight
    BY <1>5 DEF ReadDone
  <2>3. QED
    BY <2>1, <2>2 DEF ViewOK
<1>6. ASSUME NEW n \in DOMAIN turn, ReadError(n) PROVE ViewOK'
  <2>1. inFlight
    BY <1>6, HeldInHand DEF ReadError, InHand
  <2>2. inFlight' = inFlight
    BY <1>6 DEF ReadError
  <2>3. QED
    BY <2>1, <2>2 DEF ViewOK
<1>7. ASSUME NEW n \in DOMAIN turn, ReadEnd(n) PROVE ViewOK'
  <2>1. view.failed = failed /\ view.history = memory /\ view.asked = asked
    BY <1>7, RenderedSees DEF ReadEnd
  <2>2. view' = view /\ asked' = asked /\ memory' = memory /\ failed' = failed
    BY <1>7 DEF ReadEnd, kept
  <2>3. QED
    BY <2>1, <2>2 DEF ViewOK
<1>8. ASSUME NEW n \in DOMAIN turn, Broken(n) PROVE ViewOK'
  <2>1. view.failed = failed /\ view.history = memory /\ view.asked = asked
    BY <1>8, RenderedSees DEF Broken
  <2>2. failed \in {Nothing, [question |-> turn[n].question, key |-> turn[n].key]}
    BY <1>8, HeldInHand DEF Broken, InHand
  <2>3. /\ view' = view /\ asked' = asked /\ memory' = memory
        /\ failed' = [question |-> turn[n].question, key |-> turn[n].key]
    BY <1>8 DEF Broken, OfferRetry, kept
  <2>4. QED
    BY <2>1, <2>2, <2>3 DEF ViewOK
<1>9. ASSUME NEW n \in DOMAIN turn, RefusedForQuota(n) \/ RefusedOtherwise(n)
      PROVE ViewOK'
  <2>1. Rendered /\ view' = view /\ asked' = asked /\ memory' = memory /\ failed' = failed
    BY <1>9 DEF RefusedForQuota, RefusedOtherwise, Refused, kept
  <2>2. view.failed = failed /\ view.history = memory /\ view.asked = asked
    BY <2>1, RenderedSees
  <2>3. QED
    BY <2>1, <2>2 DEF ViewOK
<1>10. CASE ElsewhereAsked \/ ServeUsage \/ UsageLost
  BY <1>10 DEF ElsewhereAsked, ServeUsage, UsageLost, server, page, usage,
      kept, IInv, ViewOK
<1>11. ASSUME NEW a \in landing, UsageLands(a) PROVE ViewOK'
  BY <1>11 DEF UsageLands, server, page, usage, kept, IInv, ViewOK
<1>12. CASE Render
  BY <1>12 DEF Render, Current, server, page, usage, kept, IInv, ViewOK
<1>13. CASE Reload
  <2>1. /\ failed' = Nothing /\ asked' = asked /\ memory' = stored.history
        /\ view'.failed = Nothing /\ view'.history = stored.history /\ view'.asked = asked
    BY <1>13 DEF Reload
  <2>2. QED
    BY <2>1 DEF ViewOK
<1>14. CASE UNCHANGED vars
  BY <1>14 DEF vars, server, page, usage, kept, IInv, ViewOK
<1>15. QED
  BY <1>1, <1>2, <1>3, <1>4, <1>5, <1>6, <1>7, <1>8, <1>9, <1>10, <1>11, <1>12,
     <1>13, <1>14 DEF Next, Reads

\* What was asked, and the question of every attempt, is never changed.
OldStays ==
  /\ asked \subseteq asked'
  /\ \A n \in DOMAIN turn : n \in DOMAIN turn' /\ turn'[n].question = turn[n].question

\* No step unasks a question or turns an attempt to another.
LEMMA OldOnesStay ==
  ASSUME IInv, [Next]_vars
  PROVE  OldStays
BY TurnShapes DEF Shapes, Kept, Begun, Again, Stay, Added, OldStays

\* A bubble is rewritten to words of one attempt at its own question, or to none.
LEMMA RewroteOwned ==
  ASSUME OldStays, BubblesOK, NEW status, NEW text, Rewrote(status, text), stored' = stored,
         \A m, n \in text : m = n,
         \A n \in text : n \in DOMAIN turn /\ turn[n].question = Last(bubbles).of
  PROVE  BubblesOK'
<1>1. Owned(stored.bubbles)'
  BY DEF BubblesOK, Owned, OldStays
<1>2. ASSUME NEW i \in DOMAIN bubbles', i # Len(bubbles)
      PROVE  /\ bubbles'[i].of \in asked' /\ \A m, n \in bubbles'[i].text : m = n
             /\ \A n \in bubbles'[i].text :
                  n \in DOMAIN turn' /\ turn'[n].question = bubbles'[i].of
  BY <1>2 DEF Rewrote, BubblesOK, Owned, OldStays
<1>3. Last(bubbles).of \in asked
  BY DEF Rewrote, BubblesOK, Owned, Last
<1>4. /\ Last(bubbles').of \in asked' /\ \A m, n \in Last(bubbles').text : m = n
      /\ \A n \in Last(bubbles').text :
           n \in DOMAIN turn' /\ turn'[n].question = Last(bubbles').of
  BY <1>3 DEF Rewrote, OldStays
<1>5. Last(bubbles') = bubbles'[Len(bubbles)]
  BY DEF Rewrote
<1>6. \A i, j \in DOMAIN bubbles' : bubbles'[i].of = bubbles'[j].of => i = j
  <2>1. \A i \in DOMAIN bubbles' : i \in DOMAIN bubbles /\ bubbles'[i].of = bubbles[i].of
    BY DEF Rewrote, Last
  <2>2. QED
    BY <2>1 DEF BubblesOK, Owned
<1>7. Owned(bubbles)'
  BY <1>2, <1>4, <1>5, <1>6 DEF Owned
<1>8. QED
  BY <1>1, <1>7 DEF BubblesOK


\* A bubble is opened empty, and only its own attempt speaks in it.
LEMMA BubblesStep ==
  ASSUME IInv, [Next]_vars
  PROVE  BubblesOK'
<1>a. /\ BubblesOK /\ OldStays /\ Owned(bubbles) /\ Owned(stored.bubbles)
      /\ asked \subseteq asked'
      /\ \A n \in DOMAIN turn : n \in DOMAIN turn' /\ turn'[n].question = turn[n].question
  BY OldOnesStay DEF IInv, BubblesOK, OldStays
<1>1. ASSUME NEW q \in Questions, SendMessage(q) PROVE BubblesOK'
  <2>1. Grew(q) /\ stored' = stored /\ asked' = asked \cup {q} /\ q \notin asked
    BY <1>1, SendDoes DEF SendMessage, IInv, ViewOK
  <2>2. Owned(bubbles)'
    <3>1. ASSUME NEW i \in DOMAIN bubbles', i \in DOMAIN bubbles
          PROVE  /\ bubbles'[i].of \in asked' /\ \A m, n \in bubbles'[i].text : m = n
                 /\ \A n \in bubbles'[i].text :
                      n \in DOMAIN turn' /\ turn'[n].question = bubbles'[i].of
      BY <1>a, <2>1, <3>1 DEF Grew, Owned
    <3>2. ASSUME NEW i \in DOMAIN bubbles', i \notin DOMAIN bubbles
          PROVE  bubbles'[i].of \in asked' /\ bubbles'[i].text = {}
      BY <2>1, <3>2 DEF Grew
    <3>3. ASSUME NEW i \in DOMAIN bubbles', NEW j \in DOMAIN bubbles',
                 bubbles'[i].of = bubbles'[j].of
          PROVE  i = j
      <4>1. \A k \in DOMAIN bubbles : bubbles'[k].of \in asked
        BY <1>a, <2>1 DEF Grew, Owned
      <4>2. \A k \in DOMAIN bubbles' :
              k \notin DOMAIN bubbles => k = Len(bubbles) + 1 /\ bubbles'[k].of = q
        BY <2>1 DEF Grew
      <4>3. CASE i \in DOMAIN bubbles /\ j \in DOMAIN bubbles
        BY <1>a, <2>1, <3>3, <4>3 DEF Grew, Owned
      <4>4. QED
        BY <2>1, <3>3, <4>1, <4>2, <4>3
    <3>4. QED
      BY <3>1, <3>2, <3>3 DEF Owned
  <2>3. QED
    BY <1>a, <2>1, <2>2 DEF BubblesOK, Owned
<1>2. CASE Retry
  <2>1. Rewrote("streaming", {}) /\ stored' = stored
    BY <1>2, RetryDoes DEF Retry, kept
  <2>2. QED
    BY <1>a, <2>1, RewroteOwned
<1>3. ASSUME NEW n \in DOMAIN turn, Accept(n) PROVE BubblesOK'
  BY <1>3, <1>a DEF Accept, page, kept, BubblesOK, Owned
<1>4. ASSUME NEW n \in DOMAIN turn, ReadToken(n) PROVE BubblesOK'
  <2>1. Rewrote(Last(bubbles).status, Last(bubbles).text \cup {n}) /\ stored' = stored
    BY <1>4, ReadingDoes DEF ReadToken, kept
  <2>2. Last(bubbles).text \subseteq {n} /\ turn[n].question = Last(bubbles).of
    BY <1>4, HeldInHand DEF ReadToken, InHand
  <2>3. /\ \A m, k \in Last(bubbles).text \cup {n} : m = k
        /\ \A m \in Last(bubbles).text \cup {n} :
             m \in DOMAIN turn /\ turn[m].question = Last(bubbles).of
    BY <2>2
  <2>4. QED
    BY <1>a, <2>1, <2>3, RewroteOwned
<1>5. ASSUME NEW n \in DOMAIN turn, ReadDone(n) PROVE BubblesOK'
  <2>1. Rewrote("complete", Last(bubbles).text) /\ stored' = stored
    BY <1>5, ReadingDoes DEF ReadDone, kept
  <2>2. Len(bubbles) \in DOMAIN bubbles
    BY <2>1 DEF Rewrote
  <2>3. QED
    BY <1>a, <2>1, <2>2, RewroteOwned DEF Owned, Last
<1>6. ASSUME NEW n \in DOMAIN turn, ReadError(n) PROVE BubblesOK'
  <2>1. Rewrote("error", {}) /\ stored' = stored
    BY <1>6, ReadingDoes DEF ReadError, kept
  <2>2. QED
    BY <1>a, <2>1, RewroteOwned
<1>7. ASSUME NEW n \in DOMAIN turn, ReadEnd(n) PROVE BubblesOK'
  BY <1>7, <1>a DEF ReadEnd, kept, BubblesOK, Owned
<1>8. ASSUME NEW n \in DOMAIN turn, Broken(n) PROVE BubblesOK'
  <2>1. Rewrote("error", {}) /\ stored' = stored
    BY <1>8, ReadingDoes DEF Broken
  <2>2. QED
    BY <1>a, <2>1, RewroteOwned
<1>9. ASSUME NEW n \in DOMAIN turn, RefusedForQuota(n) \/ RefusedOtherwise(n)
      PROVE BubblesOK'
  <2>1. Rewrote("error", {}) /\ stored' = stored
    BY <1>9, ReadingDoes DEF RefusedForQuota, RefusedOtherwise, Refused, kept
  <2>2. QED
    BY <1>a, <2>1, RewroteOwned
<1>10. CASE ElsewhereAsked \/ ServeUsage \/ UsageLost
  BY <1>10, <1>a DEF ElsewhereAsked, ServeUsage, UsageLost, page, kept, BubblesOK, Owned
<1>11. ASSUME NEW a \in landing, UsageLands(a) PROVE BubblesOK'
  BY <1>11, <1>a DEF UsageLands, kept, BubblesOK, Owned
<1>12. CASE Render
  <2>1. bubbles' = bubbles /\ stored'.bubbles \in {stored.bubbles, bubbles}
    BY <1>12 DEF Render, Save, SaveFails, page
  <2>2. QED
    BY <1>a, <2>1 DEF BubblesOK, Owned
<1>13. CASE Reload
  <2>1. bubbles' = stored.bubbles /\ stored' = stored
    BY <1>13 DEF Reload
  <2>2. QED
    BY <1>a, <2>1 DEF BubblesOK, Owned
<1>14. CASE UNCHANGED vars
  BY <1>14, <1>a DEF vars, page, kept, BubblesOK, Owned
<1>15. QED
  BY <1>1, <1>2, <1>3, <1>4, <1>5, <1>6, <1>7, <1>8, <1>9, <1>10, <1>11, <1>12,
     <1>13, <1>14 DEF Next, Reads

\* What is left never grows.
LEMMA UsageStep ==
  ASSUME IInv, [Next]_vars
  PROVE  UsageOK'
<1>a. /\ shown # -1 => shown >= remaining
      /\ \A a \in landing : a >= remaining
      /\ \A m \in DOMAIN turn : turn[m].at = "open" => turn[m].usage >= remaining
      /\ remaining \in Nat /\ shown \in Int /\ \A a \in landing : a \in Nat
      /\ \A m \in DOMAIN turn : turn[m].usage \in Nat
  <2>1. remaining \in Nat /\ shown \in Int /\ \A a \in landing : a \in Nat
    BY BoundsAssumption DEF IInv, Typed, UsageTyped
  <2>2. \A m \in DOMAIN turn : turn[m].usage \in Nat
    BY BoundsAssumption, AttemptsAreTurns DEF IInv, Typed, Turns
  <2>3. QED
    BY <2>1, <2>2 DEF IInv, UsageOK
<1>1. ASSUME NEW q \in Questions, SendMessage(q) PROVE UsageOK'
  <2>1. /\ DOMAIN turn' = DOMAIN turn \cup {Len(turn) + 1}
        /\ turn'[Len(turn) + 1].at = "out"
        /\ \A m \in DOMAIN turn : turn'[m] = turn[m]
    BY <1>1, SendDoes DEF Added
  <2>2. remaining' = remaining /\ landing' = landing /\ shown' = shown
    BY <1>1 DEF SendMessage, server, usage
  <2>3. QED
    BY <1>a, <2>1, <2>2 DEF UsageOK
<1>2. CASE Retry
  <2>1. /\ DOMAIN turn' = DOMAIN turn \cup {Len(turn) + 1}
        /\ turn'[Len(turn) + 1].at = "out"
        /\ \A m \in DOMAIN turn : turn'[m] = turn[m]
    BY <1>2, RetryDoes DEF Added
  <2>2. remaining' = remaining /\ landing' = landing /\ shown' = shown
    BY <1>2 DEF Retry, server, usage
  <2>3. QED
    BY <1>a, <2>1, <2>2 DEF UsageOK
<1>3. ASSUME NEW n \in DOMAIN turn, Accept(n) PROVE UsageOK'
  <2>1. /\ remaining' \in 0..remaining
        /\ shown' = shown /\ landing' = landing
    BY <1>3, AcceptDoes DEF Accept, page, usage
  <2>2. /\ DOMAIN turn' = DOMAIN turn /\ (turn'[n].at = "open" => turn'[n].usage = remaining')
        /\ \A m \in DOMAIN turn : m # n => turn'[m] = turn[m]
    BY <1>3, AcceptDoes DEF Moved, Stay
  <2>3. remaining' \in Nat /\ remaining' <= remaining
    BY <2>1, <1>a
  <2>4. \A m \in DOMAIN turn : turn[m].at = "open" => turn[m].usage >= remaining'
    BY <2>3, <1>a
  <2>5. \A m \in DOMAIN turn' : turn'[m].at = "open" => turn'[m].usage >= remaining'
    BY <2>2, <2>3, <2>4
  <2>6. (shown # -1 => shown >= remaining') /\ \A a \in landing : a >= remaining'
    BY <2>3, <1>a
  <2>7. QED
    BY <2>1, <2>5, <2>6 DEF UsageOK
<1>4. ASSUME NEW n \in DOMAIN turn, ReadToken(n) PROVE UsageOK'
  BY <1>4, <1>a, ReadingDoes DEF ReadToken, server, page, usage, kept, UsageOK
<1>5. ASSUME NEW n \in DOMAIN turn, ReadDone(n) PROVE UsageOK'
  <2>1. /\ DOMAIN turn' = DOMAIN turn /\ turn'[n].at \in {"finished", "over"}
        /\ \A m \in DOMAIN turn : m # n => turn'[m] = turn[m]
    BY <1>5, ReadingDoes DEF Moved, Stay
  <2>2. remaining' = remaining /\ landing' = landing /\ shown' \in {shown, turn[n].usage}
    BY <1>5 DEF ReadDone, OfferRetry, RefreshUsage, server, usage
  <2>3. shown' # shown => turn[n].at = "open"
    BY <1>5 DEF ReadDone
  <2>4. QED
    BY <1>a, <2>1, <2>2, <2>3 DEF UsageOK
<1>6. ASSUME NEW n \in DOMAIN turn, ReadError(n) PROVE UsageOK'
  <2>1. /\ DOMAIN turn' = DOMAIN turn /\ turn'[n].at \in {"finished", "over"}
        /\ \A m \in DOMAIN turn : m # n => turn'[m] = turn[m]
    BY <1>6, ReadingDoes DEF Moved, Stay
  <2>2. remaining' = remaining /\ landing' = landing /\ shown' \in {shown, turn[n].usage}
    BY <1>6 DEF ReadError, OfferRetry, RefreshUsage, server, usage
  <2>3. shown' # shown => turn[n].at = "open"
    BY <1>6 DEF ReadError
  <2>4. QED
    BY <1>a, <2>1, <2>2, <2>3 DEF UsageOK
<1>7. ASSUME NEW n \in DOMAIN turn, ReadEnd(n) PROVE UsageOK'
  <2>1. /\ DOMAIN turn' = DOMAIN turn /\ turn'[n].at \in {"finished", "over"}
        /\ \A m \in DOMAIN turn : m # n => turn'[m] = turn[m]
    BY <1>7, ReadingDoes DEF Moved, Stay
  <2>2. remaining' = remaining /\ landing' = landing /\ shown' \in {shown, turn[n].usage}
    BY <1>7 DEF ReadEnd, OfferRetry, RefreshUsage, server, usage
  <2>3. shown' # shown => turn[n].at = "open"
    BY <1>7 DEF ReadEnd
  <2>4. QED
    BY <1>a, <2>1, <2>2, <2>3 DEF UsageOK
<1>8. ASSUME NEW n \in DOMAIN turn, Broken(n) PROVE UsageOK'
  <2>1. /\ DOMAIN turn' = DOMAIN turn /\ turn'[n].at \in {"gone", "over"}
        /\ \A m \in DOMAIN turn : m # n => turn'[m] = turn[m]
    BY <1>8, ReadingDoes DEF Moved, Stay, GivenUp
  <2>2. remaining' = remaining /\ landing' = landing /\ shown' \in {shown, turn[n].usage}
    BY <1>8 DEF Broken, OfferRetry, RefreshUsage, server, usage
  <2>3. shown' # shown => turn[n].at = "open"
    BY <1>8 DEF Broken
  <2>4. QED
    BY <1>a, <2>1, <2>2, <2>3 DEF UsageOK
<1>9. ASSUME NEW n \in DOMAIN turn, RefusedForQuota(n) \/ RefusedOtherwise(n)
      PROVE UsageOK'
  <2>1. /\ DOMAIN turn' = DOMAIN turn /\ turn'[n].at = "over"
        /\ \A m \in DOMAIN turn : m # n => turn'[m] = turn[m]
    BY <1>9, ReadingDoes DEF RefusedForQuota, RefusedOtherwise, Moved, Stay
  <2>2. remaining' = remaining /\ landing' = landing
    BY <1>9 DEF RefusedForQuota, RefusedOtherwise, Refused, server, usage
  <2>3. shown' = shown \/ (remaining = 0 /\ shown' = 0)
    BY <1>9 DEF RefusedForQuota, RefusedOtherwise, MarkExhausted
  <2>4. QED
    BY <1>a, <2>1, <2>2, <2>3 DEF UsageOK
<1>10. CASE ElsewhereAsked \/ ServeUsage \/ UsageLost
  <2>1. /\ remaining' <= remaining /\ remaining' \in Nat
        /\ turn' = turn /\ shown' = shown /\ landing' \subseteq landing \cup {remaining'}
    BY <1>10, <1>a DEF ElsewhereAsked, ServeUsage, UsageLost, server, page, usage, kept
  <2>2. /\ \A m \in DOMAIN turn : turn[m].at = "open" => turn[m].usage >= remaining'
        /\ shown # -1 => shown >= remaining'
        /\ \A a \in landing : a >= remaining'
    BY <2>1, <1>a
  <2>3. QED
    BY <2>1, <2>2 DEF UsageOK
<1>11. ASSUME NEW a \in landing, UsageLands(a) PROVE UsageOK'
  BY <1>11, <1>a DEF UsageLands, server, page, usage, kept, UsageOK
<1>12. CASE Render
  BY <1>12, <1>a DEF Render, Current, server, page, usage, kept, UsageOK
<1>13. CASE Reload
  <2>1. DOMAIN turn' = DOMAIN turn /\ \A m \in DOMAIN turn : turn'[m].at \in {"gone", "over"}
    BY <1>13, GoneGoes DEF AllGone, Stay, Reload, IInv, Typed
  <2>2. shown' = -1 /\ landing' = {}
    BY <1>13 DEF Reload
  <2>3. QED
    BY <2>1, <2>2 DEF UsageOK
<1>14. CASE UNCHANGED vars
  BY <1>14, <1>a DEF vars, server, page, usage, kept, UsageOK
<1>15. QED
  BY <1>1, <1>2, <1>3, <1>4, <1>5, <1>6, <1>7, <1>8, <1>9, <1>10, <1>11, <1>12,
     <1>13, <1>14 DEF Next, Reads

\* What is appended is remembered, and so is what was.
LEMMA AppendRemembers ==
  ASSUME NEW h \in Seq(Questions), NEW q \in Questions
  PROVE  /\ Contains(Append(h, q), q)
         /\ \A p : Contains(h, p) => Contains(Append(h, q), p)
<1>1. /\ Len(Append(h, q)) = Len(h) + 1 /\ Len(h) \in Nat
      /\ \A i \in 1..Len(h) : Append(h, q)[i] = h[i]
      /\ Append(h, q)[Len(h) + 1] = q
  BY AppendProperties, LenProperties
<1>2. Contains(Append(h, q), q)
  BY <1>1 DEF Contains
<1>3. ASSUME NEW p, Contains(h, p) PROVE Contains(Append(h, q), p)
  <2>1. PICK i \in 1..Len(h) : h[i] = p
    BY <1>3 DEF Contains
  <2>2. i \in 1..Len(Append(h, q)) /\ Append(h, q)[i] = p
    BY <1>1, <2>1
  <2>3. QED
    BY <2>2 DEF Contains
<1>4. QED
  BY <1>2, <1>3

\* Nothing is remembered at first.
LEMMA NothingRemembered == \A q : ~Contains(<<>>, q)
BY DEF Contains

\* A handler that runs on the last render finds all that is complete seen.
LEMMA AllSeen ==
  ASSUME IInv, Rendered \/ ~inFlight
  PROVE  \A i \in DOMAIN bubbles : bubbles[i].status = "complete" => bubbles[i] \in answered
BY RenderedSees DEF IInv, MemoryOK

\* A bubble that fails, or that goes on, is no answer, and takes none but its own.
LEMMA StillHeld ==
  ASSUME MemoryOK, Owned(bubbles), NEW status, NEW text, Rewrote(status, text),
         status # "complete", failed' # Nothing => status = "error",
         \A i \in DOMAIN bubbles : bubbles[i].status = "complete" => bubbles[i] \in answered,
         memory' = memory, stored' = stored, unsaved' = unsaved,
         \/ answered' = answered \ {Last(bubbles)}
         \/ answered' = answered /\ Last(bubbles).status # "complete"
  PROVE  MemoryOK'
<1>1. answered' = answered \ {Last(bubbles)}
  BY DEF MemoryOK
<1>2. ASSUME NEW b \in answered'
      PROVE  Contains(memory, b.of) /\ \E i \in DOMAIN bubbles' : bubbles'[i] = b
  <2>1. PICK i \in DOMAIN bubbles : bubbles[i] = b
    BY <1>1 DEF MemoryOK, Holds
  <2>2. i # Len(bubbles)
    BY <1>1, <2>1 DEF Last
  <2>3. i \in DOMAIN bubbles' /\ bubbles'[i] = b
    BY <2>1, <2>2 DEF Rewrote
  <2>4. QED
    BY <1>1, <2>3 DEF MemoryOK, Holds
<1>3. Holds(bubbles, memory)' /\ (~unsaved => Holds(stored.bubbles, stored.history))'
  BY <1>1, <1>2 DEF MemoryOK, Holds
<1>4. ASSUME NEW i \in DOMAIN bubbles', bubbles'[i].status = "complete"
      PROVE  Contains(memory', bubbles'[i].of) /\ bubbles'[i] \in answered'
  <2>1. i # Len(bubbles)
    BY <1>4 DEF Rewrote
  <2>2. i \in DOMAIN bubbles /\ bubbles'[i] = bubbles[i] /\ Len(bubbles) \in DOMAIN bubbles
    BY <2>1 DEF Rewrote
  <2>3. bubbles[i] # Last(bubbles)
    BY <2>1, <2>2 DEF Owned, Last
  <2>4. QED
    BY <1>1, <1>4, <2>2, <2>3 DEF MemoryOK
<1>5. failed' # Nothing => Last(bubbles').status = "error"
  BY DEF Rewrote
<1>6. QED
  BY <1>1, <1>3, <1>4, <1>5 DEF MemoryOK

\* Where none of it is touched, it stays.
LEMMA NothingForgets ==
  ASSUME MemoryOK,
         UNCHANGED <<bubbles, memory, failed, answered, stored, unsaved, view, inFlight>>
  PROVE  MemoryOK'
BY DEF MemoryOK, Holds, Loading

\* A turn that is done is remembered before it is seen.
LEMMA DoneRemembers ==
  ASSUME IInv, NEW n \in DOMAIN turn, ReadDone(n)
  PROVE  MemoryOK'
<1>a. MemoryOK
  BY DEF IInv
<1>1. /\ Rewrote("complete", Last(bubbles).text) /\ turn[n].at = "open" /\ Rendered
      /\ memory' = Append(turn[n].history, turn[n].question) /\ inFlight' = inFlight
      /\ failed' = failed /\ answered' = answered /\ stored' = stored
      /\ unsaved' = unsaved /\ view' = view
  BY ReadingDoes DEF ReadDone, kept
<1>2. /\ Loading /\ turn[n].history = memory /\ inFlight /\ failed = Nothing
      /\ Last(bubbles).of = turn[n].question
  BY <1>1 DEF IInv, TurnsOK, Running, InHand
<1>3. inFlight' /\ view'.loading /\ ~Loading'
  BY <1>1, <1>2, RenderedSees DEF Rewrote, Loading
<1>4. turn[n].question \in Questions /\ memory \in Seq(Questions)
  BY AttemptsAreTurns DEF IInv, Typed, Turns, BubblesTyped
<1>5. /\ Contains(memory', turn[n].question)
      /\ \A p : Contains(memory, p) => Contains(memory', p)
  BY <1>1, <1>2, <1>4, AppendRemembers
<1>6. \A i \in DOMAIN bubbles : bubbles[i].status = "complete" => bubbles[i] \in answered
  BY <1>1, AllSeen
<1>7. ASSUME NEW i \in DOMAIN bubbles', bubbles'[i].status = "complete"
      PROVE  Contains(memory', bubbles'[i].of)
  <2>1. CASE i = Len(bubbles)
    BY <1>1, <1>2, <1>5, <2>1 DEF Rewrote
  <2>2. CASE i # Len(bubbles)
    <3>1. i \in DOMAIN bubbles /\ bubbles'[i] = bubbles[i]
      BY <1>1, <2>2 DEF Rewrote
    <3>2. Contains(memory, bubbles[i].of)
      BY <1>a, <1>7, <3>1 DEF MemoryOK
    <3>3. QED
      BY <1>5, <3>1, <3>2
  <2>3. QED
    BY <2>1, <2>2
<1>8. ASSUME NEW b \in answered
      PROVE  Contains(memory', b.of) /\ \E i \in DOMAIN bubbles' : bubbles'[i] = b
  <2>1. Contains(memory, b.of) /\ b.status = "complete"
    BY <1>a DEF MemoryOK, Holds
  <2>2. PICK i \in DOMAIN bubbles : bubbles[i] = b
    BY <1>a DEF MemoryOK, Holds
  <2>3. i # Len(bubbles)
    BY <1>2, <2>1, <2>2 DEF Loading, Last
  <2>4. bubbles'[i] = b /\ i \in DOMAIN bubbles'
    BY <1>1, <2>2, <2>3 DEF Rewrote
  <2>5. QED
    BY <1>5, <2>1, <2>4
<1>9. QED
  BY <1>a, <1>1, <1>2, <1>3, <1>7, <1>8 DEF MemoryOK, Holds

\* What is rendered is on the screen, and stored or known not to be.
LEMMA RenderRemembers ==
  ASSUME IInv, Render
  PROVE  MemoryOK'
<1>a. MemoryOK
  BY DEF IInv
<1>1. /\ bubbles' = bubbles /\ memory' = memory /\ failed' = failed
      /\ answered' = answered \cup Answers(bubbles)
  BY DEF Render, page
<1>2. /\ \A i \in DOMAIN bubbles : bubbles[i].status = "complete" => bubbles[i] \in answered'
      /\ \A b \in answered' : b \in answered \/
           \E i \in DOMAIN bubbles : bubbles[i] = b /\ bubbles[i].status = "complete"
  BY <1>1 DEF Answers, ToSet
<1>3. Holds(bubbles, memory)'
  BY <1>a, <1>1, <1>2 DEF MemoryOK, Holds
<1>4. /\ \A i \in DOMAIN bubbles' : bubbles'[i].status = "complete" =>
           Contains(memory', bubbles'[i].of) /\ bubbles'[i] \in answered'
      /\ \A b \in answered' : b.status = "complete"
      /\ failed' # Nothing => Last(bubbles').status = "error"
  BY <1>a, <1>1, <1>2 DEF MemoryOK
<1>5. CASE Loading \/ memory = <<>>
  <2>1. \A i \in DOMAIN bubbles : bubbles[i].status = "complete" => bubbles[i] \in answered
    BY <1>a, <1>5, NothingRemembered DEF MemoryOK
  <2>2. \A b \in answered' : b \in answered
    BY <1>2, <2>1
  <2>3. stored' = stored /\ unsaved' = unsaved
    BY <1>5 DEF Render
  <2>4. QED
    BY <1>a, <1>3, <1>4, <2>2, <2>3 DEF MemoryOK, Holds
<1>6. CASE ~(Loading \/ memory = <<>>) /\ Save
  <2>1. stored'.bubbles = bubbles /\ stored'.history = memory
    BY <1>6 DEF Save
  <2>2. QED
    BY <1>1, <1>3, <1>4, <2>1 DEF MemoryOK, Holds
<1>7. CASE ~(Loading \/ memory = <<>>) /\ SaveFails
  BY <1>a, <1>3, <1>4, <1>7 DEF MemoryOK, SaveFails
<1>8. QED
  BY <1>5, <1>6, <1>7 DEF Render

\* What comes back on the screen is what was stored, and remembered with it.
LEMMA ReloadRemembers ==
  ASSUME IInv, Reload
  PROVE  MemoryOK'
<1>a. MemoryOK
  BY DEF IInv
<1>1. /\ bubbles' = stored.bubbles /\ memory' = stored.history /\ stored' = stored
      /\ answered' = Restored /\ failed' = Nothing
  BY DEF Reload
<1>2. ASSUME NEW b \in answered'
      PROVE  /\ Contains(stored.history, b.of) /\ b.status = "complete"
             /\ \E i \in DOMAIN stored.bubbles : stored.bubbles[i] = b
  <2>1. CASE b \in Answers(stored.bubbles)
    <3>1. PICK i \in DOMAIN stored.bubbles : stored.bubbles[i] = b /\ b.status = "complete"
      BY <2>1 DEF Answers, ToSet
    <3>2. QED
      BY <1>a, <3>1 DEF MemoryOK
  <2>2. CASE b \in answered /\ ~unsaved
    BY <1>a, <2>2 DEF MemoryOK, Holds
  <2>3. QED
    BY <1>1, <2>1, <2>2 DEF Restored
<1>3. \A i \in DOMAIN stored.bubbles : stored.bubbles[i].status = "complete" =>
        Contains(stored.history, stored.bubbles[i].of) /\ stored.bubbles[i] \in answered'
  BY <1>a, <1>1 DEF MemoryOK, Restored, Answers, ToSet
<1>4. QED
  BY <1>1, <1>2, <1>3 DEF MemoryOK, Holds

\* Every step keeps what has been on the screen.
LEMMA MemoryStep ==
  ASSUME IInv, [Next]_vars
  PROVE  MemoryOK'
<1>a. MemoryOK /\ Owned(bubbles)
  BY DEF IInv, BubblesOK
<1>1. ASSUME NEW q \in Questions, SendMessage(q) PROVE MemoryOK'
  <2>1. /\ Grew(q) /\ memory' = memory /\ answered' = answered /\ stored' = stored
        /\ unsaved' = unsaved /\ ~inFlight /\ failed' = Nothing
    BY <1>1, SendDoes DEF SendMessage, RunTurn
  <2>2. \A i \in DOMAIN bubbles : bubbles[i].status = "complete" => bubbles[i] \in answered
    BY <2>1, AllSeen
  <2>3. ASSUME NEW i \in DOMAIN bubbles', bubbles'[i].status = "complete"
        PROVE  Contains(memory', bubbles'[i].of) /\ bubbles'[i] \in answered'
    <3>1. i \in DOMAIN bubbles /\ bubbles'[i] = bubbles[i]
      BY <2>1, <2>3 DEF Grew
    <3>2. QED
      BY <1>a, <2>1, <2>2, <2>3, <3>1 DEF MemoryOK
  <2>4. Holds(bubbles, memory)' /\ (~unsaved => Holds(stored.bubbles, stored.history))'
    BY <1>a, <2>1 DEF MemoryOK, Holds, Grew
  <2>5. QED
    BY <1>a, <2>1, <2>3, <2>4 DEF MemoryOK
<1>2. CASE Retry
  <2>1. /\ Rewrote("streaming", {}) /\ memory' = memory /\ answered' = answered
        /\ stored' = stored /\ unsaved' = unsaved /\ ~inFlight
        /\ failed # Nothing /\ failed' = Nothing
    BY <1>2, RetryDoes DEF Retry, RunTurn, kept
  <2>2. \A i \in DOMAIN bubbles : bubbles[i].status = "complete" => bubbles[i] \in answered
    BY <2>1, AllSeen
  <2>3. Last(bubbles).status = "error"
    BY <1>a, <2>1 DEF MemoryOK
  <2>4. QED
    BY <1>a, <2>1, <2>2, <2>3, StillHeld
<1>3. ASSUME NEW n \in DOMAIN turn, Accept(n) PROVE MemoryOK'
  BY <1>3, <1>a, NothingForgets DEF Accept, page, kept
<1>4. ASSUME NEW n \in DOMAIN turn, ReadToken(n) PROVE MemoryOK'
  <2>1. /\ Rewrote(Last(bubbles).status, Last(bubbles).text \cup {n}) /\ memory' = memory
        /\ answered' = answered /\ stored' = stored /\ unsaved' = unsaved /\ failed' = failed
        /\ Rendered /\ turn[n].at = "open"
    BY <1>4, ReadingDoes DEF ReadToken, kept
  <2>2. Last(bubbles).status = "streaming" /\ failed = Nothing
    BY <2>1 DEF IInv, TurnsOK, Running, Loading
  <2>3. \A i \in DOMAIN bubbles : bubbles[i].status = "complete" => bubbles[i] \in answered
    BY <2>1, AllSeen
  <2>4. QED
    BY <1>a, <2>1, <2>2, <2>3, StillHeld
<1>5. ASSUME NEW n \in DOMAIN turn, ReadDone(n) PROVE MemoryOK'
  BY <1>5, DoneRemembers
<1>6. ASSUME NEW n \in DOMAIN turn,
             ReadError(n) \/ RefusedForQuota(n) \/ RefusedOtherwise(n)
      PROVE  MemoryOK'
  <2>1. /\ Rewrote("error", {}) /\ memory' = memory /\ answered' = answered
        /\ stored' = stored /\ unsaved' = unsaved /\ Rendered /\ turn[n].at \in {"out", "open"}
    BY <1>6, ReadingDoes DEF ReadError, RefusedForQuota, RefusedOtherwise, Refused, kept
  <2>2. Last(bubbles).status = "streaming"
    BY <2>1 DEF IInv, TurnsOK, Running, Loading
  <2>3. \A i \in DOMAIN bubbles : bubbles[i].status = "complete" => bubbles[i] \in answered
    BY <2>1, AllSeen
  <2>4. QED
    BY <1>a, <2>1, <2>2, <2>3, StillHeld
<1>7. ASSUME NEW n \in DOMAIN turn, ReadEnd(n) PROVE MemoryOK'
  <2>1. /\ bubbles' = bubbles /\ memory' = memory /\ failed' = failed
        /\ answered' = answered /\ stored' = stored /\ unsaved' = unsaved /\ Rendered
    BY <1>7 DEF ReadEnd, kept
  <2>2. \A i \in DOMAIN bubbles : bubbles[i].status = "complete" => bubbles[i] \in answered
    BY <2>1, AllSeen
  <2>3. QED
    BY <1>a, <2>1, <2>2 DEF MemoryOK, Holds
<1>8. ASSUME NEW n \in DOMAIN turn, Broken(n) PROVE MemoryOK'
  <2>1. /\ Rewrote("error", {}) /\ memory' = memory
        /\ answered' = answered \ {Last(bubbles)}
        /\ stored' = stored /\ unsaved' = unsaved /\ Rendered
    BY <1>8, ReadingDoes DEF Broken
  <2>2. \A i \in DOMAIN bubbles : bubbles[i].status = "complete" => bubbles[i] \in answered
    BY <2>1, AllSeen
  <2>3. QED
    BY <1>a, <2>1, <2>2, StillHeld
<1>9. CASE ElsewhereAsked \/ ServeUsage \/ UsageLost
  BY <1>9, <1>a, NothingForgets DEF ElsewhereAsked, ServeUsage, UsageLost, page, kept
<1>10. ASSUME NEW a \in landing, UsageLands(a) PROVE MemoryOK'
  BY <1>10, <1>a, NothingForgets DEF UsageLands, kept
<1>11. CASE Render
  BY <1>11, RenderRemembers
<1>12. CASE Reload
  BY <1>12, ReloadRemembers
<1>13. CASE UNCHANGED vars
  BY <1>13, <1>a, NothingForgets DEF vars, page, kept
<1>14. QED
  BY <1>1, <1>2, <1>3, <1>4, <1>5, <1>6, <1>7, <1>8, <1>9, <1>10, <1>11, <1>12,
     <1>13 DEF Next, Reads

-----------------------------------------------------------------------------
(* The theorems.                                                           *)

\* The invariant the rest follows from: it holds at first, and every step keeps it.
THEOREM Inductive == Spec => []IInv
<1>1. Init => IInv
  <2> SUFFICES ASSUME Init PROVE IInv
    OBVIOUS
  <2>1. /\ turn = <<>> /\ turn \in Seq(Turns) /\ Len(turn) = 0 /\ DOMAIN turn = {}
    BY EmptySeq DEF Init
  <2>2. /\ bubbles = <<>> /\ memory = <<>> /\ stored.bubbles = <<>> /\ stored.history = <<>>
        /\ bubbles \in Seq(Bubble) /\ memory \in Seq(Questions)
        /\ stored \in [bubbles : Seq(Bubble), history : Seq(Questions)]
    BY EmptySeq DEF Init
  <2>3. DOMAIN bubbles = {} /\ DOMAIN stored.bubbles = {}
    BY <2>2
  <2>4. failed = Nothing /\ asked = {} /\ answered = {} /\ inFlight = FALSE /\ unsaved = FALSE
    BY DEF Init
  <2>5. view.history = memory /\ view.asked = asked /\ view.failed = failed
    BY DEF Init, Current
  <2>6. view \in [loading : BOOLEAN, failed : Failures, shut : BOOLEAN,
                  history : Seq(Questions), asked : SUBSET Questions]
    BY <2>2, <2>4 DEF Init, Current, Loading, Failures
  <2>7. TurnTyped /\ BubblesTyped /\ ViewTyped
    <3>1. TurnTyped
      BY <2>1, BoundsAssumption DEF TurnTyped
    <3>2. BubblesTyped
      BY <2>2 DEF BubblesTyped
    <3>3. ViewTyped
      BY <2>4, <2>6 DEF ViewTyped, Failures
    <3>4. QED
      BY <3>1, <3>2, <3>3
  <2>8. UsageTyped
    BY BoundsAssumption DEF Init, UsageTyped
  <2>9. KeysOK /\ TurnsOK /\ ViewOK
    BY <2>1, <2>4, <2>5 DEF KeysOK, TurnsOK, ViewOK
  <2>10. BubblesOK /\ MemoryOK
    BY <2>3, <2>4 DEF BubblesOK, Owned, MemoryOK, Holds
  <2>11. UsageOK
    BY <2>1 DEF Init, UsageOK
  <2>12. QED
    BY <2>7, <2>8, <2>9, <2>10, <2>11 DEF IInv, Typed
<1>2. IInv /\ [Next]_vars => IInv'
  BY TurnTypeStep, BubblesTypeStep, ViewTypeStep, UsageTypeStep, KeysStep, TurnsStep,
     ViewStep, BubblesStep, UsageStep, MemoryStep DEF IInv, Typed
<1>3. QED
  BY <1>1, <1>2, PTL DEF Spec

\* Every variable holds a value of its type in every reachable state; so the
\* grant is never overspent.
THEOREM TypeCorrect == Spec => []TypeOK
<1>1. IInv => TypeOK
  BY DEF IInv, Typed, TurnTyped, Turns, BubblesTyped, ViewTyped, UsageTyped, TypeOK
<1>2. QED
  BY <1>1, Inductive, PTL

\* A question is charged at most once, over any retries, clicks and reloads.
THEOREM ChargedOnce == Spec => []PaidOnce
<1>1. IInv => PaidOnce
  <2> SUFFICES ASSUME IInv, NEW q \in Questions
               PROVE  Cardinality(KeysOf(q) \cap paid) <= 1
    BY DEF PaidOnce
  <2>1. \A j, k \in KeysOf(q) : j = k
    BY DEF IInv, KeysOK, KeysOf
  <2>2. CASE KeysOf(q) \cap paid = {}
    BY <2>2, FS_EmptySet
  <2>3. CASE KeysOf(q) \cap paid # {}
    <3>1. PICK k : k \in KeysOf(q) \cap paid
      BY <2>3
    <3>2. KeysOf(q) \cap paid = {k}
      BY <2>1, <3>1
    <3>3. Cardinality({k}) = 1
      BY FS_Singleton
    <3>4. QED
      BY <3>2, <3>3
  <2>4. QED
    BY <2>2, <2>3
<1>2. QED
  BY <1>1, Inductive, PTL

\* A bubble holds the words of one attempt at its own question, and an attempt
\* that runs has the last bubble to speak in.
THEOREM WordsStayApart == Spec => []BubblesAreOwn
<1>1. IInv => BubblesAreOwn
  <2> SUFFICES ASSUME IInv PROVE BubblesAreOwn
    OBVIOUS
  <2>1. ASSUME NEW i \in DOMAIN bubbles PROVE Cardinality(bubbles[i].text) <= 1
    <3>1. \A m, n \in bubbles[i].text : m = n
      BY DEF IInv, BubblesOK, Owned
    <3>2. CASE bubbles[i].text = {}
      BY <3>2, FS_EmptySet
    <3>3. CASE bubbles[i].text # {}
      <4>1. PICK n : n \in bubbles[i].text
        BY <3>3
      <4>2. bubbles[i].text = {n}
        BY <3>1, <4>1
      <4>3. Cardinality({n}) = 1
        BY FS_Singleton
      <4>4. QED
        BY <4>2, <4>3
    <3>4. QED
      BY <3>2, <3>3
  <2>2. \A i \in DOMAIN bubbles : \A n \in bubbles[i].text : turn[n].question = bubbles[i].of
    BY DEF IInv, BubblesOK, Owned
  <2>3. \A n \in DOMAIN turn : Running(n) => Loading /\ Last(bubbles).of = turn[n].question
    BY DEF IInv, TurnsOK, InHand
  <2>4. QED
    BY <2>1, <2>2, <2>3 DEF BubblesAreOwn
<1>2. QED
  BY <1>1, Inductive, PTL

\* The page never shows less of the allowance than there is.
THEOREM NotShutEarly == Spec => []NeverShutEarly
<1>1. IInv => NeverShutEarly
  BY DEF IInv, UsageOK, NeverShutEarly
<1>2. QED
  BY <1>1, Inductive, PTL

\* An answer that has been on the screen stays there, complete and in its own
\* words, and is remembered, unless its own body breaks off after completing it
\* or the page is reloaded after a save that failed.
THEOREM AnswersStay == Spec => []NothingForgotten
<1>1. IInv => NothingForgotten
  BY DEF IInv, MemoryOK, Holds, NothingForgotten, ToSet
<1>2. QED
  BY <1>1, Inductive, PTL

-----------------------------------------------------------------------------
(* What keeps the composer from staying shut, but for fairness.            *)

\* The composer is shut only while an attempt runs, and a message waits for the
\* ref only while one is in hand; a page that starts again opens on a bubble
\* that has settled.
Settled(seq) == seq # <<>> => Last(seq).status # "streaming"
Speaking     == Loading => \E n \in DOMAIN turn : Running(n)
Held         == inFlight => \E n \in DOMAIN turn : turn[n].at \in {"out", "open", "finished"}
InProgress   == Speaking /\ Held /\ Settled(stored.bubbles)

\* An attempt that has just been sent runs.
LEMMA SentRuns ==
  ASSUME NEW q, NEW k, Added(q, k)
  PROVE  Speaking' /\ Held'
<1>1. Len(turn) + 1 \in DOMAIN turn' /\ turn'[Len(turn) + 1].at = "out"
  BY DEF Added
<1>2. QED
  BY <1>1 DEF Speaking, Held, Running

\* An answer that is read leaves the bubble settled, and the ref to an attempt
\* that is still in hand or to nobody.
LEMMA ReadSettles ==
  ASSUME NEW n \in DOMAIN turn, NEW at, NEW u, Moved(n, at, u),
         NEW status \in {"complete", "error"}, NEW text, Rewrote(status, text),
         at = "finished" \/ ~inFlight'
  PROVE  Speaking' /\ Held'
<1>1. ~Loading'
  BY DEF Rewrote, Loading
<1>2. n \in DOMAIN turn' /\ turn'[n].at = at
  BY DEF Moved, Stay
<1>3. QED
  BY <1>1, <1>2 DEF Speaking, Held

\* A step that leaves the attempts, the last bubble and the ref alone keeps it.
LEMMA NothingSpoken ==
  ASSUME Speaking, Held, turn' = turn, Loading' = Loading, inFlight' = inFlight
  PROVE  Speaking' /\ Held'
BY DEF Speaking, Held, Running

\* Every step does: what opens a bubble sends an attempt, and what ends an
\* attempt settles its bubble.
LEMMA ProgressStep ==
  ASSUME IInv, InProgress, [Next]_vars
  PROVE  InProgress'
<1>a. Speaking /\ Held /\ Settled(stored.bubbles)
  BY DEF InProgress
<1>1. ASSUME NEW q \in Questions, SendMessage(q) PROVE InProgress'
  <2>1. Added(q, Len(turn) + 1) /\ stored' = stored
    BY <1>1, SendDoes DEF SendMessage
  <2>2. Speaking' /\ Held'
    BY <2>1, SentRuns
  <2>3. QED
    BY <1>a, <2>1, <2>2 DEF InProgress, Settled
<1>2. CASE Retry
  <2>1. Added(failed.question, failed.key) /\ stored' = stored
    BY <1>2, RetryDoes DEF Retry, kept
  <2>2. Speaking' /\ Held'
    BY <2>1, SentRuns
  <2>3. QED
    BY <1>a, <2>1, <2>2 DEF InProgress, Settled
<1>3. ASSUME NEW n \in DOMAIN turn, Accept(n) PROVE InProgress'
  <2>1. Moved(n, IF turn[n].at = "out" THEN "open" ELSE "over",
                 IF turn[n].at = "out" THEN remaining' ELSE 0)
    BY <1>3, AcceptDoes
  <2>2. stored' = stored
    BY <1>3 DEF Accept, kept
  <2>3. bubbles' = bubbles /\ inFlight' = inFlight /\ turn[n].at \in {"out", "gone"}
    BY <1>3 DEF Accept, page
  <2>4. ASSUME NEW m \in DOMAIN turn
        PROVE  /\ m \in DOMAIN turn' /\ (Running(m) => Running(m)')
               /\ turn[m].at = "finished" => turn'[m].at = "finished"
    BY <2>3, <2>1 DEF Moved, Stay, Running
  <2>5. Loading' = Loading
    BY <2>3 DEF Loading
  <2>6. Speaking'
    BY <1>a, <2>4, <2>5 DEF Speaking
  <2>7. Held'
    <3>1. SUFFICES ASSUME inFlight' PROVE Held'
      BY DEF Held
    <3>2. PICK m \in DOMAIN turn : turn[m].at \in {"out", "open", "finished"}
      BY <1>a, <2>3, <3>1 DEF Held
    <3>3. m \in DOMAIN turn' /\ turn'[m].at \in {"out", "open", "finished"}
      BY <2>4, <3>2 DEF Running
    <3>4. QED
      BY <3>3 DEF Held
  <2>8. QED
    BY <1>a, <2>2, <2>6, <2>7 DEF InProgress, Settled
<1>4. ASSUME NEW n \in DOMAIN turn, ReadToken(n) PROVE InProgress'
  <2>1. /\ turn' = turn /\ inFlight' = inFlight /\ stored' = stored
        /\ turn[n].at = "open"
    BY <1>4 DEF ReadToken, kept
  <2>2. Speaking' /\ Held'
    BY <2>1 DEF Speaking, Held, Running
  <2>3. QED
    BY <1>a, <2>1, <2>2 DEF InProgress, Settled
<1>5. ASSUME NEW n \in DOMAIN turn, ReadDone(n) PROVE InProgress'
  <2>1. /\ Moved(n, "finished", 0) /\ Rewrote("complete", Last(bubbles).text)
        /\ stored' = stored
    BY <1>5, ReadingDoes DEF ReadDone, kept
  <2>2. Speaking' /\ Held'
    BY <2>1, ReadSettles
  <2>3. QED
    BY <1>a, <2>1, <2>2 DEF InProgress, Settled
<1>6. ASSUME NEW n \in DOMAIN turn, ReadError(n) PROVE InProgress'
  <2>1. Moved(n, "finished", 0) /\ Rewrote("error", {}) /\ stored' = stored
    BY <1>6, ReadingDoes DEF ReadError, kept
  <2>2. Speaking' /\ Held'
    BY <2>1, ReadSettles
  <2>3. QED
    BY <1>a, <2>1, <2>2 DEF InProgress, Settled
<1>7. ASSUME NEW n \in DOMAIN turn, ReadEnd(n) PROVE InProgress'
  <2>1. /\ turn[n].at = "finished" /\ bubbles' = bubbles /\ ~inFlight' /\ stored' = stored
    BY <1>7 DEF ReadEnd, kept
  <2>2. ~Loading
    BY <2>1 DEF IInv, TurnsOK
  <2>3. Speaking' /\ Held'
    BY <2>1, <2>2 DEF Speaking, Held, Loading
  <2>4. QED
    BY <1>a, <2>1, <2>3 DEF InProgress, Settled
<1>8. ASSUME NEW n \in DOMAIN turn,
             Broken(n) \/ RefusedForQuota(n) \/ RefusedOtherwise(n)
      PROVE  InProgress'
  <2>1. /\ \E at : Moved(n, at, 0) /\ Rewrote("error", {})
        /\ ~inFlight' /\ stored' = stored
    BY <1>8, ReadingDoes DEF Broken, RefusedForQuota, RefusedOtherwise, Refused, kept
  <2>2. Speaking' /\ Held'
    BY <2>1, ReadSettles
  <2>3. QED
    BY <1>a, <2>1, <2>2 DEF InProgress, Settled
<1>9. CASE ElsewhereAsked \/ ServeUsage \/ UsageLost \/ UNCHANGED vars
  <2>1. UNCHANGED <<turn, bubbles, inFlight, stored>>
    BY <1>9 DEF ElsewhereAsked, ServeUsage, UsageLost, vars, page, kept
  <2>2. Loading' = Loading
    BY <2>1 DEF Loading
  <2>3. QED
    BY <1>a, <2>1, <2>2, NothingSpoken DEF InProgress, Settled
<1>10. ASSUME NEW a \in landing, UsageLands(a) PROVE InProgress'
  <2>1. UNCHANGED <<turn, bubbles, inFlight, stored>>
    BY <1>10 DEF UsageLands, kept
  <2>2. Loading' = Loading
    BY <2>1 DEF Loading
  <2>3. QED
    BY <1>a, <2>1, <2>2, NothingSpoken DEF InProgress, Settled
<1>11. CASE Render
  <2>1. /\ UNCHANGED <<turn, bubbles, inFlight>>
        /\ stored' = stored \/ (~Loading /\ stored'.bubbles = bubbles)
    BY <1>11 DEF Render, Save, SaveFails, page
  <2>2. Loading' = Loading
    BY <2>1 DEF Loading
  <2>3. Settled(stored.bubbles)'
    BY <1>a, <2>1 DEF Settled, Loading
  <2>4. QED
    BY <1>a, <2>1, <2>2, <2>3, NothingSpoken DEF InProgress
<1>12. CASE Reload
  <2>1. bubbles' = stored.bubbles /\ stored' = stored /\ ~inFlight'
    BY <1>12 DEF Reload
  <2>2. ~Loading'
    BY <1>a, <2>1 DEF Loading, Settled
  <2>3. QED
    BY <1>a, <2>1, <2>2 DEF InProgress, Speaking, Held, Settled
<1>13. QED
  BY <1>1, <1>2, <1>3, <1>4, <1>5, <1>6, <1>7, <1>8, <1>9, <1>10, <1>11, <1>12
     DEF Next, Reads

\* The composer is never shut, and a message never turned away by the ref, with
\* no attempt under way: no ending of a stream, retry or reload leaves a bubble
\* open after its turn (chat.service.ts:262-264, useChat.ts:71-73, 235-237).
THEOREM ShutOnlyForATurn == Spec => []InProgress
<1>1. Init => InProgress
  BY DEF Init, InProgress, Speaking, Held, Settled, Loading
<1>2. IInv /\ InProgress /\ [Next]_vars => InProgress'
  BY ProgressStep
<1>3. QED
  BY <1>1, <1>2, Inductive, PTL DEF Spec

\* How much an attempt has still to go through, and that it only moves on.
Remains(at) == CASE at = "out" -> 3 [] at = "open" -> 2
                 [] at \in {"finished", "gone"} -> 1 [] at = "over" -> 0
OnlyOn == \A n \in DOMAIN turn :
  /\ n \in DOMAIN turn' /\ Remains(turn'[n].at) <= Remains(turn[n].at)
  /\ Reads(n) => Remains(turn'[n].at) < Remains(turn[n].at)

\* What an attempt has left is a number.
LEMMA RemainsCounts ==
  ASSUME IInv
  PROVE  \A m \in DOMAIN turn : Remains(turn[m].at) \in 0..3
<1>1. ASSUME NEW m \in DOMAIN turn
      PROVE  turn[m].at \in {"out", "open", "finished", "gone", "over"}
  BY AttemptsAreTurns DEF IInv, Typed, Turns
<1>2. QED
  BY <1>1 DEF Remains

\* Where one attempt moves on and the rest stay, all only move on.
LEMMA OneGoesOn ==
  ASSUME IInv, NEW n \in DOMAIN turn, NEW at, NEW u, Moved(n, at, u),
         Remains(at) \in 0..3, Remains(at) < Remains(turn[n].at),
         \A m \in DOMAIN turn : m # n => ~Reads(m)
  PROVE  OnlyOn
<1>1. ASSUME NEW m \in DOMAIN turn, m # n
      PROVE  m \in DOMAIN turn' /\ Remains(turn'[m].at) <= Remains(turn[m].at)
  BY <1>1, RemainsCounts DEF Moved, Stay
<1>2. n \in DOMAIN turn' /\ turn'[n].at = at
  BY DEF Moved, Stay
<1>3. Remains(turn[n].at) \in 0..3
  BY RemainsCounts
<1>4. QED
  BY <1>1, <1>2, <1>3 DEF OnlyOn

\* A reading is of an attempt that is in hand, and moves it on.
LEMMA ReadingMovesOn ==
  ASSUME IInv, NEW n \in DOMAIN turn, Reads(n)
  PROVE  /\ turn[n].at \in {"out", "open", "finished"}
         /\ \E at \in {"finished", "gone", "over"} :
              Moved(n, at, 0) /\ Remains(at) < Remains(turn[n].at)
<1>1. CASE ReadDone(n)
  <2>1. turn[n].at = "open" /\ Moved(n, "finished", 0)
    BY <1>1, ReadingDoes DEF ReadDone
  <2>2. QED
    BY <2>1 DEF Remains
<1>2. CASE ReadError(n)
  <2>1. turn[n].at = "open" /\ Moved(n, "finished", 0)
    BY <1>2, ReadingDoes DEF ReadError
  <2>2. QED
    BY <2>1 DEF Remains
<1>3. CASE ReadEnd(n)
  <2>1. turn[n].at = "finished" /\ Moved(n, "over", 0)
    BY <1>3, ReadingDoes DEF ReadEnd
  <2>2. QED
    BY <2>1 DEF Remains
<1>4. CASE Broken(n)
  <2>1. turn[n].at \in {"out", "open", "finished"} /\ Moved(n, GivenUp(turn[n].at), 0)
    BY <1>4, ReadingDoes DEF Broken
  <2>2. QED
    BY <2>1 DEF Remains, GivenUp
<1>5. CASE RefusedForQuota(n) \/ RefusedOtherwise(n)
  <2>1. Refused(n)
    BY <1>5 DEF RefusedForQuota, RefusedOtherwise
  <2>2. turn[n].at = "out" /\ Moved(n, "over", 0)
    BY <2>1, ReadingDoes DEF Refused
  <2>3. QED
    BY <2>2 DEF Remains
<1>6. QED
  BY <1>1, <1>2, <1>3, <1>4, <1>5 DEF Reads

\* An attempt is read only if it is in hand, and only the last one is.
LEMMA OneIsRead ==
  ASSUME IInv
  PROVE  \A m, n \in DOMAIN turn : Reads(m) /\ Reads(n) => m = n
<1>1. ASSUME NEW m \in DOMAIN turn, Reads(m) PROVE m = Len(turn)
  BY <1>1, ReadingMovesOn, HeldInHand DEF InHand
<1>2. QED
  BY <1>1

\* Every step does.
LEMMA AttemptsStep ==
  ASSUME IInv, [Next]_vars
  PROVE  OnlyOn
<1>1. CASE \E n \in DOMAIN turn : Reads(n)
  <2>1. PICK n \in DOMAIN turn : Reads(n)
    BY <1>1
  <2>2. PICK at \in {"finished", "gone", "over"} :
          Moved(n, at, 0) /\ Remains(at) < Remains(turn[n].at)
    BY <2>1, ReadingMovesOn
  <2>3. Remains(at) \in 0..3
    BY DEF Remains
  <2>4. \A m \in DOMAIN turn : m # n => ~Reads(m)
    BY <2>1, OneIsRead
  <2>5. QED
    BY <2>2, <2>3, <2>4, OneGoesOn
<1>2. CASE ~\E n \in DOMAIN turn : Reads(n)
  <2> SUFFICES ASSUME NEW m \in DOMAIN turn
               PROVE  m \in DOMAIN turn' /\ Remains(turn'[m].at) <= Remains(turn[m].at)
    BY <1>2 DEF OnlyOn
  <2>a. Remains(turn[m].at) \in 0..3
    BY RemainsCounts
  <2>1. CASE turn' = turn
    BY <2>1, <2>a
  <2>2. ASSUME NEW q, NEW k, Added(q, k)
        PROVE  m \in DOMAIN turn' /\ Remains(turn'[m].at) <= Remains(turn[m].at)
    BY <2>2, <2>a DEF Added
  <2>3. ASSUME NEW n \in DOMAIN turn, Accept(n)
        PROVE  m \in DOMAIN turn' /\ Remains(turn'[m].at) <= Remains(turn[m].at)
    <3>1. Moved(n, IF turn[n].at = "out" THEN "open" ELSE "over",
                 IF turn[n].at = "out" THEN remaining' ELSE 0)
      BY <2>3, AcceptDoes
    <3>2. turn[n].at \in {"out", "gone"}
      BY <2>3 DEF Accept
    <3>3. CASE m = n
      BY <3>1, <3>3, <3>2 DEF Moved, Stay, Remains
    <3>4. CASE m # n
      BY <3>1, <3>4, <2>a DEF Moved, Stay
    <3>5. QED
      BY <3>3, <3>4
  <2>4. CASE Reload
    <3>1. turn \in Seq(Turns) /\ DOMAIN turn = 1..Len(turn) /\ m \in DOMAIN Gone
      BY LenProperties DEF IInv, Typed, TurnTyped, Gone
    <3>2. turn[m] \in Turns
      BY AttemptsAreTurns DEF IInv, Typed
    <3>3. turn'[m].at = IF turn[m].at \in {"out", "gone"} THEN "gone" ELSE "over"
      BY <2>4, <3>2 DEF Reload, Gone, GivenUp, Turns
    <3>4. turn[m].at \in {"out", "open", "finished", "gone", "over"}
      BY <3>2 DEF Turns
    <3>5. QED
      BY <2>4, <3>1, <3>3, <3>4 DEF Reload, Remains
  <2>5. ASSUME NEW q \in Questions, SendMessage(q)
        PROVE  m \in DOMAIN turn' /\ Remains(turn'[m].at) <= Remains(turn[m].at)
    BY <2>2, <2>5, SendDoes
  <2>6. CASE Retry
    BY <2>2, <2>6, RetryDoes
  <2>7. CASE Render \/ ElsewhereAsked \/ ServeUsage \/ UsageLost \/ UNCHANGED vars
    BY <2>1, <2>7 DEF Render, ElsewhereAsked, ServeUsage, UsageLost, vars
  <2>8. ASSUME NEW n \in DOMAIN turn, ReadToken(n) PROVE turn' = turn
    BY <2>8 DEF ReadToken
  <2>9. ASSUME NEW a \in landing, UsageLands(a) PROVE turn' = turn
    BY <2>9 DEF UsageLands
  <2>10. QED
    BY <1>2, <2>1, <2>3, <2>4, <2>5, <2>6, <2>7, <2>8, <2>9 DEF Next
<1>3. QED
  BY <1>1, <1>2

\* An attempt is never taken up again: what is over stays over, what was cut off
\* is never read, and each answer that is read brings its attempt nearer its end,
\* at most twice (useChat.ts:130-136, 287-294, chat.service.ts:199-264).
THEOREM AttemptsOnlyEnd == Spec => [][OnlyOn]_vars
<1>1. IInv /\ [Next]_vars => [OnlyOn]_vars
  BY AttemptsStep
<1>2. QED
  BY <1>1, Inductive, PTL DEF Spec
=============================================================================
