--------------------------------- MODULE Turn ---------------------------------
(***************************************************************************)
(* One question, from the opened stream to its end: answer() wires         *)
(* run_turn(), the loop of model calls and tools, through recorded(), which *)
(* writes the reply down however the loop ended.  The store is seen from   *)
(* here as it is from the turn: a write commits or it does not.            *)
(*                                                                         *)
(* A hang-up reaches the generators as GeneratorExit at a yield or as      *)
(* CancelledError at an await.  Both are "aborted".  A cancellation may    *)
(* come again while the recorder awaits the store, and then its write is   *)
(* lost: `except Exception` does not hold it.                              *)
(***************************************************************************)
EXTENDS Naturals, Sequences, FiniteSets, Functions

CONSTANTS
  MaxRounds,   \* model calls that may ask for tools (MAX_TOOL_ROUNDS)
  MaxStored,   \* what a row holds of a reply (MAX_CONTENT_CHARS)
  MaxTokens,   \* bound: fragments of text in one model call
  MaxCalls     \* bound: tool calls in one model call

ASSUME BoundsAssumption ==
  /\ MaxRounds \in Nat \ {0}
  /\ MaxStored \in Nat
  /\ MaxTokens \in Nat
  /\ MaxCalls \in Nat

VARIABLES
  pc,        \* where the chain of generators is suspended
  home,      \* whether there is a conversation to record in
  gone,      \* the client has hung up, or the process has died
  rounds,    \* model calls made
  toolless,  \* the last call, tools switched off
  content,   \* _Round.content
  pending,   \* _Round.pending: for each call, whether its id and name came
  queue,     \* the calls still to be run
  messages,  \* the list the next call sends, system prompt aside
  reply,     \* run_turn's reply
  heard,     \* recorded's reply
  ran,       \* recorded's tool_names
  reason,    \* recorded's finish_reason
  outcome,   \* recorded's status
  row,       \* the assistant message in the store
  frame      \* the last frame on the wire

loop == <<rounds, toolless, content, pending, queue, messages, reply>>
recorder == <<heard, ran, reason, outcome>>
vars == <<pc, home, gone, loop, recorder, row, frame>>

-----------------------------------------------------------------------------
Outcomes == {"completed", "aborted", "failed"}
FinishReasons == {"stop", "tool_calls", "none"}
NoRow == [status |-> "none", text |-> <<>>, chars |-> 0, truncated |-> FALSE,
          tools |-> 0, reason |-> "none"]
NoFrame == [type |-> "none", reply |-> <<>>]
Error == [type |-> "error", reply |-> <<>>]

\* A call is named by the model call that made it and its index in it.
Calls == [round : Nat, index : Nat, whole : BOOLEAN]

\* A message is who said it, whether it carries a list of tool calls, and the
\* calls it makes or answers.  The list is there, empty, when every call of
\* the round is dropped.
Message == [role : {"user", "assistant", "tool"}, asks : BOOLEAN,
            calls : SUBSET Calls]
User == [role |-> "user", asks |-> FALSE, calls |-> {}]
Assistant == [role |-> "assistant", asks |-> FALSE, calls |-> {}]
Asking(calls) == [role |-> "assistant", asks |-> TRUE, calls |-> calls]
Result(call) == [role |-> "tool", asks |-> FALSE, calls |-> {call}]

Runnable(calls) == {call \in Range(calls) : call.whole}

\* The calls of the round, complete or not.
Assembled == [i \in 1..Len(pending) |->
                [round |-> rounds, index |-> i, whole |-> pending[i]]]

\* What a row keeps of a text: the start of it, as much as the column holds.
Truncated(text) ==
  IF Len(text) <= MaxStored THEN text ELSE SubSeq(text, 1, MaxStored)

\* The row of a reply: how long it was, and whether any was cut off, beside
\* what is kept of it.
ReplyRow(text) ==
  [status |-> outcome, text |-> Truncated(text), chars |-> Len(text),
   truncated |-> Len(text) > MaxStored, tools |-> ran, reason |-> reason]

Said(msgs, text) == IF text = <<>> THEN msgs ELSE Append(msgs, Assistant)

Init ==
  /\ pc = "opening"
  /\ home = FALSE
  /\ gone = FALSE
  /\ rounds = 0
  /\ toolless = FALSE
  /\ content = <<>>
  /\ pending = <<>>
  /\ queue = <<>>
  /\ messages = <<User>>
  /\ reply = <<>>
  /\ heard = <<>>
  /\ ran = 0
  /\ reason = "none"
  /\ outcome = "completed"
  /\ row = NoRow
  /\ frame = NoFrame

-----------------------------------------------------------------------------
(* The question.                                                           *)

\* A retry whose earlier attempt stored the question has its conversation.
FindQuestion ==
  /\ pc = "opening"
  /\ pc' = "calling"
  /\ home' = TRUE
  /\ UNCHANGED <<gone, loop, recorder, row, frame>>

AskStore ==
  /\ pc = "opening"
  /\ pc' = "asking"
  /\ UNCHANGED <<home, gone, loop, recorder, row, frame>>

\* Whatever the store raises is swallowed, and the turn goes on without it.
QuestionTried ==
  /\ pc = "asking"
  /\ pc' = "calling"
  /\ home' \in BOOLEAN
  /\ UNCHANGED <<gone, loop, recorder, row, frame>>

-----------------------------------------------------------------------------
(* The rounds.                                                             *)

CallModel ==
  /\ pc = "calling"
  /\ pc' = "streaming"
  /\ rounds' = rounds + 1
  /\ content' = <<>>
  /\ pending' = <<>>
  /\ UNCHANGED <<home, gone, toolless, queue, messages, reply, recorder, row,
                 frame>>

\* The recorder keeps a fragment before it passes it on.
Token ==
  /\ pc = "streaming"
  /\ Len(content) < MaxTokens
  /\ content' = Append(content, Len(heard) + 1)
  /\ heard' = Append(heard, Len(heard) + 1)
  /\ UNCHANGED <<pc, home, gone, rounds, toolless, pending, queue, messages,
                 reply, ran, reason, outcome, row, frame>>

\* The first fragment of a tool call, and the one that completes it.
CallOpened ==
  /\ pc = "streaming"
  /\ ~toolless
  /\ Len(pending) < MaxCalls
  /\ pending' = Append(pending, FALSE)
  /\ UNCHANGED <<pc, home, gone, rounds, toolless, content, queue, messages,
                 reply, recorder, row, frame>>

CallCompleted(i) ==
  /\ pc = "streaming"
  /\ i \in 1..Len(pending)
  /\ pending' = [pending EXCEPT ![i] = TRUE]
  /\ UNCHANGED <<pc, home, gone, rounds, toolless, content, queue, messages,
                 reply, recorder, row, frame>>

\* Mutant: what was said beside the calls is left out of the reply.
RoundWantsToolsOnly ==
  /\ pc = "streaming"
  /\ ~toolless
  /\ pc' = "tools"
  /\ reason' = "tool_calls"
  /\ queue' = Assembled
  /\ messages' = Append(messages, Asking(Runnable(Assembled)))
  /\ UNCHANGED <<home, gone, rounds, toolless, content, pending, reply, heard,
                 ran, outcome, row, frame>>

\* Mutant: the calls that never completed are sent back too.
RoundWantsBrokenTools ==
  /\ pc = "streaming"
  /\ ~toolless
  /\ pc' = "tools"
  /\ reason' = "tool_calls"
  /\ reply' = reply \o content
  /\ queue' = Assembled
  /\ messages' = Append(messages, Asking(Range(Assembled)))
  /\ UNCHANGED <<home, gone, rounds, toolless, content, pending, heard, ran,
                 outcome, row, frame>>

\* The model stopped to have its tools run.
RoundWantsTools ==
  /\ pc = "streaming"
  /\ ~toolless
  /\ pc' = "tools"
  /\ reason' = "tool_calls"
  /\ reply' = reply \o content
  /\ queue' = Assembled
  /\ messages' = Append(messages, Asking(Runnable(Assembled)))
  /\ UNCHANGED <<home, gone, rounds, toolless, content, pending, heard, ran,
                 outcome, row, frame>>

\* The model stopped for good, or it was the last call, whatever it says.
RoundAnswers(f) ==
  /\ pc = "streaming"
  /\ f # "tool_calls" \/ toolless
  /\ pc' = "finishing"
  /\ reason' = f
  /\ reply' = reply \o content
  /\ messages' = Said(messages, content)
  /\ UNCHANGED <<home, gone, rounds, toolless, content, pending, queue, heard,
                 ran, outcome, row, frame>>

RunTool ==
  /\ pc = "tools"
  /\ queue # <<>>
  /\ Head(queue).whole
  /\ queue' = Tail(queue)
  /\ messages' = Append(messages, Result(Head(queue)))
  /\ ran' = ran + 1
  /\ UNCHANGED <<pc, home, gone, rounds, toolless, content, pending, reply,
                 heard, reason, outcome, row, frame>>

\* Mutant: a call that is not complete is waited for.
DropCallLater ==
  /\ pc = "tools"
  /\ queue # <<>>
  /\ ~Head(queue).whole
  /\ UNCHANGED vars

DropCall ==
  /\ pc = "tools"
  /\ queue # <<>>
  /\ ~Head(queue).whole
  /\ queue' = Tail(queue)
  /\ UNCHANGED <<pc, home, gone, rounds, toolless, content, pending, messages,
                 reply, recorder, row, frame>>

\* Another round, the last of them without tools.
ToolsDone ==
  /\ pc = "tools"
  /\ queue = <<>>
  /\ pc' = "calling"
  /\ toolless' = (rounds >= MaxRounds)
  /\ UNCHANGED <<home, gone, rounds, content, pending, queue, messages, reply,
                 recorder, row, frame>>

-----------------------------------------------------------------------------
(* The end, and the recorder's part in it.                                 *)

\* TurnFinished passes the recorder, is signed, and goes out.
Tell ==
  /\ pc = "finishing"
  /\ pc' = "told"
  /\ frame' = [type |-> "done", reply |-> reply]
  /\ UNCHANGED <<home, gone, loop, recorder, row>>

Complete ==
  /\ pc = "told"
  /\ pc' = "closing"
  /\ UNCHANGED <<home, gone, loop, recorder, row, frame>>

\* Mutant: the recorder names a status of its own.
ModelFailsNamed ==
  /\ pc \in {"calling", "streaming"}
  /\ pc' = "closing"
  /\ outcome' = "error"
  /\ UNCHANGED <<home, gone, loop, heard, ran, reason, row, frame>>

\* The model refuses the call, or its stream breaks.
ModelFails ==
  /\ pc \in {"calling", "streaming"}
  /\ pc' = "closing"
  /\ outcome' = "failed"
  /\ UNCHANGED <<home, gone, loop, heard, ran, reason, row, frame>>

AfterRecorder == IF outcome = "failed" THEN "failing" ELSE "ended"

\* Mutant: a reply is recorded wherever the question went.
KeepReplyAnyway ==
  /\ pc = "closing"
  /\ row' = ReplyRow(heard)
  /\ pc' = AfterRecorder
  /\ UNCHANGED <<home, gone, loop, recorder, frame>>

KeepReply ==
  /\ pc = "closing"
  /\ home
  /\ row' = ReplyRow(heard)
  /\ pc' = AfterRecorder
  /\ UNCHANGED <<home, gone, loop, recorder, frame>>

\* There is nowhere to record, or the store raises and that is swallowed.
KeepNothing ==
  /\ pc = "closing"
  /\ pc' = AfterRecorder
  /\ UNCHANGED <<home, gone, loop, recorder, row, frame>>

\* TurnFailed, once the recorder has let the exception through.
Apologise ==
  /\ pc = "failing"
  /\ pc' = "ended"
  /\ frame' = Error
  /\ UNCHANGED <<home, gone, loop, recorder, row>>

-----------------------------------------------------------------------------
(* The client hangs up, and the process dies.                              *)

\* In front of the recorder there is nothing to finalise.
HangUpEarly ==
  /\ pc \in {"opening", "asking"}
  /\ pc' = "ended"
  /\ gone' = TRUE
  /\ UNCHANGED <<home, loop, recorder, row, frame>>

\* Mutant: only an Exception marks the turn, and a hang-up is not one.
HangUpUnmarked ==
  /\ pc \in {"calling", "streaming", "tools", "finishing", "told"}
  /\ pc' = "closing"
  /\ gone' = TRUE
  /\ UNCHANGED <<home, loop, recorder, row, frame>>

HangUp ==
  /\ pc \in {"calling", "streaming", "tools", "finishing", "told"}
  /\ pc' = "closing"
  /\ gone' = TRUE
  /\ outcome' = "aborted"
  /\ UNCHANGED <<home, loop, heard, ran, reason, row, frame>>

\* The recorder's write, or the apology, is cancelled under way.
HangUpLate ==
  /\ pc \in {"closing", "failing"}
  /\ pc' = "ended"
  /\ gone' = TRUE
  /\ UNCHANGED <<home, loop, recorder, row, frame>>

Crash ==
  /\ pc # "ended"
  /\ pc' = "ended"
  /\ gone' = TRUE
  /\ UNCHANGED <<home, loop, recorder, row, frame>>

-----------------------------------------------------------------------------
Server ==
  \/ FindQuestion \/ AskStore \/ QuestionTried
  \/ CallModel \/ Token \/ CallOpened
  \/ \E i \in 1..MaxCalls : CallCompleted(i)
  \/ RoundWantsTools
  \/ \E f \in FinishReasons : RoundAnswers(f)
  \/ RunTool \/ DropCall \/ ToolsDone
  \/ Tell \/ Complete \/ ModelFails
  \/ KeepReply \/ KeepNothing \/ Apologise

Next == Server \/ HangUpEarly \/ HangUp \/ HangUpLate \/ Crash

Spec == Init /\ [][Next]_vars

\* The event loop runs the turn, and every call to the model or the store
\* returns: their clients time out.
FairSpec == Spec /\ WF_vars(Server)

-----------------------------------------------------------------------------
(* Properties.                                                             *)

TypeOK ==
  /\ pc \in {"opening", "asking", "calling", "streaming", "tools",
             "finishing", "told", "closing", "failing", "ended"}
  /\ home \in BOOLEAN
  /\ gone \in BOOLEAN
  /\ rounds \in Nat
  /\ toolless \in BOOLEAN
  /\ content \in Seq(Nat)
  /\ pending \in Seq(BOOLEAN)
  /\ queue \in Seq(Calls)
  /\ messages \in Seq(Message)
  /\ reply \in Seq(Nat)
  /\ heard \in Seq(Nat)
  /\ ran \in Nat
  /\ reason \in FinishReasons
  /\ outcome \in Outcomes
  /\ row \in [status : Outcomes \cup {"none"}, text : Seq(Nat), chars : Nat,
              truncated : BOOLEAN, tools : Nat, reason : FinishReasons]
  /\ frame \in [type : {"none", "done", "error"}, reply : Seq(Nat)]

\* The reply is put together twice: by the loop, a round at a time, for the
\* done frame, and by the recorder, a fragment at a time, for the transcript.
\* The two are the same text.  What is stored is the start of the reply the
\* hirer was told, cut only where the column ends; its length is the whole
\* reply's, and it is marked truncated exactly when there was more.
OneReply ==
  frame.type = "done" =>
    /\ frame.reply = heard
    /\ row.status # "none" =>
         /\ row.text = SubSeq(frame.reply, 1, Len(row.text))
         /\ row.chars = Len(frame.reply)
         /\ Len(row.text) = IF row.truncated THEN MaxStored ELSE row.chars
         /\ row.truncated => row.chars > MaxStored

\* Where an assistant message asks for tools, each call is answered, once,
\* before anything else is said, and nothing is answered that was not asked:
\* the provider refuses any other list.  It must hold of every list that is
\* sent and of the one the client gets back for its next question.  Of a
\* message whose calls were all dropped, and whose list of calls is therefore
\* empty, it asks only that no result follows it.
HistoryPaired ==
  pc \in {"calling", "told"} =>
    /\ \A i \in 1..Len(messages) : messages[i].asks =>
         \A call \in messages[i].calls :
           \E j \in (i + 1)..Len(messages) :
             /\ messages[j] = Result(call)
             /\ \A k \in (i + 1)..j : messages[k].role = "tool"
    /\ \A j \in 1..Len(messages) : messages[j].role = "tool" =>
         /\ \E i \in 1..(j - 1) :
              /\ messages[i].asks
              /\ messages[j].calls \subseteq messages[i].calls
              /\ \A k \in (i + 1)..j : messages[k].role = "tool"
         /\ \A k \in 1..(j - 1) : messages[k] # messages[j]

Results == {j \in 1..Len(messages) : messages[j].role = "tool"}

\* What the transcript says of the tools a turn ran is what the model was
\* told of them, however the turn ended.
ToolsCounted == ran = Cardinality(Results)

\* A model that never stops asking for tools costs at most one call more than
\* the cap, and that one cannot ask.
CallsBounded ==
  /\ rounds <= MaxRounds + 1
  /\ rounds = MaxRounds + 1 => toolless

\* The status in the transcript is how the turn went for the hirer: a reply
\* marked completed was told whole, one marked failed was not, and only a
\* client that left has an aborted one.
StatusIsTrue ==
  /\ row.status = "completed" => frame.type = "done"
  /\ row.status = "failed" => frame.type # "done"
  /\ row.status = "aborted" => gone

\* A turn never just stops: a client still there gets a frame that says how
\* it went (chat.service.ts waits for one).
AlwaysTold == pc = "ended" /\ ~gone => frame.type # "none"

\* What becomes of the model's tool calls, and what the hirer and the operator
\* are told: the properties above together.
ToolsHandled == HistoryPaired /\ ToolsCounted /\ CallsBounded
HirerTold    == StatusIsTrue /\ AlwaysTold

\* Every turn comes to an end, whatever the model answers.
TurnEnds == <>(pc = "ended")

-----------------------------------------------------------------------------
(* The turn keeps the contract.                                            *)

Stage ==
  CASE pc \in {"opening", "asking"} -> "opening"
    [] pc \in {"calling", "streaming", "tools", "finishing", "told"} ->
         "answering"
    [] pc \in {"closing", "failing"} -> outcome
    [] pc = "ended" -> "ended"

Contract == INSTANCE TurnContract WITH
  stage <- Stage,
  row <- row.status,
  frame <- frame.type

\* Every step of the turn is a step of the contract, or none of its business.
KeepsContract == Contract!Spec
===============================================================================
