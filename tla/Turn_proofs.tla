------------------------------ MODULE Turn_proofs ------------------------------
(***************************************************************************)
(* What one turn promises, proved for any cap on its rounds and whatever   *)
(* the model answers.                                                      *)
(***************************************************************************)
EXTENDS Turn, SequenceTheorems, FiniteSetTheorems, TLAPS

\* The calls of a round, and those of them that can run, are calls.
LEMMA CallsAreCalls ==
  ASSUME TypeOK
  PROVE  /\ Assembled \in Seq(Calls)
         /\ Runnable(Assembled) \subseteq Calls
<1>1. Len(pending) \in Nat
  BY DEF TypeOK
<1>2. \A i \in 1..Len(pending) :
         [round |-> rounds, index |-> i, whole |-> pending[i]] \in Calls
  BY <1>1 DEF TypeOK, Calls
<1>3. Assembled \in Seq(Calls)
  BY <1>1, <1>2 DEF Assembled
<1>4. Range(Assembled) \subseteq Calls
  BY <1>3, RangeOfSeq
<1>5. QED
  BY <1>3, <1>4 DEF Runnable

\* Whatever is appended to the list is a message.
LEMMA MessagesAreMessages ==
  /\ User \in Message
  /\ Assistant \in Message
  /\ \A calls \in SUBSET Calls : Asking(calls) \in Message
  /\ \A call \in Calls : Result(call) \in Message
BY DEF User, Assistant, Asking, Result, Message

\* What a row keeps of a text is the start of it: all of it, or as much as
\* the column holds.
LEMMA TruncatedIs ==
  ASSUME NEW text \in Seq(Nat)
  PROVE  /\ Truncated(text) \in Seq(Nat)
         /\ Truncated(text) = SubSeq(text, 1, Len(Truncated(text)))
         /\ Len(Truncated(text)) =
              IF Len(text) > MaxStored THEN MaxStored ELSE Len(text)
<1>1. Len(text) \in Nat /\ MaxStored \in Nat
  BY BoundsAssumption
<1>2. CASE Len(text) <= MaxStored
  <2>1. SubSeq(text, 1, Len(text)) = text
    BY SubSeqFull
  <2>2. Truncated(text) = text
    BY <1>2 DEF Truncated
  <2>3. ~(Len(text) > MaxStored)
    BY <1>1, <1>2
  <2>4. QED
    BY <2>1, <2>2, <2>3
<1>3. CASE Len(text) > MaxStored
  <2>1. /\ SubSeq(text, 1, MaxStored) \in Seq(Nat)
        /\ Len(SubSeq(text, 1, MaxStored)) = MaxStored
    BY <1>1, <1>3, SubSeqProperties
  <2>2. QED
    BY <1>1, <1>3, <2>1 DEF Truncated
<1>4. QED
  BY <1>1, <1>2, <1>3

\* Every variable holds a value of its type in every reachable state.
THEOREM TypeCorrect == Spec => []TypeOK
<1>1. Init => TypeOK
  <2>1. /\ <<User>> \in Seq(Message)
        /\ <<>> \in Seq(Nat) /\ <<>> \in Seq(BOOLEAN) /\ <<>> \in Seq(Calls)
    BY MessagesAreMessages
  <2>2. NoRow \in [status : Outcomes \cup {"none"}, text : Seq(Nat),
                   chars : Nat, truncated : BOOLEAN, tools : Nat,
                   reason : FinishReasons]
    BY <2>1 DEF NoRow, FinishReasons
  <2>3. NoFrame \in [type : {"none", "done", "error"}, reply : Seq(Nat)]
    BY <2>1 DEF NoFrame
  <2>4. Init => row \in [status : Outcomes \cup {"none"}, text : Seq(Nat),
                         chars : Nat, truncated : BOOLEAN, tools : Nat,
                         reason : FinishReasons]
    BY <2>2 DEF Init
  <2>5. Init => frame \in [type : {"none", "done", "error"}, reply : Seq(Nat)]
    BY <2>3 DEF Init
  <2>6. QED
    <3>1. SUFFICES ASSUME Init PROVE TypeOK
      OBVIOUS
    <3>2. row \in [status : Outcomes \cup {"none"}, text : Seq(Nat),
                  chars : Nat, truncated : BOOLEAN, tools : Nat,
                  reason : FinishReasons]
      BY <2>4, <3>1
    <3>3. QED
      BY <2>1, <2>5, <3>1, <3>2, Zenon DEF Init, TypeOK, Outcomes, FinishReasons
<1>2. TypeOK /\ [Next]_vars => TypeOK'
  <2> SUFFICES ASSUME TypeOK, [Next]_vars PROVE TypeOK'
    OBVIOUS
  <2> USE DEF TypeOK, Outcomes, FinishReasons, loop, recorder
  <2>1. ASSUME FindQuestion \/ AskStore \/ QuestionTried PROVE TypeOK'
    BY <2>1 DEF FindQuestion, AskStore, QuestionTried
  <2>2. ASSUME CallModel PROVE TypeOK'
    BY <2>2 DEF CallModel
  <2>3. ASSUME Token PROVE TypeOK'
    BY <2>3 DEF Token
  <2>4. ASSUME CallOpened PROVE TypeOK'
    BY <2>4 DEF CallOpened
  <2>5. ASSUME NEW i \in 1..MaxCalls, CallCompleted(i) PROVE TypeOK'
    BY <2>5 DEF CallCompleted
  <2>6. ASSUME RoundWantsTools PROVE TypeOK'
    BY <2>6, CallsAreCalls, MessagesAreMessages DEF RoundWantsTools
  <2>7. ASSUME NEW f \in FinishReasons, RoundAnswers(f) PROVE TypeOK'
    BY <2>7, MessagesAreMessages DEF RoundAnswers, Said
  <2>8. ASSUME RunTool PROVE TypeOK'
    <3>1. /\ Head(queue) \in Calls
          /\ Tail(queue) \in Seq(Calls)
      BY <2>8 DEF RunTool
    <3>2. QED
      BY <2>8, <3>1, MessagesAreMessages DEF RunTool
  <2>9. ASSUME DropCall PROVE TypeOK'
    BY <2>9 DEF DropCall
  <2>10. ASSUME ToolsDone PROVE TypeOK'
    BY <2>10 DEF ToolsDone
  <2>11. ASSUME Tell \/ Complete \/ ModelFails PROVE TypeOK'
    BY <2>11 DEF Tell, Complete, ModelFails
  <2>12. ASSUME KeepReply \/ KeepNothing PROVE TypeOK'
    <3>1. /\ Truncated(heard) \in Seq(Nat)
          /\ Len(heard) \in Nat
      BY TruncatedIs
    <3>2. ReplyRow(heard) \in
            [status : Outcomes \cup {"none"}, text : Seq(Nat), chars : Nat,
             truncated : BOOLEAN, tools : Nat, reason : FinishReasons]
      BY <3>1, BoundsAssumption DEF ReplyRow
    <3>3. QED
      BY <2>12, <3>2 DEF KeepReply, KeepNothing, AfterRecorder
  <2>13. ASSUME Apologise PROVE TypeOK'
    BY <2>13 DEF Apologise, Error
  <2>14. ASSUME HangUpEarly \/ HangUp \/ HangUpLate \/ Crash PROVE TypeOK'
    BY <2>14 DEF HangUpEarly, HangUp, HangUpLate, Crash
  <2>15. CASE UNCHANGED vars
    BY <2>15 DEF vars
  <2>16. QED
    BY <2>1, <2>2, <2>3, <2>4, <2>5, <2>6, <2>7, <2>8, <2>9, <2>10, <2>11,
       <2>12, <2>13, <2>14, <2>15 DEF Next, Server
<1>3. QED
  BY <1>1, <1>2, PTL DEF Spec

-----------------------------------------------------------------------------
(* The rounds.                                                             *)

\* The cap is reached in a call that had tools; the next has none, and is
\* the last because a call without tools cannot go on to run any.
RoundsOK ==
  /\ pc \in {"opening", "asking"} => rounds = 0 /\ ~toolless
  /\ pc = "calling" => rounds <= MaxRounds /\ (toolless <=> rounds = MaxRounds)
  /\ pc = "streaming" =>
       rounds <= MaxRounds + 1 /\ (toolless <=> rounds = MaxRounds + 1)
  /\ pc = "tools" => rounds <= MaxRounds /\ ~toolless
  /\ CallsBounded

\* The count of calls keeps step with the loop.
THEOREM RoundsInvariant == Spec => []RoundsOK
<1>1. Init => RoundsOK
  BY BoundsAssumption DEF Init, RoundsOK, CallsBounded
<1>2. TypeOK /\ RoundsOK /\ [Next]_vars => RoundsOK'
  <2> SUFFICES ASSUME TypeOK, RoundsOK, [Next]_vars PROVE RoundsOK'
    OBVIOUS
  <2> USE BoundsAssumption DEF TypeOK, RoundsOK, CallsBounded, loop, recorder
  <2>1. ASSUME FindQuestion \/ AskStore \/ QuestionTried PROVE RoundsOK'
    BY <2>1 DEF FindQuestion, AskStore, QuestionTried
  <2>2. ASSUME CallModel PROVE RoundsOK'
    BY <2>2 DEF CallModel
  <2>3. ASSUME Token \/ CallOpened PROVE RoundsOK'
    <3>1. UNCHANGED <<pc, rounds, toolless>>
      BY <2>3 DEF Token, CallOpened
    <3>2. QED
      BY <3>1
  <2>12. ASSUME RoundWantsTools PROVE RoundsOK'
    <3>1. /\ pc = "streaming" /\ pc' = "tools"
          /\ UNCHANGED <<rounds, toolless>>
          /\ ~toolless
      BY <2>12 DEF RoundWantsTools
    <3>2. QED
      BY <3>1
  <2>4. ASSUME NEW i \in 1..MaxCalls, CallCompleted(i) PROVE RoundsOK'
    BY <2>4 DEF CallCompleted
  <2>5. ASSUME NEW f \in FinishReasons, RoundAnswers(f) PROVE RoundsOK'
    BY <2>5 DEF RoundAnswers
  <2>6. ASSUME RunTool \/ DropCall PROVE RoundsOK'
    BY <2>6 DEF RunTool, DropCall
  <2>13. ASSUME ToolsDone PROVE RoundsOK'
    <3>1. toolless' <=> rounds >= MaxRounds
      BY <2>13, Zenon DEF ToolsDone
    <3>2. QED
      BY <2>13, <3>1 DEF ToolsDone
  <2>7. ASSUME Tell \/ Complete \/ ModelFails PROVE RoundsOK'
    BY <2>7 DEF Tell, Complete, ModelFails
  <2>8. ASSUME KeepReply \/ KeepNothing \/ Apologise PROVE RoundsOK'
    BY <2>8 DEF KeepReply, KeepNothing, Apologise, AfterRecorder
  <2>9. ASSUME HangUpEarly \/ HangUp \/ HangUpLate \/ Crash PROVE RoundsOK'
    BY <2>9 DEF HangUpEarly, HangUp, HangUpLate, Crash
  <2>10. CASE UNCHANGED vars
    BY <2>10 DEF vars
  <2>11. QED
    BY <2>1, <2>2, <2>3, <2>4, <2>5, <2>6, <2>7, <2>8, <2>9, <2>10, <2>12,
       <2>13
       DEF Next, Server
<1>3. QED
  BY <1>1, <1>2, TypeCorrect, PTL DEF Spec

\* No turn calls the model more than once past the cap (MAX_TOOL_ROUNDS),
\* and that call cannot ask for tools.
THEOREM CallsAreBounded == Spec => []CallsBounded
<1>1. RoundsOK => CallsBounded
  BY DEF RoundsOK
<1>2. QED
  BY <1>1, RoundsInvariant, PTL

-----------------------------------------------------------------------------
(* The end of the turn: what is said of it, where, and in which order.     *)

Before == {"opening", "asking", "calling", "streaming", "tools", "finishing"}

\* Nothing is recorded before the recorder closes, nothing is told before
\* the loop has finished, and a status is only set by what it names.
EndOK ==
  /\ pc \in Before \cup {"told"} => ~gone /\ outcome = "completed"
  /\ pc \in Before => frame.type = "none"
  /\ pc = "told" => frame.type = "done"
  /\ pc \in Before \cup {"told", "closing"} => row.status = "none"
  /\ pc = "closing" =>
       /\ outcome = "completed" => frame.type = "done"
       /\ outcome = "failed" => frame.type = "none"
       /\ outcome = "aborted" => gone
  /\ pc = "failing" =>
       /\ outcome = "failed"
       /\ row.status \in {"none", "failed"}
       /\ frame.type = "none"
  /\ pc = "ended" => StatusIsTrue /\ AlwaysTold

\* However the turn goes, its status, its row and its last frame agree.
THEOREM EndInvariant == Spec => []EndOK
<1>1. Init => EndOK
  BY DEF Init, EndOK, Before, NoRow, NoFrame
<1>2. TypeOK /\ EndOK /\ [Next]_vars => EndOK'
  <2> SUFFICES ASSUME TypeOK, EndOK, [Next]_vars PROVE EndOK'
    OBVIOUS
  <2> USE DEF TypeOK, EndOK, Before, StatusIsTrue, AlwaysTold, Outcomes, loop,
              recorder
  <2>1. ASSUME FindQuestion \/ AskStore \/ QuestionTried PROVE EndOK'
    BY <2>1 DEF FindQuestion, AskStore, QuestionTried
  <2>2. ASSUME CallModel \/ Token \/ CallOpened PROVE EndOK'
    <3>1. /\ pc \in {"calling", "streaming"} /\ pc' = "streaming"
          /\ UNCHANGED <<gone, outcome, row, frame>>
      BY <2>2 DEF CallModel, Token, CallOpened
    <3>2. QED
      BY <3>1
  <2>13. ASSUME RoundWantsTools PROVE EndOK'
    <3>1. /\ pc = "streaming" /\ pc' = "tools"
          /\ UNCHANGED <<gone, outcome, row, frame>>
      BY <2>13 DEF RoundWantsTools
    <3>2. QED
      BY <3>1
  <2>3. ASSUME NEW i \in 1..MaxCalls, CallCompleted(i) PROVE EndOK'
    BY <2>3 DEF CallCompleted
  <2>4. ASSUME NEW f \in FinishReasons, RoundAnswers(f) PROVE EndOK'
    BY <2>4 DEF RoundAnswers
  <2>5. ASSUME RunTool \/ DropCall \/ ToolsDone PROVE EndOK'
    <3>1. /\ pc = "tools" /\ pc' \in {"tools", "calling"}
          /\ UNCHANGED <<gone, outcome, row, frame>>
      BY <2>5 DEF RunTool, DropCall, ToolsDone
    <3>2. QED
      BY <3>1
  <2>6. ASSUME Tell \/ Complete \/ ModelFails PROVE EndOK'
    BY <2>6 DEF Tell, Complete, ModelFails
  <2>7. ASSUME KeepReply PROVE EndOK'
    BY <2>7 DEF KeepReply, ReplyRow, AfterRecorder
  <2>8. ASSUME KeepNothing PROVE EndOK'
    BY <2>8 DEF KeepNothing, AfterRecorder
  <2>9. ASSUME Apologise PROVE EndOK'
    BY <2>9 DEF Apologise, Error
  <2>10. ASSUME HangUpEarly \/ HangUp \/ HangUpLate \/ Crash PROVE EndOK'
    BY <2>10 DEF HangUpEarly, HangUp, HangUpLate, Crash
  <2>11. CASE UNCHANGED vars
    BY <2>11 DEF vars
  <2>12. QED
    BY <2>1, <2>2, <2>3, <2>4, <2>5, <2>6, <2>7, <2>8, <2>9, <2>10, <2>11,
       <2>13 DEF Next, Server
<1>3. QED
  BY <1>1, <1>2, TypeCorrect, PTL DEF Spec

\* A reply's status is how the turn went for the hirer.
THEOREM StatusIsTruthful == Spec => []StatusIsTrue
<1>1. TypeOK /\ EndOK => StatusIsTrue
  BY DEF TypeOK, EndOK, Before, StatusIsTrue
<1>2. QED
  BY <1>1, TypeCorrect, EndInvariant, PTL

\* Nobody who stayed is left without a last frame.
THEOREM HirerIsTold == Spec => []AlwaysTold
<1>1. EndOK => AlwaysTold
  BY DEF EndOK, AlwaysTold
<1>2. QED
  BY <1>1, EndInvariant, PTL

-----------------------------------------------------------------------------
(* Implementation of the contract.                                         *)

\* Every turn, whatever its model, its store and its client do, is a turn of
\* TurnContract.
THEOREM TurnKeepsContract == Spec => KeepsContract
<1> USE DEF Contract!Outcomes, Contract!vars, Stage
<1>1. Init => Contract!Init
  BY DEF Init, Contract!Init, NoRow, NoFrame
<1>2. TypeOK /\ EndOK /\ [Next]_vars => [Contract!Next]_(Contract!vars)
  <2> SUFFICES ASSUME TypeOK, EndOK, [Next]_vars
               PROVE  [Contract!Next]_(Contract!vars)
    OBVIOUS
  <2> USE DEF TypeOK, EndOK, Before, Outcomes, loop, recorder
  <2>1. ASSUME FindQuestion \/ QuestionTried PROVE Contract!Begin
    BY <2>1 DEF FindQuestion, QuestionTried, Contract!Begin
  <2>2. ASSUME \/ AskStore \/ CallModel \/ Token \/ CallOpened
               \/ RoundWantsTools \/ RunTool \/ DropCall \/ ToolsDone
        PROVE  UNCHANGED Contract!vars
    BY <2>2 DEF AskStore, CallModel, Token, CallOpened, RoundWantsTools,
                RunTool, DropCall, ToolsDone
  <2>3. ASSUME NEW i \in 1..MaxCalls, CallCompleted(i)
        PROVE  UNCHANGED Contract!vars
    BY <2>3 DEF CallCompleted
  <2>4. ASSUME NEW f \in FinishReasons, RoundAnswers(f)
        PROVE  UNCHANGED Contract!vars
    BY <2>4 DEF RoundAnswers
  <2>5. ASSUME Tell PROVE Contract!Tell
    BY <2>5 DEF Tell, Contract!Tell
  <2>6. ASSUME Complete PROVE Contract!Stop("completed")
    BY <2>6 DEF Complete, Contract!Stop
  <2>7. ASSUME ModelFails PROVE Contract!Stop("failed")
    BY <2>7 DEF ModelFails, Contract!Stop
  <2>8. ASSUME HangUp PROVE Contract!Stop("aborted")
    BY <2>8 DEF HangUp, Contract!Stop
  <2>9. ASSUME KeepReply PROVE Contract!Record
    BY <2>9 DEF KeepReply, ReplyRow, AfterRecorder, Contract!Record
  <2>10. ASSUME KeepNothing
         PROVE  Contract!End \/ UNCHANGED Contract!vars
    BY <2>10 DEF KeepNothing, AfterRecorder, Contract!End
  <2>11. ASSUME Apologise PROVE Contract!Apologise
    BY <2>11 DEF Apologise, Error, Contract!Apologise
  <2>12. ASSUME HangUpEarly \/ HangUpLate \/ Crash PROVE Contract!End
    BY <2>12 DEF HangUpEarly, HangUpLate, Crash, Contract!End
  <2>13. CASE UNCHANGED vars
    BY <2>13 DEF vars
  <2>14. QED
    BY <2>1, <2>2, <2>3, <2>4, <2>5, <2>6, <2>7, <2>8, <2>9, <2>10, <2>11,
       <2>12, <2>13 DEF Next, Server, Contract!Next
<1>3. QED
  BY <1>1, <1>2, TypeCorrect, EndInvariant, PTL
     DEF Spec, KeepsContract, Contract!Spec

-----------------------------------------------------------------------------
(* The reply.                                                              *)

\* To append to what is appended is to append to the whole.
LEMMA ConcatAppend ==
  ASSUME NEW S, NEW s \in Seq(S), NEW t \in Seq(S), NEW e \in S
  PROVE  s \o Append(t, e) = Append(s \o t, e)
<1> DEFINE u == <<e>>
<1>1. /\ s \o t \in Seq(S)
      /\ u \in Seq(S)
  BY ConcatProperties
<1>2. /\ Append(t, e) = t \o u
      /\ Append(s \o t, e) = (s \o t) \o u
  BY <1>1, AppendIsConcat
<1> HIDE DEF u
<1>3. (s \o t) \o u = s \o (t \o u)
  BY <1>1, ConcatAssociative
<1>4. QED
  BY <1>2, <1>3

\* The recorder is ahead of the loop by the text of the round under way.
TextOK ==
  /\ pc = "streaming" => heard = reply \o content
  /\ pc \in Before \ {"streaming"} => heard = reply
  /\ frame.type = "done" => frame.reply = heard
  /\ row.status # "none" =>
       /\ row.text = Truncated(heard)
       /\ row.chars = Len(heard)
       /\ row.truncated <=> Len(heard) > MaxStored

\* The reply the hirer has is the one the transcript keeps, or keeps the start
\* of and marks so.
THEOREM ReplyIsOne == Spec => []OneReply
<1>1. Init => TextOK
  BY DEF Init, TextOK, Before, NoRow, NoFrame
<1>2. TypeOK /\ EndOK /\ TextOK /\ [Next]_vars => TextOK'
  <2> SUFFICES ASSUME TypeOK, EndOK, TextOK, [Next]_vars PROVE TextOK'
    OBVIOUS
  <2> USE DEF TextOK, Before, loop, recorder
  <2>1. ASSUME FindQuestion \/ AskStore \/ QuestionTried PROVE TextOK'
    BY <2>1 DEF FindQuestion, AskStore, QuestionTried
  <2>2. ASSUME CallModel PROVE TextOK'
    <3>1. reply \o <<>> = reply
      BY ConcatEmptySeq DEF TypeOK
    <3>2. QED
      BY <2>2, <3>1 DEF CallModel
  <2>3. ASSUME Token PROVE TextOK'
    <3> DEFINE new == Len(heard) + 1
    <3>1. new \in Nat
      BY DEF TypeOK
    <3>2. reply \o Append(content, new) = Append(reply \o content, new)
      <4> HIDE DEF new
      <4>1. reply \in Seq(Nat) /\ content \in Seq(Nat)
        BY DEF TypeOK
      <4>2. QED
        BY <3>1, <4>1, ConcatAppend
    <3>3. /\ pc = "streaming" /\ pc' = "streaming"
          /\ UNCHANGED <<reply, frame, row>>
          /\ content' = Append(content, new)
          /\ heard' = Append(heard, new)
      BY <2>3 DEF Token
    <3>4. frame.type # "done" /\ row.status = "none"
      BY <3>3 DEF EndOK
    <3>5. QED
      BY <3>2, <3>3, <3>4
  <2>4. ASSUME CallOpened PROVE TextOK'
    BY <2>4 DEF CallOpened
  <2>5. ASSUME NEW i \in 1..MaxCalls, CallCompleted(i) PROVE TextOK'
    BY <2>5 DEF CallCompleted
  <2>6. ASSUME RoundWantsTools PROVE TextOK'
    <3>1. /\ pc = "streaming" /\ pc' = "tools"
          /\ reply' = reply \o content
          /\ UNCHANGED <<heard, frame, row>>
      BY <2>6 DEF RoundWantsTools
    <3>2. QED
      BY <3>1
  <2>7. ASSUME NEW f \in FinishReasons, RoundAnswers(f) PROVE TextOK'
    BY <2>7 DEF RoundAnswers
  <2>8. ASSUME RunTool \/ DropCall \/ ToolsDone PROVE TextOK'
    BY <2>8 DEF RunTool, DropCall, ToolsDone
  <2>9. ASSUME Tell PROVE TextOK'
    BY <2>9 DEF Tell
  <2>10. ASSUME Complete \/ ModelFails \/ KeepNothing PROVE TextOK'
    BY <2>10 DEF Complete, ModelFails, KeepNothing, AfterRecorder
  <2>11. ASSUME KeepReply PROVE TextOK'
    BY <2>11 DEF KeepReply, ReplyRow, AfterRecorder
  <2>12. ASSUME Apologise PROVE TextOK'
    BY <2>12 DEF Apologise, Error
  <2>13. ASSUME HangUpEarly \/ HangUp \/ HangUpLate \/ Crash PROVE TextOK'
    BY <2>13 DEF HangUpEarly, HangUp, HangUpLate, Crash
  <2>14. CASE UNCHANGED vars
    BY <2>14 DEF vars
  <2>15. QED
    BY <2>1, <2>2, <2>3, <2>4, <2>5, <2>6, <2>7, <2>8, <2>9, <2>10, <2>11,
       <2>12, <2>13, <2>14 DEF Next, Server
<1>3. TypeOK /\ TextOK => OneReply
  <2>1. SUFFICES ASSUME TypeOK, TextOK, frame.type = "done", row.status # "none"
                 PROVE  /\ row.text = SubSeq(frame.reply, 1, Len(row.text))
                        /\ row.chars = Len(frame.reply)
                        /\ Len(row.text) =
                             IF row.truncated THEN MaxStored ELSE row.chars
                        /\ row.truncated => row.chars > MaxStored
    BY DEF TextOK, OneReply
  <2>2. /\ heard \in Seq(Nat)
        /\ frame.reply = heard
        /\ row.text = Truncated(heard)
        /\ row.chars = Len(heard)
        /\ row.truncated <=> Len(heard) > MaxStored
    BY <2>1 DEF TypeOK, TextOK
  <2>3. QED
    BY <2>2, TruncatedIs
<1>4. QED
  BY <1>1, <1>2, <1>3, TypeCorrect, EndInvariant, PTL DEF Spec

-----------------------------------------------------------------------------
(* The list of messages.                                                   *)

\* A message is added at the end and changes none of the others.
LEMMA Appended ==
  ASSUME TypeOK, NEW m \in Message, messages' = Append(messages, m)
  PROVE  /\ Len(messages) \in Nat
         /\ Len(messages)' = Len(messages) + 1
         /\ \A i \in 1..Len(messages) : messages'[i] = messages[i]
         /\ messages'[Len(messages) + 1] = m
         /\ 1..Len(messages') = 1..Len(messages) \cup {Len(messages) + 1}
<1>1. messages \in Seq(Message)
  BY DEF TypeOK
<1>2. /\ Len(messages) \in Nat
      /\ Len(messages)' = Len(messages) + 1
      /\ \A i \in 1..Len(messages) : messages'[i] = messages[i]
      /\ messages'[Len(messages) + 1] = m
  BY <1>1, AppendProperties
<1>3. QED
  BY <1>2

\* There are finitely many results to count.
LEMMA ResultsAreFinite ==
  ASSUME TypeOK
  PROVE  IsFiniteSet(Results) /\ Cardinality(Results) \in Nat
<1>1. Len(messages) \in Nat
  BY DEF TypeOK
<1>2. IsFiniteSet(1..Len(messages)) /\ Results \subseteq 1..Len(messages)
  BY <1>1, FS_Interval DEF Results
<1>3. QED
  BY <1>2, FS_Subset, FS_CardinalityType

\* Only a tool's result is one more result.
LEMMA ResultsCounted ==
  ASSUME TypeOK, NEW m \in Message, messages' = Append(messages, m)
  PROVE  Cardinality(Results)' =
           Cardinality(Results) + (IF m.role = "tool" THEN 1 ELSE 0)
<1> DEFINE n == Len(messages) + 1
<1>1. n \notin Results
  BY Appended DEF Results
<1>2. CASE m.role = "tool"
  <2>1. Results' = Results \cup {n}
    BY <1>2, Appended DEF Results
  <2>2. QED
    BY <1>1, <1>2, <2>1, ResultsAreFinite, FS_AddElement
<1>3. CASE m.role # "tool"
  <2>1. Results' = Results
    BY <1>3, Appended DEF Results
  <2>2. QED
    BY <1>3, <2>1, ResultsAreFinite
<1>4. QED
  BY <1>2, <1>3

\* The tools a turn is recorded to have run are those the model was told of.
THEOREM ToolsAreCounted == Spec => []ToolsCounted
<1>1. Init => ToolsCounted
  <2> SUFFICES ASSUME Init PROVE ToolsCounted
    OBVIOUS
  <2>1. Results = {}
    BY DEF Init, Results, User
  <2>2. QED
    BY <2>1, FS_EmptySet DEF Init, ToolsCounted
<1>2. TypeOK /\ ToolsCounted /\ [Next]_vars => ToolsCounted'
  <2> SUFFICES ASSUME TypeOK, ToolsCounted, [Next]_vars PROVE ToolsCounted'
    OBVIOUS
  <2> DEFINE Same == UNCHANGED <<messages, ran>>
  <2>1. ASSUME Same PROVE ToolsCounted'
    BY <2>1 DEF ToolsCounted, Results
  <2>2. ASSUME RunTool PROVE ToolsCounted'
    <3>1. Head(queue) \in Calls
      BY <2>2 DEF RunTool, TypeOK
    <3>2. Result(Head(queue)) \in Message /\ Result(Head(queue)).role = "tool"
      BY <3>1, MessagesAreMessages DEF Result
    <3>3. Cardinality(Results)' = Cardinality(Results) + 1
      BY <2>2, <3>2, ResultsCounted DEF RunTool
    <3>4. QED
      BY <2>2, <3>3 DEF RunTool, ToolsCounted
  <2>3. ASSUME RoundWantsTools PROVE ToolsCounted'
    <3> DEFINE m == Asking(Runnable(Assembled))
    <3>1. m \in Message /\ m.role # "tool"
      BY CallsAreCalls, MessagesAreMessages DEF Asking
    <3>2. messages' = Append(messages, m) /\ ran' = ran
      BY <2>3 DEF RoundWantsTools
    <3> HIDE DEF m
    <3>3. Cardinality(Results)' = Cardinality(Results)
      BY <3>1, <3>2, ResultsCounted, ResultsAreFinite
    <3>4. QED
      BY <3>2, <3>3 DEF ToolsCounted
  <2>4. ASSUME NEW f \in FinishReasons, RoundAnswers(f) PROVE ToolsCounted'
    <3>1. Assistant \in Message /\ Assistant.role # "tool"
      BY MessagesAreMessages DEF Assistant
    <3>2. ran' = ran
      BY <2>4 DEF RoundAnswers
    <3>3. CASE content = <<>>
      BY <2>1, <2>4, <3>3 DEF RoundAnswers, Said
    <3>4. CASE content # <<>>
      <4>1. messages' = Append(messages, Assistant)
        BY <2>4, <3>4 DEF RoundAnswers, Said
      <4>2. QED
        BY <3>1, <3>2, <4>1, ResultsCounted, ResultsAreFinite DEF ToolsCounted
    <3>5. QED
      BY <3>3, <3>4
  <2> USE DEF loop, recorder
  <2>5. ASSUME \/ FindQuestion \/ AskStore \/ QuestionTried \/ CallModel
               \/ Token \/ CallOpened \/ DropCall \/ ToolsDone
        PROVE  Same
    BY <2>5 DEF FindQuestion, AskStore, QuestionTried, CallModel, Token,
                CallOpened, DropCall, ToolsDone
  <2>6. ASSUME NEW i \in 1..MaxCalls, CallCompleted(i) PROVE Same
    BY <2>6 DEF CallCompleted
  <2>7. ASSUME \/ Tell \/ Complete \/ ModelFails \/ KeepReply \/ KeepNothing
               \/ Apologise \/ HangUpEarly \/ HangUp \/ HangUpLate \/ Crash
        PROVE  Same
    BY <2>7 DEF Tell, Complete, ModelFails, KeepReply, KeepNothing, Apologise,
                HangUpEarly, HangUp, HangUpLate, Crash
  <2>8. CASE UNCHANGED vars
    BY <2>1, <2>8 DEF vars
  <2>9. QED
    BY <2>1, <2>2, <2>3, <2>4, <2>5, <2>6, <2>7, <2>8 DEF Next, Server
<1>3. QED
  BY <1>1, <1>2, TypeCorrect, PTL DEF Spec

-----------------------------------------------------------------------------
(* The pairing of calls and results.                                       *)

Going == Before \cup {"told"}

Answered(i, call) ==
  \E j \in (i + 1)..Len(messages) :
    /\ messages[j] = Result(call)
    /\ \A k \in (i + 1)..j : messages[k].role = "tool"

Asked(j) ==
  \E i \in 1..(j - 1) :
    /\ messages[i].asks
    /\ messages[j].calls \subseteq messages[i].calls
    /\ \A k \in (i + 1)..j : messages[k].role = "tool"

\* Nothing but results has been said since.
Open(i) == \A k \in (i + 1)..Len(messages) : messages[k].role = "tool"

\* A call with no result is still to be run, and nothing follows its results.
EachAnswered ==
  \A i \in 1..Len(messages) : messages[i].asks =>
    \A call \in messages[i].calls :
      \/ Answered(i, call)
      \/ pc = "tools" /\ Open(i) /\ \E n \in 1..Len(queue) : queue[n] = call

EachAsked ==
  \A j \in 1..Len(messages) : messages[j].role = "tool" => Asked(j)

AnsweredOnce ==
  \A j \in 1..Len(messages) : messages[j].role = "tool" =>
    \A k \in 1..(j - 1) : messages[k] # messages[j]

\* The results there are belong to rounds that are over, or to this one.
ResultsAreOld ==
  \A j \in 1..Len(messages) : messages[j].role = "tool" =>
    \A call \in messages[j].calls :
      call.round <= rounds /\ (pc = "streaming" => call.round < rounds)

QueueOK ==
  pc = "tools" =>
    /\ \E i \in 1..Len(messages) :
         /\ messages[i].asks
         /\ Open(i)
         /\ \A n \in 1..Len(queue) :
              queue[n].whole => queue[n] \in messages[i].calls
    /\ \A n \in 1..Len(queue) :
         /\ queue[n].round <= rounds
         /\ \A m \in 1..(n - 1) : queue[m] # queue[n]
         /\ \A j \in 1..Len(messages) : messages[j] # Result(queue[n])

\* Of a broken call no result is waited for.
WholeOnly ==
  \A i \in 1..Len(messages) : \A call \in messages[i].calls : call.whole

PairsOK ==
  /\ EachAnswered
  /\ EachAsked
  /\ AnsweredOnce
  /\ ResultsAreOld
  /\ QueueOK
  /\ WholeOnly

\* What has been answered, or asked, still is when something is added.
LEMMA StillPaired ==
  ASSUME TypeOK, NEW m \in Message, messages' = Append(messages, m),
         NEW i \in 1..Len(messages)
  PROVE  /\ \A call : Answered(i, call) => Answered(i, call)'
         /\ Asked(i) => Asked(i)'
         /\ Open(i) /\ m.role = "tool" => Open(i)'
<1>1. ASSUME NEW call, Answered(i, call) PROVE Answered(i, call)'
  BY <1>1, Appended DEF Answered
<1>2. ASSUME Asked(i) PROVE Asked(i)'
  BY <1>2, Appended DEF Asked
<1>3. ASSUME Open(i), m.role = "tool" PROVE Open(i)'
  BY <1>3, Appended DEF Open
<1>4. QED
  BY <1>1, <1>2, <1>3

\* A step that leaves the list alone, outside a round of tools.
LEMMA QuietStep ==
  ASSUME PairsOK, UNCHANGED <<messages, rounds>>,
         pc # "tools", pc' # "tools", pc' = "streaming" => pc = "streaming"
  PROVE  PairsOK'
BY DEF PairsOK, EachAnswered, EachAsked, AnsweredOnce, ResultsAreOld, QueueOK,
       WholeOnly, Answered, Asked

\* A message with no calls, said when every call is answered.
LEMMA PlainStep ==
  ASSUME TypeOK, PairsOK, rounds' = rounds, messages' = Append(messages, Assistant),
         pc # "tools", pc' \notin {"tools", "streaming"}
  PROVE  PairsOK'
<1>1. Assistant \in Message
  BY MessagesAreMessages
<1> USE DEF PairsOK
<1>2. EachAnswered'
  BY <1>1, Appended, StillPaired DEF EachAnswered, Assistant
<1>3. EachAsked'
  BY <1>1, Appended, StillPaired DEF EachAsked, Assistant
<1>4. AnsweredOnce'
  BY <1>1, Appended DEF AnsweredOnce, Assistant
<1>5. ResultsAreOld'
  BY <1>1, Appended DEF ResultsAreOld, Assistant
<1>6. WholeOnly'
  BY <1>1, Appended DEF WholeOnly, Assistant
<1>7. QED
  BY <1>2, <1>3, <1>4, <1>5, <1>6 DEF QueueOK

\* A new round begins, so the results there are belong to rounds before it.
LEMMA CallingStep ==
  ASSUME TypeOK, PairsOK, CallModel
  PROVE  PairsOK'
<1>1. /\ pc = "calling" /\ pc' = "streaming"
      /\ rounds' = rounds + 1 /\ messages' = messages
  BY DEF CallModel
<1> USE DEF PairsOK
<1>2. /\ \A i, call : Answered(i, call) => Answered(i, call)'
      /\ \A j : Asked(j) => Asked(j)'
  BY <1>1 DEF Answered, Asked
<1>3. ResultsAreOld'
  <2>1. \A i \in 1..Len(messages) : messages[i].calls \subseteq Calls
    <3>1. messages \in Seq(Message)
      BY DEF TypeOK
    <3>2. \A i \in 1..Len(messages) : messages[i] \in Message
      BY <3>1
    <3>3. QED
      BY <3>2 DEF Message
  <2>2. \A r \in Nat : r <= rounds => r <= rounds + 1 /\ r < rounds + 1
    BY DEF TypeOK
  <2>3. QED
    BY <1>1, <2>1, <2>2 DEF ResultsAreOld, Calls
<1>4. QED
  BY <1>1, <1>2, <1>3 DEF EachAnswered, EachAsked, AnsweredOnce, QueueOK,
                          WholeOnly

\* The queue is empty, so every call has been answered.
LEMMA AnsweredStep ==
  ASSUME TypeOK, PairsOK, ToolsDone
  PROVE  PairsOK'
<1>1. /\ pc = "tools" /\ pc' = "calling" /\ Len(queue) = 0
      /\ UNCHANGED <<rounds, messages>>
  BY DEF ToolsDone
<1> USE DEF PairsOK
<1>2. /\ \A i, call : Answered(i, call) => Answered(i, call)'
      /\ \A j : Asked(j) => Asked(j)'
  BY <1>1 DEF Answered, Asked
<1>3. EachAnswered'
  BY <1>1, <1>2 DEF EachAnswered
<1>4. QED
  BY <1>1, <1>2, <1>3 DEF EachAsked, AnsweredOnce, ResultsAreOld, QueueOK,
                          WholeOnly

\* The model asks for tools: its round's calls are new and not two the same.
LEMMA AskingStep ==
  ASSUME TypeOK, PairsOK, RoundWantsTools
  PROVE  PairsOK'
<1>1. /\ pc = "streaming" /\ pc' = "tools"
      /\ queue' = Assembled
      /\ rounds' = rounds
  BY DEF RoundWantsTools
<1>2. PICK m \in Message : m = Asking(Runnable(Assembled))
  BY CallsAreCalls, MessagesAreMessages
<1>3. m.role = "assistant" /\ m.asks /\ m.calls = Runnable(Assembled)
  BY <1>2 DEF Asking
<1>4. messages' = Append(messages, m)
  BY <1>2 DEF RoundWantsTools
<1>5. PICK last \in Nat : last = Len(messages) + 1
  BY <1>4, Appended
<1>6. /\ \A i \in 1..Len(messages) : messages'[i] = messages[i]
      /\ messages'[last] = m
      /\ Len(messages') = last
      /\ 1..Len(messages') = 1..Len(messages) \cup {last}
  BY <1>4, <1>5, Appended
<1>7. /\ Len(queue') \in Nat
      /\ \A n \in 1..Len(queue') : queue'[n].round = rounds /\ queue'[n].index = n
  BY <1>1 DEF TypeOK, Assembled
<1>8. /\ \A call \in m.calls : call.whole
      /\ \A n \in 1..Len(queue') : queue'[n].whole => queue'[n] \in m.calls
      /\ \A call \in m.calls : \E n \in 1..Len(queue') : queue'[n] = call
  <2>1. queue' \in Seq(Calls)
    BY <1>1, CallsAreCalls
  <2>2. Range(queue') = {queue'[n] : n \in 1..Len(queue')}
    BY <2>1, RangeEquality
  <2>3. m.calls = {call \in Range(queue') : call.whole}
    BY <1>1, <1>3 DEF Runnable
  <2>4. QED
    BY <2>2, <2>3
<1>9. Open(last)'
  BY <1>6 DEF Open
<1> USE DEF PairsOK
<1>10. EachAnswered'
  <2>1. ASSUME NEW i \in 1..Len(messages), messages[i].asks,
               NEW call \in messages[i].calls
        PROVE  Answered(i, call)'
    <3>1. Answered(i, call)
      BY <1>1, <2>1 DEF EachAnswered
    <3>2. QED
      BY <1>4, <3>1, StillPaired
  <2>2. QED
    BY <1>1, <1>6, <1>8, <1>9, <2>1 DEF EachAnswered
<1>11. EachAsked'
  <2>1. \A j \in 1..Len(messages) : Asked(j) => Asked(j)'
    BY <1>4, StillPaired
  <2>2. QED
    BY <1>3, <1>6, <2>1 DEF EachAsked
<1>12. AnsweredOnce'
  BY <1>3, <1>4, Appended DEF AnsweredOnce
<1>13. ResultsAreOld'
  BY <1>1, <1>3, <1>6 DEF ResultsAreOld
<1>14. QueueOK'
  <2>1. \A n \in 1..Len(queue'), j \in 1..Len(messages') :
          messages'[j] # Result(queue'[n])
    <3> SUFFICES ASSUME NEW n \in 1..Len(queue'), NEW j \in 1..Len(messages'),
                        messages'[j] = Result(queue'[n])
                 PROVE  FALSE
      OBVIOUS
    <3>1. messages'[j].role = "tool" /\ queue'[n] \in messages'[j].calls
      BY DEF Result
    <3>2. j \in 1..Len(messages) /\ messages'[j] = messages[j]
      BY <1>3, <1>6, <3>1
    <3>3. queue'[n].round < rounds
      BY <1>1, <3>1, <3>2 DEF ResultsAreOld
    <3>4. queue'[n].round = rounds /\ rounds \in Nat
      BY <1>7 DEF TypeOK
    <3>5. QED
      BY <3>3, <3>4
  <2>2. \A n \in 1..Len(queue') : \A k \in 1..(n - 1) : queue'[k] # queue'[n]
    <3> SUFFICES ASSUME NEW n \in 1..Len(queue'), NEW k \in 1..(n - 1),
                        queue'[k] = queue'[n]
                 PROVE  FALSE
      OBVIOUS
    <3>1. k \in 1..Len(queue') /\ k # n
      BY <1>7
    <3>2. QED
      BY <1>7, <3>1
  <2>3. \A n \in 1..Len(queue') : queue'[n].round <= rounds'
    <3>1. rounds \in Nat /\ rounds' = rounds
      BY <1>1 DEF TypeOK
    <3>2. QED
      BY <1>7, <3>1
  <2>4. \E i \in 1..Len(messages') :
          /\ messages'[i].asks
          /\ Open(i)'
          /\ \A n \in 1..Len(queue') :
               queue'[n].whole => queue'[n] \in messages'[i].calls
    BY <1>3, <1>6, <1>8, <1>9
  <2>5. QED
    BY <2>1, <2>2, <2>3, <2>4 DEF QueueOK
<1>15. WholeOnly'
  BY <1>6, <1>8 DEF WholeOnly
<1>16. QED
  BY <1>10, <1>11, <1>12, <1>13, <1>14, <1>15

\* The queue loses its first call and no other.
LEMMA Dequeued ==
  ASSUME TypeOK, queue # <<>>, queue' = Tail(queue)
  PROVE  /\ Len(queue) \in Nat \ {0}
         /\ Len(queue') = Len(queue) - 1
         /\ \A n \in 1..Len(queue') : queue'[n] = queue[n + 1]
         /\ Head(queue) = queue[1]
         /\ Head(queue) \in Calls
<1>1. queue \in Seq(Calls)
  BY DEF TypeOK
<1>2. QED
  BY <1>1, HeadTailProperties, EmptySeq

\* The queue loses its first call, and the others move up by one.
LEMMA Shifted ==
  ASSUME TypeOK, queue # <<>>, queue' = Tail(queue)
  PROVE  /\ Head(queue) = queue[1]
         /\ 1 \in 1..Len(queue)
         /\ \A n \in 1..Len(queue) : n # 1 =>
              n - 1 \in 1..Len(queue') /\ queue'[n - 1] = queue[n]
         /\ \A n \in 1..Len(queue') :
              n + 1 \in 2..Len(queue) /\ queue'[n] = queue[n + 1]
<1>1. /\ 1 \in 1..Len(queue)
      /\ \A n \in 1..Len(queue') :
           n + 1 \in 2..Len(queue) /\ queue'[n] = queue[n + 1]
  BY Dequeued
<1>2. ASSUME NEW n \in 1..Len(queue), n # 1
      PROVE  n - 1 \in 1..Len(queue') /\ queue'[n - 1] = queue[n]
  <2>1. n - 1 \in 1..Len(queue') /\ (n - 1) + 1 = n
    BY <1>2, Dequeued
  <2>2. QED
    BY <1>1, <2>1
<1>3. QED
  BY <1>1, <1>2, Dequeued

\* A broken call goes, and nobody waits for its result.
LEMMA DroppingStep ==
  ASSUME TypeOK, PairsOK, DropCall
  PROVE  PairsOK'
<1>1. /\ pc = "tools" /\ pc' = "tools"
      /\ queue # <<>> /\ queue' = Tail(queue)
      /\ ~Head(queue).whole
      /\ UNCHANGED <<messages, rounds>>
  BY DEF DropCall
<1> USE DEF PairsOK
<1>2. EachAnswered'
  <2>1. \A i \in 1..Len(messages) : \A call \in messages[i].calls :
          call # queue[1]
    BY <1>1, Shifted DEF WholeOnly
  <2>2. ASSUME NEW i \in 1..Len(messages), messages[i].asks,
               NEW call \in messages[i].calls
        PROVE  \/ Answered(i, call)'
               \/ Open(i)' /\ \E n \in 1..Len(queue') : queue'[n] = call
    <3>1. CASE Answered(i, call)
      BY <1>1, <3>1 DEF Answered
    <3>2. CASE Open(i) /\ \E n \in 1..Len(queue) : queue[n] = call
      <4>1. Open(i)'
        BY <1>1, <3>2 DEF Open
      <4>2. PICK n \in 1..Len(queue) : queue[n] = call
        BY <3>2
      <4>3. n - 1 \in 1..Len(queue') /\ queue'[n - 1] = call
        BY <1>1, <2>1, <2>2, <4>2, Shifted
      <4>4. QED
        BY <4>1, <4>3
    <3>3. QED
      BY <2>2, <3>1, <3>2 DEF EachAnswered
  <2>3. QED
    BY <1>1, <2>2 DEF EachAnswered
<1>3. /\ EachAsked'
      /\ AnsweredOnce'
      /\ ResultsAreOld' /\ WholeOnly'
  <2>1. EachAsked'
    BY <1>1 DEF EachAsked, Asked
  <2>2. AnsweredOnce'
    BY <1>1 DEF AnsweredOnce
  <2>3. ResultsAreOld' /\ WholeOnly'
    BY <1>1 DEF ResultsAreOld, WholeOnly
  <2>4. QED
    BY <2>1, <2>2, <2>3
<1>4. QueueOK'
  BY <1>1, Dequeued DEF QueueOK, Open
<1>5. QED
  BY <1>2, <1>3, <1>4

\* A tool's result is the first there is for its call.
LEMMA AnsweringStep ==
  ASSUME TypeOK, PairsOK, RunTool
  PROVE  PairsOK'
<1>1. /\ pc = "tools" /\ pc' = "tools"
      /\ queue # <<>> /\ queue' = Tail(queue)
      /\ rounds' = rounds
  BY DEF RunTool
<1>2. PICK c \in Calls : c = Head(queue)
  BY <1>1, Dequeued
<1>3. PICK m \in Message : m = Result(c)
  BY MessagesAreMessages
<1>4. m.role = "tool" /\ ~m.asks /\ m.calls = {c} /\ \A call : call # c => Result(call) # m
  BY <1>3 DEF Result
<1>5. c.whole /\ messages' = Append(messages, m)
  BY <1>2, <1>3 DEF RunTool
<1>6. PICK last \in Nat : last = Len(messages) + 1
  BY <1>5, Appended
<1>7. /\ \A i \in 1..Len(messages) : messages'[i] = messages[i]
      /\ messages'[last] = m
      /\ Len(messages') = last
      /\ 1..Len(messages') = 1..Len(messages) \cup {last}
  BY <1>5, <1>6, Appended
<1>8. /\ c = queue[1]
      /\ 1 \in 1..Len(queue)
      /\ \A n \in 1..Len(queue) : n # 1 =>
           n - 1 \in 1..Len(queue') /\ queue'[n - 1] = queue[n]
      /\ \A n \in 1..Len(queue') :
           n + 1 \in 2..Len(queue) /\ queue'[n] = queue[n + 1]
  BY <1>1, <1>2, Shifted
<1> USE DEF PairsOK
<1>9. c.round <= rounds /\ \A j \in 1..Len(messages) : messages[j] # m
  BY <1>1, <1>3, <1>8 DEF QueueOK
<1>10. PICK a \in 1..Len(messages) :
        /\ messages[a].asks
        /\ Open(a)
        /\ \A n \in 1..Len(queue) : queue[n].whole => queue[n] \in messages[a].calls
  BY <1>1 DEF QueueOK
<1>11. \A i \in 1..Len(messages) : Open(i) => Open(i)' /\ Answered(i, c)'
  <2> SUFFICES ASSUME NEW i \in 1..Len(messages), Open(i)
               PROVE  Open(i)' /\ Answered(i, c)'
    OBVIOUS
  <2>1. Open(i)'
    BY <1>4, <1>5, StillPaired
  <2>2. last \in (i + 1)..Len(messages')
    BY <1>6, <1>7
  <2>3. QED
    BY <1>3, <1>7, <2>1, <2>2 DEF Answered, Open
<1>12. EachAnswered'
  <2>1. ASSUME NEW i \in 1..Len(messages), messages[i].asks,
               NEW call \in messages[i].calls, ~Answered(i, call)'
        PROVE  Open(i)' /\ \E n \in 1..Len(queue') : queue'[n] = call
    <3>1. ~Answered(i, call)
      BY <1>5, <2>1, StillPaired
    <3>2. Open(i) /\ \E n \in 1..Len(queue) : queue[n] = call
      BY <2>1, <3>1 DEF EachAnswered
    <3>3. Open(i)' /\ call # c
      BY <1>11, <2>1, <3>2
    <3>4. QED
      BY <1>8, <3>2, <3>3
  <2>2. QED
    BY <1>1, <1>4, <1>7, <2>1 DEF EachAnswered
<1>13. EachAsked'
  <2>1. \A j \in 1..Len(messages) : Asked(j) => Asked(j)'
    BY <1>5, StillPaired
  <2>2. /\ messages'[a].asks
        /\ \A k \in (a + 1)..last : messages'[k].role = "tool"
    BY <1>7, <1>10, <1>11 DEF Open
  <2>3. messages'[last].calls \subseteq messages'[a].calls
    BY <1>4, <1>5, <1>7, <1>8, <1>10
  <2>4. a \in 1..(last - 1)
    BY <1>6
  <2>5. Asked(last)'
    BY <2>2, <2>3, <2>4 DEF Asked
  <2>6. QED
    BY <1>7, <2>1, <2>5 DEF EachAsked
<1>14. AnsweredOnce'
  <2>1. \A k \in 1..(last - 1) : k \in 1..Len(messages)
    BY <1>6
  <2>2. \A j \in 1..Len(messages) : \A k \in 1..(j - 1) : k \in 1..Len(messages)
    BY <1>6, <1>7
  <2>3. QED
    BY <1>7, <1>9, <2>1, <2>2 DEF AnsweredOnce
<1>15. ResultsAreOld'
  <2> SUFFICES ASSUME NEW j \in 1..Len(messages'), messages'[j].role = "tool",
                      NEW call \in messages'[j].calls
               PROVE  call.round <= rounds
    BY <1>1 DEF ResultsAreOld
  <2>1. CASE j = last
    BY <1>1, <1>4, <1>7, <1>9, <2>1
  <2>2. CASE j \in 1..Len(messages)
    <3>1. messages'[j] = messages[j]
      BY <1>7, <2>2
    <3>2. QED
      BY <1>1, <2>2, <3>1 DEF ResultsAreOld
  <2>3. j = last \/ j \in 1..Len(messages)
    <3>1. 1..Len(messages') = 1..Len(messages) \cup {last}
      BY <1>7
    <3>2. QED
      BY <3>1
  <2>4. QED
    BY <2>1, <2>2, <2>3
<1>16. QueueOK'
  <2>1. Open(a)' /\ messages'[a] = messages[a] /\ a \in 1..Len(messages')
    BY <1>7, <1>10, <1>11
  <2>2. \A n \in 1..Len(queue') : queue'[n].whole => queue'[n] \in messages'[a].calls
    <3>1. \A n \in 1..Len(queue') :
            \E k \in 1..Len(queue) : queue'[n] = queue[k]
      BY <1>8
    <3>2. QED
      BY <1>10, <2>1, <3>1
  <2>3. ASSUME NEW n \in 1..Len(queue')
        PROVE  /\ queue'[n].round <= rounds'
               /\ queue'[n] # c
               /\ \A j \in 1..Len(messages) : messages[j] # Result(queue'[n])
               /\ \A k \in 1..(n - 1) : queue'[k] # queue'[n]
    <3>1. n + 1 \in 1..Len(queue) /\ queue'[n] = queue[n + 1]
      BY <1>8
    <3>2. 1 \in 1..((n + 1) - 1)
      OBVIOUS
    <3>3. queue[1] # queue[n + 1]
      BY <1>1, <3>1, <3>2 DEF QueueOK
    <3>4. ASSUME NEW k \in 1..(n - 1) PROVE queue'[k] # queue'[n]
      <4>1. k \in 1..Len(queue') /\ k + 1 \in 1..((n + 1) - 1)
        BY <1>8
      <4>2. queue'[k] = queue[k + 1]
        BY <1>8, <4>1
      <4>3. QED
        BY <1>1, <3>1, <4>1, <4>2 DEF QueueOK
    <3>5. QED
      BY <1>1, <1>8, <3>1, <3>3, <3>4 DEF QueueOK
  <2>4. \A n \in 1..Len(queue'), j \in 1..Len(messages') :
          messages'[j] # Result(queue'[n])
    BY <1>4, <1>7, <2>3
  <2>5. QED
    BY <2>1, <2>2, <2>3, <2>4, <1>10 DEF QueueOK
<1>17. WholeOnly'
  BY <1>4, <1>5, <1>7 DEF WholeOnly
<1>18. QED
  BY <1>12, <1>13, <1>14, <1>15, <1>16, <1>17

\* Every list that is sent, or given back, has each call answered once and in
\* its place, however many rounds there were and whatever calls were dropped.
THEOREM HistoryIsPaired == Spec => []HistoryPaired
<1> DEFINE IInv == pc \in Going => PairsOK
<1>1. Init => IInv
  <2> SUFFICES ASSUME Init PROVE PairsOK
    OBVIOUS
  <2>1. /\ pc = "opening" /\ Len(messages) = 1
        /\ messages[1].role = "user" /\ messages[1].calls = {}
    BY DEF Init, User
  <2>2. QED
    BY <2>1 DEF PairsOK, EachAnswered, EachAsked, AnsweredOnce, ResultsAreOld,
                QueueOK, WholeOnly
<1>2. TypeOK /\ IInv /\ [Next]_vars => IInv'
  <2> SUFFICES ASSUME TypeOK, PairsOK, pc \in Going, pc' \in Going, [Next]_vars
               PROVE  PairsOK'
    <3>1. CASE pc \in Going
      BY <3>1
    <3>2. CASE pc \notin Going
      <4>1. [Next]_vars => pc' \notin Going
        BY <3>2 DEF Going, Before, Next, Server, FindQuestion, AskStore,
             QuestionTried, CallModel, Token, CallOpened, CallCompleted,
             RoundWantsTools, RoundAnswers, RunTool, DropCall, ToolsDone, Tell,
             Complete, ModelFails, KeepReply, KeepNothing, AfterRecorder,
             Apologise, HangUpEarly, HangUp, HangUpLate, Crash, vars
      <4>2. QED
        BY <4>1
    <3>3. QED
      BY <3>1, <3>2
  <2> USE DEF Going, Before, loop, recorder
  <2>1. ASSUME FindQuestion \/ AskStore \/ QuestionTried \/ Tell PROVE PairsOK'
    BY <2>1, QuietStep DEF FindQuestion, AskStore, QuestionTried, Tell
  <2>2. ASSUME Token \/ CallOpened PROVE PairsOK'
    BY <2>2, QuietStep DEF Token, CallOpened
  <2>3. ASSUME NEW i \in 1..MaxCalls, CallCompleted(i) PROVE PairsOK'
    BY <2>3, QuietStep DEF CallCompleted
  <2>4. ASSUME CallModel PROVE PairsOK'
    BY <2>4, CallingStep
  <2>5. ASSUME RoundWantsTools PROVE PairsOK'
    BY <2>5, AskingStep
  <2>6. ASSUME NEW f \in FinishReasons, RoundAnswers(f) PROVE PairsOK'
    <3>1. pc = "streaming" /\ pc' = "finishing" /\ rounds' = rounds
      BY <2>6 DEF RoundAnswers
    <3>2. messages' = messages \/ messages' = Append(messages, Assistant)
      BY <2>6 DEF RoundAnswers, Said
    <3>3. QED
      BY <3>1, <3>2, QuietStep, PlainStep
  <2>7. ASSUME RunTool PROVE PairsOK'
    BY <2>7, AnsweringStep
  <2>8. ASSUME DropCall PROVE PairsOK'
    BY <2>8, DroppingStep
  <2>9. ASSUME ToolsDone PROVE PairsOK'
    BY <2>9, AnsweredStep
  <2>10. ASSUME Complete \/ ModelFails \/ KeepReply \/ KeepNothing \/ Apologise
         PROVE  PairsOK'
    BY <2>10 DEF Complete, ModelFails, KeepReply, KeepNothing, Apologise
  <2>11. ASSUME HangUpEarly \/ HangUp \/ HangUpLate \/ Crash PROVE PairsOK'
    BY <2>11 DEF HangUpEarly, HangUp, HangUpLate, Crash
  <2>12. CASE UNCHANGED vars
    BY <2>12 DEF vars, PairsOK, EachAnswered, EachAsked, AnsweredOnce,
         ResultsAreOld, QueueOK, WholeOnly, Answered, Asked, Open
  <2>13. QED
    BY <2>1, <2>2, <2>3, <2>4, <2>5, <2>6, <2>7, <2>8, <2>9, <2>10, <2>11,
       <2>12 DEF Next, Server
<1>3. IInv => HistoryPaired
  <2> SUFFICES ASSUME PairsOK, pc \in {"calling", "told"} PROVE HistoryPaired
    BY DEF HistoryPaired, Going, Before
  <2>1. \A i \in 1..Len(messages) : messages[i].asks =>
          \A call \in messages[i].calls : Answered(i, call)
    BY DEF PairsOK, EachAnswered
  <2>2. \A j \in 1..Len(messages) : messages[j].role = "tool" =>
          /\ Asked(j)
          /\ \A k \in 1..(j - 1) : messages[k] # messages[j]
    BY DEF PairsOK, EachAsked, AnsweredOnce
  <2>3. QED
    BY <2>1, <2>2, Zenon DEF HistoryPaired, Answered, Asked
<1>4. QED
  BY <1>1, <1>2, <1>3, TypeCorrect, PTL DEF Spec

-----------------------------------------------------------------------------
(* The properties as the run checks them.                                  *)

\* Every tool call is answered where it was asked, once, and counted, and a model
\* that only asks is called at most MaxRounds + 1 times.
THEOREM ToolsAreHandled == Spec => []ToolsHandled
<1>1. HistoryPaired /\ ToolsCounted /\ CallsBounded => ToolsHandled
  BY DEF ToolsHandled
<1>2. QED
  BY <1>1, HistoryIsPaired, ToolsAreCounted, CallsAreBounded, PTL

\* A hirer who stays gets a frame, and the transcript says what it said.
THEOREM HirerHears == Spec => []HirerTold
<1>1. StatusIsTrue /\ AlwaysTold => HirerTold
  BY DEF HirerTold
<1>2. QED
  BY <1>1, StatusIsTruthful, HirerIsTold, PTL

-----------------------------------------------------------------------------
(* Every turn comes to an end: what a turn may still have to do.           *)

\* The calls whose first fragment came and whose id and name have not.
Unfinished == {i \in 1..Len(pending) : ~pending[i]}

\* The steps a round can take at most: the call, its fragments, the opening, the
\* completion and the running or dropping of each tool call, the model's stop,
\* and the return to another round.
RoundSteps == MaxTokens + 3 * MaxCalls + 3
Ahead == RoundSteps * (MaxRounds + 1 - rounds)

\* What is left of the model call under way, and of the tools it may ask for.
InRound == (MaxTokens - Len(content)) + 2 * (MaxCalls - Len(pending))
             + Cardinality(Unfinished) + MaxCalls

\* The steps a turn can take at most from where it is: the rounds to come, what
\* is left of the one under way, and the end.
Left ==
  CASE pc = "opening"   -> Ahead + 7
    [] pc = "asking"    -> Ahead + 6
    [] pc = "calling"   -> Ahead + 5
    [] pc = "streaming" -> Ahead + 7 + InRound
    [] pc = "tools"     -> Ahead + 6 + Len(queue)
    [] pc = "finishing" -> 4
    [] pc = "told"      -> 3
    [] pc = "closing"   -> 2
    [] pc = "failing"   -> 1
    [] pc = "ended"     -> 0

\* A model call's fragments and calls stay within the bounds it is given, and the
\* tools that wait are one call's.
WithinBounds ==
  Len(content) <= MaxTokens /\ Len(pending) <= MaxCalls /\ Len(queue) <= MaxCalls

\* Nothing in a round grows past its bound.
THEOREM BoundsAreKept == Spec => []WithinBounds
<1> USE BoundsAssumption DEF WithinBounds, loop, recorder
<1>1. Init => WithinBounds
  BY DEF Init
<1>2. TypeOK /\ WithinBounds /\ [Next]_vars => WithinBounds'
  <2> SUFFICES ASSUME TypeOK, WithinBounds, [Next]_vars PROVE WithinBounds'
    OBVIOUS
  <2>1. ASSUME CallModel PROVE WithinBounds'
    BY <2>1 DEF CallModel
  <2>2. ASSUME Token PROVE WithinBounds'
    BY <2>2 DEF Token, TypeOK
  <2>3. ASSUME CallOpened PROVE WithinBounds'
    BY <2>3 DEF CallOpened, TypeOK
  <2>4. ASSUME NEW i \in 1..MaxCalls, CallCompleted(i) PROVE WithinBounds'
    BY <2>4 DEF CallCompleted, TypeOK
  <2>5. ASSUME RoundWantsTools PROVE WithinBounds'
    <3>1. Len(Assembled) = Len(pending)
      BY DEF Assembled, TypeOK
    <3>2. QED
      BY <2>5, <3>1 DEF RoundWantsTools
  <2>6. ASSUME RunTool \/ DropCall PROVE WithinBounds'
    <3>1. /\ queue # <<>> /\ queue' = Tail(queue)
          /\ content' = content /\ pending' = pending
      BY <2>6 DEF RunTool, DropCall
    <3>2. Len(queue') = Len(queue) - 1 /\ Len(queue) \in Nat
      BY <3>1, Dequeued
    <3>3. QED
      BY <3>1, <3>2
  <2>7. ASSUME FindQuestion \/ AskStore \/ QuestionTried \/ ToolsDone PROVE WithinBounds'
    BY <2>7 DEF FindQuestion, AskStore, QuestionTried, ToolsDone
  <2>8. ASSUME NEW f \in FinishReasons, RoundAnswers(f) PROVE WithinBounds'
    BY <2>8 DEF RoundAnswers
  <2>9. ASSUME Tell \/ Complete \/ ModelFails \/ KeepReply \/ KeepNothing \/ Apologise
        PROVE  WithinBounds'
    BY <2>9 DEF Tell, Complete, ModelFails, KeepReply, KeepNothing, Apologise
  <2>10. ASSUME HangUpEarly \/ HangUp \/ HangUpLate \/ Crash PROVE WithinBounds'
    BY <2>10 DEF HangUpEarly, HangUp, HangUpLate, Crash
  <2>11. ASSUME UNCHANGED vars PROVE WithinBounds'
    BY <2>11 DEF vars
  <2> HIDE DEF WithinBounds
  <2>12. QED
    BY <2>1, <2>2, <2>3, <2>4, <2>5, <2>6, <2>7, <2>8, <2>9, <2>10, <2>11
       DEF Next, Server
<1> HIDE DEF WithinBounds
<1>3. QED
  BY <1>1, <1>2, TypeCorrect, PTL DEF Spec

\* What is counted is finite.
LEMMA UnfinishedIsFinite ==
  ASSUME TypeOK
  PROVE  IsFiniteSet(Unfinished) /\ Cardinality(Unfinished) \in Nat
<1>1. Len(pending) \in Nat
  BY DEF TypeOK
<1>2. IsFiniteSet(1..Len(pending)) /\ Unfinished \subseteq 1..Len(pending)
  BY <1>1, FS_Interval DEF Unfinished
<1>3. QED
  BY <1>2, FS_Subset, FS_CardinalityType

\* What is left, place by place, now and after a step.
LEMMA LeftIs ==
  /\ pc = "opening"   => Left = Ahead + 7
  /\ pc = "asking"    => Left = Ahead + 6
  /\ pc = "calling"   => Left = Ahead + 5
  /\ pc = "streaming" => Left = Ahead + 7 + InRound
  /\ pc = "tools"     => Left = Ahead + 6 + Len(queue)
  /\ pc = "finishing" => Left = 4
  /\ pc = "told"      => Left = 3
  /\ pc = "closing"   => Left = 2
  /\ pc = "failing"   => Left = 1
  /\ pc = "ended"     => Left = 0
BY DEF Left

\* And what it has after a step.
LEMMA LeftNext ==
  /\ pc' = "asking"    => Left' = Ahead' + 6
  /\ pc' = "calling"   => Left' = Ahead' + 5
  /\ pc' = "streaming" => Left' = Ahead' + 7 + InRound'
  /\ pc' = "tools"     => Left' = Ahead' + 6 + Len(queue')
  /\ pc' = "finishing" => Left' = 4
  /\ pc' = "told"      => Left' = 3
  /\ pc' = "closing"   => Left' = 2
  /\ pc' = "failing"   => Left' = 1
  /\ pc' = "ended"     => Left' = 0
BY DEF Left

\* No count is negative.
LEMMA CountsAreNat ==
  ASSUME TypeOK, RoundsOK, WithinBounds
  PROVE  /\ RoundSteps \in Nat /\ InRound \in Nat /\ InRound >= MaxCalls
         /\ Ahead \in Nat /\ Len(queue) \in Nat
         /\ Left \in Nat
<1> USE BoundsAssumption
<1>1. /\ Len(content) \in Nat /\ Len(pending) \in Nat /\ Len(queue) \in Nat
      /\ rounds \in Nat
  BY DEF TypeOK
<1>2. RoundSteps \in Nat /\ MaxRounds + 1 - rounds \in Nat
  BY <1>1 DEF RoundSteps, RoundsOK, CallsBounded
<1>3. InRound \in Nat /\ InRound >= MaxCalls
  <2>1. MaxTokens - Len(content) \in Nat /\ MaxCalls - Len(pending) \in Nat
    BY <1>1 DEF WithinBounds
  <2>2. Cardinality(Unfinished) \in Nat
    BY UnfinishedIsFinite
  <2>3. QED
    BY <2>1, <2>2 DEF InRound
<1>4. \A m, n \in Nat : m * n \in Nat
  OBVIOUS
<1>5. Ahead \in Nat
  BY <1>2, <1>4 DEF Ahead
<1>6. pc \in {"opening", "asking", "calling", "streaming", "tools",
             "finishing", "told", "closing", "failing", "ended"}
  BY DEF TypeOK
<1>7. Left \in Nat
  <2>1. /\ Ahead + 7 \in Nat /\ Ahead + 6 \in Nat /\ Ahead + 5 \in Nat
        /\ Ahead + 7 + InRound \in Nat /\ Ahead + 6 + Len(queue) \in Nat
    BY <1>1, <1>3, <1>5
  <2>2. CASE pc \in {"opening", "asking", "calling", "streaming", "tools"}
    BY ONLY <2>1, <2>2, LeftIs
  <2>3. CASE pc \in {"finishing", "told", "closing", "failing", "ended"}
    BY ONLY <2>3, LeftIs
  <2>4. QED
    BY <1>6, <2>2, <2>3
<1>8. QED
  BY <1>1, <1>2, <1>3, <1>5, <1>7

\* A model call uses up one round, and has what a round may take before it.
LEMMA CallUsesRound ==
  ASSUME TypeOK, CallModel
  PROVE  Ahead' = Ahead - RoundSteps /\ InRound' = RoundSteps - 3
<1> USE BoundsAssumption
<1>1. rounds' = rounds + 1 /\ content' = <<>> /\ pending' = <<>> /\ rounds \in Nat
  BY DEF CallModel, TypeOK
<1>2. \A m, n \in Int : m * (n - 1) = m * n - m
  OBVIOUS
<1>3. RoundSteps \in Int /\ RoundSteps' = RoundSteps
  BY DEF RoundSteps
<1>4. Ahead' = RoundSteps * ((MaxRounds + 1 - rounds) - 1)
  BY <1>1, <1>3 DEF Ahead
<1>5. Ahead' = Ahead - RoundSteps
  BY <1>1, <1>2, <1>3, <1>4 DEF Ahead
<1>6. Unfinished' = {}
  BY <1>1 DEF Unfinished
<1>7. Cardinality(Unfinished') = 0
  BY <1>6, FS_EmptySet
<1>8. InRound' = (MaxTokens - Len(content')) + 2 * (MaxCalls - Len(pending'))
                   + Cardinality(Unfinished') + MaxCalls
  BY DEF InRound
<1>9. QED
  BY <1>1, <1>5, <1>7, <1>8 DEF RoundSteps

\* A call that opens is one more that is unfinished, and one fewer to come.
LEMMA OpeningCounts ==
  ASSUME TypeOK, WithinBounds, CallOpened
  PROVE  InRound' = InRound - 1
<1> USE BoundsAssumption
<1> DEFINE n == Len(pending) + 1
<1>1. /\ pending' = Append(pending, FALSE) /\ content' = content
      /\ Len(pending) \in Nat /\ pending \in Seq(BOOLEAN) /\ Len(content) \in Nat
  BY DEF CallOpened, TypeOK
<1>2. /\ Len(pending') = n /\ pending'[n] = FALSE
      /\ \A i \in 1..Len(pending) : pending'[i] = pending[i]
  BY <1>1
<1>3. Unfinished' = Unfinished \cup {n} /\ n \notin Unfinished
  BY <1>1, <1>2 DEF Unfinished
<1>4. Cardinality(Unfinished') = Cardinality(Unfinished) + 1
  BY <1>3, UnfinishedIsFinite, FS_AddElement
<1>5. InRound' = (MaxTokens - Len(content')) + 2 * (MaxCalls - Len(pending'))
                   + Cardinality(Unfinished') + MaxCalls
  BY DEF InRound
<1>6. QED
  BY <1>1, <1>2, <1>4, <1>5, UnfinishedIsFinite DEF InRound

\* A call that is completed is one fewer that is unfinished, or was complete.
LEMMA CompletionCounts ==
  ASSUME TypeOK, WithinBounds, NEW i \in 1..MaxCalls, CallCompleted(i),
         pending' # pending
  PROVE  InRound' = InRound - 1
<1> USE BoundsAssumption
<1>1. /\ pending' = [pending EXCEPT ![i] = TRUE] /\ content' = content
      /\ i \in 1..Len(pending) /\ Len(pending) \in Nat /\ Len(content) \in Nat
      /\ pending \in [1..Len(pending) -> BOOLEAN]
  BY DEF CallCompleted, TypeOK
<1>2. pending[i] # TRUE
  BY <1>1
<1>3. /\ Len(pending') = Len(pending) /\ pending'[i] = TRUE
      /\ \A j \in 1..Len(pending) : j # i => pending'[j] = pending[j]
  BY <1>1
<1>4. Unfinished' = Unfinished \ {i} /\ i \in Unfinished
  BY <1>1, <1>2, <1>3 DEF Unfinished
<1>5. Cardinality(Unfinished') = Cardinality(Unfinished) - 1
  BY <1>4, UnfinishedIsFinite, FS_RemoveElement
<1>6. InRound' = (MaxTokens - Len(content')) + 2 * (MaxCalls - Len(pending'))
                   + Cardinality(Unfinished') + MaxCalls
  BY DEF InRound
<1>7. QED
  BY <1>1, <1>3, <1>5, <1>6, UnfinishedIsFinite DEF InRound

\* A step that is not one of the above leaves what is ahead as it was.
LEMMA SameAhead ==
  ASSUME TypeOK, rounds' = rounds
  PROVE  Ahead' = Ahead
BY DEF Ahead, RoundSteps

\* Every step is one of those that are left.
LEMMA LeftStep ==
  ASSUME TypeOK, RoundsOK, WithinBounds, WithinBounds', Next, vars' # vars
  PROVE  Left' < Left
<1> USE DEF loop, recorder
<1>0. /\ RoundSteps \in Nat /\ InRound \in Nat /\ InRound >= MaxCalls
      /\ Ahead \in Nat /\ Len(queue) \in Nat /\ MaxCalls \in Nat
  BY CountsAreNat, BoundsAssumption
<1>1. ASSUME FindQuestion \/ AskStore \/ QuestionTried PROVE Left' < Left
  <2>1. /\ rounds' = rounds
        /\ \/ pc = "opening" /\ pc' = "calling"
           \/ pc = "opening" /\ pc' = "asking"
           \/ pc = "asking" /\ pc' = "calling"
    BY <1>1 DEF FindQuestion, AskStore, QuestionTried
  <2>2. Ahead' = Ahead
    BY <2>1, SameAhead
  <2>3. QED
    BY ONLY <1>0, <2>1, <2>2, LeftIs, LeftNext
<1>2. ASSUME CallModel PROVE Left' < Left
  <2>1. pc = "calling" /\ pc' = "streaming"
    BY <1>2 DEF CallModel
  <2>2. Ahead' = Ahead - RoundSteps /\ InRound' = RoundSteps - 3
    BY <1>2, CallUsesRound
  <2>3. QED
    BY ONLY <1>0, <2>1, <2>2, LeftIs, LeftNext
<1>3. ASSUME pc = "streaming", pc' = "streaming", rounds' = rounds, InRound' = InRound - 1
      PROVE  Left' < Left
  <2>1. Ahead' = Ahead
    BY <1>3, SameAhead
  <2>2. QED
    BY ONLY <1>0, <1>3, <2>1, LeftIs, LeftNext
<1>4. ASSUME Token PROVE Left' < Left
  <2>1. /\ Len(content') = Len(content) + 1 /\ pending' = pending
        /\ Len(content) \in Nat /\ Len(pending) \in Nat
    BY <1>4 DEF Token, TypeOK
  <2>2. Unfinished' = Unfinished
    BY <2>1 DEF Unfinished
  <2>3. InRound' = InRound - 1
    BY <2>1, <2>2, UnfinishedIsFinite, BoundsAssumption DEF InRound
  <2>4. pc = "streaming" /\ pc' = "streaming" /\ rounds' = rounds
    BY <1>4 DEF Token
  <2>5. QED
    BY <1>3, <2>3, <2>4
<1>5. ASSUME CallOpened PROVE Left' < Left
  <2>1. pc = "streaming" /\ pc' = "streaming" /\ rounds' = rounds
    BY <1>5 DEF CallOpened
  <2>2. QED
    BY <1>3, <1>5, <2>1, OpeningCounts
<1>6. ASSUME NEW i \in 1..MaxCalls, CallCompleted(i) PROVE Left' < Left
  <2>1. pc = "streaming" /\ pc' = "streaming" /\ rounds' = rounds
    BY <1>6 DEF CallCompleted
  <2>2. pending' # pending
    BY <1>6 DEF CallCompleted, vars
  <2>3. InRound' = InRound - 1
    BY <1>6, <2>2, CompletionCounts
  <2>4. QED
    BY <1>3, <2>1, <2>3
<1>7. ASSUME RoundWantsTools PROVE Left' < Left
  <2>1. /\ pc = "streaming" /\ pc' = "tools" /\ rounds' = rounds
        /\ queue' = Assembled
    BY <1>7 DEF RoundWantsTools
  <2>2. Len(Assembled) = Len(pending) /\ Len(pending) \in Nat
    BY DEF Assembled, TypeOK
  <2>3. Len(queue') <= InRound /\ Len(queue') \in Nat
    BY <1>0, <2>1, <2>2 DEF WithinBounds
  <2>4. Ahead' = Ahead
    BY <2>1, SameAhead
  <2>5. QED
    BY ONLY <1>0, <2>1, <2>3, <2>4, LeftIs, LeftNext
<1>8. ASSUME NEW f \in FinishReasons, RoundAnswers(f) PROVE Left' < Left
  <2>1. pc = "streaming" /\ pc' = "finishing"
    BY <1>8 DEF RoundAnswers
  <2>2. QED
    BY ONLY <1>0, <2>1, LeftIs, LeftNext
<1>9. ASSUME RunTool \/ DropCall PROVE Left' < Left
  <2>1. /\ pc = "tools" /\ pc' = "tools" /\ rounds' = rounds
        /\ queue # <<>> /\ queue' = Tail(queue)
    BY <1>9 DEF RunTool, DropCall
  <2>2. Len(queue') = Len(queue) - 1
    BY <2>1, Dequeued
  <2>3. Ahead' = Ahead
    BY <2>1, SameAhead
  <2>4. QED
    BY ONLY <1>0, <2>1, <2>2, <2>3, LeftIs, LeftNext
<1>10. ASSUME ToolsDone PROVE Left' < Left
  <2>1. pc = "tools" /\ pc' = "calling" /\ rounds' = rounds
    BY <1>10 DEF ToolsDone
  <2>2. Ahead' = Ahead
    BY <2>1, SameAhead
  <2>3. QED
    BY ONLY <1>0, <2>1, <2>2, LeftIs, LeftNext
<1>11. ASSUME Tell \/ Complete PROVE Left' < Left
  <2>1. \/ pc = "finishing" /\ pc' = "told"
        \/ pc = "told" /\ pc' = "closing"
    BY <1>11 DEF Tell, Complete
  <2>2. QED
    BY ONLY <2>1, LeftIs, LeftNext
<1>12. ASSUME ModelFails \/ HangUp PROVE Left' < Left
  <2>1. pc \in {"calling", "streaming", "tools", "finishing", "told"} /\ pc' = "closing"
    BY <1>12 DEF ModelFails, HangUp
  <2>2. QED
    BY ONLY <1>0, <2>1, LeftIs, LeftNext
<1>13. ASSUME KeepReply \/ KeepNothing PROVE Left' < Left
  <2>1. pc = "closing" /\ pc' \in {"failing", "ended"}
    BY <1>13 DEF KeepReply, KeepNothing, AfterRecorder
  <2>2. QED
    BY ONLY <2>1, LeftIs, LeftNext
<1>14. ASSUME Apologise \/ HangUpEarly \/ HangUpLate \/ Crash PROVE Left' < Left
  <2>1. pc # "ended" /\ pc' = "ended"
    BY <1>14 DEF Apologise, HangUpEarly, HangUpLate, Crash
  <2>2. pc \in {"opening", "asking", "calling", "streaming", "tools",
               "finishing", "told", "closing", "failing", "ended"}
    BY DEF TypeOK
  <2>3. QED
    BY ONLY <1>0, <2>1, <2>2, LeftIs, LeftNext
<1>15. QED
  BY <1>1, <1>2, <1>4, <1>5, <1>6, <1>7, <1>8, <1>9, <1>10, <1>11, <1>12, <1>13,
     <1>14 DEF Next, Server

\* Whatever the model answers, and whoever hangs up, a turn takes at most
\* RoundSteps * (MaxRounds + 1) + 7 steps: each of them leaves fewer, and no count of
\* steps is negative.
THEOREM TurnRunsOut ==
  Spec => /\ [](Left \in Nat)
          /\ [][Left' < Left]_vars
<1>1. TypeOK /\ RoundsOK /\ WithinBounds => Left \in Nat
  BY CountsAreNat
<1>2. TypeOK /\ RoundsOK /\ WithinBounds /\ WithinBounds' /\ [Next]_vars
        => [Left' < Left]_vars
  BY LeftStep
<1>3. QED
  BY <1>1, <1>2, TypeCorrect, RoundsInvariant, BoundsAreKept, PTL DEF Spec

\* The guard of one of the server's actions.
ServerCan ==
  \/ pc \in {"opening", "asking", "calling", "streaming", "finishing", "told",
             "closing", "failing"}
  \/ pc = "tools" /\ \/ queue = <<>>
                     \/ queue # <<>> /\ Head(queue).whole
                     \/ queue # <<>> /\ ~Head(queue).whole

\* And until the turn has ended, one of the server's steps can be taken: with what
\* a turn has left running out, that is why every turn ends.
THEOREM TurnGoesOn == Spec => [](pc # "ended" => ServerCan)
<1>1. TypeOK => (pc # "ended" => ServerCan)
  BY DEF TypeOK, ServerCan
<1>2. QED
  BY <1>1, TypeCorrect, PTL
===============================================================================
