--------------------------- MODULE Transcript_proofs ---------------------------
(***************************************************************************)
(* What Transcript promises, proved for any requests, questions, grants    *)
(* and conversations.                                                      *)
(***************************************************************************)
EXTENDS Transcript, FiniteSetTheorems, TLAPS

-----------------------------------------------------------------------------
(* The inductive invariant, in parts.                                      *)

\* A conversation's row is held by the request that is writing to it: the one
\* whose question it takes, or whose reply.  While a question's is held the
\* conversation is nobody else's.
LockOK ==
  /\ \A c \in Conversations : lock[c] # NoOne =>
       \/ /\ pc[lock[c]] = "asking"
          /\ owner[c] \in {NoOne, Grant(lock[c])}
       \/ pc[lock[c]] = "keeping" /\ home[lock[c]] = c
  /\ \A r \in Requests : pc[r] = "keeping" =>
       home[r] \in Conversations /\ lock[home[r]] = r
  /\ \A c, d \in Conversations : lock[c] = lock[d] /\ lock[c] # NoOne => c = d

\* A turn writes its question first and its reply last, so what it is about to
\* write is not there yet.
WritesOnce ==
  /\ \A r \in Requests : pc[r] \in {"idle", "opening", "asking"} =>
       \A m \in rows : m.by # r
  /\ \A r \in Requests : pc[r] \in {"answering", "closing", "keeping"} =>
       \A m \in rows : m.by = r => m.status = "received"
  /\ \A r \in Requests : pc[r] = "failing" => outcome[r] = "failed"

\* Wherever a question is said to be, on its key or in a turn, it is there.
AskedWhereNoted ==
  /\ \A q \in Questions : note[q] # NoConversation => AskedIn(q, note[q])
  /\ \A r \in Requests : earlier[r] # NoConversation => AskedIn(asks[r], earlier[r])
  /\ \A r \in Requests : home[r] # NoConversation => AskedIn(asks[r], home[r])

IInv == TypeOK /\ LockOK /\ WritesOnce /\ AskedWhereNoted /\ OwnThreadOnly

Counted == IsFiniteSet(rows) /\ CountsMatch

-----------------------------------------------------------------------------
(* Every step keeps each part of it.                                       *)

\* A reply is only written where there is a conversation for it.
LEMMA TypeStep ==
  ASSUME IInv, [Next]_vars
  PROVE  TypeOK'
<1> USE NobodyAssumption, QuestionsAssumption
        DEF TypeOK, Goto, Outcomes, Message, NullableConversation, Grant, turn,
            store, text, IInv, LockOK
<1>1. ASSUME NEW r \in Requests, Admit(r) PROVE TypeOK'
  BY <1>1 DEF Admit, Believed, Opened
<1>2. ASSUME NEW r \in Requests, Recall(r) PROVE TypeOK'
  BY <1>2 DEF Recall
<1>3. ASSUME NEW r \in Requests, Ask(r) PROVE TypeOK'
  BY <1>3 DEF Ask, ResolveConversation, Opened, Unused
<1>4. ASSUME NEW r \in Requests, AskCommits(r, TRUE) \/ AskCommits(r, FALSE)
      PROVE  TypeOK'
  <2>1. PICK c \in Conversations :
          /\ owner' = [owner EXCEPT ![c] = Grant(r)]
          /\ rows' = rows \cup {[by |-> r, in |-> c, status |-> "received"]}
          /\ count' = [count EXCEPT ![c] = @ + 1]
          /\ note' \in {note, [note EXCEPT ![asks[r]] = c]}
          /\ home' \in {home, [home EXCEPT ![r] = c]}
    BY <1>4 DEF AskCommits
  <2>2. [by |-> r, in |-> c, status |-> "received"] \in Message
    OBVIOUS
  <2>3. pc' \in [Requests -> {"idle", "opening", "asking", "answering",
                              "closing", "keeping", "failing", "ended"}]
    BY <1>4 DEF AskCommits
  <2>4. lock' \in [Conversations -> Requests \cup {NoOne}]
    BY <1>4 DEF AskCommits, Unlocked
  <2>5. owner' \in [Conversations -> Grants \cup {NoOne}]
    BY <2>1
  <2>6. count' \in [Conversations -> Nat]
    BY <2>1
  <2>7. note' \in [Questions -> NullableConversation]
    BY <2>1
  <2>8. home' \in [Requests -> NullableConversation]
    BY <2>1
  <2>9. /\ rows' \subseteq Message
        /\ scrubbed \subseteq rows' /\ old \subseteq rows' /\ erased \subseteq rows'
    BY <2>1, <2>2
  <2>10. UNCHANGED <<asks, claim, earlier, outcome, told, key, stamped, text>>
    BY <1>4 DEF AskCommits
  <2>11. QED
    BY <2>3, <2>4, <2>5, <2>6, <2>7, <2>8, <2>9, <2>10
<1>5. ASSUME NEW r \in Requests, AskFails(r) PROVE TypeOK'
  BY <1>5 DEF AskFails, Unlocked
<1>6. ASSUME NEW r \in Requests, Tell(r) PROVE TypeOK'
  BY <1>6 DEF Tell
<1>7. ASSUME NEW r \in Requests, (\E s \in Outcomes : Stop(r, s)) PROVE TypeOK'
  BY <1>7 DEF Stop
<1>8. ASSUME NEW r \in Requests, Keep(r) PROVE TypeOK'
  BY <1>8 DEF Keep
<1>9. ASSUME NEW r \in Requests, KeepCommits(r) PROVE TypeOK'
  BY <1>9 DEF KeepCommits, Unlocked, AfterRecorder
<1>10. ASSUME NEW r \in Requests, KeepFails(r) PROVE TypeOK'
  BY <1>10 DEF KeepFails, Unlocked, AfterRecorder
<1>11. ASSUME NEW r \in Requests, Apologise(r) PROVE TypeOK'
  BY <1>11 DEF Apologise
<1>12. ASSUME NEW r \in Requests, CutShort(r) PROVE TypeOK'
  BY <1>12 DEF CutShort, Unlocked
<1>13. CASE PurgeKeys
  BY <1>13 DEF PurgeKeys
<1>14. CASE WindowPasses
  BY <1>14 DEF WindowPasses
<1>15. CASE ScrubOld
  BY <1>15 DEF ScrubOld
<1>16. CASE StampScrubbed
  BY <1>16 DEF StampScrubbed, Opened
<1>17. ASSUME NEW c \in Conversations, Redact(c) PROVE TypeOK'
  BY <1>17 DEF Redact, Opened, RowsIn
<1>18. CASE RedactCommits
  BY <1>18 DEF RedactCommits
<1>19. CASE RedactFails
  BY <1>19 DEF RedactFails
<1>20. CASE UNCHANGED vars
  BY <1>20 DEF vars
<1> HIDE DEF IInv, TypeOK
<1>21. QED
  BY <1>1, <1>2, <1>3, <1>4, <1>5, <1>6, <1>7, <1>8, <1>9, <1>10, <1>11, <1>12,
     <1>13, <1>14, <1>15, <1>16, <1>17, <1>18, <1>19, <1>20 DEF Next, Step

\* Who holds a row lets go of it with its transaction.
LEMMA LockStep ==
  ASSUME IInv, [Next]_vars
  PROVE  LockOK'
<1> USE NobodyAssumption, QuestionsAssumption
        DEF TypeOK, Goto, Outcomes, Message, NullableConversation, Grant, turn,
            store, text, IInv, LockOK
<1>1. ASSUME NEW r \in Requests, Admit(r) PROVE LockOK'
  BY <1>1 DEF Admit, Believed, Opened
<1>2. ASSUME NEW r \in Requests, Recall(r) PROVE LockOK'
  BY <1>2 DEF Recall
<1>3. ASSUME NEW r \in Requests, Ask(r) PROVE LockOK'
  BY <1>3 DEF Ask, ResolveConversation, Opened, Unused
<1>4. ASSUME NEW r \in Requests, AskCommits(r, TRUE) \/ AskCommits(r, FALSE)
      PROVE  LockOK'
  BY <1>4 DEF AskCommits, Unlocked
<1>5. ASSUME NEW r \in Requests, AskFails(r) PROVE LockOK'
  BY <1>5 DEF AskFails, Unlocked
<1>6. ASSUME NEW r \in Requests, Tell(r) PROVE LockOK'
  BY <1>6 DEF Tell
<1>7. ASSUME NEW r \in Requests, (\E s \in Outcomes : Stop(r, s)) PROVE LockOK'
  BY <1>7 DEF Stop
<1>8. ASSUME NEW r \in Requests, Keep(r) PROVE LockOK'
  BY <1>8 DEF Keep
<1>9. ASSUME NEW r \in Requests, KeepCommits(r) PROVE LockOK'
  BY <1>9 DEF KeepCommits, Unlocked, AfterRecorder
<1>10. ASSUME NEW r \in Requests, KeepFails(r) PROVE LockOK'
  BY <1>10 DEF KeepFails, Unlocked, AfterRecorder
<1>11. ASSUME NEW r \in Requests, Apologise(r) PROVE LockOK'
  BY <1>11 DEF Apologise
<1>12. ASSUME NEW r \in Requests, CutShort(r) PROVE LockOK'
  BY <1>12 DEF CutShort, Unlocked
<1>13. CASE PurgeKeys
  BY <1>13 DEF PurgeKeys
<1>14. CASE WindowPasses \/ ScrubOld \/ StampScrubbed
  BY <1>14 DEF WindowPasses, ScrubOld, StampScrubbed, Opened
<1>15. ASSUME NEW c \in Conversations, Redact(c) PROVE LockOK'
  BY <1>15 DEF Redact, Opened, RowsIn
<1>16. CASE RedactCommits \/ RedactFails
  BY <1>16 DEF RedactCommits, RedactFails
<1>17. CASE UNCHANGED vars
  BY <1>17 DEF vars
<1> HIDE DEF IInv, LockOK
<1>18. QED
  BY <1>1, <1>2, <1>3, <1>4, <1>5, <1>6, <1>7, <1>8, <1>9, <1>10, <1>11, <1>12,
     <1>13, <1>14, <1>15, <1>16, <1>17 DEF Next, Step

\* What a turn has written, it does not come back to write.
LEMMA WritesStep ==
  ASSUME IInv, [Next]_vars
  PROVE  WritesOnce'
<1> USE NobodyAssumption, QuestionsAssumption
        DEF TypeOK, Goto, Outcomes, Message, NullableConversation, Grant, turn,
            store, text, IInv, WritesOnce
<1>1. ASSUME NEW r \in Requests, Admit(r) PROVE WritesOnce'
  BY <1>1 DEF Admit, Believed, Opened
<1>2. ASSUME NEW r \in Requests, Recall(r) PROVE WritesOnce'
  BY <1>2 DEF Recall
<1>3. ASSUME NEW r \in Requests, Ask(r) PROVE WritesOnce'
  BY <1>3 DEF Ask, ResolveConversation, Opened, Unused
<1>4. ASSUME NEW r \in Requests, AskCommits(r, TRUE) \/ AskCommits(r, FALSE)
      PROVE  WritesOnce'
  BY <1>4 DEF AskCommits, Unlocked
<1>5. ASSUME NEW r \in Requests, AskFails(r) PROVE WritesOnce'
  BY <1>5 DEF AskFails, Unlocked
<1>6. ASSUME NEW r \in Requests, Tell(r) PROVE WritesOnce'
  BY <1>6 DEF Tell
<1>7. ASSUME NEW r \in Requests, (\E s \in Outcomes : Stop(r, s))
      PROVE  WritesOnce'
  BY <1>7 DEF Stop
<1>8. ASSUME NEW r \in Requests, Keep(r) PROVE WritesOnce'
  BY <1>8 DEF Keep
<1>9. ASSUME NEW r \in Requests, KeepCommits(r) PROVE WritesOnce'
  BY <1>9 DEF KeepCommits, Unlocked, AfterRecorder
<1>10. ASSUME NEW r \in Requests, KeepFails(r) PROVE WritesOnce'
  BY <1>10 DEF KeepFails, Unlocked, AfterRecorder
<1>11. ASSUME NEW r \in Requests, Apologise(r) PROVE WritesOnce'
  BY <1>11 DEF Apologise
<1>12. ASSUME NEW r \in Requests, CutShort(r) PROVE WritesOnce'
  BY <1>12 DEF CutShort, Unlocked
<1>13. CASE PurgeKeys
  BY <1>13 DEF PurgeKeys
<1>14. CASE WindowPasses \/ ScrubOld \/ StampScrubbed
  BY <1>14 DEF WindowPasses, ScrubOld, StampScrubbed, Opened
<1>15. ASSUME NEW c \in Conversations, Redact(c) PROVE WritesOnce'
  BY <1>15 DEF Redact, Opened, RowsIn
<1>16. CASE RedactCommits \/ RedactFails
  BY <1>16 DEF RedactCommits, RedactFails
<1>17. CASE UNCHANGED vars
  BY <1>17 DEF vars
<1> HIDE DEF IInv, WritesOnce
<1>18. QED
  BY <1>1, <1>2, <1>3, <1>4, <1>5, <1>6, <1>7, <1>8, <1>9, <1>10, <1>11, <1>12,
     <1>13, <1>14, <1>15, <1>16, <1>17 DEF Next, Step

\* A message is never taken back, and a request keeps its question.
LEMMA AskedStays ==
  ASSUME rows \subseteq rows', asks' = asks
  PROVE  \A q, c : AskedIn(q, c) => AskedIn(q, c)'
BY DEF AskedIn

\* Messages stay, and a turn keeps asking its question.
LEMMA AskedStep ==
  ASSUME IInv, [Next]_vars
  PROVE  AskedWhereNoted'
<1> USE NobodyAssumption, QuestionsAssumption
        DEF TypeOK, Goto, Outcomes, Message, NullableConversation, Grant, turn,
            store, text, IInv, LockOK, AskedWhereNoted, AskedIn
<1>1. ASSUME NEW r \in Requests, Admit(r) PROVE AskedWhereNoted'
  BY <1>1 DEF Admit, Believed, Opened
<1>2. ASSUME NEW r \in Requests, Recall(r) PROVE AskedWhereNoted'
  BY <1>2 DEF Recall
<1>3. ASSUME NEW r \in Requests, Ask(r) PROVE AskedWhereNoted'
  BY <1>3 DEF Ask, ResolveConversation, Opened, Unused
<1>4. ASSUME NEW r \in Requests, AskCommits(r, TRUE) \/ AskCommits(r, FALSE)
      PROVE  AskedWhereNoted'
  <2> HIDE DEF AskedIn
  <2>1. rows \subseteq rows' /\ asks' = asks /\ earlier' = earlier
    BY <1>4 DEF AskCommits
  <2>2. \A q, c : AskedIn(q, c) => AskedIn(q, c)'
    BY <2>1, AskedStays
  <2>3. PICK c \in Conversations :
          /\ [by |-> r, in |-> c, status |-> "received"] \in rows'
          /\ note' \in {note, [note EXCEPT ![asks[r]] = c]}
          /\ home' \in {home, [home EXCEPT ![r] = c]}
    BY <1>4 DEF AskCommits
  <2>4. AskedIn(asks[r], c)'
    BY <2>1, <2>3 DEF AskedIn
  <2>5. QED
    BY <2>1, <2>2, <2>3, <2>4
<1>5. ASSUME NEW r \in Requests, AskFails(r) PROVE AskedWhereNoted'
  BY <1>5 DEF AskFails, Unlocked
<1>6. ASSUME NEW r \in Requests, Tell(r) PROVE AskedWhereNoted'
  BY <1>6 DEF Tell
<1>7. ASSUME NEW r \in Requests, (\E s \in Outcomes : Stop(r, s))
      PROVE  AskedWhereNoted'
  BY <1>7 DEF Stop
<1>8. ASSUME NEW r \in Requests, Keep(r) PROVE AskedWhereNoted'
  BY <1>8 DEF Keep
<1>9. ASSUME NEW r \in Requests, KeepCommits(r) PROVE AskedWhereNoted'
  BY <1>9 DEF KeepCommits, Unlocked, AfterRecorder
<1>10. ASSUME NEW r \in Requests, KeepFails(r) PROVE AskedWhereNoted'
  BY <1>10 DEF KeepFails, Unlocked, AfterRecorder
<1>11. ASSUME NEW r \in Requests, Apologise(r) PROVE AskedWhereNoted'
  BY <1>11 DEF Apologise
<1>12. ASSUME NEW r \in Requests, CutShort(r) PROVE AskedWhereNoted'
  BY <1>12 DEF CutShort, Unlocked
<1>13. CASE PurgeKeys
  BY <1>13 DEF PurgeKeys
<1>14. CASE WindowPasses
  BY <1>14 DEF WindowPasses
<1>15. CASE ScrubOld
  BY <1>15 DEF ScrubOld
<1>16. CASE StampScrubbed
  BY <1>16 DEF StampScrubbed, Opened
<1>17. ASSUME NEW c \in Conversations, Redact(c) PROVE AskedWhereNoted'
  BY <1>17 DEF Redact, Opened, RowsIn
<1>18. CASE RedactCommits
  BY <1>18 DEF RedactCommits
<1>19. CASE RedactFails
  BY <1>19 DEF RedactFails
<1>20. CASE UNCHANGED vars
  BY <1>20 DEF vars
<1> HIDE DEF IInv, AskedWhereNoted
<1>21. QED
  BY <1>1, <1>2, <1>3, <1>4, <1>5, <1>6, <1>7, <1>8, <1>9, <1>10, <1>11, <1>12,
     <1>13, <1>14, <1>15, <1>16, <1>17, <1>18, <1>19, <1>20 DEF Next, Step

\* A conversation is given to a grant once, before anything is written in it.
LEMMA OwnStep ==
  ASSUME IInv, [Next]_vars
  PROVE  OwnThreadOnly'
<1> USE NobodyAssumption, QuestionsAssumption
        DEF TypeOK, Goto, Outcomes, Message, NullableConversation, Grant, turn,
            store, text, IInv, LockOK, AskedWhereNoted, OwnThreadOnly, AskedIn
<1>1. ASSUME NEW r \in Requests, Admit(r) PROVE OwnThreadOnly'
  BY <1>1 DEF Admit, Believed, Opened
<1>2. ASSUME NEW r \in Requests, Recall(r) PROVE OwnThreadOnly'
  BY <1>2 DEF Recall
<1>3. ASSUME NEW r \in Requests, Ask(r) PROVE OwnThreadOnly'
  BY <1>3 DEF Ask, ResolveConversation, Opened, Unused
<1>4. ASSUME NEW r \in Requests, AskCommits(r, TRUE) \/ AskCommits(r, FALSE)
      PROVE  OwnThreadOnly'
  BY <1>4 DEF AskCommits, Unlocked
<1>5. ASSUME NEW r \in Requests, AskFails(r) PROVE OwnThreadOnly'
  BY <1>5 DEF AskFails, Unlocked
<1>6. ASSUME NEW r \in Requests, Tell(r) PROVE OwnThreadOnly'
  BY <1>6 DEF Tell
<1>7. ASSUME NEW r \in Requests, (\E s \in Outcomes : Stop(r, s))
      PROVE  OwnThreadOnly'
  BY <1>7 DEF Stop
<1>8. ASSUME NEW r \in Requests, Keep(r) PROVE OwnThreadOnly'
  BY <1>8 DEF Keep
<1>9. ASSUME NEW r \in Requests, KeepCommits(r) PROVE OwnThreadOnly'
  BY <1>9 DEF KeepCommits, Unlocked, AfterRecorder
<1>10. ASSUME NEW r \in Requests, KeepFails(r) PROVE OwnThreadOnly'
  BY <1>10 DEF KeepFails, Unlocked, AfterRecorder
<1>11. ASSUME NEW r \in Requests, Apologise(r) PROVE OwnThreadOnly'
  BY <1>11 DEF Apologise
<1>12. ASSUME NEW r \in Requests, CutShort(r) PROVE OwnThreadOnly'
  BY <1>12 DEF CutShort, Unlocked
<1>13. CASE PurgeKeys
  BY <1>13 DEF PurgeKeys
<1>14. CASE WindowPasses
  BY <1>14 DEF WindowPasses
<1>15. CASE ScrubOld
  BY <1>15 DEF ScrubOld
<1>16. CASE StampScrubbed
  BY <1>16 DEF StampScrubbed, Opened
<1>17. ASSUME NEW c \in Conversations, Redact(c) PROVE OwnThreadOnly'
  BY <1>17 DEF Redact, Opened, RowsIn
<1>18. CASE RedactCommits
  BY <1>18 DEF RedactCommits
<1>19. CASE RedactFails
  BY <1>19 DEF RedactFails
<1>20. CASE UNCHANGED vars
  BY <1>20 DEF vars
<1> HIDE DEF IInv, OwnThreadOnly
<1>21. QED
  BY <1>1, <1>2, <1>3, <1>4, <1>5, <1>6, <1>7, <1>8, <1>9, <1>10, <1>11, <1>12,
     <1>13, <1>14, <1>15, <1>16, <1>17, <1>18, <1>19, <1>20 DEF Next, Step

-----------------------------------------------------------------------------
(* The theorems.                                                           *)

\* The invariant the rest follows from: it holds at first, and every step keeps it.
THEOREM Inductive == Spec => []IInv
<1>1. Init => IInv
  BY NobodyAssumption, QuestionsAssumption
     DEF Init, IInv, TypeOK, LockOK, WritesOnce, AskedWhereNoted, OwnThreadOnly,
         Outcomes, NullableConversation
<1>2. IInv /\ [Next]_vars => IInv'
  BY TypeStep, LockStep, WritesStep, AskedStep, OwnStep DEF IInv
<1>3. QED
  BY <1>1, <1>2, PTL DEF Spec

\* Every variable holds a value of its type in every reachable state.
THEOREM TypeCorrect == Spec => []TypeOK
<1>1. IInv => TypeOK
  BY DEF IInv
<1>2. QED
  BY <1>1, Inductive, PTL

\* Nothing is ever written into another grant's conversation, whatever ids
\* clients send.
THEOREM ThreadsAreOwn == Spec => []OwnThreadOnly
<1>1. IInv => OwnThreadOnly
  BY DEF IInv
<1>2. QED
  BY <1>1, Inductive, PTL

\* A reply goes to the conversation that holds its question.
THEOREM RepliesFindQuestions == Spec => []AnsweredWhereAsked
<1>1. IInv => AnsweredWhereAsked
  BY DEF IInv, AskedWhereNoted, AnsweredWhereAsked
<1>2. QED
  BY <1>1, Inductive, PTL

-----------------------------------------------------------------------------
(* Counts.                                                                 *)

\* A new message and one more in its conversation's count, together.
LEMMA MessageCounted ==
  ASSUME Counted, count \in [Conversations -> Nat],
         NEW c \in Conversations, NEW m, m.in = c, m \notin rows,
         rows' = rows \cup {m}, count' = [count EXCEPT ![c] = @ + 1]
  PROVE  Counted'
<1>1. IsFiniteSet(rows) /\ IsFiniteSet(rows')
  BY FS_AddElement DEF Counted
<1>2. Cardinality(RowsIn(c)') = Cardinality(RowsIn(c)) + 1
  <2>1. RowsIn(c)' = RowsIn(c) \cup {m} /\ m \notin RowsIn(c)
    BY DEF RowsIn
  <2>2. IsFiniteSet(RowsIn(c))
    BY <1>1, FS_Subset DEF RowsIn
  <2>3. QED
    BY <2>1, <2>2, FS_AddElement
<1>3. count'[c] = Cardinality(RowsIn(c)')
  BY <1>2 DEF Counted, CountsMatch
<1>4. ASSUME NEW d \in Conversations, d # c PROVE count'[d] = Cardinality(RowsIn(d)')
  <2>1. RowsIn(d)' = RowsIn(d)
    BY <1>4 DEF RowsIn
  <2>2. QED
    BY <1>4, <2>1 DEF Counted, CountsMatch
<1>5. CountsMatch'
  BY <1>3, <1>4 DEF CountsMatch
<1>6. QED
  BY <1>1, <1>5 DEF Counted

\* Only the two commits write messages or counts.
LEMMA OnlyCommitsWrite ==
  ASSUME [Next]_vars,
         \A r \in Requests :
           ~AskCommits(r, TRUE) /\ ~AskCommits(r, FALSE) /\ ~KeepCommits(r)
  PROVE  UNCHANGED <<rows, count>>
<1> USE DEF turn, store, text
<1>1. ASSUME NEW r \in Requests,
             \/ Admit(r) \/ Recall(r) \/ Ask(r) \/ AskFails(r) \/ Tell(r)
             \/ \E s \in Outcomes : Stop(r, s)
      PROVE  UNCHANGED <<rows, count>>
  BY <1>1 DEF Admit, Recall, Ask, AskFails, Tell, Stop
<1>2. ASSUME NEW r \in Requests,
             Keep(r) \/ KeepFails(r) \/ Apologise(r) \/ CutShort(r)
      PROVE  UNCHANGED <<rows, count>>
  BY <1>2 DEF Keep, KeepFails, Apologise, CutShort
<1>3. ASSUME NEW c \in Conversations, Redact(c) PROVE UNCHANGED <<rows, count>>
  BY <1>3 DEF Redact
<1>4. CASE PurgeKeys \/ WindowPasses \/ ScrubOld
  BY <1>4 DEF PurgeKeys, WindowPasses, ScrubOld
<1>5. CASE StampScrubbed \/ RedactCommits \/ RedactFails
  BY <1>5 DEF StampScrubbed, RedactCommits, RedactFails
<1>6. CASE UNCHANGED vars
  BY <1>6 DEF vars
<1>7. QED
  BY <1>1, <1>2, <1>3, <1>4, <1>5, <1>6 DEF Next, Step

\* A conversation's count is the number of its messages, whichever turns land
\* together, are rolled back or are erased.
THEOREM CountsAreRows == Spec => []CountsMatch
<1>1. Init => Counted
  <2> SUFFICES ASSUME Init PROVE Counted
    OBVIOUS
  <2>1. rows = {} /\ \A c \in Conversations : RowsIn(c) = {}
    BY DEF Init, RowsIn
  <2>2. QED
    BY <2>1, FS_EmptySet DEF Init, Counted, CountsMatch
<1>2. IInv /\ Counted /\ [Next]_vars => Counted'
  <2> SUFFICES ASSUME IInv, Counted, [Next]_vars PROVE Counted'
    OBVIOUS
  <2>1. ASSUME NEW r \in Requests, AskCommits(r, TRUE) \/ AskCommits(r, FALSE)
        PROVE  Counted'
    <3>1. PICK c \in Conversations :
            /\ rows' = rows \cup {[by |-> r, in |-> c, status |-> "received"]}
            /\ count' = [count EXCEPT ![c] = @ + 1]
      BY <2>1 DEF AskCommits
    <3>2. [by |-> r, in |-> c, status |-> "received"] \notin rows
      BY <2>1 DEF AskCommits, IInv, WritesOnce
    <3>3. QED
      BY <3>1, <3>2, MessageCounted DEF IInv, TypeOK
  <2>2. ASSUME NEW r \in Requests, KeepCommits(r) PROVE Counted'
    <3> DEFINE m == [by |-> r, in |-> home[r], status |-> outcome[r]]
    <3>1. home[r] \in Conversations /\ m \notin rows
      BY <2>2 DEF KeepCommits, Goto, IInv, TypeOK, LockOK, WritesOnce, Outcomes
    <3>2. rows' = rows \cup {m} /\ count' = [count EXCEPT ![m.in] = @ + 1]
      BY <2>2 DEF KeepCommits
    <3>3. m.in = home[r]
      OBVIOUS
    <3> HIDE DEF m
    <3>4. QED
      BY <3>1, <3>2, <3>3, MessageCounted DEF IInv, TypeOK
  <2>3. CASE UNCHANGED <<rows, count>>
    BY <2>3 DEF Counted, CountsMatch, RowsIn
  <2>4. QED
    BY <2>1, <2>2, <2>3, OnlyCommitsWrite
<1>3. Counted => CountsMatch
  BY DEF Counted
<1>4. QED
  BY <1>1, <1>2, <1>3, Inductive, PTL DEF Spec

-----------------------------------------------------------------------------
(* The contract of each turn.                                              *)

\* What the contract sees of a request depends on these alone.
LEMMA Unseen ==
  ASSUME NEW r \in Requests,
         pc'[r] = pc[r], outcome'[r] = outcome[r], home'[r] = home[r],
         told'[r] = told[r], Replies(r)' = Replies(r)
  PROVE  UNCHANGED Contract(r)!vars
<1>1. Stage(r)' = Stage(r)
  BY DEF Stage
<1>2. Recorded(r)' = Recorded(r)
  BY DEF Recorded
<1>3. QED
  BY <1>1, <1>2 DEF Contract!vars

\* A step that does not write r's reply leaves its replies alone.
LEMMA SameReplies ==
  ASSUME NEW r \in Requests,
         rows' = rows \/ \E m : rows' = rows \cup {m}
                                /\ (m.by # r \/ m.status = "received")
  PROVE  Replies(r)' = Replies(r) /\ Recorded(r)' = Recorded(r)
<1>1. Replies(r)' = Replies(r)
  BY DEF Replies
<1>2. QED
  BY <1>1 DEF Recorded

\* A question is no reply, whoever asks it.
LEMMA QuestionIsNoReply ==
  ASSUME NEW q \in Requests, AskCommits(q, TRUE) \/ AskCommits(q, FALSE)
  PROVE  \E m : rows' = rows \cup {m} /\ m.by = q /\ m.status = "received"
<1>1. PICK c \in Conversations :
        rows' = rows \cup {[by |-> q, in |-> c, status |-> "received"]}
  BY DEF AskCommits
<1> DEFINE m == [by |-> q, in |-> c, status |-> "received"]
<1>2. m.by = q /\ m.status = "received"
  OBVIOUS
<1>3. QED
  BY <1>1, <1>2

\* Nothing that another request does, or retention, is seen of this one.
LEMMA OthersUnseen ==
  ASSUME IInv, NEW r \in Requests, [Next]_vars,
         \A s \in Outcomes : ~Stop(r, s),
         ~Admit(r), ~Recall(r), ~Ask(r), ~AskCommits(r, TRUE), ~AskCommits(r, FALSE),
         ~AskFails(r), ~Tell(r), ~Keep(r), ~KeepCommits(r), ~KeepFails(r),
         ~Apologise(r), ~CutShort(r)
  PROVE  UNCHANGED Contract(r)!vars
<1> DEFINE Same == /\ pc'[r] = pc[r] /\ outcome'[r] = outcome[r]
                   /\ home'[r] = home[r] /\ told'[r] = told[r]
                   /\ Replies(r)' = Replies(r)
<1> USE DEF IInv, TypeOK, Goto, turn, store, text
<1>1. ASSUME NEW q \in Requests \ {r},
             \/ Admit(q) \/ Recall(q) \/ Ask(q) \/ AskFails(q) \/ Tell(q)
             \/ \E s \in Outcomes : Stop(q, s)
      PROVE  Same
  BY <1>1, SameReplies DEF Admit, Recall, Ask, AskFails, Tell, Stop
<1>2. ASSUME NEW q \in Requests \ {r}, AskCommits(q, TRUE) \/ AskCommits(q, FALSE)
      PROVE  Same
  <2>1. Replies(r)' = Replies(r)
    BY <1>2, QuestionIsNoReply, SameReplies
  <2>2. QED
    BY <1>2, <2>1 DEF AskCommits
<1>3. ASSUME NEW q \in Requests \ {r}, KeepCommits(q) PROVE Same
  BY <1>3, SameReplies DEF KeepCommits
<1>4. ASSUME NEW q \in Requests \ {r},
             Keep(q) \/ KeepFails(q) \/ Apologise(q) \/ CutShort(q)
      PROVE  Same
  BY <1>4, SameReplies DEF Keep, KeepFails, Apologise, CutShort
<1>5. ASSUME NEW c \in Conversations, Redact(c) PROVE Same
  BY <1>5, SameReplies DEF Redact
<1>6. ASSUME PurgeKeys \/ WindowPasses \/ ScrubOld PROVE Same
  BY <1>6, SameReplies DEF PurgeKeys, WindowPasses, ScrubOld
<1>7. ASSUME StampScrubbed \/ RedactCommits \/ RedactFails PROVE Same
  BY <1>7, SameReplies DEF StampScrubbed, RedactCommits, RedactFails
<1>8. ASSUME UNCHANGED vars PROVE Same
  BY <1>8, SameReplies DEF vars
<1> HIDE DEF IInv, Same
<1>9. Same
  BY <1>1, <1>2, <1>3, <1>4, <1>5, <1>6, <1>7, <1>8 DEF Next, Step
<1>10. QED
  BY <1>9, Unseen DEF Same

\* With others writing, with retention and with crashes, every turn keeps the
\* contract it keeps alone.
THEOREM ContractKept == Spec => TurnsKeepContract
<1>1. Init => \A r \in Requests : Contract(r)!Init
  <2> SUFFICES ASSUME Init, NEW r \in Requests PROVE Contract(r)!Init
    OBVIOUS
  <2>1. Replies(r) = {}
    BY DEF Init, Replies
  <2>2. QED
    BY <2>1 DEF Init, Contract!Init, Stage, Recorded
<1>2. IInv /\ [Next]_vars => \A r \in Requests : [Contract(r)!Next]_(Contract(r)!vars)
  <2> SUFFICES ASSUME IInv, [Next]_vars, NEW r \in Requests
               PROVE  [Contract(r)!Next]_(Contract(r)!vars)
    OBVIOUS
  <2> USE DEF Goto, turn, store, text
  <2>1. CASE Admit(r) \/ Ask(r) \/ Keep(r)
    <3>1. /\ Stage(r)' = Stage(r) /\ home' = home /\ told' = told
          /\ Recorded(r)' = Recorded(r)
      BY <2>1, SameReplies DEF Admit, Ask, Keep, Stage, IInv, TypeOK
    <3>2. QED
      BY <3>1 DEF Contract!vars
  <2>2. CASE Recall(r) \/ AskCommits(r, TRUE) \/ AskFails(r)
    <3>1. Stage(r) = "opening" /\ Stage(r)' = "answering" /\ told' = told
      BY <2>2 DEF Recall, AskCommits, AskFails, Stage, IInv, TypeOK
    <3>2. Recorded(r)' = Recorded(r)
      BY <2>2, QuestionIsNoReply, SameReplies DEF Recall, AskFails
    <3>3. Contract(r)!Begin
      BY <3>1, <3>2 DEF Contract!Begin
    <3>4. QED
      BY <3>3 DEF Contract!Next
  <2>3. CASE Tell(r)
    <3>1. /\ Stage(r) = "answering" /\ Stage(r)' = "answering" /\ home' = home
          /\ told[r] = "none" /\ told'[r] = "done"
      BY <2>3 DEF Tell, Stage, IInv, TypeOK
    <3>2. Recorded(r)' = Recorded(r)
      BY <2>3, SameReplies DEF Tell
    <3>3. Contract(r)!Tell
      BY <3>1, <3>2 DEF Contract!Tell
    <3>4. QED
      BY <3>3 DEF Contract!Next
  <2>4. ASSUME NEW s \in Outcomes, Stop(r, s) PROVE Contract(r)!Next
    <3>1. /\ Stage(r) = "answering" /\ Stage(r)' = s
          /\ home' = home /\ told' = told
          /\ s = "completed" => told[r] = "done"
          /\ s = "failed" => told[r] = "none"
      BY <2>4 DEF Stop, Stage, IInv, TypeOK
    <3>2. Recorded(r)' = Recorded(r)
      BY <2>4, SameReplies DEF Stop
    <3>3. Contract(r)!Stop(s)
      BY <3>1, <3>2 DEF Contract!Stop
    <3>4. QED
      BY <3>3 DEF Contract!Next, Contract!Outcomes, Outcomes
  <2>5. CASE KeepCommits(r)
    <3> DEFINE m == [by |-> r, in |-> home[r], status |-> outcome[r]]
    <3>1. /\ Stage(r) = outcome[r] /\ Stage(r)' \in {outcome[r], "ended"}
          /\ home[r] # NoConversation /\ home' = home /\ told' = told
      BY <2>5, NobodyAssumption
         DEF KeepCommits, AfterRecorder, Stage, IInv, TypeOK, LockOK
    <3>2. outcome[r] \in Outcomes
      BY DEF IInv, TypeOK
    <3>3. Replies(r) = {} /\ Replies(r)' = {m}
      BY <2>5, <3>2 DEF KeepCommits, Replies, IInv, WritesOnce, Outcomes
    <3>4. Recorded(r) = "none" /\ Recorded(r)' = outcome[r]
      <4>1. m.status = outcome[r]
        OBVIOUS
      <4> HIDE DEF m
      <4>2. Recorded(r) = "none"
        BY <3>3 DEF Recorded
      <4>3. (CHOOSE x \in {m} : TRUE) = m
        OBVIOUS
      <4>4. Recorded(r)' = (CHOOSE x \in {m} : TRUE).status
        BY <3>3 DEF Recorded
      <4>5. QED
        BY <4>1, <4>2, <4>3, <4>4
    <3>5. Contract(r)!Record
      BY <3>1, <3>2, <3>4 DEF Contract!Record, Contract!Outcomes, Outcomes
    <3>6. QED
      BY <3>5 DEF Contract!Next
  <2>6. CASE KeepFails(r)
    <3>1. /\ Stage(r) = outcome[r] /\ Stage(r)' \in {outcome[r], "ended"}
          /\ home' = home /\ told' = told
      BY <2>6 DEF KeepFails, AfterRecorder, Stage, IInv, TypeOK
    <3>2. Recorded(r)' = Recorded(r) /\ outcome[r] # "ended"
      BY <2>6, SameReplies DEF KeepFails, IInv, TypeOK, Outcomes
    <3>3. CASE Stage(r)' = "ended"
      <4>1. Contract(r)!End
        BY <3>1, <3>2, <3>3 DEF Contract!End
      <4>2. QED
        BY <4>1 DEF Contract!Next
    <3>4. CASE Stage(r)' = outcome[r]
      BY <3>1, <3>2, <3>4 DEF Contract!vars
    <3>5. QED
      BY <3>1, <3>3, <3>4
  <2>7. CASE Apologise(r)
    <3>1. /\ Stage(r) = "failed" /\ Stage(r)' = "ended" /\ home' = home
          /\ told'[r] = "error"
      BY <2>7 DEF Apologise, Stage, IInv, TypeOK, WritesOnce
    <3>2. Recorded(r)' = Recorded(r)
      BY <2>7, SameReplies DEF Apologise
    <3>3. Contract(r)!Apologise
      BY <3>1, <3>2 DEF Contract!Apologise
    <3>4. QED
      BY <3>3 DEF Contract!Next
  <2>8. CASE AskCommits(r, FALSE) \/ CutShort(r)
    <3>1. Stage(r) # "ended" /\ Stage(r)' = "ended" /\ home' = home /\ told' = told
      BY <2>8 DEF AskCommits, CutShort, Stage, IInv, TypeOK, Outcomes
    <3>2. Recorded(r)' = Recorded(r)
      BY <2>8, QuestionIsNoReply, SameReplies DEF CutShort
    <3>3. Contract(r)!End
      BY <3>1, <3>2 DEF Contract!End
    <3>4. QED
      BY <3>3 DEF Contract!Next
  <2>9. QED
    BY <2>1, <2>2, <2>3, <2>4, <2>5, <2>6, <2>7, <2>8, OthersUnseen
<1>3. QED
  BY <1>1, <1>2, Inductive, PTL DEF Spec, TurnsKeepContract

-----------------------------------------------------------------------------
(* Nobody waits for ever, and nothing is done twice.                       *)

\* A request that is storing its question holds the row it stores it in.
AskHolds ==
  \A r \in Requests : pc[r] = "asking" =>
    earlier[r] = NoConversation /\ \E c \in Conversations : lock[c] = r

\* A row is taken with the first statement that needs it and kept to the commit.
THEOREM AskersHold == Spec => []AskHolds
<1>1. Init => AskHolds
  BY DEF Init, AskHolds
<1>2. IInv /\ AskHolds /\ [Next]_vars => AskHolds'
  <2> SUFFICES ASSUME IInv, AskHolds, [Next]_vars PROVE AskHolds'
    OBVIOUS
  <2> USE NobodyAssumption DEF AskHolds, IInv, TypeOK, Goto, turn, store, text
  <2>1. ASSUME NEW r \in Requests, Admit(r) \/ Recall(r) PROVE AskHolds'
    BY <2>1 DEF Admit, Recall
  <2>2. ASSUME NEW r \in Requests, Ask(r) PROVE AskHolds'
    <3>1. PICK c \in Conversations : lock[c] = NoOne /\ lock' = [lock EXCEPT ![c] = r]
      BY <2>2 DEF Ask, ResolveConversation, Opened, Unused
    <3>2. \A d \in Conversations : lock[d] # NoOne => lock'[d] = lock[d]
      BY <3>1
    <3>3. QED
      BY <2>2, <3>1, <3>2 DEF Ask
  <2>3. ASSUME NEW r \in Requests, lock' = Unlocked(r), earlier' = earlier,
               NEW to, to # "asking", pc' = [pc EXCEPT ![r] = to]
        PROVE  AskHolds'
    BY <2>3 DEF Unlocked
  <2>4. ASSUME NEW r \in Requests, NEW heard \in BOOLEAN, AskCommits(r, heard)
        PROVE  AskHolds'
    BY <2>3, <2>4 DEF AskCommits
  <2>5. ASSUME NEW r \in Requests, AskFails(r) \/ CutShort(r) PROVE AskHolds'
    BY <2>3, <2>5 DEF AskFails, CutShort
  <2>6. ASSUME NEW r \in Requests, KeepCommits(r) \/ KeepFails(r) PROVE AskHolds'
    <3>1. AfterRecorder(r) # "asking"
      BY DEF AfterRecorder
    <3>2. QED
      BY <2>3, <2>6, <3>1 DEF KeepCommits, KeepFails
  <2>7. ASSUME NEW r \in Requests, Keep(r) PROVE AskHolds'
    <3>1. \A d \in Conversations : lock[d] # NoOne => lock'[d] = lock[d]
      BY <2>7 DEF Keep
    <3>2. QED
      BY <2>7, <3>1 DEF Keep
  <2>8. ASSUME NEW r \in Requests, Tell(r) \/ Apologise(r) \/ \E s \in Outcomes : Stop(r, s)
        PROVE  AskHolds'
    BY <2>8 DEF Tell, Apologise, Stop
  <2>9. ASSUME UNCHANGED <<pc, earlier, lock>> PROVE AskHolds'
    BY <2>9
  <2>10. ASSUME PurgeKeys \/ WindowPasses \/ ScrubOld \/ StampScrubbed PROVE AskHolds'
    BY <2>9, <2>10 DEF PurgeKeys, WindowPasses, ScrubOld, StampScrubbed
  <2>11. ASSUME RedactCommits \/ RedactFails \/ \E c \in Conversations : Redact(c)
         PROVE  AskHolds'
    BY <2>9, <2>11 DEF RedactCommits, RedactFails, Redact
  <2> HIDE DEF AskHolds, IInv
  <2>12. QED
    BY <2>1, <2>2, <2>4, <2>5, <2>6, <2>7, <2>8, <2>9, <2>10, <2>11 DEF Next, Step, vars
<1>3. QED
  BY <1>1, <1>2, Inductive, PTL DEF Spec

\* The guards of r's actions, while the store does not fail: a question waits for
\* another attempt at it that is being stored, and both it and a reply for the
\* row of their conversation.
CanGoOn(r) ==
  \/ pc[r] \in {"answering", "failing"}
  \/ /\ pc[r] = "opening"
     /\ \/ earlier[r] # NoConversation
        \/ /\ \A s \in Requests : pc[s] = "asking" => asks[s] # asks[r]
           /\ \E c \in ResolveConversation(r) : lock[c] = NoOne
  \/ pc[r] = "asking" /\ \E c \in Conversations : lock[c] = r
  \/ pc[r] = "closing" /\ (home[r] = NoConversation \/ lock[home[r]] = NoOne)
  \/ pc[r] = "keeping"

Committing(r) == pc[r] \in {"asking", "keeping"} /\ CanGoOn(r)

\* Whoever waits, a turn, a redaction or the retention script, waits for a request
\* whose next step is its commit, and which waits for nobody.  There is always an
\* id for a new conversation.
WaitsAreShort ==
  /\ \A r \in Requests : pc[r] \notin {"idle", "ended"} /\ Unused # {} =>
       CanGoOn(r) \/ \E q \in Requests : Committing(q)
  /\ \A c \in Conversations : lock[c] # NoOne => Committing(lock[c])

\* No two transactions wait for each other, whichever conversations their clients
\* name: a turn holds one row, and takes it just before its commit.
THEOREM NobodyDeadlocks == Spec => []WaitsAreShort
<1>1. IInv /\ AskHolds => WaitsAreShort
  <2> SUFFICES ASSUME IInv, AskHolds PROVE WaitsAreShort
    OBVIOUS
  <2>1. ASSUME NEW r \in Requests, pc[r] \in {"asking", "keeping"} PROVE Committing(r)
    BY <2>1 DEF AskHolds, Committing, CanGoOn
  <2>2. ASSUME NEW c \in Conversations, lock[c] # NoOne
        PROVE  lock[c] \in Requests /\ Committing(lock[c])
    <3>1. lock[c] \in Requests /\ pc[lock[c]] \in {"asking", "keeping"}
      BY <2>2 DEF IInv, TypeOK, LockOK
    <3>2. QED
      BY <2>1, <3>1
  <2>3. ASSUME NEW r \in Requests, pc[r] \notin {"idle", "ended"}, Unused # {}
        PROVE  CanGoOn(r) \/ \E q \in Requests : Committing(q)
    <3>1. CASE pc[r] = "opening"
      <4>1. CASE \E s \in Requests : pc[s] = "asking"
        BY <2>1, <4>1
      <4>2. CASE \E c \in Conversations : lock[c] # NoOne
        BY <2>2, <4>2
      <4>3. CASE /\ \A s \in Requests : pc[s] # "asking"
                 /\ \A c \in Conversations : lock[c] = NoOne
        <5>1. ResolveConversation(r) # {} /\ ResolveConversation(r) \subseteq Conversations
          BY <2>3 DEF ResolveConversation, Opened, Unused
        <5>2. QED
          BY <3>1, <4>3, <5>1 DEF CanGoOn
      <4>4. QED
        BY <4>1, <4>2, <4>3
    <3>2. CASE pc[r] = "closing"
      <4>1. home[r] \in Conversations \cup {NoConversation}
        BY DEF IInv, TypeOK, NullableConversation
      <4>2. QED
        BY <2>2, <3>2, <4>1 DEF CanGoOn
    <3>3. CASE pc[r] \in {"asking", "keeping"}
      BY <2>1, <3>3
    <3>4. pc[r] \in {"opening", "asking", "answering", "closing", "keeping", "failing"}
      BY <2>3 DEF IInv, TypeOK
    <3>5. QED
      BY <3>1, <3>2, <3>3, <3>4 DEF CanGoOn
  <2>4. QED
    BY <2>2, <2>3 DEF WaitsAreShort
<1>2. QED
  BY <1>1, Inductive, AskersHold, PTL

\* What is a grant's stays so.
SameHands == \A c \in Opened : owner'[c] = owner[c]

\* A conversation, once it is a grant's, stays that grant's: no message that lands
\* late, for whatever id its client sent, takes it over.
THEOREM NeverChangesHands == Spec => [][SameHands]_vars
<1>1. ASSUME IInv, [Next]_vars PROVE SameHands
  <2> USE DEF SameHands
  <2>1. ASSUME owner' = owner PROVE SameHands
    BY <2>1
  <2>2. ASSUME NEW r \in Requests, NEW heard \in BOOLEAN, AskCommits(r, heard)
        PROVE  SameHands
    <3>1. PICK c \in Conversations :
            lock[c] = r /\ owner' = [owner EXCEPT ![c] = Grant(r)]
      BY <2>2 DEF AskCommits
    <3>2. pc[r] = "asking" /\ r # NoOne
      BY <2>2, NobodyAssumption DEF AskCommits
    <3>3. owner[c] \in {NoOne, Grant(r)}
      BY <1>1, <3>1, <3>2 DEF IInv, LockOK
    <3>4. owner \in [Conversations -> Grants \cup {NoOne}]
      BY <1>1 DEF IInv, TypeOK
    <3>5. QED
      BY <3>1, <3>3, <3>4 DEF Opened
  <2> USE DEF turn, store, text
  <2>3. ASSUME NEW r \in Requests,
               \/ Admit(r) \/ Recall(r) \/ Ask(r) \/ AskFails(r) \/ Tell(r)
               \/ \E s \in Outcomes : Stop(r, s)
        PROVE  owner' = owner
    BY <2>3 DEF Admit, Recall, Ask, AskFails, Tell, Stop
  <2>4. ASSUME NEW r \in Requests,
               Keep(r) \/ KeepCommits(r) \/ KeepFails(r) \/ Apologise(r) \/ CutShort(r)
        PROVE  owner' = owner
    BY <2>4 DEF Keep, KeepCommits, KeepFails, Apologise, CutShort
  <2>5. ASSUME PurgeKeys \/ WindowPasses \/ ScrubOld \/ StampScrubbed PROVE owner' = owner
    BY <2>5 DEF PurgeKeys, WindowPasses, ScrubOld, StampScrubbed
  <2>6. ASSUME RedactCommits \/ RedactFails \/ \E c \in Conversations : Redact(c)
        PROVE  owner' = owner
    BY <2>6 DEF RedactCommits, RedactFails, Redact
  <2>7. ASSUME UNCHANGED vars PROVE owner' = owner
    BY <2>7 DEF vars
  <2>8. QED
    BY <1>1, <2>1, <2>2, <2>3, <2>4, <2>5, <2>6, <2>7 DEF Next, Step
<1>2. IInv /\ [Next]_vars => [SameHands]_vars
  BY <1>1
<1>3. QED
  BY <1>2, Inductive, PTL DEF Spec

\* How far along its way a request is.
Place(at) ==
  CASE at = "idle"      -> 0
    [] at = "opening"   -> 1
    [] at = "asking"    -> 2
    [] at = "answering" -> 3
    [] at = "closing"   -> 4
    [] at = "keeping"   -> 5
    [] at = "failing"   -> 6
    [] at = "ended"     -> 7

OnlyOn == \A r \in Requests : pc'[r] # pc[r] => Place(pc[r]) < Place(pc'[r])

\* The places in their order.
LEMMA Places ==
  /\ Place("idle") = 0 /\ Place("opening") = 1 /\ Place("asking") = 2
  /\ Place("answering") = 3 /\ Place("closing") = 4 /\ Place("keeping") = 5
  /\ Place("failing") = 6 /\ Place("ended") = 7
BY DEF Place

\* A request only ever moves on: no statement of it is run twice, and once it has
\* ended it writes no more, whatever the others do.
THEOREM NoStatementTwice == Spec => [][OnlyOn]_vars
<1>1. ASSUME TypeOK, [Next]_vars PROVE OnlyOn
  <2>1. ASSUME NEW r \in Requests, NEW to, pc' = [pc EXCEPT ![r] = to],
               Place(pc[r]) < Place(to)
        PROVE  OnlyOn
    BY <1>1, <2>1 DEF OnlyOn, TypeOK
  <2>2. ASSUME NEW r \in Requests,
               NEW from \in {"opening", "asking", "answering", "closing", "keeping", "failing"},
               NEW to \in {"answering", "failing", "ended"},
               pc[r] = from, pc' = [pc EXCEPT ![r] = to],
               \/ to = "ended"
               \/ to = "failing" /\ from # "failing"
               \/ to = "answering" /\ from \in {"opening", "asking"}
        PROVE  OnlyOn
    <3>1. Place(pc[r]) < Place(to)
      BY <2>2, Places
    <3>2. QED
      BY <2>1, <2>2, <3>1
  <2> USE DEF Goto
  <2>3. ASSUME NEW r \in Requests, Admit(r) PROVE OnlyOn
    <3>1. pc[r] = "idle" /\ pc' = [pc EXCEPT ![r] = "opening"]
      BY <2>3 DEF Admit
    <3>2. Place(pc[r]) < Place("opening")
      BY <3>1, Places
    <3>3. QED
      BY <2>1, <3>1, <3>2
  <2>4. ASSUME NEW r \in Requests, Ask(r) PROVE OnlyOn
    <3>1. pc[r] = "opening" /\ pc' = [pc EXCEPT ![r] = "asking"]
      BY <2>4 DEF Ask
    <3>2. Place(pc[r]) < Place("asking")
      BY <3>1, Places
    <3>3. QED
      BY <2>1, <3>1, <3>2
  <2>5. ASSUME NEW r \in Requests, \E s \in Outcomes : Stop(r, s) PROVE OnlyOn
    <3>1. pc[r] = "answering" /\ pc' = [pc EXCEPT ![r] = "closing"]
      BY <2>5 DEF Stop
    <3>2. Place(pc[r]) < Place("closing")
      BY <3>1, Places
    <3>3. QED
      BY <2>1, <3>1, <3>2
  <2>6. ASSUME NEW r \in Requests, Keep(r) PROVE OnlyOn
    <3>1. pc[r] = "closing" /\ pc' = [pc EXCEPT ![r] = "keeping"]
      BY <2>6 DEF Keep
    <3>2. Place(pc[r]) < Place("keeping")
      BY <3>1, Places
    <3>3. QED
      BY <2>1, <3>1, <3>2
  <2>7. ASSUME NEW r \in Requests, NEW heard \in BOOLEAN,
               Recall(r) \/ AskFails(r) \/ AskCommits(r, heard)
        PROVE  OnlyOn
    <3>1. /\ pc[r] \in {"opening", "asking"}
          /\ \/ pc' = [pc EXCEPT ![r] = "answering"]
             \/ pc' = [pc EXCEPT ![r] = "ended"]
      BY <2>7 DEF Recall, AskFails, AskCommits
    <3>2. QED
      BY <2>2, <3>1
  <2>8. ASSUME NEW r \in Requests, KeepCommits(r) \/ KeepFails(r) PROVE OnlyOn
    <3>1. /\ pc[r] \in {"closing", "keeping"}
          /\ \/ pc' = [pc EXCEPT ![r] = "failing"]
             \/ pc' = [pc EXCEPT ![r] = "ended"]
      BY <2>8 DEF KeepCommits, KeepFails, AfterRecorder
    <3>2. QED
      BY <2>2, <3>1
  <2>9. ASSUME NEW r \in Requests, Apologise(r) \/ CutShort(r) PROVE OnlyOn
    <3>1. /\ pc[r] \in {"opening", "asking", "answering", "closing", "keeping", "failing"}
          /\ pc' = [pc EXCEPT ![r] = "ended"]
      BY <1>1, <2>9 DEF Apologise, CutShort, TypeOK
    <3>2. QED
      BY <2>2, <3>1
  <2>10. ASSUME UNCHANGED pc PROVE OnlyOn
    BY <2>10 DEF OnlyOn
  <2>11. ASSUME NEW r \in Requests, Tell(r) PROVE OnlyOn
    BY <2>10, <2>11 DEF Tell
  <2>12. ASSUME PurgeKeys \/ WindowPasses \/ ScrubOld \/ StampScrubbed PROVE OnlyOn
    BY <2>10, <2>12 DEF PurgeKeys, WindowPasses, ScrubOld, StampScrubbed
  <2>13. ASSUME RedactCommits \/ RedactFails \/ \E c \in Conversations : Redact(c)
         PROVE  OnlyOn
    BY <2>10, <2>13 DEF RedactCommits, RedactFails, Redact
  <2>14. QED
    BY <1>1, <2>3, <2>4, <2>5, <2>6, <2>7, <2>8, <2>9, <2>10, <2>11, <2>12, <2>13
       DEF Next, Step, vars
<1>2. TypeOK /\ [Next]_vars => [OnlyOn]_vars
  BY <1>1
<1>3. QED
  BY <1>2, TypeCorrect, PTL DEF Spec
================================================================================
