------------------------------ MODULE Transcript ------------------------------
(***************************************************************************)
(* The transcript: SQLTranscriptRepository writing questions and replies   *)
(* for concurrent turns, the key that leads a retry to the conversation of *)
(* the earlier attempt, and the two ways text is erased, the operator's    *)
(* redaction and the nightly retention script.                             *)
(*                                                                         *)
(* What a turn does between its question and its end is in Turn; here it   *)
(* keeps TurnContract and no more.  The variables hold what is COMMITTED;  *)
(* an open transaction shows only as the conversation row its _bump holds. *)
(***************************************************************************)
EXTENDS Naturals, FiniteSets

CONSTANTS
  Requests,        \* HTTP requests whose question has been paid for
  Questions,       \* rows of question_keys: a grant's questions
  Grants,          \* rows of tokens
  GrantOf,         \* the grant each question belongs to
  Conversations,   \* ids of the conversations table
  NoConversation,  \* NULL
  NoOne            \* a conversation row nobody holds

ASSUME QuestionsAssumption == GrantOf \in [Questions -> Grants]
ASSUME NobodyAssumption ==
  NoOne \notin Requests \cup Grants /\ NoConversation \notin Conversations
ASSUME RequestsAssumption == IsFiniteSet(Requests)

VARIABLES
  pc,        \* where each request is
  asks,      \* the question it attempts
  claim,     \* the conversation its client says it continues, if believed
  earlier,   \* earlier_conversation: what its key said when it was admitted
  home,      \* conversation_id: where its reply will go
  outcome,   \* how its turn stopped
  told,      \* the terminal frame it sent
  key,       \* whether question_keys has a row
  note,      \* question_keys.conversation_id
  owner,     \* conversations.token_id, NoOne where there is no row
  count,     \* conversations.message_count
  stamped,   \* conversations.redacted_at IS NOT NULL
  lock,      \* the request whose open transaction holds the row
  rows,      \* chat_messages
  scrubbed,  \* those whose content was nulled
  old,       \* those past the retention window
  erasing,   \* the conversation the operator is redacting
  erased,    \* the rows that redaction has nulled and not yet committed
  cron       \* the retention script: its two statements are two transactions

turn   == <<asks, claim, earlier, home, outcome, told>>
store  == <<key, note, owner, count, stamped, lock, rows>>
text   == <<scrubbed, old, erasing, erased, cron>>
vars   == <<pc, turn, store, text>>

Outcomes == {"completed", "aborted", "failed"}
Message  == [by : Requests, in : Conversations,
             status : Outcomes \cup {"received"}]
NullableConversation == Conversations \cup {NoConversation}

Init ==
  /\ pc = [r \in Requests |-> "idle"]
  /\ asks \in [Requests -> Questions]
  /\ claim = [r \in Requests |-> NoConversation]
  /\ earlier = [r \in Requests |-> NoConversation]
  /\ home = [r \in Requests |-> NoConversation]
  /\ outcome = [r \in Requests |-> "completed"]
  /\ told = [r \in Requests |-> "none"]
  /\ key = [q \in Questions |-> FALSE]
  /\ note = [q \in Questions |-> NoConversation]
  /\ owner = [c \in Conversations |-> NoOne]
  /\ count = [c \in Conversations |-> 0]
  /\ stamped = [c \in Conversations |-> FALSE]
  /\ lock = [c \in Conversations |-> NoOne]
  /\ rows = {}
  /\ scrubbed = {}
  /\ old = {}
  /\ erasing = NoConversation
  /\ erased = {}
  /\ cron = "idle"

-----------------------------------------------------------------------------
Goto(r, from, to) == pc[r] = from /\ pc' = [pc EXCEPT ![r] = to]

Grant(r)     == GrantOf[asks[r]]
Opened       == {c \in Conversations : owner[c] # NoOne}
Unused       == {c \in Conversations : owner[c] = NoOne /\ lock[c] = NoOne}
RowsIn(c)    == {m \in rows : m.in = c}
Unlocked(r)  == [c \in Conversations |-> IF lock[c] = r THEN NoOne ELSE lock[c]]

\* Mutant: any conversation that exists is the caller's.
ResolveAnyConversation(r) ==
  IF claim[r] \in Opened THEN {claim[r]} ELSE Unused

\* The caller's conversation when it is genuinely theirs, else a new one.
ResolveConversation(r) ==
  IF claim[r] \in Opened /\ owner[claim[r]] = Grant(r)
  THEN {claim[r]}
  ELSE Unused

-----------------------------------------------------------------------------
(* The question.                                                           *)

\* A client may name any conversation, but it is believed only with a history
\* the server signed for it, or with none; anything else counts as no id.
Believed == Opened \cup {NoConversation}

\* The question is paid for, or tried again.  A retry takes the conversation
\* from its key's row in the statement that counts the attempt, which waits
\* for an earlier attempt that is writing the row.
Admit(r) ==
  /\ Goto(r, "idle", "opening")
  /\ \A s \in Requests : pc[s] = "asking" => asks[s] # asks[r]
  /\ key' = [key EXCEPT ![asks[r]] = TRUE]
  /\ earlier' = [earlier EXCEPT ![r] = note[asks[r]]]
  /\ \E c \in Believed : claim' = [claim EXCEPT ![r] = c]
  /\ UNCHANGED <<asks, home, outcome, told, note, owner, count, stamped, lock,
                 rows, text>>

\* The earlier attempt recorded the question.
Recall(r) ==
  /\ Goto(r, "opening", "answering")
  /\ earlier[r] # NoConversation
  /\ home' = [home EXCEPT ![r] = earlier[r]]
  /\ UNCHANGED <<asks, claim, earlier, outcome, told, store, text>>

\* record_question up to its commit: the conversation, the message, the count
\* and the key's row, which another attempt may be writing.
Ask(r) ==
  /\ Goto(r, "opening", "asking")
  /\ earlier[r] = NoConversation
  /\ \A s \in Requests : pc[s] = "asking" => asks[s] # asks[r]
  /\ \E c \in ResolveConversation(r) :
       /\ lock[c] = NoOne
       /\ lock' = [lock EXCEPT ![c] = r]
  /\ UNCHANGED <<turn, key, note, owner, count, stamped, rows, text>>

\* The commit, in one piece.  The id reaches the turn unless it was hung up
\* while it waited for this.
AskCommits(r, heard) ==
  /\ pc[r] = "asking"
  /\ pc' = [pc EXCEPT ![r] = IF heard THEN "answering" ELSE "ended"]
  /\ \E c \in Conversations :
       /\ lock[c] = r
       /\ owner' = [owner EXCEPT ![c] = Grant(r)]
       /\ rows' = rows \cup {[by |-> r, in |-> c, status |-> "received"]}
       /\ count' = [count EXCEPT ![c] = @ + 1]
       /\ note' = IF key[asks[r]] THEN [note EXCEPT ![asks[r]] = c] ELSE note
       /\ home' = IF heard THEN [home EXCEPT ![r] = c] ELSE home
  /\ lock' = Unlocked(r)
  /\ UNCHANGED <<asks, claim, earlier, outcome, told, key, stamped, text>>

\* Mutant: after a failure the reply goes where the client said.
AskFailsKeepingClaim(r) ==
  /\ pc[r] \in {"opening", "asking"}
  /\ earlier[r] = NoConversation
  /\ pc' = [pc EXCEPT ![r] = "answering"]
  /\ home' = [home EXCEPT ![r] = claim[r]]
  /\ lock' = Unlocked(r)
  /\ UNCHANGED <<asks, claim, earlier, outcome, told, key, note, owner, count,
                 stamped, rows, text>>

\* The store raises: rolled back, swallowed, and the turn goes on.
AskFails(r) ==
  /\ pc[r] \in {"opening", "asking"}
  /\ earlier[r] = NoConversation
  /\ pc' = [pc EXCEPT ![r] = "answering"]
  /\ lock' = Unlocked(r)
  /\ UNCHANGED <<turn, key, note, owner, count, stamped, rows, text>>

-----------------------------------------------------------------------------
(* The turn, as far as its contract goes, and the reply.                   *)

Tell(r) ==
  /\ pc[r] = "answering"
  /\ told[r] = "none"
  /\ told' = [told EXCEPT ![r] = "done"]
  /\ UNCHANGED <<pc, asks, claim, earlier, home, outcome, store, text>>

Stop(r, s) ==
  /\ Goto(r, "answering", "closing")
  /\ s = "completed" => told[r] = "done"
  /\ s = "failed" => told[r] = "none"
  /\ outcome' = [outcome EXCEPT ![r] = s]
  /\ UNCHANGED <<asks, claim, earlier, home, told, store, text>>

\* record_reply up to its commit.
Keep(r) ==
  /\ Goto(r, "closing", "keeping")
  /\ home[r] # NoConversation
  /\ lock[home[r]] = NoOne
  /\ lock' = [lock EXCEPT ![home[r]] = r]
  /\ UNCHANGED <<turn, key, note, owner, count, stamped, rows, text>>

AfterRecorder(r) == IF outcome[r] = "failed" THEN "failing" ELSE "ended"

\* Mutant: the reply is stored before how it ended is known.
KeepCommitsOptimist(r) ==
  /\ Goto(r, "keeping", AfterRecorder(r))
  /\ rows' = rows \cup {[by |-> r, in |-> home[r], status |-> "completed"]}
  /\ count' = [count EXCEPT ![home[r]] = @ + 1]
  /\ lock' = Unlocked(r)
  /\ UNCHANGED <<turn, key, note, owner, stamped, text>>

KeepCommits(r) ==
  /\ Goto(r, "keeping", AfterRecorder(r))
  /\ rows' = rows \cup {[by |-> r, in |-> home[r], status |-> outcome[r]]}
  /\ count' = [count EXCEPT ![home[r]] = @ + 1]
  /\ lock' = Unlocked(r)
  /\ UNCHANGED <<turn, key, note, owner, stamped, text>>

\* Mutant: the count is bumped in a transaction of its own.
KeepFailsCounted(r) ==
  /\ pc[r] \in {"closing", "keeping"}
  /\ pc' = [pc EXCEPT ![r] = AfterRecorder(r)]
  /\ count' = IF pc[r] = "keeping" THEN [count EXCEPT ![home[r]] = @ + 1]
              ELSE count
  /\ lock' = Unlocked(r)
  /\ UNCHANGED <<turn, key, note, owner, stamped, rows, text>>

\* There is nowhere to record, or the store raises, or a hang-up cancels the
\* write: rolled back.
KeepFails(r) ==
  /\ pc[r] \in {"closing", "keeping"}
  /\ pc' = [pc EXCEPT ![r] = AfterRecorder(r)]
  /\ lock' = Unlocked(r)
  /\ UNCHANGED <<turn, key, note, owner, count, stamped, rows, text>>

\* Mutant: the frame carries the status of the reply.
ApologiseByStatus(r) ==
  /\ Goto(r, "failing", "ended")
  /\ told' = [told EXCEPT ![r] = outcome[r]]
  /\ UNCHANGED <<asks, claim, earlier, home, outcome, store, text>>

Apologise(r) ==
  /\ Goto(r, "failing", "ended")
  /\ told' = [told EXCEPT ![r] = "error"]
  /\ UNCHANGED <<asks, claim, earlier, home, outcome, store, text>>

\* A hang-up with nothing to finalise, or the process dies: rolled back.
CutShort(r) ==
  /\ pc[r] \notin {"idle", "ended"}
  /\ pc' = [pc EXCEPT ![r] = "ended"]
  /\ lock' = Unlocked(r)
  /\ UNCHANGED <<turn, key, note, owner, count, stamped, rows, text>>

-----------------------------------------------------------------------------
(* Retention.                                                              *)

\* The keys go after a day, the text after thirty.  A turn takes minutes.
AllQuiet == \A r \in Requests : pc[r] \in {"idle", "ended"}

PurgeKeys ==
  /\ AllQuiet
  /\ key' = [q \in Questions |-> FALSE]
  /\ note' = [q \in Questions |-> NoConversation]
  /\ UNCHANGED <<pc, turn, owner, count, stamped, lock, rows, text>>

WindowPasses ==
  /\ AllQuiet
  /\ old' = rows
  /\ UNCHANGED <<pc, turn, store, scrubbed, erasing, erased, cron>>

ScrubOld ==
  /\ cron = "idle"
  /\ scrubbed' = scrubbed \cup old
  /\ cron' = "stamping"
  /\ UNCHANGED <<pc, turn, store, old, erasing, erased>>

\* Its second statement: conversations in which no text is left.
StampScrubbed ==
  /\ cron = "stamping"
  /\ LET bare == {c \in Opened : RowsIn(c) # {} /\ RowsIn(c) \subseteq scrubbed}
     IN  /\ \A c \in bare : stamped[c] \/ lock[c] = NoOne
         /\ stamped' = [c \in Conversations |-> stamped[c] \/ c \in bare]
  /\ cron' = "idle"
  /\ UNCHANGED <<pc, turn, key, note, owner, count, lock, rows, scrubbed, old,
                 erasing, erased>>

\* The operator's redaction: the messages first, then the conversation's row,
\* which a turn may hold, and one commit.
Redact(c) ==
  /\ erasing = NoConversation
  /\ c \in Opened
  /\ erasing' = c
  /\ erased' = RowsIn(c)
  /\ UNCHANGED <<pc, turn, store, scrubbed, old, cron>>

RedactCommits ==
  /\ erasing # NoConversation
  /\ lock[erasing] = NoOne
  /\ scrubbed' = scrubbed \cup erased
  /\ stamped' = [stamped EXCEPT ![erasing] = TRUE]
  /\ erasing' = NoConversation
  /\ erased' = {}
  /\ UNCHANGED <<pc, turn, key, note, owner, count, lock, rows, old, cron>>

RedactFails ==
  /\ erasing # NoConversation
  /\ erasing' = NoConversation
  /\ erased' = {}
  /\ UNCHANGED <<pc, turn, store, scrubbed, old, cron>>

-----------------------------------------------------------------------------
Step(r) ==
  \/ Recall(r) \/ Ask(r) \/ AskCommits(r, TRUE) \/ AskFails(r)
  \/ Tell(r) \/ (\E s \in Outcomes : Stop(r, s))
  \/ Keep(r) \/ KeepCommits(r) \/ KeepFails(r) \/ Apologise(r)

Next ==
  \/ \E r \in Requests :
       Admit(r) \/ Step(r) \/ AskCommits(r, FALSE) \/ CutShort(r)
  \/ PurgeKeys \/ WindowPasses \/ ScrubOld \/ StampScrubbed
  \/ \E c \in Conversations : Redact(c)
  \/ RedactCommits \/ RedactFails

Spec == Init /\ [][Next]_vars

-----------------------------------------------------------------------------
(* Properties.                                                             *)

TypeOK ==
  /\ pc \in [Requests -> {"idle", "opening", "asking", "answering", "closing",
                          "keeping", "failing", "ended"}]
  /\ asks \in [Requests -> Questions]
  /\ claim \in [Requests -> NullableConversation]
  /\ earlier \in [Requests -> NullableConversation]
  /\ home \in [Requests -> NullableConversation]
  /\ outcome \in [Requests -> Outcomes]
  /\ told \in [Requests -> {"none", "done", "error"}]
  /\ key \in [Questions -> BOOLEAN]
  /\ note \in [Questions -> NullableConversation]
  /\ owner \in [Conversations -> Grants \cup {NoOne}]
  /\ count \in [Conversations -> Nat]
  /\ stamped \in [Conversations -> BOOLEAN]
  /\ lock \in [Conversations -> Requests \cup {NoOne}]
  /\ rows \subseteq Message
  /\ scrubbed \subseteq rows
  /\ old \subseteq rows
  /\ erasing \in NullableConversation
  /\ erased \subseteq rows
  /\ cron \in {"idle", "stamping"}

\* A conversation's count is the number of its messages, whichever turns
\* landed together, were rolled back or were erased since.
CountsMatch == \A c \in Conversations : count[c] = Cardinality(RowsIn(c))

\* Nothing is ever written into another grant's conversation, whatever id a
\* client sends and wherever its earlier attempt went.
OwnThreadOnly == \A m \in rows : owner[m.in] = Grant(m.by)

AskedIn(q, c) ==
  \E m \in rows : m.status = "received" /\ asks[m.by] = q /\ m.in = c

\* A turn's reply goes where its question is: the question recorded by this
\* attempt or by an earlier one is in that conversation and stays in it.
AnsweredWhereAsked ==
  \A r \in Requests : home[r] # NoConversation => AskedIn(asks[r], home[r])

\* What DatabaseQuestionKey says of a retry: it does not store its question
\* twice.  Two attempts under way at once have not both stored it.
QuestionStoredOnce ==
  \A l, m \in rows :
    /\ l.status = "received" /\ m.status = "received"
    /\ asks[l.by] = asks[m.by]
    /\ pc[l.by] = "answering" /\ pc[m.by] = "answering"
    => l = m

-----------------------------------------------------------------------------
(* Each request keeps the contract of a turn.                              *)

Stage(r) ==
  IF pc[r] \in {"idle", "opening", "asking"} THEN "opening"
  ELSE IF pc[r] \in {"closing", "keeping", "failing"} THEN outcome[r]
  ELSE pc[r]

Replies(r) == {m \in rows : m.by = r /\ m.status # "received"}

Recorded(r) ==
  IF Replies(r) = {} THEN "none" ELSE (CHOOSE m \in Replies(r) : TRUE).status

Contract(r) == INSTANCE TurnContract WITH
  stage <- Stage(r),
  home <- home[r] # NoConversation,
  row <- Recorded(r),
  frame <- told[r]

\* With others writing, with retention and with crashes, every turn still
\* keeps the contract it keeps alone.
TurnsKeepContract ==
  /\ \A r \in Requests : Contract(r)!Init
  /\ [][\A r \in Requests : [Contract(r)!Next]_(Contract(r)!vars)]_vars
===============================================================================
