----------------------------- MODULE TurnContract -----------------------------
(***************************************************************************)
(* What one chat turn promises the transcript and the hirer, whatever the  *)
(* model, the store or the connection does.                                *)
(*                                                                         *)
(*   - The model is asked nothing until recording the question was tried.  *)
(*   - A reply is recorded at most once, and only where the question is.   *)
(*   - "completed" is only ever said of a turn whose last frame was sent,  *)
(*     and an error frame only follows a turn that failed.                 *)
(***************************************************************************)
VARIABLES
  stage,  \* how far the turn is: once it has stopped, how it did
  home,   \* whether the turn has a conversation to put its reply in
  row,    \* the status its reply is recorded with
  frame   \* the terminal frame sent to the hirer

vars == <<stage, home, row, frame>>

Outcomes == {"completed", "aborted", "failed"}

Init ==
  /\ stage = "opening"
  /\ home = FALSE
  /\ row = "none"
  /\ frame = "none"

\* Recording the question was tried; the turn may go on without a home.
Begin ==
  /\ stage = "opening"
  /\ stage' = "answering"
  /\ home' \in BOOLEAN
  /\ UNCHANGED <<row, frame>>

\* The whole reply is on the wire.
Tell ==
  /\ stage = "answering"
  /\ frame = "none"
  /\ frame' = "done"
  /\ UNCHANGED <<stage, home, row>>

Stop(s) ==
  /\ stage = "answering"
  /\ s = "completed" => frame = "done"
  /\ s = "failed" => frame = "none"
  /\ stage' = s
  /\ UNCHANGED <<home, row, frame>>

Record ==
  /\ stage \in Outcomes
  /\ home
  /\ row = "none"
  /\ row' = stage
  /\ stage' \in {stage, "ended"}
  /\ UNCHANGED <<home, frame>>

\* A turn that failed may say so last of all.
Apologise ==
  /\ stage = "failed"
  /\ stage' = "ended"
  /\ frame' = "error"
  /\ UNCHANGED <<home, row>>

\* A turn may be cut short anywhere.
End ==
  /\ stage # "ended"
  /\ stage' = "ended"
  /\ UNCHANGED <<home, row, frame>>

Next ==
  \/ Begin
  \/ Tell
  \/ \E s \in Outcomes : Stop(s)
  \/ Record
  \/ Apologise
  \/ End

Spec == Init /\ [][Next]_vars
===============================================================================
