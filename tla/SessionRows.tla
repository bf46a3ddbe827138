----------------------------- MODULE SessionRows -----------------------------
(***************************************************************************)
(* What the session store promises whoever holds its tokens, one committed *)
(* change at a time: RefreshSessionRepository and the two one-shot writes  *)
(* on the grant, as repositories/base.py documents them.                   *)
(*                                                                         *)
(*   - A grant has a session opened for it only while it has no live one:  *)
(*     its link is claimed once.  (models/session.py:13-14 speaks of two   *)
(*     devices with a session each, which no sequence of calls can open.)  *)
(*   - A rotation hands the live session on to a new one, and to one only. *)
(*   - Sessions are cut only on a revoked grant, or because a token was    *)
(*     presented again longer ago than the grace window.                   *)
(*                                                                         *)
(* RefreshSessions implements it with concurrent transactions, and         *)
(* ClientSession takes it as the server that a browser talks to.           *)
(***************************************************************************)
CONSTANTS
  Sessions,    \* rows of refresh_tokens
  Grants,      \* rows of tokens
  GrantOf,     \* the grant a session is opened under
  NoSession

VARIABLES
  row,         \* "none", "live", "rotated" or "cut"
  rotatedTo,   \* the successor of a rotated row
  stale,       \* rotated rows past the grace window
  revoked      \* grants under the kill switch

vars == <<row, rotatedTo, stale, revoked>>

Live(g) == {s \in Sessions : GrantOf[s] = g /\ row[s] = "live"}

\* A trial's session may be there from the start, one to a grant.
Init ==
  /\ row \in [Sessions -> {"none", "live"}]
  /\ \A s, t \in Sessions :
       row[s] = "live" /\ row[t] = "live" /\ GrantOf[s] = GrantOf[t] => s = t
  /\ rotatedTo = [s \in Sessions |-> NoSession]
  /\ stale = {}
  /\ revoked = [g \in Grants |-> FALSE]

Open(s) ==
  /\ row[s] = "none"
  /\ Live(GrantOf[s]) = {}
  /\ row' = [row EXCEPT ![s] = "live"]
  /\ UNCHANGED <<rotatedTo, stale, revoked>>

Rotate(p, s) ==
  /\ row[p] = "live"
  /\ row[s] = "none"
  /\ GrantOf[s] = GrantOf[p]
  /\ row' = [row EXCEPT ![p] = "rotated", ![s] = "live"]
  /\ rotatedTo' = [rotatedTo EXCEPT ![p] = s]
  /\ UNCHANGED <<stale, revoked>>

\* The store cuts the live sessions it sees; one that a rotation is just
\* bringing in may be missed.
Cut(g, cut) ==
  /\ revoked[g] \/ \E s \in stale : GrantOf[s] = g
  /\ cut \subseteq Live(g)
  /\ row' = [s \in Sessions |-> IF s \in cut THEN "cut" ELSE row[s]]
  /\ UNCHANGED <<rotatedTo, stale, revoked>>

GraceEnds(s) ==
  /\ row[s] = "rotated"
  /\ stale' = stale \cup {s}
  /\ UNCHANGED <<row, rotatedTo, revoked>>

Revoke(g) ==
  /\ revoked' = [revoked EXCEPT ![g] = TRUE]
  /\ UNCHANGED <<row, rotatedTo, stale>>

\* A row goes, and the row that named it forgets its successor.
Purge(s) ==
  /\ row[s] # "none"
  /\ row' = [p \in Sessions |-> IF p = s THEN "none"
                               ELSE IF rotatedTo[p] = s THEN "cut" ELSE row[p]]
  /\ rotatedTo' = [p \in Sessions |-> IF p = s \/ rotatedTo[p] = s
                                     THEN NoSession ELSE rotatedTo[p]]
  /\ UNCHANGED <<stale, revoked>>

Next ==
  \/ \E s \in Sessions : Open(s) \/ GraceEnds(s) \/ Purge(s)
  \/ \E p, s \in Sessions : Rotate(p, s)
  \/ \E g \in Grants : Revoke(g)
  \/ \E g \in Grants : \E cut \in SUBSET Live(g) : Cut(g, cut)

Spec == Init /\ [][Next]_vars
=============================================================================
