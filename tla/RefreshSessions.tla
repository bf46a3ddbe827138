--------------------------- MODULE RefreshSessions ---------------------------
(***************************************************************************)
(* The v2 session flow: a claim link exchanged once for a session, refresh *)
(* tokens rotated, replays detected and answered by cutting the grant's    *)
(* sessions, access tokens checked against their session, and the          *)
(* operator's kill switch.  SessionService, SQLRefreshSessionRepository,   *)
(* the two one-shot gates of SQLTokenRepository, Authenticator's session   *)
(* check and admin.revoke_grant, run by concurrent requests against one    *)
(* Postgres store at READ COMMITTED.                                       *)
(*                                                                         *)
(* A session row is "none" (not committed, or purged), "live", "rotated"   *)
(* (revoked_at and rotated_to set) or "cut" (revoked_at alone).  A row     *)
(* inserted by an open transaction is that request's `minted` session, and *)
(* nobody else can see it; a row an open rotation has updated is seen by   *)
(* others as it was, and is locked.                                        *)
(***************************************************************************)
EXTENDS Integers, FiniteSets

CONSTANTS
  Requests,    \* HTTP requests, each at most once
  Grants,      \* rows of the tokens table, all of them v2
  Sessions,    \* ids of refresh_tokens rows that may be minted
  GrantOf,     \* the grant each of them would be minted for
  NoSession,
  NoOne

ASSUME NobodyAssumption == NoSession \notin Sessions /\ NoOne \notin Requests
ASSUME SessionsAssumption == IsFiniteSet(Sessions) /\ GrantOf \in [Sessions -> Grants]

VARIABLES
  revoked,      \* tokens.revoked_at IS NOT NULL
  lapsed,       \* the clock has passed tokens.expires_at
  claimed,      \* tokens.claimed_at IS NOT NULL
  notified,     \* tokens.owner_notified_at is inside the throttle window
  told,         \* history: did this window send a message, and another one?
  row,          \* refresh_tokens, as last committed
  rotatedTo,    \* refresh_tokens.rotated_to
  stale,        \* rotated rows past the grace window
  expired,      \* the clock has passed refresh_tokens.expires_at
  lock,         \* the request whose open rotation holds the session's row
  issued,       \* sessions whose token pair has been sent to somebody
  pc,           \* where each request is, or how it was answered
  about,        \* the grant its token names
  presented,    \* the session its token names, or NoSession
  minted,       \* the session it has inserted, or NoSession
  sawExpired,   \* the comparison of expires_at with a rotation's `now`
  sawStale,     \* the comparison of revoked_at with a rotation's `now`
  snapshot,     \* the rows its revoke_all UPDATE found live when it began
  hopeless      \* history: requests whose token was already dead on arrival

grantVars   == <<revoked, lapsed, claimed, notified, told>>
sessionVars == <<row, rotatedTo, stale, expired, lock>>
carried     == <<about, presented, hopeless>>
locals      == <<minted, sawExpired, sawStale, snapshot>>
vars == <<grantVars, sessionVars, issued, pc, carried, locals>>

Working == {"readGrant", "readSession", "rotate", "commit", "explain", "cut",
            "cutting", "tell", "claimGrant", "claimOnce", "open", "sent",
            "liveCheck", "asking", "kill", "killed"}
Granted == {"rotated", "claimed", "asked"}
Refused == {"TokenRevoked", "TokenExpired", "InvalidRefreshToken",
            "RefreshTokenExpired", "SessionRevoked", "RotationInProgress",
            "RefreshTokenReplayed", "ClaimAlreadyUsed", "InvalidToken"}
Answered == Granted \cup Refused \cup {"revoked", "crashed"}

TypeOK ==
  /\ revoked \in [Grants -> BOOLEAN]
  /\ lapsed \in [Grants -> BOOLEAN]
  /\ claimed \in [Grants -> BOOLEAN]
  /\ notified \in [Grants -> BOOLEAN]
  /\ told \in [Grants -> {"nobody", "once", "again"}]
  /\ row \in [Sessions -> {"none", "live", "rotated", "cut"}]
  /\ rotatedTo \in [Sessions -> Sessions \cup {NoSession}]
  /\ stale \in SUBSET Sessions
  /\ expired \in SUBSET Sessions
  /\ lock \in [Sessions -> Requests \cup {NoOne}]
  /\ issued \in SUBSET Sessions
  /\ pc \in [Requests -> {"idle"} \cup Working \cup Answered]
  /\ about \in [Requests -> Grants]
  /\ presented \in [Requests -> Sessions \cup {NoSession}]
  /\ minted \in [Requests -> Sessions \cup {NoSession}]
  /\ sawExpired \in [Requests -> BOOLEAN]
  /\ sawStale \in [Requests -> BOOLEAN]
  /\ snapshot \in [Requests -> SUBSET Sessions]
  /\ hopeless \in SUBSET Requests

\* A link's grant starts unclaimed.  A trial's is born claimed, with the
\* session it was opened with.
Init ==
  /\ issued \in {first \in SUBSET Sessions : \A s, t \in first :
                    GrantOf[s] = GrantOf[t] => s = t}
  /\ row = [s \in Sessions |-> IF s \in issued THEN "live" ELSE "none"]
  /\ claimed = [g \in Grants |-> \E s \in issued : GrantOf[s] = g]
  /\ revoked = [g \in Grants |-> FALSE]
  /\ lapsed = [g \in Grants |-> FALSE]
  /\ notified = [g \in Grants |-> FALSE]
  /\ told = [g \in Grants |-> "nobody"]
  /\ rotatedTo = [s \in Sessions |-> NoSession]
  /\ stale = {}
  /\ expired = {}
  /\ lock = [s \in Sessions |-> NoOne]
  /\ pc = [r \in Requests |-> "idle"]
  /\ about \in [Requests -> Grants]
  /\ presented = [r \in Requests |-> NoSession]
  /\ minted = [r \in Requests |-> NoSession]
  /\ sawExpired = [r \in Requests |-> FALSE]
  /\ sawStale = [r \in Requests |-> FALSE]
  /\ snapshot = [r \in Requests |-> {}]
  /\ hopeless = {}

-----------------------------------------------------------------------------

Goto(r, from, to) == pc[r] = from /\ pc' = [pc EXCEPT ![r] = to]

SessionsOf(g) == {s \in Sessions : GrantOf[s] = g}
Live(g)       == {s \in SessionsOf(g) : row[s] = "live"}

\* Committed, or inserted by a transaction still open: it has an expiry.
Exists(s) == row[s] # "none" \/ \E r \in Requests : minted[r] = s

\* A UUID nobody has used.  Running out of Sessions bounds the model.
Fresh(g) ==
  {s \in SessionsOf(g) : ~Exists(s) /\ s \notin issued}

\* active_grant: what Grant.refusal says of a grant, or `onward` if nothing.
GrantRefusal(g, onward) ==
  IF revoked[g] THEN "TokenRevoked" ELSE IF lapsed[g] THEN "TokenExpired" ELSE onward

\* The predicate of the claiming UPDATE in rotate.
Rotatable(r) == row[presented[r]] = "live" /\ ~sawExpired[r]

Release(r) == lock' = [s \in Sessions |-> IF lock[s] = r THEN NoOne ELSE lock[s]]

Remember(r, dead) == hopeless' = IF dead THEN hopeless \cup {r} ELSE hopeless

-----------------------------------------------------------------------------
(* Arrivals.  A token is presented by whoever holds it; an expired one is  *)
(* refused by its own exp claim and gets no further.                       *)

ArriveRefresh(r, s) ==
  /\ GrantOf[s] = about[r]
  /\ s \in issued \ expired
  /\ Goto(r, "idle", "readGrant")
  /\ presented' = [presented EXCEPT ![r] = s]
  /\ Remember(r, \/ row[s] \in {"rotated", "cut"}
                 \/ revoked[about[r]] \/ lapsed[about[r]])
  /\ UNCHANGED <<grantVars, sessionVars, issued, about, locals>>

ArriveAsk(r, s) ==
  /\ GrantOf[s] = about[r]
  /\ s \in issued \ expired
  /\ Goto(r, "idle", "liveCheck")
  /\ presented' = [presented EXCEPT ![r] = s]
  /\ Remember(r, \/ row[s] \in {"rotated", "cut"}
                 \/ revoked[about[r]] \/ lapsed[about[r]])
  /\ UNCHANGED <<grantVars, sessionVars, issued, about, locals>>

ArriveClaim(r) ==
  /\ Goto(r, "idle", "claimGrant")
  /\ Remember(r, claimed[about[r]] \/ revoked[about[r]] \/ lapsed[about[r]])
  /\ UNCHANGED <<grantVars, sessionVars, issued, about, presented, locals>>

ArriveKill(r) ==
  /\ Goto(r, "idle", "kill")
  /\ UNCHANGED <<grantVars, sessionVars, issued, carried, locals>>

-----------------------------------------------------------------------------
(* SessionService.refresh and SQLRefreshSessionRepository.rotate.          *)

ReadGrant(r) ==
  /\ Goto(r, "readGrant", GrantRefusal(about[r], "readSession"))
  /\ UNCHANGED <<grantVars, sessionVars, issued, carried, locals>>

\* A row that is gone, or whose opening request has not committed, is unknown.
SessionUnknown(r) ==
  /\ Goto(r, "readSession", "InvalidRefreshToken")
  /\ row[presented[r]] = "none"
  /\ UNCHANGED <<grantVars, sessionVars, issued, carried, locals>>

\* Mutant: the pair is minted, and its row never inserted.
SessionKnownUninserted(r) ==
  /\ Goto(r, "readSession", "rotate")
  /\ row[presented[r]] # "none"
  /\ sawExpired' = [sawExpired EXCEPT ![r] = presented[r] \in expired]
  /\ sawStale' = [sawStale EXCEPT ![r] = presented[r] \in stale]
  /\ UNCHANGED <<grantVars, sessionVars, issued, carried, minted, snapshot>>

\* The row is there, whatever its state.  rotate reads `now`, then inserts the
\* successor, which nobody sees before the commit.
SessionKnown(r) ==
  /\ Goto(r, "readSession", "rotate")
  /\ row[presented[r]] # "none"
  /\ \E s \in Fresh(about[r]) : minted' = [minted EXCEPT ![r] = s]
  /\ sawExpired' = [sawExpired EXCEPT ![r] = presented[r] \in expired]
  /\ sawStale' = [sawStale EXCEPT ![r] = presented[r] \in stale]
  /\ UNCHANGED <<grantVars, sessionVars, issued, carried, snapshot>>

\* The claiming UPDATE matches and locks the predecessor.
RotateTaken(r) ==
  /\ Goto(r, "rotate", "commit")
  /\ Rotatable(r)
  /\ lock[presented[r]] = NoOne
  /\ lock' = [lock EXCEPT ![presented[r]] = r]
  /\ UNCHANGED <<grantVars, row, rotatedTo, stale, expired, issued, carried, locals>>

\* It matches nothing: the rollback takes the successor with it.
RotateLost(r) ==
  /\ Goto(r, "rotate", "explain")
  /\ ~Rotatable(r)
  /\ minted' = [minted EXCEPT ![r] = NoSession]
  /\ UNCHANGED <<grantVars, sessionVars, issued, carried, sawExpired, sawStale, snapshot>>

RotateCommitted(r) ==
  /\ Goto(r, "commit", "rotated")
  /\ row' = [row EXCEPT ![presented[r]] = "rotated", ![minted[r]] = "live"]
  /\ rotatedTo' = [rotatedTo EXCEPT ![presented[r]] = minted[r]]
  /\ Release(r)
  /\ issued' = issued \cup {minted[r]}
  /\ UNCHANGED <<grantVars, stale, expired, carried, locals>>

\* Mutant: no grace window.
ExplainWithoutGrace(r) ==
  LET s == presented[r]
  IN  /\ Goto(r, "explain",
              IF row[s] \in {"none", "live"}  THEN "RefreshTokenExpired"
              ELSE IF row[s] = "cut"          THEN "SessionRevoked"
              ELSE "cut")
      /\ UNCHANGED <<grantVars, sessionVars, issued, carried, locals>>

\* _explain_failed_rotation, over what the store says after the rollback.
Explain(r) ==
  LET s == presented[r]
  IN  /\ Goto(r, "explain",
              IF row[s] \in {"none", "live"}  THEN "RefreshTokenExpired"
              ELSE IF row[s] = "cut"          THEN "SessionRevoked"
              ELSE IF ~sawStale[r]            THEN "RotationInProgress"
              ELSE "cut")
      /\ UNCHANGED <<grantVars, sessionVars, issued, carried, locals>>

\* revoke_all_for_grant.  The UPDATE finds its rows in the snapshot it begins
\* with; a row that an open rotation holds is waited for and looked at again.
CutBegins(r) ==
  /\ pc[r] \in {"cut", "killed"}
  /\ pc' = [pc EXCEPT ![r] = "cutting"]
  /\ snapshot' = [snapshot EXCEPT ![r] = Live(about[r])]
  /\ UNCHANGED <<grantVars, sessionVars, issued, carried, minted, sawExpired, sawStale>>

CutCommitted(r) ==
  /\ \A s \in snapshot[r] : lock[s] = NoOne
  /\ Goto(r, "cutting", IF presented[r] = NoSession THEN "revoked" ELSE "tell")
  /\ row' = [s \in Sessions |-> IF s \in snapshot[r] /\ row[s] = "live"
                                THEN "cut" ELSE row[s]]
  /\ UNCHANGED <<grantVars, rotatedTo, stale, expired, lock, issued, carried, locals>>

\* Mutant: the message goes out whoever won the window.
TellOwnerAlways(r) ==
  LET g == about[r]
  IN  /\ Goto(r, "tell", IF presented[r] = NoSession THEN "ClaimAlreadyUsed"
                         ELSE "RefreshTokenReplayed")
      /\ notified' = [notified EXCEPT ![g] = TRUE]
      /\ told' = [told EXCEPT ![g] = IF @ = "nobody" THEN "once" ELSE "again"]
      /\ UNCHANGED <<revoked, lapsed, claimed, sessionVars, issued, carried, locals>>

\* _tell_owner_once: mark_owner_notified is one statement, and only the call
\* that wins the window sends a message.
TellOwner(r) ==
  LET g == about[r]
  IN  /\ Goto(r, "tell", IF presented[r] = NoSession THEN "ClaimAlreadyUsed"
                         ELSE "RefreshTokenReplayed")
      /\ notified' = [notified EXCEPT ![g] = TRUE]
      /\ told' = IF notified[g] THEN told
                 ELSE [told EXCEPT ![g] = IF @ = "nobody" THEN "once" ELSE "again"]
      /\ UNCHANGED <<revoked, lapsed, claimed, sessionVars, issued, carried, locals>>

-----------------------------------------------------------------------------
(* SessionService.claim.                                                   *)

ReadClaimGrant(r) ==
  /\ Goto(r, "claimGrant", GrantRefusal(about[r], "claimOnce"))
  /\ UNCHANGED <<grantVars, sessionVars, issued, carried, locals>>

\* Mutant: the link is spent by a write that does not ask if it was spent.
ClaimWonAgain(r) ==
  /\ Goto(r, "claimOnce", "open")
  /\ claimed' = [claimed EXCEPT ![about[r]] = TRUE]
  /\ UNCHANGED <<revoked, lapsed, notified, told, sessionVars, issued, carried, locals>>

\* claim_once, committed at once.
ClaimWon(r) ==
  /\ ~claimed[about[r]]
  /\ Goto(r, "claimOnce", "open")
  /\ claimed' = [claimed EXCEPT ![about[r]] = TRUE]
  /\ UNCHANGED <<revoked, lapsed, notified, told, sessionVars, issued, carried, locals>>

ClaimLost(r) ==
  /\ claimed[about[r]]
  /\ Goto(r, "claimOnce", "tell")
  /\ UNCHANGED <<grantVars, sessionVars, issued, carried, locals>>

\* open_session flushes the row, and the response goes out; the request's
\* transaction commits only after it (db.py).
PairSent(r) ==
  /\ Goto(r, "open", "sent")
  /\ \E s \in Fresh(about[r]) : /\ minted' = [minted EXCEPT ![r] = s]
                                /\ issued' = issued \cup {s}
  /\ UNCHANGED <<grantVars, sessionVars, carried, sawExpired, sawStale, snapshot>>

SessionOpened(r) ==
  /\ Goto(r, "sent", "claimed")
  /\ row' = [row EXCEPT ![minted[r]] = "live"]
  /\ UNCHANGED <<grantVars, rotatedTo, stale, expired, lock, issued, carried, locals>>

-----------------------------------------------------------------------------
(* A question asked with an access token: _require_live_session, then the  *)
(* spend, which asks the grant again (QuestionSpend).                      *)

\* Mutant: an access token outlives its session's rotation.
LiveCheckSparingRotated(r) ==
  LET s == presented[r]
  IN  /\ Goto(r, "liveCheck",
              IF row[s] = "none" THEN "InvalidToken"
              ELSE IF row[s] = "cut" \/ s \in expired THEN "SessionRevoked"
              ELSE "asking")
      /\ UNCHANGED <<grantVars, sessionVars, issued, carried, locals>>

LiveCheck(r) ==
  LET s == presented[r]
  IN  /\ Goto(r, "liveCheck",
              IF row[s] = "none" THEN "InvalidToken"
              ELSE IF row[s] # "live" \/ s \in expired THEN "SessionRevoked"
              ELSE "asking")
      /\ UNCHANGED <<grantVars, sessionVars, issued, carried, locals>>

AskGrant(r) ==
  /\ Goto(r, "asking", GrantRefusal(about[r], "asked"))
  /\ UNCHANGED <<grantVars, sessionVars, issued, carried, locals>>

-----------------------------------------------------------------------------
(* admin.revoke_grant: the grant first, then its sessions.                 *)

KillGrant(r) ==
  /\ Goto(r, "kill", "killed")
  /\ revoked' = [revoked EXCEPT ![about[r]] = TRUE]
  /\ UNCHANGED <<lapsed, claimed, notified, told, sessionVars, issued, carried, locals>>

Step(r) ==
  \/ ReadGrant(r) \/ SessionUnknown(r) \/ SessionKnown(r)
  \/ RotateTaken(r) \/ RotateLost(r) \/ RotateCommitted(r)
  \/ Explain(r) \/ CutBegins(r) \/ CutCommitted(r) \/ TellOwner(r)
  \/ ReadClaimGrant(r) \/ ClaimWon(r) \/ ClaimLost(r) \/ PairSent(r) \/ SessionOpened(r)
  \/ LiveCheck(r) \/ AskGrant(r) \/ KillGrant(r)

-----------------------------------------------------------------------------
(* The clock, the purge and crashes.                                       *)

\* rotation_grace passes after a rotation.
GraceEnds(s) ==
  /\ row[s] = "rotated"
  /\ s \notin stale
  /\ stale' = stale \cup {s}
  /\ UNCHANGED <<grantVars, row, rotatedTo, expired, lock, issued, pc, carried, locals>>

\* A session never outlives its grant, and a successor never expires before
\* its predecessor (TokenCodec clamps both to the grant).
SessionExpires(s) ==
  /\ Exists(s)
  /\ s \notin expired
  /\ \A p \in Sessions : rotatedTo[p] = s => p \in expired
  /\ expired' = expired \cup {s}
  /\ UNCHANGED <<grantVars, row, rotatedTo, stale, lock, issued, pc, carried, locals>>

GrantLapses(g) ==
  /\ ~lapsed[g]
  /\ \A s \in SessionsOf(g) : Exists(s) => s \in expired
  /\ lapsed' = [lapsed EXCEPT ![g] = TRUE]
  /\ UNCHANGED <<revoked, claimed, notified, told, sessionVars, issued, pc, carried, locals>>

\* Mutant: rotated_to is a plain column, and keeps the id of a deleted row.
PurgeSessionDangling(s) ==
  /\ row[s] # "none"
  /\ s \in expired
  /\ lock[s] = NoOne
  /\ row' = [row EXCEPT ![s] = "none"]
  /\ rotatedTo' = [rotatedTo EXCEPT ![s] = NoSession]
  /\ UNCHANGED <<grantVars, stale, expired, lock, issued, pc, carried, locals>>

\* purge-expired-sessions.sh, with rotated_to ON DELETE SET NULL.  A row an
\* open transaction has updated is waited for.
PurgeSession(s) ==
  /\ row[s] # "none"
  /\ s \in expired
  /\ lock[s] = NoOne
  /\ row' = [p \in Sessions |-> IF p = s THEN "none"
                               ELSE IF rotatedTo[p] = s THEN "cut" ELSE row[p]]
  /\ rotatedTo' = [p \in Sessions |-> IF p = s \/ rotatedTo[p] = s
                                     THEN NoSession ELSE rotatedTo[p]]
  /\ UNCHANGED <<grantVars, stale, expired, lock, issued, pc, carried, locals>>

\* The notification window passes, and the next message may go out.
WindowPasses(g) ==
  /\ notified[g]
  /\ notified' = [notified EXCEPT ![g] = FALSE]
  /\ told' = [told EXCEPT ![g] = "nobody"]
  /\ UNCHANGED <<revoked, lapsed, claimed, sessionVars, issued, pc, carried, locals>>

\* The process dies; Postgres rolls back what it had not committed.
Crash(r) ==
  /\ pc[r] \in Working
  /\ pc' = [pc EXCEPT ![r] = "crashed"]
  /\ Release(r)
  /\ UNCHANGED <<grantVars, row, rotatedTo, stale, expired, issued, carried, locals>>

Next ==
  \/ \E r \in Requests : Step(r) \/ Crash(r) \/ ArriveClaim(r) \/ ArriveKill(r)
  \/ \E r \in Requests, s \in Sessions : ArriveRefresh(r, s) \/ ArriveAsk(r, s)
  \/ \E s \in Sessions : GraceEnds(s) \/ SessionExpires(s) \/ PurgeSession(s)
  \/ \E g \in Grants : GrantLapses(g) \/ WindowPasses(g)

Spec     == Init /\ [][Next]_vars

-----------------------------------------------------------------------------
(* What the session flow promises.                                         *)

\* A grant never has two live sessions: one claim opens one, a rotation hands
\* it on, and whoever loses the race for either leaves nothing behind
\* (base.py:235-240, sessions.py:39-46, schemas.py:58-62).  The code is followed
\* here against other words of the repository: schemas.py:79-81,
\* models/session.py:13-14 and docs/database.md:24 give a hirer's laptop and
\* phone a row each, rotating independently, which a link that is claimed once
\* cannot open.
OneLiveSession == \A g \in Grants : Cardinality(Live(g)) <= 1

\* The chain a claim starts never dangles and never joins another, though rows
\* are purged from it in any order: a rotated row has a committed successor of
\* its own grant, which is no other row's (schemas.py:100-110).
ChainIsLinear ==
  \A s \in Sessions :
    /\ row[s] = "rotated" <=> rotatedTo[s] # NoSession
    /\ rotatedTo[s] # NoSession =>
         /\ GrantOf[rotatedTo[s]] = GrantOf[s]
         /\ row[rotatedTo[s]] # "none"
         /\ \A p \in Sessions : rotatedTo[p] = rotatedTo[s] => p = s

\* A token whose session was rotated or cut, or whose grant was revoked,
\* before it was presented buys nothing: no rotation, no session, no question.
DeadTokenBuysNothing == \A r \in hopeless : pc[r] \notin Granted

\* What the transactions do together to the rows is what the session store
\* promises.  Most of all, a live session is cut only on a revoked grant or for
\* a token rotated longer ago than the grace window: a client racing itself is
\* never logged out (base.py:264-269).
Store == INSTANCE SessionRows
ImplementsStore == Store!Spec

\* However many dead tokens are presented at once, the operator gets at most
\* one message per window (base.py:172-177).
OneMessagePerWindow == \A g \in Grants : told[g] # "again"

\* base.py:264-269: losing the race "Outside the grace window ... cuts every
\* session on the grant".  So when a replay has been answered, no session of
\* its grant is live.
ReplayLeavesNoneLive ==
  \A r \in Requests :
    pc[r] = "tell" /\ presented[r] # NoSession => Live(about[r]) = {}
=============================================================================
