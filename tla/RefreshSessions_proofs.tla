------------------------ MODULE RefreshSessions_proofs ------------------------
(***************************************************************************)
(* What RefreshSessions promises, proved for any requests, grants and      *)
(* sessions: the type invariant, the invariants its run checks, and that   *)
(* the transactions implement the store of SessionRows.                    *)
(***************************************************************************)
EXTENDS RefreshSessions, FiniteSetTheorems, TLAPS

-----------------------------------------------------------------------------
(* The inductive invariant, in parts.                                      *)

Presenting == {"readGrant", "readSession", "rotate", "commit", "explain", "cut",
               "liveCheck", "asking"}
Minting    == {"rotate", "commit", "sent"}

\* A request presents a session of its own grant wherever the code reads the
\* token's session, and has inserted a session of that grant, which nobody can
\* see yet, wherever it is about to commit one.  No id is inserted twice.
CarriesItsOwn ==
  /\ \A r \in Requests : pc[r] \in Presenting =>
       presented[r] \in Sessions /\ GrantOf[presented[r]] = about[r]
  /\ \A r \in Requests : pc[r] \in Minting =>
       /\ minted[r] \in Sessions /\ GrantOf[minted[r]] = about[r]
       /\ row[minted[r]] = "none"
       /\ pc[r] # "sent" => minted[r] \notin issued
       /\ pc[r] = "sent" => minted[r] \in issued
  /\ \A r, q \in Requests : minted[r] = minted[q] /\ minted[r] # NoSession => r = q
  /\ \A s \in Sessions : row[s] # "none" => s \in issued

\* A session's row is locked by the one request whose rotation is uncommitted,
\* and while it is, the session stays live.
LockOK ==
  /\ \A r \in Requests : pc[r] = "commit" =>
       lock[presented[r]] = r /\ row[presented[r]] = "live"
  /\ \A s \in Sessions : lock[s] # NoOne =>
       pc[lock[s]] = "commit" /\ presented[lock[s]] = s

\* No session of the grant was ever stored, and no rotation is under way.
Unopened(g) ==
  /\ \A s \in SessionsOf(g) : row[s] = "none"
  /\ \A r \in Requests : about[r] = g => pc[r] \notin {"rotate", "commit"}

Opening(r) == pc[r] \in {"open", "sent"}

\* The one request that won the claim opens the grant's first session.
FirstOpening ==
  /\ \A g \in Grants : ~claimed[g] =>
       Unopened(g) /\ \A r \in Requests : about[r] = g => ~Opening(r)
  /\ \A r \in Requests : Opening(r) => claimed[about[r]] /\ Unopened(about[r])
  /\ \A r, q \in Requests : Opening(r) /\ Opening(q) /\ about[r] = about[q] => r = q

LiveIsOnly ==
  \A s, t \in Sessions :
    row[s] = "live" /\ row[t] = "live" /\ GrantOf[s] = GrantOf[t] => s = t

IInv == TypeOK /\ CarriesItsOwn /\ LockOK /\ FirstOpening /\ LiveIsOnly /\ ChainIsLinear

\* Whoever is about to cut has a reason to: the kill switch, or a token whose
\* rotation is older than the grace window.
CutHasReason ==
  \A r \in Requests :
    /\ pc[r] = "idle" => ~sawStale[r] /\ presented[r] = NoSession
    /\ sawStale[r] => presented[r] \in stale
    /\ pc[r] = "cut" => sawStale[r]
    /\ pc[r] = "killed" => revoked[about[r]]
    /\ pc[r] = "cutting" =>
         /\ snapshot[r] \subseteq SessionsOf(about[r])
         /\ \/ revoked[about[r]]
            \/ presented[r] \in stale /\ GrantOf[presented[r]] = about[r]

\* Rotated, cut, or purged: a session that is over stays over.
Over(s) ==
  /\ row[s] # "live"
  /\ s \in issued
  /\ \A r \in Requests : pc[r] = "sent" => minted[r] # s

Barred(g) == revoked[g] \/ lapsed[g]

\* Why a token that was dead on arrival is still dead, at each place its
\* request can have reached.
DeathOutlastsIt ==
  \A r \in hopeless :
    /\ pc[r] \notin {"idle", "open", "sent", "commit"} \cup Granted
    /\ pc[r] \in {"readGrant", "liveCheck"} => Over(presented[r]) \/ Barred(about[r])
    /\ pc[r] \in {"readSession", "rotate"} => Over(presented[r])
    /\ pc[r] = "asking" => Barred(about[r])
    /\ pc[r] = "claimGrant" => claimed[about[r]] \/ Barred(about[r])
    /\ pc[r] = "claimOnce" => claimed[about[r]]

\* Outside a notification window nothing was sent in it.
WindowOK == \A g \in Grants : /\ told[g] # "again"
                              /\ ~notified[g] => told[g] = "nobody"
-----------------------------------------------------------------------------
(* Every step keeps each part of it.                                       *)

\* What is committed has been inserted.
LEMMA TypeStep ==
  ASSUME IInv, [Next]_vars
  PROVE  TypeOK'
<1> USE NobodyAssumption, SessionsAssumption DEF TypeOK, Working, Answered,
        Granted, Refused, Goto, grantVars, sessionVars, carried, locals, IInv,
        CarriesItsOwn, Minting, Presenting
<1>1. ASSUME NEW r \in Requests, ArriveClaim(r) \/ ArriveKill(r) PROVE TypeOK'
  BY <1>1 DEF ArriveClaim, ArriveKill, Remember
<1>2. ASSUME NEW r \in Requests, NEW s \in Sessions, ArriveRefresh(r, s)
      PROVE TypeOK'
  BY <1>2 DEF ArriveRefresh, Remember
<1>3. ASSUME NEW r \in Requests, NEW s \in Sessions, ArriveAsk(r, s) PROVE TypeOK'
  BY <1>3 DEF ArriveAsk, Remember
<1>4. ASSUME NEW r \in Requests, ReadGrant(r) \/ SessionUnknown(r) \/ Explain(r)
      PROVE TypeOK'
  BY <1>4 DEF ReadGrant, SessionUnknown, Explain, GrantRefusal
<1>5. ASSUME NEW r \in Requests, SessionKnown(r) PROVE TypeOK'
  BY <1>5 DEF SessionKnown, Fresh, SessionsOf, Exists
<1>6. ASSUME NEW r \in Requests, RotateTaken(r) PROVE TypeOK'
  BY <1>6 DEF RotateTaken, Rotatable
<1>7. ASSUME NEW r \in Requests, RotateLost(r) PROVE TypeOK'
  BY <1>7 DEF RotateLost, Rotatable
<1>8. ASSUME NEW r \in Requests, RotateCommitted(r) PROVE TypeOK'
  BY <1>8 DEF RotateCommitted, Release
<1>9. ASSUME NEW r \in Requests, CutBegins(r) PROVE TypeOK'
  BY <1>9 DEF CutBegins, Live, SessionsOf
<1>10. ASSUME NEW r \in Requests, CutCommitted(r) PROVE TypeOK'
  BY <1>10 DEF CutCommitted
<1>11. ASSUME NEW r \in Requests, TellOwner(r) PROVE TypeOK'
  BY <1>11 DEF TellOwner
<1>12. ASSUME NEW r \in Requests, KillGrant(r) PROVE TypeOK'
  BY <1>12 DEF KillGrant
<1>13. ASSUME NEW r \in Requests, ReadClaimGrant(r) \/ ClaimLost(r) PROVE TypeOK'
  BY <1>13 DEF ReadClaimGrant, ClaimLost, GrantRefusal
<1>14. ASSUME NEW r \in Requests, ClaimWon(r) PROVE TypeOK'
  BY <1>14 DEF ClaimWon
<1>15. ASSUME NEW r \in Requests, PairSent(r) PROVE TypeOK'
  BY <1>15 DEF PairSent, Fresh, SessionsOf, Exists
<1>16. ASSUME NEW r \in Requests, SessionOpened(r) PROVE TypeOK'
  BY <1>16 DEF SessionOpened
<1>17. ASSUME NEW r \in Requests, LiveCheck(r) PROVE TypeOK'
  BY <1>17 DEF LiveCheck
<1>18. ASSUME NEW r \in Requests, AskGrant(r) PROVE TypeOK'
  BY <1>18 DEF AskGrant, GrantRefusal
<1>19. ASSUME NEW r \in Requests, Crash(r) PROVE TypeOK'
  BY <1>19 DEF Crash, Release
<1>20. ASSUME NEW s \in Sessions, GraceEnds(s) \/ SessionExpires(s) PROVE TypeOK'
  BY <1>20 DEF GraceEnds, SessionExpires
<1>21. ASSUME NEW s \in Sessions, PurgeSession(s) PROVE TypeOK'
  BY <1>21 DEF PurgeSession
<1>22. ASSUME NEW g \in Grants, GrantLapses(g) PROVE TypeOK'
  BY <1>22 DEF GrantLapses
<1>23. ASSUME NEW g \in Grants, WindowPasses(g) PROVE TypeOK'
  BY <1>23 DEF WindowPasses
<1>24. CASE UNCHANGED vars
  BY <1>24 DEF vars
<1>25. QED
  BY <1>1, <1>2, <1>3, <1>4, <1>5, <1>6, <1>7, <1>8, <1>9, <1>10, <1>11, <1>12,
     <1>13, <1>14, <1>15, <1>16, <1>17, <1>18, <1>19, <1>20, <1>21, <1>22,
     <1>23, <1>24 DEF Next, Step

\* Fresh ids are nobody's, and nothing brings back a session but its inserter.
LEMMA CarriesStep ==
  ASSUME IInv, [Next]_vars
  PROVE  CarriesItsOwn'
<1> USE NobodyAssumption, SessionsAssumption DEF TypeOK, Working, Answered,
        Granted, Refused, Goto, grantVars, sessionVars, carried, locals, IInv,
        CarriesItsOwn, LockOK, ChainIsLinear, Minting, Presenting
<1>1. ASSUME NEW r \in Requests, ArriveClaim(r) \/ ArriveKill(r)
      PROVE CarriesItsOwn'
  BY <1>1 DEF ArriveClaim, ArriveKill, Remember
<1>2. ASSUME NEW r \in Requests, NEW s \in Sessions, ArriveRefresh(r, s) \/ ArriveAsk(r, s)
      PROVE CarriesItsOwn'
  BY <1>2 DEF ArriveRefresh, ArriveAsk, Remember
<1>3. ASSUME NEW r \in Requests, ReadGrant(r) \/ SessionUnknown(r) \/ Explain(r)
      PROVE CarriesItsOwn'
  BY <1>3 DEF ReadGrant, SessionUnknown, Explain, GrantRefusal
<1>4. ASSUME NEW r \in Requests, SessionKnown(r) PROVE CarriesItsOwn'
  BY <1>4 DEF SessionKnown, Fresh, SessionsOf, Exists
<1>5. ASSUME NEW r \in Requests, RotateTaken(r) PROVE CarriesItsOwn'
  BY <1>5 DEF RotateTaken, Rotatable
<1>6. ASSUME NEW r \in Requests, RotateLost(r) PROVE CarriesItsOwn'
  BY <1>6 DEF RotateLost, Rotatable
<1>7. ASSUME NEW r \in Requests, RotateCommitted(r) PROVE CarriesItsOwn'
  BY <1>7 DEF RotateCommitted, Release
<1>8. ASSUME NEW r \in Requests, CutBegins(r) PROVE CarriesItsOwn'
  BY <1>8 DEF CutBegins, Live, SessionsOf
<1>9. ASSUME NEW r \in Requests, CutCommitted(r) PROVE CarriesItsOwn'
  BY <1>9 DEF CutCommitted
<1>10. ASSUME NEW r \in Requests, TellOwner(r) \/ KillGrant(r)
      PROVE CarriesItsOwn'
  BY <1>10 DEF TellOwner, KillGrant
<1>11. ASSUME NEW r \in Requests, ReadClaimGrant(r) \/ ClaimLost(r)
      PROVE CarriesItsOwn'
  BY <1>11 DEF ReadClaimGrant, ClaimLost, GrantRefusal
<1>12. ASSUME NEW r \in Requests, ClaimWon(r) PROVE CarriesItsOwn'
  BY <1>12 DEF ClaimWon
<1>13. ASSUME NEW r \in Requests, PairSent(r) PROVE CarriesItsOwn'
  BY <1>13 DEF PairSent, Fresh, SessionsOf, Exists
<1>14. ASSUME NEW r \in Requests, SessionOpened(r) PROVE CarriesItsOwn'
  BY <1>14 DEF SessionOpened
<1>15. ASSUME NEW r \in Requests, LiveCheck(r) \/ AskGrant(r) PROVE CarriesItsOwn'
  BY <1>15 DEF LiveCheck, AskGrant, GrantRefusal
<1>16. ASSUME NEW r \in Requests, Crash(r) PROVE CarriesItsOwn'
  BY <1>16 DEF Crash, Release
<1>17. ASSUME NEW s \in Sessions, GraceEnds(s) \/ SessionExpires(s)
      PROVE CarriesItsOwn'
  BY <1>17 DEF GraceEnds, SessionExpires
<1>18. ASSUME NEW s \in Sessions, PurgeSession(s) PROVE CarriesItsOwn'
  BY <1>18 DEF PurgeSession
<1>19. ASSUME NEW g \in Grants, GrantLapses(g) \/ WindowPasses(g)
      PROVE CarriesItsOwn'
  BY <1>19 DEF GrantLapses, WindowPasses
<1>20. CASE UNCHANGED vars
  BY <1>20 DEF vars
<1>21. QED
  BY <1>1, <1>2, <1>3, <1>4, <1>5, <1>6, <1>7, <1>8, <1>9, <1>10, <1>11, <1>12,
     <1>13, <1>14, <1>15, <1>16, <1>17, <1>18, <1>19, <1>20 DEF Next, Step

\* Nothing changes a row whose lock another request holds.
LEMMA LockStep ==
  ASSUME IInv, [Next]_vars
  PROVE  LockOK'
<1> USE NobodyAssumption, SessionsAssumption DEF TypeOK, Working, Answered,
        Granted, Refused, Goto, grantVars, sessionVars, carried, locals, IInv,
        CarriesItsOwn, LockOK, ChainIsLinear, Minting, Presenting
<1>1. ASSUME NEW r \in Requests, ArriveClaim(r) \/ ArriveKill(r) PROVE LockOK'
  BY <1>1 DEF ArriveClaim, ArriveKill, Remember
<1>2. ASSUME NEW r \in Requests, NEW s \in Sessions, ArriveRefresh(r, s) \/ ArriveAsk(r, s)
      PROVE LockOK'
  BY <1>2 DEF ArriveRefresh, ArriveAsk, Remember
<1>3. ASSUME NEW r \in Requests, ReadGrant(r) \/ SessionUnknown(r) \/ Explain(r)
      PROVE LockOK'
  BY <1>3 DEF ReadGrant, SessionUnknown, Explain, GrantRefusal
<1>4. ASSUME NEW r \in Requests, SessionKnown(r) PROVE LockOK'
  BY <1>4 DEF SessionKnown, Fresh, SessionsOf, Exists
<1>5. ASSUME NEW r \in Requests, RotateTaken(r) PROVE LockOK'
  BY <1>5 DEF RotateTaken, Rotatable
<1>6. ASSUME NEW r \in Requests, RotateLost(r) PROVE LockOK'
  BY <1>6 DEF RotateLost, Rotatable
<1>7. ASSUME NEW r \in Requests, RotateCommitted(r) PROVE LockOK'
  BY <1>7 DEF RotateCommitted, Release
<1>8. ASSUME NEW r \in Requests, CutBegins(r) PROVE LockOK'
  BY <1>8 DEF CutBegins, Live, SessionsOf
<1>9. ASSUME NEW r \in Requests, CutCommitted(r) PROVE LockOK'
  BY <1>9 DEF CutCommitted
<1>10. ASSUME NEW r \in Requests, TellOwner(r) \/ KillGrant(r) PROVE LockOK'
  BY <1>10 DEF TellOwner, KillGrant
<1>11. ASSUME NEW r \in Requests, ReadClaimGrant(r) \/ ClaimLost(r) PROVE LockOK'
  BY <1>11 DEF ReadClaimGrant, ClaimLost, GrantRefusal
<1>12. ASSUME NEW r \in Requests, ClaimWon(r) PROVE LockOK'
  BY <1>12 DEF ClaimWon
<1>13. ASSUME NEW r \in Requests, PairSent(r) PROVE LockOK'
  BY <1>13 DEF PairSent, Fresh, SessionsOf, Exists
<1>14. ASSUME NEW r \in Requests, SessionOpened(r) PROVE LockOK'
  BY <1>14 DEF SessionOpened
<1>15. ASSUME NEW r \in Requests, LiveCheck(r) \/ AskGrant(r) PROVE LockOK'
  BY <1>15 DEF LiveCheck, AskGrant, GrantRefusal
<1>16. ASSUME NEW r \in Requests, Crash(r) PROVE LockOK'
  BY <1>16 DEF Crash, Release
<1>17. ASSUME NEW s \in Sessions, GraceEnds(s) \/ SessionExpires(s) PROVE LockOK'
  BY <1>17 DEF GraceEnds, SessionExpires
<1>18. ASSUME NEW s \in Sessions, PurgeSession(s) PROVE LockOK'
  BY <1>18 DEF PurgeSession
<1>19. ASSUME NEW g \in Grants, GrantLapses(g) \/ WindowPasses(g) PROVE LockOK'
  BY <1>19 DEF GrantLapses, WindowPasses
<1>20. CASE UNCHANGED vars
  BY <1>20 DEF vars
<1>21. QED
  BY <1>1, <1>2, <1>3, <1>4, <1>5, <1>6, <1>7, <1>8, <1>9, <1>10, <1>11, <1>12,
     <1>13, <1>14, <1>15, <1>16, <1>17, <1>18, <1>19, <1>20 DEF Next, Step

\* Only the claim's winner opens a session, and rotations need one to begin with.
LEMMA FirstStep ==
  ASSUME IInv, [Next]_vars
  PROVE  FirstOpening'
<1> USE NobodyAssumption, SessionsAssumption DEF TypeOK, Working, Answered,
        Granted, Refused, Goto, grantVars, sessionVars, carried, locals, IInv,
        CarriesItsOwn, LockOK, FirstOpening, Unopened, Opening, LiveIsOnly,
        ChainIsLinear, Minting, Presenting, SessionsOf
<1>1. ASSUME NEW r \in Requests, ArriveClaim(r) PROVE FirstOpening'
  BY <1>1 DEF ArriveClaim, Remember
<1>2. ASSUME NEW r \in Requests, ArriveKill(r) PROVE FirstOpening'
  BY <1>2 DEF ArriveKill
<1>3. ASSUME NEW r \in Requests, NEW s \in Sessions, ArriveRefresh(r, s)
      PROVE FirstOpening'
  BY <1>3 DEF ArriveRefresh, Remember
<1>4. ASSUME NEW r \in Requests, NEW s \in Sessions, ArriveAsk(r, s)
      PROVE FirstOpening'
  BY <1>4 DEF ArriveAsk, Remember
<1>5. ASSUME NEW r \in Requests, ReadGrant(r) \/ SessionUnknown(r) \/ Explain(r)
      PROVE FirstOpening'
  BY <1>5 DEF ReadGrant, SessionUnknown, Explain, GrantRefusal
<1>6. ASSUME NEW r \in Requests, SessionKnown(r) PROVE FirstOpening'
  BY <1>6 DEF SessionKnown, Fresh, Exists
<1>7. ASSUME NEW r \in Requests, RotateTaken(r) PROVE FirstOpening'
  BY <1>7 DEF RotateTaken, Rotatable
<1>8. ASSUME NEW r \in Requests, RotateLost(r) PROVE FirstOpening'
  BY <1>8 DEF RotateLost, Rotatable
<1>9. ASSUME NEW r \in Requests, RotateCommitted(r) PROVE FirstOpening'
  BY <1>9 DEF RotateCommitted, Release
<1>10. ASSUME NEW r \in Requests, CutBegins(r) PROVE FirstOpening'
  BY <1>10 DEF CutBegins, Live
<1>11. ASSUME NEW r \in Requests, CutCommitted(r) PROVE FirstOpening'
  BY <1>11 DEF CutCommitted
<1>12. ASSUME NEW r \in Requests, TellOwner(r) PROVE FirstOpening'
  BY <1>12 DEF TellOwner
<1>13. ASSUME NEW r \in Requests, KillGrant(r) PROVE FirstOpening'
  BY <1>13 DEF KillGrant
<1>14. ASSUME NEW r \in Requests, ReadClaimGrant(r) PROVE FirstOpening'
  BY <1>14 DEF ReadClaimGrant, GrantRefusal
<1>15. ASSUME NEW r \in Requests, ClaimLost(r) PROVE FirstOpening'
  BY <1>15 DEF ClaimLost
<1>16. ASSUME NEW r \in Requests, ClaimWon(r) PROVE FirstOpening'
  BY <1>16 DEF ClaimWon
<1>17. ASSUME NEW r \in Requests, PairSent(r) PROVE FirstOpening'
  BY <1>17 DEF PairSent, Fresh, Exists
<1>18. ASSUME NEW r \in Requests, SessionOpened(r) PROVE FirstOpening'
  BY <1>18 DEF SessionOpened
<1>19. ASSUME NEW r \in Requests, LiveCheck(r) \/ AskGrant(r) PROVE FirstOpening'
  BY <1>19 DEF LiveCheck, AskGrant, GrantRefusal
<1>20. ASSUME NEW r \in Requests, Crash(r) PROVE FirstOpening'
  BY <1>20 DEF Crash, Release
<1>21. ASSUME NEW s \in Sessions, GraceEnds(s) \/ SessionExpires(s)
      PROVE FirstOpening'
  BY <1>21 DEF GraceEnds, SessionExpires
<1>22. ASSUME NEW s \in Sessions, PurgeSession(s) PROVE FirstOpening'
  BY <1>22 DEF PurgeSession
<1>23. ASSUME NEW g \in Grants, GrantLapses(g) \/ WindowPasses(g)
      PROVE FirstOpening'
  BY <1>23 DEF GrantLapses, WindowPasses
<1>24. CASE UNCHANGED vars
  BY <1>24 DEF vars
<1>25. QED
  BY <1>1, <1>2, <1>3, <1>4, <1>5, <1>6, <1>7, <1>8, <1>9, <1>10, <1>11, <1>12,
     <1>13, <1>14, <1>15, <1>16, <1>17, <1>18, <1>19, <1>20, <1>21, <1>22,
     <1>23, <1>24 DEF Next, Step

\* A rotation ends its predecessor as it starts the successor.
LEMMA LiveStep ==
  ASSUME IInv, [Next]_vars
  PROVE  LiveIsOnly'
<1> USE NobodyAssumption, SessionsAssumption DEF TypeOK, Working, Answered,
        Granted, Refused, Goto, grantVars, sessionVars, carried, locals, IInv,
        CarriesItsOwn, LockOK, FirstOpening, Unopened, Opening, LiveIsOnly,
        ChainIsLinear, Minting, Presenting, SessionsOf
<1>1. ASSUME NEW r \in Requests, ArriveClaim(r) \/ ArriveKill(r) PROVE LiveIsOnly'
  BY <1>1 DEF ArriveClaim, ArriveKill, Remember
<1>2. ASSUME NEW r \in Requests, NEW s \in Sessions, ArriveRefresh(r, s) \/ ArriveAsk(r, s)
      PROVE LiveIsOnly'
  BY <1>2 DEF ArriveRefresh, ArriveAsk, Remember
<1>3. ASSUME NEW r \in Requests, ReadGrant(r) \/ SessionUnknown(r) \/ Explain(r)
      PROVE LiveIsOnly'
  BY <1>3 DEF ReadGrant, SessionUnknown, Explain, GrantRefusal
<1>4. ASSUME NEW r \in Requests, SessionKnown(r) PROVE LiveIsOnly'
  BY <1>4 DEF SessionKnown, Fresh, Exists
<1>5. ASSUME NEW r \in Requests, RotateTaken(r) PROVE LiveIsOnly'
  BY <1>5 DEF RotateTaken, Rotatable
<1>6. ASSUME NEW r \in Requests, RotateLost(r) PROVE LiveIsOnly'
  BY <1>6 DEF RotateLost, Rotatable
<1>7. ASSUME NEW r \in Requests, RotateCommitted(r) PROVE LiveIsOnly'
  BY <1>7 DEF RotateCommitted, Release
<1>8. ASSUME NEW r \in Requests, CutBegins(r) PROVE LiveIsOnly'
  BY <1>8 DEF CutBegins, Live
<1>9. ASSUME NEW r \in Requests, CutCommitted(r) PROVE LiveIsOnly'
  BY <1>9 DEF CutCommitted
<1>10. ASSUME NEW r \in Requests, TellOwner(r) \/ KillGrant(r) PROVE LiveIsOnly'
  BY <1>10 DEF TellOwner, KillGrant
<1>11. ASSUME NEW r \in Requests, ReadClaimGrant(r) \/ ClaimLost(r)
      PROVE LiveIsOnly'
  BY <1>11 DEF ReadClaimGrant, ClaimLost, GrantRefusal
<1>12. ASSUME NEW r \in Requests, ClaimWon(r) PROVE LiveIsOnly'
  BY <1>12 DEF ClaimWon
<1>13. ASSUME NEW r \in Requests, PairSent(r) PROVE LiveIsOnly'
  BY <1>13 DEF PairSent, Fresh, Exists
<1>14. ASSUME NEW r \in Requests, SessionOpened(r) PROVE LiveIsOnly'
  BY <1>14 DEF SessionOpened
<1>15. ASSUME NEW r \in Requests, LiveCheck(r) \/ AskGrant(r) PROVE LiveIsOnly'
  BY <1>15 DEF LiveCheck, AskGrant, GrantRefusal
<1>16. ASSUME NEW r \in Requests, Crash(r) PROVE LiveIsOnly'
  BY <1>16 DEF Crash, Release
<1>17. ASSUME NEW s \in Sessions, GraceEnds(s) \/ SessionExpires(s)
      PROVE LiveIsOnly'
  BY <1>17 DEF GraceEnds, SessionExpires
<1>18. ASSUME NEW s \in Sessions, PurgeSession(s) PROVE LiveIsOnly'
  BY <1>18 DEF PurgeSession
<1>19. ASSUME NEW g \in Grants, GrantLapses(g) \/ WindowPasses(g)
      PROVE LiveIsOnly'
  BY <1>19 DEF GrantLapses, WindowPasses
<1>20. CASE UNCHANGED vars
  BY <1>20 DEF vars
<1>21. QED
  BY <1>1, <1>2, <1>3, <1>4, <1>5, <1>6, <1>7, <1>8, <1>9, <1>10, <1>11, <1>12,
     <1>13, <1>14, <1>15, <1>16, <1>17, <1>18, <1>19, <1>20 DEF Next, Step

\* The chain grows at a live end, and a purge takes the link with the row.
LEMMA ChainStep ==
  ASSUME IInv, [Next]_vars
  PROVE  ChainIsLinear'
<1> USE NobodyAssumption, SessionsAssumption DEF TypeOK, Working, Answered,
        Granted, Refused, Goto, grantVars, sessionVars, carried, locals, IInv,
        CarriesItsOwn, LockOK, FirstOpening, Unopened, Opening, LiveIsOnly,
        ChainIsLinear, Minting, Presenting, SessionsOf
<1>1. ASSUME NEW r \in Requests, ArriveClaim(r) \/ ArriveKill(r)
      PROVE ChainIsLinear'
  BY <1>1 DEF ArriveClaim, ArriveKill, Remember
<1>2. ASSUME NEW r \in Requests, NEW s \in Sessions, ArriveRefresh(r, s) \/ ArriveAsk(r, s)
      PROVE ChainIsLinear'
  BY <1>2 DEF ArriveRefresh, ArriveAsk, Remember
<1>3. ASSUME NEW r \in Requests, ReadGrant(r) \/ SessionUnknown(r) \/ Explain(r)
      PROVE ChainIsLinear'
  BY <1>3 DEF ReadGrant, SessionUnknown, Explain, GrantRefusal
<1>4. ASSUME NEW r \in Requests, SessionKnown(r) PROVE ChainIsLinear'
  BY <1>4 DEF SessionKnown, Fresh, Exists
<1>5. ASSUME NEW r \in Requests, RotateTaken(r) PROVE ChainIsLinear'
  BY <1>5 DEF RotateTaken, Rotatable
<1>6. ASSUME NEW r \in Requests, RotateLost(r) PROVE ChainIsLinear'
  BY <1>6 DEF RotateLost, Rotatable
<1>7. ASSUME NEW r \in Requests, RotateCommitted(r) PROVE ChainIsLinear'
  BY <1>7 DEF RotateCommitted, Release
<1>8. ASSUME NEW r \in Requests, CutBegins(r) PROVE ChainIsLinear'
  BY <1>8 DEF CutBegins, Live
<1>9. ASSUME NEW r \in Requests, CutCommitted(r) PROVE ChainIsLinear'
  BY <1>9 DEF CutCommitted
<1>10. ASSUME NEW r \in Requests, TellOwner(r) \/ KillGrant(r)
      PROVE ChainIsLinear'
  BY <1>10 DEF TellOwner, KillGrant
<1>11. ASSUME NEW r \in Requests, ReadClaimGrant(r) \/ ClaimLost(r)
      PROVE ChainIsLinear'
  BY <1>11 DEF ReadClaimGrant, ClaimLost, GrantRefusal
<1>12. ASSUME NEW r \in Requests, ClaimWon(r) PROVE ChainIsLinear'
  BY <1>12 DEF ClaimWon
<1>13. ASSUME NEW r \in Requests, PairSent(r) PROVE ChainIsLinear'
  BY <1>13 DEF PairSent, Fresh, Exists
<1>14. ASSUME NEW r \in Requests, SessionOpened(r) PROVE ChainIsLinear'
  BY <1>14 DEF SessionOpened
<1>15. ASSUME NEW r \in Requests, LiveCheck(r) \/ AskGrant(r) PROVE ChainIsLinear'
  BY <1>15 DEF LiveCheck, AskGrant, GrantRefusal
<1>16. ASSUME NEW r \in Requests, Crash(r) PROVE ChainIsLinear'
  BY <1>16 DEF Crash, Release
<1>17. ASSUME NEW s \in Sessions, GraceEnds(s) \/ SessionExpires(s)
      PROVE ChainIsLinear'
  BY <1>17 DEF GraceEnds, SessionExpires
<1>18. ASSUME NEW s \in Sessions, PurgeSession(s) PROVE ChainIsLinear'
  BY <1>18 DEF PurgeSession
<1>19. ASSUME NEW g \in Grants, GrantLapses(g) \/ WindowPasses(g)
      PROVE ChainIsLinear'
  BY <1>19 DEF GrantLapses, WindowPasses
<1>20. CASE UNCHANGED vars
  BY <1>20 DEF vars
<1>21. QED
  BY <1>1, <1>2, <1>3, <1>4, <1>5, <1>6, <1>7, <1>8, <1>9, <1>10, <1>11, <1>12,
     <1>13, <1>14, <1>15, <1>16, <1>17, <1>18, <1>19, <1>20 DEF Next, Step

\* The reasons for a cut never go away.
LEMMA ReasonStep ==
  ASSUME IInv, CutHasReason, [Next]_vars
  PROVE  CutHasReason'
<1> USE NobodyAssumption, SessionsAssumption DEF TypeOK, Working, Answered,
        Granted, Refused, Goto, grantVars, sessionVars, carried, locals, IInv,
        CarriesItsOwn, CutHasReason, Presenting, SessionsOf
<1>1. ASSUME NEW r \in Requests, ArriveClaim(r) \/ ArriveKill(r)
      PROVE CutHasReason'
  BY <1>1 DEF ArriveClaim, ArriveKill, Remember
<1>2. ASSUME NEW r \in Requests, NEW s \in Sessions, ArriveRefresh(r, s) \/ ArriveAsk(r, s)
      PROVE CutHasReason'
  BY <1>2 DEF ArriveRefresh, ArriveAsk, Remember
<1>3. ASSUME NEW r \in Requests, ReadGrant(r) \/ SessionUnknown(r) \/ Explain(r)
      PROVE CutHasReason'
  BY <1>3 DEF ReadGrant, SessionUnknown, Explain, GrantRefusal
<1>4. ASSUME NEW r \in Requests, SessionKnown(r) PROVE CutHasReason'
  BY <1>4 DEF SessionKnown, Fresh, Exists
<1>5. ASSUME NEW r \in Requests, RotateTaken(r) PROVE CutHasReason'
  BY <1>5 DEF RotateTaken, Rotatable
<1>6. ASSUME NEW r \in Requests, RotateLost(r) PROVE CutHasReason'
  BY <1>6 DEF RotateLost, Rotatable
<1>7. ASSUME NEW r \in Requests, RotateCommitted(r) PROVE CutHasReason'
  BY <1>7 DEF RotateCommitted, Release
<1>8. ASSUME NEW r \in Requests, CutBegins(r) PROVE CutHasReason'
  BY <1>8 DEF CutBegins, Live
<1>9. ASSUME NEW r \in Requests, CutCommitted(r) PROVE CutHasReason'
  BY <1>9 DEF CutCommitted
<1>10. ASSUME NEW r \in Requests, TellOwner(r) \/ KillGrant(r) PROVE CutHasReason'
  BY <1>10 DEF TellOwner, KillGrant
<1>11. ASSUME NEW r \in Requests, ReadClaimGrant(r) \/ ClaimLost(r)
      PROVE CutHasReason'
  BY <1>11 DEF ReadClaimGrant, ClaimLost, GrantRefusal
<1>12. ASSUME NEW r \in Requests, ClaimWon(r) PROVE CutHasReason'
  BY <1>12 DEF ClaimWon
<1>13. ASSUME NEW r \in Requests, PairSent(r) PROVE CutHasReason'
  BY <1>13 DEF PairSent, Fresh, Exists
<1>14. ASSUME NEW r \in Requests, SessionOpened(r) PROVE CutHasReason'
  BY <1>14 DEF SessionOpened
<1>15. ASSUME NEW r \in Requests, LiveCheck(r) \/ AskGrant(r) PROVE CutHasReason'
  BY <1>15 DEF LiveCheck, AskGrant, GrantRefusal
<1>16. ASSUME NEW r \in Requests, Crash(r) PROVE CutHasReason'
  BY <1>16 DEF Crash, Release
<1>17. ASSUME NEW s \in Sessions, GraceEnds(s) \/ SessionExpires(s)
      PROVE CutHasReason'
  BY <1>17 DEF GraceEnds, SessionExpires
<1>18. ASSUME NEW s \in Sessions, PurgeSession(s) PROVE CutHasReason'
  BY <1>18 DEF PurgeSession
<1>19. ASSUME NEW g \in Grants, GrantLapses(g) \/ WindowPasses(g)
      PROVE CutHasReason'
  BY <1>19 DEF GrantLapses, WindowPasses
<1>20. CASE UNCHANGED vars
  BY <1>20 DEF vars
<1>21. QED
  BY <1>1, <1>2, <1>3, <1>4, <1>5, <1>6, <1>7, <1>8, <1>9, <1>10, <1>11, <1>12,
     <1>13, <1>14, <1>15, <1>16, <1>17, <1>18, <1>19, <1>20 DEF Next, Step

\* A dead token's request never gets past the check that it fails.
LEMMA DeathStep ==
  ASSUME IInv, DeathOutlastsIt, [Next]_vars
  PROVE  DeathOutlastsIt'
<1> USE NobodyAssumption, SessionsAssumption DEF TypeOK, Working, Answered,
        Granted, Refused, Goto, grantVars, sessionVars, carried, locals, IInv,
        CarriesItsOwn, LockOK, ChainIsLinear, DeathOutlastsIt, Over, Barred,
        Presenting, Minting
<1>1. ASSUME NEW r \in Requests, ArriveClaim(r) \/ ArriveKill(r)
      PROVE DeathOutlastsIt'
  BY <1>1 DEF ArriveClaim, ArriveKill, Remember
<1>2. ASSUME NEW r \in Requests, NEW s \in Sessions, ArriveRefresh(r, s) \/ ArriveAsk(r, s)
      PROVE DeathOutlastsIt'
  BY <1>2 DEF ArriveRefresh, ArriveAsk, Remember
<1>3. ASSUME NEW r \in Requests, ReadGrant(r) \/ SessionUnknown(r) \/ Explain(r)
      PROVE DeathOutlastsIt'
  BY <1>3 DEF ReadGrant, SessionUnknown, Explain, GrantRefusal
<1>4. ASSUME NEW r \in Requests, SessionKnown(r) PROVE DeathOutlastsIt'
  BY <1>4 DEF SessionKnown, Fresh, SessionsOf, Exists
<1>5. ASSUME NEW r \in Requests, RotateTaken(r) PROVE DeathOutlastsIt'
  BY <1>5 DEF RotateTaken, Rotatable
<1>6. ASSUME NEW r \in Requests, RotateLost(r) PROVE DeathOutlastsIt'
  BY <1>6 DEF RotateLost, Rotatable
<1>7. ASSUME NEW r \in Requests, RotateCommitted(r) PROVE DeathOutlastsIt'
  BY <1>7 DEF RotateCommitted, Release
<1>8. ASSUME NEW r \in Requests, CutBegins(r) PROVE DeathOutlastsIt'
  BY <1>8 DEF CutBegins, Live, SessionsOf
<1>9. ASSUME NEW r \in Requests, CutCommitted(r) PROVE DeathOutlastsIt'
  BY <1>9 DEF CutCommitted
<1>10. ASSUME NEW r \in Requests, TellOwner(r) \/ KillGrant(r)
      PROVE DeathOutlastsIt'
  BY <1>10 DEF TellOwner, KillGrant
<1>11. ASSUME NEW r \in Requests, ReadClaimGrant(r) \/ ClaimLost(r)
      PROVE DeathOutlastsIt'
  BY <1>11 DEF ReadClaimGrant, ClaimLost, GrantRefusal
<1>12. ASSUME NEW r \in Requests, ClaimWon(r) PROVE DeathOutlastsIt'
  BY <1>12 DEF ClaimWon
<1>13. ASSUME NEW r \in Requests, PairSent(r) PROVE DeathOutlastsIt'
  BY <1>13 DEF PairSent, Fresh, SessionsOf, Exists
<1>14. ASSUME NEW r \in Requests, SessionOpened(r) PROVE DeathOutlastsIt'
  BY <1>14 DEF SessionOpened
<1>15. ASSUME NEW r \in Requests, LiveCheck(r) \/ AskGrant(r)
      PROVE DeathOutlastsIt'
  BY <1>15 DEF LiveCheck, AskGrant, GrantRefusal
<1>16. ASSUME NEW r \in Requests, Crash(r) PROVE DeathOutlastsIt'
  BY <1>16 DEF Crash, Release
<1>17. ASSUME NEW s \in Sessions, GraceEnds(s) \/ SessionExpires(s)
      PROVE DeathOutlastsIt'
  BY <1>17 DEF GraceEnds, SessionExpires
<1>18. ASSUME NEW s \in Sessions, PurgeSession(s) PROVE DeathOutlastsIt'
  BY <1>18 DEF PurgeSession
<1>19. ASSUME NEW g \in Grants, GrantLapses(g) \/ WindowPasses(g)
      PROVE DeathOutlastsIt'
  BY <1>19 DEF GrantLapses, WindowPasses
<1>20. CASE UNCHANGED vars
  BY <1>20 DEF vars
<1>21. QED
  BY <1>1, <1>2, <1>3, <1>4, <1>5, <1>6, <1>7, <1>8, <1>9, <1>10, <1>11, <1>12,
     <1>13, <1>14, <1>15, <1>16, <1>17, <1>18, <1>19, <1>20 DEF Next, Step

\* Whoever opens the window sends the window's one message.
LEMMA WindowStep ==
  ASSUME TypeOK, WindowOK, [Next]_vars
  PROVE  WindowOK'
<1> USE NobodyAssumption, SessionsAssumption DEF TypeOK, Working, Answered,
        Granted, Refused, Goto, grantVars, sessionVars, carried, locals,
        WindowOK
<1>1. ASSUME NEW r \in Requests, ArriveClaim(r) \/ ArriveKill(r) PROVE WindowOK'
  BY <1>1 DEF ArriveClaim, ArriveKill, Remember
<1>2. ASSUME NEW r \in Requests, NEW s \in Sessions, ArriveRefresh(r, s) \/ ArriveAsk(r, s)
      PROVE WindowOK'
  BY <1>2 DEF ArriveRefresh, ArriveAsk, Remember
<1>3. ASSUME NEW r \in Requests, ReadGrant(r) \/ SessionUnknown(r) \/ Explain(r)
      PROVE WindowOK'
  BY <1>3 DEF ReadGrant, SessionUnknown, Explain, GrantRefusal
<1>4. ASSUME NEW r \in Requests, SessionKnown(r) PROVE WindowOK'
  BY <1>4 DEF SessionKnown, Fresh, SessionsOf, Exists
<1>5. ASSUME NEW r \in Requests, RotateTaken(r) PROVE WindowOK'
  BY <1>5 DEF RotateTaken, Rotatable
<1>6. ASSUME NEW r \in Requests, RotateLost(r) PROVE WindowOK'
  BY <1>6 DEF RotateLost, Rotatable
<1>7. ASSUME NEW r \in Requests, RotateCommitted(r) PROVE WindowOK'
  BY <1>7 DEF RotateCommitted, Release
<1>8. ASSUME NEW r \in Requests, CutBegins(r) PROVE WindowOK'
  BY <1>8 DEF CutBegins, Live, SessionsOf
<1>9. ASSUME NEW r \in Requests, CutCommitted(r) PROVE WindowOK'
  BY <1>9 DEF CutCommitted
<1>10. ASSUME NEW r \in Requests, TellOwner(r) \/ KillGrant(r) PROVE WindowOK'
  BY <1>10 DEF TellOwner, KillGrant
<1>11. ASSUME NEW r \in Requests, ReadClaimGrant(r) \/ ClaimLost(r)
      PROVE WindowOK'
  BY <1>11 DEF ReadClaimGrant, ClaimLost, GrantRefusal
<1>12. ASSUME NEW r \in Requests, ClaimWon(r) PROVE WindowOK'
  BY <1>12 DEF ClaimWon
<1>13. ASSUME NEW r \in Requests, PairSent(r) PROVE WindowOK'
  BY <1>13 DEF PairSent, Fresh, SessionsOf, Exists
<1>14. ASSUME NEW r \in Requests, SessionOpened(r) PROVE WindowOK'
  BY <1>14 DEF SessionOpened
<1>15. ASSUME NEW r \in Requests, LiveCheck(r) \/ AskGrant(r) PROVE WindowOK'
  BY <1>15 DEF LiveCheck, AskGrant, GrantRefusal
<1>16. ASSUME NEW r \in Requests, Crash(r) PROVE WindowOK'
  BY <1>16 DEF Crash, Release
<1>17. ASSUME NEW s \in Sessions, GraceEnds(s) \/ SessionExpires(s)
      PROVE WindowOK'
  BY <1>17 DEF GraceEnds, SessionExpires
<1>18. ASSUME NEW s \in Sessions, PurgeSession(s) PROVE WindowOK'
  BY <1>18 DEF PurgeSession
<1>19. ASSUME NEW g \in Grants, GrantLapses(g) \/ WindowPasses(g) PROVE WindowOK'
  BY <1>19 DEF GrantLapses, WindowPasses
<1>20. CASE UNCHANGED vars
  BY <1>20 DEF vars
<1>21. QED
  BY <1>1, <1>2, <1>3, <1>4, <1>5, <1>6, <1>7, <1>8, <1>9, <1>10, <1>11, <1>12,
     <1>13, <1>14, <1>15, <1>16, <1>17, <1>18, <1>19, <1>20 DEF Next, Step

-----------------------------------------------------------------------------
(* The theorems.                                                           *)

\* The invariant the rest follows from: it holds at first, and every step keeps it.
THEOREM Inductive == Spec => []IInv
<1>1. Init => IInv
  BY NobodyAssumption, SessionsAssumption
     DEF Init, IInv, TypeOK, CarriesItsOwn, LockOK, FirstOpening, Unopened,
         Opening, LiveIsOnly, ChainIsLinear, Minting, Presenting, SessionsOf
<1>2. IInv /\ [Next]_vars => IInv'
  BY TypeStep, CarriesStep, LockStep, FirstStep, LiveStep, ChainStep DEF IInv
<1>3. QED
  BY <1>1, <1>2, PTL DEF Spec

\* Every variable holds a value of its type in every reachable state.
THEOREM TypeCorrect == Spec => []TypeOK
<1>1. IInv => TypeOK
  BY DEF IInv
<1>2. QED
  BY <1>1, Inductive, PTL

\* A grant never has two live sessions, however claims, rotations, replays,
\* purges and crashes interleave (base.py:235-240, sessions.py:39-46).
THEOREM OnlyOneLives == Spec => []OneLiveSession
<1>1. IInv => OneLiveSession
  <2> SUFFICES ASSUME IInv, NEW g \in Grants PROVE Cardinality(Live(g)) <= 1
    BY DEF OneLiveSession
  <2>1. CASE Live(g) = {}
    <3>1. Cardinality(Live(g)) = 0
      BY <2>1, FS_EmptySet
    <3>2. QED
      BY <3>1
  <2>2. CASE \E s \in Live(g) : TRUE
    <3>1. PICK s \in Live(g) : TRUE
      BY <2>2
    <3>2. Live(g) = {s}
      BY <3>1 DEF IInv, LiveIsOnly, Live, SessionsOf
    <3>3. Cardinality(Live(g)) = 1
      BY <3>2, FS_Singleton
    <3>4. QED
      BY <3>3
  <2>3. QED
    BY <2>1, <2>2
<1>2. QED
  BY <1>1, Inductive, PTL

\* A chain of rotations never dangles and never joins another
\* (schemas.py:100-110).
THEOREM ChainStaysLinear == Spec => []ChainIsLinear
<1>1. IInv => ChainIsLinear
  BY DEF IInv
<1>2. QED
  BY <1>1, Inductive, PTL

\* A token that was dead when it was presented buys nothing.
THEOREM DeadBuysNothing == Spec => []DeadTokenBuysNothing
<1>1. Init => DeathOutlastsIt
  BY DEF Init, DeathOutlastsIt
<1>2. IInv /\ DeathOutlastsIt /\ [Next]_vars => DeathOutlastsIt'
  BY DeathStep
<1>3. DeathOutlastsIt => DeadTokenBuysNothing
  BY DEF DeathOutlastsIt, DeadTokenBuysNothing
<1>4. QED
  BY <1>1, <1>2, <1>3, Inductive, PTL DEF Spec

\* However many dead tokens are presented, one message goes out in a window
\* (base.py:172-177).
THEOREM OneMessage == Spec => []OneMessagePerWindow
<1>1. Init => WindowOK
  BY DEF Init, WindowOK
<1>2. TypeOK /\ WindowOK /\ [Next]_vars => WindowOK'
  BY WindowStep
<1>3. WindowOK => OneMessagePerWindow
  BY DEF WindowOK, OneMessagePerWindow
<1>4. QED
  BY <1>1, <1>2, <1>3, TypeCorrect, PTL DEF Spec

\* What a request cuts, it has a reason to cut.
THEOREM CutsHaveReasons == Spec => []CutHasReason
<1>1. Init => CutHasReason
  BY NobodyAssumption DEF Init, CutHasReason
<1>2. IInv /\ CutHasReason /\ [Next]_vars => CutHasReason'
  BY ReasonStep
<1>3. QED
  BY <1>1, <1>2, Inductive, PTL DEF Spec

\* The concurrent transactions do to the committed rows what the session store
\* promises: each commit is one of its operations, every other step none.
THEOREM StoreImplemented == Spec => ImplementsStore
<1>1. Init => Store!Init
  BY NobodyAssumption, SessionsAssumption DEF Init, Store!Init
<1>2. IInv /\ CutHasReason /\ [Next]_vars => [Store!Next]_(Store!vars)
  <2> SUFFICES ASSUME IInv, CutHasReason, [Next]_vars
               PROVE  [Store!Next]_(Store!vars)
    OBVIOUS
  <2> USE NobodyAssumption, SessionsAssumption
      DEF Goto, grantVars, sessionVars, carried, locals
  <2>1. ASSUME NEW r \in Requests, RotateCommitted(r) PROVE Store!Next
    <3>1. Store!Rotate(presented[r], minted[r])
      BY <2>1 DEF RotateCommitted, IInv, TypeOK, CarriesItsOwn, LockOK, Minting,
                  Presenting, Store!Rotate
    <3>2. presented[r] \in Sessions /\ minted[r] \in Sessions
      BY <2>1 DEF RotateCommitted, IInv, CarriesItsOwn, Minting, Presenting
    <3>3. QED
      BY <3>1, <3>2 DEF Store!Next
  <2>2. ASSUME NEW r \in Requests, CutCommitted(r) PROVE Store!Next
    <3> DEFINE cut == {s \in snapshot[r] : row[s] = "live"}
    <3>1. about[r] \in Grants /\ cut \in SUBSET Store!Live(about[r])
      BY <2>2 DEF CutCommitted, IInv, TypeOK, CutHasReason, SessionsOf, Store!Live
    <3>2. revoked[about[r]] \/ \E s \in stale : GrantOf[s] = about[r]
      BY <2>2 DEF CutCommitted, CutHasReason
    <3>3. Store!Cut(about[r], cut)
      BY <2>2, <3>1, <3>2 DEF CutCommitted, Store!Cut
    <3>4. QED
      BY <3>1, <3>3 DEF Store!Next
  <2>3. ASSUME NEW r \in Requests, SessionOpened(r) PROVE Store!Next
    <3>1. Store!Open(minted[r])
      BY <2>3 DEF SessionOpened, IInv, TypeOK, CarriesItsOwn, FirstOpening, Unopened,
                  Opening, SessionsOf, Minting, Store!Open, Store!Live
    <3>2. minted[r] \in Sessions
      BY <2>3 DEF SessionOpened, IInv, CarriesItsOwn, Minting
    <3>3. QED
      BY <3>1, <3>2 DEF Store!Next
  <2>4. ASSUME NEW r \in Requests, KillGrant(r) PROVE Store!Next
    <3>1. about[r] \in Grants
      BY DEF IInv, TypeOK
    <3>2. Store!Revoke(about[r])
      BY <2>4 DEF KillGrant, Store!Revoke
    <3>3. QED
      BY <3>1, <3>2 DEF Store!Next
  <2>5. ASSUME NEW s \in Sessions, GraceEnds(s) PROVE Store!Next
    BY <2>5 DEF GraceEnds, Store!Next, Store!GraceEnds
  <2>6. ASSUME NEW s \in Sessions, PurgeSession(s) PROVE Store!Next
    <3>1. Store!Purge(s)
      BY <2>6 DEF PurgeSession, Store!Purge
    <3>2. QED
      BY <3>1 DEF Store!Next
  <2>7. ASSUME NEW r \in Requests,
               \/ ArriveClaim(r) \/ ArriveKill(r)
               \/ \E s \in Sessions : ArriveRefresh(r, s) \/ ArriveAsk(r, s)
        PROVE  UNCHANGED Store!vars
    BY <2>7 DEF ArriveClaim, ArriveKill, ArriveRefresh, ArriveAsk, Store!vars
  <2>8. ASSUME NEW r \in Requests,
               \/ ReadGrant(r) \/ SessionUnknown(r) \/ SessionKnown(r)
               \/ RotateTaken(r) \/ RotateLost(r) \/ Explain(r) \/ CutBegins(r)
        PROVE  UNCHANGED Store!vars
    BY <2>8 DEF ReadGrant, SessionUnknown, SessionKnown, RotateTaken, RotateLost,
                Explain, CutBegins, Store!vars
  <2>9. ASSUME NEW r \in Requests,
               \/ TellOwner(r) \/ ReadClaimGrant(r) \/ ClaimWon(r) \/ ClaimLost(r)
               \/ PairSent(r) \/ LiveCheck(r) \/ AskGrant(r) \/ Crash(r)
        PROVE  UNCHANGED Store!vars
    BY <2>9 DEF TellOwner, ReadClaimGrant, ClaimWon, ClaimLost, PairSent, LiveCheck,
                AskGrant, Crash, Store!vars
  <2>10. ASSUME NEW s \in Sessions, SessionExpires(s) PROVE UNCHANGED Store!vars
    BY <2>10 DEF SessionExpires, Store!vars
  <2>11. ASSUME NEW g \in Grants, GrantLapses(g) \/ WindowPasses(g)
         PROVE  UNCHANGED Store!vars
    BY <2>11 DEF GrantLapses, WindowPasses, Store!vars
  <2>12. CASE UNCHANGED vars
    BY <2>12 DEF vars, Store!vars
  <2>13. QED
    BY <2>1, <2>2, <2>3, <2>4, <2>5, <2>6, <2>7, <2>8, <2>9, <2>10, <2>11, <2>12
       DEF Next, Step
<1>3. QED
  BY <1>1, <1>2, Inductive, CutsHaveReasons, PTL DEF Spec, ImplementsStore, Store!Spec

-----------------------------------------------------------------------------
(* Nobody waits for ever.                                                  *)

\* The next statement of r finds no row of its own locked by somebody else.
\* Only the claiming UPDATE and the cut wait for one.
CanGoOn(r) ==
  \/ pc[r] \in Working \ {"rotate", "cutting"}
  \/ pc[r] = "rotate" /\ (~Rotatable(r) \/ lock[presented[r]] = NoOne)
  \/ pc[r] = "cutting" /\ \A s \in snapshot[r] : lock[s] = NoOne

\* Whoever waits, waits for a request whose next statement is its commit, and which
\* therefore waits for nobody.
WaitsAreShort ==
  \A r \in Requests : pc[r] \in Working => CanGoOn(r) \/ \E q \in Requests : pc[q] = "commit"

\* No two transactions wait for each other, however many rotate and cut the
\* same sessions: a rotation locks one row, by its last statement but one.
THEOREM NobodyDeadlocks == Spec => []WaitsAreShort
<1>1. IInv /\ CutHasReason => WaitsAreShort
  <2> SUFFICES ASSUME IInv, CutHasReason, NEW r \in Requests, pc[r] \in Working
               PROVE  CanGoOn(r) \/ \E q \in Requests : pc[q] = "commit"
    BY DEF WaitsAreShort
  <2>1. ASSUME NEW s \in Sessions, lock[s] # NoOne PROVE \E q \in Requests : pc[q] = "commit"
    BY <2>1 DEF IInv, TypeOK, LockOK
  <2>2. CASE pc[r] = "rotate"
    <3>1. presented[r] \in Sessions
      BY <2>2 DEF IInv, CarriesItsOwn, Presenting
    <3>2. QED
      BY <2>1, <2>2, <3>1 DEF CanGoOn
  <2>3. CASE pc[r] = "cutting"
    <3>1. snapshot[r] \subseteq Sessions
      BY DEF IInv, TypeOK
    <3>2. QED
      BY <2>1, <2>3, <3>1 DEF CanGoOn
  <2>4. QED
    BY <2>2, <2>3 DEF CanGoOn
<1>2. QED
  BY <1>1, Inductive, CutsHaveReasons, PTL

\* How far along its way a request is.
Stage(at) ==
  CASE at = "idle"                                            -> 0
    [] at \in {"readGrant", "claimGrant", "liveCheck", "kill"}  -> 1
    [] at \in {"readSession", "claimOnce", "asking", "killed"}  -> 2
    [] at \in {"rotate", "open"}                               -> 3
    [] at \in {"commit", "explain", "sent"}                    -> 4
    [] at = "cut"                                             -> 5
    [] at = "cutting"                                         -> 6
    [] at = "tell"                                            -> 7
    [] OTHER                                                  -> 8

OnlyOn == \A r \in Requests : pc'[r] # pc[r] => Stage(pc[r]) < Stage(pc'[r])

\* The places in their order.
LEMMA Stages ==
  /\ Stage("idle") = 0
  /\ \A at \in {"readGrant", "claimGrant", "liveCheck", "kill"} : Stage(at) = 1
  /\ \A at \in {"readSession", "claimOnce", "asking", "killed"} : Stage(at) = 2
  /\ \A at \in {"rotate", "open"} : Stage(at) = 3
  /\ \A at \in {"commit", "explain", "sent"} : Stage(at) = 4
  /\ Stage("cut") = 5 /\ Stage("cutting") = 6 /\ Stage("tell") = 7
  /\ \A at \in Answered : Stage(at) = 8
BY DEF Stage, Answered, Granted, Refused


\* The ways between them that are not answers.
LEMMA Order ==
  /\ \A at \in {"readGrant", "claimGrant", "liveCheck", "kill"} : Stage("idle") < Stage(at)
  /\ Stage("readGrant") < Stage("readSession") /\ Stage("readSession") < Stage("rotate")
  /\ Stage("rotate") < Stage("commit") /\ Stage("rotate") < Stage("explain")
  /\ Stage("explain") < Stage("cut") /\ Stage("cut") < Stage("cutting")
  /\ Stage("cutting") < Stage("tell")
  /\ Stage("claimGrant") < Stage("claimOnce") /\ Stage("claimOnce") < Stage("tell")
  /\ Stage("claimOnce") < Stage("open") /\ Stage("open") < Stage("sent")
  /\ Stage("liveCheck") < Stage("asking")
  /\ Stage("kill") < Stage("killed") /\ Stage("killed") < Stage("cutting")
BY Stages

\* Going from one place to a later one.
Onward(r) == \E to : pc' = [pc EXCEPT ![r] = to] /\ Stage(pc[r]) < Stage(to)

\* What is said of a grant lets a request go on, or answers it.
LEMMA RefusalsAnswer ==
  \A g, onward : GrantRefusal(g, onward) \in Answered \cup {onward}
BY DEF GrantRefusal, Answered, Refused

\* Every step of a request takes it to a later place.
LEMMA StepGoesOn ==
  ASSUME NEW r \in Requests, Step(r)
  PROVE  Onward(r)
<1>0. ASSUME NEW from, NEW to, Goto(r, from, to), Stage(from) < Stage(to)
      PROVE  Onward(r)
  BY <1>0 DEF Goto, Onward
<1>1. ASSUME NEW from \in Working, NEW to \in Answered, Goto(r, from, to)
      PROVE  Onward(r)
  <2>1. Stage(from) < 8 /\ Stage(to) = 8
    BY <1>1, Stages DEF Working
  <2>2. QED
    BY <1>0, <1>1, <2>1
<1>2. ASSUME ReadGrant(r) PROVE Onward(r)
  <2>1. CASE GrantRefusal(about[r], "readSession") \in Answered
    BY <1>1, <1>2, <2>1 DEF ReadGrant, Working
  <2>2. CASE GrantRefusal(about[r], "readSession") = "readSession"
    BY <1>0, <1>2, <2>2, Order DEF ReadGrant
  <2>3. QED
    BY <2>1, <2>2, RefusalsAnswer
<1>3. ASSUME ReadClaimGrant(r) PROVE Onward(r)
  <2>1. CASE GrantRefusal(about[r], "claimOnce") \in Answered
    BY <1>1, <1>3, <2>1 DEF ReadClaimGrant, Working
  <2>2. CASE GrantRefusal(about[r], "claimOnce") = "claimOnce"
    BY <1>0, <1>3, <2>2, Order DEF ReadClaimGrant
  <2>3. QED
    BY <2>1, <2>2, RefusalsAnswer
<1>4. ASSUME AskGrant(r) PROVE Onward(r)
  <2>1. GrantRefusal(about[r], "asked") \in Answered
    BY RefusalsAnswer DEF Answered, Granted
  <2>2. QED
    BY <1>1, <1>4, <2>1 DEF AskGrant, Working
<1>5. ASSUME SessionUnknown(r) PROVE Onward(r)
  BY <1>1, <1>5 DEF SessionUnknown, Working, Answered, Refused
<1>6. ASSUME RotateCommitted(r) \/ SessionOpened(r) PROVE Onward(r)
  <2>1. \/ Goto(r, "commit", "rotated")
        \/ Goto(r, "sent", "claimed")
    BY <1>6 DEF RotateCommitted, SessionOpened
  <2>2. QED
    BY <1>1, <2>1 DEF Working, Answered, Granted
<1>7. ASSUME TellOwner(r) PROVE Onward(r)
  <2> DEFINE to == IF presented[r] = NoSession THEN "ClaimAlreadyUsed"
                   ELSE "RefreshTokenReplayed"
  <2>1. Goto(r, "tell", to)
    BY <1>7 DEF TellOwner
  <2>2. to \in Answered
    BY DEF Answered, Refused
  <2> HIDE DEF to
  <2>3. QED
    BY <1>1, <2>1, <2>2 DEF Working
<1>8. ASSUME SessionKnown(r) PROVE Onward(r)
  BY <1>0, <1>8, Order DEF SessionKnown
<1>9. ASSUME RotateTaken(r) \/ RotateLost(r) PROVE Onward(r)
  BY <1>0, <1>9, Order DEF RotateTaken, RotateLost
<1>10. ASSUME Explain(r) PROVE Onward(r)
  <2> DEFINE to == IF row[presented[r]] \in {"none", "live"} THEN "RefreshTokenExpired"
                   ELSE IF row[presented[r]] = "cut" THEN "SessionRevoked"
                   ELSE IF ~sawStale[r] THEN "RotationInProgress"
                   ELSE "cut"
  <2>1. Goto(r, "explain", to)
    BY <1>10 DEF Explain
  <2>2. to \in Answered \cup {"cut"}
    BY DEF Answered, Refused
  <2> HIDE DEF to
  <2>3. CASE to \in Answered
    BY <1>1, <2>1, <2>3 DEF Working
  <2>4. CASE to = "cut"
    BY <1>0, <2>1, <2>4, Order
  <2>5. QED
    BY <2>2, <2>3, <2>4
<1>11. ASSUME CutBegins(r) PROVE Onward(r)
  <2>1. Goto(r, pc[r], "cutting") /\ pc[r] \in {"cut", "killed"}
    BY <1>11 DEF CutBegins, Goto
  <2>2. QED
    BY <1>0, <2>1, Order
<1>12. ASSUME CutCommitted(r) PROVE Onward(r)
  <2>1. CASE presented[r] = NoSession
    BY <1>1, <1>12, <2>1 DEF CutCommitted, Working, Answered
  <2>2. CASE presented[r] # NoSession
    BY <1>0, <1>12, <2>2, Order DEF CutCommitted
  <2>3. QED
    BY <2>1, <2>2
<1>13. ASSUME ClaimWon(r) \/ PairSent(r) PROVE Onward(r)
  BY <1>0, <1>13, Order DEF ClaimWon, PairSent
<1>14. ASSUME ClaimLost(r) PROVE Onward(r)
  BY <1>0, <1>14, Order DEF ClaimLost
<1>15. ASSUME LiveCheck(r) PROVE Onward(r)
  <2> DEFINE to == IF row[presented[r]] = "none" THEN "InvalidToken"
                   ELSE IF row[presented[r]] # "live" \/ presented[r] \in expired
                   THEN "SessionRevoked" ELSE "asking"
  <2>1. Goto(r, "liveCheck", to)
    BY <1>15 DEF LiveCheck
  <2>2. to \in Answered \cup {"asking"}
    BY DEF Answered, Refused
  <2> HIDE DEF to
  <2>3. CASE to \in Answered
    BY <1>1, <2>1, <2>3 DEF Working
  <2>4. CASE to = "asking"
    BY <1>0, <2>1, <2>4, Order
  <2>5. QED
    BY <2>2, <2>3, <2>4
<1>16. ASSUME KillGrant(r) PROVE Onward(r)
  BY <1>0, <1>16, Order DEF KillGrant
<1>17. QED
  BY <1>2, <1>3, <1>4, <1>5, <1>6, <1>7, <1>8, <1>9, <1>10, <1>11, <1>12, <1>13,
     <1>14, <1>15, <1>16 DEF Step

\* A request only ever moves on, so it has at most eight steps in all: no statement
\* of it is run twice, whatever the others do, and an answer is final.
THEOREM NoStatementTwice == Spec => [][OnlyOn]_vars
<1>1. ASSUME IInv, [Next]_vars PROVE OnlyOn
  <2>1. ASSUME NEW r \in Requests, Onward(r) PROVE OnlyOn
    BY <1>1, <2>1 DEF Onward, OnlyOn, IInv, TypeOK
  <2>2. ASSUME NEW r \in Requests, Step(r) PROVE OnlyOn
    BY <2>1, <2>2, StepGoesOn
  <2>3. ASSUME NEW r \in Requests, Crash(r) PROVE OnlyOn
    <3>1. Stage(pc[r]) < 8 /\ Stage("crashed") = 8
      BY <2>3, Stages DEF Crash, Working, Answered
    <3>2. QED
      BY <2>1, <2>3, <3>1 DEF Crash, Onward
  <2>4. ASSUME NEW r \in Requests, \/ ArriveClaim(r) \/ ArriveKill(r)
                                   \/ \E s \in Sessions : ArriveRefresh(r, s) \/ ArriveAsk(r, s)
        PROVE  OnlyOn
    <3>1. \E to \in {"readGrant", "claimGrant", "liveCheck", "kill"} : Goto(r, "idle", to)
      BY <2>4 DEF ArriveClaim, ArriveKill, ArriveRefresh, ArriveAsk
    <3>2. QED
      BY <2>1, <3>1, Order DEF Goto, Onward
  <2>5. ASSUME UNCHANGED pc PROVE OnlyOn
    BY <2>5 DEF OnlyOn
  <2>6. ASSUME NEW s \in Sessions, GraceEnds(s) \/ SessionExpires(s) \/ PurgeSession(s)
        PROVE  OnlyOn
    BY <2>5, <2>6 DEF GraceEnds, SessionExpires, PurgeSession
  <2>7. ASSUME NEW g \in Grants, GrantLapses(g) \/ WindowPasses(g) PROVE OnlyOn
    BY <2>5, <2>7 DEF GrantLapses, WindowPasses
  <2>8. QED
    BY <1>1, <2>2, <2>3, <2>4, <2>5, <2>6, <2>7 DEF Next, vars
<1>2. IInv /\ [Next]_vars => [OnlyOn]_vars
  BY <1>1
<1>3. QED
  BY <1>2, Inductive, PTL DEF Spec
=============================================================================
