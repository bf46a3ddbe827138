---------------------------- MODULE ClientSession ----------------------------
(***************************************************************************)
(* useSession in the tabs of one browser, over authService and the routes  *)
(* it calls: a claim link exchanged, a session resumed from the refresh    *)
(* cookie the tabs share, a trial opened, and authFetch, which refreshes   *)
(* once and sends again when it is answered 401.                           *)
(*                                                                         *)
(* The server is SessionRows, answering each call at one moment.  A call   *)
(* is out until it is answered or fails on the way, and back until the     *)
(* page takes the answer; the cookie changes when the page takes it.  Only *)
(* honest tabs hold tokens here: RefreshSessions lets anybody hold them.   *)
(*                                                                         *)
(* An access token is named by the session it was minted with.             *)
(***************************************************************************)
EXTENDS FiniteSets, Naturals

CONSTANTS
  Tabs,
  Fetches,     \* calls of authFetch, each made once
  TabOf,       \* the tab each is made in
  LinkOf,      \* the grant whose link a tab is opened with, or NoGrant
  Grants,
  Trials,      \* grants opened by a trial; the others have a link
  Sessions,    \* sessions that may be minted
  GrantOf,
  MaxReloads,  \* reloads of all tabs together
  NoSession, NoGrant

ASSUME NobodyAssumption ==
  /\ NoSession \notin Sessions /\ NoGrant \notin Grants
  /\ Sessions \cap {"conflict", "refused", "broken", "none"} = {}
ASSUME OwnersAssumption ==
  /\ TabOf \in [Fetches -> Tabs]
  /\ GrantOf \in [Sessions -> Grants]
  /\ Trials \subseteq Grants
  /\ LinkOf \in [Tabs -> (Grants \ Trials) \cup {NoGrant}]
  /\ Tabs \cap Fetches = {}
ASSUME ReloadsAssumption == MaxReloads \in Nat

VARIABLES
  row, rotatedTo, stale,  \* the session store, as in SessionRows
  minted,      \* sessions whose pair was sent; a row not yet there is uncommitted
  spent,       \* grants whose one session has been opened
  aged,        \* sessions whose access token has expired
  cookie,      \* the refresh cookie, shared by the tabs
  ghosts,      \* calls under way whose page has gone
  status,      \* SessionStatus of each tab, "closed" before it is opened
  link,        \* the claim in the tab's address
  bearer,      \* accessTokenRef
  dropped,     \* tabs whose opening was cancelled before its call was answered
  call,        \* the call to authService each tab or fetch has under way
  fetch,       \* where each authFetch is
  reloads,
  trouble      \* history: has something gone wrong outside the client's code (the
               \* network, a reload, a pair used before its row was committed),
               \* and was a pair lost by it?

storeVars == <<row, rotatedTo, stale, minted, spent, aged>>
pageVars  == <<status, link, bearer, dropped>>
vars == <<storeVars, cookie, ghosts, pageVars, call, fetch, reloads, trouble>>

Store == INSTANCE SessionRows WITH revoked <- [g \in Grants |-> FALSE]

Callers  == Tabs \cup Fetches
FetchesOf(t) == {f \in Fetches : TabOf[f] = t}

Outcomes == Sessions \cup {"conflict", "refused", "broken"}
Calls ==
  [kind : {"none", "claim", "trial", "resume", "refresh", "again"},
   at : {"idle", "out", "back"},
   link : Grants \cup {NoGrant},
   with : Sessions \cup {NoSession},
   answer : Outcomes \cup {"none"}]
Quiet == [kind |-> "none", at |-> "idle", link |-> NoGrant, with |-> NoSession,
          answer |-> "none"]
Unsent == [at |-> "unsent", token |-> NoSession, tries |-> 0, answer |-> "none"]
Done   == [Unsent EXCEPT !.at = "done"]

TypeOK ==
  /\ row \in [Sessions -> {"none", "live", "rotated", "cut"}]
  /\ rotatedTo \in [Sessions -> Sessions \cup {NoSession}]
  /\ stale \in SUBSET Sessions
  /\ minted \in SUBSET Sessions
  /\ spent \in SUBSET Grants
  /\ aged \in SUBSET minted
  /\ cookie \in minted \cup {NoSession}
  /\ ghosts \in SUBSET Calls
  /\ status \in [Tabs -> {"closed", "loading", "ready", "spent", "error", "none"}]
  /\ link \in [Tabs -> (Grants \ Trials) \cup {NoGrant}]
  /\ bearer \in [Tabs -> minted \cup {NoSession}]
  /\ dropped \in SUBSET Tabs
  /\ call \in [Callers -> Calls]
  /\ fetch \in [Fetches ->
       [at : {"unsent", "out", "back", "waiting", "done"},
        token : minted \cup {NoSession},
        tries : 0..2,
        answer : {"none", "ok", "unauthorized", "broken"}]]
  /\ reloads \in 0..MaxReloads
  /\ trouble \in SUBSET {"outside", "lost pair"}

Init ==
  /\ row = [s \in Sessions |-> "none"]
  /\ rotatedTo = [s \in Sessions |-> NoSession]
  /\ stale = {} /\ minted = {} /\ spent = {} /\ aged = {}
  /\ cookie = NoSession
  /\ ghosts = {}
  /\ status = [t \in Tabs |-> "closed"]
  /\ link = LinkOf
  /\ bearer = [t \in Tabs |-> NoSession]
  /\ dropped = {}
  /\ call = [c \in Callers |-> Quiet]
  /\ fetch = [f \in Fetches |-> Unsent]
  /\ reloads = 0
  /\ trouble = {}

-----------------------------------------------------------------------------
(* The server.                                                             *)

\* A session the store does not have yet, though its pair has been sent.
Uncommitted == {s \in minted : row[s] = "none"}
Hurried(s)  == IF s \in Uncommitted THEN {"outside"} ELSE {}

\* A new session of g.  Ids nobody has used are interchangeable: any will do.
\* Running out of Sessions bounds the model.
New(g, s) ==
  LET fresh == {n \in Sessions \ minted : GrantOf[n] = g}
  IN  fresh # {} /\ s = CHOOSE n \in fresh : TRUE

\* Mutant: the pair is sent and its session never added.
OpensUnrecorded(g, a) ==
  /\ g \notin spent
  /\ New(g, a)
  /\ spent' = spent \cup {g}
  /\ UNCHANGED <<row, rotatedTo, stale, minted, aged>>

\* A pair for a grant that has had none.  The row is committed after the answer
\* is sent (db.py), or not at all.
Opens(g, a) ==
  /\ g \notin spent
  /\ New(g, a)
  /\ spent' = spent \cup {g}
  /\ minted' = minted \cup {a}
  /\ UNCHANGED <<row, rotatedTo, stale, aged>>

Claims(k, a) ==
  /\ k.kind = "claim"
  /\ \/ Opens(k.link, a)
     \/ k.link \in spent /\ a = "conflict" /\ UNCHANGED storeVars

\* The trial's own rules are TrialReservation's: any of them may refuse.
Tries(k, a) ==
  /\ k.kind = "trial"
  /\ \/ \E g \in Trials : Opens(g, a)
     \/ a = "refused" /\ UNCHANGED storeVars

\* What rotate does with a refresh token, and what it says.
Rotates(k, a) ==
  /\ k.kind \in {"resume", "refresh", "again"}
  /\ \/ /\ k.with \in Sessions /\ row[k.with] = "live"
        /\ New(GrantOf[k.with], a)
        /\ Store!Rotate(k.with, a)
        /\ minted' = minted \cup {a}
        /\ UNCHANGED <<spent, aged>>
     \/ /\ k.with \in Sessions /\ row[k.with] = "rotated" /\ k.with \notin stale
        /\ a = "conflict"
        /\ UNCHANGED storeVars
     \/ /\ k.with \in Sessions /\ row[k.with] = "rotated" /\ k.with \in stale
        /\ a = "refused"
        /\ Store!Cut(GrantOf[k.with], Store!Live(GrantOf[k.with]))
        /\ UNCHANGED <<minted, spent, aged>>
     \/ /\ k.with \in Sessions => row[k.with] \in {"none", "cut"}
        /\ a = "refused"
        /\ UNCHANGED storeVars

\* A call is answered with `a`, and the store does what that says.
Served(k, a) == Claims(k, a) \/ Tries(k, a) \/ Rotates(k, a)

\* db.transaction commits the row of a claim or a trial.
Commit(s) ==
  /\ s \in Uncommitted
  /\ Store!Open(s)
  /\ UNCHANGED <<minted, spent, aged, cookie, ghosts, pageVars, call, fetch, reloads, trouble>>

-----------------------------------------------------------------------------
(* Calls to authService on their way.                                      *)

Send(kind, g, with) ==
  [kind |-> kind, at |-> "out", link |-> g, with |-> with, answer |-> "none"]

\* What it presented matters no more.
Answer(c, a) ==
  call' = [call EXCEPT ![c].at = "back", ![c].with = NoSession, ![c].answer = a]

Serve(c) ==
  /\ call[c].at = "out"
  /\ \E a \in Outcomes : Served(call[c], a) /\ Answer(c, a)
  /\ trouble' = trouble \cup Hurried(call[c].with)
  /\ UNCHANGED <<cookie, ghosts, pageVars, fetch, reloads>>

\* fetch rejects: the call never reached the server, or its pair is lost on the
\* way back.  A refusal that is lost is to the page like a call that was.
Break(c) ==
  /\ call[c].at = "out" \/ call[c].answer \in Sessions
  /\ Answer(c, "broken")
  /\ trouble' = trouble \cup {"outside"}
       \cup (IF call[c].answer \in Sessions THEN {"lost pair"} ELSE {})
  /\ UNCHANGED <<storeVars, cookie, ghosts, pageVars, fetch, reloads>>

\* Mutant: a call without `credentials: "include"`, so no cookie is kept.
TakePairOnly(c, t) ==
  /\ bearer' = [bearer EXCEPT ![t] = call[c].answer]
  /\ UNCHANGED cookie

\* apply, and the Set-Cookie that came with the pair.
TakePair(c, t) ==
  /\ bearer' = [bearer EXCEPT ![t] = call[c].answer]
  /\ cookie' = call[c].answer

-----------------------------------------------------------------------------
(* Opening a session: the effect that runs once, and startTrial.           *)

Opening(t, jar) == IF link[t] # NoGrant THEN Send("claim", link[t], NoSession)
                   ELSE Send("resume", NoGrant, jar)

OpenPage(t) ==
  /\ status[t] = "closed"
  /\ status' = [status EXCEPT ![t] = "loading"]
  /\ call' = [call EXCEPT ![t] = Opening(t, cookie)]
  /\ UNCHANGED <<storeVars, cookie, ghosts, link, bearer, dropped, fetch, reloads, trouble>>

StartTrial(t) ==
  /\ status[t] = "none"
  /\ status' = [status EXCEPT ![t] = "loading"]
  /\ call' = [call EXCEPT ![t] = Send("trial", NoGrant, NoSession)]
  /\ UNCHANGED <<storeVars, cookie, ghosts, link, bearer, dropped, fetch, reloads, trouble>>

Opened(t) ==
  /\ call[t].at = "back" /\ call[t].answer \in Sessions
  /\ TakePair(t, t)
  /\ status' = [status EXCEPT ![t] = "ready"]
  /\ link' = [link EXCEPT ![t] = NoGrant]
  /\ call' = [call EXCEPT ![t] = Quiet]
  /\ UNCHANGED <<storeVars, ghosts, dropped, fetch, reloads, trouble>>

NotOpened(t) ==
  /\ call[t].at = "back" /\ call[t].answer \notin Sessions
  /\ status' = [status EXCEPT ![t] =
       IF call[t].answer = "conflict" THEN "spent"
       ELSE IF call[t].kind = "claim" THEN "error" ELSE "none"]
  /\ link' = [link EXCEPT ![t] = NoGrant]
  /\ call' = [call EXCEPT ![t] = Quiet]
  /\ UNCHANGED <<storeVars, cookie, ghosts, bearer, dropped, fetch, reloads, trouble>>

\* The opening effect was cleaned up while its call was under way: the claim it was
\* given has changed (the embed's attribute), or React ran it twice (StrictMode).  Its
\* second run returned at once, opened.current being set, and the first finds
\* `cancelled` now: the browser keeps the cookie, and the page nothing.
AnswerDropped(t) ==
  /\ call[t].at = "back" /\ call[t].kind \in {"claim", "resume"}
  /\ dropped' = dropped \cup {t}
  /\ cookie' = IF call[t].answer \in Sessions THEN call[t].answer ELSE cookie
  /\ call' = [call EXCEPT ![t] = Quiet]
  /\ UNCHANGED <<storeVars, ghosts, status, link, bearer, fetch, reloads, trouble>>

-----------------------------------------------------------------------------
(* authFetch, and the refresh its tab has at most one of.                  *)

FetchSent(f) ==
  /\ fetch[f].at = "unsent"
  /\ bearer[TabOf[f]] # NoSession
  /\ fetch' = [fetch EXCEPT ![f].at = "out", ![f].token = bearer[TabOf[f]], ![f].tries = 1]
  /\ UNCHANGED <<storeVars, cookie, ghosts, pageVars, call, reloads, trouble>>

\* _authenticate: an access token is as good as its session, until it expires.
ServeFetch(f) ==
  LET s == fetch[f].token
  IN  /\ fetch[f].at = "out"
      /\ fetch' = [fetch EXCEPT ![f].at = "back", ![f].token = NoSession, ![f].answer =
           IF row[s] = "live" /\ s \notin aged THEN "ok" ELSE "unauthorized"]
      /\ trouble' = trouble \cup Hurried(s)
      /\ UNCHANGED <<storeVars, cookie, ghosts, pageVars, call, reloads>>

FetchBreaks(f) ==
  /\ fetch[f].at = "out"
  /\ fetch' = [fetch EXCEPT ![f].at = "back", ![f].token = NoSession, ![f].answer = "broken"]
  /\ trouble' = trouble \cup {"outside"}
  /\ UNCHANGED <<storeVars, cookie, ghosts, pageVars, call, reloads>>

\* An answer that is not a first 401.  A second send that fails is caught like a
\* refresh that does.
FetchReturns(f) ==
  /\ fetch[f].at = "back"
  /\ fetch[f].answer # "unauthorized" \/ fetch[f].tries = 2
  /\ fetch' = [fetch EXCEPT ![f] = Done]
  /\ status' = IF fetch[f].answer = "broken" /\ fetch[f].tries = 2
               THEN [status EXCEPT ![TabOf[f]] = "spent"] ELSE status
  /\ UNCHANGED <<storeVars, cookie, ghosts, link, bearer, dropped, call, reloads, trouble>>

InFlight(t) == {f \in FetchesOf(t) : call[f].at # "idle"}

\* Mutant: every 401 starts a refresh of its own.
RefreshRacing(f) ==
  /\ fetch[f].at = "back"
  /\ fetch[f].answer = "unauthorized" /\ fetch[f].tries = 1
  /\ fetch' = [fetch EXCEPT ![f].at = "waiting"]
  /\ call' = [call EXCEPT ![f] = Send("refresh", NoGrant, cookie)]
  /\ UNCHANGED <<storeVars, cookie, ghosts, pageVars, reloads, trouble>>

\* refresh, shared by the 401s that arrive while it is under way.
Refresh(f) ==
  /\ fetch[f].at = "back"
  /\ fetch[f].answer = "unauthorized" /\ fetch[f].tries = 1
  /\ fetch' = [fetch EXCEPT ![f].at = "waiting"]
  /\ call' = IF InFlight(TabOf[f]) = {}
             THEN [call EXCEPT ![f] = Send("refresh", NoGrant, cookie)] ELSE call
  /\ UNCHANGED <<storeVars, cookie, ghosts, pageVars, reloads, trouble>>

RefreshAgain(f) ==
  /\ call[f].at = "back" /\ call[f].kind = "refresh" /\ call[f].answer = "conflict"
  /\ call' = [call EXCEPT ![f] = Send("again", NoGrant, cookie)]
  /\ UNCHANGED <<storeVars, cookie, ghosts, pageVars, fetch, reloads, trouble>>

Waiting(t) == {f \in FetchesOf(t) : fetch[f].at = "waiting"}

\* Mutant: the route answers with the pair and does not set its cookie.
RefreshedCookieless(f) ==
  LET t == TabOf[f]
  IN  /\ call[f].at = "back" /\ call[f].answer \in Sessions
      /\ TakePairOnly(f, t)
      /\ call' = [call EXCEPT ![f] = Quiet]
      /\ fetch' = [h \in Fetches |-> IF h \notin Waiting(t) THEN fetch[h]
           ELSE [at |-> "out", token |-> call[f].answer, tries |-> 2, answer |-> "none"]]
      /\ UNCHANGED <<storeVars, ghosts, status, link, dropped, reloads, trouble>>

Refreshed(f) ==
  LET t == TabOf[f]
  IN  /\ call[f].at = "back" /\ call[f].answer \in Sessions
      /\ TakePair(f, t)
      /\ call' = [call EXCEPT ![f] = Quiet]
      /\ fetch' = [h \in Fetches |-> IF h \notin Waiting(t) THEN fetch[h]
           ELSE [at |-> "out", token |-> call[f].answer, tries |-> 2, answer |-> "none"]]
      /\ UNCHANGED <<storeVars, ghosts, status, link, dropped, reloads, trouble>>

FinallyRefused(f) ==
  /\ call[f].at = "back"
  /\ \/ call[f].answer \in {"refused", "broken"}
     \/ call[f].kind = "again" /\ call[f].answer = "conflict"

\* Mutant: the failure reaches the fetch that asked, and nobody who shared it.
NotRefreshedAlone(f) ==
  /\ FinallyRefused(f)
  /\ call' = [call EXCEPT ![f] = Quiet]
  /\ fetch' = [fetch EXCEPT ![f] = Done]
  /\ status' = [status EXCEPT ![TabOf[f]] = "spent"]
  /\ UNCHANGED <<storeVars, cookie, ghosts, link, bearer, dropped, reloads, trouble>>

\* Everybody who shared it returns its 401.
NotRefreshed(f) ==
  /\ FinallyRefused(f)
  /\ call' = [call EXCEPT ![f] = Quiet]
  /\ fetch' = [h \in Fetches |-> IF h \in Waiting(TabOf[f])
                                 THEN Done ELSE fetch[h]]
  /\ status' = [status EXCEPT ![TabOf[f]] = "spent"]
  /\ UNCHANGED <<storeVars, cookie, ghosts, link, bearer, dropped, reloads, trouble>>

-----------------------------------------------------------------------------
(* A page that goes, and the clock.                                        *)

CallsOf(t)  == {call[c] : c \in {t} \cup FetchesOf(t)}
OutOf(t)    == {k \in CallsOf(t) : k.at = "out"}
PairsOf(t)  == {k.answer : k \in CallsOf(t)} \cap Sessions

\* A reload.  A call that is out may still reach the server, and a cookie that
\* is on its way may still be kept.
Reload(t) ==
  /\ status[t] # "closed"
  /\ reloads < MaxReloads
  /\ reloads' = reloads + 1
  /\ \E reached \in SUBSET OutOf(t) : ghosts' = ghosts \cup reached
  /\ \E kept \in PairsOf(t) \cup {cookie} :
       /\ cookie' = kept
       /\ trouble' = trouble \cup {"outside"}
            \cup (IF PairsOf(t) \subseteq {kept} THEN {} ELSE {"lost pair"})
       /\ call' = [c \in Callers |-> IF c = t THEN Opening(t, kept)
                      ELSE IF c \in FetchesOf(t) THEN Quiet ELSE call[c]]
  /\ status' = [status EXCEPT ![t] = "loading"]
  /\ bearer' = [bearer EXCEPT ![t] = NoSession]
  /\ dropped' = dropped \ {t}
  /\ fetch' = [f \in Fetches |->
       IF f \in FetchesOf(t) /\ fetch[f].at # "unsent"
       THEN Done ELSE fetch[f]]
  /\ UNCHANGED <<storeVars, link>>

ServeGhost(k) ==
  /\ k \in ghosts
  /\ ghosts' = ghosts \ {k}
  /\ \E a \in Outcomes :
       /\ Served(k, a)
       /\ \E kept \in {a, cookie} \cap (Sessions \cup {cookie}) :
            /\ cookie' = kept
            /\ trouble' = trouble \cup Hurried(k.with)
                 \cup (IF a \in Sessions /\ kept # a THEN {"lost pair"} ELSE {})
  /\ UNCHANGED <<pageVars, call, fetch, reloads>>

\* The grace window is longer than a call takes: it ends for a session once no
\* call presents it and its successor's pair has been taken or lost.
GraceEnds(s) ==
  /\ s \notin stale
  /\ Store!GraceEnds(s)
  /\ \A k \in ghosts \cup {call[c] : c \in Callers} :
       k.at # "idle" => k.with # s /\ k.answer # rotatedTo[s]
  /\ UNCHANGED <<minted, spent, aged, cookie, ghosts, pageVars, call, fetch, reloads, trouble>>

\* access_token_ttl passes.  The token of a session that is not live is worth
\* nothing whatever its age.
TokenExpires(s) ==
  /\ row[s] = "live" /\ s \notin aged
  /\ aged' = aged \cup {s}
  /\ UNCHANGED <<row, rotatedTo, stale, minted, spent, cookie, ghosts, pageVars, call,
                 fetch, reloads, trouble>>

Next ==
  \/ \E c \in Callers : Serve(c) \/ Break(c)
  \/ \E t \in Tabs : \/ OpenPage(t) \/ StartTrial(t) \/ Opened(t) \/ NotOpened(t)
                     \/ AnswerDropped(t) \/ Reload(t)
  \/ \E f \in Fetches : \/ FetchSent(f) \/ ServeFetch(f) \/ FetchBreaks(f) \/ FetchReturns(f)
                        \/ Refresh(f) \/ RefreshAgain(f) \/ Refreshed(f) \/ NotRefreshed(f)
  \/ \E k \in ghosts : ServeGhost(k)
  \/ \E s \in Sessions : Commit(s) \/ GraceEnds(s) \/ TokenExpires(s)

Spec == Init /\ [][Next]_vars

-----------------------------------------------------------------------------
(* What the hook promises.                                                 *)

Resting == /\ ghosts = {} /\ \A c \in Callers : call[c].at = "idle"
           /\ Uncommitted = {}

\* However the tabs' refreshes, claims and trials interleave, once nothing is
\* under way the cookie names a live session, unless an answer was lost with the
\* pair it carried: no tab puts an older cookie over a newer one
\* (useSession.ts:125-127, auth.service.ts:36-43).
JarGoodAtRest ==
  Resting /\ "lost pair" \notin trouble /\ cookie # NoSession => row[cookie] = "live"

\* Tabs that race each other, and pages reloaded with a refresh under way, never
\* get their grant cut: that takes an answer that was lost (useSession.ts:125-127,
\* base.py:264-269).
OnlyLostAnswersCut == (\E s \in Sessions : row[s] = "cut") => "lost pair" \in trouble

\* A tab alone in its browser is not told that its session is over while
\* nothing has gone wrong outside it, however many of its calls are answered
\* 401 and in whatever order (useSession.ts:125-135).
LoneTabStaysIn ==
  \A t \in Tabs :
    trouble = {} /\ (\A u \in Tabs \ {t} : status[u] = "closed")
      => status[t] # "spent"

\* A fetch that shares a refresh is waiting for one that is under way, whoever began
\* it, however often that one was refused and whatever was reloaded.  A tab that shows
\* the typing dots is waiting for its own call, unless its opening was cleaned up under
\* it: that tab drops its answer and waits until it is reloaded, because opened.current
\* stops the effect that ran in its place (useSession.ts:205-214, 228, 259-261).
NobodyLeftWaiting ==
  /\ \A f \in Fetches : fetch[f].at = "waiting" => InFlight(TabOf[f]) # {}
  /\ \A t \in Tabs : status[t] = "loading" /\ t \notin dropped => call[t].at # "idle"

\* useSession.ts:148-149: "409 means another tab rotated first. That tab has
\* already written the successor to the shared cookie jar, so one retry picks it
\* up."  So the retry is not answered 409 too, while nothing else goes wrong.
RetryPicksItUp ==
  \A f \in Fetches : call[f].kind = "again" /\ trouble = {} => call[f].answer # "conflict"
=============================================================================
