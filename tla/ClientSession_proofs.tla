------------------------- MODULE ClientSession_proofs -------------------------
(***************************************************************************)
(* What useSession promises the tabs of one browser, proved for any tabs,  *)
(* calls, grants, sessions and reloads.                                    *)
(***************************************************************************)
EXTENDS ClientSession, TLAPS

-----------------------------------------------------------------------------
(* The inductive invariant, in parts.                                      *)

\* The type invariant, a part of the system at a time.
StoreTyped ==
  /\ row \in [Sessions -> {"none", "live", "rotated", "cut"}]
  /\ rotatedTo \in [Sessions -> Sessions \cup {NoSession}]
  /\ stale \in SUBSET Sessions
  /\ minted \in SUBSET Sessions
  /\ spent \in SUBSET Grants
  /\ aged \in SUBSET minted

CallTyped == ghosts \in SUBSET Calls /\ call \in [Callers -> Calls]

FetchStates ==
  [at : {"unsent", "out", "back", "waiting", "done"},
   token : minted \cup {NoSession},
   tries : 0..2,
   answer : {"none", "ok", "unauthorized", "broken"}]
FetchTyped == fetch \in [Fetches -> FetchStates]

PageTyped  ==
  /\ cookie \in minted \cup {NoSession}
  /\ status \in [Tabs -> {"closed", "loading", "ready", "spent", "error", "none"}]
  /\ link \in [Tabs -> (Grants \ Trials) \cup {NoGrant}]
  /\ bearer \in [Tabs -> minted \cup {NoSession}]
  /\ dropped \in SUBSET Tabs
  /\ reloads \in 0..MaxReloads
  /\ trouble \in SUBSET {"outside", "lost pair"}

\* What the store knows was minted, and a rotated session has a successor.
RowsOK ==
  /\ \A s \in Sessions : row[s] # "none" => s \in minted
  /\ \A s \in Sessions : row[s] = "rotated" => rotatedTo[s] \in minted
  /\ \A s \in stale : row[s] = "rotated"

StoreOK == StoreTyped /\ RowsOK

\* A call holds what its stage has given it: nothing while it is idle, no
\* answer while it is out, and never a session that was not minted.
CallOK(k) ==
  /\ k.at = "idle" => k = Quiet
  /\ k.at = "out" => k.answer = "none"
  /\ k.kind = "claim" => k.link \in Grants
  /\ k.answer \in Sessions => k.answer \in minted
  /\ k.with \in Sessions => k.with \in minted

CallsOK ==
  /\ CallTyped
  /\ \A k \in ghosts : CallOK(k) /\ k.at = "out"
  /\ \A c \in Callers : CallOK(call[c])

\* A tab loads while it has a call of its own under way, and for good once that
\* call's answer was dropped; only one that has had a session fetches; and those
\* that wait share one refresh, which is under way.
TabsOK ==
  /\ \A t \in Tabs : call[t].at # "idle" => status[t] = "loading"
  /\ \A t \in Tabs : status[t] = "loading" /\ t \notin dropped => call[t].at # "idle"
  /\ \A t \in Tabs : bearer[t] # NoSession =>
       status[t] \in {"ready", "spent"} /\ cookie # NoSession
  /\ \A f \in Fetches : fetch[f].at \notin {"unsent", "done"} => bearer[TabOf[f]] # NoSession
  /\ \A f \in Fetches : call[f].at # "idle" => fetch[f].at = "waiting"
  /\ \A f \in Fetches : fetch[f].at = "waiting" =>
       \E g \in Fetches : TabOf[g] = TabOf[f] /\ call[g].at # "idle"
  /\ \A f, g \in Fetches :
       TabOf[f] = TabOf[g] /\ call[f].at # "idle" /\ call[g].at # "idle" => f = g

\* Unless a pair was lost, the cookie's session is live or its successor is in
\* some page's hands, which nobody has presented yet; a session whose grace is
\* over is in nobody's.
UnderWay == ghosts \cup {call[c] : c \in Callers}

Jar ==
  /\ \A s \in Sessions : row[s] # "cut"
  /\ cookie \in Sessions /\ row[cookie] = "rotated" =>
       \E c \in Callers : call[c].answer = rotatedTo[cookie]
  /\ \A c, d \in Callers :
       call[c].answer \in Sessions /\ call[c].answer = call[d].answer => c = d
  /\ \A c \in Callers : call[c].answer \in Sessions =>
       /\ cookie # call[c].answer
       /\ row[call[c].answer] \in {"none", "live"}
       /\ \A k \in UnderWay : k.with # call[c].answer
  /\ \A s \in stale : cookie # s /\ \A k \in UnderWay : k.with # s

JarOK == "lost pair" \notin trouble => Jar

IInv == /\ StoreOK /\ CallsOK /\ FetchTyped /\ PageTyped
        /\ TabsOK /\ JarOK

\* Whatever broke has left its mark.
BreaksShow ==
  /\ \A c \in Callers : call[c].answer = "broken" => trouble # {}
  /\ \A f \in Fetches : fetch[f].answer = "broken" => trouble # {}

Alone(t) == trouble = {} /\ \A u \in Tabs \ {t} : status[u] = "closed"

\* A tab that is alone is answered with a session whenever it asks for one: its
\* link has not been used, and each refresh presents the cookie as it is.
AloneOK(t) ==
  /\ ghosts = {}
  /\ status[t] # "spent"
  /\ status[t] = "closed" => spent = {} /\ minted = {}
  /\ call[t].at = "out" => call[t].with = NoSession
  /\ call[t].at = "out" /\ call[t].kind = "claim" => spent = {}
  /\ call[t].at = "back" => call[t].answer # "conflict"
  /\ \A f \in Fetches :
       /\ call[f].at = "out" => call[f].kind = "refresh" /\ call[f].with = cookie
       /\ call[f].at = "back" => call[f].answer \in Sessions

LoneOK == \A t \in Tabs : Alone(t) => AloneOK(t)

-----------------------------------------------------------------------------
(* What the server does when it answers.                                   *)

\* The session of a grant that had none, a rotation, nothing, or a cut.
Begins(g, a) ==
  /\ a \in Sessions \ minted /\ g \in Grants
  /\ spent' = spent \cup {g} /\ minted' = minted \cup {a}
  /\ UNCHANGED <<row, rotatedTo, stale, aged>>
HandsOn(p, a) ==
  /\ p \in Sessions /\ row[p] = "live" /\ a \in Sessions \ minted
  /\ row' = [row EXCEPT ![p] = "rotated", ![a] = "live"]
  /\ rotatedTo' = [rotatedTo EXCEPT ![p] = a]
  /\ minted' = minted \cup {a}
  /\ UNCHANGED <<stale, spent, aged>>
SaysNo(a) == a \notin Sessions /\ UNCHANGED storeVars
Cuts(p, a) ==
  /\ p \in stale /\ a \notin Sessions
  /\ \E cut \in SUBSET Sessions :
       /\ \A s \in cut : row[s] = "live"
       /\ row' = [s \in Sessions |-> IF s \in cut THEN "cut" ELSE row[s]]
  /\ UNCHANGED <<rotatedTo, stale, minted, spent, aged>>

Does(k, a) ==
  \/ \E g \in Grants : Begins(g, a)
  \/ HandsOn(k.with, a) \/ SaysNo(a) \/ Cuts(k.with, a)

\* A grant's next session is one that was not minted.
LEMMA NewIsNew ==
  ASSUME NEW g, NEW s, New(g, s)
  PROVE  s \in Sessions \ minted /\ GrantOf[s] = g
<1> DEFINE fresh == {n \in Sessions \ minted : GrantOf[n] = g}
<1>1. fresh # {} /\ s = CHOOSE n \in fresh : TRUE
  BY DEF New
<1> HIDE DEF fresh
<1>2. s \in fresh
  BY <1>1
<1>3. QED
  BY <1>2 DEF fresh

\* An answer does one of those four things to the store.
LEMMA ServedDoes ==
  ASSUME NEW k \in Calls, CallOK(k), NEW a, Served(k, a)
  PROVE  Does(k, a)
<1> USE NobodyAssumption, OwnersAssumption DEF Does
<1>1. CASE Claims(k, a)
  BY <1>1, NewIsNew DEF Claims, Opens, CallOK, Begins, SaysNo
<1>2. CASE Tries(k, a)
  BY <1>2, NewIsNew DEF Tries, Opens, Begins, SaysNo
<1>3. CASE Rotates(k, a)
  <2>1. ASSUME k.with \in Sessions, row[k.with] = "live", New(GrantOf[k.with], a),
               Store!Rotate(k.with, a), minted' = minted \cup {a},
               UNCHANGED <<spent, aged>>
        PROVE  HandsOn(k.with, a)
    BY <2>1, NewIsNew DEF HandsOn, Store!Rotate
  <2>2. ASSUME k.with \in stale, a = "refused",
               Store!Cut(GrantOf[k.with], Store!Live(GrantOf[k.with])),
               UNCHANGED <<minted, spent, aged>>
        PROVE  Cuts(k.with, a)
    <3> DEFINE cut == Store!Live(GrantOf[k.with])
    <3>1. cut \in SUBSET Sessions /\ \A s \in cut : row[s] = "live"
      BY DEF Store!Live
    <3>2. /\ row' = [s \in Sessions |-> IF s \in cut THEN "cut" ELSE row[s]]
          /\ UNCHANGED <<rotatedTo, stale>>
      BY <2>2 DEF Store!Cut
    <3> HIDE DEF cut
    <3>3. QED
      BY <2>2, <3>1, <3>2 DEF Cuts
  <2>3. ASSUME a \in {"conflict", "refused"}, UNCHANGED storeVars PROVE SaysNo(a)
    BY <2>3 DEF SaysNo
  <2>4. QED
    BY <1>3, <2>1, <2>2, <2>3 DEF Rotates
<1>4. QED
  BY <1>1, <1>2, <1>3 DEF Served

\* What is answered keeps the store's types and order, whatever it was.
LEMMA DoesTyped ==
  ASSUME StoreTyped, RowsOK, NEW k \in Calls, NEW a \in Outcomes, Does(k, a)
  PROVE  StoreTyped' /\ RowsOK'
<1> USE DEF StoreTyped, RowsOK
<1>1. ASSUME NEW g \in Grants, Begins(g, a) PROVE StoreTyped' /\ RowsOK'
  BY <1>1 DEF Begins
<1>2. CASE HandsOn(k.with, a)
  BY <1>2 DEF HandsOn
<1>3. CASE SaysNo(a)
  BY <1>3 DEF SaysNo, storeVars
<1>4. CASE Cuts(k.with, a)
  <2>1. PICK cut \in SUBSET Sessions :
          /\ \A s \in cut : row[s] = "live"
          /\ row' = [s \in Sessions |-> IF s \in cut THEN "cut" ELSE row[s]]
    BY <1>4 DEF Cuts
  <2> HIDE DEF RowsOK
  <2>2. UNCHANGED <<rotatedTo, stale, minted, spent, aged>>
    BY <1>4 DEF Cuts
  <2>3. /\ \A s \in Sessions : row'[s] = IF s \in cut THEN "cut" ELSE row[s]
        /\ DOMAIN row' = Sessions
    BY <2>1
  <2>4. row' \in [Sessions -> {"none", "live", "rotated", "cut"}]
    BY <2>1
  <2>5. QED
    BY <2>1, <2>2, <2>3, <2>4 DEF RowsOK
<1>5. QED
  BY <1>1, <1>2, <1>3, <1>4 DEF Does

\* Nothing is minted twice, and what is minted stays so.
LEMMA DoesMint ==
  ASSUME NEW k, NEW a, Does(k, a)
  PROVE  /\ minted \subseteq minted'
         /\ a \in Sessions => a \notin minted /\ a \in minted'
BY DEF Does, Begins, HandsOn, SaysNo, Cuts, storeVars

-----------------------------------------------------------------------------
(* The records that calls and fetches are.                                 *)

\* These are the parts of the type invariant.
LEMMA TypeParts == TypeOK <=> StoreTyped /\ CallTyped /\ FetchTyped /\ PageTyped
BY DEF TypeOK, StoreTyped, CallTyped, FetchTyped, FetchStates, PageTyped

\* A call that is sent is a call.
LEMMA SendIsCall ==
  ASSUME NEW kind \in {"claim", "trial", "resume", "refresh", "again"},
         NEW g \in Grants \cup {NoGrant}, NEW with \in Sessions \cup {NoSession}
  PROVE  /\ Send(kind, g, with) \in Calls
         /\ Send(kind, g, with).kind = kind /\ Send(kind, g, with).at = "out"
         /\ Send(kind, g, with).link = g /\ Send(kind, g, with).with = with
         /\ Send(kind, g, with).answer = "none"
BY DEF Send, Calls

\* A caller that is quiet has no call at all.
LEMMA QuietIsCall ==
  /\ Quiet \in Calls
  /\ Quiet.at = "idle" /\ Quiet.kind = "none" /\ Quiet.with = NoSession
  /\ Quiet.answer = "none" /\ Quiet.link = NoGrant
BY DEF Quiet, Calls

\* An answer changes the call it answers, and no other.
LEMMA AnswerIsCall ==
  ASSUME CallTyped, NEW c \in Callers, NEW a \in Outcomes, Answer(c, a)
  PROVE  /\ call' \in [Callers -> Calls]
         /\ call'[c].kind = call[c].kind /\ call'[c].at = "back"
         /\ call'[c].link = call[c].link /\ call'[c].with = NoSession
         /\ call'[c].answer = a
         /\ \A d \in Callers \ {c} : call'[d] = call[d]
<1>1. call[c] \in Calls /\ call \in [Callers -> Calls]
  BY DEF CallTyped
<1>2. /\ DOMAIN call' = Callers
      /\ \A d \in Callers \ {c} : call'[d] = call[d]
  BY <1>1 DEF Answer
<1>3. call'[c] = [[[call[c] EXCEPT !.at = "back"] EXCEPT !.with = NoSession] EXCEPT !.answer = a]
  BY <1>1 DEF Answer
<1>4. /\ call'[c] \in Calls
      /\ call'[c].kind = call[c].kind /\ call'[c].at = "back"
      /\ call'[c].link = call[c].link /\ call'[c].with = NoSession
      /\ call'[c].answer = a
  BY <1>1, <1>3 DEF Calls
<1>5. call' \in [Callers -> Calls]
  BY <1>1, <1>2, <1>4 DEF Answer
<1>6. QED
  BY <1>2, <1>4, <1>5

\* A page opens with its link, or with the cookie.
LEMMA OpeningIsCall ==
  ASSUME PageTyped, StoreTyped, NEW t \in Tabs, NEW jar \in Sessions \cup {NoSession}
  PROVE  /\ Opening(t, jar) \in Calls /\ Opening(t, jar).at = "out"
         /\ Opening(t, jar).answer = "none"
         /\ Opening(t, jar).kind \in {"claim", "resume"}
         /\ Opening(t, jar).kind = "claim" =>
              Opening(t, jar).link \in Grants /\ Opening(t, jar).with = NoSession
         /\ Opening(t, jar).kind = "resume" => Opening(t, jar).with = jar
<1>1. link[t] \in Grants \cup {NoGrant} /\ NoSession \in Sessions \cup {NoSession}
  BY DEF PageTyped
<1>2. CASE link[t] # NoGrant
  BY <1>1, <1>2, SendIsCall DEF Opening
<1>3. CASE link[t] = NoGrant
  BY <1>1, <1>3, SendIsCall DEF Opening
<1>4. QED
  BY <1>2, <1>3

\* Every call is sent with what a call may hold.
LEMMA NewCallsOK ==
  ASSUME StoreTyped, NEW jar \in minted \cup {NoSession}
  PROVE  /\ jar \in Sessions \cup {NoSession}
         /\ Send("trial", NoGrant, NoSession) \in Calls
         /\ CallOK(Send("trial", NoGrant, NoSession))
         /\ Send("refresh", NoGrant, jar) \in Calls /\ CallOK(Send("refresh", NoGrant, jar))
         /\ Send("again", NoGrant, jar) \in Calls /\ CallOK(Send("again", NoGrant, jar))
         /\ Quiet \in Calls /\ CallOK(Quiet)
         /\ PageTyped => \A t \in Tabs : Opening(t, jar) \in Calls /\ CallOK(Opening(t, jar))
<1> USE NobodyAssumption
<1>1. jar \in Sessions \cup {NoSession}
  BY DEF StoreTyped
<1>2. /\ Send("trial", NoGrant, NoSession) \in Calls
      /\ CallOK(Send("trial", NoGrant, NoSession))
  BY SendIsCall DEF CallOK
<1>3. Send("refresh", NoGrant, jar) \in Calls /\ CallOK(Send("refresh", NoGrant, jar))
  BY <1>1, SendIsCall DEF CallOK
<1>4. Send("again", NoGrant, jar) \in Calls /\ CallOK(Send("again", NoGrant, jar))
  BY <1>1, SendIsCall DEF CallOK
<1>5. Quiet \in Calls /\ CallOK(Quiet)
  BY QuietIsCall DEF CallOK
<1>6. PageTyped => \A t \in Tabs : Opening(t, jar) \in Calls /\ CallOK(Opening(t, jar))
  BY <1>1, OpeningIsCall DEF CallOK
<1>7. QED
  BY <1>1, <1>2, <1>3, <1>4, <1>5, <1>6

\* So are the calls of a tab, and the pairs they carry were minted.
LEMMA TabsCalls ==
  ASSUME CallsOK, NEW t \in Tabs, NEW k \in CallsOf(t)
  PROVE  /\ k \in Calls /\ CallOK(k) /\ k \in UnderWay
         /\ k.answer \in Sessions => k.answer \in minted
<1>1. PICK c \in {t} \cup FetchesOf(t) : k = call[c]
  BY DEF CallsOf
<1>2. c \in Callers
  BY <1>1 DEF FetchesOf, Callers
<1>3. k \in Calls /\ CallOK(k) /\ k \in UnderWay
  BY <1>1, <1>2 DEF CallsOK, CallTyped, UnderWay
<1>4. QED
  BY <1>3 DEF CallOK

\* Nor does a tab carry a pair that was not.
LEMMA TabsPairs ==
  ASSUME CallsOK, NEW t \in Tabs
  PROVE  PairsOf(t) \subseteq minted
<1> SUFFICES ASSUME NEW a \in PairsOf(t) PROVE a \in minted
  OBVIOUS
<1>1. PICK k \in CallsOf(t) : k.answer = a /\ a \in Sessions
  BY DEF PairsOf
<1>2. QED
  BY <1>1, TabsCalls

\* A finished fetch holds nothing.
LEMMA DoneIsState ==
  /\ Done \in FetchStates
  /\ Done.at = "done" /\ Done.token = NoSession /\ Done.answer = "none"
BY DEF Done, Unsent, FetchStates

\* More minted sessions are more that a fetch may carry.
LEMMA FetchGrows ==
  ASSUME FetchTyped, fetch' = fetch, minted \subseteq minted'
  PROVE  FetchTyped'
<1>1. FetchStates \subseteq FetchStates'
  BY DEF FetchStates
<1>2. QED
  BY <1>1 DEF FetchTyped

\* No answer takes back what was minted.
LEMMA Grows ==
  ASSUME CallsOK,
         (\E c \in Callers : Serve(c)) \/ (\E k \in ghosts : ServeGhost(k))
  PROVE  minted \subseteq minted'
<1>1. ASSUME NEW c \in Callers, Serve(c) PROVE minted \subseteq minted'
  BY <1>1, ServedDoes, DoesMint DEF Serve, CallsOK, CallTyped
<1>2. ASSUME NEW k \in ghosts, ServeGhost(k) PROVE minted \subseteq minted'
  BY <1>2, ServedDoes, DoesMint DEF ServeGhost, CallsOK, CallTyped
<1>3. QED
  BY <1>1, <1>2

\* What each variable is a function of.
Shape ==
  /\ call \in [Callers -> Calls] /\ fetch \in [Fetches -> FetchStates]
  /\ status \in [Tabs -> {"closed", "loading", "ready", "spent", "error", "none"}]
  /\ bearer \in [Tabs -> minted \cup {NoSession}]
  /\ TabOf \in [Fetches -> Tabs] /\ Callers = Tabs \cup Fetches /\ Tabs \cap Fetches = {}

\* They are so wherever the invariant holds.
LEMMA ShapeHolds == IInv => Shape
BY OwnersAssumption DEF IInv, CallsOK, CallTyped, FetchTyped, PageTyped, Shape, Callers

\* A page opens with a call.
LEMMA OpeningIsOut == \A t, jar : Opening(t, jar).at = "out"
BY DEF Opening, Send

-----------------------------------------------------------------------------
(* The jar.                                                                *)

\* What is presented, in the jar or in a page's hands was minted.
Held ==
  /\ NoSession \notin Sessions
  /\ minted \subseteq Sessions /\ cookie \in minted \cup {NoSession}
  /\ \A k \in UnderWay : k.with \in minted \cup {NoSession}
  /\ \A c \in Callers : call[c].answer \in Sessions => call[c].answer \in minted
  /\ row \in [Sessions -> {"none", "live", "rotated", "cut"}]
  /\ rotatedTo \in [Sessions -> Sessions \cup {NoSession}]
  /\ stale \subseteq Sessions /\ RowsOK

\* And so it is wherever the invariant holds.
LEMMA HeldHolds == IInv => Held
<1> SUFFICES ASSUME IInv PROVE Held
  OBVIOUS
<1>1. \A k \in UnderWay : k \in Calls /\ (k.with \in Sessions => k.with \in minted)
  BY DEF IInv, CallsOK, CallTyped, CallOK, UnderWay
<1>2. \A k \in Calls : k.with \in Sessions \cup {NoSession}
  BY DEF Calls
<1>3. \A c \in Callers : call[c].answer \in Sessions => call[c].answer \in minted
  BY DEF IInv, CallsOK, CallOK
<1>4. QED
  BY <1>1, <1>2, <1>3, NobodyAssumption DEF IInv, StoreOK, StoreTyped, PageTyped, Held

\* Calls that come and go without a pair do not touch the jar, if what they
\* present is the cookie.
LEMMA JarKept ==
  ASSUME Held, Jar, UNCHANGED <<row, rotatedTo, stale, cookie>>,
         \A k \in UnderWay' : k \in UnderWay \/ k.with \in {NoSession, cookie},
         \A c \in Callers : call'[c].answer = call[c].answer
                            \/ {call[c].answer, call'[c].answer} \cap Sessions = {}
  PROVE  Jar'
<1> USE DEF Held, RowsOK
<1>1. (\A s \in Sessions : row[s] # "cut")'
  BY DEF Jar
<1>2. (cookie \in Sessions /\ row[cookie] = "rotated" =>
         \E c \in Callers : call[c].answer = rotatedTo[cookie])'
  BY DEF Jar
<1>3. (\A c, d \in Callers :
         call[c].answer \in Sessions /\ call[c].answer = call[d].answer => c = d)'
  BY DEF Jar
<1>4. (\A c \in Callers : call[c].answer \in Sessions =>
         /\ cookie # call[c].answer
         /\ row[call[c].answer] \in {"none", "live"}
         /\ \A k \in UnderWay : k.with # call[c].answer)'
  BY DEF Jar
<1>5. (\A s \in stale : cookie # s /\ \A k \in UnderWay : k.with # s)'
  BY DEF Jar
<1>6. QED
  BY <1>1, <1>2, <1>3, <1>4, <1>5 DEF Jar

\* A pair that is taken puts its session in the jar, and nobody else has it.
LEMMA JarTaken ==
  ASSUME Held, Jar, NEW c \in Callers, call[c].answer \in Sessions,
         UNCHANGED <<row, rotatedTo, stale>>, cookie' = call[c].answer,
         \A k \in UnderWay' : k \in UnderWay \/ k.with \in {NoSession, cookie'},
         \A d \in Callers : call'[d].answer \in Sessions =>
           d # c /\ call'[d].answer = call[d].answer
  PROVE  Jar'
<1> USE DEF Held, RowsOK
<1>1. (\A s \in Sessions : row[s] # "cut")'
  BY DEF Jar
<1>2. row'[cookie'] # "rotated"
  BY DEF Jar
<1>3. (\A b, d \in Callers :
         call[b].answer \in Sessions /\ call[b].answer = call[d].answer => b = d)'
  BY DEF Jar
<1>4. (\A d \in Callers : call[d].answer \in Sessions =>
         /\ cookie # call[d].answer
         /\ row[call[d].answer] \in {"none", "live"}
         /\ \A k \in UnderWay : k.with # call[d].answer)'
  BY DEF Jar
<1>5. (\A s \in stale : cookie # s /\ \A k \in UnderWay : k.with # s)'
  BY DEF Jar
<1>6. QED
  BY <1>1, <1>2, <1>3, <1>4, <1>5 DEF Jar

\* The pair of a session that is new changes what was presented, and no more.
LEMMA PairSent ==
  ASSUME Held, NEW k, NEW a \in Sessions, Does(k, a)
  PROVE  /\ a \notin minted /\ stale' = stale /\ row[a] = "none"
         /\ \A s \in minted :
              \/ row'[s] = row[s] /\ rotatedTo'[s] = rotatedTo[s]
              \/ /\ s = k.with /\ row[s] = "live"
                 /\ row'[s] = "rotated" /\ rotatedTo'[s] = a
         /\ \A s \in Sessions \ minted : row'[s] \in {"none", "live"}
<1> USE DEF Held, RowsOK
<1>1. CASE \E g \in Grants : Begins(g, a)
  BY <1>1 DEF Begins
<1>2. CASE HandsOn(k.with, a)
  BY <1>2 DEF HandsOn
<1>3. QED
  BY <1>1, <1>2 DEF Does, SaysNo, Cuts

\* A pair that is sent is new, and carries the successor of what was presented.
LEMMA JarServed ==
  ASSUME Held, Jar, NEW c \in Callers, NEW a \in Sessions, call[c] \in UnderWay,
         Does(call[c], a), call[c].answer = "none", call'[c].answer = a,
         \A d \in Callers \ {c} : call'[d] = call[d], cookie' = cookie,
         \A k \in UnderWay' : k \in UnderWay \/ k.with = NoSession
  PROVE  Jar'
<1>1. /\ a \notin minted /\ stale' = stale /\ row[a] = "none"
      /\ \A s \in minted :
           \/ row'[s] = row[s] /\ rotatedTo'[s] = rotatedTo[s]
           \/ /\ s = call[c].with /\ row[s] = "live"
              /\ row'[s] = "rotated" /\ rotatedTo'[s] = a
      /\ \A s \in Sessions \ minted : row'[s] \in {"none", "live"}
  BY PairSent
<1> USE DEF Held, RowsOK
<1>2. (\A s \in Sessions : row[s] # "cut")'
  BY <1>1 DEF Jar
<1>3. (cookie \in Sessions /\ row[cookie] = "rotated" =>
         \E d \in Callers : call[d].answer = rotatedTo[cookie])'
  <2>1. CASE cookie \in Sessions /\ row'[cookie] = row[cookie] /\ row[cookie] = "rotated"
    <3>1. rotatedTo'[cookie] = rotatedTo[cookie] /\ rotatedTo[cookie] \in Sessions
      BY <1>1, <2>1
    <3>2. PICK d \in Callers : call[d].answer = rotatedTo[cookie]
      BY <2>1 DEF Jar
    <3>3. d # c
      BY <3>1, <3>2, NobodyAssumption
    <3>4. QED
      BY <3>1, <3>2, <3>3
  <2>2. CASE cookie \in Sessions /\ row'[cookie] # row[cookie]
    BY <1>1, <2>2
  <2>3. QED
    BY <2>1, <2>2
<1>4. (\A b, d \in Callers :
         call[b].answer \in Sessions /\ call[b].answer = call[d].answer => b = d)'
  BY <1>1 DEF Jar
<1>5. (\A d \in Callers : call[d].answer \in Sessions =>
         /\ cookie # call[d].answer
         /\ row[call[d].answer] \in {"none", "live"}
         /\ \A k \in UnderWay : k.with # call[d].answer)'
  <2>1. ASSUME NEW d \in Callers, d # c, call'[d].answer \in Sessions
        PROVE  /\ cookie # call[d].answer /\ row'[call[d].answer] \in {"none", "live"}
               /\ \A k \in UnderWay' : k.with # call[d].answer
    BY <1>1, <2>1 DEF Jar
  <2>2. cookie # a /\ row'[a] \in {"none", "live"} /\ \A k \in UnderWay' : k.with # a
    BY <1>1
  <2>3. QED
    BY <2>1, <2>2
<1>6. (\A s \in stale : cookie # s /\ \A k \in UnderWay : k.with # s)'
  BY <1>1 DEF Jar
<1>7. QED
  BY <1>2, <1>3, <1>4, <1>5, <1>6 DEF Jar

\* So is one that is kept for a page that has gone.
LEMMA JarGhost ==
  ASSUME Held, Jar, NEW k \in UnderWay, NEW a \in Sessions,
         Does(k, a), call' = call, cookie' = a, UnderWay' \subseteq UnderWay
  PROVE  Jar'
<1>1. /\ a \notin minted /\ stale' = stale /\ row[a] = "none"
      /\ \A s \in minted :
           \/ row'[s] = row[s] /\ rotatedTo'[s] = rotatedTo[s]
           \/ /\ s = k.with /\ row[s] = "live"
              /\ row'[s] = "rotated" /\ rotatedTo'[s] = a
      /\ \A s \in Sessions \ minted : row'[s] \in {"none", "live"}
  BY PairSent
<1> USE DEF Held, RowsOK
<1>2. (\A s \in Sessions : row[s] # "cut")'
  BY <1>1 DEF Jar
<1>3. row'[cookie'] # "rotated"
  BY <1>1
<1>4. (\A b, d \in Callers :
         call[b].answer \in Sessions /\ call[b].answer = call[d].answer => b = d)'
  BY <1>1 DEF Jar
<1>5. (\A d \in Callers : call[d].answer \in Sessions =>
         /\ cookie # call[d].answer
         /\ row[call[d].answer] \in {"none", "live"}
         /\ \A j \in UnderWay : j.with # call[d].answer)'
  BY <1>1 DEF Jar
<1>6. (\A s \in stale : cookie # s /\ \A j \in UnderWay : j.with # s)'
  BY <1>1 DEF Jar
<1>7. QED
  BY <1>2, <1>3, <1>4, <1>5, <1>6 DEF Jar

\* No call is answered with a cut.
LEMMA NobodyCuts ==
  ASSUME Held, Jar, NEW k \in UnderWay, NEW a, Does(k, a), a \notin Sessions
  PROVE  UNCHANGED storeVars
BY DEF Does, Begins, HandsOn, SaysNo, Cuts, Held, RowsOK, Jar

\* What touches neither the store, the jar nor a call leaves all that as it is.
LEMMA JarStays ==
  ASSUME JarOK, UNCHANGED <<row, rotatedTo, stale, cookie, ghosts, call>>,
         trouble \subseteq trouble'
  PROVE  JarOK'
BY DEF JarOK, Jar, UnderWay

-----------------------------------------------------------------------------
(* Every step keeps each part of it.                                       *)

\* A session is minted, stored, rotated and made stale in that order.
LEMMA StoreStep ==
  ASSUME IInv, [Next]_vars
  PROVE  StoreOK'
<1> USE DEF IInv, storeVars, pageVars
<1>1. ASSUME NEW c \in Callers, Serve(c) PROVE StoreOK'
  <2>1. PICK a \in Outcomes : Served(call[c], a)
    BY <1>1 DEF Serve
  <2>2. Does(call[c], a) /\ call[c] \in Calls
    BY <2>1, ServedDoes DEF CallTyped, CallsOK
  <2>3. QED
    BY <2>2, DoesTyped DEF StoreOK
<1>2. ASSUME NEW c \in Callers, Break(c) PROVE StoreOK'
  BY <1>2 DEF Break, StoreOK, StoreTyped, RowsOK
<1>3. ASSUME NEW t \in Tabs, OpenPage(t) PROVE StoreOK'
  BY <1>3 DEF OpenPage, StoreOK, StoreTyped, RowsOK
<1>4. ASSUME NEW t \in Tabs, StartTrial(t) PROVE StoreOK'
  BY <1>4 DEF StartTrial, StoreOK, StoreTyped, RowsOK
<1>5. ASSUME NEW t \in Tabs, Opened(t) PROVE StoreOK'
  BY <1>5 DEF Opened, StoreOK, StoreTyped, RowsOK
<1>6. ASSUME NEW t \in Tabs, NotOpened(t) PROVE StoreOK'
  BY <1>6 DEF NotOpened, StoreOK, StoreTyped, RowsOK
<1>D. ASSUME NEW t \in Tabs, AnswerDropped(t) PROVE StoreOK'
  BY <1>D DEF AnswerDropped, StoreOK, StoreTyped, RowsOK
<1>7. ASSUME NEW t \in Tabs, Reload(t) PROVE StoreOK'
  BY <1>7 DEF Reload, StoreOK, StoreTyped, RowsOK
<1>8. ASSUME NEW f \in Fetches, FetchSent(f) PROVE StoreOK'
  BY <1>8 DEF FetchSent, StoreOK, StoreTyped, RowsOK
<1>9. ASSUME NEW f \in Fetches, ServeFetch(f) PROVE StoreOK'
  BY <1>9 DEF ServeFetch, StoreOK, StoreTyped, RowsOK
<1>10. ASSUME NEW f \in Fetches, FetchBreaks(f) PROVE StoreOK'
  BY <1>10 DEF FetchBreaks, StoreOK, StoreTyped, RowsOK
<1>11. ASSUME NEW f \in Fetches, FetchReturns(f) PROVE StoreOK'
  BY <1>11 DEF FetchReturns, StoreOK, StoreTyped, RowsOK
<1>12. ASSUME NEW f \in Fetches, Refresh(f) PROVE StoreOK'
  BY <1>12 DEF Refresh, StoreOK, StoreTyped, RowsOK
<1>13. ASSUME NEW f \in Fetches, RefreshAgain(f) PROVE StoreOK'
  BY <1>13 DEF RefreshAgain, StoreOK, StoreTyped, RowsOK
<1>14. ASSUME NEW f \in Fetches, Refreshed(f) PROVE StoreOK'
  BY <1>14 DEF Refreshed, StoreOK, StoreTyped, RowsOK
<1>15. ASSUME NEW f \in Fetches, NotRefreshed(f) PROVE StoreOK'
  BY <1>15 DEF NotRefreshed, StoreOK, StoreTyped, RowsOK
<1>16. ASSUME NEW k \in ghosts, ServeGhost(k) PROVE StoreOK'
  <2>1. PICK a \in Outcomes : Served(k, a)
    BY <1>16 DEF ServeGhost
  <2>2. Does(k, a) /\ k \in Calls
    BY <2>1, ServedDoes DEF CallTyped, CallsOK
  <2>3. QED
    BY <2>2, DoesTyped DEF StoreOK
<1>17. ASSUME NEW s \in Sessions, Commit(s) PROVE StoreOK'
  BY <1>17 DEF Commit, Store!Open, StoreOK, StoreTyped, RowsOK, Uncommitted
<1>18. ASSUME NEW s \in Sessions, GraceEnds(s) PROVE StoreOK'
  BY <1>18 DEF GraceEnds, Store!GraceEnds, StoreOK, StoreTyped, RowsOK
<1>19. ASSUME NEW s \in Sessions, TokenExpires(s) PROVE StoreOK'
  BY <1>19 DEF TokenExpires, StoreOK, StoreTyped, RowsOK
<1>20. CASE UNCHANGED vars
  BY <1>20 DEF vars, vars, StoreOK, StoreTyped, RowsOK
<1> HIDE DEF IInv
<1>21. QED
  BY <1>1, <1>2, <1>3, <1>4, <1>5, <1>6, <1>7, <1>8, <1>9, <1>10, <1>11, <1>12,
     <1>13, <1>14, <1>15, <1>16, <1>17, <1>18, <1>19, <1>20, <1>D DEF Next

\* A call starts quiet, is answered once and is forgotten once it is taken.
LEMMA CallsStep ==
  ASSUME IInv, [Next]_vars
  PROVE  CallsOK'
<1> USE NobodyAssumption
        DEF IInv, StoreOK, CallsOK, CallTyped, CallOK, storeVars, pageVars
<1>1. ASSUME NEW c \in Callers, Serve(c) PROVE CallsOK'
  <2>1. PICK a \in Outcomes : Served(call[c], a) /\ Answer(c, a)
    BY <1>1 DEF Serve
  <2>2. ghosts' = ghosts
    BY <1>1 DEF Serve
  <2>3. minted \subseteq minted' /\ (a \in Sessions => a \in minted')
    BY <2>1, ServedDoes, DoesMint
  <2>4. QED
    BY <2>1, <2>2, <2>3, AnswerIsCall
<1>2. ASSUME NEW c \in Callers, Break(c) PROVE CallsOK'
  <2>1. Answer(c, "broken") /\ "broken" \in Outcomes /\ ghosts' = ghosts /\ minted' = minted
    BY <1>2 DEF Break, Outcomes
  <2>2. QED
    BY <2>1, AnswerIsCall
<1>3. ASSUME NEW t \in Tabs, OpenPage(t) PROVE CallsOK'
  BY <1>3, NewCallsOK DEF OpenPage, PageTyped
<1>4. ASSUME NEW t \in Tabs, StartTrial(t) PROVE CallsOK'
  BY <1>4, NewCallsOK DEF StartTrial, PageTyped
<1>5. ASSUME NEW t \in Tabs, Opened(t) PROVE CallsOK'
  BY <1>5, QuietIsCall DEF Opened
<1>6. ASSUME NEW t \in Tabs, NotOpened(t) PROVE CallsOK'
  BY <1>6, QuietIsCall DEF NotOpened
<1>D. ASSUME NEW t \in Tabs, AnswerDropped(t) PROVE CallsOK'
  BY <1>D, QuietIsCall DEF AnswerDropped
<1>7. ASSUME NEW t \in Tabs, Reload(t) PROVE CallsOK'
  <2>1. PICK reached \in SUBSET OutOf(t) : ghosts' = ghosts \cup reached
    BY <1>7 DEF Reload
  <2>2. PICK kept \in PairsOf(t) \cup {cookie} :
          call' = [c \in Callers |-> IF c = t THEN Opening(t, kept)
                     ELSE IF c \in FetchesOf(t) THEN Quiet ELSE call[c]]
    BY <1>7 DEF Reload
  <2>3. \A k \in reached : k \in Calls /\ k.at = "out" /\ CallOK(k)
    BY <2>1, TabsCalls DEF OutOf
  <2>4. kept \in minted \cup {NoSession}
    BY <2>2, TabsPairs DEF PageTyped
  <2>5. /\ Opening(t, kept) \in Calls /\ CallOK(Opening(t, kept))
        /\ Quiet \in Calls /\ CallOK(Quiet)
    BY <2>4, NewCallsOK
  <2>6. minted' = minted
    BY <1>7 DEF Reload
  <2>7. QED
    BY <2>1, <2>2, <2>3, <2>5, <2>6
<1>8. ASSUME NEW f \in Fetches, FetchSent(f) PROVE CallsOK'
  BY <1>8 DEF FetchSent
<1>9. ASSUME NEW f \in Fetches, ServeFetch(f) PROVE CallsOK'
  BY <1>9 DEF ServeFetch
<1>10. ASSUME NEW f \in Fetches, FetchBreaks(f) PROVE CallsOK'
  BY <1>10 DEF FetchBreaks
<1>11. ASSUME NEW f \in Fetches, FetchReturns(f) PROVE CallsOK'
  BY <1>11 DEF FetchReturns
<1>12. ASSUME NEW f \in Fetches, Refresh(f) PROVE CallsOK'
  <2>1. Send("refresh", NoGrant, cookie) \in Calls /\ CallOK(Send("refresh", NoGrant, cookie))
    BY NewCallsOK DEF PageTyped
  <2>2. QED
    BY <1>12, <2>1 DEF Refresh
<1>13. ASSUME NEW f \in Fetches, RefreshAgain(f) PROVE CallsOK'
  <2>1. Send("again", NoGrant, cookie) \in Calls /\ CallOK(Send("again", NoGrant, cookie))
    BY NewCallsOK DEF PageTyped
  <2>2. QED
    BY <1>13, <2>1 DEF RefreshAgain
<1>14. ASSUME NEW f \in Fetches, Refreshed(f) PROVE CallsOK'
  BY <1>14, QuietIsCall DEF Refreshed
<1>15. ASSUME NEW f \in Fetches, NotRefreshed(f) PROVE CallsOK'
  BY <1>15, QuietIsCall DEF NotRefreshed
<1>16. ASSUME NEW k \in ghosts, ServeGhost(k) PROVE CallsOK'
  <2>1. PICK a \in Outcomes : Served(k, a)
    BY <1>16 DEF ServeGhost
  <2>2. ghosts' = ghosts \ {k} /\ call' = call
    BY <1>16 DEF ServeGhost
  <2>3. minted \subseteq minted'
    BY <2>1, ServedDoes, DoesMint
  <2>4. QED
    BY <2>2, <2>3
<1>17. ASSUME NEW s \in Sessions, Commit(s) PROVE CallsOK'
  BY <1>17 DEF Commit
<1>18. ASSUME NEW s \in Sessions, GraceEnds(s) PROVE CallsOK'
  BY <1>18 DEF GraceEnds
<1>19. ASSUME NEW s \in Sessions, TokenExpires(s) PROVE CallsOK'
  BY <1>19 DEF TokenExpires
<1>20. CASE UNCHANGED vars
  BY <1>20 DEF vars
<1> HIDE DEF IInv, CallsOK
<1>21. QED
  BY <1>1, <1>2, <1>3, <1>4, <1>5, <1>6, <1>7, <1>8, <1>9, <1>10, <1>11, <1>12,
     <1>13, <1>14, <1>15, <1>16, <1>17, <1>18, <1>19, <1>20, <1>D DEF Next

\* What a fetch carries is a token of its tab, or of the refresh it shared.
LEMMA FetchStep ==
  ASSUME IInv, [Next]_vars
  PROVE  FetchTyped'
<1> USE DEF IInv, FetchTyped, storeVars, pageVars
<1>1. ASSUME NEW c \in Callers, Serve(c) PROVE FetchTyped'
  BY <1>1, Grows, FetchGrows DEF Serve
<1>2. ASSUME NEW c \in Callers, Break(c) PROVE FetchTyped'
  BY <1>2 DEF Break, FetchStates
<1>3. ASSUME NEW t \in Tabs, OpenPage(t) PROVE FetchTyped'
  BY <1>3 DEF OpenPage, FetchStates
<1>4. ASSUME NEW t \in Tabs, StartTrial(t) PROVE FetchTyped'
  BY <1>4 DEF StartTrial, FetchStates
<1>5. ASSUME NEW t \in Tabs, Opened(t) PROVE FetchTyped'
  BY <1>5 DEF Opened, FetchStates
<1>6. ASSUME NEW t \in Tabs, NotOpened(t) PROVE FetchTyped'
  BY <1>6 DEF NotOpened, FetchStates
<1>D. ASSUME NEW t \in Tabs, AnswerDropped(t) PROVE FetchTyped'
  BY <1>D DEF AnswerDropped, FetchStates
<1>7. ASSUME NEW t \in Tabs, Reload(t) PROVE FetchTyped'
  <2>1. fetch' \in [Fetches -> FetchStates] /\ minted' = minted
    BY <1>7, DoneIsState DEF Reload
  <2>2. QED
    BY <2>1 DEF FetchStates
<1>8. ASSUME NEW f \in Fetches, FetchSent(f) PROVE FetchTyped'
  <2>1. bearer[TabOf[f]] \in minted /\ minted' = minted
    BY <1>8, OwnersAssumption DEF FetchSent, PageTyped
  <2>2. fetch'[f] = [[[fetch[f] EXCEPT !.at = "out"] EXCEPT !.token = bearer[TabOf[f]]]
                                     EXCEPT !.tries = 1]
    BY <1>8 DEF FetchSent
  <2>3. fetch'[f] \in FetchStates
    <3>1. fetch[f] \in FetchStates /\ bearer[TabOf[f]] \in minted \cup {NoSession}
          /\ 1 \in 0..2
      BY <2>1
    <3> HIDE DEF IInv, FetchTyped
    <3>2. QED
      BY <2>2, <3>1 DEF FetchStates
  <2>4. fetch' \in [Fetches -> FetchStates]
    BY <1>8, <2>3 DEF FetchSent
  <2>5. QED
    BY <2>1, <2>4 DEF FetchStates
<1>9. ASSUME NEW f \in Fetches, ServeFetch(f) PROVE FetchTyped'
  <2>1. fetch'[f] = [[[fetch[f] EXCEPT !.at = "back"] EXCEPT !.token = NoSession]
                        EXCEPT !.answer =
                          (IF row[fetch[f].token] = "live" /\ fetch[f].token \notin aged
                                      THEN "ok" ELSE "unauthorized")]
    BY <1>9 DEF ServeFetch
  <2>2. fetch'[f] \in FetchStates
    BY <2>1 DEF FetchStates
  <2>3. fetch' \in [Fetches -> FetchStates] /\ minted' = minted
    BY <1>9, <2>2 DEF ServeFetch
  <2>4. QED
    BY <2>3 DEF FetchStates
<1>10. ASSUME NEW f \in Fetches, FetchBreaks(f) PROVE FetchTyped'
  <2>1. fetch'[f] = [[[fetch[f] EXCEPT !.at = "back"] EXCEPT !.token = NoSession]
                        EXCEPT !.answer = "broken"]
    BY <1>10 DEF FetchBreaks
  <2>2. fetch'[f] \in FetchStates
    BY <2>1 DEF FetchStates
  <2>3. fetch' \in [Fetches -> FetchStates] /\ minted' = minted
    BY <1>10, <2>2 DEF FetchBreaks
  <2>4. QED
    BY <2>3 DEF FetchStates
<1>11. ASSUME NEW f \in Fetches, FetchReturns(f) PROVE FetchTyped'
  <2>1. fetch' \in [Fetches -> FetchStates] /\ minted' = minted
    BY <1>11, DoneIsState DEF FetchReturns
  <2>2. QED
    BY <2>1 DEF FetchStates
<1>12. ASSUME NEW f \in Fetches, Refresh(f) PROVE FetchTyped'
  BY <1>12 DEF Refresh, FetchStates
<1>13. ASSUME NEW f \in Fetches, RefreshAgain(f) PROVE FetchTyped'
  BY <1>13 DEF RefreshAgain, FetchStates
<1>14. ASSUME NEW f \in Fetches, Refreshed(f) PROVE FetchTyped'
  <2>1. call[f].answer \in minted /\ minted' = minted
    BY <1>14 DEF Refreshed, CallsOK, CallOK, Callers
  <2>2. [at |-> "out", token |-> call[f].answer, tries |-> 2, answer |-> "none"]
          \in FetchStates
    BY <2>1 DEF FetchStates
  <2>3. fetch' = [h \in Fetches |-> IF h \notin Waiting(TabOf[f]) THEN fetch[h]
           ELSE [at |-> "out", token |-> call[f].answer, tries |-> 2, answer |-> "none"]]
    BY <1>14 DEF Refreshed
  <2>4. fetch' \in [Fetches -> FetchStates]
    BY <2>2, <2>3
  <2>5. QED
    BY <2>1, <2>4 DEF FetchStates
<1>15. ASSUME NEW f \in Fetches, NotRefreshed(f) PROVE FetchTyped'
  <2>1. fetch' \in [Fetches -> FetchStates] /\ minted' = minted
    BY <1>15, DoneIsState DEF NotRefreshed
  <2>2. QED
    BY <2>1 DEF FetchStates
<1>16. ASSUME NEW k \in ghosts, ServeGhost(k) PROVE FetchTyped'
  BY <1>16, Grows, FetchGrows DEF ServeGhost
<1>17. ASSUME NEW s \in Sessions, Commit(s) PROVE FetchTyped'
  BY <1>17 DEF Commit, FetchStates
<1>18. ASSUME NEW s \in Sessions, GraceEnds(s) PROVE FetchTyped'
  BY <1>18 DEF GraceEnds, FetchStates
<1>19. ASSUME NEW s \in Sessions, TokenExpires(s) PROVE FetchTyped'
  BY <1>19 DEF TokenExpires, FetchStates
<1>20. CASE UNCHANGED vars
  BY <1>20 DEF vars, FetchStates
<1> HIDE DEF IInv, FetchTyped
<1>21. QED
  BY <1>1, <1>2, <1>3, <1>4, <1>5, <1>6, <1>7, <1>8, <1>9, <1>10, <1>11, <1>12,
     <1>13, <1>14, <1>15, <1>16, <1>17, <1>18, <1>19, <1>20, <1>D DEF Next

\* A pair is taken only when it was minted.
LEMMA PageStep ==
  ASSUME IInv, [Next]_vars
  PROVE  PageTyped'
<1> USE ReloadsAssumption, OwnersAssumption
        DEF IInv, PageTyped, storeVars, pageVars
<1>1. ASSUME NEW c \in Callers, Serve(c) PROVE PageTyped'
  <2>1. minted \subseteq minted'
    BY <1>1, Grows
  <2>2. QED
    BY <1>1, <2>1 DEF Serve, Hurried, Uncommitted
<1>2. ASSUME NEW c \in Callers, Break(c) PROVE PageTyped'
  BY <1>2 DEF Break
<1>3. ASSUME NEW t \in Tabs, OpenPage(t) PROVE PageTyped'
  BY <1>3 DEF OpenPage
<1>4. ASSUME NEW t \in Tabs, StartTrial(t) PROVE PageTyped'
  BY <1>4 DEF StartTrial
<1>5. ASSUME NEW t \in Tabs, Opened(t) PROVE PageTyped'
  <2>1. call[t].answer \in minted
    BY <1>5 DEF Opened, CallsOK, CallOK, Callers
  <2>2. QED
    BY <1>5, <2>1 DEF Opened, TakePair
<1>6. ASSUME NEW t \in Tabs, NotOpened(t) PROVE PageTyped'
  BY <1>6 DEF NotOpened
<1>D. ASSUME NEW t \in Tabs, AnswerDropped(t) PROVE PageTyped'
  <2>1. call[t].answer \in Sessions => call[t].answer \in minted
    BY <1>D DEF CallsOK, CallOK, Callers
  <2>2. QED
    BY <1>D, <2>1 DEF AnswerDropped
<1>7. ASSUME NEW t \in Tabs, Reload(t) PROVE PageTyped'
  <2>1. PICK kept \in PairsOf(t) \cup {cookie} :
          /\ cookie' = kept
          /\ trouble' = trouble \cup {"outside"}
               \cup (IF PairsOf(t) \subseteq {kept} THEN {} ELSE {"lost pair"})
    BY <1>7 DEF Reload
  <2>2. kept \in minted \cup {NoSession}
    BY <2>1, TabsPairs
  <2>3. UNCHANGED <<minted, link>> /\ reloads < MaxReloads /\ reloads' = reloads + 1
        /\ status' = [status EXCEPT ![t] = "loading"]
        /\ bearer' = [bearer EXCEPT ![t] = NoSession] /\ dropped' = dropped \ {t}
    BY <1>7 DEF Reload
  <2>4. reloads' \in 0..MaxReloads
    <3>1. reloads \in 0..MaxReloads
      OBVIOUS
    <3> HIDE DEF PageTyped
    <3>2. QED
      BY <2>3, <3>1
  <2>5. QED
    BY <2>1, <2>2, <2>3, <2>4
<1>8. ASSUME NEW f \in Fetches, FetchSent(f) PROVE PageTyped'
  BY <1>8 DEF FetchSent
<1>9. ASSUME NEW f \in Fetches, ServeFetch(f) PROVE PageTyped'
  BY <1>9 DEF ServeFetch, Hurried
<1>10. ASSUME NEW f \in Fetches, FetchBreaks(f) PROVE PageTyped'
  BY <1>10 DEF FetchBreaks
<1>11. ASSUME NEW f \in Fetches, FetchReturns(f) PROVE PageTyped'
  BY <1>11 DEF FetchReturns
<1>12. ASSUME NEW f \in Fetches, Refresh(f) PROVE PageTyped'
  BY <1>12 DEF Refresh
<1>13. ASSUME NEW f \in Fetches, RefreshAgain(f) PROVE PageTyped'
  BY <1>13 DEF RefreshAgain
<1>14. ASSUME NEW f \in Fetches, Refreshed(f) PROVE PageTyped'
  <2>1. call[f].answer \in minted /\ TabOf[f] \in Tabs
    BY <1>14, OwnersAssumption DEF Refreshed, CallsOK, CallOK, Callers
  <2>2. QED
    BY <1>14, <2>1 DEF Refreshed, TakePair
<1>15. ASSUME NEW f \in Fetches, NotRefreshed(f) PROVE PageTyped'
  BY <1>15 DEF NotRefreshed
<1>16. ASSUME NEW k \in ghosts, ServeGhost(k) PROVE PageTyped'
  <2>1. PICK a \in Outcomes : Served(k, a) /\
          \E kept \in {a, cookie} \cap (Sessions \cup {cookie}) :
            /\ cookie' = kept
            /\ trouble' = trouble \cup Hurried(k.with)
                 \cup (IF a \in Sessions /\ kept # a THEN {"lost pair"} ELSE {})
    BY <1>16 DEF ServeGhost
  <2>2. minted \subseteq minted' /\ (a \in Sessions => a \in minted')
    BY <2>1, ServedDoes, DoesMint DEF CallsOK, CallTyped
  <2>3. cookie' \in minted' \cup {NoSession}
    BY <2>1, <2>2
  <2>4. trouble' \in SUBSET {"outside", "lost pair"}
    BY <2>1 DEF Hurried
  <2>5. UNCHANGED pageVars /\ reloads' = reloads
    BY <1>16 DEF ServeGhost
  <2>6. QED
    BY <2>2, <2>3, <2>4, <2>5
<1>17. ASSUME NEW s \in Sessions, Commit(s) PROVE PageTyped'
  BY <1>17 DEF Commit
<1>18. ASSUME NEW s \in Sessions, GraceEnds(s) PROVE PageTyped'
  BY <1>18 DEF GraceEnds
<1>19. ASSUME NEW s \in Sessions, TokenExpires(s) PROVE PageTyped'
  BY <1>19 DEF TokenExpires
<1>20. CASE UNCHANGED vars
  BY <1>20 DEF vars
<1> HIDE DEF IInv, PageTyped
<1>21. QED
  BY <1>1, <1>2, <1>3, <1>4, <1>5, <1>6, <1>7, <1>8, <1>9, <1>10, <1>11, <1>12,
     <1>13, <1>14, <1>15, <1>16, <1>17, <1>18, <1>19, <1>20, <1>D DEF Next

\* A tab's own call ends as its loading does; only a session makes it fetch.
LEMMA TabsStep ==
  ASSUME IInv, Shape, TabsOK, [Next]_vars
  PROVE  TabsOK'
<1> USE DEF Shape, TabsOK
<1>1. ASSUME NEW c \in Callers, Serve(c) PROVE TabsOK'
  <2>1. PICK a \in Outcomes : Answer(c, a) /\ call[c].at = "out"
    BY <1>1 DEF Serve
  <2>2. UNCHANGED <<cookie, status, bearer, dropped, fetch>>
    BY <1>1 DEF Serve, pageVars
  <2>3. call'[c].at = "back" /\ \A d \in Callers \ {c} : call'[d] = call[d]
    BY <2>1, AnswerIsCall DEF IInv, CallsOK
  <2>4. QED
    BY <2>1, <2>2, <2>3
<1>2. ASSUME NEW c \in Callers, Break(c) PROVE TabsOK'
  <2>1. Answer(c, "broken") /\ "broken" \in Outcomes /\ call[c].at # "idle"
    BY <1>2, QuietIsCall, NobodyAssumption DEF Break, Outcomes, IInv, CallsOK, CallOK
  <2>2. UNCHANGED <<cookie, status, bearer, dropped, fetch>>
    BY <1>2 DEF Break, pageVars
  <2>3. call'[c].at = "back" /\ \A d \in Callers \ {c} : call'[d] = call[d]
    BY <2>1, AnswerIsCall DEF IInv, CallsOK
  <2>4. QED
    BY <2>1, <2>2, <2>3
<1>3. ASSUME NEW t \in Tabs, OpenPage(t) PROVE TabsOK'
  <2>1. /\ status' = [status EXCEPT ![t] = "loading"]
        /\ call' = [call EXCEPT ![t] = Opening(t, cookie)]
        /\ status[t] = "closed" /\ UNCHANGED <<cookie, bearer, dropped, fetch>>
    BY <1>3 DEF OpenPage
  <2>2. Opening(t, cookie).at = "out"
    BY OpeningIsOut
  <2>3. QED
    BY <2>1, <2>2
<1>4. ASSUME NEW t \in Tabs, StartTrial(t) PROVE TabsOK'
  <2>1. /\ status' = [status EXCEPT ![t] = "loading"]
        /\ call' = [call EXCEPT ![t] = Send("trial", NoGrant, NoSession)]
        /\ status[t] = "none" /\ UNCHANGED <<cookie, bearer, dropped, fetch>>
    BY <1>4 DEF StartTrial
  <2>2. Send("trial", NoGrant, NoSession).at = "out"
    BY DEF Send
  <2>3. QED
    BY <2>1, <2>2
<1>5. ASSUME NEW t \in Tabs, Opened(t) PROVE TabsOK'
  <2>1. /\ status' = [status EXCEPT ![t] = "ready"] /\ call[t].at = "back"
        /\ call' = [call EXCEPT ![t] = Quiet] /\ UNCHANGED <<dropped, fetch>>
        /\ cookie' \in Sessions /\ bearer' = [bearer EXCEPT ![t] = cookie']
    BY <1>5 DEF Opened, TakePair
  <2>2. cookie' # NoSession
    BY <2>1, NobodyAssumption
  <2>3. QED
    BY <2>1, <2>2, QuietIsCall
<1>6. ASSUME NEW t \in Tabs, NotOpened(t) PROVE TabsOK'
  <2>1. /\ \E s \in {"spent", "error", "none"} : status' = [status EXCEPT ![t] = s]
        /\ call' = [call EXCEPT ![t] = Quiet] /\ call[t].at = "back"
        /\ UNCHANGED <<cookie, bearer, dropped, fetch>>
    BY <1>6 DEF NotOpened
  <2>2. QED
    BY <2>1, QuietIsCall
<1>D. ASSUME NEW t \in Tabs, AnswerDropped(t) PROVE TabsOK'
  <2>1. /\ status[t] = "loading" /\ UNCHANGED <<status, bearer, fetch>>
        /\ call' = [call EXCEPT ![t] = Quiet] /\ dropped' = dropped \cup {t}
    BY <1>D DEF AnswerDropped
  <2>2. cookie' \in Sessions \cup {cookie}
    BY <1>D DEF AnswerDropped
  <2>3. cookie # NoSession => cookie' # NoSession
    BY <2>2, NobodyAssumption
  <2>4. QED
    BY <2>1, <2>3, QuietIsCall
<1>7. ASSUME NEW t \in Tabs, Reload(t) PROVE TabsOK'
  <2>1. PICK kept \in PairsOf(t) \cup {cookie} :
          /\ cookie' = kept
          /\ call' = [c \in Callers |-> IF c = t THEN Opening(t, kept)
                     ELSE IF c \in FetchesOf(t) THEN Quiet ELSE call[c]]
    BY <1>7 DEF Reload
  <2>2. /\ status' = [status EXCEPT ![t] = "loading"]
        /\ bearer' = [bearer EXCEPT ![t] = NoSession] /\ dropped' = dropped \ {t}
        /\ fetch' = [f \in Fetches |->
             IF f \in FetchesOf(t) /\ fetch[f].at # "unsent" THEN Done ELSE fetch[f]]
    BY <1>7 DEF Reload
  <2>3. cookie # NoSession => kept # NoSession
    BY <2>1, NobodyAssumption DEF PairsOf
  <2>4. /\ call'[t].at = "out"
        /\ \A f \in Fetches : TabOf[f] = t => call'[f].at = "idle"
        /\ \A u \in Tabs \ {t} : call'[u] = call[u]
        /\ \A f \in Fetches : TabOf[f] # t => call'[f] = call[f]
    BY <2>1, OpeningIsOut, QuietIsCall DEF FetchesOf
  <2>5. /\ \A f \in Fetches : TabOf[f] = t => fetch'[f].at \in {"unsent", "done"}
        /\ \A f \in Fetches : TabOf[f] # t => fetch'[f] = fetch[f]
    BY <2>2, DoneIsState DEF FetchesOf
  <2>6. QED
    BY <2>1, <2>2, <2>3, <2>4, <2>5
<1>8. ASSUME NEW f \in Fetches, FetchSent(f) PROVE TabsOK'
  <2>1. /\ fetch[f].at = "unsent" /\ bearer[TabOf[f]] # NoSession /\ fetch'[f].at = "out"
        /\ \A h \in Fetches \ {f} : fetch'[h] = fetch[h]
        /\ UNCHANGED <<cookie, status, bearer, dropped, call>>
    BY <1>8 DEF FetchSent, pageVars
  <2>2. QED
    BY <2>1
<1>9. ASSUME NEW f \in Fetches, ServeFetch(f) PROVE TabsOK'
  <2>1. /\ fetch[f].at = "out" /\ fetch'[f].at = "back"
        /\ \A h \in Fetches \ {f} : fetch'[h] = fetch[h]
        /\ UNCHANGED <<cookie, status, bearer, dropped, call>>
    BY <1>9 DEF ServeFetch, pageVars
  <2>2. QED
    BY <2>1
<1>10. ASSUME NEW f \in Fetches, FetchBreaks(f) PROVE TabsOK'
  <2>1. /\ fetch[f].at = "out" /\ fetch'[f].at = "back"
        /\ \A h \in Fetches \ {f} : fetch'[h] = fetch[h]
        /\ UNCHANGED <<cookie, status, bearer, dropped, call>>
    BY <1>10 DEF FetchBreaks, pageVars
  <2>2. QED
    BY <2>1
<1>11. ASSUME NEW f \in Fetches, FetchReturns(f) PROVE TabsOK'
  <2>1. /\ fetch[f].at = "back" /\ fetch'[f].at = "done"
        /\ \A h \in Fetches \ {f} : fetch'[h] = fetch[h]
        /\ UNCHANGED <<cookie, bearer, dropped, call>>
    BY <1>11, DoneIsState DEF FetchReturns
  <2>2. status' \in {status, [status EXCEPT ![TabOf[f]] = "spent"]}
    BY <1>11 DEF FetchReturns
  <2>3. QED
    BY <2>1, <2>2
<1>12. ASSUME NEW f \in Fetches, Refresh(f) PROVE TabsOK'
  <2>1. /\ fetch[f].at = "back" /\ fetch'[f].at = "waiting"
        /\ \A h \in Fetches \ {f} : fetch'[h] = fetch[h]
        /\ UNCHANGED <<cookie, status, bearer, dropped>>
    BY <1>12 DEF Refresh, pageVars
  <2>2. ASSUME InFlight(TabOf[f]) = {} PROVE TabsOK'
    <3>1. call' = [call EXCEPT ![f] = Send("refresh", NoGrant, cookie)]
      BY <1>12, <2>2 DEF Refresh
    <3>2. \A g \in Fetches : TabOf[g] = TabOf[f] => call[g].at = "idle"
      BY <2>2 DEF InFlight, FetchesOf
    <3>3. Send("refresh", NoGrant, cookie).at = "out"
      BY DEF Send
    <3>4. QED
      BY <2>1, <3>1, <3>2, <3>3
  <2>3. ASSUME InFlight(TabOf[f]) # {} PROVE TabsOK'
    <3>1. call' = call
      BY <1>12, <2>3 DEF Refresh
    <3>2. \E g \in Fetches : TabOf[g] = TabOf[f] /\ call[g].at # "idle"
      BY <2>3 DEF InFlight, FetchesOf
    <3>3. QED
      BY <2>1, <3>1, <3>2
  <2>4. QED
    BY <2>2, <2>3
<1>13. ASSUME NEW f \in Fetches, RefreshAgain(f) PROVE TabsOK'
  <2>1. /\ call' = [call EXCEPT ![f] = Send("again", NoGrant, cookie)] /\ call[f].at = "back"
        /\ UNCHANGED <<cookie, status, bearer, dropped, fetch>>
    BY <1>13 DEF RefreshAgain, pageVars
  <2>2. Send("again", NoGrant, cookie).at = "out"
    BY DEF Send
  <2>3. QED
    BY <2>1, <2>2
<1>14. ASSUME NEW f \in Fetches, Refreshed(f) PROVE TabsOK'
  <2>1. /\ call' = [call EXCEPT ![f] = Quiet] /\ call[f].at = "back"
        /\ cookie' \in Sessions /\ bearer' = [bearer EXCEPT ![TabOf[f]] = cookie']
        /\ UNCHANGED <<status, dropped>>
    BY <1>14 DEF Refreshed, TakePair
  <2>2. fetch' = [h \in Fetches |-> IF h \notin Waiting(TabOf[f]) THEN fetch[h]
           ELSE [at |-> "out", token |-> call[f].answer, tries |-> 2, answer |-> "none"]]
    BY <1>14 DEF Refreshed
  <2>3. \A h \in Fetches :
          fetch'[h].at = IF TabOf[h] = TabOf[f] /\ fetch[h].at = "waiting"
                         THEN "out" ELSE fetch[h].at
    BY <2>2 DEF Waiting, FetchesOf
  <2>4. cookie' # NoSession
    BY <2>1, NobodyAssumption
  <2>5. QED
    BY <2>1, <2>3, <2>4, QuietIsCall
<1>15. ASSUME NEW f \in Fetches, NotRefreshed(f) PROVE TabsOK'
  <2>1. /\ call' = [call EXCEPT ![f] = Quiet] /\ call[f].at = "back"
        /\ status' = [status EXCEPT ![TabOf[f]] = "spent"]
        /\ UNCHANGED <<cookie, bearer, dropped>>
    BY <1>15 DEF NotRefreshed, FinallyRefused
  <2>2. fetch' = [h \in Fetches |-> IF h \in Waiting(TabOf[f]) THEN Done ELSE fetch[h]]
    BY <1>15 DEF NotRefreshed
  <2>3. \A h \in Fetches :
          fetch'[h].at = IF TabOf[h] = TabOf[f] /\ fetch[h].at = "waiting"
                         THEN "done" ELSE fetch[h].at
    BY <2>2, DoneIsState DEF Waiting, FetchesOf
  <2>4. QED
    BY <2>1, <2>3, QuietIsCall
<1>16. ASSUME NEW k \in ghosts, ServeGhost(k) PROVE TabsOK'
  <2>1. UNCHANGED <<status, bearer, dropped, call, fetch>>
    BY <1>16 DEF ServeGhost, pageVars
  <2>2. cookie # NoSession => cookie' # NoSession
    <3>1. cookie' \in Sessions \cup {cookie}
      BY <1>16 DEF ServeGhost
    <3>2. QED
      BY <3>1, NobodyAssumption
  <2>3. QED
    BY <2>1, <2>2
<1>17. ASSUME NEW s \in Sessions, Commit(s) PROVE TabsOK'
  BY <1>17 DEF Commit, pageVars
<1>18. ASSUME NEW s \in Sessions, GraceEnds(s) PROVE TabsOK'
  BY <1>18 DEF GraceEnds, pageVars
<1>19. ASSUME NEW s \in Sessions, TokenExpires(s) PROVE TabsOK'
  BY <1>19 DEF TokenExpires, pageVars
<1>20. CASE UNCHANGED vars
  BY <1>20 DEF vars, pageVars
<1> HIDE DEF TabsOK
<1>21. QED
  BY <1>1, <1>2, <1>3, <1>4, <1>5, <1>6, <1>7, <1>8, <1>9, <1>10, <1>11, <1>12,
     <1>13, <1>14, <1>15, <1>16, <1>17, <1>18, <1>19, <1>20, <1>D DEF Next

\* The successor of the cookie's session is always on its way to the jar.
LEMMA JarStep ==
  ASSUME IInv, JarOK, [Next]_vars
  PROVE  JarOK'
<1> USE DEF JarOK
<1>1. ASSUME NEW c \in Callers, Serve(c) PROVE JarOK'
  <2> SUFFICES ASSUME "lost pair" \notin trouble' PROVE Jar'
    BY DEF JarOK
  <2>1. PICK a \in Outcomes : Served(call[c], a) /\ Answer(c, a)
    BY <1>1 DEF Serve
  <2>2. /\ call[c].at = "out" /\ UNCHANGED <<cookie, ghosts>>
        /\ "lost pair" \notin trouble
    BY <1>1 DEF Serve
  <2>3. /\ Does(call[c], a) /\ call[c].answer = "none" /\ call[c] \in UnderWay
        /\ Held /\ Jar
    BY <2>1, <2>2, ServedDoes, HeldHolds
       DEF IInv, CallsOK, CallTyped, CallOK, UnderWay, JarOK
  <2>4. /\ call'[c].with = NoSession /\ call'[c].answer = a
        /\ \A d \in Callers \ {c} : call'[d] = call[d]
    BY <2>1, AnswerIsCall DEF IInv, CallsOK
  <2>5. \A k \in UnderWay' : k \in UnderWay \/ k.with = NoSession
    BY <2>2, <2>4 DEF UnderWay
  <2>6. CASE a \in Sessions
    BY <2>2, <2>3, <2>4, <2>5, <2>6, JarServed
  <2>7. CASE a \notin Sessions
    <3>1. UNCHANGED <<row, rotatedTo, stale, cookie>>
      BY <2>2, <2>3, <2>7, NobodyCuts DEF storeVars
    <3>2. \A d \in Callers : call'[d].answer = call[d].answer
                             \/ {call[d].answer, call'[d].answer} \cap Sessions = {}
      BY <2>3, <2>4, <2>7, NobodyAssumption
    <3>3. QED
      BY <2>3, <2>5, <3>1, <3>2, JarKept
  <2>8. QED
    BY <2>6, <2>7
<1>2. ASSUME NEW c \in Callers, Break(c) PROVE JarOK'
  <2> SUFFICES ASSUME "lost pair" \notin trouble' PROVE Jar'
    BY DEF JarOK
  <2>1. /\ Answer(c, "broken") /\ "broken" \in Outcomes /\ call[c].answer \notin Sessions
        /\ "lost pair" \notin trouble /\ UNCHANGED <<row, rotatedTo, stale, cookie, ghosts>>
    BY <1>2 DEF Break, Outcomes, storeVars
  <2>2. Held /\ Jar
    BY <2>1, HeldHolds DEF IInv, JarOK
  <2>3. /\ call'[c].with = NoSession /\ call'[c].answer = "broken"
        /\ \A d \in Callers \ {c} : call'[d] = call[d]
    BY <2>1, AnswerIsCall DEF IInv, CallsOK
  <2>4. \A k \in UnderWay' : k \in UnderWay \/ k.with \in {NoSession, cookie}
    BY <2>1, <2>3 DEF UnderWay
  <2>5. \A d \in Callers : call'[d].answer = call[d].answer
                           \/ {call[d].answer, call'[d].answer} \cap Sessions = {}
    BY <2>1, <2>3, NobodyAssumption
  <2>6. QED
    BY <2>1, <2>2, <2>4, <2>5, JarKept
<1>3. ASSUME NEW t \in Tabs, OpenPage(t) PROVE JarOK'
  <2> SUFFICES ASSUME "lost pair" \notin trouble' PROVE Jar'
    BY DEF JarOK
  <2>1. /\ call' = [call EXCEPT ![t] = Opening(t, cookie)] /\ trouble' = trouble
        /\ UNCHANGED <<row, rotatedTo, stale, cookie, ghosts>>
    BY <1>3 DEF OpenPage, storeVars
  <2>2. Held /\ Jar /\ call \in [Callers -> Calls] /\ t \in Callers
    BY <2>1, HeldHolds DEF IInv, CallsOK, CallTyped, JarOK, Callers
  <2>3. call[t].answer \notin Sessions
    BY <1>3, QuietIsCall, NobodyAssumption
       DEF OpenPage, IInv, CallsOK, CallOK, TabsOK, Callers
  <2>4. /\ (Opening(t, cookie)).answer \notin Sessions
        /\ (Opening(t, cookie)).with \in {NoSession, cookie}
    BY OpeningIsOut, NobodyAssumption DEF Opening, Send
  <2>5. \A k \in UnderWay' : k \in UnderWay \/ k.with \in {NoSession, cookie}
    BY <2>1, <2>2, <2>4 DEF UnderWay
  <2>6. \A d \in Callers : call'[d].answer = call[d].answer
                           \/ {call[d].answer, call'[d].answer} \cap Sessions = {}
    BY <2>1, <2>2, <2>3, <2>4
  <2>7. QED
    BY <2>1, <2>2, <2>5, <2>6, JarKept
<1>4. ASSUME NEW t \in Tabs, StartTrial(t) PROVE JarOK'
  <2> SUFFICES ASSUME "lost pair" \notin trouble' PROVE Jar'
    BY DEF JarOK
  <2>1. /\ call' = [call EXCEPT ![t] = Send("trial", NoGrant, NoSession)] /\ trouble' = trouble
        /\ UNCHANGED <<row, rotatedTo, stale, cookie, ghosts>>
    BY <1>4 DEF StartTrial, storeVars
  <2>2. Held /\ Jar /\ call \in [Callers -> Calls] /\ t \in Callers
    BY <2>1, HeldHolds DEF IInv, CallsOK, CallTyped, JarOK, Callers
  <2>3. call[t].answer \notin Sessions
    BY <1>4, QuietIsCall, NobodyAssumption
       DEF StartTrial, IInv, CallsOK, CallOK, TabsOK, Callers
  <2>4. /\ (Send("trial", NoGrant, NoSession)).answer \notin Sessions
        /\ (Send("trial", NoGrant, NoSession)).with \in {NoSession, cookie}
    BY NobodyAssumption DEF Send
  <2>5. \A k \in UnderWay' : k \in UnderWay \/ k.with \in {NoSession, cookie}
    BY <2>1, <2>2, <2>4 DEF UnderWay
  <2>6. \A d \in Callers : call'[d].answer = call[d].answer
                           \/ {call[d].answer, call'[d].answer} \cap Sessions = {}
    BY <2>1, <2>2, <2>3, <2>4
  <2>7. QED
    BY <2>1, <2>2, <2>5, <2>6, JarKept
<1>5. ASSUME NEW t \in Tabs, Opened(t) PROVE JarOK'
  <2> SUFFICES ASSUME "lost pair" \notin trouble' PROVE Jar'
    BY DEF JarOK
  <2>1. /\ call' = [call EXCEPT ![t] = Quiet] /\ cookie' = call[t].answer
        /\ call[t].answer \in Sessions /\ trouble' = trouble
        /\ UNCHANGED <<row, rotatedTo, stale, ghosts>>
    BY <1>5 DEF Opened, TakePair, storeVars
  <2>2. Held /\ Jar /\ call \in [Callers -> Calls] /\ t \in Callers
    BY <2>1, HeldHolds DEF IInv, CallsOK, CallTyped, JarOK, Callers
  <2>3. \A k \in UnderWay' : k \in UnderWay \/ k.with \in {NoSession, cookie'}
    BY <2>1, <2>2, QuietIsCall DEF UnderWay
  <2>4. \A d \in Callers : call'[d].answer \in Sessions =>
          d # t /\ call'[d].answer = call[d].answer
    BY <2>1, <2>2, QuietIsCall, NobodyAssumption
  <2>5. QED
    BY <2>1, <2>2, <2>3, <2>4, JarTaken
<1>6. ASSUME NEW t \in Tabs, NotOpened(t) PROVE JarOK'
  <2> SUFFICES ASSUME "lost pair" \notin trouble' PROVE Jar'
    BY DEF JarOK
  <2>1. /\ call' = [call EXCEPT ![t] = Quiet] /\ trouble' = trouble
        /\ UNCHANGED <<row, rotatedTo, stale, cookie, ghosts>>
    BY <1>6 DEF NotOpened, storeVars
  <2>2. Held /\ Jar /\ call \in [Callers -> Calls] /\ t \in Callers
    BY <2>1, HeldHolds DEF IInv, CallsOK, CallTyped, JarOK, Callers
  <2>3. call[t].answer \notin Sessions
    BY <1>6 DEF NotOpened
  <2>4. (Quiet).answer \notin Sessions /\ (Quiet).with \in {NoSession, cookie}
    BY QuietIsCall, NobodyAssumption
  <2>5. \A k \in UnderWay' : k \in UnderWay \/ k.with \in {NoSession, cookie}
    BY <2>1, <2>2, <2>4 DEF UnderWay
  <2>6. \A d \in Callers : call'[d].answer = call[d].answer
                           \/ {call[d].answer, call'[d].answer} \cap Sessions = {}
    BY <2>1, <2>2, <2>3, <2>4
  <2>7. QED
    BY <2>1, <2>2, <2>5, <2>6, JarKept
<1>D. ASSUME NEW t \in Tabs, AnswerDropped(t) PROVE JarOK'
  <2> SUFFICES ASSUME "lost pair" \notin trouble' PROVE Jar'
    BY DEF JarOK
  <2>1. /\ call' = [call EXCEPT ![t] = Quiet] /\ trouble' = trouble
        /\ cookie' = IF call[t].answer \in Sessions THEN call[t].answer ELSE cookie
        /\ UNCHANGED <<row, rotatedTo, stale, ghosts>>
    BY <1>D DEF AnswerDropped, storeVars
  <2>2. Held /\ Jar /\ call \in [Callers -> Calls] /\ t \in Callers
    BY <2>1, HeldHolds DEF IInv, CallsOK, CallTyped, JarOK, Callers
  <2>3. \A k \in UnderWay' : k \in UnderWay \/ k.with \in {NoSession, cookie'}
    BY <2>1, <2>2, QuietIsCall DEF UnderWay
  <2>4. \A d \in Callers : call'[d].answer \in Sessions =>
          d # t /\ call'[d].answer = call[d].answer
    BY <2>1, <2>2, QuietIsCall, NobodyAssumption
  <2>5. CASE call[t].answer \in Sessions
    BY <2>1, <2>2, <2>3, <2>4, <2>5, JarTaken
  <2>6. CASE call[t].answer \notin Sessions
    <3>1. \A d \in Callers : call'[d].answer = call[d].answer
                             \/ {call[d].answer, call'[d].answer} \cap Sessions = {}
      BY <2>1, <2>2, <2>6, QuietIsCall, NobodyAssumption
    <3>2. cookie' = cookie
      BY <2>1, <2>6
    <3>3. QED
      BY <2>1, <2>2, <2>3, <3>1, <3>2, JarKept
  <2>7. QED
    BY <2>5, <2>6
<1>7. ASSUME NEW t \in Tabs, Reload(t) PROVE JarOK'
  <2> SUFFICES ASSUME "lost pair" \notin trouble' PROVE Jar'
    BY DEF JarOK
  <2>1. PICK kept \in PairsOf(t) \cup {cookie} :
          /\ cookie' = kept /\ PairsOf(t) \subseteq {kept}
          /\ call' = [c \in Callers |-> IF c = t THEN Opening(t, kept)
                     ELSE IF c \in FetchesOf(t) THEN Quiet ELSE call[c]]
          /\ "lost pair" \notin trouble
    BY <1>7 DEF Reload
  <2>2. PICK reached \in SUBSET OutOf(t) : ghosts' = ghosts \cup reached
    BY <1>7 DEF Reload
  <2>3. UNCHANGED <<row, rotatedTo, stale>>
    BY <1>7 DEF Reload, storeVars
  <2>4. Held /\ Jar /\ CallsOK
    BY <2>1, HeldHolds DEF IInv, JarOK
  <2>5. /\ Opening(t, kept).answer \notin Sessions /\ Quiet.answer \notin Sessions
        /\ Opening(t, kept).with \in {NoSession, kept} /\ Quiet.with = NoSession
    BY QuietIsCall, NobodyAssumption DEF Opening, Send
  <2>6. \A k \in UnderWay' : k \in UnderWay \/ k.with \in {NoSession, cookie'}
    <3>1. reached \subseteq UnderWay
      BY <2>2, <2>4, TabsCalls DEF OutOf
    <3>2. QED
      BY <2>1, <2>2, <2>5, <3>1 DEF UnderWay
  <2>7. \A d \in Callers : IF d = t \/ d \in FetchesOf(t)
                           THEN call'[d].answer \notin Sessions
                           ELSE call'[d].answer = call[d].answer
    BY <2>1, <2>5
  <2>8. \A d \in Callers : (d = t \/ d \in FetchesOf(t)) /\ call[d].answer \in Sessions =>
          call[d].answer \in PairsOf(t)
    BY DEF PairsOf, CallsOf
  <2>9. CASE PairsOf(t) = {}
    <3>1. cookie' = cookie
      BY <2>1, <2>9
    <3>2. QED
      BY <2>3, <2>4, <2>6, <2>7, <2>8, <2>9, <3>1, JarKept
  <2>10. CASE PairsOf(t) # {}
    <3>1. kept \in PairsOf(t)
      BY <2>1, <2>10
    <3>2. PICK c \in Callers : (c = t \/ c \in FetchesOf(t)) /\ call[c].answer = kept
                               /\ kept \in Sessions
      BY <3>1 DEF PairsOf, CallsOf, Callers, FetchesOf
    <3>3. QED
      BY <2>1, <2>3, <2>4, <2>6, <2>7, <3>2, JarTaken
  <2>11. QED
    BY <2>9, <2>10
<1>8. ASSUME NEW f \in Fetches, FetchSent(f) PROVE JarOK'
  BY <1>8, JarStays DEF FetchSent, storeVars, pageVars
<1>9. ASSUME NEW f \in Fetches, ServeFetch(f) PROVE JarOK'
  BY <1>9, JarStays DEF ServeFetch, storeVars, pageVars
<1>10. ASSUME NEW f \in Fetches, FetchBreaks(f) PROVE JarOK'
  BY <1>10, JarStays DEF FetchBreaks, storeVars, pageVars
<1>11. ASSUME NEW f \in Fetches, FetchReturns(f) PROVE JarOK'
  BY <1>11, JarStays DEF FetchReturns, storeVars, pageVars
<1>12. ASSUME NEW f \in Fetches, Refresh(f) PROVE JarOK'
  <2>1. CASE call' = call
    BY <1>12, <2>1, JarStays DEF Refresh, storeVars
  <2>2. CASE call' = [call EXCEPT ![f] = Send("refresh", NoGrant, cookie)]
    <3> SUFFICES ASSUME "lost pair" \notin trouble' PROVE Jar'
      BY DEF JarOK
    <3>1. /\ trouble' = trouble
          /\ UNCHANGED <<row, rotatedTo, stale, cookie, ghosts>>
      BY <1>12 DEF Refresh, storeVars
    <3>2. Held /\ Jar /\ call \in [Callers -> Calls] /\ f \in Callers
      BY <3>1, HeldHolds DEF IInv, CallsOK, CallTyped, JarOK, Callers
    <3>3. call[f].answer \notin Sessions
      BY <1>12, QuietIsCall, NobodyAssumption
         DEF Refresh, IInv, CallsOK, CallOK, TabsOK, Callers
    <3>4. /\ (Send("refresh", NoGrant, cookie)).answer \notin Sessions
          /\ (Send("refresh", NoGrant, cookie)).with \in {NoSession, cookie}
      BY NobodyAssumption DEF Send
    <3>5. \A k \in UnderWay' : k \in UnderWay \/ k.with \in {NoSession, cookie}
      BY <2>2, <3>1, <3>2, <3>4 DEF UnderWay
    <3>6. \A d \in Callers : call'[d].answer = call[d].answer
                             \/ {call[d].answer, call'[d].answer} \cap Sessions = {}
      BY <2>2, <3>1, <3>2, <3>3, <3>4
    <3>7. QED
      BY <3>1, <3>2, <3>5, <3>6, JarKept
  <2>3. QED
    BY <1>12, <2>1, <2>2 DEF Refresh
<1>13. ASSUME NEW f \in Fetches, RefreshAgain(f) PROVE JarOK'
  <2> SUFFICES ASSUME "lost pair" \notin trouble' PROVE Jar'
    BY DEF JarOK
  <2>1. /\ call' = [call EXCEPT ![f] = Send("again", NoGrant, cookie)] /\ trouble' = trouble
        /\ UNCHANGED <<row, rotatedTo, stale, cookie, ghosts>>
    BY <1>13 DEF RefreshAgain, storeVars
  <2>2. Held /\ Jar /\ call \in [Callers -> Calls] /\ f \in Callers
    BY <2>1, HeldHolds DEF IInv, CallsOK, CallTyped, JarOK, Callers
  <2>3. call[f].answer \notin Sessions
    BY <1>13, NobodyAssumption DEF RefreshAgain
  <2>4. /\ (Send("again", NoGrant, cookie)).answer \notin Sessions
        /\ (Send("again", NoGrant, cookie)).with \in {NoSession, cookie}
    BY NobodyAssumption DEF Send
  <2>5. \A k \in UnderWay' : k \in UnderWay \/ k.with \in {NoSession, cookie}
    BY <2>1, <2>2, <2>4 DEF UnderWay
  <2>6. \A d \in Callers : call'[d].answer = call[d].answer
                           \/ {call[d].answer, call'[d].answer} \cap Sessions = {}
    BY <2>1, <2>2, <2>3, <2>4
  <2>7. QED
    BY <2>1, <2>2, <2>5, <2>6, JarKept
<1>14. ASSUME NEW f \in Fetches, Refreshed(f) PROVE JarOK'
  <2> SUFFICES ASSUME "lost pair" \notin trouble' PROVE Jar'
    BY DEF JarOK
  <2>1. /\ call' = [call EXCEPT ![f] = Quiet] /\ cookie' = call[f].answer
        /\ call[f].answer \in Sessions /\ trouble' = trouble
        /\ UNCHANGED <<row, rotatedTo, stale, ghosts>>
    BY <1>14 DEF Refreshed, TakePair, storeVars
  <2>2. Held /\ Jar /\ call \in [Callers -> Calls] /\ f \in Callers
    BY <2>1, HeldHolds DEF IInv, CallsOK, CallTyped, JarOK, Callers
  <2>3. \A k \in UnderWay' : k \in UnderWay \/ k.with \in {NoSession, cookie'}
    BY <2>1, <2>2, QuietIsCall DEF UnderWay
  <2>4. \A d \in Callers : call'[d].answer \in Sessions =>
          d # f /\ call'[d].answer = call[d].answer
    BY <2>1, <2>2, QuietIsCall, NobodyAssumption
  <2>5. QED
    BY <2>1, <2>2, <2>3, <2>4, JarTaken
<1>15. ASSUME NEW f \in Fetches, NotRefreshed(f) PROVE JarOK'
  <2> SUFFICES ASSUME "lost pair" \notin trouble' PROVE Jar'
    BY DEF JarOK
  <2>1. /\ call' = [call EXCEPT ![f] = Quiet] /\ trouble' = trouble
        /\ UNCHANGED <<row, rotatedTo, stale, cookie, ghosts>>
    BY <1>15 DEF NotRefreshed, storeVars
  <2>2. Held /\ Jar /\ call \in [Callers -> Calls] /\ f \in Callers
    BY <2>1, HeldHolds DEF IInv, CallsOK, CallTyped, JarOK, Callers
  <2>3. call[f].answer \notin Sessions
    BY <1>15, NobodyAssumption DEF NotRefreshed, FinallyRefused
  <2>4. (Quiet).answer \notin Sessions /\ (Quiet).with \in {NoSession, cookie}
    BY QuietIsCall, NobodyAssumption
  <2>5. \A k \in UnderWay' : k \in UnderWay \/ k.with \in {NoSession, cookie}
    BY <2>1, <2>2, <2>4 DEF UnderWay
  <2>6. \A d \in Callers : call'[d].answer = call[d].answer
                           \/ {call[d].answer, call'[d].answer} \cap Sessions = {}
    BY <2>1, <2>2, <2>3, <2>4
  <2>7. QED
    BY <2>1, <2>2, <2>5, <2>6, JarKept
<1>16. ASSUME NEW k \in ghosts, ServeGhost(k) PROVE JarOK'
  <2> SUFFICES ASSUME "lost pair" \notin trouble' PROVE Jar'
    BY DEF JarOK
  <2>1. PICK a \in Outcomes : /\ Served(k, a)
                              /\ a \in Sessions => cookie' = a
                              /\ a \notin Sessions => cookie' = cookie
    BY <1>16 DEF ServeGhost
  <2>2. ghosts' = ghosts \ {k} /\ call' = call /\ "lost pair" \notin trouble
    BY <1>16 DEF ServeGhost
  <2>3. Does(k, a) /\ k \in UnderWay /\ Held /\ Jar
    BY <2>1, <2>2, ServedDoes, HeldHolds DEF IInv, CallsOK, CallTyped, UnderWay, JarOK
  <2>4. UnderWay' \subseteq UnderWay
    BY <2>2 DEF UnderWay
  <2>5. CASE a \in Sessions
    BY <2>1, <2>2, <2>3, <2>4, <2>5, JarGhost
  <2>6. CASE a \notin Sessions
    <3>1. UNCHANGED <<row, rotatedTo, stale, cookie>>
      BY <2>1, <2>3, <2>6, NobodyCuts DEF storeVars
    <3>2. QED
      BY <2>2, <2>3, <2>4, <3>1, JarKept
  <2>7. QED
    BY <2>5, <2>6
<1>17. ASSUME NEW s \in Sessions, Commit(s) PROVE JarOK'
  <2> SUFFICES ASSUME "lost pair" \notin trouble' PROVE Jar'
    BY DEF JarOK
  <2>1. /\ UNCHANGED <<rotatedTo, stale, cookie, ghosts, call, trouble>>
        /\ row[s] = "none" /\ row' = [row EXCEPT ![s] = "live"]
    BY <1>17 DEF Commit, Store!Open
  <2>2. Held /\ Jar /\ UnderWay' = UnderWay
    BY <2>1, HeldHolds DEF IInv, JarOK, UnderWay
  <2>3. QED
    BY <2>1, <2>2 DEF Held, Jar
<1>18. ASSUME NEW s \in Sessions, GraceEnds(s) PROVE JarOK'
  <2> SUFFICES ASSUME "lost pair" \notin trouble' PROVE Jar'
    BY DEF JarOK
  <2>1. /\ UNCHANGED <<row, rotatedTo, cookie, ghosts, call, trouble>>
        /\ row[s] = "rotated" /\ stale' = stale \cup {s}
        /\ \A k \in UnderWay : k.at # "idle" => k.with # s /\ k.answer # rotatedTo[s]
    BY <1>18 DEF GraceEnds, Store!GraceEnds, UnderWay
  <2>2. Held /\ Jar /\ UnderWay' = UnderWay
    BY <2>1, HeldHolds DEF IInv, JarOK, UnderWay
  <2>3. \A k \in UnderWay : k.at = "idle" => k.with = NoSession /\ k.answer = "none"
    BY QuietIsCall DEF IInv, CallsOK, CallOK, UnderWay
  <2>4. \A k \in UnderWay : k.with # s /\ k.answer # rotatedTo[s]
    BY <2>1, <2>2, <2>3, NobodyAssumption DEF Held, RowsOK
  <2>5. cookie # s
    BY <2>1, <2>2, <2>4 DEF Jar, UnderWay
  <2>6. QED
    BY <2>1, <2>2, <2>4, <2>5 DEF Jar
<1>19. ASSUME NEW s \in Sessions, TokenExpires(s) PROVE JarOK'
  BY <1>19, JarStays DEF TokenExpires, pageVars
<1>20. CASE UNCHANGED vars
  BY <1>20 DEF vars, storeVars, pageVars, Jar, UnderWay
<1> HIDE DEF JarOK
<1>21. QED
  BY <1>1, <1>2, <1>3, <1>4, <1>5, <1>6, <1>7, <1>8, <1>9, <1>10, <1>11, <1>12,
     <1>13, <1>14, <1>15, <1>16, <1>17, <1>18, <1>19, <1>20, <1>D DEF Next

-----------------------------------------------------------------------------
(* A tab alone.                                                            *)

\* Calls are under way for nobody else, and a refresh for nobody twice.
LEMMA OnlyHers ==
  ASSUME IInv, Shape, NEW t \in Tabs, Alone(t)
  PROVE  /\ \A u \in Tabs \ {t} : call[u].at = "idle"
         /\ \A f \in Fetches : call[f].at # "idle" =>
              /\ TabOf[f] = t /\ status[t] \in {"ready", "spent"}
              /\ call[t].at = "idle" /\ cookie # NoSession
              /\ \A g \in Fetches : call[g].at # "idle" => g = f
         /\ Callers = Tabs \cup Fetches
<1> USE DEF IInv, TabsOK, Shape
<1>1. \A u \in Tabs \ {t} : call[u].at = "idle"
  BY DEF Alone
<1>2. ASSUME NEW f \in Fetches, call[f].at # "idle"
      PROVE  /\ TabOf[f] = t /\ status[t] \in {"ready", "spent"}
             /\ call[t].at = "idle" /\ cookie # NoSession
  <2>1. bearer[TabOf[f]] # NoSession /\ TabOf[f] \in Tabs
    BY <1>2
  <2>2. status[TabOf[f]] \in {"ready", "spent"} /\ cookie # NoSession
    BY <2>1
  <2>3. QED
    BY <2>1, <2>2 DEF Alone
<1>3. QED
  BY <1>1, <1>2

\* A refresh that presents the cookie, when nothing has gone wrong, rotates it.
LEMMA RefreshServed ==
  ASSUME IInv, Shape, NEW t \in Tabs, Alone(t), AloneOK(t), NEW f \in Fetches,
         call[f].at = "out", NEW a, Served(call[f], a), Hurried(call[f].with) = {}
  PROVE  a \in Sessions
<1>1. call[f].kind = "refresh" /\ call[f].with = cookie /\ cookie # NoSession
  BY OnlyHers DEF AloneOK
<1>2. cookie \in minted /\ row[cookie] # "none" /\ cookie \in Sessions
  BY <1>1 DEF Hurried, Uncommitted, IInv, PageTyped, StoreOK, StoreTyped
<1>3. Jar /\ Held
  BY HeldHolds DEF IInv, JarOK, Alone
<1>4. row[cookie] # "rotated"
  <2>1. SUFFICES ASSUME row[cookie] = "rotated" PROVE FALSE
    OBVIOUS
  <2>2. PICK d \in Callers : call[d].answer = rotatedTo[cookie]
    BY <1>2, <1>3, <2>1 DEF Jar
  <2>3. call[d].answer \in Sessions
    BY <1>2, <1>3, <2>1, <2>2 DEF Held, RowsOK
  <2>4. call[d].at # "idle" /\ call[d].at # "out"
    BY <2>3, QuietIsCall, NobodyAssumption DEF IInv, CallsOK, CallOK
  <2>5. QED
    BY <2>4, OnlyHers
<1>5. row[cookie] = "live"
  BY <1>2, <1>3, <1>4 DEF Jar, Held
<1>6. Rotates(call[f], a)
  BY <1>1 DEF Served, Claims, Tries
<1>7. call[f].with \in Sessions /\ row[call[f].with] = "live"
  BY <1>1, <1>2, <1>5
<1>8. New(GrantOf[call[f].with], a)
  <2> HIDE DEF IInv, AloneOK
  <2>1. /\ "live" # "rotated" /\ "live" # "none" /\ "live" # "cut"
    OBVIOUS
  <2>2. ~(row[call[f].with] = "rotated") /\ ~(row[call[f].with] \in {"none", "cut"})
    BY <1>7
  <2>3. QED
    BY <1>6, <1>7, <2>2 DEF Rotates
<1>9. QED
  BY <1>7, <1>8, NewIsNew

\* What breaks is remembered.
LEMMA BreakStep ==
  ASSUME IInv, Shape, BreaksShow, [Next]_vars
  PROVE  BreaksShow'
<1> USE NobodyAssumption
        DEF Shape, BreaksShow
<1>1. ASSUME NEW c \in Callers, Serve(c) PROVE BreaksShow'
  <2>1. PICK a \in Outcomes : Served(call[c], a) /\ Answer(c, a)
    BY <1>1 DEF Serve
  <2>2. trouble \subseteq trouble' /\ fetch' = fetch
    BY <1>1 DEF Serve
  <2>3. a # "broken"
    BY <2>1, NewIsNew, NobodyAssumption DEF Served, Claims, Tries, Rotates, Opens
  <2>4. QED
    BY <2>1, <2>2, <2>3, AnswerIsCall DEF IInv, CallsOK
<1>2. ASSUME NEW c \in Callers, Break(c) PROVE BreaksShow'
  <2>1. trouble' # {}
    BY <1>2 DEF Break
  <2>2. QED
    BY <2>1
<1>3. ASSUME NEW t \in Tabs, OpenPage(t) PROVE BreaksShow'
  <2>1. call' = [call EXCEPT ![t] = Opening(t, cookie)] /\ fetch' = fetch /\ trouble' = trouble
    BY <1>3 DEF OpenPage
  <2>2. (Opening(t, cookie)).answer = "none"
    BY QuietIsCall DEF Opening, Send
  <2>3. QED
    BY <2>1, <2>2
<1>4. ASSUME NEW t \in Tabs, StartTrial(t) PROVE BreaksShow'
  <2>1. /\ call' = [call EXCEPT ![t] = Send("trial", NoGrant, NoSession)]
        /\ fetch' = fetch /\ trouble' = trouble
    BY <1>4 DEF StartTrial
  <2>2. (Send("trial", NoGrant, NoSession)).answer = "none"
    BY QuietIsCall DEF Opening, Send
  <2>3. QED
    BY <2>1, <2>2
<1>5. ASSUME NEW t \in Tabs, Opened(t) PROVE BreaksShow'
  <2>1. call' = [call EXCEPT ![t] = Quiet] /\ fetch' = fetch /\ trouble' = trouble
    BY <1>5 DEF Opened
  <2>2. (Quiet).answer = "none"
    BY QuietIsCall DEF Opening, Send
  <2>3. QED
    BY <2>1, <2>2
<1>6. ASSUME NEW t \in Tabs, NotOpened(t) PROVE BreaksShow'
  <2>1. call' = [call EXCEPT ![t] = Quiet] /\ fetch' = fetch /\ trouble' = trouble
    BY <1>6 DEF NotOpened
  <2>2. (Quiet).answer = "none"
    BY QuietIsCall DEF Opening, Send
  <2>3. QED
    BY <2>1, <2>2
<1>D. ASSUME NEW t \in Tabs, AnswerDropped(t) PROVE BreaksShow'
  <2>1. call' = [call EXCEPT ![t] = Quiet] /\ fetch' = fetch /\ trouble' = trouble
    BY <1>D DEF AnswerDropped
  <2>2. (Quiet).answer = "none"
    BY QuietIsCall
  <2>3. QED
    BY <2>1, <2>2
<1>7. ASSUME NEW t \in Tabs, Reload(t) PROVE BreaksShow'
  <2>1. trouble' # {}
    BY <1>7 DEF Reload
  <2>2. QED
    BY <2>1
<1>8. ASSUME NEW f \in Fetches, FetchSent(f) PROVE BreaksShow'
  <2>1. fetch'[f].answer = fetch[f].answer /\ \A h \in Fetches \ {f} : fetch'[h] = fetch[h]
    BY <1>8 DEF FetchSent
  <2>2. QED
    BY <1>8, <2>1 DEF FetchSent
<1>9. ASSUME NEW f \in Fetches, ServeFetch(f) PROVE BreaksShow'
  <2>1. fetch'[f].answer # "broken" /\ \A h \in Fetches \ {f} : fetch'[h] = fetch[h]
    BY <1>9 DEF ServeFetch
  <2>2. QED
    BY <1>9, <2>1 DEF ServeFetch
<1>10. ASSUME NEW f \in Fetches, FetchBreaks(f) PROVE BreaksShow'
  <2>1. trouble' # {}
    BY <1>10 DEF FetchBreaks
  <2>2. QED
    BY <2>1
<1>11. ASSUME NEW f \in Fetches, FetchReturns(f) PROVE BreaksShow'
  BY <1>11, DoneIsState DEF FetchReturns
<1>12. ASSUME NEW f \in Fetches, Refresh(f) PROVE BreaksShow'
  <2>1. /\ fetch'[f].answer = fetch[f].answer /\ \A h \in Fetches \ {f} : fetch'[h] = fetch[h]
        /\ trouble' = trouble
        /\ call' \in {call, [call EXCEPT ![f] = Send("refresh", NoGrant, cookie)]}
    BY <1>12 DEF Refresh
  <2>2. Send("refresh", NoGrant, cookie).answer = "none"
    BY DEF Send
  <2>3. QED
    BY <2>1, <2>2
<1>13. ASSUME NEW f \in Fetches, RefreshAgain(f) PROVE BreaksShow'
  <2>1. /\ call' = [call EXCEPT ![f] = Send("again", NoGrant, cookie)]
        /\ fetch' = fetch /\ trouble' = trouble
    BY <1>13 DEF RefreshAgain
  <2>2. (Send("again", NoGrant, cookie)).answer = "none"
    BY QuietIsCall DEF Opening, Send
  <2>3. QED
    BY <2>1, <2>2
<1>14. ASSUME NEW f \in Fetches, Refreshed(f) PROVE BreaksShow'
  <2>1. call' = [call EXCEPT ![f] = Quiet] /\ trouble' = trouble
    BY <1>14 DEF Refreshed
  <2>2. \A h \in Fetches : fetch'[h] = fetch[h] \/ fetch'[h].answer = "none"
    BY <1>14, DoneIsState DEF Refreshed
  <2>3. QED
    BY <2>1, <2>2, QuietIsCall
<1>15. ASSUME NEW f \in Fetches, NotRefreshed(f) PROVE BreaksShow'
  <2>1. call' = [call EXCEPT ![f] = Quiet] /\ trouble' = trouble
    BY <1>15 DEF NotRefreshed
  <2>2. \A h \in Fetches : fetch'[h] = fetch[h] \/ fetch'[h].answer = "none"
    BY <1>15, DoneIsState DEF NotRefreshed
  <2>3. QED
    BY <2>1, <2>2, QuietIsCall
<1>16. ASSUME NEW k \in ghosts, ServeGhost(k) PROVE BreaksShow'
  BY <1>16 DEF ServeGhost
<1>17. ASSUME NEW s \in Sessions, Commit(s) PROVE BreaksShow'
  BY <1>17 DEF Commit
<1>18. ASSUME NEW s \in Sessions, GraceEnds(s) PROVE BreaksShow'
  BY <1>18 DEF GraceEnds
<1>19. ASSUME NEW s \in Sessions, TokenExpires(s) PROVE BreaksShow'
  BY <1>19 DEF TokenExpires
<1>20. CASE UNCHANGED vars
  BY <1>20 DEF vars, storeVars, pageVars
<1> HIDE DEF BreaksShow
<1>21. QED
  BY <1>1, <1>2, <1>3, <1>4, <1>5, <1>6, <1>7, <1>8, <1>9, <1>10, <1>11, <1>12,
     <1>13, <1>14, <1>15, <1>16, <1>17, <1>18, <1>19, <1>20, <1>D DEF Next

\* A lone tab is refused nothing it has been promised.
LEMMA AloneStep ==
  ASSUME IInv, Shape, BreaksShow, LoneOK, [Next]_vars
  PROVE  LoneOK'
<1> USE DEF Shape
<1>1. ASSUME NEW c \in Callers, Serve(c) PROVE LoneOK'
  <2> SUFFICES ASSUME NEW z \in Tabs, Alone(z)' PROVE AloneOK(z)'
    BY DEF LoneOK
  <2>1. PICK a \in Outcomes : Served(call[c], a) /\ Answer(c, a)
    BY <1>1 DEF Serve
  <2>2. /\ call[c].at = "out" /\ trouble' = trouble \cup Hurried(call[c].with)
        /\ UNCHANGED <<cookie, ghosts, status>>
    BY <1>1 DEF Serve, pageVars
  <2>3. Alone(z) /\ AloneOK(z) /\ Hurried(call[c].with) = {}
    BY <2>2 DEF Alone, LoneOK
  <2>4. /\ call'[c].at = "back" /\ call'[c].answer = a
        /\ \A d \in Callers \ {c} : call'[d] = call[d]
    BY <2>1, AnswerIsCall DEF IInv, CallsOK
  <2>5. CASE c = z
    <3>1. a # "conflict" /\ status[z] # "closed" /\ \A f \in Fetches : call[f].at = "idle"
      <4>1. a # "conflict"
        BY <2>1, <2>2, <2>3, <2>5, NewIsNew, NobodyAssumption
           DEF AloneOK, Served, Claims, Tries, Rotates, Opens
      <4>2. QED
        BY <2>2, <2>3, <2>5, <4>1, OnlyHers DEF IInv, TabsOK
    <3>2. QED
      BY <2>2, <2>3, <2>4, <2>5, <3>1 DEF AloneOK
  <2>6. CASE c # z
    <3>1. /\ c \in Fetches /\ TabOf[c] = z /\ status[z] # "closed" /\ call[z].at = "idle"
          /\ \A f \in Fetches \ {c} : call[f].at = "idle"
      BY <2>2, <2>3, <2>6, OnlyHers
    <3>2. a \in Sessions
      BY <2>1, <2>2, <2>3, <3>1, RefreshServed
    <3>3. QED
      BY <2>2, <2>3, <2>4, <2>6, <3>1, <3>2 DEF AloneOK
  <2>7. QED
    BY <2>5, <2>6
<1>2. ASSUME NEW c \in Callers, Break(c) PROVE LoneOK'
  <2> SUFFICES ASSUME NEW z \in Tabs, Alone(z)' PROVE AloneOK(z)'
    BY DEF LoneOK
  <2>1. trouble' # {}
    BY <1>2 DEF Break
  <2>2. QED
    BY <2>1 DEF Alone
<1>3. ASSUME NEW t \in Tabs, OpenPage(t) PROVE LoneOK'
  <2> SUFFICES ASSUME NEW z \in Tabs, Alone(z)' PROVE AloneOK(z)'
    BY DEF LoneOK
  <2>1. /\ call' = [call EXCEPT ![t] = Opening(t, cookie)] /\ status[t] = "closed"
        /\ status' = [status EXCEPT ![t] = "loading"]
        /\ UNCHANGED <<trouble, cookie, ghosts, spent>>
    BY <1>3 DEF OpenPage, storeVars
  <2>2. Alone(z) /\ AloneOK(z) /\ t = z
    BY <2>1 DEF Alone, LoneOK
  <2>3. cookie = NoSession
    BY <2>1, <2>2 DEF AloneOK, IInv, PageTyped
  <2>4. /\ Opening(t, cookie).at = "out" /\ Opening(t, cookie).with = NoSession
    BY <2>3 DEF Opening, Send
  <2>5. QED
    BY <2>1, <2>2, <2>4 DEF AloneOK
<1>4. ASSUME NEW t \in Tabs, StartTrial(t) PROVE LoneOK'
  <2> SUFFICES ASSUME NEW z \in Tabs, Alone(z)' PROVE AloneOK(z)'
    BY DEF LoneOK
  <2>1. /\ call' = [call EXCEPT ![t] = Send("trial", NoGrant, NoSession)]
        /\ status' = [status EXCEPT ![t] = "loading"] /\ status[t] = "none"
        /\ UNCHANGED <<trouble, cookie, ghosts, spent>>
    BY <1>4 DEF StartTrial, storeVars
  <2>2. Alone(z) /\ AloneOK(z) /\ t = z
    BY <2>1 DEF Alone, LoneOK
  <2>3. LET k == Send("trial", NoGrant, NoSession)
        IN  k.at = "out" /\ k.with = NoSession /\ k.kind = "trial"
    BY DEF Send
  <2>4. QED
    BY <2>1, <2>2, <2>3 DEF AloneOK
<1>5. ASSUME NEW t \in Tabs, Opened(t) PROVE LoneOK'
  <2> SUFFICES ASSUME NEW z \in Tabs, Alone(z)' PROVE AloneOK(z)'
    BY DEF LoneOK
  <2>1. /\ status' = [status EXCEPT ![t] = "ready"]
        /\ call' = [call EXCEPT ![t] = Quiet] /\ call[t].at = "back"
        /\ UNCHANGED <<trouble, ghosts, spent, minted>>
    BY <1>5 DEF Opened, storeVars
  <2>2. Alone(z) /\ AloneOK(z) /\ t = z
    BY <2>1 DEF Alone, LoneOK, IInv, TabsOK
  <2>3. \A f \in Fetches : call'[f].at = "idle"
    BY <2>1, <2>2, OnlyHers, QuietIsCall
  <2>4. QED
    BY <2>1, <2>2, <2>3, QuietIsCall DEF AloneOK
<1>6. ASSUME NEW t \in Tabs, NotOpened(t) PROVE LoneOK'
  <2> SUFFICES ASSUME NEW z \in Tabs, Alone(z)' PROVE AloneOK(z)'
    BY DEF LoneOK
  <2>1. /\ \E s \in {"spent", "error", "none"} :
             /\ status' = [status EXCEPT ![t] = s]
             /\ s = "spent" => call[t].answer = "conflict"
        /\ call' = [call EXCEPT ![t] = Quiet] /\ call[t].at = "back"
        /\ UNCHANGED <<trouble, ghosts, spent, minted>>
    BY <1>6 DEF NotOpened, storeVars
  <2>2. Alone(z) /\ AloneOK(z) /\ t = z
    BY <2>1 DEF Alone, LoneOK, IInv, TabsOK
  <2>3. \A f \in Fetches : call'[f].at = "idle"
    BY <2>1, <2>2, OnlyHers, QuietIsCall
  <2>4. QED
    BY <2>1, <2>2, <2>3, QuietIsCall DEF AloneOK
<1>D. ASSUME NEW t \in Tabs, AnswerDropped(t) PROVE LoneOK'
  <2> SUFFICES ASSUME NEW z \in Tabs, Alone(z)' PROVE AloneOK(z)'
    BY DEF LoneOK
  <2>1. /\ call' = [call EXCEPT ![t] = Quiet] /\ call[t].at = "back"
        /\ UNCHANGED <<trouble, ghosts, status, spent, minted>>
    BY <1>D DEF AnswerDropped, storeVars
  <2>2. Alone(z) /\ AloneOK(z) /\ t = z
    BY <2>1, OnlyHers DEF Alone, LoneOK
  <2>3. \A f \in Fetches : call'[f].at = "idle"
    BY <2>1, <2>2, OnlyHers, QuietIsCall
  <2>4. QED
    BY <2>1, <2>2, <2>3, QuietIsCall DEF AloneOK
<1>7. ASSUME NEW t \in Tabs, Reload(t) PROVE LoneOK'
  <2> SUFFICES ASSUME NEW z \in Tabs, Alone(z)' PROVE AloneOK(z)'
    BY DEF LoneOK
  <2>1. trouble' # {}
    BY <1>7 DEF Reload
  <2>2. QED
    BY <2>1 DEF Alone
<1>8. ASSUME NEW f \in Fetches, FetchSent(f) PROVE LoneOK'
  <2> SUFFICES ASSUME NEW z \in Tabs, Alone(z)' PROVE AloneOK(z)'
    BY DEF LoneOK
  <2>1. /\ UNCHANGED <<ghosts, status, spent, minted, call, cookie>>
        /\ trouble \subseteq trouble'
    BY <1>8 DEF FetchSent, storeVars, pageVars
  <2>2. QED
    BY <2>1 DEF Alone, LoneOK, AloneOK
<1>9. ASSUME NEW f \in Fetches, ServeFetch(f) PROVE LoneOK'
  <2> SUFFICES ASSUME NEW z \in Tabs, Alone(z)' PROVE AloneOK(z)'
    BY DEF LoneOK
  <2>1. /\ UNCHANGED <<ghosts, status, spent, minted, call, cookie>>
        /\ trouble \subseteq trouble'
    BY <1>9 DEF ServeFetch, storeVars, pageVars
  <2>2. QED
    BY <2>1 DEF Alone, LoneOK, AloneOK
<1>10. ASSUME NEW f \in Fetches, FetchBreaks(f) PROVE LoneOK'
  <2> SUFFICES ASSUME NEW z \in Tabs, Alone(z)' PROVE AloneOK(z)'
    BY DEF LoneOK
  <2>1. trouble' # {}
    BY <1>10 DEF FetchBreaks
  <2>2. QED
    BY <2>1 DEF Alone
<1>11. ASSUME NEW f \in Fetches, FetchReturns(f) PROVE LoneOK'
  <2> SUFFICES ASSUME NEW z \in Tabs, Alone(z)' PROVE AloneOK(z)'
    BY DEF LoneOK
  <2>1. /\ UNCHANGED <<ghosts, spent, minted, call, cookie, trouble>>
        /\ fetch[f].answer # "broken" => status' = status
    BY <1>11 DEF FetchReturns, storeVars
  <2>2. status' = status
    BY <2>1 DEF Alone, BreaksShow
  <2>3. QED
    BY <2>1, <2>2 DEF Alone, LoneOK, AloneOK
<1>12. ASSUME NEW f \in Fetches, Refresh(f) PROVE LoneOK'
  <2> SUFFICES ASSUME NEW z \in Tabs, Alone(z)' PROVE AloneOK(z)'
    BY DEF LoneOK
  <2>1. /\ UNCHANGED <<ghosts, status, spent, minted, cookie, trouble>>
        /\ call' \in {call, [call EXCEPT ![f] = Send("refresh", NoGrant, cookie)]}
    BY <1>12 DEF Refresh, storeVars, pageVars
  <2>2. LET k == Send("refresh", NoGrant, cookie)
        IN  k.at = "out" /\ k.with = cookie /\ k.kind = "refresh"
    BY DEF Send
  <2>3. QED
    BY <2>1, <2>2 DEF Alone, LoneOK, AloneOK
<1>13. ASSUME NEW f \in Fetches, RefreshAgain(f) PROVE LoneOK'
  <2> SUFFICES ASSUME NEW z \in Tabs, Alone(z)' PROVE AloneOK(z)'
    BY DEF LoneOK
  <2>1. /\ UNCHANGED <<status, trouble>> /\ call[f].at = "back" /\ call[f].answer = "conflict"
    BY <1>13 DEF RefreshAgain, pageVars
  <2>2. AloneOK(z)
    BY <2>1 DEF Alone, LoneOK
  <2>3. QED
    BY <2>1, <2>2, NobodyAssumption DEF AloneOK
<1>14. ASSUME NEW f \in Fetches, Refreshed(f) PROVE LoneOK'
  <2> SUFFICES ASSUME NEW z \in Tabs, Alone(z)' PROVE AloneOK(z)'
    BY DEF LoneOK
  <2>1. /\ call' = [call EXCEPT ![f] = Quiet] /\ call[f].at = "back"
        /\ UNCHANGED <<ghosts, status, spent, minted, trouble>>
    BY <1>14 DEF Refreshed, storeVars
  <2>2. Alone(z) /\ AloneOK(z)
    BY <2>1 DEF Alone, LoneOK
  <2>3. status[z] # "closed" /\ call'[z].at = "idle" /\ \A g \in Fetches : call'[g].at = "idle"
    BY <2>1, <2>2, OnlyHers, QuietIsCall
  <2>4. QED
    BY <2>1, <2>2, <2>3 DEF AloneOK
<1>15. ASSUME NEW f \in Fetches, NotRefreshed(f) PROVE LoneOK'
  <2> SUFFICES ASSUME NEW z \in Tabs, Alone(z)' PROVE AloneOK(z)'
    BY DEF LoneOK
  <2>1. /\ status' = [status EXCEPT ![TabOf[f]] = "spent"] /\ trouble' = trouble
        /\ call[f].at = "back" /\ call[f].answer \notin Sessions
    BY <1>15, NobodyAssumption DEF NotRefreshed, FinallyRefused
  <2>2. bearer[TabOf[f]] # NoSession /\ status[TabOf[f]] # "closed"
    BY <2>1 DEF IInv, TabsOK
  <2>3. AloneOK(z)
    BY <2>1, <2>2 DEF Alone, LoneOK
  <2>4. QED
    BY <2>1, <2>3 DEF AloneOK
<1>16. ASSUME NEW k \in ghosts, ServeGhost(k) PROVE LoneOK'
  <2> SUFFICES ASSUME NEW z \in Tabs, Alone(z)' PROVE AloneOK(z)'
    BY DEF LoneOK
  <2>1. status' = status /\ trouble \subseteq trouble' /\ ghosts # {}
    BY <1>16 DEF ServeGhost, pageVars
  <2>2. QED
    BY <2>1 DEF Alone, LoneOK, AloneOK
<1>17. ASSUME NEW s \in Sessions, Commit(s) PROVE LoneOK'
  <2> SUFFICES ASSUME NEW z \in Tabs, Alone(z)' PROVE AloneOK(z)'
    BY DEF LoneOK
  <2>1. /\ UNCHANGED <<ghosts, status, spent, minted, call, cookie>>
        /\ trouble \subseteq trouble'
    BY <1>17 DEF Commit, storeVars, pageVars
  <2>2. QED
    BY <2>1 DEF Alone, LoneOK, AloneOK
<1>18. ASSUME NEW s \in Sessions, GraceEnds(s) PROVE LoneOK'
  <2> SUFFICES ASSUME NEW z \in Tabs, Alone(z)' PROVE AloneOK(z)'
    BY DEF LoneOK
  <2>1. /\ UNCHANGED <<ghosts, status, spent, minted, call, cookie>>
        /\ trouble \subseteq trouble'
    BY <1>18 DEF GraceEnds, storeVars, pageVars
  <2>2. QED
    BY <2>1 DEF Alone, LoneOK, AloneOK
<1>19. ASSUME NEW s \in Sessions, TokenExpires(s) PROVE LoneOK'
  <2> SUFFICES ASSUME NEW z \in Tabs, Alone(z)' PROVE AloneOK(z)'
    BY DEF LoneOK
  <2>1. /\ UNCHANGED <<ghosts, status, spent, minted, call, cookie>>
        /\ trouble \subseteq trouble'
    BY <1>19 DEF TokenExpires, storeVars, pageVars
  <2>2. QED
    BY <2>1 DEF Alone, LoneOK, AloneOK
<1>20. CASE UNCHANGED vars
  BY <1>20 DEF vars, storeVars, pageVars, LoneOK, Alone, AloneOK
<1>21. QED
  BY <1>1, <1>2, <1>3, <1>4, <1>5, <1>6, <1>7, <1>8, <1>9, <1>10, <1>11, <1>12,
     <1>13, <1>14, <1>15, <1>16, <1>17, <1>18, <1>19, <1>20, <1>D DEF Next

-----------------------------------------------------------------------------
(* The theorems.                                                           *)

\* The invariant the rest follows from: it holds at first, and every step keeps it.
THEOREM Inductive == Spec => []IInv
<1>1. Init => IInv
  <2> SUFFICES ASSUME Init PROVE IInv
    OBVIOUS
  <2>1. \A c \in Callers : call[c] = Quiet
    BY DEF Init
  <2>2. \A f \in Fetches : fetch[f] = Unsent /\ fetch[f].at = "unsent"
    BY DEF Init, Unsent
  <2>3. StoreOK
    BY DEF Init, StoreOK, StoreTyped, RowsOK
  <2>4. CallsOK
    BY <2>1, QuietIsCall, NobodyAssumption DEF Init, CallsOK, CallTyped, CallOK
  <2>5. FetchTyped
    BY DEF Init, FetchTyped, FetchStates, Unsent
  <2>6. PageTyped
    BY OwnersAssumption, ReloadsAssumption DEF Init, PageTyped
  <2>7. TabsOK
    <3>1. Tabs \subseteq Callers /\ Fetches \subseteq Callers
      BY DEF Callers
    <3>2. \A c \in Callers : call[c].at = "idle"
      BY <2>1, QuietIsCall
    <3>3. /\ \A t \in Tabs : status[t] = "closed" /\ bearer[t] = NoSession
      BY DEF Init
    <3>4. QED
      BY <2>2, <3>1, <3>2, <3>3 DEF TabsOK
  <2>8. JarOK
    <3>1. \A c \in Callers : call[c].answer \notin Sessions
      BY <2>1, QuietIsCall, NobodyAssumption
    <3>2. QED
      BY <3>1, NobodyAssumption DEF Init, JarOK, Jar
  <2>9. QED
    BY <2>3, <2>4, <2>5, <2>6, <2>7, <2>8 DEF IInv
<1>2. IInv /\ [Next]_vars => IInv'
  <2> SUFFICES ASSUME IInv, [Next]_vars PROVE IInv'
    OBVIOUS
  <2>1. Shape /\ TabsOK /\ JarOK
    BY ShapeHolds DEF IInv
  <2>2. StoreOK' /\ CallsOK' /\ FetchTyped' /\ PageTyped'
    BY StoreStep, CallsStep, FetchStep, PageStep
  <2>3. TabsOK' /\ JarOK'
    BY <2>1, TabsStep, JarStep
  <2>4. QED
    BY <2>2, <2>3 DEF IInv
<1>3. QED
  BY <1>1, <1>2, PTL DEF Spec

\* Every variable holds a value of its type in every reachable state: so the
\* cookie, the access tokens and what a fetch carries are of minted sessions.
THEOREM TypeCorrect == Spec => []TypeOK
<1>1. IInv => TypeOK
  BY TypeParts DEF IInv, StoreOK, CallsOK
<1>2. QED
  BY <1>1, Inductive, PTL

\* A fetch that shares a refresh waits for one that is under way, and a tab that
\* is loading for its own call, unless its opening was cleaned up.
THEOREM NobodyWaits == Spec => []NobodyLeftWaiting
<1>1. IInv => NobodyLeftWaiting
  <2> SUFFICES ASSUME IInv PROVE NobodyLeftWaiting
    OBVIOUS
  <2>1. ASSUME NEW f \in Fetches, fetch[f].at = "waiting"
        PROVE  InFlight(TabOf[f]) # {}
    <3>1. PICK g \in Fetches : TabOf[g] = TabOf[f] /\ call[g].at # "idle"
      BY <2>1 DEF IInv, TabsOK
    <3>2. g \in InFlight(TabOf[f])
      BY <3>1 DEF InFlight, FetchesOf
    <3>3. QED
      BY <3>2
  <2>2. \A t \in Tabs : status[t] = "loading" /\ t \notin dropped => call[t].at # "idle"
    BY DEF IInv, TabsOK
  <2>3. QED
    BY <2>1, <2>2 DEF NobodyLeftWaiting
<1>2. QED
  BY <1>1, Inductive, PTL

\* No grant's sessions are cut unless an answer was lost with its pair.
THEOREM OnlyLostCuts == Spec => []OnlyLostAnswersCut
<1>1. IInv => OnlyLostAnswersCut
  BY DEF IInv, JarOK, Jar, OnlyLostAnswersCut
<1>2. QED
  BY <1>1, Inductive, PTL

\* With nothing under way, the cookie is of a live session unless a pair was lost.
THEOREM JarIsGood == Spec => []JarGoodAtRest
<1>1. IInv => JarGoodAtRest
  <2> SUFFICES ASSUME IInv, Resting, "lost pair" \notin trouble, cookie # NoSession
               PROVE  row[cookie] = "live"
    BY DEF JarGoodAtRest
  <2>1. Jar /\ Held
    BY HeldHolds DEF IInv, JarOK
  <2>2. cookie \in minted /\ cookie \in Sessions
    BY <2>1 DEF Held
  <2>3. row[cookie] # "none"
    BY <2>2 DEF Resting, Uncommitted
  <2>4. row[cookie] # "cut"
    BY <2>1, <2>2 DEF Jar
  <2>5. \A c \in Callers : call[c].answer = "none"
    BY QuietIsCall DEF Resting, IInv, CallsOK, CallOK
  <2>6. row[cookie] # "rotated"
    <3>1. SUFFICES ASSUME row[cookie] = "rotated" PROVE FALSE
      OBVIOUS
    <3>2. rotatedTo[cookie] \in Sessions
      BY <2>1, <2>2, <3>1 DEF Held, RowsOK
    <3>3. PICK c \in Callers : call[c].answer = rotatedTo[cookie]
      BY <2>1, <2>2, <3>1 DEF Jar
    <3>4. QED
      BY <2>5, <3>2, <3>3, NobodyAssumption
  <2>7. row[cookie] \in {"none", "live", "rotated", "cut"}
    BY <2>1, <2>2 DEF Held
  <2>8. QED
    BY <2>3, <2>4, <2>6, <2>7
<1>2. QED
  BY <1>1, Inductive, PTL

\* A tab alone in its browser is never told that its session is over while
\* nothing has gone wrong outside it.
THEOREM LoneStays == Spec => []LoneTabStaysIn
<1>1. Init => BreaksShow /\ LoneOK
  <2> SUFFICES ASSUME Init PROVE BreaksShow /\ LoneOK
    OBVIOUS
  <2>1. \A c \in Callers : call[c].at = "idle" /\ call[c].answer = "none"
    BY QuietIsCall DEF Init
  <2>2. \A f \in Fetches : fetch[f].answer = "none"
    BY DEF Init, Unsent
  <2>3. Tabs \subseteq Callers /\ Fetches \subseteq Callers
    BY DEF Callers
  <2>4. BreaksShow
    BY <2>1, <2>2 DEF BreaksShow
  <2>5. ghosts = {} /\ spent = {} /\ minted = {} /\ \A t \in Tabs : status[t] = "closed"
    BY DEF Init
  <2>6. LoneOK
    BY <2>1, <2>3, <2>5 DEF LoneOK, AloneOK
  <2>7. QED
    BY <2>4, <2>6
<1>2. IInv /\ BreaksShow /\ LoneOK /\ [Next]_vars => (BreaksShow /\ LoneOK)'
  BY ShapeHolds, BreakStep, AloneStep
<1>3. LoneOK => LoneTabStaysIn
  BY DEF LoneOK, Alone, AloneOK, LoneTabStaysIn
<1>4. QED
  BY <1>1, <1>2, <1>3, Inductive, PTL DEF Spec
===============================================================================
