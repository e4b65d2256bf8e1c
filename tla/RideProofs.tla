------------------------------ MODULE RideProofs ------------------------------
(***************************************************************************)
(* Proofs about the parts of MCRide: the releases of the page, for any       *)
(* number of tabs and releases; the browser sessions of SignIn, for any      *)
(* number of attempts, logouts and callbacks; the relay credentials of       *)
(* TurnLease, for every length of the second, the lifetime, the margin and   *)
(* the pause that its assumptions allow, and any number of open fetches.     *)
(* RoomStore, PlaybackControl and TalkFloor have modules of their own.       *)
(***************************************************************************)
EXTENDS MCRide, RoomStoreProofs, PlaybackControlProofs, TalkFloorProofs

-----------------------------------------------------------------------------
(* The releases of the page *)

\* What a page still has ahead of it.  On its way through the bootstrap it has
\* at most one reload behind it, and none if it is of a release that is not
\* deployed any more; a second one leads to an address that settles it.
OnItsWay(p) ==
    /\ p.phase \in {"looking", "clearing", "emptying"} =>
          p.again <= 1 /\ (p.release # deployed => p.again = 0)
    /\ p.phase = "loading" /\ p.again = 2 => ~p.clean /\ p.mark = deployed

\* A page that has a reason to reload has done so not once since that reason.
WithReason(p) ==
    /\ p.phase \in {"booted", "broken"}
          /\ (p.release # deployed \/ p.remote # NoRelease \/ p.updating) => p.again = 0
    /\ p.remote # NoRelease => p.phase = "booted"
    /\ p.updating => p.phase \in {"booted", "broken"}

Bounded(p) == p.again <= 2 /\ OnItsWay(p) /\ WithReason(p)

ReloadInv == ReleaseTypeOK /\ \A t \in Tabs : Bounded(tab[t])

-----------------------------------------------------------------------------
\* A page that loads has nothing but its address and the count.
LEMMA LoadingPage ==
    ASSUME NEW clean \in BOOLEAN, NEW mark \in ReleaseIds, NEW again \in Nat
    PROVE  /\ Loading(clean, mark, again) \in Pages
           /\ Loading(clean, mark, again).phase = "loading"
           /\ Loading(clean, mark, again).clean = clean
           /\ Loading(clean, mark, again).mark = mark
           /\ Loading(clean, mark, again).again = again
           /\ Loading(clean, mark, again).remote = NoRelease
           /\ ~Loading(clean, mark, again).updating
BY DEF Loading, Closed, Pages, ReleaseIds

\* The first reload, whatever the address; and a load the rider has asked for.
LEMMA FirstReload ==
    ASSUME NEW clean \in BOOLEAN, NEW mark \in ReleaseIds, NEW again \in {0, 1}
    PROVE  Loading(clean, mark, again) \in Pages /\ Bounded(Loading(clean, mark, again))
BY LoadingPage DEF Bounded, OnItsWay, WithReason

\* What a new worker's claim makes of a page.
LEMMA ClaimKeeps ==
    ASSUME NEW p \in Pages, Bounded(p)
    PROVE  Claimed(p) \in Pages /\ Bounded(Claimed(p))
<1>1. CASE ~p.updating
  BY <1>1 DEF Claimed
<1>2. CASE p.updating
  <2>1. p.again = 0
    BY <1>2 DEF Bounded, WithReason
  <2>2. p.clean \in BOOLEAN /\ p.mark \in ReleaseIds
    BY DEF Pages
  <2>3. Claimed(p) = Loading(p.clean, p.mark, 1)
    BY <1>2, <2>1 DEF Claimed, Anew
  <2> QED BY <2>2, <2>3, FirstReload
<1> QED BY <1>1, <1>2

\* Replacing the page of one tab.
LEMMA OneTab ==
    ASSUME ReloadInv, NEW t \in Tabs, NEW p \in Pages, Bounded(p),
           tab' = [tab EXCEPT ![t] = p], UNCHANGED deployed
    PROVE  /\ tab' \in [Tabs -> Pages]
           /\ \A s \in Tabs : Bounded(tab[s])'
BY DEF ReloadInv, ReleaseTypeOK, Bounded, OnItsWay, WithReason

\* A tab that is closed.
LEMMA ClosedPage == Closed \in Pages /\ Bounded(Closed)
<1>1. /\ Closed \in Pages
      /\ Closed.phase = "closed" /\ Closed.again = 0
      /\ Closed.remote = NoRelease /\ ~Closed.updating
  BY DEF Closed, Pages, ReleaseIds
<1> QED BY <1>1 DEF Bounded, OnItsWay, WithReason

\* No tab is open.
LEMMA ReleaseInitInv == ReleaseInit => ReloadInv
<1> SUFFICES ASSUME ReleaseInit PROVE ReloadInv
  OBVIOUS
<1>1. \A t \in Tabs : tab[t] = Closed
  BY DEF ReleaseInit
<1>2. ReleaseTypeOK
  BY ClosedPage DEF ReleaseInit, ReleaseTypeOK, ReleaseIds, NoWorker
<1> QED BY <1>1, <1>2, ClosedPage DEF ReloadInv

\* The bootstrap of one page, step by step.
LEMMA BootstrapStep ==
    ASSUME ReloadInv, NEW t \in Tabs,
           Open(t) \/ Close(t) \/ LoadFails(t) \/ Load(t) \/ Look(t) \/ Unregister(t) \/ Empty(t)
    PROVE  ReloadInv'
<1> DEFINE p == tab[t]
<1>1. p \in Pages /\ Bounded(p)
  BY DEF ReloadInv, ReleaseTypeOK
<1>2. /\ p.clean \in BOOLEAN /\ p.mark \in ReleaseIds /\ p.again \in Nat
      /\ p.release \in ReleaseIds /\ deployed \in Releases /\ deployed \in ReleaseIds
  BY <1>1 DEF Pages, ReloadInv, ReleaseTypeOK, ReleaseIds
<1>3. ASSUME Open(t) PROVE ReloadInv'
  <2>1. PICK clean \in BOOLEAN, mark \in ReleaseIds :
          tab' = [tab EXCEPT ![t] = Loading(clean, mark, 0)]
    BY <1>2, <1>3 DEF Open, ReleaseIds
  <2> QED BY <1>3, <2>1, FirstReload, OneTab DEF Open, ReloadInv, ReleaseTypeOK
<1>4. ASSUME Close(t) PROVE ReloadInv'
  BY <1>4, ClosedPage, OneTab DEF Close, ReloadInv, ReleaseTypeOK
<1>5. ASSUME LoadFails(t) PROVE ReloadInv'
  <2> DEFINE q == [p EXCEPT !.phase = "broken", !.again = 0]
  <2>1. p.phase = "loading" /\ p.remote = NoRelease
    BY <1>1, <1>5 DEF LoadFails, Bounded, WithReason
  <2>2. /\ q \in Pages
        /\ q.phase = "broken" /\ q.again = 0 /\ q.remote = p.remote
    BY <1>1 DEF Pages
  <2>3. q \in Pages /\ Bounded(q)
    BY <2>1, <2>2 DEF Bounded, OnItsWay, WithReason
  <2>4. tab' = [tab EXCEPT ![t] = q]
    BY <1>5 DEF LoadFails
  <2> HIDE DEF q
  <2> QED BY <1>5, <2>3, <2>4, OneTab DEF LoadFails, ReloadInv, ReleaseTypeOK
<1>6. ASSUME Load(t) PROVE ReloadInv'
  <2> DEFINE q == [p EXCEPT !.release = deployed]
  <2>1. p.phase = "loading" /\ p.remote = NoRelease /\ p.updating = FALSE
    BY <1>1, <1>6 DEF Load, Bounded, WithReason, Pages
  <2>2. storedRelease' \in ReleaseIds
    BY <1>2, <1>6 DEF Load, Remember, ReloadInv, ReleaseTypeOK
  <2>3. ASSUME NEW phase \in {"booted", "broken"}
        PROVE  [[q EXCEPT !.mark = NoRelease] EXCEPT !.phase = phase] \in Pages
               /\ Bounded([[q EXCEPT !.mark = NoRelease] EXCEPT !.phase = phase])
    BY <1>1, <1>2, <2>1 DEF Pages, ReleaseIds, Bounded, OnItsWay, WithReason
  <2>4. ASSUME ~Settled(q, deployed)
        PROVE  [q EXCEPT !.phase = "looking"] \in Pages /\ Bounded([q EXCEPT !.phase = "looking"])
    <3> DEFINE r == [q EXCEPT !.phase = "looking"]
    <3>1. p.again <= 1
      BY <1>1, <1>2, <2>1, <2>4 DEF Settled, Pages, Bounded, OnItsWay
    <3>2. /\ r \in Pages
          /\ r.phase = "looking" /\ r.release = deployed /\ r.again = p.again
          /\ r.remote = p.remote /\ r.updating = p.updating
      BY <1>1, <1>2 DEF Pages
    <3>3. Bounded(r)
      BY <1>2, <2>1, <3>1, <3>2 DEF Bounded, OnItsWay, WithReason
    <3> QED BY <3>2, <3>3
  <2>5. PICK r \in Pages : Bounded(r) /\ tab' = [tab EXCEPT ![t] = r]
    BY <1>6, <2>3, <2>4 DEF Load, Boots
  <2> QED BY <1>6, <2>2, <2>5, OneTab DEF Load, ReloadInv, ReleaseTypeOK
<1>7. ASSUME Look(t) PROVE ReloadInv'
  <2>1. p.phase = "looking" /\ p.remote = NoRelease /\ p.updating = FALSE
    BY <1>1, <1>7 DEF Look, Bounded, WithReason, Pages
  <2>2. storedRelease' \in ReleaseIds
    BY <1>2, <1>7 DEF Look, Remember, ReloadInv, ReleaseTypeOK
  <2>3. ASSUME NEW phase \in {"booted", "broken"}
        PROVE  [p EXCEPT !.phase = phase] \in Pages /\ Bounded([p EXCEPT !.phase = phase])
    BY <1>1, <1>2, <2>1 DEF Pages, Bounded, OnItsWay, WithReason
  <2>4. ASSUME NEW phase \in {"clearing", "emptying"}
        PROVE  [p EXCEPT !.found = caches, !.phase = phase] \in Pages
               /\ Bounded([p EXCEPT !.found = caches, !.phase = phase])
    BY <1>1, <1>2, <2>1 DEF Pages, Bounded, OnItsWay, WithReason, ReloadInv, ReleaseTypeOK
  <2>5. PICK r \in Pages : Bounded(r) /\ tab' = [tab EXCEPT ![t] = r]
    BY <1>7, <2>3, <2>4 DEF Look, Boots
  <2> QED BY <1>7, <2>2, <2>5, OneTab DEF Look, ReloadInv, ReleaseTypeOK
<1>8. ASSUME Unregister(t) PROVE ReloadInv'
  <2> DEFINE q == [p EXCEPT !.phase = "emptying"]
  <2>1. q \in Pages /\ Bounded(q)
    BY <1>1, <1>8 DEF Unregister, Pages, Bounded, OnItsWay, WithReason
  <2> QED BY <1>8, <2>1, OneTab DEF Unregister, NoWorker, ReleaseIds, ReloadInv, ReleaseTypeOK
<1>9. ASSUME Empty(t) PROVE ReloadInv'
  <2>1. p.again \in {0, 1} /\ (p.again = 1 => p.release = deployed)
    BY <1>1, <1>2, <1>9 DEF Empty, Bounded, OnItsWay
  <2>2. storedRelease' \in ReleaseIds /\ caches' \in SUBSET Releases
    BY <1>2, <1>9 DEF Empty, Remember, ReloadInv, ReleaseTypeOK
  <2> DEFINE q == Loading(FALSE, p.release, p.again + 1)
  <2>3. /\ q \in Pages /\ q.phase = "loading" /\ ~q.clean /\ q.mark = p.release
        /\ q.again = p.again + 1 /\ q.remote = NoRelease /\ ~q.updating
    <3>1. PICK clean \in BOOLEAN : ~clean /\ clean = FALSE
      OBVIOUS
    <3>2. PICK mark \in ReleaseIds, again \in Nat : mark = p.release /\ again = p.again + 1
      BY <1>2
    <3>3. q = Loading(clean, mark, again)
      BY <3>1, <3>2
    <3> HIDE DEF q
    <3> QED BY <3>1, <3>2, <3>3, LoadingPage
  <2>4. tab' = [tab EXCEPT ![t] = q]
    BY <1>9 DEF Empty, Cleaned, Anew
  <2> HIDE DEF q
  <2>5. Bounded(q)
    BY <1>2, <2>1, <2>3 DEF Bounded, OnItsWay, WithReason
  <2> QED BY <1>9, <2>2, <2>3, <2>4, <2>5, OneTab DEF Empty, ReloadInv, ReleaseTypeOK
<1> QED BY <1>3, <1>4, <1>5, <1>6, <1>7, <1>8, <1>9

\* The worker's steps, which reload the tabs that wait for them.
LEMMA WorkerStep ==
    ASSUME ReloadInv,
           Activate \/ ShellResponse
           \/ \E t \in Tabs : RegisterServiceWorker(t) \/ PressUpdate(t)
    PROVE  ReloadInv'
<1>1. ASSUME NEW t \in Tabs, RegisterServiceWorker(t) PROVE ReloadInv'
  <2> DEFINE q == [tab[t] EXCEPT !.registered = TRUE]
             updated == [tab EXCEPT ![t].registered = TRUE]
  <2>1. tab \in [Tabs -> Pages] /\ tab[t] \in Pages /\ Bounded(tab[t]) /\ deployed \in Releases
    BY DEF ReloadInv, ReleaseTypeOK
  <2>2. q \in Pages /\ Bounded(q)
    BY <2>1 DEF Pages, Bounded, OnItsWay, WithReason
  <2>3. updated = [tab EXCEPT ![t] = q]
    BY <2>1
  <2>4. \A s \in Tabs : updated[s] \in Pages /\ Bounded(updated[s])
    BY <2>1, <2>2, <2>3 DEF ReloadInv
  <2>5. /\ tab' = updated \/ tab' = [s \in Tabs |-> Claimed(updated[s])]
        /\ UNCHANGED <<deployed, storing, storedRelease>>
        /\ worker' \in [active : ReleaseIds, waiting : ReleaseIds]
        /\ told' \in BOOLEAN /\ caches' \subseteq Releases
    BY <1>1, <2>1 DEF RegisterServiceWorker, NoWorker, ReleaseIds, ReloadInv, ReleaseTypeOK
  <2>6. tab' \in [Tabs -> Pages] /\ \A s \in Tabs : Bounded(tab'[s])
    <3>1. updated \in [Tabs -> Pages]
      BY <2>1, <2>2, <2>3
    <3> HIDE DEF updated
    <3>2. CASE tab' = updated
      BY <2>4, <3>1, <3>2
    <3>3. CASE tab' = [s \in Tabs |-> Claimed(updated[s])]
      BY <2>4, <3>3, ClaimKeeps
    <3> QED BY <2>5, <3>2, <3>3
  <2> HIDE DEF q, updated
  <2> QED BY <2>5, <2>6 DEF ReloadInv, ReleaseTypeOK, Bounded, OnItsWay, WithReason
<1>2. ASSUME NEW t \in Tabs, PressUpdate(t) PROVE ReloadInv'
  <2> DEFINE q == [tab[t] EXCEPT !.updating = TRUE, !.again = 0]
  <2>1. tab[t] \in Pages /\ Bounded(tab[t]) /\ tab[t].phase \in {"booted", "broken"}
    BY <1>2 DEF PressUpdate, Runs, ReloadInv, ReleaseTypeOK
  <2>2. /\ q \in Pages
        /\ q.phase = tab[t].phase /\ q.again = 0 /\ q.remote = tab[t].remote
    BY <2>1 DEF Pages
  <2>3. Bounded(q)
    BY <2>1, <2>2 DEF Bounded, OnItsWay, WithReason
  <2> HIDE DEF q
  <2>4. tab' = [tab EXCEPT ![t] = q]
    BY <1>2 DEF PressUpdate, q
  <2> QED BY <1>2, <2>2, <2>3, <2>4, OneTab DEF PressUpdate, ReloadInv, ReleaseTypeOK
<1>3. ASSUME Activate PROVE ReloadInv'
  <2>1. /\ worker' \in [active : ReleaseIds, waiting : ReleaseIds]
        /\ caches' \subseteq Releases
    BY <1>3 DEF Activate, NoWorker, ReleaseIds, ReloadInv, ReleaseTypeOK
  <2>2. tab' \in [Tabs -> Pages] /\ \A s \in Tabs : Bounded(tab'[s])
    BY <1>3, ClaimKeeps DEF Activate, ReloadInv, ReleaseTypeOK
  <2> QED BY <1>3, <2>1, <2>2
          DEF Activate, ReloadInv, ReleaseTypeOK, Bounded, OnItsWay, WithReason
<1>4. ASSUME ShellResponse PROVE ReloadInv'
  BY <1>4 DEF ShellResponse, ReleaseIds, ReloadInv, ReleaseTypeOK, Bounded, OnItsWay, WithReason
<1> QED BY <1>1, <1>2, <1>3, <1>4

\* What makes a page or its rider want another release.
LEMMA WishStep ==
    ASSUME ReloadInv,
           (\E r \in Releases : Deploy(r))
           \/ \E t \in Tabs : Probe(t) \/ CheckForNewRelease(t) \/ PressRefresh(t)
    PROVE  ReloadInv'
<1>1. ASSUME NEW t \in Tabs, Probe(t) PROVE ReloadInv'
  <2> DEFINE q == [tab[t] EXCEPT !.remote = deployed]
  <2>1. q \in Pages /\ Bounded(q)
    BY <1>1 DEF Probe, ReleaseIds, ReloadInv, ReleaseTypeOK, Pages, Bounded, OnItsWay, WithReason
  <2>2. tab' = [tab EXCEPT ![t] = q]
    BY <1>1 DEF Probe, ReloadInv, ReleaseTypeOK
  <2> QED BY <1>1, <2>1, <2>2, OneTab DEF Probe, ReloadInv, ReleaseTypeOK
<1>2. ASSUME NEW t \in Tabs, CheckForNewRelease(t) PROVE ReloadInv'
  <2>1. tab[t].again = 0
    BY <1>2 DEF CheckForNewRelease, ReloadInv, Bounded, WithReason
  <2>2. tab' = [tab EXCEPT ![t] = Loading(TRUE, NoRelease, 1)]
    BY <1>2, <2>1 DEF CheckForNewRelease, Anew, ReloadInv, ReleaseTypeOK
  <2>3. TRUE \in BOOLEAN /\ NoRelease \in ReleaseIds
    BY DEF ReleaseIds
  <2> QED BY <1>2, <2>2, <2>3, FirstReload, OneTab DEF CheckForNewRelease, ReloadInv, ReleaseTypeOK
<1>3. ASSUME NEW t \in Tabs, PressRefresh(t) PROVE ReloadInv'
  <2>1. TRUE \in BOOLEAN /\ NoRelease \in ReleaseIds
    BY DEF ReleaseIds
  <2> QED BY <1>3, <2>1, FirstReload, OneTab DEF PressRefresh, ReloadInv, ReleaseTypeOK
<1>4. ASSUME NEW r \in Releases, Deploy(r) PROVE ReloadInv'
  <2>1. ASSUME NEW t \in Tabs
        PROVE  tab'[t] \in Pages /\ Bounded(tab[t])'
    <3> DEFINE q == [tab[t] EXCEPT !.again = 0]
    <3>1. tab[t] \in Pages /\ Bounded(tab[t])
      BY DEF ReloadInv, ReleaseTypeOK
    <3>2. /\ q \in Pages
          /\ q.again = 0 /\ q.phase = tab[t].phase
          /\ q.remote = tab[t].remote /\ q.updating = tab[t].updating
      BY <3>1 DEF Pages
    <3>3. tab'[t] = q
      BY <1>4 DEF Deploy
    <3> HIDE DEF q
    <3> QED BY <3>1, <3>2, <3>3 DEF Bounded, OnItsWay, WithReason
  <2>2. tab' \in [Tabs -> Pages]
    BY <1>4, <2>1 DEF Deploy
  <2> QED BY <1>4, <2>1, <2>2 DEF Deploy, ReloadInv, ReleaseTypeOK
<1> QED BY <1>1, <1>2, <1>3, <1>4

\* The bound on reloads is inductive with what each page has ahead of it.
THEOREM ReloadInvariance == ReleaseSpec => []ReloadInv
<1>1. ReloadInv /\ [ReleaseNext]_releaseVars => ReloadInv'
  <2> SUFFICES ASSUME ReloadInv, [ReleaseNext]_releaseVars PROVE ReloadInv'
    OBVIOUS
  <2>1. CASE UNCHANGED releaseVars
    BY <2>1 DEF releaseVars, ReloadInv, ReleaseTypeOK, Bounded, OnItsWay, WithReason
  <2>2. CASE ReleaseNext
    BY <2>2, BootstrapStep, WorkerStep, WishStep DEF ReleaseNext
  <2> QED BY <2>1, <2>2
<1> QED BY <1>1, ReleaseInitInv, PTL DEF ReleaseSpec

\* With any number of tabs and releases, with storage or without, a page loads
\* itself anew at most twice after a deployment or a request of its rider.
THEOREM ReloadsEnd == ReleaseSpec => []NoReloadLoop
<1>1. ReloadInv => NoReloadLoop
  BY DEF ReloadInv, Bounded, NoReloadLoop
<1> QED BY <1>1, ReloadInvariance, PTL

-----------------------------------------------------------------------------
(* Signing in *)

\* What an open callback carries: it is of an attempt that has been begun, and
\* from its exchange on of one whose code is spent.
ReturnsFollow ==
    \A c \in returns : c.of \in begun /\ (c.stage # "sent" => c.of \in spent)

\* The browser has the state cookies of the attempts that are under way.
JarIsUnderWay == jar = begun \ ended

\* A logout carries the cookie of every attempt that was under way when it was
\* pressed, but for those that have ended since.
LogoutsCarry ==
    \A l \in logouts :
        /\ l.names \subseteq l.began /\ l.began \subseteq begun
        /\ l.began \ ended \subseteq l.names

SignInv ==
    /\ SignTypeOK
    /\ ReturnsFollow
    /\ JarIsUnderWay
    /\ LogoutsCarry
    /\ AttemptsStandAlone

-----------------------------------------------------------------------------
\* At the start there is nothing to carry or to clear.
LEMMA SignInitInv == SignInit => SignInv
BY DEF SignInit, SignInv, SignTypeOK, ReturnsFollow, JarIsUnderWay, LogoutsCarry,
       AttemptsStandAlone

\* A callback that moves on to its next stage remains the callback it was.
LEMMA AdvanceKeeps ==
    ASSUME NEW c \in Returns, NEW stage \in {"sent", "exchanged", "resolved"}
    PROVE  /\ [c EXCEPT !.stage = stage] \in Returns
           /\ [c EXCEPT !.stage = stage].of = c.of
           /\ [c EXCEPT !.stage = stage].names = c.names
           /\ [c EXCEPT !.stage = stage].over = c.over
           /\ [c EXCEPT !.stage = stage].stage = stage
BY DEF Returns

\* Login, callback and logout, request and answer, in any number of tabs.
LEMMA SignStep == SignInv /\ [SignNext]_signVars => SignInv'
<1> SUFFICES ASSUME SignInv, [SignNext]_signVars
             PROVE  SignInv'
  OBVIOUS
<1> USE DEF SignInv
<1>1. ASSUME NEW a \in Attempts, PressSignIn(a)
      PROVE  SignInv'
  BY <1>1 DEF PressSignIn, SignTypeOK, ReturnsFollow, JarIsUnderWay, LogoutsCarry,
              AttemptsStandAlone, HasState
<1>2. ASSUME NEW a \in Attempts, BeginBrowserLogin(a)
      PROVE  SignInv'
  <2>1. a \notin begun /\ a \notin ended
    BY <1>2 DEF BeginBrowserLogin, SignTypeOK
  <2>2. SignTypeOK'
    BY <1>2 DEF BeginBrowserLogin, SignTypeOK
  <2>3. JarIsUnderWay'
    BY <1>2, <2>1 DEF BeginBrowserLogin, JarIsUnderWay
  <2>4. ReturnsFollow' /\ LogoutsCarry' /\ AttemptsStandAlone'
    BY <1>2 DEF BeginBrowserLogin, ReturnsFollow, LogoutsCarry, AttemptsStandAlone, HasState
  <2> QED BY <2>2, <2>3, <2>4
<1>3. ASSUME NEW a \in Attempts, Return(a)
      PROVE  SignInv'
  <2> DEFINE c == [of |-> a, names |-> jar, over |-> a \in ended, stage |-> "sent"]
  <2>1. c \in Returns /\ c.of = a /\ c.stage = "sent" /\ a \in begun
    BY <1>3 DEF Return, Returns, SignTypeOK
  <2>2. HasState(c) <=> ~c.over
    BY <2>1 DEF HasState, JarIsUnderWay
  <2>3. returns' = returns \cup {c}
    BY <1>3 DEF Return
  <2> HIDE DEF c
  <2>4. SignTypeOK' /\ ReturnsFollow' /\ AttemptsStandAlone'
    BY <1>3, <2>1, <2>2, <2>3 DEF Return, SignTypeOK, ReturnsFollow, AttemptsStandAlone, HasState
  <2>5. JarIsUnderWay' /\ LogoutsCarry'
    BY <1>3 DEF Return, JarIsUnderWay, LogoutsCarry
  <2> QED BY <2>4, <2>5
<1>4. ASSUME NEW c \in returns, Refuse(c)
      PROVE  SignInv'
  BY <1>4 DEF Refuse, Drops, SignTypeOK, ReturnsFollow, JarIsUnderWay, LogoutsCarry,
              AttemptsStandAlone, HasState
<1>5. ASSUME NEW c \in returns, Exchange(c)
      PROVE  SignInv'
  <2>1. c \in Returns /\ c.of \in begun
    BY DEF SignTypeOK, ReturnsFollow
  <2> DEFINE d == [c EXCEPT !.stage = "exchanged"]
  <2>2. d \in Returns /\ d.of = c.of /\ d.names = c.names /\ d.over = c.over
    BY <2>1, AdvanceKeeps
  <2>3. /\ returns' \subseteq returns \cup {d}
        /\ spent \subseteq spent'
        /\ d \in returns' => c.of \in spent' \/ d \in returns
    BY <1>5 DEF Exchange, Advances, Drops
  <2> HIDE DEF d
  <2>4. SignTypeOK'
    BY <1>5, <2>1, <2>2, <2>3 DEF Exchange, SignTypeOK
  <2>5. ReturnsFollow' /\ AttemptsStandAlone'
    BY <1>5, <2>1, <2>2, <2>3 DEF Exchange, ReturnsFollow, AttemptsStandAlone, HasState
  <2>6. JarIsUnderWay' /\ LogoutsCarry'
    BY <1>5 DEF Exchange, JarIsUnderWay, LogoutsCarry
  <2> QED BY <2>4, <2>5, <2>6
<1>6. ASSUME NEW c \in returns, Resolve(c)
      PROVE  SignInv'
  <2>1. c \in Returns /\ c.of \in begun /\ c.of \in spent
    BY <1>6 DEF Resolve, SignTypeOK, ReturnsFollow
  <2> DEFINE d == [c EXCEPT !.stage = "resolved"]
  <2>2. d \in Returns /\ d.of = c.of /\ d.names = c.names /\ d.over = c.over
    BY <2>1, AdvanceKeeps
  <2>3. returns' \subseteq returns \cup {d}
    BY <1>6 DEF Resolve, Advances, Drops
  <2> HIDE DEF d
  <2>4. SignTypeOK'
    BY <1>6, <2>2, <2>3 DEF Resolve, SignTypeOK
  <2>5. ReturnsFollow' /\ AttemptsStandAlone'
    BY <1>6, <2>1, <2>2, <2>3 DEF Resolve, ReturnsFollow, AttemptsStandAlone, HasState
  <2>6. JarIsUnderWay' /\ LogoutsCarry'
    BY <1>6 DEF Resolve, JarIsUnderWay, LogoutsCarry
  <2> QED BY <2>4, <2>5, <2>6
<1>7. ASSUME NEW c \in returns, SignedIn(c)
      PROVE  SignInv'
  <2>1. c.of \in begun /\ c.of \in spent
    BY <1>7 DEF SignedIn, ReturnsFollow
  <2>2. SignTypeOK'
    BY <1>7, <2>1 DEF SignedIn, Drops, ClearedByReturn, SignTypeOK
  <2>3. JarIsUnderWay' /\ LogoutsCarry'
    BY <1>7 DEF SignedIn, ClearedByReturn, JarIsUnderWay, LogoutsCarry
  <2>4. ReturnsFollow' /\ AttemptsStandAlone'
    BY <1>7 DEF SignedIn, Drops, ReturnsFollow, AttemptsStandAlone, HasState
  <2> QED BY <2>2, <2>3, <2>4
<1>8. ASSUME PressSignOut
      PROVE  SignInv'
  <2> DEFINE l == [of |-> token, names |-> jar, began |-> begun, stage |-> "sent"]
  <2>1. l \in Logouts /\ l.names = jar /\ l.began = begun
    BY DEF Logouts, SignTypeOK
  <2>2. logouts' = logouts \cup {l}
    BY <1>8 DEF PressSignOut
  <2> HIDE DEF l
  <2>3. SignTypeOK'
    BY <1>8, <2>1, <2>2 DEF PressSignOut, SignTypeOK
  <2>4. LogoutsCarry'
    BY <1>8, <2>1, <2>2 DEF PressSignOut, LogoutsCarry, JarIsUnderWay
  <2>5. ReturnsFollow' /\ JarIsUnderWay' /\ AttemptsStandAlone'
    BY <1>8 DEF PressSignOut, ReturnsFollow, JarIsUnderWay, AttemptsStandAlone, HasState
  <2> QED BY <2>3, <2>4, <2>5
<1>9. ASSUME NEW l \in logouts, Revoke(l)
      PROVE  SignInv'
  <2> DEFINE k == [l EXCEPT !.stage = "revoked"]
  <2>1. l \in Logouts
    BY DEF SignTypeOK
  <2>2. k \in Logouts /\ k.names = l.names /\ k.began = l.began
    BY <2>1 DEF Logouts
  <2>3. logouts' \subseteq logouts \cup {k}
    BY <1>9 DEF Revoke
  <2> HIDE DEF k
  <2>4. SignTypeOK'
    BY <1>9, <2>2, <2>3 DEF Revoke, SignTypeOK
  <2>5. LogoutsCarry'
    BY <1>9, <2>2, <2>3 DEF Revoke, LogoutsCarry
  <2>6. ReturnsFollow' /\ JarIsUnderWay' /\ AttemptsStandAlone'
    BY <1>9 DEF Revoke, ReturnsFollow, JarIsUnderWay, AttemptsStandAlone, HasState
  <2> QED BY <2>4, <2>5, <2>6
<1>10. ASSUME NEW l \in logouts, SignedOut(l)
       PROVE  SignInv'
  <2>1. /\ l.names \subseteq l.began /\ l.began \subseteq begun
        /\ l.began \ ended \subseteq l.names
    BY DEF LogoutsCarry
  <2>2. SignTypeOK'
    BY <1>10, <2>1 DEF SignedOut, ClearedByLogout, SignTypeOK
  <2>3. JarIsUnderWay'
    BY <1>10, <2>1 DEF SignedOut, ClearedByLogout, JarIsUnderWay
  <2>4. LogoutsCarry'
    BY <1>10 DEF SignedOut, LogoutsCarry
  <2>5. ReturnsFollow' /\ AttemptsStandAlone'
    BY <1>10 DEF SignedOut, ReturnsFollow, AttemptsStandAlone, HasState
  <2> QED BY <2>2, <2>3, <2>4, <2>5
<1>11. ASSUME NEW a \in Attempts, StateExpires(a)
       PROVE  SignInv'
  BY <1>11 DEF StateExpires, SignTypeOK, ReturnsFollow, JarIsUnderWay, LogoutsCarry,
               AttemptsStandAlone, HasState
<1>12. ASSUME SessionExpires
       PROVE  SignInv'
  BY <1>12 DEF SessionExpires, SignTypeOK, ReturnsFollow, JarIsUnderWay, LogoutsCarry,
               AttemptsStandAlone, HasState
<1>13. ASSUME NEW a \in Attempts, EndedElsewhere(a)
       PROVE  SignInv'
  BY <1>13 DEF EndedElsewhere, SignTypeOK, ReturnsFollow, JarIsUnderWay, LogoutsCarry,
               AttemptsStandAlone, HasState
<1>14. CASE UNCHANGED signVars
  BY <1>14 DEF signVars, SignTypeOK, ReturnsFollow, JarIsUnderWay, LogoutsCarry,
               AttemptsStandAlone, HasState
<1> QED
  BY <1>1, <1>2, <1>3, <1>4, <1>5, <1>6, <1>7, <1>8, <1>9, <1>10, <1>11, <1>12, <1>13, <1>14
     DEF SignNext

-----------------------------------------------------------------------------
\* Types, cookies, callbacks and logouts stay together in every reachable state.
THEOREM SignInvariance == SignSpec => []SignInv
<1> QED BY SignInitInv, SignStep, PTL DEF SignSpec

\* A callback is let through exactly if its sign-in has not been completed, has
\* not run out and was not under way at a logout since, whatever other tabs do.
THEOREM AttemptsIndependent == SignSpec => []AttemptsStandAlone
<1>1. SignInv => AttemptsStandAlone
  BY DEF SignInv
<1> QED BY <1>1, SignInvariance, PTL

-----------------------------------------------------------------------------
(***************************************************************************)
(* Relay credentials.  RelayStaysValid speaks of the present time; what does *)
(* not change while time passes is how the expiry and the time of the next   *)
(* fetch lie to each other (Covered), and it comes from what each signed     *)
(* answer promises for the time its fetch began (Promised).                  *)
(***************************************************************************)

Promised(f) ==
    f.answer # 0 => \/ RoomEnd - Second < f.answer
                    \/ f.start + Pause + Skew <= f.answer

Covered ==
    expires # 0 /\ ~refused => \/ RoomEnd - Second < expires
                               \/ refreshAfter + Skew <= expires

LeaseInv == LeaseTypeOK /\ Covered /\ \A f \in fetches : Promised(f)

-----------------------------------------------------------------------------
\* Rounding to whole seconds loses less than one (Math.floor in
\* issueTurnIceServers).
LEMMA Rounding ==
    ASSUME NEW x \in Nat
    PROVE  x \div Second \in Nat /\ x - Second < Second * (x \div Second)
<1>1. Second \in Nat \ {0}
  BY LeaseAssumption
<1> QED
  BY <1>1, SMT

\* What issueTurnIceServers() signs promises the pause and the skew to a fetch
\* that began no later.
LEMMA IssuedIsEnough ==
    ASSUME NEW at \in Nat, NEW start \in Nat, start + Skew <= at
    PROVE  /\ Issued(at) \in Nat
           /\ \/ RoomEnd - Second < Issued(at)
              \/ start + Pause + Skew <= Issued(at)
<1>1. /\ Second \in Nat \ {0} /\ Ttl \in Nat /\ Pause \in Nat /\ Skew \in Nat
      /\ RoomEnd \in Nat /\ Pause + Second <= Ttl * Second
  BY LeaseAssumption, LifetimeAssumption
<1> DEFINE a == at \div Second
           r == RoomEnd \div Second
<1>2. a \in Nat /\ at - Second < Second * a
  BY Rounding
<1>3. r \in Nat /\ RoomEnd - Second < Second * r
  BY Rounding, <1>1
<1>4. Second * (a + Ttl) = Second * a + Ttl * Second
  BY <1>1, <1>2
<1>5. Second * (a + Ttl) \in Nat /\ Second * r \in Nat /\ Second * a \in Nat /\ Ttl * Second \in Nat
  BY <1>1, <1>2, <1>3
<1>6. start + Pause + Skew <= Second * (a + Ttl)
  BY <1>1, <1>2, <1>4, <1>5
<1>7. Issued(at) = Second * (a + Ttl) \/ Issued(at) = Second * r
  BY DEF Issued, Sooner
<1> QED
  BY <1>1, <1>3, <1>5, <1>6, <1>7

LEMMA LeaseInitInv == LeaseInit => LeaseInv
<1> SUFFICES ASSUME LeaseInit
             PROVE  LeaseInv
  OBVIOUS
<1>1. LeaseTypeOK
  <2>1. 0 \in 0 .. Horizon /\ 0 \in Nat
    BY LeaseAssumption
  <2>2. refused \in BOOLEAN
    BY DEF LeaseInit
  <2> QED
    BY <2>1, <2>2 DEF LeaseInit, LeaseTypeOK
<1>2. Covered
  BY DEF LeaseInit, Covered
<1> QED
  BY <1>1, <1>2 DEF LeaseInit, LeaseInv

\* Every step keeps the invariant: only Sign makes a promise, and only Credited
\* relies on one.
LEMMA LeaseStepInv == LeaseInv /\ [LeaseNext]_leaseVars => LeaseInv'
<1> SUFFICES ASSUME LeaseInv, [LeaseNext]_leaseVars
             PROVE  LeaseInv'
  OBVIOUS
<1> USE LeaseAssumption, LifetimeAssumption
<1>1. ASSUME NEW force \in BOOLEAN, Ask(force)
      PROVE  LeaseInv'
  BY <1>1 DEF Ask, LeaseInv, LeaseTypeOK, Covered, Promised, Fetch
<1>2. ASSUME NEW f \in fetches, Sign(f)
      PROVE  LeaseInv'
  <2> DEFINE g == [f EXCEPT !.answer = Issued(ServerNow)]
  <2>1. f \in Fetch /\ f.start \in Nat /\ f.start <= now /\ now \in Nat
    BY DEF LeaseInv, LeaseTypeOK, Fetch
  <2>2. ServerNow \in Nat /\ f.start + Skew <= ServerNow
    BY <2>1 DEF ServerNow
  <2>3. /\ Issued(ServerNow) \in Nat
        /\ \/ RoomEnd - Second < Issued(ServerNow)
           \/ f.start + Pause + Skew <= Issued(ServerNow)
    BY <2>1, <2>2, IssuedIsEnough
  <2>4. g \in Fetch /\ g.start = f.start /\ g.answer = Issued(ServerNow)
    BY <2>1, <2>3 DEF Fetch
  <2>5. Promised(g) /\ g.start <= now
    BY <2>1, <2>3, <2>4 DEF Promised
  <2>6. \A h \in fetches' : h \in fetches \/ h = g
    BY <1>2 DEF Sign
  <2> QED
    BY <1>2, <2>4, <2>5, <2>6 DEF Sign, LeaseInv, LeaseTypeOK, Covered, Promised
<1>3. ASSUME NEW f \in fetches, Credited(f)
      PROVE  LeaseInv'
  <2>1. f.start \in Nat /\ f.answer \in Nat /\ f.answer # 0 /\ Promised(f)
    BY <1>3 DEF Credited, LeaseInv, LeaseTypeOK, Fetch
  <2>2. /\ expires' = f.answer /\ refused' = FALSE
        /\ refreshAfter' = RefreshTime(f.start, f.answer)
    BY <1>3 DEF Credited
  <2>3. refreshAfter' \in Nat
    BY <2>1, <2>2 DEF RefreshTime, Later
  <2>4. \/ RoomEnd - Second < expires'
        \/ refreshAfter' + Skew <= expires'
    BY <2>1, <2>2 DEF RefreshTime, Later, Promised
  <2> QED
    BY <1>3, <2>1, <2>2, <2>3, <2>4 DEF Credited, LeaseInv, LeaseTypeOK, Covered, Promised
<1>4. ASSUME NEW f \in fetches, Fail(f)
      PROVE  LeaseInv'
  BY <1>4 DEF Fail, LeaseInv, LeaseTypeOK, Covered, Promised, Fetch
<1>5. ASSUME LeaseTick
      PROVE  LeaseInv'
  BY <1>5 DEF LeaseTick, LeaseInv, LeaseTypeOK, Covered, Promised, Fetch
<1>6. ASSUME UNCHANGED leaseVars
      PROVE  LeaseInv'
  BY <1>6 DEF leaseVars, LeaseInv, LeaseTypeOK, Covered, Promised
<1> QED
  BY <1>1, <1>2, <1>3, <1>4, <1>5, <1>6 DEF LeaseNext

\* A peer connection that is built without asking again gets a credential the
\* relay honours (#refreshIceServers, issueTurnIceServers).
THEOREM RelayValid == LeaseSpec => []RelayStaysValid
<1>1. LeaseInv => RelayStaysValid
  BY LeaseAssumption, LifetimeAssumption
     DEF LeaseInv, LeaseTypeOK, Covered, RelayStaysValid, ServerNow
<1> QED
  BY LeaseInitInv, LeaseStepInv, <1>1, PTL DEF LeaseSpec

-----------------------------------------------------------------------------
(* The parts together *)

\* A step of the composition is a step of one part, and the others rest: each
\* part runs as it does alone, so that what is proved of it holds here.
LEMMA PartsRunAlone ==
    RideSpec => ReleaseSpec /\ SignSpec /\ StoreSpec /\ LeaseSpec /\ ControlSpec /\ Spec
<1>1. RideInit => ReleaseInit /\ SignInit /\ StoreInit /\ LeaseInit /\ ControlInit /\ Init
  BY DEF RideInit
<1>2. [RideNext]_rideVars => /\ [ReleaseNext]_releaseVars /\ [SignNext]_signVars
                             /\ [StoreNext]_storeVars /\ [LeaseNext]_leaseVars
                             /\ [ControlNext]_controlVars /\ [Next]_vars
  BY DEF RideNext, rideVars
<1> QED BY <1>1, <1>2, PTL
        DEF RideSpec, ReleaseSpec, SignSpec, StoreSpec, LeaseSpec, ControlSpec, Spec

\* The states of the releases, the sign-in, the registry, the relay credentials,
\* the soundtrack and push-to-talk have their types, for all values of the
\* constants of the six.
THEOREM RideTypesHold == RideSpec => []RideTypeOK
<1>1. ReloadInv /\ SignInv /\ StoreInv /\ LeaseInv =>
          ReleaseTypeOK /\ SignTypeOK /\ StoreTypeOK /\ LeaseTypeOK
  BY DEF ReloadInv, SignInv, StoreInv, LeaseInv
<1>2. LeaseSpec => []LeaseInv
  BY LeaseInitInv, LeaseStepInv, PTL DEF LeaseSpec
<1>3. ReleaseTypeOK /\ SignTypeOK /\ StoreTypeOK /\ LeaseTypeOK /\ ControlTypeOK /\ TypeOK => RideTypeOK
  BY DEF RideTypeOK
<1> QED BY <1>1, <1>2, <1>3, PartsRunAlone, ReloadInvariance, SignInvariance, StoreInvariance,
           ControlTypeCorrect, TalkTypeCorrect, PTL

=============================================================================
