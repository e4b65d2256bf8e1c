-------------------------------- MODULE Release --------------------------------
(***************************************************************************)
(* How the tabs of one browser come from one release of the page to the       *)
(* next: apps/web/release-bootstrap.js, the registration and the update       *)
(* button of apps/web/pwa.js and the life of apps/web/sw.js.                 *)
(*                                                                          *)
(* A worker and its cache are named after the release they came with.  How a *)
(* browser installs, keeps and hands over service workers is external.  The  *)
(* page, the bootstrap and the worker's script are never cached, so that a   *)
(* page is of the release that is deployed when it loads.                    *)
(***************************************************************************)
EXTENDS Naturals

CONSTANTS Tabs, Releases

NoRelease == "none"

ASSUME ReleaseAssumption == NoRelease \notin Releases

VARIABLES
    deployed,       \* the release the server serves
    storing,        \* whether the browser lets the page use localStorage
    storedRelease,  \* what is stored under RELEASE_KEY
    worker,         \* the registered worker, and the one that waits behind it
    told,           \* the waiting worker has been told not to wait
    caches,         \* the shell caches there are
    tab

releaseVars == <<deployed, storing, storedRelease, worker, told, caches, tab>>

ReleaseIds == Releases \cup {NoRelease}
NoWorker == [active |-> NoRelease, waiting |-> NoRelease]

\* clean and mark: what the address carries of CLEAN_PARAM and RELEASE_PARAM.
\* found: the caches that are about to be deleted.  remote: what a probe has been
\* answered.  updating: reloadForUpdate.
\* again: history, how often the page has loaded itself anew since the last
\* deployment and the rider's last request.
Pages ==
    [phase : {"closed", "loading", "looking", "clearing", "emptying", "booted", "broken"},
     release : ReleaseIds, clean : BOOLEAN, mark : ReleaseIds, found : SUBSET Releases,
     remote : ReleaseIds, registered : BOOLEAN, updating : BOOLEAN, again : Nat]

Closed ==
    [phase |-> "closed", release |-> NoRelease, clean |-> FALSE, mark |-> NoRelease,
     found |-> {}, remote |-> NoRelease, registered |-> FALSE, updating |-> FALSE, again |-> 0]

ReleaseInit ==
    /\ deployed \in Releases
    /\ storing \in BOOLEAN
    /\ storedRelease = NoRelease
    /\ worker = NoWorker /\ told = FALSE
    /\ caches = {}
    /\ tab = [t \in Tabs |-> Closed]

-----------------------------------------------------------------------------
(* Opening, and the bootstrap *)

Loading(clean, mark, again) ==
    [Closed EXCEPT !.phase = "loading", !.clean = clean, !.mark = mark, !.again = again]

\* The page replaces itself.
Anew(p, clean, mark) == Loading(clean, mark, p.again + 1)

\* By the address of the page, a bookmark or a reload, at any time.
Open(t) ==
    /\ \/ tab' = [tab EXCEPT ![t] = Loading(FALSE, NoRelease, 0)]
       \/ tab' = [tab EXCEPT ![t] = Loading(@.clean, @.mark, 0)]
    /\ UNCHANGED <<deployed, storing, storedRelease, worker, told, caches>>

Close(t) ==
    /\ tab[t].phase # "closed"
    /\ tab' = [tab EXCEPT ![t] = Closed]
    /\ UNCHANGED <<deployed, storing, storedRelease, worker, told, caches>>

\* Offline: the worker's offline.html, or the browser's own page.
LoadFails(t) ==
    /\ tab[t].phase = "loading"
    /\ tab' = [tab EXCEPT ![t] = [@ EXCEPT !.phase = "broken", !.again = 0]]
    /\ UNCHANGED <<deployed, storing, storedRelease, worker, told, caches>>

\* rememberRelease()
Remember(release) == storedRelease' = IF storing THEN release ELSE storedRelease

SettledByStorage(p, release) == ~p.clean /\ storedRelease = release
Settled(p, release) == ~p.clean /\ (storedRelease = release \/ p.mark = release)

\* The rest of boot(), which a script that does not load ends.
Boots(t, p) ==
    \E phase \in {"booted", "broken"} : tab' = [tab EXCEPT ![t] = [p EXCEPT !.phase = phase]]

\* prepareRelease() up to its first await.
Load(t) ==
    /\ tab[t].phase = "loading"
    /\ LET p == [tab[t] EXCEPT !.release = deployed] IN
       \/ /\ Settled(p, deployed)
          /\ Remember(deployed)
          /\ Boots(t, [p EXCEPT !.mark = NoRelease])
       \/ /\ ~Settled(p, deployed)
          /\ tab' = [tab EXCEPT ![t] = [p EXCEPT !.phase = "looking"]]
          /\ UNCHANGED storedRelease
    /\ UNCHANGED <<deployed, storing, worker, told, caches>>

\* releaseState()
Look(t) ==
    /\ tab[t].phase = "looking"
    /\ \/ /\ ~tab[t].clean /\ worker = NoWorker /\ caches = {}
          /\ Remember(tab[t].release)
          /\ Boots(t, tab[t])
       \/ /\ tab[t].clean \/ worker # NoWorker \/ caches # {}
          /\ tab' = [tab EXCEPT ![t] = [@ EXCEPT !.found = caches,
                        !.phase = IF worker = NoWorker THEN "emptying" ELSE "clearing"]]
          /\ UNCHANGED storedRelease
    /\ UNCHANGED <<deployed, storing, worker, told, caches>>

Unregister(t) ==
    /\ tab[t].phase = "clearing"
    /\ worker' = NoWorker /\ told' = FALSE
    /\ tab' = [tab EXCEPT ![t] = [@ EXCEPT !.phase = "emptying"]]
    /\ UNCHANGED <<deployed, storing, storedRelease, caches>>

\* The address after clearing: the order to clean is replaced by the mark.
AnewStillClean(p) == Anew(p, p.clean, p.release)
Cleaned(p) == Anew(p, FALSE, p.release)

Empty(t) ==
    /\ tab[t].phase = "emptying"
    /\ caches' = caches \ tab[t].found
    /\ Remember(tab[t].release)
    /\ tab' = [tab EXCEPT ![t] = Cleaned(@)]
    /\ UNCHANGED <<deployed, storing, worker, told>>

-----------------------------------------------------------------------------
(* The service worker *)

\* controllerchange in every tab.
Claimed(p) == IF p.updating THEN Anew(p, p.clean, p.mark) ELSE p

Newest(w) == IF w.waiting = NoRelease THEN w.active ELSE w.waiting

\* The page's scripts, of which some may have failed to load; not offline.html.
Runs(p) == p.phase \in {"booted", "broken"} /\ p.release # NoRelease

\* registerServiceWorker(), once per page: the first worker is active at once,
\* a later one waits.  It may also fail.
RegisterServiceWorker(t) ==
    /\ Runs(tab[t]) /\ ~tab[t].registered
    /\ LET seen == [tab EXCEPT ![t].registered = TRUE] IN
       \/ tab' = seen /\ UNCHANGED <<worker, told, caches>>
       \/ /\ worker = NoWorker
          /\ worker' = [NoWorker EXCEPT !.active = deployed]
          /\ caches' = {deployed}
          /\ tab' = [s \in Tabs |-> Claimed(seen[s])]
          /\ UNCHANGED told
       \/ /\ worker # NoWorker /\ Newest(worker) # deployed
          /\ worker' = [worker EXCEPT !.waiting = deployed]
          /\ told' = FALSE
          /\ caches' = caches \cup {deployed}
          /\ tab' = seen
    /\ UNCHANGED <<deployed, storing, storedRelease>>

\* handleAction() while an update is ready.
PressUpdate(t) ==
    /\ Runs(tab[t]) /\ tab[t].registered
    /\ worker.waiting # NoRelease
    /\ told' = TRUE
    /\ tab' = [tab EXCEPT ![t] = [@ EXCEPT !.updating = TRUE, !.again = 0]]
    /\ UNCHANGED <<deployed, storing, storedRelease, worker, caches>>

\* skipWaiting(), or no page is left for the old worker; activate deletes the
\* caches of the others and claims the pages.
Activate ==
    /\ worker.waiting # NoRelease
    /\ told \/ \A t \in Tabs : tab[t].phase = "closed"
    /\ worker' = [NoWorker EXCEPT !.active = worker.waiting]
    /\ told' = FALSE
    /\ caches' = {worker.waiting}
    /\ tab' = [t \in Tabs |-> Claimed(tab[t])]
    /\ UNCHANGED <<deployed, storing, storedRelease>>

\* shellResponse() puts what it fetched into its own cache, which it makes
\* anew if it has been deleted.
ShellResponse ==
    /\ worker.active # NoRelease
    /\ caches' = caches \cup {worker.active}
    /\ UNCHANGED <<deployed, storing, storedRelease, worker, told, tab>>

-----------------------------------------------------------------------------
(* New releases *)

\* checkForNewRelease(): the page comes into view and asks what is deployed ...
Probe(t) ==
    /\ tab[t].phase = "booted"
    /\ tab[t].release # deployed
    /\ tab' = [tab EXCEPT ![t].remote = deployed]
    /\ UNCHANGED <<deployed, storing, storedRelease, worker, told, caches>>

\* ... and reloads when the answer is another release, by then deployed or not.
CheckForNewRelease(t) ==
    /\ tab[t].remote # NoRelease
    /\ tab' = [tab EXCEPT ![t] = Anew(@, TRUE, NoRelease)]
    /\ UNCHANGED <<deployed, storing, storedRelease, worker, told, caches>>

\* cleanReload() from the button Refresh app.
PressRefresh(t) ==
    /\ tab[t].phase = "booted"
    /\ tab' = [tab EXCEPT ![t] = Loading(TRUE, NoRelease, 0)]
    /\ UNCHANGED <<deployed, storing, storedRelease, worker, told, caches>>

\* Forward or back.
Deploy(r) ==
    /\ r # deployed
    /\ deployed' = r
    /\ tab' = [t \in Tabs |-> [tab[t] EXCEPT !.again = 0]]
    /\ UNCHANGED <<storing, storedRelease, worker, told, caches>>

-----------------------------------------------------------------------------
ReleaseNext ==
    \/ \E t \in Tabs :
          Open(t) \/ Close(t) \/ LoadFails(t) \/ Load(t) \/ Look(t)
          \/ Unregister(t) \/ Empty(t)
          \/ RegisterServiceWorker(t) \/ PressUpdate(t)
          \/ Probe(t) \/ CheckForNewRelease(t) \/ PressRefresh(t)
    \/ Activate \/ ShellResponse
    \/ \E r \in Releases : Deploy(r)

ReleaseSpec == ReleaseInit /\ [][ReleaseNext]_releaseVars

-----------------------------------------------------------------------------
(* Properties *)

ReleaseTypeOK ==
    /\ deployed \in Releases /\ storedRelease \in ReleaseIds
    /\ storing \in BOOLEAN /\ told \in BOOLEAN
    /\ worker \in [active : ReleaseIds, waiting : ReleaseIds]
    /\ caches \subseteq Releases
    /\ tab \in [Tabs -> Pages]

\* A page never reloads for ever: after a deployment, or after what its rider
\* asked for, it loads itself anew twice at the most, with or without storage
\* ("URL marker prevents a reload loop when storage is unavailable"), whatever
\* other tabs register, delete and remember in the meantime.
NoReloadLoop == \A t \in Tabs : tab[t].again <= 2

=============================================================================
