----------------------------- MODULE RoomSession -----------------------------
(***************************************************************************)
(* The Ryde a device is in.  apps/web/app.js keeps it in the memory of each  *)
(* page (`realtime'), apps/web/catalog-bridge.js keeps it in localStorage,   *)
(* which all pages of the device share, and wraps every socket to decide     *)
(* what its close event means.  The server shows here only in which Rydes    *)
(* exist, in the sockets it accepts and in the codes it closes them with;    *)
(* RoomStore and RealtimeHub have the rest of it.                            *)
(*                                                                          *)
(* A Ryde is known by one name: that localStorage, the address and the       *)
(* sockets use id and join code side by side is left out.  The key           *)
(* rydesync:session:<id> is written and removed but never read: it is left   *)
(* out as well.  Of the ways an authentication fails, a token that has run   *)
(* out is here (4003): the lifetimes of tokens and Rydes are configured      *)
(* apart.  4004 needs a member that is gone or changed, which the registry   *)
(* never makes of one it has added.                                          *)
(***************************************************************************)
EXTENDS Naturals, FiniteSets

CONSTANTS
    Tabs,           \* the pages open on the device
    Rydes,          \* the rooms of an instance
    MaxMembers,     \* memberships the device is given in an instance
    MaxUpsets        \* connections that break in an instance

NoRyde == "no Ryde"

ASSUME SessionAssumption == NoRyde \notin Rydes /\ MaxMembers \in Nat /\ MaxUpsets \in Nat

VARIABLES
    ryde,       \* what the server has of each room
    members,    \* memberships handed out
    last,       \* localStorage: rydesync:last-session
    tab,        \* each page, with the socket it calls its own
    old,        \* sockets their page has given up, whose close is to come
    upsets,     \* counts loads, lost connections and restarts
    past,       \* the Rydes whose expiresAt has passed
    lapsed,     \* the sessions whose token has run out
    newest,     \* history: the session saved last
    left        \* history: the Rydes that were ever left on this device

times == <<past, lapsed>>
sessionVars == <<ryde, members, last, tab, old, upsets, times, newest, left>>

NoSession == [ryde |-> NoRyde, member |-> 0, host |-> FALSE]
Sessions == [ryde : Rydes, member : 1 .. MaxMembers, host : BOOLEAN]

\* The codes that end a session for the bridge, and those of them (and of 4009)
\* after which the page does not reconnect.
EndsSession == {4003, 4004, 4005, 4010, 4011}
Final == EndsSession \cup {4009}
CloseCodes == {0, 1000, 1006} \cup Final

\* none: the page has no `realtime'.  closing: close() was called and the close
\* event is to come.  closed: it is due.  asking: the bridge holds it back and
\* asks whether the room exists.  waiting: for the reconnect timer.  ended: the
\* page will not reconnect.
Phases == {"none", "connecting", "live", "closing", "closed", "asking", "waiting", "ended"}

\* asked: the membership that a create or join of the form was given, while the
\* answer is on its way.  The page's address is not kept: any page may be loaded
\* at any.
TabRecord ==
    [session : Sessions \cup {NoSession}, phase : Phases, code : CloseCodes, asked : Sessions \cup {NoSession}]
OldRecord ==
    [tab : Tabs, session : Sessions, phase : {"closing", "closed", "asking"}, code : CloseCodes]

BlankTab ==
    [session |-> NoSession, phase |-> "none", code |-> 0, asked |-> NoSession]

Attached(t) == tab[t].phase \notin {"none", "ended"}

SessionInit ==
    /\ ryde = [r \in Rydes |-> "none"]
    /\ members = 0
    /\ last = NoSession
    /\ tab = [t \in Tabs |-> BlankTab]
    /\ old = {}
    /\ upsets = 0
    /\ past = {} /\ lapsed = {}
    /\ newest = NoSession
    /\ left = {}

-----------------------------------------------------------------------------
(* The page *)

\* clearLocalRoomSession(): by the name of the room, whoever its member was.
ClearedOfAll(r) == NoSession
Cleared(r) == IF last.ryde = r THEN NoSession ELSE last

\* stopRealtime(): what becomes of the socket of page t.
Dismissed(t) ==
    LET s == tab[t]
        gone(phase, code) == {[tab |-> t, session |-> s.session, phase |-> phase, code |-> code]}
    IN CASE s.phase = "connecting" -> gone("closed", 1006)
         [] s.phase = "live" -> gone("closing", 1000)
         [] s.phase \in {"closing", "closed", "asking"} -> gone(s.phase, s.code)
         [] OTHER -> {}

\* connectRealtime(session)
Connecting(t, s) ==
    [tab EXCEPT ![t] = [session |-> s, phase |-> "connecting", code |-> 0, asked |-> NoSession]]

NewSessionEarly(r, host) == [ryde |-> r, member |-> members, host |-> host]
NewSession(r, host) == [ryde |-> r, member |-> members + 1, host |-> host]

\* The create and join forms: the server's side of the request.
AskFor(t, r, host) ==
    /\ tab[t].asked = NoSession
    /\ members < MaxMembers
    /\ members' = members + 1
    /\ tab' = [tab EXCEPT ![t].asked = NewSession(r, host)]
    /\ UNCHANGED <<last, old, upsets, newest, left, times>>

\* Which of the free names a new Ryde draws is of no account.
FirstFree == CHOOSE r \in Rydes : ryde[r] = "none"

CreateRyde(t, r) ==
    /\ ryde[r] = "none" /\ r = FirstFree
    /\ ryde' = [ryde EXCEPT ![r] = "open"]
    /\ AskFor(t, r, TRUE)

JoinRyde(t, r) ==
    /\ ryde[r] = "open"
    /\ AskFor(t, r, FALSE) /\ UNCHANGED ryde

\* Their answer: saveRoomSession() and connectRealtime().
Answered(t) ==
    LET s == tab[t].asked
    IN /\ s # NoSession
       /\ last' = s
       /\ newest' = s
       /\ old' = old \cup Dismissed(t)
       /\ tab' = Connecting(t, s)
       /\ UNCHANGED <<ryde, members, upsets, left, times>>

AnswerLost(t) ==
    /\ tab[t].asked # NoSession
    /\ tab' = [tab EXCEPT ![t].asked = NoSession]
    /\ UNCHANGED <<ryde, members, last, old, upsets, newest, left, times>>

\* A page is opened or loaded again at an address: its sockets are gone, and a
\* stored session of that very Ryde is taken up.
Load(t, address) ==
    /\ upsets < MaxUpsets
    /\ upsets' = upsets + 1
    /\ tab' = IF address # NoRyde /\ last.ryde = address
              THEN Connecting(t, last)
              ELSE [tab EXCEPT ![t] = BlankTab]
    /\ old' = {s \in old : s.tab # t}
    /\ UNCHANGED <<ryde, members, last, newest, left, times>>

\* The timer of the close listener: open().
ReconnectsAfterMove(c) == c \notin EndsSession
Reconnects(c) == c \notin Final

Reconnect(t) ==
    /\ tab[t].phase = "waiting"
    /\ tab' = [tab EXCEPT ![t].phase = "connecting"]
    /\ UNCHANGED <<ryde, members, last, old, upsets, newest, left, times>>

\* The Leave button of the active card: leave() of the Ryde in localStorage.  A
\* socket that has closed already counts as one that will clear it, and a timer
\* to reconnect is left alone.
Held(t, r) ==
    \/ tab[t].session.ryde = r /\ tab[t].phase \in {"connecting", "live", "closing", "closed"}
    \/ \E s \in old : s.tab = t /\ s.session.ryde = r /\ s.phase # "asking"

HungUpBy(t, r) ==
    [tab EXCEPT ![t] =
        CASE @.session.ryde = r /\ @.phase = "live" ->
                 [@ EXCEPT !.phase = "closing", !.code = 4005]
          [] @.session.ryde = r /\ @.phase = "connecting" ->
                 [@ EXCEPT !.phase = "closed", !.code = 1006]
          [] OTHER -> @]

Leave(t) ==
    LET r == last.ryde
    IN /\ last # NoSession
       /\ left' = left \cup {r}
       /\ IF Held(t, r)
          THEN tab' = HungUpBy(t, r) /\ UNCHANGED last
          ELSE last' = Cleared(r) /\ UNCHANGED tab
       /\ UNCHANGED <<ryde, members, old, upsets, newest, times>>

\* The close event of the page's own socket, as the bridge sees it first.
CloseEvent(t) ==
    LET s == tab[t]
    IN /\ s.phase = "closed"
       /\ IF s.code = 1006
          THEN /\ tab' = [tab EXCEPT ![t].phase = "asking"]
               /\ UNCHANGED last
          ELSE /\ last' = IF s.code \in EndsSession THEN Cleared(s.session.ryde) ELSE last
               /\ tab' = [tab EXCEPT ![t].phase = IF Reconnects(s.code) THEN "waiting" ELSE "ended"]
       /\ UNCHANGED <<ryde, members, old, upsets, newest, left, times>>

\* roomAvailability() answers, or its request fails.
MissingUnlessStarted(r) == ryde[r] = "none"
Missing(r) == ryde[r] # "open"

Availability(t) ==
    LET r == tab[t].session.ryde
    IN /\ tab[t].phase = "asking"
       /\ last' = IF Missing(r) THEN Cleared(r) ELSE last
       /\ tab' = [tab EXCEPT ![t].phase = IF Missing(r) THEN "ended" ELSE "waiting"]
       /\ UNCHANGED <<ryde, members, old, upsets, newest, left, times>>

AvailabilityUnknown(t) ==
    /\ tab[t].phase = "asking"
    /\ upsets < MaxUpsets
    /\ upsets' = upsets + 1
    /\ tab' = [tab EXCEPT ![t].phase = "waiting"]
    /\ UNCHANGED <<ryde, members, last, old, newest, left, times>>

\* The same for a socket the page has given up: only the storage is touched.
OldCloses(s) ==
    LET r == s.session.ryde
        clears == IF s.phase = "asking" THEN Missing(r) ELSE s.code \in EndsSession
    IN /\ IF s.phase = "closed" /\ s.code = 1006
          THEN /\ old' = (old \ {s}) \cup {[s EXCEPT !.phase = "asking"]}
               /\ UNCHANGED last
          ELSE /\ s.phase # "closing"
               /\ old' = old \ {s}
               /\ \/ clears /\ last' = Cleared(r)
                  \/ (clears => s.phase = "asking") /\ UNCHANGED last  \* no answer
       /\ UNCHANGED <<ryde, members, tab, upsets, newest, left, times>>

-----------------------------------------------------------------------------
(* The server and the network *)

\* Upgrade and authentication.  A connection of the same member elsewhere is
\* replaced.
Accept(t) ==
    LET s == tab[t].session
        replaced(u) == u # t /\ tab[u].phase = "live" /\ tab[u].session = s
    IN /\ tab[t].phase = "connecting"
       /\ ryde[s.ryde] = "open" /\ s \notin lapsed
       /\ tab' = [u \in Tabs |->
                    IF u = t THEN [tab[u] EXCEPT !.phase = "live"]
                    ELSE IF replaced(u) THEN [tab[u] EXCEPT !.phase = "closed", !.code = 4009]
                    ELSE tab[u]]
       /\ UNCHANGED <<ryde, members, last, old, upsets, newest, left, times>>

\* The upgrade of a room that does not exist is answered by HTTP 404.
Refuse(t) ==
    /\ tab[t].phase = "connecting"
    /\ ryde[tab[t].session.ryde] # "open"
    /\ tab' = [tab EXCEPT ![t] = [@ EXCEPT !.phase = "closed", !.code = 1006]]
    /\ UNCHANGED <<ryde, members, last, old, upsets, newest, left, times>>

\* A token that has run out, which is decided when it is first refused.
RefuseToken(t) ==
    LET s == tab[t].session
    IN /\ tab[t].phase = "connecting"
       /\ ryde[s.ryde] = "open"
       /\ \/ s \in lapsed /\ UNCHANGED <<lapsed, upsets>>
          \/ /\ s \notin lapsed /\ lapsed' = lapsed \cup {s}
             /\ upsets < MaxUpsets /\ upsets' = upsets + 1
       /\ tab' = [tab EXCEPT ![t] = [@ EXCEPT !.phase = "closed", !.code = 4003]]
       /\ UNCHANGED <<ryde, members, last, old, newest, left, past>>

\* A close the page asked for is echoed, or crosses the server's.
Echo(t) ==
    /\ tab[t].phase = "closing"
    /\ tab' = [tab EXCEPT ![t].phase = "closed"]
    /\ UNCHANGED <<ryde, members, last, old, upsets, newest, left, times>>
OldEcho(s) ==
    /\ s.phase = "closing"
    /\ \E c \in {s.code} \cup (IF ryde[s.session.ryde] = "gone" THEN {4011} ELSE {}) :
          old' = (old \ {s}) \cup {[s EXCEPT !.phase = "closed", !.code = c]}
    /\ UNCHANGED <<ryde, members, last, tab, upsets, newest, left, times>>

Drop(t) ==
    /\ tab[t].phase \in {"connecting", "live", "closing"}
    /\ upsets < MaxUpsets
    /\ upsets' = upsets + 1
    /\ tab' = [tab EXCEPT ![t] = [@ EXCEPT !.phase = "closed", !.code = 1006]]
    /\ UNCHANGED <<ryde, members, last, old, newest, left, times>>
OldDrop(s) ==
    /\ s.phase = "closing"
    /\ upsets < MaxUpsets
    /\ upsets' = upsets + 1
    /\ old' = (old \ {s}) \cup {[s EXCEPT !.phase = "closed", !.code = 1006]}
    /\ UNCHANGED <<ryde, members, last, tab, newest, left, times>>

\* Sockets of Rydes in R that are up, or being closed by their page, get a close
\* frame, or break.
HungUp(R, phases, c) ==
    tab' = [t \in Tabs |->
              IF tab[t].phase \in phases /\ tab[t].session.ryde \in R
              THEN [tab[t] EXCEPT !.phase = "closed", !.code = c] ELSE tab[t]]

\* The host ends a Ryde; the process restarts; a Ryde expires, and the
\* heartbeat hangs up on it later.
RydeEnds(r) ==
    /\ ryde[r] = "open"
    /\ ryde' = [ryde EXCEPT ![r] = "gone"]
    /\ HungUp({r}, {"live", "closing"}, 4011)
    /\ UNCHANGED <<members, last, old, upsets, newest, left, times>>
RydeExpires(r) ==
    /\ ryde[r] = "open" \/ (ryde[r] = "gone" /\ r = last.ryde /\ last.host)
    /\ r \notin past
    /\ ryde' = [ryde EXCEPT ![r] = "gone"]
    /\ past' = past \cup {r}
    /\ UNCHANGED <<members, last, tab, old, upsets, newest, left, lapsed>>

Heartbeat(r) ==
    /\ ryde[r] = "gone"
    /\ \E t \in Tabs : tab[t].phase = "live" /\ tab[t].session.ryde = r
    /\ HungUp({r}, {"live"}, 4010)
    /\ UNCHANGED <<ryde, members, last, old, upsets, newest, left, times>>
Restart ==
    /\ upsets < MaxUpsets
    /\ upsets' = upsets + 1
    /\ ryde' = [r \in Rydes |-> IF ryde[r] = "open" THEN "gone" ELSE ryde[r]]
    /\ HungUp(Rydes, {"live", "closing"}, 1006)
    /\ UNCHANGED <<members, last, old, newest, left, times>>

-----------------------------------------------------------------------------
SessionNext ==
    \/ \E t \in Tabs :
         \/ \E r \in Rydes : CreateRyde(t, r) \/ JoinRyde(t, r)
         \/ \E r \in Rydes \cup {NoRyde} : Load(t, r)
         \/ Answered(t) \/ AnswerLost(t) \/ Reconnect(t) \/ Leave(t)
         \/ CloseEvent(t) \/ Availability(t) \/ AvailabilityUnknown(t)
         \/ Accept(t) \/ Refuse(t) \/ RefuseToken(t) \/ Echo(t) \/ Drop(t)
    \/ \E s \in old : OldCloses(s) \/ OldEcho(s) \/ OldDrop(s)
    \/ \E r \in Rydes : RydeEnds(r) \/ RydeExpires(r) \/ Heartbeat(r)
    \/ Restart

\* The stored session is of a host whose Ryde is past its time.  A page that
\* renders it never comes to a timer or an event again (RendersSettle).
Jammed == last.host /\ last.ryde \in past

\* Requests, upgrades and closes settle, and the timers and events of a page that
\* is not jammed come; nobody has to touch a page, and nothing has to break.
SessionFairness ==
    /\ \A t \in Tabs :
         /\ WF_sessionVars(~Jammed /\ Reconnect(t)) /\ WF_sessionVars(~Jammed /\ CloseEvent(t))
         /\ WF_sessionVars(~Jammed /\ Availability(t))
         /\ WF_sessionVars(Accept(t) \/ RefuseToken(t)) /\ WF_sessionVars(Refuse(t))
         /\ WF_sessionVars(Echo(t))
    /\ \A r \in Rydes : WF_sessionVars(Heartbeat(r))

SessionSpec == SessionInit /\ [][SessionNext]_sessionVars /\ SessionFairness

-----------------------------------------------------------------------------
(* Properties *)

SessionTypeOK ==
    /\ ryde \in [Rydes -> {"none", "open", "gone"}]
    /\ members \in 0 .. MaxMembers
    /\ last \in Sessions \cup {NoSession} /\ newest \in Sessions \cup {NoSession}
    /\ tab \in [Tabs -> TabRecord]
    /\ old \subseteq OldRecord
    /\ upsets \in 0 .. MaxUpsets
    /\ past \subseteq Rydes /\ lapsed \subseteq Sessions
    /\ left \subseteq Rydes

\* The session a device saved last can be taken up by a reload for as long as
\* its Ryde is open and was never left, and no token for it has run out: no close
\* event, whichever socket it is of and however late, and no failed request takes
\* it out of localStorage.
LiveSessionIsKept ==
    newest # NoSession /\ ryde[newest.ryde] = "open" /\ newest.ryde \notin left
    /\ (\A s \in lapsed : s.ryde # newest.ryde)
        => last = newest

\* A page that is attached to a Ryde that is gone lets go of it, and with it goes
\* the stored session: no page goes on reconnecting, and the next load finds
\* nothing to take up.  A page that was replaced (4009) or loaded anew leaves the
\* session to the one that took over; one that is jammed promises nothing.
StaleSessionsEnd ==
    \A t \in Tabs, r \in Rydes :
        LET stale == Attached(t) /\ tab[t].session.ryde = r /\ ryde[r] = "gone"
        IN stale ~> \/ ~stale /\ (last.ryde # r \/ tab[t].code = 4009 \/ tab[t] = BlankTab)
                    \/ Jammed

\* Two pages that took up the same session do not take the connection from each
\* other for ever.  A rider who presses Leave again at each new attempt to
\* connect keeps both attached: such a rider is left aside.
NoTugOfWar ==
    LET tugging == \E t \in Tabs : \E u \in Tabs \ {t} :
                       Attached(t) /\ Attached(u) /\ tab[t].session = tab[u].session
    IN <>[][\A t \in Tabs : ~Leave(t)]_sessionVars => (tugging ~> ~tugging \/ Jammed)
=============================================================================
