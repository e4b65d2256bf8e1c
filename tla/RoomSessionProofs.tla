--------------------------- MODULE RoomSessionProofs ---------------------------
(***************************************************************************)
(* Proofs about RoomSession, for any number of pages, rooms, memberships and *)
(* broken connections.                                                       *)
(*                                                                          *)
(* LiveSessionIsKept speaks of the storage alone; that no late close event   *)
(* empties it wrongly rests on what a close code tells of its room, or of a  *)
(* token for it, however long the event was on its way (ClosesAreJust),      *)
(* and on a room that is gone never being opened again (RydesWereOpened).    *)
(***************************************************************************)
EXTENDS RoomSession, TLAPS

\* A page that has a socket, or had one, has the session it is for.
TabsHaveSessions == \A t \in Tabs : tab[t].phase # "none" => tab[t].session \in Sessions

\* A membership is of a Ryde that was opened.
RydesWereOpened ==
    /\ newest # NoSession => ryde[newest.ryde] # "none"
    /\ \A t \in Tabs : tab[t].asked # NoSession => ryde[tab[t].asked.ryde] # "none"

\* A code that ends the session for the bridge is only ever given for a Ryde
\* that is gone or was left, or one a token of this device for has run out.
Lapsed(r) == \E s \in lapsed : s.ryde = r
Over(r) == ryde[r] = "gone" \/ r \in left \/ Lapsed(r)
ClosesAreJust ==
    /\ \A t \in Tabs : tab[t].code \in EndsSession =>
           tab[t].session \in Sessions /\ Over(tab[t].session.ryde)
    /\ \A s \in old : s.code \in EndsSession => Over(s.session.ryde)

SessionInv ==
    /\ SessionTypeOK
    /\ TabsHaveSessions
    /\ RydesWereOpened
    /\ ClosesAreJust
    /\ LiveSessionIsKept

-----------------------------------------------------------------------------
(* What a step may do to the Rydes and to the storage *)

\* A Ryde is opened once and for all, and what was left stays left.
RydesMove ==
    /\ \A r \in Rydes : /\ ryde[r] = "gone" => ryde'[r] = "gone"
                        /\ ryde[r] # "none" => ryde'[r] # "none"
                        /\ ryde[r] = "gone" \/ ryde[r] = "open" \/ ryde[r] = "none"
    /\ left \subseteq left' /\ lapsed \subseteq lapsed'

\* A Ryde of which that is so after the step.
LapsedNext(r) == \E s \in lapsed' : s.ryde = r
OverNext(r) == ryde'[r] = "gone" \/ r \in left' \/ LapsedNext(r)

\* The storage keeps what it has, or lets go of a Ryde that is not open, or was
\* left, or is one a token for has run out.
StorageMoves ==
    \/ last' = last
    \/ \E r \in Rydes \cup {NoRyde} :
           /\ last' = Cleared(r)
           /\ r \in Rydes => ryde'[r] # "open" \/ r \in left' \/ LapsedNext(r)

LEMMA NoSessionIsNone == NoSession \notin Sessions /\ NoSession.ryde = NoRyde
BY SessionAssumption DEF NoSession, Sessions

\* clearLocalRoomSession() with such a Ryde loses no live session.
LEMMA KeptStep ==
    ASSUME SessionInv, RydesMove, StorageMoves, newest' = newest
    PROVE  LiveSessionIsKept'
<1> SUFFICES ASSUME newest # NoSession, ryde'[newest.ryde] = "open", newest.ryde \notin left',
                    \A s \in lapsed' : s.ryde # newest.ryde
             PROVE  last' = newest
  BY DEF LiveSessionIsKept
<1>1. newest.ryde \in Rydes
  BY DEF SessionInv, SessionTypeOK, Sessions
<1>2. /\ ryde[newest.ryde] = "open" /\ newest.ryde \notin left
      /\ \A s \in lapsed : s.ryde # newest.ryde
  BY <1>1 DEF RydesMove, SessionInv, RydesWereOpened
<1>3. last = newest
  BY <1>2 DEF SessionInv, LiveSessionIsKept
<1>4. ASSUME NEW r \in Rydes \cup {NoRyde}, last' = Cleared(r),
                   r \in Rydes => ryde'[r] # "open" \/ r \in left' \/ LapsedNext(r)
      PROVE  last' = newest
  <2>1. r # newest.ryde
    BY <1>1, <1>4 DEF LapsedNext
  <2> QED BY <1>3, <1>4, <2>1 DEF Cleared
<1> QED BY <1>3, <1>4 DEF StorageMoves

LEMMA StorageTypes ==
    ASSUME SessionInv, StorageMoves
    PROVE  last' \in Sessions \cup {NoSession}
BY DEF SessionInv, SessionTypeOK, StorageMoves, Cleared

\* What becomes of a page that keeps its session: nothing that a close code tells
\* of is undone.
TabsKeep ==
    \A t \in Tabs :
        /\ tab'[t] \in TabRecord
        /\ tab'[t].session = tab[t].session
        /\ tab'[t].asked \in {tab[t].asked, NoSession}
        /\ tab'[t].phase # "none" => tab[t].phase # "none"
        /\ tab'[t].code \in EndsSession =>
               \/ tab'[t].code = tab[t].code
               \/ tab[t].session \in Sessions /\ OverNext(tab[t].session.ryde)

OldKeep ==
    \A s \in old' :
        /\ s \in OldRecord
        /\ s.code \in EndsSession =>
               OverNext(s.session.ryde) \/ \E o \in old : o.code = s.code /\ o.session = s.session

\* The steps of sockets and of the server, which give no membership away.
LEMMA SocketStep ==
    ASSUME SessionInv, RydesMove, StorageMoves, TabsKeep, OldKeep, UNCHANGED <<members, newest>>,
           ryde' \in [Rydes -> {"none", "open", "gone"}], upsets' \in 0 .. MaxUpsets,
           left' \subseteq Rydes, past' \subseteq Rydes, lapsed' \subseteq Sessions,
           tab' = [t \in Tabs |-> tab'[t]]
    PROVE  SessionInv'
<1> USE DEF SessionInv
<1>1. SessionTypeOK'
  <2>1. tab' \in [Tabs -> TabRecord] /\ old' \subseteq OldRecord
    BY DEF TabsKeep, OldKeep
  <2> QED BY <2>1, StorageTypes DEF SessionTypeOK
<1>2. TabsHaveSessions'
  BY DEF TabsHaveSessions, TabsKeep
<1>3. RydesWereOpened'
  <2>1. newest # NoSession => newest.ryde \in Rydes
    BY DEF SessionTypeOK, Sessions
  <2>2. \A t \in Tabs : tab[t].asked # NoSession => tab[t].asked.ryde \in Rydes
    BY DEF SessionTypeOK, TabRecord, Sessions
  <2> QED BY <2>1, <2>2 DEF RydesWereOpened, RydesMove, TabsKeep
<1>4. ClosesAreJust'
  <2>1. ASSUME NEW r \in Rydes, Over(r) \/ OverNext(r)
        PROVE  ryde'[r] = "gone" \/ r \in left' \/ LapsedNext(r)
    BY <2>1 DEF Over, OverNext, Lapsed, LapsedNext, RydesMove
  <2>2. ASSUME NEW t \in Tabs, tab'[t].code \in EndsSession
        PROVE  tab'[t].session \in Sessions /\ Over(tab[t].session.ryde)'
    <3>1. PICK r : tab[t].session.ryde = r
      OBVIOUS
    <3>2. /\ tab'[t].session = tab[t].session /\ tab[t].session \in Sessions
          /\ Over(r) \/ OverNext(r)
      BY <2>2, <3>1 DEF TabsKeep, ClosesAreJust
    <3> QED BY <2>1, <3>1, <3>2 DEF Over, Lapsed, LapsedNext, Sessions
  <2>3. ASSUME NEW s \in old', s.code \in EndsSession PROVE Over(s.session.ryde)'
    <3>1. s \in OldRecord /\ (Over(s.session.ryde) \/ OverNext(s.session.ryde))
      BY <2>3 DEF OldKeep, ClosesAreJust
    <3> QED BY <2>1, <3>1 DEF Over, Lapsed, LapsedNext, OldRecord, Sessions
  <2> QED BY <2>2, <2>3 DEF ClosesAreJust
<1>5. LiveSessionIsKept'
  BY KeptStep
<1> QED BY <1>1, <1>2, <1>3, <1>4, <1>5

-----------------------------------------------------------------------------
(* The steps *)

LEMMA SessionInitInv == SessionInit => SessionInv
<1> SUFFICES ASSUME SessionInit
             PROVE  SessionInv
  OBVIOUS
<1>1. BlankTab \in TabRecord /\ 0 \in 0 .. MaxMembers /\ 0 \in 0 .. MaxUpsets
  BY SessionAssumption DEF BlankTab, TabRecord, Phases, CloseCodes
<1>2. BlankTab.phase = "none" /\ BlankTab.asked = NoSession /\ BlankTab.code \notin EndsSession
  BY DEF BlankTab, EndsSession
<1> QED BY <1>1, <1>2 DEF SessionInit, SessionInv, SessionTypeOK, TabsHaveSessions,
        RydesWereOpened, ClosesAreJust, LiveSessionIsKept

\* The membership that a form asks for is of a Ryde that is open by now.
LEMMA AskStep ==
    ASSUME SessionInv, NEW t \in Tabs, NEW r \in Rydes, CreateRyde(t, r) \/ JoinRyde(t, r)
    PROVE  SessionInv'
<1> USE DEF SessionInv
<1>0. PICK host \in BOOLEAN : AskFor(t, r, host)
  BY DEF CreateRyde, JoinRyde
<1> DEFINE new == NewSession(r, host)
<1>1. /\ tab[t].asked = NoSession /\ members < MaxMembers /\ members' = members + 1
      /\ tab' = [tab EXCEPT ![t].asked = new]
      /\ UNCHANGED <<last, old, upsets, newest, left, past, lapsed>>
  BY <1>0 DEF AskFor, times
<1>2. /\ ryde' \in [Rydes -> {"none", "open", "gone"}] /\ ryde'[r] = "open"
      /\ \A s \in Rydes : ryde'[s] = ryde[s] \/ ryde[s] = "none"
  BY DEF CreateRyde, JoinRyde, SessionTypeOK
<1>3. new \in Sessions /\ new.ryde = r /\ members' \in 0 .. MaxMembers
  BY <1>1, SessionAssumption DEF NewSession, Sessions, SessionTypeOK
<1> HIDE DEF new
<1>4. \A u \in Tabs : /\ tab'[u] \in TabRecord
                      /\ tab'[u].session = tab[u].session /\ tab'[u].phase = tab[u].phase
                      /\ tab'[u].code = tab[u].code
                      /\ tab'[u].asked \in {tab[u].asked, new}
  BY <1>1, <1>3 DEF SessionTypeOK, TabRecord
<1>5. SessionTypeOK'
  <2>1. tab' \in [Tabs -> TabRecord]
    BY <1>1, <1>4 DEF SessionTypeOK
  <2> QED BY <1>1, <1>2, <1>3, <2>1 DEF SessionTypeOK
<1>6. TabsHaveSessions'
  BY <1>4 DEF TabsHaveSessions
<1>7. RydesWereOpened'
  <2>1. newest # NoSession => newest.ryde \in Rydes
    BY DEF SessionTypeOK, Sessions
  <2>2. \A u \in Tabs : tab[u].asked # NoSession => tab[u].asked.ryde \in Rydes
    BY DEF SessionTypeOK, TabRecord, Sessions
  <2> QED BY <1>1, <1>2, <1>3, <1>4, <2>1, <2>2 DEF RydesWereOpened
<1>8. ClosesAreJust'
  <2>1. ASSUME NEW s \in Rydes, Over(s) PROVE ryde'[s] = "gone" \/ s \in left' \/ LapsedNext(s)
    BY <1>1, <1>2, <2>1 DEF Over, Lapsed, LapsedNext
  <2>2. ASSUME NEW u \in Tabs, tab'[u].code \in EndsSession
        PROVE  tab'[u].session \in Sessions /\ Over(tab[u].session.ryde)'
    <3>1. /\ tab'[u].session = tab[u].session /\ tab[u].session \in Sessions
          /\ Over(tab[u].session.ryde)
      BY <1>4, <2>2 DEF ClosesAreJust
    <3>2. PICK s \in Rydes : tab[u].session.ryde = s
      BY <3>1 DEF Sessions
    <3> QED BY <2>1, <3>1, <3>2 DEF Over, Lapsed, LapsedNext
  <2>3. \A s \in old : s.session.ryde \in Rydes
    BY DEF SessionTypeOK, OldRecord, Sessions
  <2> QED BY <1>1, <2>1, <2>2, <2>3 DEF ClosesAreJust, Over, Lapsed, LapsedNext
<1>9. LiveSessionIsKept'
  <2>1. newest # NoSession => newest.ryde \in Rydes /\ ryde'[newest.ryde] = ryde[newest.ryde]
    BY <1>2 DEF SessionTypeOK, Sessions, RydesWereOpened
  <2> QED BY <1>1, <2>1 DEF LiveSessionIsKept
<1> QED BY <1>5, <1>6, <1>7, <1>8, <1>9

\* The sockets a page gives up go on as they were, or are closed for no reason.
LEMMA DismissedFits ==
    ASSUME SessionInv, NEW t \in Tabs, NEW s \in Dismissed(t)
    PROVE  /\ s \in OldRecord
           /\ s.code \in EndsSession => s.code = tab[t].code /\ s.session = tab[t].session
<1>1. tab[t] \in TabRecord /\ tab[t].session \in Sessions
  BY DEF SessionInv, SessionTypeOK, TabsHaveSessions, Dismissed
<1>2. \/ s = [tab |-> t, session |-> tab[t].session, phase |-> "closed", code |-> 1006]
      \/ s = [tab |-> t, session |-> tab[t].session, phase |-> "closing", code |-> 1000]
      \/ /\ tab[t].phase \in {"closing", "closed", "asking"}
         /\ s = [tab |-> t, session |-> tab[t].session, phase |-> tab[t].phase,
                 code |-> tab[t].code]
  BY DEF Dismissed
<1> QED BY <1>1, <1>2 DEF OldRecord, TabRecord, CloseCodes, EndsSession, Final

\* saveRoomSession() and connectRealtime(): the answer's session is the newest.
LEMMA AnsweredStep ==
    ASSUME SessionInv, NEW t \in Tabs, Answered(t)
    PROVE  SessionInv'
<1> USE DEF SessionInv
<1> DEFINE s == tab[t].asked
           new == [session |-> s, phase |-> "connecting", code |-> 0, asked |-> NoSession]
<1>1. /\ s # NoSession /\ s \in Sessions /\ ryde[s.ryde] # "none"
      /\ last' = s /\ newest' = s /\ old' = old \cup Dismissed(t)
      /\ tab' = [tab EXCEPT ![t] = new]
      /\ UNCHANGED <<ryde, members, upsets, left, past, lapsed>>
  BY DEF Answered, Connecting, SessionTypeOK, TabRecord, RydesWereOpened, times
<1>2. new \in TabRecord /\ new.code \notin EndsSession
  BY <1>1 DEF TabRecord, Phases, CloseCodes, EndsSession
<1>3. SessionTypeOK'
  BY <1>1, <1>2, DismissedFits DEF SessionTypeOK
<1>4. TabsHaveSessions'
  BY <1>1 DEF TabsHaveSessions, SessionTypeOK
<1>5. RydesWereOpened'
  BY <1>1 DEF RydesWereOpened, SessionTypeOK
<1>6. ClosesAreJust'
  <2>1. ASSUME NEW o \in old', o.code \in EndsSession PROVE Over(o.session.ryde)
    BY <1>1, <2>1, DismissedFits DEF ClosesAreJust
  <2>2. ASSUME NEW u \in Tabs, tab'[u].code \in EndsSession PROVE tab'[u] = tab[u]
    BY <1>1, <1>2, <2>2 DEF SessionTypeOK
  <2> QED BY <1>1, <2>1, <2>2 DEF ClosesAreJust, Over, Lapsed
<1>7. LiveSessionIsKept'
  BY <1>1 DEF LiveSessionIsKept
<1> QED BY <1>3, <1>4, <1>5, <1>6, <1>7

\* A page that is loaded takes up the stored session or none.
LEMMA LoadStep ==
    ASSUME SessionInv, NEW t \in Tabs, NEW r \in Rydes \cup {NoRyde}, Load(t, r)
    PROVE  SessionInv'
<1> USE DEF SessionInv
<1> DEFINE new == [session |-> last, phase |-> "connecting", code |-> 0, asked |-> NoSession]
<1>1. /\ upsets' \in 0 .. MaxUpsets /\ old' \subseteq old
      /\ \/ tab' = [tab EXCEPT ![t] = new] /\ r # NoRyde /\ last.ryde = r
         \/ tab' = [tab EXCEPT ![t] = BlankTab]
      /\ UNCHANGED <<ryde, members, last, newest, left, past, lapsed>>
  BY SessionAssumption DEF Load, Connecting, SessionTypeOK, times
<1>2. r # NoRyde /\ last.ryde = r => last \in Sessions
  BY NoSessionIsNone DEF SessionTypeOK
<1>3. \A u \in Tabs : /\ tab'[u] \in TabRecord
                      /\ tab'[u].phase # "none" => tab'[u].session \in Sessions
                      /\ tab'[u].asked \in {tab[u].asked, NoSession}
                      /\ tab'[u].code \in EndsSession => tab'[u] = tab[u]
  <2>1. BlankTab \in TabRecord /\ BlankTab.phase = "none" /\ BlankTab.asked = NoSession
        /\ BlankTab.code \notin EndsSession
    BY DEF BlankTab, TabRecord, Phases, CloseCodes, EndsSession
  <2>2. last \in Sessions => new \in TabRecord /\ new.code \notin EndsSession
    BY DEF TabRecord, Phases, CloseCodes, EndsSession
  <2> QED BY <1>1, <1>2, <2>1, <2>2 DEF TabsHaveSessions, SessionTypeOK
<1>4. SessionTypeOK'
  <2>1. tab' \in [Tabs -> TabRecord]
    BY <1>1, <1>3 DEF SessionTypeOK
  <2> QED BY <1>1, <2>1 DEF SessionTypeOK
<1>5. TabsHaveSessions' /\ RydesWereOpened'
  BY <1>1, <1>3 DEF TabsHaveSessions, RydesWereOpened
<1>6. ClosesAreJust'
  BY <1>1, <1>3 DEF ClosesAreJust, Over, Lapsed
<1>7. LiveSessionIsKept'
  BY <1>1 DEF LiveSessionIsKept
<1> QED BY <1>4, <1>5, <1>6, <1>7

LEMMA Quiet ==
    ASSUME SessionInv
    PROVE  /\ UNCHANGED <<ryde, left, lapsed>> => RydesMove
           /\ UNCHANGED old => OldKeep
           /\ UNCHANGED tab => TabsKeep /\ tab' = [t \in Tabs |-> tab'[t]]
BY DEF SessionInv, SessionTypeOK, RydesMove, OldKeep, TabsKeep

\* A step that moves the phase of one page.
LEMMA OnePagePhase ==
    ASSUME SessionInv, NEW t \in Tabs, NEW phase \in Phases, tab[t].phase # "none",
           tab' = [tab EXCEPT ![t].phase = phase]
    PROVE  TabsKeep /\ tab' = [u \in Tabs |-> tab'[u]]
<1>1. tab \in [Tabs -> TabRecord] /\ tab[t].session \in Sessions
  BY DEF SessionInv, SessionTypeOK, TabsHaveSessions
<1> QED BY <1>1 DEF TabsKeep, TabRecord

\* A step that gives its socket a code, which ends no session or tells of a Ryde
\* that is over.
PageTold(t, phase, code) == tab' = [tab EXCEPT ![t] = [@ EXCEPT !.phase = phase, !.code = code]]

LEMMA OnePageCode ==
    ASSUME SessionInv, NEW t \in Tabs, NEW phase \in Phases, NEW code \in CloseCodes,
           tab[t].phase # "none", PageTold(t, phase, code),
           code \in EndsSession => OverNext(tab[t].session.ryde)
    PROVE  TabsKeep /\ tab' = [u \in Tabs |-> tab'[u]]
<1>1. tab \in [Tabs -> TabRecord] /\ tab[t].session \in Sessions
  BY DEF SessionInv, SessionTypeOK, TabsHaveSessions
<1> QED BY <1>1 DEF TabsKeep, TabRecord, PageTold

\* Steps of one page's socket that leave the storage alone.
LEMMA SocketMoves ==
    ASSUME SessionInv, NEW t \in Tabs,
           AnswerLost(t) \/ Reconnect(t) \/ Refuse(t) \/ Echo(t) \/ Drop(t)
    PROVE  SessionInv'
<1>1. /\ UNCHANGED <<ryde, members, last, old, newest, left, past, lapsed>>
      /\ upsets' \in 0 .. MaxUpsets
  BY SessionAssumption DEF SessionInv, SessionTypeOK, AnswerLost, Reconnect, Refuse, Echo, Drop, times
<1>2. TabsKeep /\ tab' = [u \in Tabs |-> tab'[u]]
  <2>1. CASE AnswerLost(t)
    BY <2>1 DEF AnswerLost, SessionInv, SessionTypeOK, TabsKeep, TabRecord
  <2>2. CASE Reconnect(t)
    BY <2>2, OnePagePhase DEF Reconnect, Phases
  <2>3. CASE Echo(t)
    BY <2>3, OnePagePhase DEF Echo, Phases
  <2>4. CASE Refuse(t) \/ Drop(t)
    <3>1. PageTold(t, "closed", 1006) /\ tab[t].phase # "none"
      BY <2>4 DEF Refuse, Drop, PageTold
    <3>2. "closed" \in Phases /\ 1006 \in CloseCodes /\ 1006 \notin EndsSession
      BY DEF Phases, CloseCodes, EndsSession
    <3> QED BY <3>1, <3>2, OnePageCode
  <2> QED BY <2>1, <2>2, <2>3, <2>4
<1>3. StorageMoves
  BY <1>1 DEF StorageMoves
<1> QED BY <1>1, <1>2, <1>3, Quiet, SocketStep DEF SessionInv, SessionTypeOK

\* A token that has run out is refused for the reason the code gives.
LEMMA RefuseTokenStep ==
    ASSUME SessionInv, NEW t \in Tabs, RefuseToken(t)
    PROVE  SessionInv'
<1>1. PICK s : s = tab[t].session
  OBVIOUS
<1>2. /\ UNCHANGED <<ryde, members, last, old, newest, left, past>>
      /\ tab[t].phase = "connecting" /\ PageTold(t, "closed", 4003)
      /\ lapsed' = lapsed \cup {s}
      /\ upsets' = upsets \/ (upsets < MaxUpsets /\ upsets' = upsets + 1)
  BY <1>1 DEF RefuseToken, PageTold
<1>3. upsets' \in 0 .. MaxUpsets
  BY <1>2, SessionAssumption DEF SessionInv, SessionTypeOK
<1>4. s \in Sessions /\ lapsed' \subseteq Sessions
  BY <1>1, <1>2 DEF SessionInv, SessionTypeOK, TabsHaveSessions
<1>5. RydesMove /\ StorageMoves
  BY <1>2 DEF SessionInv, SessionTypeOK, RydesMove, StorageMoves
<1>6. "closed" \in Phases /\ 4003 \in CloseCodes
  BY DEF Phases, CloseCodes, Final, EndsSession
<1>7. OverNext(tab[t].session.ryde)
  BY <1>1, <1>2 DEF OverNext, LapsedNext
<1>8. TabsKeep /\ tab' = [u \in Tabs |-> tab'[u]]
  BY <1>2, <1>6, <1>7, OnePageCode
<1> QED BY <1>2, <1>3, <1>4, <1>5, <1>8, Quiet, SocketStep DEF SessionInv, SessionTypeOK

\* The close event of the page's own socket: what its code tells of the Ryde is
\* still true when it is read.
LEMMA CloseEventStep ==
    ASSUME SessionInv, NEW t \in Tabs, CloseEvent(t)
    PROVE  SessionInv'
<1>1. /\ UNCHANGED <<ryde, members, old, upsets, newest, left, past, lapsed>>
      /\ tab[t].phase = "closed"
  BY DEF CloseEvent, times
<1>2. PICK p \in Phases : tab' = [tab EXCEPT ![t].phase = p]
  BY DEF CloseEvent, Phases
<1>3. TabsKeep /\ tab' = [u \in Tabs |-> tab'[u]]
  BY <1>1, <1>2, OnePagePhase
<1>4. StorageMoves
  <2>1. CASE tab[t].code \in EndsSession
    <3>1. PICK r : tab[t].session.ryde = r
      OBVIOUS
    <3>2. r \in Rydes /\ Over(r)
      BY <2>1, <3>1 DEF SessionInv, ClosesAreJust, Sessions
    <3>3. last' = last \/ last' = Cleared(r)
      BY <3>1 DEF CloseEvent
    <3> QED BY <1>1, <3>2, <3>3 DEF StorageMoves, Over, Lapsed, LapsedNext
  <2>2. CASE tab[t].code \notin EndsSession
    BY <2>2 DEF CloseEvent, StorageMoves
  <2> QED BY <2>1, <2>2
<1> QED BY <1>1, <1>3, <1>4, Quiet, SocketStep DEF SessionInv, SessionTypeOK

\* The bridge's question is answered while its socket is held back.
LEMMA AvailabilityStep ==
    ASSUME SessionInv, NEW t \in Tabs, Availability(t) \/ AvailabilityUnknown(t)
    PROVE  SessionInv'
<1>1. /\ UNCHANGED <<ryde, members, old, newest, left, past, lapsed>> /\ tab[t].phase = "asking"
      /\ upsets' \in 0 .. MaxUpsets
  BY SessionAssumption DEF Availability, AvailabilityUnknown, SessionInv, SessionTypeOK, times
<1>2. PICK p \in Phases : tab' = [tab EXCEPT ![t].phase = p]
  BY DEF Availability, AvailabilityUnknown, Phases
<1>3. TabsKeep /\ tab' = [u \in Tabs |-> tab'[u]]
  BY <1>1, <1>2, OnePagePhase
<1>4. PICK r : tab[t].session.ryde = r
  OBVIOUS
<1>5. r \in Rydes
  BY <1>1, <1>4 DEF SessionInv, TabsHaveSessions, Sessions
<1>6. last' = last \/ (last' = Cleared(r) /\ ryde[r] # "open")
  BY <1>4 DEF Availability, AvailabilityUnknown, Missing
<1>7. StorageMoves
  BY <1>1, <1>5, <1>6 DEF StorageMoves
<1> QED BY <1>1, <1>3, <1>7, Quiet, SocketStep DEF SessionInv, SessionTypeOK

\* The Leave button: of its effects on the pages, the only code that ends a
\* session is of the Ryde that is left.
LEMMA LeaveStep ==
    ASSUME SessionInv, NEW t \in Tabs, Leave(t)
    PROVE  SessionInv'
<1>1. PICK r : last.ryde = r
  OBVIOUS
<1>2. /\ r \in Rydes /\ left' = left \cup {r}
      /\ UNCHANGED <<ryde, members, old, upsets, newest, past, lapsed>>
      /\ \/ tab' = HungUpBy(t, r) /\ UNCHANGED last
         \/ last' = Cleared(r) /\ UNCHANGED tab
  BY <1>1 DEF Leave, SessionInv, SessionTypeOK, Sessions, times
<1>3. RydesMove /\ StorageMoves
  BY <1>2 DEF SessionInv, SessionTypeOK, RydesMove, StorageMoves
<1>4. ASSUME tab' = HungUpBy(t, r) PROVE TabsKeep /\ tab' = [u \in Tabs |-> tab'[u]]
  <2>1. \/ PageTold(t, "closing", 4005) /\ tab[t].session.ryde = r /\ tab[t].phase = "live"
        \/ PageTold(t, "closed", 1006) /\ tab[t].phase = "connecting"
        \/ UNCHANGED tab
    <3>1. CASE tab[t].session.ryde = r /\ tab[t].phase = "live"
      BY <1>4, <3>1 DEF HungUpBy, PageTold
    <3>2. CASE tab[t].session.ryde = r /\ tab[t].phase = "connecting"
      BY <1>4, <3>2 DEF HungUpBy, PageTold
    <3>3. CASE ~(tab[t].session.ryde = r /\ tab[t].phase \in {"live", "connecting"})
      BY <1>4, <3>3 DEF HungUpBy, SessionInv, SessionTypeOK
    <3> QED BY <3>1, <3>2, <3>3
  <2>2. /\ {"closing", "closed"} \subseteq Phases /\ {4005, 1006} \subseteq CloseCodes
        /\ 1006 \notin EndsSession
    BY DEF Phases, CloseCodes, Final, EndsSession
  <2>3. tab[t].session.ryde = r => OverNext(tab[t].session.ryde)
    BY <1>2 DEF OverNext
  <2> QED BY <2>1, <2>2, <2>3, OnePageCode, Quiet
<1>5. TabsKeep /\ tab' = [u \in Tabs |-> tab'[u]]
  BY <1>2, <1>4, Quiet
<1>6. left' \subseteq Rydes
  BY <1>2 DEF SessionInv, SessionTypeOK
<1> QED BY <1>2, <1>3, <1>5, <1>6, Quiet, SocketStep DEF SessionInv, SessionTypeOK

\* An upgrade takes the connection from the same member's other pages, with a code
\* that ends no session.
LEMMA AcceptStep ==
    ASSUME SessionInv, NEW t \in Tabs, Accept(t)
    PROVE  SessionInv'
<1>1. UNCHANGED <<ryde, members, last, old, upsets, newest, left, past, lapsed>>
  BY DEF Accept, times
<1>2. tab \in [Tabs -> TabRecord] /\ tab[t].phase = "connecting"
  BY DEF SessionInv, SessionTypeOK, Accept
<1> DEFINE new(u) ==
      IF u = t THEN [tab[u] EXCEPT !.phase = "live"]
      ELSE IF u # t /\ tab[u].phase = "live" /\ tab[u].session = tab[t].session
           THEN [tab[u] EXCEPT !.phase = "closed", !.code = 4009] ELSE tab[u]
<1>3. tab' = [u \in Tabs |-> new(u)]
  BY DEF Accept
<1>7. tab' = [u \in Tabs |-> tab'[u]] /\ \A u \in Tabs : tab'[u] = new(u)
  <2> HIDE DEF new
  <2> QED BY <1>3
<1>8. "live" \in Phases /\ "closed" \in Phases /\ 4009 \in CloseCodes /\ 4009 \notin EndsSession
  BY DEF Phases, CloseCodes, Final, EndsSession
<1>4. ASSUME NEW u \in Tabs
      PROVE  /\ tab'[u] \in TabRecord
             /\ tab'[u].session = tab[u].session /\ tab'[u].asked = tab[u].asked
             /\ tab[u].phase = "none" => tab'[u].phase = "none"
             /\ tab'[u].code = tab[u].code \/ tab'[u].code = 4009
  <2>1. PICK p \in Phases, q \in Phases, c \in CloseCodes : p = "live" /\ q = "closed" /\ c = 4009
    BY <1>8
  <2>2. PICK s \in TabRecord : s = tab[u]
    BY <1>2
  <2>3. \/ tab'[u] = s
        \/ tab'[u] = [s EXCEPT !.phase = p] /\ s.phase # "none"
        \/ tab'[u] = [s EXCEPT !.phase = q, !.code = c] /\ s.phase # "none"
    <3>1. tab'[u] = new(u)
      BY <1>7
    <3>2. CASE u = t
      BY <1>2, <2>1, <2>2, <3>1, <3>2
    <3>3. CASE u # t /\ s.phase = "live" /\ s.session = tab[t].session
      BY <2>1, <2>2, <3>1, <3>3
    <3>4. CASE u # t /\ ~(s.phase = "live" /\ s.session = tab[t].session)
      BY <2>2, <3>1, <3>4
    <3> QED BY <3>2, <3>3, <3>4
  <2>4. /\ [s EXCEPT !.phase = p] \in TabRecord
        /\ [s EXCEPT !.phase = p].session = s.session
        /\ [s EXCEPT !.phase = p].asked = s.asked
        /\ [s EXCEPT !.phase = p].code = s.code
        /\ [s EXCEPT !.phase = q, !.code = c] \in TabRecord
        /\ [s EXCEPT !.phase = q, !.code = c].session = s.session
        /\ [s EXCEPT !.phase = q, !.code = c].asked = s.asked
        /\ [s EXCEPT !.phase = q, !.code = c].code = c
    BY DEF TabRecord
  <2>5. /\ tab'[u] \in TabRecord
        /\ tab'[u].session = s.session /\ tab'[u].asked = s.asked
        /\ s.phase = "none" => tab'[u] = s
        /\ tab'[u].code = s.code \/ tab'[u].code = c
    BY <2>3, <2>4
  <2> QED BY <2>1, <2>2, <2>5
<1>5. TabsKeep
  BY <1>4, <1>8 DEF TabsKeep
<1>6. StorageMoves
  BY <1>1 DEF StorageMoves
<1> QED BY <1>1, <1>5, <1>6, <1>7, Quiet, SocketStep DEF SessionInv, SessionTypeOK

\* The server hangs up on the pages of some Rydes.
LEMMA HungUpPages ==
    ASSUME SessionInv, NEW R, NEW phases, NEW c \in CloseCodes, "none" \notin phases,
           HungUp(R, phases, c), c \in EndsSession => \A r \in R : OverNext(r)
    PROVE  TabsKeep /\ tab' = [u \in Tabs |-> tab'[u]]
<1>1. tab \in [Tabs -> TabRecord] /\ tab' = [u \in Tabs |-> tab'[u]]
  BY DEF SessionInv, SessionTypeOK, HungUp
<1>2. PICK q \in Phases : q = "closed"
  BY DEF Phases
<1>3. ASSUME NEW u \in Tabs
      PROVE  /\ tab'[u] \in TabRecord
             /\ tab'[u].session = tab[u].session /\ tab'[u].asked = tab[u].asked
             /\ tab[u].phase = "none" => tab'[u].phase = "none"
             /\ \/ tab'[u].code = tab[u].code
                \/ tab'[u].code = c /\ tab[u].session.ryde \in R /\ tab[u].session \in Sessions
  <2>1. PICK s \in TabRecord : s = tab[u]
    BY <1>1
  <2>2. \/ tab'[u] = s
        \/ /\ tab'[u] = [s EXCEPT !.phase = q, !.code = c]
           /\ s.phase # "none" /\ s.session.ryde \in R /\ s.session \in Sessions
    BY <1>2, <2>1 DEF HungUp, SessionInv, TabsHaveSessions
  <2>3. /\ [s EXCEPT !.phase = q, !.code = c] \in TabRecord
        /\ [s EXCEPT !.phase = q, !.code = c].session = s.session
        /\ [s EXCEPT !.phase = q, !.code = c].asked = s.asked
        /\ [s EXCEPT !.phase = q, !.code = c].code = c
    BY DEF TabRecord
  <2> QED BY <2>1, <2>2, <2>3
<1> QED BY <1>1, <1>3 DEF TabsKeep

\* The end of a Ryde, its expiry, the heartbeat and a restart: a code that ends
\* sessions is sent for a Ryde that is gone.
LEMMA ServerStep ==
    ASSUME SessionInv,
           (\E r \in Rydes : RydeEnds(r) \/ RydeExpires(r) \/ Heartbeat(r)) \/ Restart
    PROVE  SessionInv'
<1>1. /\ UNCHANGED <<members, last, old, newest, left, lapsed>> /\ upsets' \in 0 .. MaxUpsets
      /\ past' \subseteq Rydes
      /\ ryde' \in [Rydes -> {"none", "open", "gone"}]
      /\ \A r \in Rydes : ryde'[r] = ryde[r] \/ (ryde[r] = "open" /\ ryde'[r] = "gone")
  <2>1. /\ ryde \in [Rydes -> {"none", "open", "gone"}] /\ upsets \in 0 .. MaxUpsets
        /\ past \subseteq Rydes
    BY DEF SessionInv, SessionTypeOK
  <2>2. ASSUME NEW r \in Rydes, RydeEnds(r) \/ RydeExpires(r) PROVE <1>1
    <3>1. /\ UNCHANGED <<members, last, old, upsets, newest, left, lapsed>>
          /\ ryde[r] \in {"open", "gone"} /\ past' \in {past, past \cup {r}}
          /\ ryde' = [ryde EXCEPT ![r] = "gone"]
      BY <2>2 DEF RydeEnds, RydeExpires, times
    <3> QED BY <2>1, <3>1
  <2>3. ASSUME NEW r \in Rydes, Heartbeat(r) PROVE <1>1
    <3>1. UNCHANGED <<ryde, members, last, old, upsets, newest, left, past, lapsed>>
      BY <2>3 DEF Heartbeat, times
    <3> QED BY <2>1, <3>1
  <2>4. CASE Restart
    <3>1. /\ UNCHANGED <<members, last, old, newest, left, past, lapsed>>
          /\ upsets < MaxUpsets /\ upsets' = upsets + 1
          /\ ryde' = [r \in Rydes |-> IF ryde[r] = "open" THEN "gone" ELSE ryde[r]]
      BY <2>4 DEF Restart, times
    <3> QED BY <2>1, <3>1, SessionAssumption
  <2> QED BY <2>2, <2>3, <2>4
<1>2. RydesMove /\ StorageMoves
  BY <1>1 DEF SessionInv, SessionTypeOK, RydesMove, StorageMoves
<1>3. {4011, 4010, 1006} \subseteq CloseCodes /\ 1006 \notin EndsSession
  BY DEF CloseCodes, Final, EndsSession
<1>4. TabsKeep /\ tab' = [t \in Tabs |-> tab'[t]]
  <2>1. ASSUME NEW r \in Rydes, RydeEnds(r) PROVE TabsKeep /\ tab' = [t \in Tabs |-> tab'[t]]
    <3>1. HungUp({r}, {"live", "closing"}, 4011) /\ \A s \in {r} : OverNext(s)
      BY <2>1 DEF RydeEnds, OverNext, SessionInv, SessionTypeOK
    <3> QED BY <1>3, <3>1, HungUpPages
  <2>2. ASSUME NEW r \in Rydes, RydeExpires(r) PROVE TabsKeep /\ tab' = [t \in Tabs |-> tab'[t]]
    BY <2>2, Quiet DEF RydeExpires
  <2>3. ASSUME NEW r \in Rydes, Heartbeat(r) PROVE TabsKeep /\ tab' = [t \in Tabs |-> tab'[t]]
    <3>1. HungUp({r}, {"live"}, 4010) /\ \A s \in {r} : OverNext(s)
      BY <2>3 DEF Heartbeat, OverNext
    <3> QED BY <1>3, <3>1, HungUpPages
  <2>4. CASE Restart
    <3>1. HungUp(Rydes, {"live", "closing"}, 1006)
      BY <2>4 DEF Restart
    <3> QED BY <1>3, <3>1, HungUpPages
  <2> QED BY <2>1, <2>2, <2>3, <2>4
<1> QED BY <1>1, <1>2, <1>4, Quiet, SocketStep DEF SessionInv, SessionTypeOK

\* A socket that its page has given up: its close may be far behind the times.
OldMoves(s, phase) == old' = (old \ {s}) \cup {[s EXCEPT !.phase = phase]}
OldTold(s, phase, code) == old' = (old \ {s}) \cup {[s EXCEPT !.phase = phase, !.code = code]}

LEMMA OldKeeps ==
    ASSUME SessionInv, NEW s \in old, UNCHANGED <<ryde, left, lapsed>>,
           NEW p \in {"closing", "closed", "asking"}, NEW c \in CloseCodes,
           c \in EndsSession => c = s.code \/ ryde[s.session.ryde] = "gone",
           OldMoves(s, p) \/ OldTold(s, p, c) \/ old' = old \ {s}
    PROVE  OldKeep
<1>1. s \in OldRecord
  BY DEF SessionInv, SessionTypeOK
<1> DEFINE moved == [s EXCEPT !.phase = p]
           told == [s EXCEPT !.phase = p, !.code = c]
<1>2. /\ moved \in OldRecord /\ moved.code = s.code /\ moved.session = s.session
      /\ told \in OldRecord /\ told.code = c /\ told.session = s.session
  BY <1>1 DEF OldRecord
<1>3. \A o \in old' : o \in old \/ o = moved \/ o = told
  BY DEF OldMoves, OldTold
<1> HIDE DEF moved, told
<1>4. old \subseteq OldRecord
  BY DEF SessionInv, SessionTypeOK
<1> QED BY <1>2, <1>3, <1>4 DEF OldKeep, OverNext

LEMMA OldStep ==
    ASSUME SessionInv, NEW s \in old, OldCloses(s) \/ OldEcho(s) \/ OldDrop(s)
    PROVE  SessionInv'
<1>1. PICK r \in Rydes : s.session.ryde = r
  BY DEF SessionInv, SessionTypeOK, OldRecord, Sessions
<1>2. s.code \in CloseCodes /\ (s.code \in EndsSession => Over(r))
  BY <1>1 DEF SessionInv, SessionTypeOK, OldRecord, ClosesAreJust
<1>3. UNCHANGED <<ryde, members, tab, newest, left, past, lapsed>>
  BY DEF OldCloses, OldEcho, OldDrop, times
<1>4. upsets' \in 0 .. MaxUpsets
  <2>1. upsets' = upsets \/ (upsets < MaxUpsets /\ upsets' = upsets + 1)
    BY DEF OldCloses, OldEcho, OldDrop
  <2> QED BY <2>1, SessionAssumption DEF SessionInv, SessionTypeOK
<1>5. {4011, 1006} \subseteq CloseCodes /\ 1006 \notin EndsSession
  BY DEF CloseCodes, Final, EndsSession
<1>6. CASE OldCloses(s)
  <2>1. OldMoves(s, "asking") \/ old' = old \ {s}
    BY <1>6 DEF OldCloses, OldMoves
  <2>2. OldKeep
    BY <1>2, <1>3, <2>1, OldKeeps
  <2>3. StorageMoves
    <3>1. CASE s.phase = "closed" /\ s.code = 1006
      <4>1. UNCHANGED last
        BY <1>6, <3>1 DEF OldCloses
      <4> QED BY <4>1 DEF StorageMoves
    <3>2. CASE s.phase = "asking"
      <4>1. UNCHANGED last \/ (last' = Cleared(r) /\ Missing(r))
        BY <1>1, <1>6, <3>2 DEF OldCloses
      <4> QED BY <1>1, <1>3, <4>1 DEF StorageMoves, Missing
    <3>3. CASE s.phase # "asking" /\ ~(s.phase = "closed" /\ s.code = 1006)
      <4>1. UNCHANGED last \/ (last' = Cleared(r) /\ s.code \in EndsSession)
        BY <1>1, <1>6, <3>3 DEF OldCloses
      <4> QED BY <1>1, <1>2, <1>3, <4>1 DEF StorageMoves, Over, Lapsed, LapsedNext
    <3> QED BY <3>1, <3>2, <3>3
  <2> QED BY <1>3, <1>4, <2>2, <2>3, Quiet, SocketStep DEF SessionInv, SessionTypeOK
<1>7. CASE OldEcho(s) \/ OldDrop(s)
  <2>1. \/ OldTold(s, "closed", s.code)
        \/ OldTold(s, "closed", 4011) /\ ryde[s.session.ryde] = "gone"
        \/ OldTold(s, "closed", 1006)
    <3>1. CASE OldEcho(s)
      <4> DEFINE codes == {s.code} \cup (IF ryde[s.session.ryde] = "gone" THEN {4011} ELSE {})
      <4>1. PICK c \in codes : OldTold(s, "closed", c)
        BY <3>1 DEF OldEcho, OldTold
      <4>2. c = s.code \/ (c = 4011 /\ ryde[s.session.ryde] = "gone")
        OBVIOUS
      <4> QED BY <4>1, <4>2
    <3>2. CASE OldDrop(s)
      BY <3>2 DEF OldDrop, OldTold
    <3> QED BY <1>7, <3>1, <3>2
  <2>2. OldKeep
    BY <1>2, <1>3, <1>5, <2>1, OldKeeps
  <2>3. StorageMoves
    BY <1>7 DEF OldEcho, OldDrop, StorageMoves
  <2> QED BY <1>3, <1>4, <2>2, <2>3, Quiet, SocketStep DEF SessionInv, SessionTypeOK
<1> QED BY <1>6, <1>7

-----------------------------------------------------------------------------
(* The theorems *)

LEMMA SessionStep == SessionInv /\ [SessionNext]_sessionVars => SessionInv'
<1> SUFFICES ASSUME SessionInv, [SessionNext]_sessionVars
             PROVE  SessionInv'
  OBVIOUS
<1>1. ASSUME NEW t \in Tabs, NEW r \in Rydes, CreateRyde(t, r) \/ JoinRyde(t, r)
      PROVE  SessionInv'
  BY <1>1, AskStep
<1>2. ASSUME NEW t \in Tabs, NEW r \in Rydes \cup {NoRyde}, Load(t, r) PROVE SessionInv'
  BY <1>2, LoadStep
<1>3. ASSUME NEW t \in Tabs, Answered(t) \/ Leave(t) PROVE SessionInv'
  BY <1>3, AnsweredStep, LeaveStep
<1>4. ASSUME NEW t \in Tabs,
             \/ AnswerLost(t) \/ Reconnect(t) \/ Refuse(t) \/ Echo(t) \/ Drop(t)
             \/ Accept(t) \/ RefuseToken(t)
      PROVE  SessionInv'
  BY <1>4, SocketMoves, AcceptStep, RefuseTokenStep
<1>5. ASSUME NEW t \in Tabs, CloseEvent(t) \/ Availability(t) \/ AvailabilityUnknown(t)
      PROVE  SessionInv'
  BY <1>5, CloseEventStep, AvailabilityStep
<1>6. ASSUME NEW s \in old, OldCloses(s) \/ OldEcho(s) \/ OldDrop(s) PROVE SessionInv'
  BY <1>6, OldStep
<1>7. CASE (\E r \in Rydes : RydeEnds(r) \/ RydeExpires(r) \/ Heartbeat(r)) \/ Restart
  BY <1>7, ServerStep
<1>8. CASE UNCHANGED sessionVars
  BY <1>8 DEF sessionVars, SessionInv, SessionTypeOK, TabsHaveSessions, RydesWereOpened,
        ClosesAreJust, Over, Lapsed, LiveSessionIsKept, times
<1> QED BY <1>1, <1>2, <1>3, <1>4, <1>5, <1>6, <1>7, <1>8 DEF SessionNext

\* The inductive invariant of a device's pages and sockets.
THEOREM SessionInvariance == SessionSpec => []SessionInv
BY SessionInitInv, SessionStep, PTL DEF SessionSpec

\* The types, among them: there is never a close code the bridge and the page do
\* not know, and a given-up socket is always for a session.
THEOREM SessionTypeCorrect == SessionSpec => []SessionTypeOK
<1>1. SessionInv => SessionTypeOK
  BY DEF SessionInv
<1> QED BY <1>1, SessionInvariance, PTL

\* The session a device saved last stays in localStorage while its Ryde is open,
\* was not left and no token for it has run out: no close event, of whichever socket and however late, and no
\* question about another Ryde takes it away (catalog-bridge.js).
THEOREM SessionIsKept == SessionSpec => []LiveSessionIsKept
<1>1. SessionInv => LiveSessionIsKept
  BY DEF SessionInv
<1> QED BY <1>1, SessionInvariance, PTL

=============================================================================
