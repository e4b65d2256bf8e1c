------------------------------ MODULE SavedRooms ------------------------------
(***************************************************************************)
(* "Your rooms" on the device: the bookmarks of apps/web/catalog-bridge.js   *)
(* in localStorage, the picker of the join form and the active card that     *)
(* show them, and the rendering that every write to the storage asks for.    *)
(*                                                                          *)
(* A write queues a microtask that renders, and a render reads, filters and  *)
(* may write again.  While microtasks are queued the page does nothing else: *)
(* no timer, no answer and no tap gets through.                             *)
(*                                                                          *)
(* Here the page is alone on its device and has at most one session; how     *)
(* sessions come and go over sockets is the subject of RoomSession.  Name    *)
(* and mode of a room do not change, so a bookmark is its room.              *)
(***************************************************************************)
EXTENDS Naturals, SequencesExt

CONSTANTS
    Places,         \* the rooms of an instance
    MaxSaved        \* bookmarks that are kept: 24 in the code

NoPlace == "no place"

ASSUME SavedAssumption == NoPlace \notin Places /\ MaxSaved \in Nat \ {0}

VARIABLES
    overdue,    \* the rooms past their expiresAt
    missing,    \* the rooms the server does not have: overdue, or ended
    saved,      \* localStorage: rydesync:saved-rooms, newest first
    session,    \* localStorage: rydesync:last-session
    rendering,  \* 0, or the microtask that is queued: 1 and 2 by turns
    select,     \* the room chosen in the picker
    checks      \* the rooms whose availability the picker is asking for

savedVars == <<overdue, missing, saved, session, rendering, select, checks>>

NoStay == [place |-> NoPlace, host |-> FALSE]
Stays == [place : Places, host : BOOLEAN]

SavedInit ==
    /\ overdue = {} /\ missing = {}
    /\ saved = <<>>
    /\ session = NoStay
    /\ rendering = 0
    /\ select = NoPlace
    /\ checks = {}

-----------------------------------------------------------------------------
(* The list *)

\* The rooms that are not gone, in their order: SelectSeq, as a recursive function.
Excluding(rooms, gone) ==
    LET upTo[n \in 0 .. Len(rooms)] ==
            IF n = 0 THEN <<>>
            ELSE IF rooms[n] \in gone THEN upTo[n - 1] ELSE Append(upTo[n - 1], rooms[n])
    IN upTo[Len(rooms)]

\* readSavedRooms(): what it returns is also what it leaves behind.
KeptUnlessMissing(rooms) == Excluding(rooms, missing)
Kept(rooms) == Excluding(rooms, overdue)

\* saveRoomBookmark() and removeSavedRoom().
AllOf(rooms) == rooms
FirstOf(rooms) == SubSeq(rooms, 1, IF Len(rooms) < MaxSaved THEN Len(rooms) ELSE MaxSaved)
BookmarkedLast(rooms, r) ==
    IF r \in ToSet(Kept(rooms)) THEN Kept(rooms)
    ELSE FirstOf(Append(Kept(rooms), r))
Bookmarked(rooms, r) ==
    IF r \in ToSet(Kept(rooms)) THEN Kept(rooms)
    ELSE FirstOf(<<r>> \o Kept(rooms))
Without(rooms, r) == Excluding(Kept(rooms), {r})

\* The page is between two tasks.
Idling == rendering = 0

-----------------------------------------------------------------------------
(* The page *)

\* renderRoomExperience(): the picker reads the list; the card of a host saves
\* the room and reads the list again.  Whatever is written queues a render.
Render ==
    LET picked == Kept(saved)
        carded == IF session.host THEN Bookmarked(picked, session.place) ELSE picked
        shown == IF session = NoStay THEN carded ELSE Kept(carded)
    IN /\ ~Idling
       /\ saved' = shown
       /\ rendering' = IF picked # saved \/ carded # picked \/ shown # carded
                        THEN 3 - rendering ELSE 0
       /\ select' = IF select \in ToSet(picked) THEN select ELSE NoPlace
       /\ UNCHANGED <<overdue, missing, session, checks>>

\* A create or join was answered, and saved.
Enter(s) ==
    /\ Idling
    /\ s.place \notin missing
    /\ session' = s
    /\ rendering' = 1
    /\ UNCHANGED <<overdue, missing, saved, select, checks>>

\* clearLocalRoomSession(): the rider has left, or the page was told that the
\* room has ended, has expired or cannot be found.
LeavePlace ==
    /\ Idling
    /\ session # NoStay
    /\ session' = NoStay
    /\ rendering' = 1
    /\ UNCHANGED <<overdue, missing, saved, select, checks>>
PlaceIsGone ==
    /\ Idling
    /\ session.place \in missing
    /\ session' = NoStay
    /\ saved' = Without(saved, session.place)
    /\ rendering' = 1
    /\ UNCHANGED <<overdue, missing, select, checks>>

\* The save button of the card.
ToggleSaved ==
    /\ Idling
    /\ session # NoStay
    /\ saved' = IF session.place \in ToSet(Kept(saved)) THEN Without(saved, session.place)
                ELSE Bookmarked(saved, session.place)
    /\ rendering' = 1
    /\ UNCHANGED <<overdue, missing, session, select, checks>>

\* A choice in the picker asks the server; the answer acts on the choice there
\* is by then.
Choose(r) ==
    /\ Idling
    /\ r \in ToSet(saved) /\ select # r
    /\ select' = r
    /\ checks' = checks \cup {r}
    /\ UNCHANGED <<overdue, missing, saved, session, rendering>>
Checked(r) ==
    /\ Idling
    /\ r \in checks
    /\ checks' = checks \ {r}
    /\ IF r \in missing
       THEN saved' = Without(saved, select) /\ rendering' = 1
       ELSE UNCHANGED <<saved, rendering>>
    /\ UNCHANGED <<overdue, missing, session, select>>

CheckFailed(r) ==
    /\ Idling
    /\ r \in checks
    /\ checks' = checks \ {r}
    /\ UNCHANGED <<overdue, missing, saved, session, rendering, select>>

Forget ==
    /\ Idling
    /\ select # NoPlace
    /\ saved' = Without(saved, select)
    /\ rendering' = 1
    /\ UNCHANGED <<overdue, missing, session, select, checks>>

\* The page is opened again: the storage is all that is left.
Reopen ==
    /\ rendering' = 1
    /\ select' = NoPlace
    /\ checks' = {}
    /\ UNCHANGED <<overdue, missing, saved, session>>

-----------------------------------------------------------------------------
(* The rest of the world *)

PlaceEnds(r) ==
    /\ missing' = missing \cup {r}
    /\ UNCHANGED <<overdue, saved, session, rendering, select, checks>>
PlaceLapses(r) ==
    /\ overdue' = overdue \cup {r}
    /\ missing' = missing \cup {r}
    /\ UNCHANGED <<saved, session, rendering, select, checks>>

SavedNext ==
    \/ Render \/ LeavePlace \/ PlaceIsGone \/ ToggleSaved \/ Forget \/ Reopen
    \/ \E s \in Stays : Enter(s)
    \/ \E r \in Places : Choose(r) \/ Checked(r) \/ CheckFailed(r)
                         \/ PlaceEnds(r) \/ PlaceLapses(r)

SavedSpec == SavedInit /\ [][SavedNext]_savedVars

\* Microtasks run.
SavedFairness == WF_savedVars(Render)

SavedFairSpec == SavedSpec /\ SavedFairness

-----------------------------------------------------------------------------
(* Properties *)

SavedTypeOK ==
    /\ overdue \subseteq missing /\ missing \subseteq Places
    /\ saved \in Seq(Places) /\ Len(saved) <= MaxSaved
    /\ session \in Stays \cup {NoStay}
    /\ rendering \in 0 .. 2
    /\ select \in Places \cup {NoPlace}
    /\ checks \subseteq Places

\* "Host-created rooms are kept in Your Rooms": whenever the page is idle the
\* room its session hosts is bookmarked, unless it has expired, though the list
\* is full, was toggled or cut by other rooms, and though the bookmark was just
\* forgotten.  No room is listed twice.
HostPlaceIsSaved ==
    Idling => /\ session.host /\ session.place \notin overdue => session.place \in ToSet(saved)
              /\ IsInjective(saved)

\* A write that asks for a render comes to an end while the room of the session
\* has not expired.
RendersEnd == SavedFairness => (~Idling ~> Idling \/ session.place \in overdue)

(* What the documents say *)

\* "The stale session was cleaned up automatically": the page gets round to it,
\* for it does not render for ever.
RendersSettle == ~Idling ~> Idling
=============================================================================
