---------------------------- MODULE LocationShare ----------------------------
(***************************************************************************)
(* One rider's live location: the switch, the watch and the throttle of      *)
(* apps/web/app.js, and the coordinate that apps/api/lib/realtime.js keeps   *)
(* for the rider, over a socket that can break at either end first.          *)
(*                                                                          *)
(* Time is in units; an age stops growing where nothing tells it from an     *)
(* older one.  The clocks of page and server agree.  How a Ryde ends and how *)
(* it is left are subjects of RealtimeHub and RoomSession, and so is what    *)
(* the others are told.                                                      *)
(***************************************************************************)
EXTENDS Integers, Sequences

CONSTANTS
    MinInterval,    \* location.minIntervalMs, on both sides
    StillInterval,  \* after which a rider who has not moved reports again
    MaxClientAge,   \* location.maxClientAgeMs
    StaleAfter,     \* location.staleAfterMs
    FixGap,         \* the longest the watch goes without a sample, when it works
    MaxDelay,       \* the longest a frame of a live socket is on its way
    MaxStarts,      \* how often the rider turns sharing on in an instance
    MaxCuts         \* how often the socket breaks or is replaced in an instance

None == -1

ASSUME LocationAssumption ==
    {MinInterval, StillInterval, MaxClientAge, StaleAfter, FixGap, MaxDelay} \subseteq Nat

VARIABLES
    sharing,    \* locationShare.enabled
    fix,        \* the age of locationShare.latest
    sent,       \* the time since locationShare.lastSentAt, None before the first
    line,       \* on, cut, ghost and off as in TalkFloor
    frames,     \* on their way to the server on the present socket
    strays,     \* those of the sockets that were replaced
    spot,       \* the age of the rider's coordinate on the server
    held,       \* history: Stop was pressed on a connection that worked, and
                \* nothing of the page's has been lost or begun since
    starts, cuts

locationVars == <<sharing, fix, sent, line, frames, strays, spot, held, starts, cuts>>

LongAgo == IF MinInterval > StillInterval THEN MinInterval ELSE StillInterval

LocationInit ==
    /\ sharing = FALSE
    /\ fix = None /\ sent = None
    /\ line = "on"
    /\ frames = <<>> /\ strays = <<>>
    /\ spot = None
    /\ held = FALSE
    /\ starts = 0 /\ cuts = 0

-----------------------------------------------------------------------------
(* The page *)

\* The page takes itself for authenticated; what it sends on a socket that the
\* server has dropped is lost.
Signed == line \in {"on", "cut"}
Sends(type, age) ==
    frames' = IF line = "on" THEN Append(frames, [type |-> type, age |-> age, wait |-> 0])
              ELSE frames

Start ==
    /\ Signed /\ ~sharing
    /\ starts < MaxStarts
    /\ starts' = starts + 1
    /\ sharing' = TRUE
    /\ held' = FALSE
    /\ UNCHANGED <<fix, sent, line, frames, strays, spot, cuts>>

\* sendLatestLocation() after a sample of a rider who has moved by eight metres
\* since the last report, or has not.
DueOnceMoved(moved) == sent = None \/ (sent >= MinInterval /\ moved)
Due(moved) ==
    sent = None \/ (sent >= MinInterval /\ (moved \/ sent >= StillInterval))

Sample(moved) ==
    /\ sharing
    /\ fix' = 0
    /\ IF Signed /\ Due(moved)
       THEN Sends("location.update", 0) /\ sent' = 0
       ELSE UNCHANGED <<frames, sent>>
    /\ UNCHANGED <<sharing, line, strays, spot, held, starts, cuts>>

\* stopLocationSharing(): nothing is reported, and nothing will be.
Off == sharing' = FALSE /\ fix' = None /\ sent' = None

\* The switch, or a permission that is withdrawn.
Stop ==
    /\ sharing
    /\ Off
    /\ IF Signed THEN Sends("location.stop", 0) ELSE UNCHANGED frames
    /\ held' = (line = "on" /\ strays = <<>>)
    /\ UNCHANGED <<line, strays, spot, starts, cuts>>

\* auth.ok of the next socket: a page that shares reports what it knows,
\* however old.  The server reads the replaced socket to its end.
NextSocket ==
    /\ line \in {"ghost", "off"}
    /\ line' = "on"
    /\ strays' = strays \o frames
    /\ IF sharing /\ fix # None
       THEN /\ frames' = <<[type |-> "location.update", age |-> fix, wait |-> 0]>>
            /\ sent' = 0
       ELSE frames' = <<>> /\ UNCHANGED sent
    /\ UNCHANGED <<sharing, fix, spot, held, starts, cuts>>

\* Another page with the session replaces this one (code 4009), or it is
\* reloaded: sharing is off on the page that is there then, without a word.
TakenOver ==
    /\ cuts < MaxCuts
    /\ cuts' = cuts + 1
    /\ line' = "on"
    /\ Off
    /\ strays' = strays \o frames
    /\ frames' = <<>>
    /\ held' = FALSE
    /\ UNCHANGED <<spot, starts>>

-----------------------------------------------------------------------------
(* The server *)

\* #locationUpdate(): the throttle's time is that of the coordinate, since both
\* are set and cleared together; a sample that is too old is refused.
Throttled == spot # None /\ spot < MinInterval
Stored(f) == IF Throttled \/ f.age > MaxClientAge THEN spot ELSE 0

\* #message(): a stop is heard whatever the throttle says.
SpotAfterThrottled(f) ==
    IF f.type = "location.stop" /\ ~Throttled THEN None
    ELSE IF f.type = "location.stop" THEN spot ELSE Stored(f)
SpotAfter(f) == IF f.type = "location.stop" THEN None ELSE Stored(f)

Receive ==
    /\ line \in {"on", "ghost"}
    /\ frames # <<>>
    /\ frames' = Tail(frames)
    /\ spot' = SpotAfter(Head(frames))
    /\ UNCHANGED <<sharing, fix, sent, line, strays, held, starts, cuts>>

ReceiveStray ==
    /\ strays # <<>>
    /\ strays' = Tail(strays)
    /\ spot' = SpotAfter(Head(strays))
    /\ UNCHANGED <<sharing, fix, sent, line, frames, held, starts, cuts>>

\* #heartbeat(), its coordinates: #clearLocation() as "stale".
ClearStale ==
    /\ spot > StaleAfter
    /\ spot' = None
    /\ UNCHANGED <<sharing, fix, sent, line, frames, strays, held, starts, cuts>>

\* #disconnect() of the registered socket; what it had in transit is lost.
ServerLoses ==
    /\ \/ line = "on" /\ cuts < MaxCuts /\ cuts' = cuts + 1 /\ line' = "cut"
       \/ line = "ghost" /\ UNCHANGED cuts /\ line' = "off"
    /\ spot' = None
    /\ frames' = <<>>
    /\ UNCHANGED <<sharing, fix, sent, strays, held, starts>>

\* The page's close event.  The server may still get a part of what was sent.
PageLoses ==
    /\ \/ line = "on" /\ cuts < MaxCuts /\ cuts' = cuts + 1 /\ line' = "ghost"
       \/ line = "cut" /\ UNCHANGED cuts /\ line' = "off"
    /\ \E n \in 0 .. Len(frames) :
          /\ frames' = SubSeq(frames, 1, n)
          /\ held' = (held /\ n = Len(frames))
    /\ UNCHANGED <<sharing, fix, sent, strays, spot, starts>>

-----------------------------------------------------------------------------
(* Time *)

Older(age, limit) == IF age = None \/ age >= limit THEN age ELSE age + 1
Aged(fs) ==
    [i \in DOMAIN fs |-> [fs[i] EXCEPT !.age = Older(@, MaxClientAge + 1),
                                       !.wait = Older(@, MaxDelay)]]

LocationTick ==
    /\ line = "on" => \A i \in DOMAIN frames : frames[i].wait < MaxDelay
    /\ fix' = Older(fix, MaxClientAge + 1)
    /\ sent' = Older(sent, LongAgo)
    /\ frames' = Aged(frames) /\ strays' = Aged(strays)
    /\ spot' = Older(spot, StaleAfter + 1)
    /\ UNCHANGED <<sharing, line, held, starts, cuts>>

-----------------------------------------------------------------------------
LocationNext ==
    \/ Start \/ Stop \/ TakenOver \/ NextSocket
    \/ \E moved \in BOOLEAN : Sample(moved)
    \/ Receive \/ ReceiveStray \/ ClearStale \/ ServerLoses \/ PageLoses
    \/ LocationTick

LocationSpec == LocationInit /\ [][LocationNext]_locationVars

\* Time, the network, the heartbeat and the reconnect timer go on.
LocationFairness ==
    /\ WF_locationVars(LocationTick)
    /\ WF_locationVars(Receive) /\ WF_locationVars(ReceiveStray)
    /\ WF_locationVars(ClearStale) /\ WF_locationVars(NextSocket)

-----------------------------------------------------------------------------
(* Properties *)

LocationTypeOK ==
    /\ sharing \in BOOLEAN /\ held \in BOOLEAN
    /\ fix \in None .. MaxClientAge + 1
    /\ sent \in None .. LongAgo
    /\ line \in {"on", "cut", "ghost", "off"}
    /\ spot \in None .. StaleAfter + 1
    /\ ~sharing => fix = None

\* When a rider has pressed Stop on a connection that worked, the coordinate
\* is gone as soon as the server has read what the page sent, and does not come
\* back: not with a sample that was on its way, not with the next socket.
StoppedIsGone ==
    held /\ frames = <<>> /\ strays = <<>> => spot = None

\* A rider who goes on sharing, on a connection that lasts and with a watch that
\* works, is on the map for good: neither the two throttles together nor a rider
\* who stands still let the coordinate go stale.
SharingStaysVisible ==
    LocationFairness =>
        (<>[](sharing /\ line = "on" /\ fix \in 0 .. FixGap) => <>[](spot # None))
=============================================================================
