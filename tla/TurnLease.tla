------------------------------ MODULE TurnLease ------------------------------
(***************************************************************************)
(* The relay credentials of a rider's page: issueTurnIceServers() of         *)
(* apps/api/lib/turn-credentials.js signs one that expires in whole seconds  *)
(* and not after the Ryde; #refreshIceServers() of apps/web/voice.js keeps   *)
(* it in iceServers and decides by its own clock, in milliseconds, until     *)
(* when a peer connection may be built from it without asking again.         *)
(*                                                                          *)
(* A fetch has no timeout and any number of them overlap: every call of      *)
(* ensurePeer() and enable() may start one.  Static credentials, which never *)
(* expire, and deployments without a relay are left out.                     *)
(***************************************************************************)
EXTENDS Integers, FiniteSets

CONSTANTS
    Second,         \* milliseconds in a second
    Ttl,            \* turnCredentialTtlSeconds
    Margin,         \* 60_000: refreshed this long before it expires
    Pause,          \* 30_000: not asked again for this long
    Skew,           \* how far the server's clock is ahead of the page's
    RoomEnd,        \* room.expiresAt, in the server's milliseconds
    Horizon,        \* last instant of the page's clock in an instance
    MaxFetches      \* fetches open at a time in an instance

ASSUME LeaseAssumption ==
    /\ Second \in Nat \ {0} /\ Ttl \in Nat \ {0}
    /\ Margin \in Nat /\ Pause \in Nat /\ Skew \in Nat
    /\ RoomEnd \in Nat /\ Horizon \in Nat /\ MaxFetches \in Nat

\* The page's pause and a second of the server's rounding fit in a lifetime,
\* which the configuration bounds by 300 seconds, and the skew in the margin.
\* (A server whose clock is behind only makes the page ask sooner.)
ASSUME LifetimeAssumption == Pause + Second <= Ttl * Second /\ Skew <= Margin

VARIABLES
    now,            \* Date.now() of the page
    expires,        \* of the credential in iceServers; 0 while there is none
    refreshAfter,   \* iceRefreshAfter
    refused,        \* the fetch that ended last brought no credential
    fetches         \* the open fetches

leaseVars == <<now, expires, refreshAfter, refused, fetches>>

\* answer: 0 until the server has signed a credential, then its expiry.  Fetches
\* that agree in both are one.
Fetch == [start : Nat, answer : Nat]

LeaseInit ==
    /\ now = 0 /\ expires = 0 /\ refreshAfter = 0
    /\ refused = FALSE
    /\ fetches = {}

Later(a, b) == IF a < b THEN b ELSE a
Sooner(a, b) == IF a < b THEN a ELSE b

ServerNow == now + Skew
RoomIsOpen == ServerNow < RoomEnd

\* issueTurnIceServers(): the expiry in milliseconds.
Issued(at) == Second * Sooner(at \div Second + Ttl, RoomEnd \div Second)

\* iceRefreshAfter after a credential came in.
RefreshWithoutMargin(start, expiry) == Later(start + Pause, expiry)
RefreshTime(start, expiry) == Later(start + Pause, expiry - Margin)

\* ensurePeer() asks unless the credential is still good; enable() always asks.
Ask(force) ==
    /\ force \/ refreshAfter <= now
    /\ Cardinality(fetches) < MaxFetches
    /\ fetches' = fetches \cup {[start |-> now, answer |-> 0]}
    /\ UNCHANGED <<now, expires, refreshAfter, refused>>

Sign(f) ==
    /\ f.answer = 0 /\ RoomIsOpen
    /\ fetches' = (fetches \ {f}) \cup {[f EXCEPT !.answer = Issued(ServerNow)]}
    /\ UNCHANGED <<now, expires, refreshAfter, refused>>

Credited(f) ==
    /\ f.answer # 0
    /\ fetches' = fetches \ {f}
    /\ expires' = f.answer
    /\ refreshAfter' = RefreshTime(f.start, f.answer)
    /\ refused' = FALSE
    /\ UNCHANGED now

\* An error status, a lost answer, a room that has gone.
Fail(f) ==
    /\ fetches' = fetches \ {f}
    /\ refreshAfter' = f.start + Pause
    /\ refused' = TRUE
    /\ UNCHANGED <<now, expires>>

LeaseTick ==
    /\ now < Horizon
    /\ now' = now + 1
    /\ UNCHANGED <<expires, refreshAfter, refused, fetches>>

LeaseNext ==
    \/ \E force \in BOOLEAN : Ask(force)
    \/ \E f \in fetches : Sign(f) \/ Credited(f) \/ Fail(f)
    \/ LeaseTick

LeaseSpec == LeaseInit /\ [][LeaseNext]_leaseVars

-----------------------------------------------------------------------------
(* Properties *)

LeaseTypeOK ==
    /\ now \in 0 .. Horizon
    /\ expires \in Nat /\ refreshAfter \in Nat
    /\ refused \in BOOLEAN
    /\ \A f \in fetches : f \in Fetch /\ f.start <= now

\* A peer connection that is built without asking again gets a credential the
\* relay still honours, by the server's clock: rounding to seconds, a server
\* clock that is ahead, the pause between fetches, and answers that are late or
\* overtake each other do not add up to more than the margin.  Only the last
\* second of the Ryde and a fetch that failed are exempt.
RelayStaysValid ==
    expires # 0 /\ ~refused /\ now < refreshAfter
        => ServerNow < expires \/ RoomEnd - Second < ServerNow
=============================================================================
