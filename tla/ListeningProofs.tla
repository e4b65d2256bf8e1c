--------------------------- MODULE ListeningProofs ---------------------------
(***************************************************************************)
(* Proofs about Listening, for any tracks, any number of open requests and   *)
(* of calls that wait for metadata, and any leave of the browser.  TypeOK is *)
(* inductive as it stands.                                                   *)
(*                                                                          *)
(* The event that brings the metadata lets all waiting calls go on in one    *)
(* step, a recursive function over the list of them.  What each call keeps,  *)
(* all of them keep: an induction over their number.                         *)
(***************************************************************************)
EXTENDS Listening, SequenceTheorems, WellFoundedInduction, TLAPS

\* A set with 0 that has the successor of each of its numbers has them all.
LEMMA EveryNat ==
    ASSUME NEW S, 0 \in S, \A n \in Nat : n \in S => n + 1 \in S
    PROVE  Nat \subseteq S
<1> DEFINE T == Nat \ S
           R == OpToRel(<, Nat)
<1> SUFFICES ASSUME T # {}
             PROVE  FALSE
  OBVIOUS
<1>1. PICK x \in T : \A y \in T : ~(<<y, x>> \in R)
  <2>1. IsWellFoundedOn(R, Nat)
    BY NatLessThanWellFounded
  <2>2. T \subseteq Nat
    OBVIOUS
  <2> HIDE DEF T, R
  <2> QED BY <2>1, <2>2, WFMin
<1>2. x \in Nat /\ x # 0 /\ x - 1 \in Nat /\ x - 1 < x
  OBVIOUS
<1>3. <<x - 1, x>> \in R
  BY <1>2 DEF OpToRel
<1>4. x - 1 \in S
  BY <1>1, <1>2, <1>3
<1>5. (x - 1) + 1 \in S
  BY <1>2, <1>4
<1>6. (x - 1) + 1 = x
  BY <1>2
<1>7. x \notin S
  OBVIOUS
<1> QED BY <1>5, <1>6, <1>7

-----------------------------------------------------------------------------
(* The calls that wake up *)

\* f is the engine after each of the first N calls of q, from b on.
Wakes(f, N, b, q, leave) ==
    f = [n \in 0 .. N |-> IF n = 0 THEN b ELSE Settle(f[n - 1], q[n], leave)]

LEMMA WakesExist ==
    ASSUME NEW b, NEW q, NEW leave, NEW N \in Nat
    PROVE  \E f : Wakes(f, N, b, q, leave)
<1> DEFINE S == {n \in Nat : \E f : Wakes(f, n, b, q, leave)}
<1>1. 0 \in S
  <2> DEFINE g == [n \in 0 .. 0 |-> b]
  <2>1. Wakes(g, 0, b, q, leave)
    <3>1. \A n \in 0 .. 0 : n = 0
      OBVIOUS
    <3>2. g = [n \in 0 .. 0 |-> IF n = 0 THEN b ELSE Settle(g[n - 1], q[n], leave)]
      BY <3>1
    <3> QED BY <3>2 DEF Wakes
  <2> QED BY <2>1
<1>2. ASSUME NEW n \in Nat, n \in S PROVE n + 1 \in S
  <2>1. PICK f : Wakes(f, n, b, q, leave)
    BY <1>2
  <2> DEFINE g == [i \in 0 .. n + 1 |-> IF i <= n THEN f[i] ELSE Settle(f[n], q[i], leave)]
  <2>2. \A i \in 0 .. n : g[i] = f[i]
    OBVIOUS
  <2>3. \A i \in 0 .. n : f[i] = IF i = 0 THEN b ELSE Settle(f[i - 1], q[i], leave)
    BY <2>1 DEF Wakes
  <2>4. ASSUME NEW i \in 0 .. n + 1
        PROVE  g[i] = IF i = 0 THEN b ELSE Settle(g[i - 1], q[i], leave)
    <3>1. CASE i = 0
      BY <2>2, <2>3, <3>1
    <3>2. CASE i \in 1 .. n
      <4>1. i \in 0 .. n /\ i - 1 \in 0 .. n /\ i # 0
        BY <3>2
      <4>2. g[i] = f[i] /\ g[i - 1] = f[i - 1]
        BY <2>2, <4>1
      <4> QED BY <2>3, <4>1, <4>2
    <3>3. CASE i = n + 1
      <4>1. i - 1 = n /\ n \in 0 .. n /\ i # 0 /\ ~(i <= n)
        BY <3>3
      <4>2. g[i] = Settle(f[n], q[i], leave) /\ g[n] = f[n]
        BY <2>2, <4>1
      <4> QED BY <4>1, <4>2
    <3> QED BY <3>1, <3>2, <3>3
  <2>5. g = [i \in 0 .. n + 1 |-> g[i]]
    OBVIOUS
  <2> HIDE DEF g
  <2>6. Wakes(g, n + 1, b, q, leave)
    BY <2>4, <2>5 DEF Wakes
  <2> QED BY <2>6
<1> HIDE DEF S
<1>3. Nat \subseteq S
  BY <1>1, <1>2, EveryNat
<1> QED BY <1>3 DEF S

\* What holds at first and is kept by each call holds after all of them.
LEMMA WakesKeep ==
    ASSUME NEW b, NEW q, NEW leave, NEW N \in Nat, NEW f, Wakes(f, N, b, q, leave), NEW P, b \in P,
           \A pl \in P, n \in 1 .. N : Settle(pl, q[n], leave) \in P
    PROVE  f[N] \in P
<1> DEFINE S == {n \in Nat : n <= N => f[n] \in P}
<1>1. \A i \in 0 .. N : f[i] = IF i = 0 THEN b ELSE Settle(f[i - 1], q[i], leave)
  BY DEF Wakes
<1>2. 0 \in S
  BY <1>1
<1>3. ASSUME NEW n \in Nat, n \in S PROVE n + 1 \in S
  <2> SUFFICES ASSUME n + 1 <= N
               PROVE  f[n + 1] \in P
    OBVIOUS
  <2>1. n + 1 \in 0 .. N /\ n + 1 \in 1 .. N /\ n + 1 # 0 /\ (n + 1) - 1 = n
    OBVIOUS
  <2>2. f[n] \in P
    BY <1>3, <2>1
  <2> QED BY <1>1, <2>1, <2>2
<1> HIDE DEF S
<1>4. N \in S
  BY <1>2, <1>3, EveryNat
<1> QED BY <1>4 DEF S

LEMMA SettleAllIsLast ==
    ASSUME NEW pl, NEW leave, Len(pl.waiting) \in Nat
    PROVE  \E f : /\ Wakes(f, Len(pl.waiting), [pl EXCEPT !.ready = "ready", !.waiting = <<>>],
                           pl.waiting, leave)
                  /\ SettleAll(pl, leave) = f[Len(pl.waiting)]
<1> DEFINE b == [pl EXCEPT !.ready = "ready", !.waiting = <<>>]
           after == CHOOSE f : Wakes(f, Len(pl.waiting), b, pl.waiting, leave)
<1>1. SettleAll(pl, leave) = after[Len(pl.waiting)]
  BY DEF SettleAll, Wakes
<1>2. Wakes(after, Len(pl.waiting), b, pl.waiting, leave)
  <2> HIDE DEF b
  <2>1. \E f : Wakes(f, Len(pl.waiting), b, pl.waiting, leave)
    BY WakesExist
  <2> QED BY <2>1
<1> QED BY <1>1, <1>2

-----------------------------------------------------------------------------
(* The engine *)

Engines == {pl \in Players : Len(pl.waiting) <= MaxWaiting}

\* What the synchronous stretches of the engine change: none of them starts an
\* element but play(), and only apply() gives it another source.
LEMMA SilenceFits ==
    ASSUME NEW pl \in Engines
    PROVE  /\ Silence(pl) \in Engines /\ Silence(pl).paused
           /\ Silence(pl).armed = pl.armed /\ Silence(pl).src = pl.src
           /\ Silence(pl).waiting = pl.waiting
BY DEF Engines, Players, Silence

LEMMA SettleFits ==
    ASSUME NEW pl \in Engines, NEW status, NEW leave
    PROVE  /\ Settle(pl, status, leave) \in Engines
           /\ Settle(pl, status, leave).src = pl.src
           /\ Settle(pl, status, leave).waiting = pl.waiting
<1>1. CASE status = "playing"
  <2>1. \/ Settle(pl, status, leave) = [pl EXCEPT !.armed = FALSE]
        \/ Settle(pl, status, leave) = [pl EXCEPT !.paused = FALSE]
    BY <1>1 DEF Settle, Play
  <2> QED BY <2>1 DEF Engines, Players
<1>2. CASE status # "playing"
  BY <1>2, SilenceFits DEF Settle
<1> QED BY <1>1, <1>2

LEMMA LoadFits ==
    ASSUME NEW pl \in Engines, NEW t \in Tracks \cup {None}
    PROVE  /\ Load(pl, t) \in Engines /\ Load(pl, t).paused
           /\ Load(pl, t).armed = pl.armed /\ Load(pl, t).src = t
           /\ Load(pl, t).waiting = pl.waiting
<1>1. PICK ready \in {"none", "loading"} : ready = IF t = None THEN "none" ELSE "loading"
  OBVIOUS
<1>2. PICK s \in Engines : s = Silence(pl)
  BY SilenceFits
<1>3. Load(pl, t) = [s EXCEPT !.src = t, !.ready = ready]
  BY <1>1, <1>2 DEF Load
<1>4. /\ Load(pl, t) \in Engines /\ Load(pl, t).paused = s.paused
      /\ Load(pl, t).armed = s.armed /\ Load(pl, t).src = t
      /\ Load(pl, t).waiting = s.waiting
  BY <1>3 DEF Engines, Players
<1> QED BY <1>2, <1>4, SilenceFits

LEMMA WaitFits ==
    ASSUME NEW calls \in Seq({"playing", "paused"}), Len(calls) <= MaxWaiting,
           NEW status \in {"playing", "paused"}
    PROVE  Wait(calls, status) \in Seq({"playing", "paused"}) /\ Len(Wait(calls, status)) <= MaxWaiting
<1>1. Len(calls) \in Nat /\ MaxWaiting \in Nat /\ MaxWaiting # 0
  BY BoundsAssumption, LenProperties
<1>2. CASE Wait(calls, status) = calls
  BY <1>2
<1>3. CASE Wait(calls, status) = Append(Tail(calls), status) /\ Len(calls) = MaxWaiting
  <2>1. Tail(calls) \in Seq({"playing", "paused"}) /\ Len(Tail(calls)) = Len(calls) - 1
    BY <1>1, <1>3, HeadTailProperties, EmptySeq
  <2> QED BY <1>1, <1>3, <2>1, AppendProperties
<1>4. CASE Wait(calls, status) = Append(calls, status) /\ Len(calls) # MaxWaiting
  BY <1>1, <1>4, AppendProperties
<1> QED BY <1>2, <1>3, <1>4 DEF Wait

\* apply() leaves a page that is not armed alone, or unloads its track; where it
\* disarms the page, play() was refused and nothing has started.
LEMMA ApplyFits ==
    ASSUME NEW pl \in Engines, NEW p \in Playbacks, NEW leave
    PROVE  /\ Apply(pl, p, leave) \in Engines
           /\ ~pl.armed => \/ Apply(pl, p, leave) = pl
                           \/ Apply(pl, p, leave).src = None /\ Apply(pl, p, leave).paused
           /\ pl.armed /\ ~Apply(pl, p, leave).armed =>
                  Apply(pl, p, leave).src = pl.src /\ Apply(pl, p, leave).paused = pl.paused
<1>1. p.track \in Tracks \cup {None} /\ (p.track # None => p.status \in {"playing", "paused"})
  BY NoneAssumption DEF Playbacks, Idle, Shared
<1>2. CASE p.track = None
  <2>1. Apply(pl, p, leave) = Load(pl, None)
    BY <1>2 DEF Apply
  <2> QED BY <2>1, LoadFits
<1>3. CASE p.track # None /\ ~pl.armed
  BY <1>3 DEF Apply
<1>4. CASE p.track # None /\ pl.armed /\ pl.src = p.track
  <2>1. Apply(pl, p, leave) = Settle(pl, p.status, leave)
    BY <1>4 DEF Apply
  <2>2. PICK s : s = Apply(pl, p, leave)
    OBVIOUS
  <2>3. s \in Engines /\ s.src = pl.src
    BY <2>1, <2>2, SettleFits
  <2>4. ~s.armed => s.paused = pl.paused
    <3>1. CASE s = [pl EXCEPT !.armed = FALSE]
      BY <3>1 DEF Engines, Players
    <3>2. CASE s = [pl EXCEPT !.paused = FALSE]
      <4>1. s.armed = pl.armed
        BY <3>2 DEF Engines, Players
      <4> QED BY <1>4, <4>1
    <3>3. CASE s = Silence(pl)
      BY <1>4, <3>3, SilenceFits
    <3> QED BY <2>1, <2>2, <3>1, <3>2, <3>3 DEF Settle, Play
  <2> QED BY <1>4, <2>2, <2>3, <2>4
<1>5. CASE p.track # None /\ pl.armed /\ pl.src # p.track
  <2>1. PICK s \in Engines : s = Load(pl, p.track) /\ s.armed
    BY <1>1, <1>5, LoadFits
  <2>2. PICK w \in Seq({"playing", "paused"}) : w = Wait(s.waiting, p.status) /\ Len(w) <= MaxWaiting
    BY <1>1, <1>5, WaitFits DEF Engines, Players
  <2>3. Apply(pl, p, leave) = [s EXCEPT !.waiting = w]
    BY <1>5, <2>1, <2>2 DEF Apply
  <2>4. Apply(pl, p, leave) \in Engines /\ Apply(pl, p, leave).armed
    BY <2>1, <2>2, <2>3 DEF Engines, Players
  <2> QED BY <1>5, <2>4
<1> QED BY <1>2, <1>3, <1>4, <1>5

\* The event that wakes the waiting calls keeps the types; with none, it changes
\* nothing but that the metadata is there.
LEMMA SettleAllFits ==
    ASSUME NEW pl \in Engines, NEW leave
    PROVE  /\ SettleAll(pl, leave) \in Engines
           /\ pl.waiting = <<>> => /\ SettleAll(pl, leave).paused = pl.paused
                                   /\ SettleAll(pl, leave).src = pl.src
<1> DEFINE b == [pl EXCEPT !.ready = "ready", !.waiting = <<>>]
<1>1. PICK w \in Seq({"playing", "paused"}),
           ready \in {"none", "loading", "streaming", "ready", "failed"} :
               w = <<>> /\ Len(w) = 0 /\ ready = "ready"
  <2>1. <<>> \in Seq({"playing", "paused"}) /\ Len(<<>>) = 0
    OBVIOUS
  <2> QED BY <2>1
<1>2. b = [pl EXCEPT !.ready = ready, !.waiting = w]
  BY <1>1
<1>3. b \in Engines /\ b.paused = pl.paused /\ b.src = pl.src
  <2>1. 0 <= MaxWaiting
    BY BoundsAssumption
  <2> HIDE DEF b
  <2> QED BY <1>1, <1>2, <2>1 DEF Engines, Players
<1>4. Len(pl.waiting) \in Nat
  BY LenProperties DEF Engines, Players
<1> HIDE DEF b
<1>5. PICK f : Wakes(f, Len(pl.waiting), b, pl.waiting, leave)
               /\ SettleAll(pl, leave) = f[Len(pl.waiting)]
  BY <1>4, SettleAllIsLast DEF b
<1>6. SettleAll(pl, leave) \in Engines
  <2>0. PICK N \in Nat : N = Len(pl.waiting)
    BY <1>4
  <2>1. PICK q : q = pl.waiting
    OBVIOUS
  <2>2. \A e \in Engines, n \in 1 .. N : Settle(e, q[n], leave) \in Engines
    BY SettleFits
  <2>3. Wakes(f, N, b, q, leave) /\ SettleAll(pl, leave) = f[N]
    BY <1>5, <2>0, <2>1
  <2>4. f[N] \in Engines
    BY <1>3, <2>2, <2>3, WakesKeep
  <2> QED BY <2>3, <2>4
<1>7. ASSUME pl.waiting = <<>> PROVE SettleAll(pl, leave) = b
  <2>1. Len(pl.waiting) = 0
    BY <1>7
  <2> QED BY <1>5, <2>1 DEF Wakes
<1> QED BY <1>3, <1>6, <1>7

-----------------------------------------------------------------------------
(* The calls of a page *)

\* A call that asks for a grant is about a track.
LEMMA FollowFits ==
    ASSUME TypeOK, NEW pl \in Engines, NEW p \in Playbacks,
           NEW kind \in {"follow", "listen", "relisten"}, Follow(pl, p, kind)
    PROVE  player' \in Engines /\ asks' \in [1 .. MaxAsks -> Asks \cup {NoAsk}]
<1>1. CASE NeedsGrant(pl, record, p) /\ Ask(kind, p) /\ player' = pl
  <2>1. p \in Shared
    BY <1>1 DEF NeedsGrant, Playbacks, Idle
  <2>2. PICK i \in 1 .. MaxAsks : i = FreeAsk
    BY <1>1 DEF Ask, FreeAsk
  <2>3. PICK a \in Asks : a = [kind |-> kind, playback |-> p, answer |-> "sent"]
    BY <2>1 DEF Asks
  <2>4. asks' = [asks EXCEPT ![i] = a]
    BY <1>1, <2>2, <2>3 DEF Ask
  <2> QED BY <1>1, <2>4 DEF TypeOK
<1>2. CASE (\E leave \in Leave : player' = Apply(pl, p, leave)) /\ UNCHANGED asks
  BY <1>2, ApplyFits DEF TypeOK
<1> QED BY <1>1, <1>2 DEF Follow

LEMMA DisarmFits ==
    ASSUME NEW pl \in Engines
    PROVE  Disarm(pl) \in Engines
<1>1. PICK s \in Engines : s = Silence(pl)
  BY SilenceFits
<1>2. Disarm(pl) = [s EXCEPT !.armed = FALSE]
  BY <1>1 DEF Disarm
<1> QED BY <1>2 DEF Engines, Players

LEMMA FirstTypes == Init => TypeOK
<1> SUFFICES ASSUME Init
             PROVE  TypeOK
  OBVIOUS
<1>1. PICK w \in Seq({"playing", "paused"}), ready \in {"none", "loading", "streaming", "ready", "failed"},
           off \in BOOLEAN, on \in BOOLEAN, src \in Tracks \cup {None} :
               w = <<>> /\ Len(w) = 0 /\ ready = "none" /\ off = FALSE /\ on = TRUE /\ src = None
  <2>1. <<>> \in Seq({"playing", "paused"}) /\ Len(<<>>) = 0
    OBVIOUS
  <2> QED BY <2>1
<1>2. player = [armed |-> off, src |-> src, ready |-> ready, paused |-> on,
                waiting |-> w, interrupted |-> off]
  BY <1>1 DEF Init
<1>3. player \in Players /\ Len(player.waiting) <= MaxWaiting
  BY <1>1, <1>2, BoundsAssumption DEF Players
<1> QED BY <1>3 DEF Init, TypeOK, Playbacks, Grants

LEMMA TypesStep == TypeOK /\ [Next]_vars => TypeOK'
<1> SUFFICES ASSUME TypeOK, [Next]_vars
             PROVE  TypeOK'
  OBVIOUS
<1>0. player \in Engines /\ room \in Playbacks /\ view \in Playbacks
  BY DEF TypeOK, Engines
<1>1. ASSUME NEW p \in Playbacks, Host(p) PROVE TypeOK'
  BY <1>1 DEF Host, TypeOK
<1>2. CASE Receive
  <2>1. player' \in Engines /\ asks' \in [1 .. MaxAsks -> Asks \cup {NoAsk}]
    BY <1>0, <1>2, FollowFits DEF Receive
  <2> QED BY <1>2, <2>1 DEF Receive, TypeOK, Engines
<1>3. CASE Tick
  <2>1. player' \in Engines /\ asks' \in [1 .. MaxAsks -> Asks \cup {NoAsk}]
    BY <1>0, <1>3, FollowFits DEF Tick
  <2> QED BY <1>3, <2>1 DEF Tick, TypeOK, Engines
<1>4. CASE Listen
  <2>1. PICK on : on = [player EXCEPT !.armed = TRUE]
    OBVIOUS
  <2>2. on \in Engines
    BY <1>0, <2>1 DEF Engines, Players
  <2>3. Follow(on, view, "listen")
    BY <1>4, <2>1 DEF Listen
  <2>4. player' \in Engines /\ asks' \in [1 .. MaxAsks -> Asks \cup {NoAsk}]
    BY <1>0, <2>2, <2>3, FollowFits
  <2> QED BY <1>4, <2>4 DEF Listen, TypeOK, Engines
<1>5. CASE Stop
  BY <1>0, <1>5, DisarmFits DEF Stop, TypeOK, Engines, Grants
<1>6. ASSUME NEW i \in 1 .. MaxAsks, Issue(i) PROVE TypeOK'
  <2>1. PICK answer \in {"sent", "library"} \cup Tracks : asks' = [asks EXCEPT ![i].answer = answer]
    BY <1>0, <1>6, NoneAssumption DEF Issue, Playbacks, Shared, Idle
  <2>2. PICK a \in Asks : a = asks[i]
    BY <1>6 DEF Issue, TypeOK
  <2>3. PICK b : b = [a EXCEPT !.answer = answer]
    OBVIOUS
  <2>4. b \in Asks
    BY <2>3 DEF Asks
  <2>5. asks' = [asks EXCEPT ![i] = b]
    BY <2>1, <2>2, <2>3
  <2>6. asks' \in [1 .. MaxAsks -> Asks \cup {NoAsk}]
    BY <2>4, <2>5 DEF TypeOK
  <2> QED BY <1>6, <2>6 DEF Issue, TypeOK
<1>7. ASSUME NEW i \in 1 .. MaxAsks, GrantArrives(i) PROVE TypeOK'
  <2>1. PICK a \in Asks : a = asks[i] /\ a.answer \in Grants
    BY <1>7 DEF GrantArrives, TypeOK, Asks, Grants
  <2>2. record' \in Grants /\ cookie' \in Grants
    BY <1>7, <2>1 DEF GrantArrives, TypeOK
  <2>3. player' \in Engines /\ asks' \in [1 .. MaxAsks -> Asks \cup {NoAsk}]
    <3>1. CASE Granted(a) /\ Resume(i, a)
      <4>1. CASE a.kind = "listen" /\ NeedsGrant(player, a.answer, view)
        <5>1. view \in Shared
          BY <1>0, <4>1 DEF NeedsGrant, Playbacks, Idle
        <5>2. PICK b \in Asks : b = [kind |-> "relisten", playback |-> view, answer |-> "sent"]
          BY <5>1 DEF Asks
        <5>3. asks' = [asks EXCEPT ![i] = b] /\ player' = player
          BY <3>1, <4>1, <5>2 DEF Resume
        <5> QED BY <1>0, <5>3 DEF TypeOK
      <4>2. CASE ~(a.kind = "listen" /\ NeedsGrant(player, a.answer, view))
        <5>1. PICK p \in Playbacks : p = IF a.kind = "listen" THEN view ELSE a.playback
          BY <1>0 DEF Asks, Playbacks
        <5>2. asks' = [asks EXCEPT ![i] = NoAsk] /\ \E leave \in Leave : player' = Apply(player, p, leave)
          BY <3>1, <4>2, <5>1 DEF Resume
        <5> QED BY <1>0, <5>2, ApplyFits DEF TypeOK
      <4> QED BY <4>1, <4>2
    <3>2. CASE asks' = [asks EXCEPT ![i] = NoAsk] /\ player' \in {player, Disarm(player)}
      BY <1>0, <3>2, DisarmFits DEF TypeOK
    <3> QED BY <1>7, <2>1, <3>1, <3>2 DEF GrantArrives
  <2> QED BY <1>7, <2>2, <2>3 DEF GrantArrives, TypeOK, Engines
<1>8. ASSUME NEW i \in 1 .. MaxAsks, Refused(i) PROVE TypeOK'
  <2>1. asks' = [asks EXCEPT ![i] = NoAsk] /\ player' \in {player, Disarm(player)}
    BY <1>8 DEF Refused
  <2> QED BY <1>0, <1>8, <2>1, DisarmFits DEF Refused, TypeOK, Engines
<1>9. CASE GrantRunsOut
  BY <1>9 DEF GrantRunsOut, TypeOK, Grants
<1>10. CASE CookieGoes
  BY <1>10 DEF CookieGoes, TypeOK, Grants
<1>11. CASE Serve
  <2>1. PICK ready \in {"none", "loading", "streaming", "ready", "failed"} : ready = "streaming"
    OBVIOUS
  <2>2. player' = [player EXCEPT !.ready = ready]
    BY <1>11, <2>1 DEF Serve
  <2>3. player' \in Engines
    BY <1>0, <2>2 DEF Engines, Players
  <2> QED BY <1>11, <2>3 DEF Serve, TypeOK, Engines
<1>12. CASE Loaded
  BY <1>0, <1>12, SettleAllFits DEF Loaded, TypeOK, Engines
<1>13. CASE LoadFails
  <2>1. PICK ready \in {"none", "loading", "streaming", "ready", "failed"},
             w \in Seq({"playing", "paused"}) : ready = "failed" /\ w = <<>> /\ Len(w) = 0
    <3>1. <<>> \in Seq({"playing", "paused"}) /\ Len(<<>>) = 0
      OBVIOUS
    <3> QED BY <3>1
  <2>2. PICK s \in Engines : s = Silence(player)
    BY <1>0, SilenceFits
  <2>3. player' = [s EXCEPT !.ready = ready, !.waiting = w]
    BY <1>13, <2>1, <2>2 DEF LoadFails
  <2>4. 0 <= MaxWaiting
    BY BoundsAssumption
  <2>5. player' \in Engines
    BY <2>1, <2>3, <2>4 DEF Engines, Players
  <2> QED BY <1>13, <2>5 DEF LoadFails, TypeOK, Engines
<1>14. CASE Interrupted
  <2>1. PICK armed \in BOOLEAN, off \in BOOLEAN :
            player' = [player EXCEPT !.interrupted = off, !.armed = armed]
    BY <1>0, <1>14 DEF Interrupted, Engines, Players
  <2>2. player' \in Engines
    BY <1>0, <2>1 DEF Engines, Players
  <2> QED BY <1>14, <2>2 DEF Interrupted, TypeOK, Engines
<1>15. CASE UNCHANGED vars
  BY <1>15 DEF vars, TypeOK
<1> QED BY <1>1, <1>2, <1>3, <1>4, <1>5, <1>6, <1>7, <1>8, <1>9, <1>10, <1>11, <1>12, <1>13,
           <1>14, <1>15 DEF Next

-----------------------------------------------------------------------------
(* Nothing starts by itself *)

LEMMA SilentStep ==
    ASSUME TypeOK, [Next]_vars, ~player.armed, ~player'.armed, NothingUnderWay
    PROVE  /\ player.paused => player'.paused
           /\ player'.src \in {player.src, None}
<1>1. player \in Engines /\ room \in Playbacks /\ view \in Playbacks
  BY DEF TypeOK, Engines
<1>2. CASE UNCHANGED player
  BY <1>2
\* A page that is not armed asks for no grant: the engine is given the playback
\* and leaves it, or loads nothing.
<1>3. CASE Receive
  <2>1. PICK leave : player' = Apply(player, room, leave)
    BY <1>3 DEF Receive, Follow, NeedsGrant
  <2> QED BY <1>1, <2>1, ApplyFits
\* Where the tap on Listen leaves the engine unarmed, play() was refused at once.
<1>4. CASE Listen
  <2>1. PICK on : on = [player EXCEPT !.armed = TRUE]
    OBVIOUS
  <2>2. on \in Engines /\ on.armed /\ on.src = player.src /\ on.paused = player.paused
    BY <1>1, <2>1 DEF Engines, Players
  <2>3. Follow(on, view, "listen")
    BY <1>4, <2>1 DEF Listen
  <2>4. CASE player' = on
    BY <2>2, <2>4
  <2>5. CASE \E leave \in Leave : player' = Apply(on, view, leave)
    BY <1>1, <2>2, <2>5, ApplyFits
  <2> QED BY <2>3, <2>4, <2>5 DEF Follow
<1>5. ASSUME NEW i \in 1 .. MaxAsks, Issue(i) \/ GrantArrives(i) \/ Refused(i)
      PROVE  FALSE
  BY <1>5 DEF NothingUnderWay, Issue, GrantArrives, Refused
<1>6. CASE Serve
  <2>1. PICK ready : player' = [player EXCEPT !.ready = ready]
    BY <1>6 DEF Serve
  <2> QED BY <1>1, <2>1 DEF Engines, Players
\* No call waits for the metadata.
<1>7. CASE Loaded
  BY <1>1, <1>7, SettleAllFits DEF Loaded, NothingUnderWay
<1>8. CASE LoadFails
  <2>1. PICK s \in Engines : s = Silence(player)
    BY <1>1, SilenceFits
  <2>2. PICK ready, w : player' = [s EXCEPT !.ready = ready, !.waiting = w]
    BY <1>8, <2>1 DEF LoadFails
  <2>3. player'.paused = s.paused /\ player'.src = s.src
    BY <2>2 DEF Engines, Players
  <2> QED BY <1>1, <2>1, <2>3, SilenceFits
<1>9. CASE Interrupted
  <2>1. PICK armed, off : player' = [player EXCEPT !.interrupted = off, !.armed = armed]
    BY <1>9 DEF Interrupted
  <2> QED BY <1>1, <2>1 DEF Engines, Players
<1>10. ~Tick /\ ~Stop
  BY DEF Tick, Stop
<1> QED BY <1>2, <1>3, <1>4, <1>5, <1>6, <1>7, <1>8, <1>9, <1>10
        DEF Next, Host, GrantRunsOut, CookieGoes, vars

\* The states of one page that listens with the crew (applyPlaybackToAudio in
\* apps/web/app.js, apps/web/audio-engine.js) have their types: no grant is asked
\* for without a track, and no more calls wait for metadata than the bound.
THEOREM TypesHold == Spec => []TypeOK
<1>1. Init => TypeOK
  BY FirstTypes
<1>2. TypeOK /\ [Next]_vars => TypeOK'
  BY TypesStep
<1> QED BY <1>1, <1>2, PTL DEF Spec

\* "audio never starts automatically" (app.js): once every call begun while the
\* rider was listening has ended, neither a message about the soundtrack nor the
\* end of a load nor the rejection of a play() starts the element of a rider who
\* is not listening, nor gives it a track to load.
THEOREM NothingStartsByItself == Spec => NeverStartsByItself
<1>1. TypeOK /\ [Next]_vars =>
        [~player.armed /\ ~player'.armed /\ NothingUnderWay =>
            /\ player.paused => player'.paused
            /\ player'.src \in {player.src, None}]_vars
  BY SilentStep
<1>2. Spec => []TypeOK
  BY TypesHold
<1> QED BY <1>1, <1>2, PTL DEF Spec, NeverStartsByItself

=============================================================================
