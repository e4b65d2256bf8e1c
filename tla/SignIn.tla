-------------------------------- MODULE SignIn --------------------------------
(***************************************************************************)
(* Signing in and out with AeroVista in one browser with several tabs:       *)
(* apps/api/lib/browser-auth.js, the cookies of apps/api/lib/browser-session *)
(* and the account service and identity gateway as the adapter uses them.    *)
(*                                                                          *)
(* The tabs share one jar of cookies.  A request carries the cookies there   *)
(* are when it is sent, and an answer changes those there are when it comes. *)
(* Each press of Sign in draws a state of its own; a session is named after  *)
(* the attempt whose handoff code it was exchanged for.                      *)
(***************************************************************************)
EXTENDS Naturals, FiniteSets

CONSTANTS
    Attempts,       \* the states drawn for sign-ins
    MaxLogouts,     \* how often the rider signs out in an instance
    MaxReturns      \* callbacks that are open at a time in an instance

Nobody == "nobody"

ASSUME SignInAssumption ==
    Nobody \notin Attempts /\ MaxLogouts \in Nat /\ MaxReturns \in Nat

VARIABLES
    jar,            \* attempts whose state cookie the browser has
    token,          \* whose session the browser's session cookie carries
    begun,          \* attempts whose login has been answered
    spent,          \* attempts whose handoff code the gateway has taken
    alive,          \* sessions the gateway knows
    logins,         \* logins that are not answered yet
    returns,        \* callbacks that are not answered yet
    logouts,        \* logouts that are not answered yet
    ended,          \* history: attempts that came to their own end, or that a
                    \* logout has ended
    signouts        \* counts the logouts

signVars ==
    <<jar, token, begun, spent, alive, logins, returns, logouts, ended, signouts>>

\* names: the state cookies sent along.  known: the one of the callback's own
\* state is among them.  over: history, that attempt had ended before.
Returns ==
    [of : Attempts, names : SUBSET Attempts, over : BOOLEAN,
     stage : {"sent", "exchanged", "resolved"}]
Logouts ==
    [of : Attempts \cup {Nobody}, names : SUBSET Attempts, began : SUBSET Attempts,
     stage : {"sent", "revoked"}]

SignInit ==
    /\ jar = {} /\ token = Nobody
    /\ begun = {} /\ spent = {} /\ alive = {}
    /\ logins = {} /\ returns = {} /\ logouts = {}
    /\ ended = {}
    /\ signouts = 0

-----------------------------------------------------------------------------
(* The cookies an answer clears *)

HasState(c) == c.of \in c.names

\* clearAuthStateCookies(): the attempt's own cookie and the legacy one.
ClearedByReturnOfAll(c) == c.names
ClearedByReturn(c) == {c.of}

\* clearAuthStateCookiesFromRequest(): those the request came with.
ClearedByLogoutOfNone(l) == {}
ClearedByLogout(l) == l.names

-----------------------------------------------------------------------------
(* Signing in *)

PressSignIn(a) ==
    /\ a \notin begun \cup logins
    /\ logins' = logins \cup {a}
    /\ UNCHANGED <<jar, token, begun, spent, alive, returns, logouts, ended, signouts>>

\* beginBrowserLogin(): the redirect to the account service sets the cookie.
BeginBrowserLogin(a) ==
    /\ a \in logins
    /\ logins' = logins \ {a}
    /\ begun' = begun \cup {a}
    /\ jar' = jar \cup {a}
    /\ UNCHANGED <<token, spent, alive, returns, logouts, ended, signouts>>

\* The account service sends the tab back, or the rider reloads or goes back to
\* the address of the callback.
Return(a) ==
    /\ a \in begun
    /\ Cardinality(returns) < MaxReturns
    /\ returns' = returns \cup {[of |-> a, names |-> jar, over |-> a \in ended, stage |-> "sent"]}
    /\ UNCHANGED <<jar, token, begun, spent, alive, logins, logouts, ended, signouts>>

Drops(c) == returns' = returns \ {c}
Advances(c, stage) == returns' = (returns \ {c}) \cup {[c EXCEPT !.stage = stage]}

\* invalid_auth_state: nothing is set, nothing is asked.
Refuse(c) ==
    /\ c.stage = "sent" /\ ~HasState(c)
    /\ Drops(c)
    /\ UNCHANGED <<jar, token, begun, spent, alive, logins, logouts, ended, signouts>>

\* exchangeHandoff(): a code is good for one exchange.  The gateway may refuse
\* or not answer, and it may have taken the code before its answer is lost.
Exchange(c) ==
    /\ c.stage = "sent" /\ HasState(c)
    /\ \/ /\ c.of \notin spent
          /\ spent' = spent \cup {c.of}
          /\ alive' = alive \cup {c.of}
          /\ Advances(c, "exchanged") \/ Drops(c)
       \/ Drops(c) /\ UNCHANGED <<spent, alive>>
    /\ UNCHANGED <<jar, token, begun, logins, logouts, ended, signouts>>

\* resolveSession()
Resolve(c) ==
    /\ c.stage = "exchanged"
    /\ \/ c.of \in alive /\ Advances(c, "resolved")
       \/ Drops(c)
    /\ UNCHANGED <<jar, token, begun, spent, alive, logins, logouts, ended, signouts>>

\* The answer of a callback that went well.
SignedIn(c) ==
    /\ c.stage = "resolved"
    /\ Drops(c)
    /\ token' = c.of
    /\ jar' = jar \ ClearedByReturn(c)
    /\ ended' = ended \cup {c.of}
    /\ UNCHANGED <<begun, spent, alive, logins, logouts, signouts>>

-----------------------------------------------------------------------------
(* Signing out, and the ends of cookies and sessions *)

PressSignOut ==
    /\ signouts < MaxLogouts
    /\ signouts' = signouts + 1
    /\ logouts' = logouts \cup {[of |-> token, names |-> jar, began |-> begun, stage |-> "sent"]}
    /\ UNCHANGED <<jar, token, begun, spent, alive, logins, returns, ended>>

\* revokeSession(), whose failure changes nothing here.
Revoke(l) ==
    /\ l.stage = "sent"
    /\ logouts' = (logouts \ {l}) \cup {[l EXCEPT !.stage = "revoked"]}
    /\ alive' \in {alive, alive \ {l.of}}
    /\ UNCHANGED <<jar, token, begun, spent, logins, returns, ended, signouts>>

SignedOut(l) ==
    /\ l.stage = "revoked"
    /\ logouts' = logouts \ {l}
    /\ token' = Nobody
    /\ jar' = jar \ ClearedByLogout(l)
    /\ ended' = ended \cup l.began
    /\ UNCHANGED <<begun, spent, alive, logins, returns, signouts>>

\* AUTH_STATE_MAX_AGE
StateExpires(a) ==
    /\ a \in jar
    /\ jar' = jar \ {a}
    /\ ended' = ended \cup {a}
    /\ UNCHANGED <<token, begun, spent, alive, logins, returns, logouts, signouts>>

\* browserSessionTtlSeconds, in the cookie and in what it seals.
SessionExpires ==
    /\ token # Nobody
    /\ token' = Nobody
    /\ UNCHANGED <<jar, begun, spent, alive, logins, returns, logouts, ended, signouts>>

\* The account service ends a session.
EndedElsewhere(a) ==
    /\ a \in alive
    /\ alive' = alive \ {a}
    /\ UNCHANGED <<jar, token, begun, spent, logins, returns, logouts, ended, signouts>>

-----------------------------------------------------------------------------
SignNext ==
    \/ \E a \in Attempts :
          PressSignIn(a) \/ BeginBrowserLogin(a) \/ Return(a)
          \/ StateExpires(a) \/ EndedElsewhere(a)
    \/ \E c \in returns : Refuse(c) \/ Exchange(c) \/ Resolve(c) \/ SignedIn(c)
    \/ PressSignOut
    \/ \E l \in logouts : Revoke(l) \/ SignedOut(l)
    \/ SessionExpires

SignSpec == SignInit /\ [][SignNext]_signVars

-----------------------------------------------------------------------------
(* Properties *)

SignTypeOK ==
    /\ jar \subseteq begun /\ begun \subseteq Attempts
    /\ token \in spent \cup {Nobody}
    /\ spent \subseteq begun /\ alive \subseteq spent
    /\ logins \subseteq Attempts \ begun
    /\ returns \subseteq Returns /\ logouts \subseteq Logouts
    /\ ended \subseteq begun

\* A sign-in stands and falls by itself.  Its callback is refused only if it
\* has been completed before, is older than its cookie, or the rider has signed
\* out since: other tabs that sign in, fail or finish in the meantime do not
\* spoil it.  And a sign-in that has come to its end, or that was under way when
\* the rider signed out, is not taken up again by whatever tab returns late.
AttemptsStandAlone == \A c \in returns : HasState(c) <=> ~c.over

=============================================================================
