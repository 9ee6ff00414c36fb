------------------------------ MODULE Session ------------------------------
(***************************************************************************)
(* The session cookie of a browser, and the marker that says when to issue *)
(* it again (auth.py, routes/api.py 38-59).                                *)
(*                                                                         *)
(* Both cookies are set when a user signs in, and set again by a request   *)
(* that carries the first but not the second.  The marker lives half as    *)
(* long.  Requests overlap, and what a request carries is what the browser *)
(* held when it was sent.                                                  *)
(***************************************************************************)
EXTENDS Integers, FiniteSets

CONSTANTS
    Ttl,            \* session_ttl_seconds
    Latency,        \* how long a request takes at most (bound)
    MaxPending,     \* requests under way at once (bound)
    MaxTime         \* when the clock stops (bound)

ASSUME SessionAssumption ==
    /\ Ttl \in Nat /\ Ttl >= 2
    /\ Latency \in Nat /\ MaxPending \in Nat /\ MaxTime \in Nat

VARIABLES
    now,
    cookieUntil,    \* when the browser drops ask_cookie_name
    markerUntil,    \* when it drops AUTH_FRESH_SUPE_ASK
    pending,        \* the requests under way
    signedIn,       \* the user has signed in, and not out since (history)
    lastUse,        \* when the last request that succeeded was sent (history)
    diligent        \* there was one in every Pause since signing in (history)

sessionVars == <<now, cookieUntil, markerUntil, pending, signedIn, lastUse,
                 diligent>>

\* A request: when it was sent, whether the cookies were sent with it, and whether
\* its handler returns a StreamingResponse itself.
Requests == [sent : Nat, cookie : BOOLEAN, marker : BOOLEAN, streams : BOOLEAN]

\* The marker lives as long as the cookie.
MarkerWhole == Ttl

\* session_ttl_seconds // 2
MarkerLife == Ttl \div 2

\* How long a user may pause.
Pause == Ttl - Ttl \div 2

SessionInit ==
    /\ now = 0 /\ cookieUntil = 0 /\ markerUntil = 0 /\ pending = {}
    /\ signedIn = FALSE /\ lastUse = 0 /\ diligent = FALSE

Present(until) == now < until

\* set_auth_cookie: max_age counts from when the response arrives.
SetCookies ==
    /\ cookieUntil' = now + Ttl
    /\ markerUntil' = now + MarkerLife

\* validate_or_create_cookie with a code that the auth service accepts.
SignIn ==
    /\ now < MaxTime
    /\ SetCookies
    /\ signedIn' = TRUE /\ lastUse' = now /\ diligent' = TRUE
    /\ UNCHANGED <<now, pending>>

\* delete_cookie
SignOut ==
    /\ cookieUntil' = 0 /\ markerUntil' = 0
    /\ signedIn' = FALSE
    /\ UNCHANGED <<now, pending, lastUse, diligent>>

Send ==
    /\ Cardinality(pending) < MaxPending
    /\ \E streams \in BOOLEAN :
           pending' = pending \union
               {[sent |-> now, cookie |-> Present(cookieUntil),
                 marker |-> Present(markerUntil), streams |-> streams]}
    /\ UNCHANGED <<now, cookieUntil, markerUntil, signedIn, lastUse, diligent>>

\* require_auth lets the request pass.  Without the marker it sets both cookies on
\* the response that FastAPI injects, which is not the one that a handler returns
\* itself: the request that opens a stream refreshes nothing.
Succeed(r) ==
    /\ r.cookie
    /\ pending' = pending \ {r}
    /\ IF r.streams
       THEN UNCHANGED <<cookieUntil, markerUntil, lastUse>>
       ELSE /\ IF r.marker
               THEN UNCHANGED <<cookieUntil, markerUntil>>
               ELSE SetCookies
            /\ lastUse' = IF r.sent > lastUse THEN r.sent ELSE lastUse
    /\ UNCHANGED <<now, signedIn, diligent>>

\* No cookie, or the auth service does not confirm it in time or knows no tenant:
\* 403.  A route may raise as well; an error response carries no cookies either.
Refuse(r) ==
    /\ pending' = pending \ {r}
    /\ UNCHANGED <<now, cookieUntil, markerUntil, signedIn, lastUse, diligent>>

Tick ==
    /\ now < MaxTime
    /\ \A r \in pending : now < r.sent + Latency
    /\ now' = now + 1
    /\ diligent' = (diligent /\ now + 1 - lastUse <= Pause)
    /\ UNCHANGED <<cookieUntil, markerUntil, pending, signedIn, lastUse>>

SessionNext ==
    \/ SignIn \/ SignOut \/ Send \/ Tick
    \/ \E r \in pending : Succeed(r) \/ Refuse(r)

SessionSpec == SessionInit /\ [][SessionNext]_sessionVars

-----------------------------------------------------------------------------
(* Properties.                                                             *)

\* Every variable has its type.
SessionTypeOK ==
    /\ now \in Nat /\ cookieUntil \in Nat /\ markerUntil \in Nat
    /\ pending \subseteq Requests
    /\ signedIn \in BOOLEAN /\ lastUse \in Nat /\ diligent \in BOOLEAN

\* A user who is signed in and has never let more than Ttl - Ttl \div 2 pass
\* between two requests that succeed stays signed in, however the requests
\* overlap: the cookie is issued again before it is dropped.  Requests that open a
\* stream, and those refused because the auth service did not answer, do not
\* count.  (One who pauses for longer may find that the cookie is gone, though the
\* comment at config.py:67 promises the whole of Ttl.)
ActiveStaysSignedIn == signedIn /\ diligent => now < cookieUntil
=============================================================================
