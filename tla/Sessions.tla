------------------------------- MODULE Sessions -------------------------------
(***************************************************************************)
(* The sessions of one user in one browser.  The rows are the server's     *)
(* (auth_sessions, written statement by statement); the cookies are shared *)
(* by the tabs, of which each runs the page's own retry of a call that was *)
(* turned down: one refresh per tab at a time, then the call once more     *)
(* (public/app.js).  A refresh replaces the refresh token of its session;  *)
(* one that carries another token than the row's ends the session.         *)
(*                                                                         *)
(* An access token lives for minutes and a session for weeks: a call may   *)
(* find its access token out of date whenever it reaches the server, and a *)
(* session ends by age only while nothing is under way.                    *)
(***************************************************************************)
EXTENDS Naturals, FiniteSets

CONSTANTS
  Tab,
  Call,        \* calls of the page, each made once and retried once
  NoCall,
  MaxSessions, \* bound: sign-ins
  MaxLost      \* bound: refreshes that the page hears nothing of

ASSUME SessionsAssumption ==
  NoCall \notin Call /\ MaxSessions \in Nat \ {0} /\ MaxLost \in Nat

VARIABLES
  session, \* session -> its row
  issued,  \* refresh tokens made so far, each a number
  cookies, \* of the browser: a session and a refresh token of it, or neither
  tab,     \* tab -> what its page believes, its refresh under way, its sign-in
  call,    \* call -> where it is and what it carries
  trouble  \* ghost: what befell the sessions

sessionVars == <<session, issued, cookies, tab, call, trouble>>

Sid == 1..MaxSessions
NoSid == 0
NoCookies == [sid |-> NoSid, refresh |-> 0]

NotMade == [pc |-> "none", tab |-> NoCall, logout |-> FALSE, again |-> FALSE,
            sid |-> NoSid, refresh |-> 0, heard |-> TRUE]

SessionsInit ==
  /\ session = [s \in Sid |-> [hash |-> IF s = 1 THEN 1 ELSE 0, revoked |-> FALSE, expired |-> FALSE]]
  /\ issued = 1
  /\ cookies = [sid |-> 1, refresh |-> 1]
  /\ tab = [t \in Tab |-> [signedIn |-> TRUE, refreshInFlight |-> NoCall, login |-> NoSid]]
  /\ call = [c \in Call |-> NotMade]
  /\ trouble = [apart |-> {}, lost |-> 0, reused |-> {}, loggedOut |-> {}, raced |-> {}]

\* What getSessionById finds is valid: there, not revoked, not too old.
Valid(s) == s # NoSid /\ session[s].hash # 0 /\ ~session[s].revoked /\ ~session[s].expired

CallAt(c, pc) == call[c].pc = pc
CallGoto(c, pc) == call' = [call EXCEPT ![c].pc = pc]
TabOf(c) == call[c].tab

\* Refreshes of session s that the server has still to finish or answer.
Refreshing(s) == {c \in Call : call[c].sid = s /\ call[c].pc \in
                    {"refresh", "rotate", "reuse", "fresh", "stale"}}

\* The page of a signed-in tab calls, with the cookies of the moment.
SendCall(c, t) ==
  /\ CallAt(c, "none") /\ tab[t].signedIn
  /\ \E logout \in BOOLEAN :
       call' = [call EXCEPT ![c] = [NotMade EXCEPT !.pc = "sent", !.tab = t,
                                      !.logout = logout, !.sid = cookies.sid]]
  /\ UNCHANGED <<session, issued, cookies, tab, trouble>>

\* authRequired: no access token or one out of date, a session that is over, or
\* the handler goes on.  Only for a session that is over are the cookies cleared.
Authorize(c) ==
  /\ CallAt(c, "sent")
  /\ \/ CallGoto(c, "denied")
     \/ call[c].sid # NoSid /\ ~Valid(call[c].sid) /\ CallGoto(c, "cleared")
     \/ Valid(call[c].sid) /\ CallGoto(c, IF call[c].logout THEN "revoke" ELSE "served")
  /\ UNCHANGED <<session, issued, cookies, tab, trouble>>

\* The logout handler ends the session it was let in by.
RevokeByLogout(c) ==
  LET s == call[c].sid
  IN
  /\ CallAt(c, "revoke")
  /\ session' = [session EXCEPT ![s].revoked = TRUE]
  /\ trouble' = [trouble EXCEPT !.loggedOut = @ \cup {s},
       !.raced = IF \E d \in Refreshing(s) : CallAt(d, "rotate") THEN @ \cup {s} ELSE @]
  /\ CallGoto(c, "cleared")
  /\ UNCHANGED <<issued, cookies, tab>>

\* The answer arrives.  The page signs out after a logout, whatever came of it,
\* and refreshes for a call that was turned down for the first time.
ReceiveAnswer(c) ==
  LET denied == call[c].pc \in {"denied", "cleared"}
  IN
  /\ call[c].pc \in {"served", "denied", "cleared"}
  /\ cookies' = IF CallAt(c, "cleared") THEN NoCookies ELSE cookies
  /\ CallGoto(c, IF denied /\ ~call[c].logout /\ ~call[c].again THEN "refused" ELSE "done")
  /\ tab' = [tab EXCEPT ![TabOf(c)].signedIn = @ /\ ~call[c].logout]
  /\ UNCHANGED <<session, issued, trouble>>

\* Faulty variant: a call does not look for a refresh that is under way.
NeverJoins(c) == FALSE

\* tryRefreshSession waits for the refresh of the tab, if there is one.
Joins(c) == tab[TabOf(c)].refreshInFlight # NoCall

BeginRefresh(c) ==
  LET t == TabOf(c)
      s == cookies.sid
  IN
  /\ CallAt(c, "refused")
  /\ IF Joins(c)
     THEN CallGoto(c, "waiting") /\ UNCHANGED <<tab, trouble>>
     ELSE /\ call' = [call EXCEPT ![c] = [@ EXCEPT !.pc = "refresh", !.sid = s,
                                            !.refresh = cookies.refresh]]
          /\ tab' = [tab EXCEPT ![t].refreshInFlight = c]
          /\ trouble' = [trouble EXCEPT !.apart =
               IF \E d \in Refreshing(s) : TabOf(d) # t THEN @ \cup {s} ELSE @]
  /\ UNCHANGED <<session, issued, cookies>>

\* POST /api/auth/refresh reads the row and compares.
ReadForRefresh(c) ==
  LET s == call[c].sid
  IN
  /\ CallAt(c, "refresh")
  /\ CallGoto(c, CASE s = NoSid -> "missing"
                   [] s # NoSid /\ ~Valid(s) -> "stale"
                   [] OTHER -> IF session[s].hash = call[c].refresh THEN "rotate" ELSE "reuse")
  /\ UNCHANGED <<session, issued, cookies, tab, trouble>>

\* The token is not the row's: the session is ended.
RevokeReused(c) ==
  /\ CallAt(c, "reuse")
  /\ session' = [session EXCEPT ![call[c].sid].revoked = TRUE]
  /\ trouble' = [trouble EXCEPT !.reused = @ \cup {call[c].sid}]
  /\ CallGoto(c, "stale")
  /\ UNCHANGED <<issued, cookies, tab>>

\* rotateSession, which also lifts a revocation that came in between.
RotateSession(c) ==
  /\ CallAt(c, "rotate")
  /\ issued' = issued + 1
  /\ session' = [session EXCEPT ![call[c].sid] = [hash |-> issued', revoked |-> FALSE, expired |-> FALSE]]
  /\ call' = [call EXCEPT ![c].pc = "fresh", ![c].refresh = issued']
  /\ UNCHANGED <<cookies, tab, trouble>>

\* The refresh of tab t is settled for c and the calls that wait with it: they
\* are made again, or the page signs out.
Settle(c, t, ok, again) ==
  LET them == {d \in Call : CallAt(d, "waiting") /\ TabOf(d) = t} \cup (IF again THEN {c} ELSE {})
  IN
  /\ call' = [d \in Call |->
       IF d \in them
       THEN [call[d] EXCEPT !.pc = IF ok THEN "sent" ELSE "done", !.again = TRUE, !.sid = cookies'.sid]
       ELSE IF d = c THEN [call[d] EXCEPT !.heard = FALSE] ELSE call[d]]
  /\ tab' = [tab EXCEPT ![t].refreshInFlight = NoCall, ![t].signedIn = @ /\ ok]

ReceiveRefresh(c) ==
  /\ call[c].pc \in {"fresh", "stale", "missing"} /\ call[c].heard
  /\ cookies' = CASE CallAt(c, "fresh") -> [sid |-> call[c].sid, refresh |-> call[c].refresh]
                  [] CallAt(c, "stale") -> NoCookies
                  [] OTHER -> cookies
  /\ Settle(c, TabOf(c), CallAt(c, "fresh"), TRUE)
  /\ UNCHANGED <<session, issued, trouble>>

\* The connection breaks: the page takes the refresh for failed, the server may
\* go on with it.
LoseRefresh(c) ==
  /\ c \in Refreshing(call[c].sid) /\ call[c].sid # NoSid /\ call[c].heard
  /\ trouble.lost < MaxLost
  /\ trouble' = [trouble EXCEPT !.lost = @ + 1, !.apart = @ \cup {call[c].sid}]
  /\ UNCHANGED <<session, issued, cookies>>
  /\ Settle(c, TabOf(c), FALSE, FALSE)

\* A page that has signed out signs in: the row, then the cookies.
SignIn(t) ==
  /\ ~tab[t].signedIn /\ tab[t].login = NoSid
  /\ \E s \in Sid :
       /\ session[s].hash = 0 /\ \A r \in 1..(s - 1) : session[r].hash # 0
       /\ issued' = issued + 1
       /\ session' = [session EXCEPT ![s].hash = issued']
       /\ tab' = [tab EXCEPT ![t].login = s]
  /\ UNCHANGED <<cookies, call, trouble>>

ReceiveSignIn(t) ==
  /\ tab[t].login # NoSid
  /\ cookies' = [sid |-> tab[t].login, refresh |-> session[tab[t].login].hash]
  /\ tab' = [tab EXCEPT ![t].login = NoSid, ![t].signedIn = TRUE]
  /\ UNCHANGED <<session, issued, call, trouble>>

\* Weeks pass; pruneExpiredSessions removes such a row, which is found no more.
SessionExpires(s) ==
  /\ Valid(s)
  /\ \A c \in Call : call[c].pc \in IF call[c].heard THEN {"none", "done"} ELSE {"fresh", "stale"}
  /\ \A t \in Tab : tab[t].login = NoSid
  /\ session' = [session EXCEPT ![s].expired = TRUE]
  /\ UNCHANGED <<issued, cookies, tab, call, trouble>>

SessionsNext ==
  \/ \E c \in Call :
       \/ \E t \in Tab : SendCall(c, t)
       \/ Authorize(c) \/ RevokeByLogout(c) \/ ReceiveAnswer(c) \/ BeginRefresh(c)
       \/ ReadForRefresh(c) \/ RevokeReused(c) \/ RotateSession(c) \/ ReceiveRefresh(c)
       \/ LoseRefresh(c)
  \/ \E t \in Tab : SignIn(t) \/ ReceiveSignIn(t)
  \/ \E s \in Sid : SessionExpires(s)

SessionsSpec == SessionsInit /\ [][SessionsNext]_sessionVars
-----------------------------------------------------------------------------
SessionsTypeOK ==
  /\ session \in [Sid -> [hash : 0..issued, revoked : BOOLEAN, expired : BOOLEAN]]
  /\ cookies \in [sid : Sid \cup {NoSid}, refresh : 0..issued]
  /\ \A t \in Tab : tab[t].refreshInFlight \in Call \cup {NoCall} /\ tab[t].login \in Sid \cup {NoSid}
  /\ \A c \in Call : TabOf(c) \in Tab \cup {NoCall} /\ call[c].refresh \in 0..issued

\* The cookies' token is the one the row knows, unless a refresh is under way.
\* So a session is ended as reused only if two tabs refreshed it at once, or a
\* refresh was lost: the tab's one refresh at a time keeps its many calls from
\* ending it.  And a session that was logged out stays ended, unless a refresh
\* had been let in before (public/app.js tryRefreshSession; server.ts POST
\* /api/auth/refresh; project-store.ts rotateSession).
SessionKept ==
  /\ cookies.sid # NoSid =>
       \/ cookies.refresh = session[cookies.sid].hash
       \/ Refreshing(cookies.sid) # {} \/ cookies.sid \in trouble.apart
  /\ trouble.reused \subseteq trouble.apart
  /\ \A s \in trouble.loggedOut \ trouble.raced : ~Valid(s)
=============================================================================
