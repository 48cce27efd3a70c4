--------------------------- MODULE PanelSessions ---------------------------
(***************************************************************************)
(* Sign-in sessions of the web panel (src/src/panel.rs): the entry token,  *)
(* sign-in, sign-out, expiry and restarts.  Requests are handled by tasks  *)
(* on several threads, and take the lock of the session map once for every *)
(* look-up and once for every change, so they interleave between the two.  *)
(***************************************************************************)
EXTENDS Naturals, FiniteSets

CONSTANTS
    Browsers,
    Requests,       \* requests handled at a time
    SESSION_TTL,
    MaxIds,         \* bound on the sessions opened
    MaxTime,        \* bound on the clock
    MaxRestarts     \* bound on the restarts

ASSUME BoundsAssumption ==
    /\ {SESSION_TTL, MaxIds, MaxTime, MaxRestarts} \subseteq Nat
    /\ MaxTime > 0

Ids == 1..MaxIds
NoCookie == 0
Gone == [expires |-> 0, logged_in |-> FALSE]    \* not in the map

Kinds == {"token link", "page", "login", "wrong login", "logout", "api"}
Refusals == {"not found", "unauthorized"}
Answers == Refusals \cup {"redirect", "served", "cookie", "none"}
NoRequest == [pc |-> "idle", kind |-> "page", by |-> CHOOSE b \in Browsers : TRUE,
              cookie |-> NoCookie, answer |-> "none", new |-> NoCookie, dead |-> FALSE]

VARIABLES
    credentials,    \* which of the token and the login the config has
    sessions,       \* PanelState::sessions
    issued,         \* how many ids have been issued: random, so never twice
    jar,            \* the cookie of each browser
    req,            \* the requests under way
    now,
    opened,         \* when each id was opened
    signed,         \* ids that a sign-in, or a token link that signs in, has opened
    over,           \* ids that were signed out, replaced or lost in a restart
    restarts

vars == <<credentials, sessions, issued, jar, req, now, opened, signed, over, restarts>>

has_token == credentials.token
has_login == credentials.login

Init ==
    /\ credentials \in [token : BOOLEAN, login : BOOLEAN]
    /\ sessions = [i \in Ids |-> Gone] /\ issued = 0
    /\ jar = [b \in Browsers |-> NoCookie]
    /\ req = [r \in Requests |-> NoRequest]
    /\ now = 1 /\ opened = [i \in Ids |-> 0] /\ signed = {} /\ over = {} /\ restarts = 0

-----------------------------------------------------------------------------
(***************************************************************************)
(* PanelState::session, passes_gate and open_session.                      *)
(***************************************************************************)
Present(map, id) == id # NoCookie /\ map[id] # Gone

\* Mutant: sessions are not pruned.
Pruned_Never(id) == sessions

\* Mutant: a session that is used is extended.
Pruned_Extends(id) ==
    IF id = NoCookie \/ sessions[id].expires <= now THEN sessions
    ELSE [sessions EXCEPT ![id].expires = @ + SESSION_TTL]

\* Without a cookie the function returns before it prunes.
Pruned(id) ==
    IF id = NoCookie THEN sessions
    ELSE [i \in Ids |-> IF sessions[i].expires > now THEN sessions[i] ELSE Gone]

passes_gate(found) == found \/ ~has_token

To(r, pc) == req' = [req EXCEPT ![r].pc = pc]
Answer(r, answer) == req' = [req EXCEPT ![r].pc = "answered", ![r].answer = answer]

\* Mutant: a sign-in keeps the id that the browser has.
FreshId_Kept(r) == IF req[r].cookie # NoCookie THEN req[r].cookie ELSE issued + 1

\* The id of a new session.
FreshId(r) == issued + 1

open_session(r, logged_in) ==
    LET id == FreshId(r) IN
    /\ id \in Ids
    /\ sessions' = [sessions EXCEPT ![id] = [expires |-> now + SESSION_TTL, logged_in |-> logged_in]]
    /\ issued' = IF id > issued THEN id ELSE issued
    /\ opened' = [opened EXCEPT ![id] = now]
    /\ signed' = IF logged_in THEN signed \cup {id} ELSE signed
    /\ req' = [req EXCEPT ![r].pc = "answered", ![r].answer = "cookie", ![r].new = id]
    /\ UNCHANGED <<credentials, jar, now, over, restarts>>

-----------------------------------------------------------------------------
(***************************************************************************)
(* The handlers.                                                           *)
(***************************************************************************)
Unchanged == UNCHANGED <<credentials, issued, jar, now, opened, signed, over, restarts>>

\* root and dashboard, with enter: the token link opens a session unless the
\* browser has one.
Visit(r) ==
    /\ req[r].pc = "sent" /\ req[r].kind \in {"token link", "page"}
    /\ sessions' = Pruned(req[r].cookie)
    /\ LET found == Present(sessions', req[r].cookie) IN
       IF req[r].kind = "token link" /\ has_token
       THEN IF found THEN Answer(r, "redirect") ELSE To(r, "enter")
       ELSE Answer(r, IF passes_gate(found) THEN "served" ELSE "not found")
    /\ Unchanged

Enter(r) == req[r].pc = "enter" /\ open_session(r, ~has_login)

guard(r) ==
    /\ req[r].pc = "sent" /\ req[r].kind \notin {"token link", "page"}
    /\ sessions' = Pruned(req[r].cookie)
    /\ LET found == Present(sessions', req[r].cookie)
           logged_in == has_login => found /\ sessions'[req[r].cookie].logged_in
       IN  IF ~passes_gate(found) THEN Answer(r, "not found")
           ELSE IF ~logged_in /\ req[r].kind = "api" THEN Answer(r, "unauthorized")
           ELSE To(r, req[r].kind)
    /\ Unchanged

\* A handler behind the guard.
Serve(r) ==
    /\ req[r].pc = "api" /\ Answer(r, "served")
    /\ UNCHANGED sessions /\ Unchanged

LoginRefused(r) ==
    /\ \/ req[r].pc = "login" /\ ~has_login /\ Answer(r, "not found")
       \/ req[r].pc = "wrong login" /\ Answer(r, IF has_login THEN "unauthorized" ELSE "not found")
    /\ UNCHANGED sessions /\ Unchanged

login(r) ==
    /\ req[r].pc = "login" /\ has_login
    /\ sessions' = Pruned(req[r].cookie)
    /\ To(r, IF Present(sessions', req[r].cookie) THEN "replace" ELSE "open")
    /\ Unchanged

\* Mutant: a sign-in ends every session.
Replaced_All(id) == [i \in Ids |-> Gone]

\* The session that the browser signs in with is replaced.
Replaced(id) == [sessions EXCEPT ![id] = Gone]

Replace(r) ==
    /\ req[r].pc = "replace"
    /\ sessions' = Replaced(req[r].cookie)
    /\ over' = over \cup {req[r].cookie}
    /\ To(r, "open")
    /\ UNCHANGED <<credentials, issued, jar, now, opened, signed, restarts>>

SignIn(r) == req[r].pc = "open" /\ open_session(r, TRUE)

logout(r) ==
    /\ req[r].pc = "logout"
    /\ sessions' = Pruned(req[r].cookie)
    /\ IF Present(sessions', req[r].cookie) THEN To(r, "end") ELSE Answer(r, "none")
    /\ Unchanged

\* With a login the session stays past the gate; it may be gone meanwhile.
SignedOut(id) ==
    IF ~has_login \/ sessions[id] = Gone THEN [sessions EXCEPT ![id] = Gone]
    ELSE [sessions EXCEPT ![id].logged_in = FALSE]

SignOut(r) ==
    /\ req[r].pc = "end"
    /\ sessions' = SignedOut(req[r].cookie)
    /\ over' = over \cup {req[r].cookie}
    /\ Answer(r, "none")
    /\ UNCHANGED <<credentials, issued, jar, now, opened, signed, restarts>>

Handle(r) ==
    \/ Visit(r) \/ Enter(r) \/ guard(r) \/ Serve(r)
    \/ LoginRefused(r) \/ login(r) \/ Replace(r) \/ SignIn(r)
    \/ logout(r) \/ SignOut(r)

-----------------------------------------------------------------------------
(***************************************************************************)
(* Browsers, time and restarts.                                            *)
(***************************************************************************)
Expired(id) == now >= opened[id] + SESSION_TTL

Send(r, b, kind) ==
    /\ req[r].pc = "idle"
    /\ req' = [req EXCEPT ![r] =
                 [NoRequest EXCEPT !.pc = "sent", !.kind = kind, !.by = b, !.cookie = jar[b],
                    !.dead = (jar[b] = NoCookie \/ jar[b] \in over \/ Expired(jar[b]))]]
    /\ UNCHANGED <<credentials, sessions, issued, jar, now, opened, signed, over, restarts>>

\* The answers of two requests may reach the browser in any order.
Receive(r) ==
    /\ req[r].pc = "answered"
    /\ jar' = IF req[r].new = NoCookie THEN jar ELSE [jar EXCEPT ![req[r].by] = req[r].new]
    /\ req' = [req EXCEPT ![r] = NoRequest]
    /\ UNCHANGED <<credentials, sessions, issued, now, opened, signed, over, restarts>>

Tick ==
    /\ now < MaxTime /\ now' = now + 1
    /\ UNCHANGED <<credentials, sessions, issued, jar, req, opened, signed, over, restarts>>

\* The sessions live in memory; requests under way are lost.
Restart ==
    /\ restarts < MaxRestarts /\ restarts' = restarts + 1
    /\ sessions' = [i \in Ids |-> Gone] /\ over' = over \cup 1..issued
    /\ req' = [r \in Requests |-> NoRequest]
    /\ UNCHANGED <<credentials, issued, jar, now, opened, signed>>

Next ==
    \/ \E r \in Requests : Handle(r) \/ Receive(r)
    \/ \E r \in Requests, b \in Browsers, kind \in Kinds : Send(r, b, kind)
    \/ Tick \/ Restart

Spec == Init /\ [][Next]_vars

-----------------------------------------------------------------------------
TypeOK ==
    /\ sessions \in [Ids -> [expires : 0..(MaxTime + SESSION_TTL), logged_in : BOOLEAN]]
    /\ issued \in 0..MaxIds /\ now \in 1..MaxTime
    /\ jar \in [Browsers -> Ids \cup {NoCookie}]
    /\ over \cup signed \subseteq Ids
    /\ \A i \in Ids : sessions[i] # Gone => i <= issued
    /\ \A r \in Requests : req[r].answer \in Answers /\ req[r].kind \in Kinds

\* With a login, nothing behind the guard is served to a request that a browser
\* sent after its session was signed out, replaced, expired or lost; with a token
\* alone the same goes for every path of the panel.
OverIsRefused ==
    \A r \in Requests :
      req[r].answer = "served" /\ req[r].dead =>
        /\ has_login => req[r].kind # "api"
        /\ ~has_login => ~has_token

\* A request with a cookie that a sign-in or the token link has returned is not
\* refused before the 7 days are over, unless that session was signed out,
\* replaced by a sign-in or lost in a restart.
SignInLasts ==
    \A r \in Requests :
      /\ req[r].answer \in Refusals /\ req[r].kind \in {"page", "api"}
      /\ req[r].cookie # NoCookie
      => \/ req[r].cookie \in over
         \/ Expired(req[r].cookie)
         \/ req[r].kind = "api" /\ req[r].cookie \notin signed

(***************************************************************************)
(* README: "For the next 7 days the browser can open `/dashboard`          *)
(* directly": a session is honoured until it expires, is signed out or     *)
(* replaced, and not beyond, whatever other requests of the same session   *)
(* do meanwhile.                                                           *)
(***************************************************************************)
SessionsAreExact == TypeOK /\ OverIsRefused /\ SignInLasts

SignedIn(id) == id # NoCookie /\ sessions[id].logged_in

(***************************************************************************)
(* A session that was signed out, replaced or lost never counts as signed  *)
(* in again, not even by a sign-in or sign-out that looked it up before:   *)
(* a new sign-in has a new id.  A replaced one does not come back at all.  *)
(***************************************************************************)
OverForGood ==
    [][\A i \in over : /\ ~SignedIn(i)'
                       /\ sessions[i] = Gone => sessions'[i] = Gone]_vars
=============================================================================
