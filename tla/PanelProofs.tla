---------------------------- MODULE PanelProofs ----------------------------
(***************************************************************************)
(* Proofs about PanelSessions, for any number of browsers, requests and    *)
(* sessions, any clock and any time to live.                               *)
(***************************************************************************)
EXTENDS PanelSessions, TLAPS

Entries == [expires : 0..(MaxTime + SESSION_TTL), logged_in : BOOLEAN]
Locations == {"idle", "sent", "enter", "api", "login", "wrong login", "logout", "replace", "open",
              "end", "answered"}
Cookies == Ids \cup {NoCookie}
RequestTypes ==
    [pc : Locations, kind : Kinds, by : Browsers \cup {NoRequest.by}, cookie : Cookies,
     answer : Answers, new : Cookies, dead : BOOLEAN]

Shapes ==
    /\ credentials \in [token : BOOLEAN, login : BOOLEAN]
    /\ sessions \in [Ids -> Entries]
    /\ issued \in 0..MaxIds /\ now \in 1..MaxTime
    /\ jar \in [Browsers -> Cookies]
    /\ req \in [Requests -> RequestTypes]
    /\ opened \in [Ids -> 0..MaxTime]
    /\ signed \subseteq Ids /\ over \subseteq Ids

\* Every id that is known has been issued, so a new one is news to all.
IssuedInv ==
    /\ \A i \in Ids : sessions[i] # Gone => i <= issued
    /\ \A b \in Browsers : jar[b] <= issued
    /\ \A i \in over \cup signed : i <= issued

\* The map has a session until it expires or is over.
SessionInv ==
    \A i \in Ids :
      /\ sessions[i] # Gone => sessions[i].expires = opened[i] + SESSION_TTL
      /\ i <= issued /\ i \notin over /\ ~Expired(i) =>
           sessions[i] # Gone /\ (i \in signed => sessions[i].logged_in)
      /\ i \in over => ~sessions[i].logged_in /\ (~has_login => sessions[i] = Gone)

Ended(id) == id = NoCookie \/ id \in over \/ Expired(id)

\* Where a request may be, by its kind, what it has passed and how it is answered.
Fits(r) ==
    /\ req[r].cookie <= issued /\ req[r].new <= issued
    /\ req[r].dead => Ended(req[r].cookie)
    /\ req[r].pc \in {"api", "login", "wrong login", "logout"} => req[r].kind = req[r].pc
    /\ req[r].pc \in {"replace", "open"} => req[r].kind = "login" /\ has_login
    /\ req[r].pc = "end" => req[r].kind = "logout"
    /\ req[r].pc \in {"replace", "end"} => req[r].cookie # NoCookie
    /\ req[r].pc = "api" /\ req[r].dead => ~has_login /\ ~has_token
    /\ req[r].answer = "served" /\ req[r].dead =>
         (has_login => req[r].kind # "api") /\ (~has_login => ~has_token)
    /\ req[r].answer \in Refusals /\ req[r].kind \in {"page", "api"} =>
         Ended(req[r].cookie) \/ (req[r].kind = "api" /\ req[r].cookie \notin signed)

RequestInv == \A r \in Requests : Fits(r)

PanelInv == Shapes /\ IssuedInv /\ SessionInv /\ RequestInv

-----------------------------------------------------------------------------
(* The numbers, and the requests, are what they should be. *)
LEMMA Facts ==
    ASSUME PanelInv
    PROVE  /\ MaxIds \in Nat /\ MaxTime \in Nat /\ SESSION_TTL \in Nat
           /\ issued \in Nat /\ now \in Nat /\ now > 0
           /\ \A i \in Ids : /\ i \in Nat /\ i # NoCookie /\ opened[i] \in Nat
                             /\ sessions[i] \in Entries /\ sessions[i].expires \in Nat
           /\ \A r \in Requests : req[r] \in RequestTypes /\ req[r].cookie \in Cookies
           /\ NoRequest \in RequestTypes
           /\ NoRequest.pc = "idle" /\ NoRequest.cookie = NoCookie /\ NoRequest.new = NoCookie
           /\ NoRequest.answer = "none" /\ NoRequest.dead = FALSE
  <1>0. MaxIds \in Nat /\ MaxTime \in Nat /\ SESSION_TTL \in Nat BY BoundsAssumption
  <1>1. NoRequest.by \in Browsers \cup {NoRequest.by} OBVIOUS
  <1>2. /\ NoRequest \in RequestTypes
        /\ NoRequest.pc = "idle" /\ NoRequest.cookie = NoCookie /\ NoRequest.new = NoCookie
        /\ NoRequest.answer = "none" /\ NoRequest.dead = FALSE
    BY DEF NoRequest, RequestTypes, Locations, Kinds, Cookies, Answers
  <1> QED BY <1>0, <1>2 DEF PanelInv, Shapes, Ids, NoCookie, Entries, RequestTypes

(***************************************************************************)
(* What may happen around a request without it noticing: ids are issued,   *)
(* sessions end, time passes.                                              *)
(***************************************************************************)
Later ==
    /\ UNCHANGED credentials
    /\ issued' \in Nat /\ issued <= issued' /\ now' \in Nat /\ now <= now'
    /\ over \subseteq over'
    /\ \A i \in Ids : i <= issued => opened'[i] = opened[i] /\ (i \in signed' => i \in signed)

LEMMA EndedLater ==
    ASSUME PanelInv, Later, NEW id \in Cookies, id <= issued, Ended(id)
    PROVE  Ended(id)'
  <1>1. CASE id \in Ids BY <1>1, Facts DEF Ended, Later, Expired
  <1>2. CASE id = NoCookie BY <1>2 DEF Ended
  <1> QED BY <1>1, <1>2 DEF Cookies

LEMMA OthersFit ==
    ASSUME PanelInv, Later, NEW q \in Requests, req'[q] = req[q]
    PROVE  Fits(q)'
  <1>1. req[q].cookie \in Cookies /\ req[q].new \in Cookies BY Facts DEF RequestTypes
  <1>f. Fits(q) BY DEF PanelInv, RequestInv
  <1>2. req[q].cookie <= issued' /\ req[q].new <= issued'
    <2>1. req[q].cookie \in Nat /\ req[q].new \in Nat BY <1>1, Facts DEF Cookies, NoCookie
    <2>2. req[q].cookie <= issued /\ req[q].new <= issued BY <1>f DEF Fits
    <2> QED BY <2>1, <2>2, Facts DEF Later
  <1>3. Ended(req[q].cookie) => Ended(req[q].cookie)'
    BY <1>1, EndedLater DEF PanelInv, RequestInv, Fits
  <1>4. has_login' = has_login /\ has_token' = has_token BY DEF Later, has_login, has_token
  <1>5. req[q].cookie \notin signed => req[q].cookie \notin signed' \/ Ended(req[q].cookie)'
    BY <1>1 DEF PanelInv, RequestInv, Fits, Later, Cookies, Ended
  <1> QED BY <1>f, <1>2, <1>3, <1>4, <1>5 DEF Fits

(* An update of a request is one. *)
LEMMA RequestType ==
    ASSUME PanelInv, NEW r \in Requests, NEW pc \in Locations
    PROVE  /\ [req EXCEPT ![r].pc = pc] \in [Requests -> RequestTypes]
           /\ \A a \in Answers :
                /\ [req EXCEPT ![r].pc = pc, ![r].answer = a] \in [Requests -> RequestTypes]
                /\ \A id \in Cookies : [req EXCEPT ![r].pc = pc, ![r].answer = a, ![r].new = id]
                                         \in [Requests -> RequestTypes]
  <1>1. req[r] \in RequestTypes /\ req \in [Requests -> RequestTypes] BY DEF PanelInv, Shapes
  <1>2. [req[r] EXCEPT !.pc = pc] \in RequestTypes BY <1>1 DEF RequestTypes
  <1>3. \A a \in Answers : [req[r] EXCEPT !.pc = pc, !.answer = a] \in RequestTypes
    BY <1>1 DEF RequestTypes
  <1>4. \A a \in Answers, id \in Cookies :
          [req[r] EXCEPT !.pc = pc, !.answer = a, !.new = id] \in RequestTypes
    BY <1>1 DEF RequestTypes
  <1> QED BY <1>1, <1>2, <1>3, <1>4

(***************************************************************************)
(* What PanelState::session leaves of the map.                             *)
(***************************************************************************)
LEMMA LookUp ==
    ASSUME PanelInv, NEW id \in Cookies, id <= issued, sessions' = Pruned(id), Unchanged
    PROVE  /\ sessions' \in [Ids -> Entries] /\ IssuedInv' /\ SessionInv' /\ Later
           /\ Ended(id) /\ Present(sessions', id) => ~sessions'[id].logged_in /\ has_login
           /\ ~Ended(id) => Present(sessions', id) /\ (id \in signed => sessions'[id].logged_in)
  <1> USE DEF PanelInv, Unchanged
  <1>0. Gone \in Entries /\ Gone.logged_in = FALSE /\ Gone.expires = 0
    BY Facts DEF Gone, Entries
  <1>1. sessions' \in [Ids -> Entries] BY <1>0 DEF Pruned, Shapes
  <1>2. \A i \in Ids : \/ sessions'[i] = sessions[i]
                       \/ sessions'[i] = Gone /\ sessions[i].expires <= now
    <2>1. CASE id = NoCookie BY <2>1 DEF Pruned
    <2>2. CASE id # NoCookie
      <3>1. sessions' = [i \in Ids |-> IF sessions[i].expires > now THEN sessions[i] ELSE Gone]
        BY <2>2 DEF Pruned
      <3> QED BY <3>1, Facts
    <2> QED BY <2>1, <2>2
  <1>3. \A i \in Ids : sessions[i].expires <= now => sessions[i] = Gone \/ Expired(i)
    BY Facts DEF SessionInv, Expired
  <1>4. IssuedInv' BY <1>2 DEF IssuedInv
  <1>5. SessionInv'
    <2> SUFFICES ASSUME NEW i \in Ids
                 PROVE  /\ sessions'[i] # Gone => sessions'[i].expires = opened[i] + SESSION_TTL
                        /\ i <= issued /\ i \notin over /\ ~Expired(i) =>
                             sessions'[i] # Gone /\ (i \in signed => sessions'[i].logged_in)
                        /\ i \in over => ~sessions'[i].logged_in /\ (~has_login => sessions'[i] = Gone)
      BY DEF SessionInv, Expired, has_login
    <2> QED BY <1>0, <1>2, <1>3 DEF SessionInv
  <1>6. Later BY Facts DEF Later
  <1>7. ASSUME Ended(id), Present(sessions', id) PROVE ~sessions'[id].logged_in /\ has_login
    <2>1. id \in Ids /\ sessions'[id] # Gone BY <1>7 DEF Present, Cookies
    <2>2. sessions'[id] = sessions[id] /\ sessions[id].expires > now
      BY <1>7, <2>1, Facts DEF Present, Pruned
    <2>3. ~Expired(id)
      <3>1. sessions[id].expires = opened[id] + SESSION_TTL BY <2>1, <2>2 DEF SessionInv
      <3> QED BY <2>1, <2>2, <3>1, Facts DEF Expired
    <2>4. id \in over BY <1>7, <2>1, <2>3, Facts DEF Ended
    <2> QED BY <2>1, <2>2, <2>4 DEF SessionInv
  <1>8. ASSUME ~Ended(id) PROVE Present(sessions', id) /\ (id \in signed => sessions'[id].logged_in)
    <2>1. id \in Ids BY <1>8 DEF Ended, Cookies
    <2> QED BY <1>2, <1>3, <1>8, <2>1 DEF SessionInv, Ended, Present, IssuedInv
  <1> QED BY <1>1, <1>4, <1>5, <1>6, <1>7, <1>8

Moves(r, pc, a) == req' = [req EXCEPT ![r].pc = pc, ![r].answer = a]

(* A request that only moves on keeps what it was sent with. *)
LEMMA MovesOn ==
    ASSUME PanelInv, NEW r \in Requests, NEW pc \in Locations, NEW a \in Answers, Moves(r, pc, a)
    PROVE  /\ req' \in [Requests -> RequestTypes]
           /\ \A q \in Requests : q # r => req'[q] = req[q]
           /\ req'[r].pc = pc /\ req'[r].answer = a /\ req'[r].kind = req[r].kind
           /\ req'[r].cookie = req[r].cookie /\ req'[r].dead = req[r].dead
           /\ req'[r].new = req[r].new
  <1>1. req' \in [Requests -> RequestTypes] BY RequestType DEF Moves
  <1> QED BY <1>1 DEF PanelInv, Shapes, RequestTypes, Moves

LEMMA ToIsMove ==
    ASSUME PanelInv, NEW r \in Requests, NEW pc, To(r, pc)
    PROVE  Moves(r, pc, req[r].answer)
  BY DEF To, Moves, PanelInv, Shapes, RequestTypes

\* What a request has to have to get to pc with answer a.
Allowed(r, pc, a) ==
    /\ pc \in {"api", "login", "wrong login", "logout"} => req[r].kind = pc
    /\ pc \in {"replace", "open"} => req[r].kind = "login" /\ has_login
    /\ pc = "end" => req[r].kind = "logout"
    /\ pc \in {"replace", "end"} => req[r].cookie # NoCookie
    /\ pc = "api" /\ req[r].dead => ~has_login /\ ~has_token
    /\ a = "served" /\ req[r].dead =>
         (has_login => req[r].kind # "api") /\ (~has_login => ~has_token)
    /\ a \in Refusals /\ req[r].kind \in {"page", "api"} =>
         Ended(req[r].cookie) \/ (req[r].kind = "api" /\ req[r].cookie \notin signed)

(* A request that moves on to where it may be. *)
LEMMA MoveFits ==
    ASSUME PanelInv, NEW r \in Requests, NEW pc \in Locations, NEW a \in Answers, Later,
           Moves(r, pc, a), Allowed(r, pc, a)
    PROVE  RequestInv'
  <1>1. PICK id : id = req[r].cookie OBVIOUS
  <1>2. id \in Cookies /\ id <= issued /\ Fits(r) BY <1>1, Facts DEF PanelInv, RequestInv, Fits
  <1>3. Ended(id) => Ended(id)' BY <1>2, EndedLater
  <1>4. id \notin signed => id \notin signed' \/ id = NoCookie BY <1>2 DEF Later, Cookies
  <1>5. has_login' = has_login /\ has_token' = has_token BY DEF Later, has_login, has_token
  <1>6. id <= issued' /\ req[r].new <= issued'
    <2>1. id \in Nat /\ req[r].new \in Nat BY <1>2, Facts DEF Cookies, NoCookie, RequestTypes
    <2>2. req[r].new <= issued BY <1>2 DEF Fits
    <2> QED BY <1>2, <2>1, <2>2, Facts DEF Later
  <1>7. /\ req'[r].pc = pc /\ req'[r].answer = a /\ req'[r].kind = req[r].kind
        /\ req'[r].cookie = id /\ req'[r].dead = req[r].dead /\ req'[r].new = req[r].new
        /\ \A q \in Requests : q # r => req'[q] = req[q]
    BY <1>1, MovesOn
  <1>8. id = NoCookie => Ended(id)' BY DEF Ended
  <1>9. Fits(r)'
    <2>1. req[r].dead => Ended(id)' BY <1>1, <1>2, <1>3 DEF Fits
    <2>2. a \in Refusals /\ req[r].kind \in {"page", "api"} =>
            Ended(id)' \/ (req[r].kind = "api" /\ id \notin signed')
      BY <1>1, <1>3, <1>4, <1>8 DEF Allowed
    <2> QED BY <1>1, <1>5, <1>6, <1>7, <2>1, <2>2 DEF Fits, Allowed
  <1> QED BY <1>7, <1>9, OthersFit DEF RequestInv

(* A handler that looks the session up and moves on. *)
LEMMA LooksInv ==
    ASSUME PanelInv, NEW r \in Requests, NEW pc \in Locations, NEW a \in Answers,
           Moves(r, pc, a), Allowed(r, pc, a),
           sessions' = Pruned(req[r].cookie), Unchanged
    PROVE  PanelInv'
  <1>1. req[r].cookie \in Cookies /\ req[r].cookie <= issued BY Facts DEF PanelInv, RequestInv, Fits
  <1>2. sessions' \in [Ids -> Entries] /\ IssuedInv' /\ SessionInv' /\ Later BY <1>1, LookUp
  <1>3. RequestInv' BY <1>2, MoveFits
  <1>4. Shapes' BY <1>2, MovesOn DEF Shapes, Unchanged, PanelInv
  <1> QED BY <1>2, <1>3, <1>4 DEF PanelInv

(* What a look-up tells. *)
LEMMA Found ==
    ASSUME PanelInv, NEW r \in Requests, sessions' = Pruned(req[r].cookie), Unchanged
    PROVE  /\ Ended(req[r].cookie) /\ Present(sessions', req[r].cookie) =>
                ~sessions'[req[r].cookie].logged_in /\ has_login
           /\ ~Ended(req[r].cookie) =>
                /\ Present(sessions', req[r].cookie)
                /\ req[r].cookie \in signed => sessions'[req[r].cookie].logged_in
           /\ req[r].dead => Ended(req[r].cookie)
           /\ req[r].kind \in Kinds /\ req[r].answer \in Answers
           /\ has_login \in BOOLEAN /\ has_token \in BOOLEAN
           /\ Allowed(r, req[r].pc, req[r].answer)
  <1>1. req[r].cookie \in Cookies /\ req[r].cookie <= issued BY Facts DEF PanelInv, RequestInv, Fits
  <1>2. Allowed(r, req[r].pc, req[r].answer) BY DEF PanelInv, RequestInv, Fits, Allowed
  <1> QED BY <1>1, <1>2, LookUp, Facts
          DEF PanelInv, RequestInv, Fits, RequestTypes, Shapes, has_login, has_token

LEMMA VisitInv == ASSUME PanelInv, NEW r \in Requests, Visit(r) PROVE PanelInv'
  <1>1. sessions' = Pruned(req[r].cookie) /\ Unchanged /\ req[r].kind \in {"token link", "page"}
    BY DEF Visit
  <1> DEFINE found == Present(sessions', req[r].cookie)
  <1>2. CASE req[r].kind = "token link" /\ has_token /\ ~found
    <2>1. To(r, "enter") BY <1>2 DEF Visit
    <2>2. Allowed(r, "enter", req[r].answer) BY <1>1, Found DEF Allowed
    <2>3. "enter" \in Locations BY DEF Locations
    <2> QED BY <1>1, <2>1, <2>2, <2>3, ToIsMove, LooksInv, Found
  <1>3. CASE req[r].kind = "token link" /\ has_token /\ found
    <2>1. Answer(r, "redirect") BY <1>3 DEF Visit
    <2>2. Allowed(r, "answered", "redirect") BY DEF Allowed, Refusals
    <2>3. "answered" \in Locations /\ "redirect" \in Answers BY DEF Locations, Answers
    <2> QED BY <1>1, <2>1, <2>2, <2>3, LooksInv DEF Answer, Moves
  <1>4. CASE ~(req[r].kind = "token link" /\ has_token)
    <2>1. PICK a \in {"served", "not found"} : /\ a = IF passes_gate(found) THEN "served" ELSE "not found"
                                               /\ Answer(r, a)
      BY <1>4 DEF Visit
    <2>2. Allowed(r, "answered", a)
      <3>1. CASE a = "served"
        <4>1. found \/ ~has_token BY <2>1, <3>1 DEF passes_gate
        <4>2. ASSUME req[r].dead, ~has_login PROVE ~has_token BY <1>1, <4>1, <4>2, Found
        <4>3. req[r].kind # "api" BY <1>1
        <4> QED BY <3>1, <4>2, <4>3 DEF Allowed, Refusals
      <3>2. CASE a = "not found"
        <4>1. ~found BY <2>1, <3>2 DEF passes_gate
        <4>2. Ended(req[r].cookie) BY <1>1, <4>1, Found
        <4> QED BY <3>2, <4>2 DEF Allowed
      <3> QED BY <3>1, <3>2
    <2>3. "answered" \in Locations /\ a \in Answers BY <2>1 DEF Locations, Answers, Refusals
    <2> QED BY <1>1, <2>1, <2>2, <2>3, LooksInv DEF Answer, Moves
  <1> QED BY <1>2, <1>3, <1>4

LEMMA GuardInv == ASSUME PanelInv, NEW r \in Requests, guard(r) PROVE PanelInv'
  <1>1. /\ sessions' = Pruned(req[r].cookie) /\ Unchanged
        /\ req[r].kind \in {"login", "wrong login", "logout", "api"}
    BY Found DEF guard, Kinds
  <1> DEFINE found == Present(sessions', req[r].cookie)
             logged_in == has_login => found /\ sessions'[req[r].cookie].logged_in
  <1>2. CASE ~passes_gate(found)
    <2>1. Answer(r, "not found") BY <1>2 DEF guard
    <2>2. Ended(req[r].cookie) BY <1>1, <1>2, Found DEF passes_gate
    <2>3. Allowed(r, "answered", "not found") BY <2>2 DEF Allowed
    <2>4. "answered" \in Locations /\ "not found" \in Answers BY DEF Locations, Answers, Refusals
    <2> QED BY <1>1, <2>1, <2>3, <2>4, LooksInv DEF Answer, Moves
  <1>3. CASE passes_gate(found) /\ ~logged_in /\ req[r].kind = "api"
    <2>1. Answer(r, "unauthorized") BY <1>3 DEF guard
    <2>2. Ended(req[r].cookie) \/ req[r].cookie \notin signed BY <1>1, <1>3, Found
    <2>3. Allowed(r, "answered", "unauthorized") BY <1>3, <2>2 DEF Allowed
    <2>4. "answered" \in Locations /\ "unauthorized" \in Answers BY DEF Locations, Answers, Refusals
    <2> QED BY <1>1, <2>1, <2>3, <2>4, LooksInv DEF Answer, Moves
  <1>4. CASE passes_gate(found) /\ (logged_in \/ req[r].kind # "api")
    <2>1. To(r, req[r].kind) BY <1>4 DEF guard
    <2>2. Allowed(r, req[r].kind, req[r].answer)
      <3>1. ASSUME req[r].kind = "api", req[r].dead PROVE ~has_login /\ ~has_token
        BY <1>1, <1>4, <3>1, Found DEF passes_gate
      <3> QED BY <1>1, <3>1, Found DEF Allowed
    <2>3. req[r].kind \in Locations BY <1>1 DEF Locations
    <2> QED BY <1>1, <2>1, <2>2, <2>3, ToIsMove, LooksInv, Found
  <1> QED BY <1>2, <1>3, <1>4

LEMMA LoginInv == ASSUME PanelInv, NEW r \in Requests, login(r) PROVE PanelInv'
  <1>1. /\ sessions' = Pruned(req[r].cookie) /\ Unchanged /\ req[r].pc = "login" /\ has_login
        /\ To(r, IF Present(sessions', req[r].cookie) THEN "replace" ELSE "open")
    BY DEF login
  <1>2. PICK pc \in {"replace", "open"} : To(r, pc) /\ (pc = "replace" => req[r].cookie # NoCookie)
    BY <1>1 DEF Present
  <1>3. Allowed(r, pc, req[r].answer) BY <1>1, <1>2, Found DEF Allowed
  <1>4. pc \in Locations BY DEF Locations
  <1> QED BY <1>1, <1>2, <1>3, <1>4, ToIsMove, LooksInv, Found

LEMMA LogoutInv == ASSUME PanelInv, NEW r \in Requests, logout(r) PROVE PanelInv'
  <1>1. sessions' = Pruned(req[r].cookie) /\ Unchanged /\ req[r].pc = "logout" BY DEF logout
  <1>2. CASE Present(sessions', req[r].cookie)
    <2>1. To(r, "end") /\ req[r].cookie # NoCookie BY <1>2 DEF logout, Present
    <2>2. Allowed(r, "end", req[r].answer) BY <1>1, <2>1, Found DEF Allowed
    <2>3. "end" \in Locations BY DEF Locations
    <2> QED BY <1>1, <2>1, <2>2, <2>3, ToIsMove, LooksInv, Found
  <1>3. CASE ~Present(sessions', req[r].cookie)
    <2>1. Answer(r, "none") BY <1>3 DEF logout
    <2>2. Allowed(r, "answered", "none") BY DEF Allowed, Refusals
    <2>3. "answered" \in Locations /\ "none" \in Answers BY DEF Locations, Answers
    <2> QED BY <1>1, <2>1, <2>2, <2>3, LooksInv DEF Answer, Moves
  <1> QED BY <1>2, <1>3

-----------------------------------------------------------------------------
(* A handler that answers without another look at the map. *)
LEMMA AnswersInv ==
    ASSUME PanelInv, NEW r \in Requests, Serve(r) \/ LoginRefused(r)
    PROVE  PanelInv'
  <1>1. UNCHANGED sessions /\ Unchanged BY DEF Serve, LoginRefused
  <1>2. PICK a \in Answers : Answer(r, a) /\ Allowed(r, "answered", a)
    <2>f. Fits(r) BY DEF PanelInv, RequestInv
    <2>1. CASE Serve(r)
      <3>1. Answer(r, "served") /\ req[r].pc = "api" BY <2>1 DEF Serve
      <3>2. Allowed(r, "answered", "served") BY <2>f, <3>1 DEF Fits, Allowed, Refusals
      <3> QED BY <3>1, <3>2 DEF Answers
    <2>2. CASE LoginRefused(r)
      <3>1. PICK a \in Refusals : Answer(r, a) BY <2>2 DEF LoginRefused, Refusals
      <3>2. req[r].pc \in {"login", "wrong login"} BY <2>2 DEF LoginRefused
      <3>3. Allowed(r, "answered", a) BY <2>f, <3>2 DEF Fits, Allowed, Refusals
      <3> QED BY <3>1, <3>3 DEF Answers
    <2> QED BY <2>1, <2>2
  <1>3. Later BY <1>1, Facts DEF Later, Unchanged
  <1>4. "answered" \in Locations BY DEF Locations
  <1>5. RequestInv' BY <1>2, <1>3, <1>4, MoveFits DEF Answer, Moves
  <1>6. Shapes' BY <1>1, <1>2, <1>4, MovesOn DEF Shapes, Unchanged, PanelInv, Answer, Moves
  <1>7. IssuedInv' BY <1>1 DEF Unchanged, PanelInv, IssuedInv
  <1>8. SessionInv' BY <1>1 DEF Unchanged, PanelInv, SessionInv, Expired, has_login
  <1> QED BY <1>5, <1>6, <1>7, <1>8 DEF PanelInv

(* A sign-in or a sign-out ends a session, whatever was made of it meanwhile. *)
LEMMA EndsInv ==
    ASSUME PanelInv, NEW r \in Requests, Replace(r) \/ SignOut(r)
    PROVE  PanelInv'
  <1>f. Fits(r) /\ has_login \in BOOLEAN
    BY DEF PanelInv, RequestInv, Shapes, has_login
  <1>1. PICK id \in Ids : id = req[r].cookie
    BY <1>f, Facts DEF Replace, SignOut, Fits, Cookies
  <1>2. /\ over' = over \cup {id} /\ id <= issued
        /\ UNCHANGED <<credentials, issued, jar, now, opened, signed>>
    BY <1>f, <1>1 DEF Replace, SignOut, Fits
  <1>0. Gone \in Entries /\ Gone.logged_in = FALSE BY Facts DEF Gone, Entries
  <1>3. /\ sessions' \in [Ids -> Entries]
        /\ \A i \in Ids : i # id => sessions'[i] = sessions[i]
        /\ ~sessions'[id].logged_in /\ (~has_login => sessions'[id] = Gone)
        /\ sessions'[id] # Gone => sessions[id] # Gone /\ sessions'[id].expires = sessions[id].expires
    <2>1. CASE sessions' = [sessions EXCEPT ![id] = Gone]
      BY <1>0, <2>1 DEF PanelInv, Shapes
    <2>2. CASE sessions' = [sessions EXCEPT ![id].logged_in = FALSE] /\ has_login /\ sessions[id] # Gone
      <3>1. [sessions[id] EXCEPT !.logged_in = FALSE] \in Entries BY Facts DEF Entries
      <3>2. [sessions[id] EXCEPT !.logged_in = FALSE].expires = sessions[id].expires
        BY Facts DEF Entries
      <3> QED BY <2>2, <3>1, <3>2 DEF PanelInv, Shapes, Entries
    <2> QED BY <1>f, <1>1, <2>1, <2>2 DEF Replace, SignOut, Replaced, SignedOut
  <1>4. PICK pc \in {"open", "answered"}, a \in Answers :
          Moves(r, pc, a) /\ Allowed(r, pc, a)
    <2>1. CASE Replace(r)
      <3>1. To(r, "open") /\ req[r].pc = "replace" BY <2>1 DEF Replace
      <3>2. Allowed(r, "open", req[r].answer) /\ req[r].answer \in Answers
        BY <1>f, <3>1, Facts DEF Fits, Allowed, RequestTypes
      <3> QED BY <3>1, <3>2, ToIsMove
    <2>2. CASE SignOut(r)
      <3>1. Answer(r, "none") BY <2>2 DEF SignOut
      <3>2. Allowed(r, "answered", "none") /\ "none" \in Answers BY DEF Allowed, Refusals, Answers
      <3> QED BY <3>1, <3>2 DEF Answer, Moves
    <2> QED BY <2>1, <2>2
  <1>5. Later BY <1>2, Facts DEF Later
  <1>6. pc \in Locations BY DEF Locations
  <1>7. RequestInv' BY <1>4, <1>5, <1>6, MoveFits
  <1>8. Shapes' BY <1>2, <1>3, <1>4, <1>6, MovesOn DEF Shapes, PanelInv
  <1>9. IssuedInv' BY <1>2, <1>3 DEF PanelInv, IssuedInv
  <1>10. SessionInv'
    <2> SUFFICES ASSUME NEW i \in Ids
                 PROVE  /\ sessions'[i] # Gone => sessions'[i].expires = opened[i] + SESSION_TTL
                        /\ i <= issued /\ i \notin over' /\ ~Expired(i) =>
                             sessions'[i] # Gone /\ (i \in signed => sessions'[i].logged_in)
                        /\ i \in over' => /\ ~sessions'[i].logged_in
                                          /\ ~has_login => sessions'[i] = Gone
      BY <1>2 DEF SessionInv, Expired, has_login
    <2>1. CASE i = id BY <1>2, <1>3, <2>1 DEF PanelInv, SessionInv
    <2>2. CASE i # id BY <1>2, <1>3, <2>2 DEF PanelInv, SessionInv
    <2> QED BY <2>1, <2>2
  <1> QED BY <1>7, <1>8, <1>9, <1>10 DEF PanelInv

(* A new session has an id that nobody knows. *)
LEMMA OpensInv ==
    ASSUME PanelInv, NEW r \in Requests, NEW logged_in \in BOOLEAN, open_session(r, logged_in)
    PROVE  PanelInv'
  <1>1. PICK id \in Ids : /\ id = issued + 1
                          /\ sessions' = [sessions EXCEPT ![id] = [expires |-> now + SESSION_TTL,
                                                                   logged_in |-> logged_in]]
                          /\ issued' = id
                          /\ opened' = [opened EXCEPT ![id] = now]
                          /\ signed' = IF logged_in THEN signed \cup {id} ELSE signed
                          /\ req' = [req EXCEPT ![r].pc = "answered", ![r].answer = "cookie",
                                                ![r].new = id]
                          /\ UNCHANGED <<credentials, jar, now, over>>
    <2>1. issued + 1 \in Ids /\ issued + 1 > issued BY Facts DEF open_session, FreshId
    <2> QED BY <2>1 DEF open_session, FreshId
  <1>2. /\ [expires |-> now + SESSION_TTL, logged_in |-> logged_in] \in Entries
        /\ [expires |-> now + SESSION_TTL, logged_in |-> logged_in] # Gone
    <2>1. now \in 1..MaxTime /\ MaxTime \in Nat /\ SESSION_TTL \in Nat
      BY Facts DEF PanelInv, Shapes
    <2>2. now + SESSION_TTL \in 0..(MaxTime + SESSION_TTL) /\ now + SESSION_TTL # 0 BY <2>1
    <2> QED BY <2>2 DEF Entries, Gone
  <1>3. /\ sessions' \in [Ids -> Entries] /\ sessions'[id].expires = now + SESSION_TTL
        /\ sessions'[id].logged_in = logged_in /\ sessions'[id] # Gone
        /\ \A i \in Ids : i # id => sessions'[i] = sessions[i] /\ opened'[i] = opened[i]
        /\ opened'[id] = now
    BY <1>1, <1>2 DEF PanelInv, Shapes
  <1>4. id \notin over /\ id \notin signed /\ sessions[id] = Gone
    <2>1. ~(id <= issued) BY <1>1, Facts
    <2> QED BY <2>1 DEF PanelInv, IssuedInv
  <1>5. Later BY <1>1, <1>3, Facts DEF Later
  <1>6. /\ req' \in [Requests -> RequestTypes]
        /\ \A q \in Requests : q # r => req'[q] = req[q]
        /\ req'[r].pc = "answered" /\ req'[r].answer = "cookie" /\ req'[r].new = id
        /\ req'[r].cookie = req[r].cookie /\ req'[r].dead = req[r].dead
    <2>1. "answered" \in Locations /\ "cookie" \in Answers /\ id \in Cookies
      BY DEF Locations, Answers, Cookies
    <2>2. req' \in [Requests -> RequestTypes] BY <1>1, <2>1, RequestType
    <2> QED BY <1>1, <2>2 DEF PanelInv, Shapes, RequestTypes
  <1>7. Fits(r)'
    <2>1. PICK c : c = req[r].cookie OBVIOUS
    <2>0. c \in Cookies /\ c <= issued /\ (req[r].dead => Ended(c))
      BY <2>1, Facts DEF PanelInv, RequestInv, Fits
    <2>2. c \in Cookies /\ c <= issued /\ c <= issued' /\ (req[r].dead => Ended(c))
      <3>1. c \in Nat BY <2>0, Facts DEF Cookies, NoCookie
      <3> QED BY <1>1, <2>0, <3>1, Facts
    <2>3. req[r].dead => Ended(c)' BY <1>5, <2>2, EndedLater
    <2>4. id <= issued' BY <1>1, Facts
    <2> QED BY <1>6, <2>1, <2>2, <2>3, <2>4 DEF Fits, Refusals
  <1>8. RequestInv' BY <1>5, <1>6, <1>7, OthersFit DEF RequestInv
  <1>9. Shapes'
    <2>1. issued' \in 0..MaxIds /\ signed' \subseteq Ids BY <1>1, Facts DEF PanelInv, Shapes, Ids
    <2>2. opened' \in [Ids -> 0..MaxTime] BY <1>1, Facts DEF PanelInv, Shapes
    <2> QED BY <1>1, <1>3, <1>6, <2>1, <2>2 DEF PanelInv, Shapes
  <1>10. IssuedInv'
    <2>0. \A i \in Nat : i <= issued => i <= issued' BY <1>1, Facts
    <2>1. \A b \in Browsers : jar[b] <= issued'
      <3>1. \A b \in Browsers : jar[b] \in Cookies /\ jar[b] <= issued
        BY DEF PanelInv, IssuedInv, Shapes
      <3>2. \A c \in Cookies : c \in Nat BY Facts DEF Cookies, NoCookie
      <3> QED BY <2>0, <3>1, <3>2
    <2>2. \A i \in Ids : sessions'[i] # Gone => i <= issued'
      <3> TAKE i \in Ids
      <3> HAVE sessions'[i] # Gone
      <3>1. CASE i = id BY <1>1, <3>1, Facts
      <3>2. CASE i # id
        <4>1. i <= issued BY <1>3, <3>2 DEF PanelInv, IssuedInv
        <4> QED BY <2>0, <4>1, Facts
      <3> QED BY <3>1, <3>2
    <2>3. \A i \in over \cup signed : i \in Nat /\ i <= issued
      BY Facts DEF PanelInv, IssuedInv, Shapes
    <2>4. \A i \in over' \cup signed' : i <= issued' BY <1>1, <2>0, <2>3, Facts
    <2> QED BY <1>1, <2>1, <2>2, <2>4 DEF IssuedInv
  <1>11. SessionInv'
    <2> SUFFICES ASSUME NEW i \in Ids
                 PROVE  /\ sessions'[i] # Gone => sessions'[i].expires = opened'[i] + SESSION_TTL
                        /\ i <= issued' /\ i \notin over /\ ~Expired(i)' =>
                             sessions'[i] # Gone /\ (i \in signed' => sessions'[i].logged_in)
                        /\ i \in over => ~sessions'[i].logged_in /\ (~has_login => sessions'[i] = Gone)
      BY <1>1 DEF SessionInv, Expired, has_login
    <2>1. CASE i = id BY <1>1, <1>3, <1>4, <2>1
    <2>2. CASE i # id
      <3>1. i <= issued' => i <= issued BY <1>1, <2>2, Facts
      <3>2. Expired(i)' = Expired(i) BY <1>1, <1>3, <2>2 DEF Expired
      <3>3. i \in signed' => i \in signed BY <1>1, <2>2
      <3> QED BY <1>1, <1>3, <2>2, <3>1, <3>2, <3>3 DEF PanelInv, SessionInv
    <2> QED BY <2>1, <2>2
  <1> QED BY <1>8, <1>9, <1>10, <1>11 DEF PanelInv

-----------------------------------------------------------------------------
(* Browsers, time and restarts. *)
LEMMA NewRequestFits == ASSUME PanelInv, NEW r \in Requests, Later, req'[r] = NoRequest PROVE Fits(r)'
  <1>1. /\ NoRequest.pc = "idle" /\ NoRequest.cookie = NoCookie /\ NoRequest.new = NoCookie
        /\ NoRequest.answer = "none" /\ NoRequest.dead = FALSE
    BY Facts
  <1>2. NoCookie <= issued' BY DEF Later, NoCookie
  <1> QED BY <1>1, <1>2 DEF Fits, Refusals

LEMMA SendInv ==
    ASSUME PanelInv, NEW r \in Requests, NEW b \in Browsers, NEW kind \in Kinds, Send(r, b, kind)
    PROVE  PanelInv'
  <1> DEFINE dead == jar[b] = NoCookie \/ jar[b] \in over \/ Expired(jar[b])
             new == [NoRequest EXCEPT !.pc = "sent", !.kind = kind, !.by = b, !.cookie = jar[b],
                                      !.dead = dead]
  <1>1. /\ req' = [req EXCEPT ![r] = new]
        /\ UNCHANGED <<credentials, sessions, issued, jar, now, opened, signed, over>>
    BY DEF Send
  <1>2. jar[b] \in Cookies /\ jar[b] <= issued BY DEF PanelInv, Shapes, IssuedInv
  <1>3. dead <=> Ended(jar[b]) BY DEF Ended
  <1>4. dead \in BOOLEAN BY DEF Expired
  <1> HIDE DEF dead
  <1>5. /\ new \in RequestTypes /\ new.pc = "sent" /\ new.kind = kind /\ new.cookie = jar[b]
        /\ new.dead = dead /\ new.answer = "none" /\ new.new = NoCookie
    BY <1>2, <1>4, Facts DEF RequestTypes, Locations, NoRequest
  <1> HIDE DEF new
  <1>6. /\ req' \in [Requests -> RequestTypes] /\ req'[r] = new
        /\ \A q \in Requests : q # r => req'[q] = req[q]
    BY <1>1, <1>5 DEF PanelInv, Shapes
  <1>7. Later BY <1>1, Facts DEF Later
  <1>8. Fits(r)'
    <2>1. PICK c : c = jar[b] OBVIOUS
    <2>2. Ended(c)' <=> Ended(c) BY <1>1 DEF Ended, Expired
    <2>3. NoCookie <= issued' BY <1>7 DEF Later, NoCookie
    <2>4. /\ req'[r].pc = "sent" /\ req'[r].cookie = c /\ req'[r].dead = dead
          /\ req'[r].answer = "none" /\ req'[r].new = NoCookie
      BY <1>5, <1>6, <2>1
    <2>5. c <= issued' /\ (dead => Ended(c)') BY <1>1, <1>2, <1>3, <2>1, <2>2
    <2> QED BY <2>3, <2>4, <2>5 DEF Fits, Refusals
  <1>9. RequestInv' BY <1>6, <1>7, <1>8, OthersFit DEF RequestInv
  <1>10. Shapes' /\ IssuedInv' BY <1>1, <1>6 DEF PanelInv, Shapes, IssuedInv
  <1>11. SessionInv' BY <1>1 DEF PanelInv, SessionInv, Expired, has_login
  <1> QED BY <1>9, <1>10, <1>11 DEF PanelInv

LEMMA ReceiveInv == ASSUME PanelInv, NEW r \in Requests, Receive(r) PROVE PanelInv'
  <1>1. /\ req' = [req EXCEPT ![r] = NoRequest]
        /\ UNCHANGED <<credentials, sessions, issued, now, opened, signed, over>>
    BY DEF Receive
  <1>2. /\ req' \in [Requests -> RequestTypes] /\ req'[r] = NoRequest
        /\ \A q \in Requests : q # r => req'[q] = req[q]
    BY <1>1, Facts DEF PanelInv, Shapes
  <1>3. Later BY <1>1, Facts DEF Later
  <1>4. RequestInv' BY <1>2, <1>3, OthersFit, NewRequestFits DEF RequestInv
  <1>5. jar' \in [Browsers -> Cookies] /\ \A b \in Browsers : jar'[b] <= issued
    <2>1. req[r].new \in Cookies /\ req[r].new <= issued
      BY Facts DEF PanelInv, RequestInv, Fits, RequestTypes
    <2> QED BY <2>1 DEF Receive, PanelInv, Shapes, IssuedInv
  <1>6. Shapes' /\ IssuedInv' BY <1>1, <1>2, <1>5 DEF PanelInv, Shapes, IssuedInv
  <1>7. SessionInv' BY <1>1 DEF PanelInv, SessionInv, Expired, has_login
  <1> QED BY <1>4, <1>6, <1>7 DEF PanelInv

LEMMA TickInv == ASSUME PanelInv, Tick PROVE PanelInv'
  <1>1. Later BY Facts DEF Later, Tick
  <1>2. RequestInv' BY <1>1, OthersFit DEF RequestInv, Tick
  <1>m. MaxTime \in Nat /\ now \in Nat /\ now > 0 BY Facts
  <1>3. now' \in 1..MaxTime BY <1>m DEF Tick
  <1>4. Shapes' /\ IssuedInv' BY <1>3 DEF Tick, PanelInv, Shapes, IssuedInv
  <1>5. SessionInv'
    <2>1. \A i \in Ids : Expired(i) => Expired(i)' BY Facts DEF Tick, Expired
    <2> QED BY <2>1 DEF Tick, PanelInv, SessionInv, has_login
  <1> QED BY <1>2, <1>4, <1>5 DEF PanelInv

LEMMA RestartInv == ASSUME PanelInv, Restart PROVE PanelInv'
  <1>1. Later BY Facts DEF Later, Restart
  <1>2. RequestInv'
    <2>1. \A r \in Requests : req'[r] = NoRequest BY DEF Restart
    <2> QED BY <1>1, <2>1, NewRequestFits DEF RequestInv
  <1>3. Gone \in Entries /\ Gone.logged_in = FALSE BY Facts DEF Gone, Entries
  <1>4. 1..issued \subseteq Ids /\ \A i \in 1..issued : i <= issued
    <2>1. issued \in 0..MaxIds /\ MaxIds \in Nat BY Facts DEF PanelInv, Shapes
    <2> QED BY <2>1 DEF Ids
  <1>5. Shapes' BY <1>3, <1>4, Facts DEF Restart, PanelInv, Shapes
  <1>6. IssuedInv' BY <1>4 DEF Restart, PanelInv, IssuedInv
  <1>7. SessionInv'
    <2>1. \A i \in Ids : i <= issued => i \in over' BY Facts DEF Restart, Ids
    <2> QED BY <1>3, <2>1 DEF Restart, SessionInv, Expired, has_login
  <1> QED BY <1>2, <1>5, <1>6, <1>7 DEF PanelInv

LEMMA InitInv == Init => PanelInv
  <1> SUFFICES ASSUME Init PROVE PanelInv OBVIOUS
  <1> USE DEF Init
  <1>0. MaxIds \in Nat /\ MaxTime \in Nat /\ SESSION_TTL \in Nat /\ MaxTime > 0
    BY BoundsAssumption
  <1>1. Gone \in Entries /\ Gone.logged_in = FALSE BY <1>0 DEF Gone, Entries
  <1>2. /\ NoRequest \in RequestTypes
        /\ NoRequest.pc = "idle" /\ NoRequest.cookie = NoCookie /\ NoRequest.new = NoCookie
        /\ NoRequest.answer = "none" /\ NoRequest.dead = FALSE
    BY DEF NoRequest, RequestTypes, Locations, Kinds, Cookies, Answers
  <1>3. Shapes BY <1>0, <1>1, <1>2 DEF Shapes, Cookies
  <1>4. IssuedInv BY DEF IssuedInv, NoCookie
  <1>5. SessionInv BY <1>0 DEF SessionInv, Ids
  <1>6. RequestInv
    <2> SUFFICES ASSUME NEW r \in Requests PROVE Fits(r) BY DEF RequestInv
    <2>1. req[r] = NoRequest /\ NoCookie <= issued BY DEF NoCookie
    <2> QED BY <1>2, <2>1 DEF Fits, Refusals
  <1> QED BY <1>3, <1>4, <1>5, <1>6 DEF PanelInv

LEMMA NextInv == PanelInv /\ [Next]_vars => PanelInv'
  <1> SUFFICES ASSUME PanelInv, [Next]_vars PROVE PanelInv' OBVIOUS
  <1>1. ASSUME NEW r \in Requests, Handle(r) PROVE PanelInv'
    <2>1. (~has_login) \in BOOLEAN /\ TRUE \in BOOLEAN OBVIOUS
    <2>2. CASE Enter(r) BY <2>1, <2>2, OpensInv DEF Enter
    <2>3. CASE SignIn(r) BY <2>1, <2>3, OpensInv DEF SignIn
    <2> QED BY <1>1, <2>2, <2>3, VisitInv, GuardInv, LoginInv, LogoutInv, AnswersInv, EndsInv
            DEF Handle
  <1>2. CASE UNCHANGED vars
    BY <1>2 DEF vars, PanelInv, Shapes, IssuedInv, SessionInv, RequestInv, Fits, Ended, Expired,
                has_login, has_token
  <1> QED BY <1>1, <1>2, SendInv, ReceiveInv, TickInv, RestartInv DEF Next

LEMMA InvAlways == Spec => []PanelInv
  BY InitInv, NextInv, PTL DEF Spec

(***************************************************************************)
(* For any number of browsers and requests under way at a time: a session  *)
(* is honoured until it expires, is signed out or replaced, and not        *)
(* beyond.                                                                 *)
(***************************************************************************)
THEOREM SessionsExact == Spec => []SessionsAreExact
  <1>1. PanelInv => SessionsAreExact
    <2> SUFFICES ASSUME PanelInv PROVE SessionsAreExact OBVIOUS
    <2>1. TypeOK BY DEF PanelInv, Shapes, IssuedInv, TypeOK, Entries, Cookies, RequestTypes
    <2>2. OverIsRefused BY DEF PanelInv, RequestInv, Fits, OverIsRefused
    <2>3. SignInLasts BY DEF PanelInv, RequestInv, Fits, SignInLasts, Ended
    <2> QED BY <2>1, <2>2, <2>3 DEF SessionsAreExact
  <1> QED BY <1>1, InvAlways, PTL

(***************************************************************************)
(* A session that was signed out, replaced or lost never counts as signed  *)
(* in again, whatever a request that had looked it up before goes on to do *)
(* to the map.                                                             *)
(***************************************************************************)
THEOREM OverStaysOver == Spec => OverForGood
  <1> DEFINE Kept == \A i \in over : ~SignedIn(i)' /\ (sessions[i] = Gone => sessions'[i] = Gone)
  <1>1. ASSUME PanelInv, [Next]_vars PROVE Kept
    <2>0. over \subseteq Ids BY <1>1 DEF PanelInv, Shapes
    <2>i. SessionInv' BY <1>1, NextInv DEF PanelInv
    <2>1. over \subseteq over'
      BY <1>1 DEF Next, Handle, Visit, Enter, guard, Serve, LoginRefused, login, Replace, SignIn,
                  logout, SignOut, Unchanged, open_session, Send, Receive, Tick, Restart, vars
    <2>2. \A i \in over : ~sessions'[i].logged_in BY <2>0, <2>1, <2>i DEF SessionInv
    <2>3. ASSUME NEW i \in over, sessions[i] = Gone PROVE sessions'[i] = Gone
      <3>0. i \in Ids /\ sessions \in [Ids -> Entries] BY <1>1, <2>0 DEF PanelInv, Shapes
      <3>1. ASSUME NEW r \in Requests, NEW l, open_session(r, l) PROVE sessions'[i] = Gone
        <4>0. i \in Nat /\ issued \in Nat /\ i <= issued BY <1>1, <3>0, Facts DEF PanelInv, IssuedInv
        <4>1. i # issued + 1 BY <4>0
        <4> QED BY <2>3, <3>0, <3>1, <4>1 DEF open_session, FreshId
      <3>2. ASSUME NEW r \in Requests, sessions' = Pruned(req[r].cookie) PROVE sessions'[i] = Gone
        BY <2>3, <3>0, <3>2 DEF Pruned
      <3>3. ASSUME NEW r \in Requests, sessions' = Replaced(req[r].cookie) PROVE sessions'[i] = Gone
        BY <2>3, <3>0, <3>3 DEF Replaced
      <3>4. ASSUME NEW r \in Requests, sessions' = SignedOut(req[r].cookie) PROVE sessions'[i] = Gone
        <4>1. CASE i = req[r].cookie BY <2>3, <3>0, <3>4, <4>1 DEF SignedOut
        <4>2. CASE i # req[r].cookie BY <2>3, <3>0, <3>4, <4>2 DEF SignedOut
        <4> QED BY <4>1, <4>2
      <3>5. ASSUME sessions' = [k \in Ids |-> Gone] PROVE sessions'[i] = Gone BY <3>0, <3>5
      <3> QED BY <1>1, <2>3, <3>1, <3>2, <3>3, <3>4, <3>5
              DEF Next, Handle, Visit, Enter, guard, Serve, LoginRefused, login, Replace, SignIn,
                  logout, SignOut, Send, Receive, Tick, Restart, vars
    <2> QED BY <2>2, <2>3 DEF SignedIn
  <1>2. PanelInv /\ [Next]_vars =>
          [\A i \in over : /\ ~SignedIn(i)'
                           /\ sessions[i] = Gone => sessions'[i] = Gone]_vars
    BY <1>1
  <1> QED BY <1>2, InvAlways, PTL DEF Spec, OverForGood
=============================================================================
