--------------------------- MODULE CookieSessions ---------------------------
(***************************************************************************)
(* Sessions kept in a signed cookie, with the identity layer's deadlines:   *)
(* CookieStore, SessionMiddleware, IdentityMiddleware and what a handler    *)
(* does with an Identity.  A browser sends requests that overlap, so that   *)
(* one of them may bring back a session the others have moved on from.  The *)
(* signature keeps a client from editing a cookie; it is not modelled.      *)
(***************************************************************************)
EXTENDS Integers

CONSTANTS
  CookieConfigs,  \* [login, visit, age]: login_deadline, visit_deadline and
                  \* Sessions::max_age, 0 for none
  CookieRequests, \* requests that may be in flight together
  CookieHorizon   \* bound on the clock

ASSUME CookieNumbers ==
  CookieConfigs \subseteq [login: Nat, visit: Nat, age: Nat] /\ CookieHorizon \in Nat

Never == -1

\* A session: whether someone is signed in, and the two timestamps; since and
\* active are history: when that sign-in happened, and when a request of it last
\* arrived that renewed the cookie.
EmptySession == [uid |-> FALSE, lin |-> Never, seen |-> Never,
                 since |-> Never, active |-> Never]

NoSetCookie == [exp |-> Never, session |-> EmptySession]

Idling == [stage |-> "idle", session |-> EmptySession, dirty |-> FALSE, at |-> 0]

\* conf: the plugins' configuration; jar: the cookie the browser has; req: the
\* requests in flight.
VARIABLE visits

CkRest == [on |-> FALSE, conf |-> [login |-> 0, visit |-> 0, age |-> 0], clock |-> 0,
           jar |-> NoSetCookie,
           req |-> [r \in CookieRequests |-> Idling]]
CkInit == visits = CkRest
CkAtRest == ~visits.on

Conf == visits.conf
Now == visits.clock

CkStart(conf) ==
  /\ ~visits.on /\ visits' = [visits EXCEPT !.on = TRUE, !.conf = conf]

-----------------------------------------------------------------------------
(* On the way in.                                                           *)

\* CookieStore::load: a cookie past its signed deadline is no cookie.
Recovered(cookie) ==
  IF cookie.exp # Never /\ Now >= cookie.exp THEN EmptySession ELSE cookie.session

CkArrive(r) ==
  /\ visits.on /\ visits.req[r].stage = "idle"
  /\ visits' = [visits EXCEPT !.req[r] =
       [Idling EXCEPT !.stage = "loaded", !.session = Recovered(visits.jar)]]

OverDue(limit, at) == limit # 0 /\ at # Never /\ Now - at >= limit

Granularity(limit) == IF limit \div 10 > 1 THEN limit \div 10 ELSE 1

\* IdentityMiddleware::expire; the rest of a session is not looked at here.
Anonymous == EmptySession

Stale(s) == Conf.visit # 0 /\ (s.seen = Never \/ Now - s.seen >= Granularity(Conf.visit))

\* Mutant: a refresh starts the login over.
Refreshed_login(s) == IF Stale(s) THEN [s EXCEPT !.seen = Now, !.lin = Now] ELSE s

Refreshed(s) == IF Stale(s) THEN [s EXCEPT !.seen = Now] ELSE s

Identified(s) ==
  IF ~s.uid THEN s
  ELSE IF OverDue(Conf.login, s.lin) \/ OverDue(Conf.visit, s.seen) THEN Anonymous
  ELSE Refreshed(s)

CkIdentify(r) ==
  /\ visits.req[r].stage = "loaded"
  /\ LET q == visits.req[r] IN
     visits' = [visits EXCEPT !.req[r] =
       [q EXCEPT !.stage = "admitted", !.session = Identified(q.session),
                 !.dirty = Identified(q.session) # q.session, !.at = Now]]

-----------------------------------------------------------------------------
(* The handler.                                                             *)

Changing(r, s) ==
  /\ visits.req[r].stage \in {"admitted", "handled"}
  /\ visits' = [visits EXCEPT !.req[r] =
       [@ EXCEPT !.session = s, !.dirty = TRUE, !.stage = "handled"]]

InSession(r) == visits.req[r].session

CkLogin(r) ==
  Changing(r, [InSession(r) EXCEPT !.uid = TRUE, !.lin = Now, !.seen = Now,
                                   !.since = Now, !.active = Now])

\* __churust_uid written by hand, over a session minted already.
CkAdopt(r) ==
  /\ ~InSession(r).uid
  /\ Changing(r, [InSession(r) EXCEPT !.uid = TRUE, !.since = Now, !.active = Now])

CkLogout(r) == Changing(r, EmptySession)

-----------------------------------------------------------------------------
(* On the way out.                                                          *)

\* CookieStore::store signs the deadline in.
Signed(q) ==
  [exp |-> IF Conf.age = 0 THEN Never ELSE Now + Conf.age,
   session |-> [q.session EXCEPT !.active =
                  IF ~q.session.uid THEN Never ELSE IF @ > q.at THEN @ ELSE q.at]]

CkAnswer(r) ==
  /\ visits.req[r].stage \in {"admitted", "handled"}
  /\ visits' = [visits EXCEPT !.req[r] = Idling,
                              !.jar = IF visits.req[r].dirty THEN Signed(visits.req[r]) ELSE @]

\* The visitor hangs up, or the deadline passes: no cookie is set.
CkDropped(r) ==
  /\ visits.req[r].stage # "idle"
  /\ visits' = [visits EXCEPT !.req[r] = Idling]

CkTick == visits.on /\ Now < CookieHorizon /\ visits' = [visits EXCEPT !.clock = @ + 1]

CkNext ==
  \/ \E c \in CookieConfigs : CkStart(c)
  \/ \E r \in CookieRequests : CkArrive(r)
  \/ \E r \in CookieRequests : CkIdentify(r)
  \/ \E r \in CookieRequests : CkLogin(r)
  \/ \E r \in CookieRequests : CkAdopt(r)
  \/ \E r \in CookieRequests : CkLogout(r)
  \/ \E r \in CookieRequests : CkAnswer(r)
  \/ \E r \in CookieRequests : CkDropped(r)
  \/ CkTick

-----------------------------------------------------------------------------
(* Properties.                                                              *)

Admitted == {r \in CookieRequests : visits.req[r].stage = "admitted" /\ InSession(r).uid}

\* Whoever is let in after a login did log in less than login_deadline ago, and
\* some request of that login renewed the cookie less than visit_deadline ago,
\* however its requests overlapped.
LoginsEnd ==
  \A r \in Admitted :
    InSession(r).lin # Never =>
      /\ Conf.login # 0 => visits.req[r].at - InSession(r).since < Conf.login
      /\ Conf.visit # 0 => visits.req[r].at - InSession(r).active < Conf.visit
=============================================================================
