---------------------------- MODULE RedisSessions ----------------------------
(***************************************************************************)
(* Server-side sessions: SessionMiddleware, the operations of Session and   *)
(* Identity a handler performs, and RedisStore over a Redis that may not    *)
(* answer.  Requests run concurrently and may be dropped at any await.      *)
(*                                                                         *)
(* A record is who is signed in and whether the application keeps something *)
(* else in it.  Identifiers are well-formed strings; minted ones are new.   *)
(***************************************************************************)
EXTENDS FiniteSets

CONSTANTS Request, User, Id, NoUser, NoId

ASSUME NotAUser == NoUser \notin User
ASSUME NotAnId  == NoId \notin Id

VARIABLES
  live,       \* the identifiers with a record in Redis
  uid, kept,  \* the contents of each record
  stage,      \* where each request is
  arrived,    \* arrived_with
  sid, who, data,  \* the session it works on: SESSION_ID_KEY, UID_KEY, the rest
  target,     \* the identifier its write goes to
  retried,    \* the current command is on its second attempt
  known,      \* identifiers minted or presented so far
  minted,     \* of these, the minted ones
  mintedFor,  \* history: who was signed in when it was minted
  revoked,    \* history: withdrawals that Redis acknowledged
  raced       \* history: of these, the ones another request was working on

redis   == <<live, uid, kept>>
session == <<sid, who, data>>
supply  == <<known, minted, mintedFor>>
withdrawals == <<revoked, raced>>
rsVars  == <<redis, stage, arrived, session, target, retried, supply, withdrawals>>

Stages == {"idle", "loading", "handling", "deleting", "logout", "writing"}

RsTypeOK ==
  /\ live \subseteq Id
  /\ uid \in [Id -> User \cup {NoUser}] /\ kept \in [Id -> BOOLEAN]
  /\ stage \in [Request -> Stages]
  /\ arrived \in [Request -> Id \cup {NoId}]
  /\ sid \in [Request -> Id \cup {NoId}]
  /\ who \in [Request -> User \cup {NoUser}] /\ data \in [Request -> BOOLEAN]
  /\ target \in [Request -> Id \cup {NoId}]
  /\ retried \in [Request -> BOOLEAN]
  /\ minted \subseteq known /\ known \subseteq Id
  /\ mintedFor \in [Id -> User \cup {NoUser}]
  /\ raced \subseteq revoked /\ revoked \subseteq Id

RsInit ==
  /\ live = {} /\ uid = [i \in Id |-> NoUser] /\ kept = [i \in Id |-> FALSE]
  /\ stage = [r \in Request |-> "idle"]
  /\ arrived = [r \in Request |-> NoId]
  /\ sid = [r \in Request |-> NoId] /\ who = [r \in Request |-> NoUser]
  /\ data = [r \in Request |-> FALSE]
  /\ target = [r \in Request |-> NoId]
  /\ retried = [r \in Request |-> FALSE]
  /\ known = {} /\ minted = {} /\ mintedFor = [i \in Id |-> NoUser]
  /\ revoked = {} /\ raced = {}

RsDrop(i) ==
  /\ live' = live \ {i}
  /\ uid' = [uid EXCEPT ![i] = NoUser] /\ kept' = [kept EXCEPT ![i] = FALSE]

To(r, s) == stage' = [stage EXCEPT ![r] = s] /\ retried' = [retried EXCEPT ![r] = FALSE]

\* The future ends, or is dropped; nothing of it is left.
RsFinish(r) ==
  /\ To(r, "idle")
  /\ arrived' = [arrived EXCEPT ![r] = NoId]
  /\ sid' = [sid EXCEPT ![r] = NoId] /\ who' = [who EXCEPT ![r] = NoUser]
  /\ data' = [data EXCEPT ![r] = FALSE]
  /\ target' = [target EXCEPT ![r] = NoId]

-----------------------------------------------------------------------------
(* SessionMiddleware, on the way in                                         *)

\* A visitor presents any identifier but one that is still to be issued, which
\* nobody can have guessed.
RsArrive(r, p) ==
  /\ stage[r] = "idle" /\ To(r, "loading")
  /\ \A q \in Request : p # NoId => p # target[q]
  /\ arrived' = [arrived EXCEPT ![r] = p]
  /\ known' = known \cup ({p} \ {NoId})
  /\ UNCHANGED <<redis, session, target, minted, mintedFor, withdrawals>>

\* A GET that finds nothing, and one that fails, both start an empty session.
RsLoad(r) ==
  /\ stage[r] = "loading" /\ To(r, "handling")
  /\ \/ /\ arrived[r] \in live
        /\ sid' = [sid EXCEPT ![r] = arrived[r]]
        /\ who' = [who EXCEPT ![r] = uid[arrived[r]]]
        /\ data' = [data EXCEPT ![r] = kept[arrived[r]]]
     \/ UNCHANGED session
  /\ UNCHANGED <<redis, arrived, target, supply, withdrawals>>

-----------------------------------------------------------------------------
(* The identity layer and the handler: the session they leave behind.       *)

SessionState == [sid: Id \cup {NoId}, who: User \cup {NoUser}, data: BOOLEAN]

Loaded(r) == [sid |-> sid[r], who |-> who[r], data |-> data[r]]

\* IdentityMiddleware: a deadline that passed signs the visitor out of it.
Expire(s) == [s EXCEPT !.who = NoUser]

\* Mutant: the identifier is not rotated at login.
Login_unrotated(s, u) == [s EXCEPT !.who = u]

Login(s, u) == [s EXCEPT !.sid = NoId, !.who = u]

Logout == [sid |-> NoId, who |-> NoUser, data |-> FALSE]

\* The dirty sessions the two layers may hand to the store: refreshed or
\* written to, expired, rotated, signed in or out.
Changed(s) ==
  LET t == {s} \cup (IF s.who = NoUser THEN {} ELSE {Expire(s)}) IN
  UNION {{v, [v EXCEPT !.data = TRUE], [v EXCEPT !.sid = NoId], Logout}
           \cup {Login(v, u) : u \in User} : v \in t}

Empty(s) == s.sid = NoId /\ s.who = NoUser /\ ~s.data

-----------------------------------------------------------------------------
(* RedisStore::store, up to its first command.                              *)

Fresh == Id \ known

\* The identifier the session carries, or a new one.
RsTarget(r, s) == IF s.sid # NoId THEN {s.sid} ELSE Fresh

Mint(i, s) ==
  IF i \in known THEN UNCHANGED supply
  ELSE /\ known' = known \cup {i} /\ minted' = minted \cup {i}
       /\ mintedFor' = [mintedFor EXCEPT ![i] = s.who]

Begin(r, s) ==
  /\ sid' = [sid EXCEPT ![r] = s.sid]
  /\ who' = [who EXCEPT ![r] = s.who]
  /\ data' = [data EXCEPT ![r] = s.data]

\* An emptied session deletes the record it came from; any other is written,
\* after the record it replaces has been withdrawn.
Store(r, s) ==
  IF Empty(s)
  THEN /\ arrived[r] # NoId
       /\ To(r, "logout") /\ Begin(r, s) /\ UNCHANGED <<target, supply, arrived>>
  ELSE \E i \in RsTarget(r, s) :
       /\ Mint(i, s)
       /\ target' = [target EXCEPT ![r] = i]
       /\ To(r, IF arrived[r] \notin {NoId, i} THEN "deleting" ELSE "writing")
       /\ Begin(r, s) /\ UNCHANGED arrived

\* The handler ran.  A session that was not touched is not stored, and an
\* emptied one that came without an identifier has nothing to delete.
RsHandle(r) ==
  /\ stage[r] = "handling"
  /\ \/ RsFinish(r) /\ UNCHANGED supply
     \/ \E s \in Changed(Loaded(r)) : Store(r, s)
  /\ UNCHANGED <<redis, withdrawals>>

-----------------------------------------------------------------------------
(* The commands.  Each is tried twice, and each attempt may be executed     *)
(* with or without its reply arriving; only a reply counts.                 *)

Retry(r) ==
  /\ ~retried[r] /\ retried' = [retried EXCEPT ![r] = TRUE]
  /\ UNCHANGED <<stage, arrived, session, target, withdrawals>>

Deleted(r) == RsDrop(arrived[r])

\* Another request loaded the session and may still store it.
Elsewhere(r) == \E q \in Request \ {r} : sid[q] = arrived[r]

Withdraw(r) ==
  /\ revoked' = revoked \cup {arrived[r]}
  /\ raced' = IF Elsewhere(r) THEN raced \cup {arrived[r]} ELSE raced

\* Mutant: a DEL that could not be sent is taken for a withdrawal.
Acknowledged_blindly(r) ==
  /\ UNCHANGED redis
  /\ Withdraw(r)
  /\ IF stage[r] = "logout" THEN RsFinish(r)
     ELSE To(r, "writing") /\ UNCHANGED <<arrived, session, target>>

\* What follows a DEL: an acknowledged one ends the logout or lets the write
\* go on; one that never was ends the request with a 500.
Acknowledged(r) ==
  /\ Deleted(r)
  /\ Withdraw(r)
  /\ IF stage[r] = "logout" THEN RsFinish(r)
     ELSE To(r, "writing") /\ UNCHANGED <<arrived, session, target>>

Delete(r) ==
  /\ stage[r] \in {"deleting", "logout"}
  /\ \/ Acknowledged(r)
     \/ /\ Deleted(r) \/ UNCHANGED redis
        /\ Retry(r) \/ (retried[r] /\ RsFinish(r) /\ UNCHANGED withdrawals)
  /\ UNCHANGED supply

Written(r) ==
  /\ live' = live \cup {target[r]}
  /\ uid' = [uid EXCEPT ![target[r]] = who[r]]
  /\ kept' = [kept EXCEPT ![target[r]] = data[r]]

\* A failed SET is no error: the cookie goes out all the same.
Write(r) ==
  /\ stage[r] = "writing"
  /\ \/ Written(r) /\ RsFinish(r) /\ UNCHANGED withdrawals
     \/ /\ Written(r) \/ UNCHANGED redis
        /\ Retry(r) \/ (retried[r] /\ RsFinish(r) /\ UNCHANGED withdrawals)
  /\ UNCHANGED supply

-----------------------------------------------------------------------------
\* request_timeout_ms, or the client went away: dropped at an await.
Cancel(r) ==
  /\ stage[r] # "idle" /\ RsFinish(r)
  /\ UNCHANGED <<redis, supply, withdrawals>>

\* The TTL of a record that nobody touched.
Expiry(i) ==
  /\ i \in live /\ RsDrop(i)
  /\ UNCHANGED <<stage, arrived, session, target, retried, supply, withdrawals>>

RsNext ==
  \/ \E r \in Request : \/ \E p \in Id \cup {NoId} : RsArrive(r, p)
                        \/ RsLoad(r) \/ RsHandle(r) \/ Delete(r) \/ Write(r) \/ Cancel(r)
  \/ \E i \in Id : Expiry(i)

RsSpec == RsInit /\ [][RsNext]_rsVars

-----------------------------------------------------------------------------
\* Fixation: a record exists only under an identifier the store minted, whatever
\* visitors present and whichever commands fail, and an identifier never becomes
\* more than it was minted as: one that was planted, or known before the login,
\* never carries the login.
NoElevation ==
  /\ RsTypeOK
  /\ live \subseteq minted
  /\ \A i \in live : uid[i] \in {NoUser, mintedFor[i]}

\* Revocation: a session whose withdrawal was acknowledged, by a logout or by
\* the rotation of a login, does not come back.
Withdrawn == revoked \cap live = {}

\* It does not when no other request had loaded it by then, whatever failed,
\* was retried or was cancelled on the way.
WithdrawnAlone == (revoked \ raced) \cap live = {}
=============================================================================
