---------------------------------- MODULE Auth ----------------------------------
(***************************************************************************)
(* churust-auth: the bearer, basic and JWT plugins a call passes in the     *)
(* order they were installed, each of which leaves a principal of its type  *)
(* and a challenge in the call, and the Principal extractor of a handler.   *)
(*                                                                         *)
(* What a verifier or a JWT key accepts is up to the application: an entry  *)
(* of a plugin's `accepts` is a credential.                                 *)
(***************************************************************************)
EXTENDS Naturals, Sequences, FiniteSets

CONSTANTS
  Plugins,        \* sequences of [scheme, type, accepts, realm]
  Authorizations, \* [word, credential], or NoHeader
  PrincipalTypes  \* what a handler may ask for

ASSUME AuStacks == \A p \in Plugins : Len(p) \in Nat /\ DOMAIN p = 1..Len(p)

NoHeader == [word |-> "none", credential |-> "none"]

\* at: the call's place; idx: the plugin whose turn it is; has: the types of
\* principal in the call, with the credential that earned each; offered: the
\* Challenges in it; wants: the type the route's handler asks for.
VARIABLE gatekept

AuRest == [at |-> "rest", idx |-> 1, plugins |-> <<>>, header |-> NoHeader, has |-> {},
           offered |-> <<>>, wants |-> "none"]
AuInit == gatekept = AuRest
AuAtRest == gatekept.at = "rest"

AuArrive(plugins, header, type) ==
  /\ gatekept.at = "rest"
  /\ gatekept' = [AuRest EXCEPT !.at = "verifying", !.plugins = plugins,
                                !.header = header, !.wants = type]

Guarding == gatekept.plugins[gatekept.idx]
Verifying == gatekept.at = "verifying" /\ gatekept.idx <= Len(gatekept.plugins)

\* Two spellings of the scheme word are known, and no other.
Words(scheme) == IF scheme = "basic" THEN {"Basic", "basic"} ELSE {"Bearer", "bearer"}

\* Challenges::offer: in installation order, none twice.
OfferChallenge(offered, challenge) ==
  IF challenge \in {offered[k] : k \in DOMAIN offered} THEN offered
  ELSE Append(offered, challenge)

\* A Jwt records none.
ChallengeOf(p) ==
  [scheme |-> IF p.scheme = "basic" THEN "Basic" ELSE "Bearer", realm |-> p.realm]

Recorded(p, offered) ==
  IF p.scheme = "jwt" THEN offered ELSE OfferChallenge(offered, ChallengeOf(p))

\* Mutant: basic decodes whatever scheme the header names.
Presented_anyWord(p, header) ==
  IF p.scheme = "basic" \/ header.word \in Words(p.scheme) THEN {header.credential} ELSE {}

\* The credential a plugin finds in the header.
Presented(p, header) ==
  IF header.word \in Words(p.scheme) THEN {header.credential} ELSE {}

\* insert replaces a principal of the same type.
Inserted(has, p, credential) ==
  {h \in has : h.type # p.type} \cup {[type |-> p.type, by |-> gatekept.idx, for |-> credential]}

\* The plugins' middleware: each goes on, whatever it found.
AuVerify ==
  /\ Verifying
  /\ LET found == Presented(Guarding, gatekept.header) \cap Guarding.accepts IN
     gatekept' = [gatekept EXCEPT !.idx = @ + 1,
       !.offered = Recorded(Guarding, @),
       !.has = IF found = {} THEN @ ELSE Inserted(@, Guarding, gatekept.header.credential)]

\* The call is dropped while a verifier is awaited.
AuDropped == Verifying /\ gatekept' = AuRest

\* Principal::from_call_parts: the handler, or a 401 that says how to get in.
AuExtract ==
  /\ gatekept.at = "verifying" /\ gatekept.idx = Len(gatekept.plugins) + 1
  /\ gatekept' =
       IF \E h \in gatekept.has : h.type = gatekept.wants
         THEN [gatekept EXCEPT !.at = "handler"]
         ELSE [gatekept EXCEPT !.at = "refused",
                 !.offered = IF @ = <<>> THEN <<[scheme |-> "Bearer", realm |-> "none"]>> ELSE @]

AuOver == gatekept.at \in {"handler", "refused"} /\ gatekept' = AuRest

AuNext ==
  \/ \E p \in Plugins, h \in Authorizations, t \in PrincipalTypes : AuArrive(p, h, t)
  \/ AuVerify
  \/ AuDropped
  \/ AuExtract
  \/ AuOver

-----------------------------------------------------------------------------
(* Properties.                                                              *)

\* The plugins that accept what the request presents, under their own scheme in a
\* spelling that the code knows.
Accepting ==
  {k \in DOMAIN gatekept.plugins :
     /\ gatekept.header.word \in Words(gatekept.plugins[k].scheme)
     /\ gatekept.header.credential \in gatekept.plugins[k].accepts}

\* A handler gets a principal exactly when a plugin for that type accepts what
\* the request presents under that plugin's scheme, in one of the two spellings
\* of it that the code knows (SchemeInAnyCase is about the others), and then it
\* is the last such plugin's: not another scheme's reading of the same header, nor
\* the principal of another type, however many plugins are stacked.  Whoever is
\* turned away is told a scheme, and none twice.
PrincipalEarned ==
  LET mine == {k \in Accepting : gatekept.plugins[k].type = gatekept.wants} IN
  /\ gatekept.at = "handler" =>
       \E h \in gatekept.has :
         /\ h.type = gatekept.wants /\ h.for = gatekept.header.credential
         /\ h.by \in mine /\ \A k \in mine : k <= h.by
  /\ gatekept.at = "refused" =>
       /\ mine = {} /\ gatekept.offered # <<>>
       /\ \A i, j \in DOMAIN gatekept.offered :
            gatekept.offered[i] = gatekept.offered[j] => i = j

\* A third capitalisation stands for all those that the code does not know.
AnyCase(scheme) == Words(scheme) \cup (IF scheme = "basic" THEN {"BASIC"} ELSE {"BEARER"})

\* "The scheme word is matched case-insensitively" (of the bearer, basic and JWT
\* plugins): nobody is turned away who presents what a plugin for the wanted type
\* accepts under that plugin's scheme, however its word is capitalised.
SchemeInAnyCase ==
  gatekept.at = "refused" =>
    \A k \in DOMAIN gatekept.plugins :
      LET p == gatekept.plugins[k] IN
      p.type = gatekept.wants /\ gatekept.header.word \in AnyCase(p.scheme)
        => gatekept.header.credential \notin p.accepts
=============================================================================
