------------------------------ MODULE ApiDocument ------------------------------
(***************************************************************************)
(* churust-openapi: the document seeded from the router's inventory, the    *)
(* descriptions attached to its routes, the drift it reports, and what is   *)
(* served where it is mounted, which is rendered there and then while the   *)
(* application may go on registering routes.                                *)
(*                                                                         *)
(* A route is a method, the OpenAPI template its pattern is written as and  *)
(* whether its last parameter spans slashes, which the template leaves out. *)
(* Prose, schemas, parameters and servers are left out.                     *)
(***************************************************************************)
EXTENDS SequencesExt

CONSTANTS
  ApiRoutes,  \* the routes an application may register: [method, template, spans]
  MaxApi      \* bound on how many it does

\* routes: the inventory; listed, described: OpenApi::routes and the keys of
\* OpenApi::operations; drift: what undescribed and stale said at the mount;
\* offered: the operations of the mounted document.  known is history: the routes of
\* the application when from_routes last saw its inventory.
VARIABLE api

ApiRest == [phase |-> "unbuilt", routes |-> <<>>, listed |-> <<>>, described |-> {},
            drift |-> {}, offered |-> {}, known |-> {}]
ApiInit == api = ApiRest
ApiAtRest == api = ApiRest

-----------------------------------------------------------------------------
(* AppBuilder::routing, OpenApi::from_routes and OpenApi::operation.        *)

RegisterRoute(r) ==
  /\ api.phase # "built" /\ Len(api.routes) < MaxApi
  /\ api' = [api EXCEPT !.routes = Append(@, r)]

\* HEAD and OPTIONS are the engine's.
Own(r) == r.method \notin {"HEAD", "OPTIONS"}

\* What is pushed to the list: a route served under several guards is listed once.
NewRoutes ==
  {k \in DOMAIN api.routes :
     /\ Own(api.routes[k])
     /\ api.routes[k] \notin ToSet(api.listed)
     /\ \A j \in 1..(k - 1) : api.routes[j] # api.routes[k]}

FromRoutes ==
  /\ api.phase = "unbuilt" /\ api.routes # <<>>
  /\ api' = LET Pushed(n) == CHOOSE k \in NewRoutes : Cardinality({j \in NewRoutes : j <= k}) = n
            IN [api EXCEPT !.known = {r \in ToSet(api.routes) : Own(r)}, !.listed =
                  @ \o [n \in 1..Cardinality(NewRoutes) |-> api.routes[Pushed(n)]]]

Describe(r) ==
  /\ api.phase = "unbuilt"
  /\ api' = [api EXCEPT !.described = @ \cup {r}]

-----------------------------------------------------------------------------
(* undescribed, stale, to_value and mount.                                  *)

\* Mutant: a description of one method counts for all of the path's.
Undescribed_path ==
  {r \in ToSet(api.listed) :
     \A d \in api.described : <<d.template, d.spans>> # <<r.template, r.spans>>}

Undescribed == ToSet(api.listed) \ api.described
Drifted == api.described \ ToSet(api.listed)

\* Templates are the keys of the document's paths, methods those of an item:
\* a route written like an earlier one takes its place.
ToValue ==
  LET Key(k) == <<api.listed[k].template, api.listed[k].method>>
      Final(k) == \A l \in DOMAIN api.listed : l > k => Key(l) # Key(k)
  IN {[path |-> api.listed[k].template, method |-> api.listed[k].method,
       route |-> api.listed[k], described |-> api.listed[k] \in api.described] :
        k \in {j \in DOMAIN api.listed : Final(j)}}

OwnRoute == [method |-> "GET", template |-> "/openapi.json", spans |-> FALSE]

MountDocument ==
  /\ api.phase = "unbuilt"
  /\ api' = [api EXCEPT !.phase = "mounted", !.offered = ToValue,
                        !.drift = Undescribed \cup Drifted, !.routes = Append(@, OwnRoute)]

BuildApi == api.phase = "mounted" /\ api' = [api EXCEPT !.phase = "built"]

ApiNext ==
  \/ \E r \in ApiRoutes : RegisterRoute(r) \/ Describe(r)
  \/ FromRoutes
  \/ MountDocument
  \/ BuildApi

-----------------------------------------------------------------------------
(* Properties.                                                              *)

\* However registering, listing and describing interleave: the document offers no
\* endpoint that the application does not serve, and all that was registered before
\* it last looked, with one operation for a method of a path, whatever routes are
\* written alike there; and the drift reported at the mount is all there is, to the
\* route: a route it knows that is not described, a description of a route that it
\* does not know, and nothing else, so that none reported means that every operation
\* is described and every description is of a route that is served.
DocumentHonest ==
  /\ \A o, p \in api.offered : o.path = p.path /\ o.method = p.method => o = p
  /\ \A o \in api.offered : o.route \in ToSet(api.routes)
  /\ api.phase # "unbuilt" =>
       /\ {<<o.path, o.method>> : o \in api.offered} = {<<r.template, r.method>> : r \in api.known}
       /\ api.drift = (api.known \ api.described) \cup (api.described \ api.known)
       /\ api.drift = {} => /\ \A o \in api.offered : o.described
                            /\ api.described \subseteq ToSet(api.routes)
=============================================================================
