----------------------------- MODULE MCComponents -----------------------------
(***************************************************************************)
(* The components that share nothing with one another, one at a time: while *)
(* one of them is at work the others are at rest, so that a single run      *)
(* explores the states of each and never their product.                     *)
(***************************************************************************)
EXTENDS WebSocket, Http3, Http3Request, Multipart, RequestBody, TowerBridge, Auth,
        CookieSessions, RedisConnection, Client, Download, Pipeline, ApiDocument, Startup

-----------------------------------------------------------------------------
(* The instances.                                                           *)

QuicSetting(c, h, l, k) ==
  [connections |-> c, handshakes |-> h, shakeLimit |-> l, keepAlive |-> k, streams |-> c]
MCQuicSettings == {QuicSetting(c, 1, l, 2) : c \in {1, 2}, l \in {0, 2}}
                  \cup {QuicSetting(1, 0, 2, 0), QuicSetting(0, 0, 0, 9)}

\* Bodies of one or two parts whose contents look like delimiters of every kind,
\* with a preamble, padding or a bare boundary before them.
Lines == {<<"-", "-", "X">>, <<"-", "-", "X", "-", "-">>, <<"-", "-", "X", "z">>,
          <<"-", "-", "X", "SP">>, <<"g">>, <<>>, <<"c">>}
Then(a, b) == a \o NewLine \o b
PaddedHead == Then(<<"-", "-", "X", "SP", "CR", "LF", "h">>, <<>>)
Closing == <<"-", "-", "X", "-", "-">>
MCBodies ==
  UNION {{Then(PaddedHead, Then(l, Closing)),
          Then(PaddedHead, Then(l, Then(k, Closing))),
          Then(Then(PaddedHead, <<"c">>), Then(<<"-", "-", "X">>, Then(<<"g">>, Then(l, Then(k, Closing))))),
          Then(<<"c">>, Then(l, Then(<<"g">>, Then(k, Closing))))} : l, k \in Lines}

MCCaps == {<<>>, <<2>>, <<1, 2>>, <<4, 1>>}
MCReaders == {<<"text">>, <<"form">>, <<"json">>, <<"bytes">>, <<"receive">>, <<"payload">>,
              <<"form", "json">>, <<"json", "text">>}
MCContents == {[media |-> "form", readings |-> {"form"}],
               [media |-> "json", readings |-> {"json", "text"}],
               [media |-> "other", readings |-> {"text"}], [media |-> "json", readings |-> {}]}

Plugin(scheme, type, accepts, realm) ==
  [scheme |-> scheme, type |-> type, accepts |-> accepts, realm |-> realm]
OnePlugin == {Plugin("bearer", "User", {"tok"}, "none"),
              Plugin("basic", "User", {"ann:pw"}, "api"),
              Plugin("basic", "Admin", {"ann:pw", "tok"}, "api"),
              Plugin("jwt", "Admin", {"jwt"}, "none"),
              Plugin("bearer", "User", {"tok", "jwt"}, "none")}
MCPlugins == {<<p>> : p \in OnePlugin} \cup {<<p, q>> : p, q \in OnePlugin}
MCAuthorizations ==
  {NoHeader} \cup [word: {"Bearer", "bearer", "BEARER", "basic"}, credential: {"tok", "ann:pw", "jwt"}]

\* With and without a visit_deadline, one cookie age below the login_deadline.
MCCookieConfigs == {[login |-> 3, visit |-> 2, age |-> 3], [login |-> 3, visit |-> 0, age |-> 2]}

Gzip == <<[token |-> "gzip", q |-> 10]>>
NoBrotli == <<[token |-> "*", q |-> 10], [token |-> "br", q |-> 0]>>
MCAccepts == {<<>>, Gzip, NoBrotli}
MCPreference == <<"br", "gzip">>
MCVersions == {[second |-> 1, length |-> 3], [second |-> 2, length |-> 3],
               [second |-> 3, length |-> 1]}

MCRequests ==
  [preflight: BOOLEAN, head: {FALSE}, origin: {"none", "ours", "mine", "theirs"},
   accept: {<<>>, Gzip}, large: {FALSE}, framings: {1}, hosts: {1},
   absolute: {FALSE}, http11: {TRUE}]
  \cup {[NoRequest EXCEPT !.large = TRUE], [NoRequest EXCEPT !.framings = 2],
        [NoRequest EXCEPT !.hosts = 2], [NoRequest EXCEPT !.hosts = 0, !.http11 = FALSE],
        [NoRequest EXCEPT !.hosts = 0], [NoRequest EXCEPT !.hosts = 0, !.absolute = TRUE],
        [NoRequest EXCEPT !.head = TRUE], [NoRequest EXCEPT !.head = TRUE, !.accept = Gzip]}
MCInstalls ==
  {<<"log", "cors", "compression", "json">>,
   <<"compression", "altsvc", "cors", "inner gate", "json">>,
   <<"gate", "cors", "compression">>, <<"compression", "outer gate", "cors", "gate">>}

MCScopes == {<<"scope gate">>, <<"scope gate", "scope gate">>}

MCApiRoutes ==
  {[method |-> m, template |-> "/f/{p}", spans |-> FALSE] : m \in {"GET", "POST", "HEAD"}}
  \cup {[method |-> "GET", template |-> "/f/{p}", spans |-> TRUE]}

\* A file that counts and one that does not; an environment whose port does not
\* parse, and one that overrides the file.
MCFiles == {[readable |-> TRUE, says |-> [host |-> "any", tls |-> "pem"]],
            [readable |-> FALSE, says |-> [tls |-> "pem"]]}
MCEnvs == {[says |-> [port |-> 2], junk |-> {"port"}], [says |-> [port |-> 3, cap |-> 1], junk |-> {}]}
MCCalls == {[tls |-> "pem"], [host |-> "bad"]}
Local(port) == [host |-> "local", port |-> port]
MCBinds == {Local(2)}
MCTaken == {{}, {Local(2)}}

\* What these sets name is interchangeable, and every property is an invariant.
Symmetry == Permutations(Command) \cup Permutations(CookieRequests)

-----------------------------------------------------------------------------
parts == <<socket, quic, stream, form, upload, bridge, gatekept, visits, redis_conn, fetch,
           download, onion, api, boot>>

Init == /\ WsInit /\ H3Init /\ H3rInit /\ MpInit /\ UpInit /\ BrInit /\ AuInit /\ CkInit
        /\ RcInit /\ ClInit /\ DlInit /\ PipeInit /\ ApiInit /\ StInit

AtRest == << WsAtRest, H3AtRest, H3rAtRest, MpAtRest, UpAtRest, BrAtRest, AuAtRest, CkAtRest,
             RcAtRest, ClAtRest, DlAtRest, PipeAtRest, ApiAtRest, StAtRest >>

\* Everything but the k-th component is at rest.
OnlyAtWork(k) == LET rest == AtRest IN \A j \in DOMAIN rest \ {k} : rest[j]

Next ==
  \/ OnlyAtWork(1) /\ WsNext /\ UNCHANGED <<quic, stream, form, upload, bridge, gatekept, visits, redis_conn, fetch, download, onion, api, boot>>
  \/ OnlyAtWork(2) /\ H3Next /\ UNCHANGED <<socket, stream, form, upload, bridge, gatekept, visits, redis_conn, fetch, download, onion, api, boot>>
  \/ OnlyAtWork(3) /\ H3rNext /\ UNCHANGED <<socket, quic, form, upload, bridge, gatekept, visits, redis_conn, fetch, download, onion, api, boot>>
  \/ OnlyAtWork(4) /\ MpNext /\ UNCHANGED <<socket, quic, stream, upload, bridge, gatekept, visits, redis_conn, fetch, download, onion, api, boot>>
  \/ OnlyAtWork(5) /\ UpNext /\ UNCHANGED <<socket, quic, stream, form, bridge, gatekept, visits, redis_conn, fetch, download, onion, api, boot>>
  \/ OnlyAtWork(6) /\ BrNext /\ UNCHANGED <<socket, quic, stream, form, upload, gatekept, visits, redis_conn, fetch, download, onion, api, boot>>
  \/ OnlyAtWork(7) /\ AuNext /\ UNCHANGED <<socket, quic, stream, form, upload, bridge, visits, redis_conn, fetch, download, onion, api, boot>>
  \/ OnlyAtWork(8) /\ CkNext /\ UNCHANGED <<socket, quic, stream, form, upload, bridge, gatekept, redis_conn, fetch, download, onion, api, boot>>
  \/ OnlyAtWork(9) /\ RcNext /\ UNCHANGED <<socket, quic, stream, form, upload, bridge, gatekept, visits, fetch, download, onion, api, boot>>
  \/ OnlyAtWork(10) /\ ClNext /\ UNCHANGED <<socket, quic, stream, form, upload, bridge, gatekept, visits, redis_conn, download, onion, api, boot>>
  \/ OnlyAtWork(11) /\ DlNext /\ UNCHANGED <<socket, quic, stream, form, upload, bridge, gatekept, visits, redis_conn, fetch, onion, api, boot>>
  \/ OnlyAtWork(12) /\ PipeNext /\ UNCHANGED <<socket, quic, stream, form, upload, bridge, gatekept, visits, redis_conn, fetch, download, api, boot>>
  \/ OnlyAtWork(13) /\ ApiNext /\ UNCHANGED <<socket, quic, stream, form, upload, bridge, gatekept, visits, redis_conn, fetch, download, onion, boot>>
  \/ OnlyAtWork(14) /\ StNext /\ UNCHANGED <<socket, quic, stream, form, upload, bridge, gatekept, visits, redis_conn, fetch, download, onion, api>>

Spec == Init /\ [][Next]_parts
=============================================================================
