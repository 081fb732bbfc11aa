SPECIFICATION Spec
CHECK_DEADLOCK FALSE
CONSTANTS
  WsIdleTimeouts = {0, 3}
  WsHorizon = 8
  QuicPeer = {p1, p2}
  p1 = p1
  p2 = p2
  NoPeer = NoPeer
  QuicSettings <- MCQuicSettings
  QuicIdleMax = 5
  DefaultIdle = 3
  DefaultStreams = 2
  H3MaxBody = 2
  H3MaxSent = 3
  H3Deadlines = {0, 2}
  MpBodies <- MCBodies
  MpHeaders = {"h", "g"}
  MaxPadding = 1
  MaxHeader = 6
  MaxParts = 2
  UpMaxBody = 3
  UpMaxSent = 4
  UpCaps <- MCCaps
  UpReaders <- MCReaders
  UpContents <- MCContents
  Tasks = {t1, t2}
  t1 = t1
  t2 = t2
  NoTask = NoTask
  Adapters = 2
  Plugins <- MCPlugins
  Authorizations <- MCAuthorizations
  PrincipalTypes = {"User", "Admin"}
  CookieConfigs <- MCCookieConfigs
  CookieRequests = {q1, q2}
  q1 = q1
  q2 = q2
  CookieHorizon = 3
  Command = {m1, m2, m3}
  m1 = m1
  m2 = m2
  m3 = m3
  Sockets = 3
  ClHosts = {"a", "b"}
  ClMaxRedirects = 2
  ClMaxBytes = 1
  ClMaxCodings = 2
  Versions <- MCVersions
  Accepts <- MCAccepts
  Listed = TRUE
  Preference <- MCPreference
  MinSize = 2
  Requests <- MCRequests
  Installs <- MCInstalls
  Scopes <- MCScopes
  Allowed = {"ours", "mine"}
  Rendered = {405, 401}
  ApiRoutes <- MCApiRoutes
  MaxApi = 3
  StFiles <- MCFiles
  StEnvs <- MCEnvs
  StCalls <- MCCalls
  StBinds <- MCBinds
  StTaken <- MCTaken
  StWorkers = {1, 2}
  StMaxCalls = 2
SYMMETRY Symmetry
INVARIANT BodyIsAsDescribed
