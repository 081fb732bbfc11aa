# Churust in TLA+

A verification project for [Churust](../src/README.md), a Rust web framework on
tokio, hyper and rustls. It models the parts of the framework whose correctness
depends on order, on concurrency or on failures, checks them with TLC on small
instances, and proves the safety properties with TLAPS for every value of the
constants.

* [The system](#the-system): what there is, what each part keeps, how parts meet
* [The modules](#the-modules): what models what, and how to read it
* [The runs](#the-runs): what each run checks, its bounds, what it shows
* [Fairness](#fairness) and [Proofs](#proofs)
* [What the models disagree with](#what-the-models-disagree-with)
* [What is not modelled](#what-is-not-modelled) and [the plan](#plan)

To run: `tlc -config Connection.cfg Connection.tla` (the module and the
configuration of each run are in the table below), `tlapm Connection_proofs.tla`.

## The system

`src/` is a workspace of crates. `churust-core` holds the server; the other
crates are plugins or clients of it.

| Component | Source | State it keeps | Operations | Meets |
|---|---|---|---|---|
| Connection loop | `engine.rs` `serve_stream`, `ConnActivity`, `InFlight`, `Sniffing` | per connection: requests in flight, time of the last one, three timers, whether it is winding down | serve requests; wind down on shutdown, idleness, silence, or after one answer; drop a peer that does not react | the accept loop (guard), hyper (graceful shutdown), every request (counters), the drain (signal) |
| Accept loops and budgets | `engine.rs` `serve_listener`, `AcceptLimits`, `ConnGuard`, `Drain` | semaphores for connections and handshakes, a drain token per connection | accept, TLS handshake, hand over, back off, drain | connections, WebSockets, the caller's shutdown future |
| Sharded engine | `engine.rs` `serve_sharded*`, `worker_loop` | one queue, runtime and drain per worker; a round-robin position per loop | accept and hand off; adopt; drain; join | acceptor threads, worker threads, the calling thread |
| Unix socket | `engine.rs` `serve_unix`, `unlink_if_stale` | the node at the path, the identity remembered at bind | probe, remove, bind, serve, remove one's own | other instances of the server, the file system, the kernel's queue |
| Router | `router.rs`, `guard.rs` | a trie of routes | register; search with backtracking; enumerate methods | dispatch |
| Dispatch | `app.rs`, `path.rs` | none per request | path policy, depth limit, HEAD, OPTIONS, 404/405/400 | router, handlers, middleware |
| Starting the server | `app.rs` `start*`, `run_sharded`; `config.rs`; `engine.rs` `serve*` | settings in layers, sockets bound so far, threads started | load, override, bind, load the certificate, spawn, return | accept loops, the certificate files, other servers on the same port |
| Request handling and pipeline | `engine.rs` `handle`, `respond`; `pipeline.rs`, `app.rs` `build`, `process_call`; `security.rs` | an ordered chain, one cursor per request | refuse, run, short-circuit, post-process, survive a panic or a deadline | every plugin |
| Request bodies | `call.rs`, `extract.rs`, `router.rs` `LimitedHandler` | a cap and a stream of chunks per request | collect, hand on in pieces, try several readings | handlers, the client |
| Multipart | `multipart.rs` | the buffer of an incremental parser | next field, next chunk, skip; parse a whole body | handlers |
| Rate limiter | `churust-ratelimit` | one GCRA table under a mutex | prune, check | all concurrent requests |
| Server-side sessions | `session.rs`, `identity.rs`, `churust-redis` | records in Redis, a session per request | load, sign in, sign out, write, withdraw | Redis, concurrent requests of one visitor |
| Cookie sessions | `session.rs`, `identity.rs` | everything is in the signed cookie | load, expire, renew, sign in, sign out, store | a browser with several requests in flight |
| Redis connection | `churust-redis` `RedisBackend` | one cached connection | clone, dial, share, run, drop and retry | every session command |
| WebSocket | `ws.rs` | a detached task, an idle timer, a guard clone | validate, upgrade, touch, reap, drain | connection, drain |
| HTTP/3 | `http3.rs` | its own endpoint, budget, drain; a body and a deadline per request | accept, shake hands, serve, answer, drain | QUIC |
| Static files | `fs.rs` | none between requests; a file that changes under it | locate, stat, open, decide on preconditions and ranges | compression, caches, clients that resume |
| Compression, CORS, JSON errors, error pages, request log | `churust-compression`, `churust-cors`, `churust-json`, `app.rs`, `churust-logging` | none | rewrite an answer on its way out | each other, in any order of installation; shared caches |
| Tower bridge | `tower.rs` | a task-local slot per request and adapter | put the call away, take it out | tower layers, which call when, where and as often as they like |
| Authentication | `churust-auth` | principals and challenges in the call | verify, extract, challenge | handlers, the other schemes on the same header |
| HTTP client | `churust-client` | the state of one chain of redirects | send, follow, decompress, bound | remote servers |
| API document | `churust-openapi` | a list of routes and of descriptions | list, describe, compare, mount | the router, before and after it |
| The rest | templates, macros, state, test client, facade | none, or fixed at start | | |

### What is hard, and what makes each part correct

* **Connection.** Under HTTP/2 every stream runs on a task of its own, so the
  counters the loop reads change between any two of its reads, and the drop of
  an `InFlight` guard is four separate steps. The loop must not close a
  connection that is answering, and must not keep one that is not: a peer may
  never send a byte, never acknowledge a GOAWAY, or stop answering pings.
* **Accept loops.** A slot is taken *before* the accept, inside a future that
  shutdown may cancel, and is given back on seven ways out. It must be given
  back exactly once. The cap covers handshakes, connections and upgraded
  WebSockets of all listeners. A drain must wait for everything and must end.
* **Sharded engine.** The slot travels with the connection through a queue to
  another thread, and either end may be gone.
* **Unix socket.** Each step is a system call; processes crash between them and
  other instances start.
* **Router.** Backtracking over overlapping routes with guards: no dead end may
  hide a route that serves, no capture may leak, and `Allow` must be true.
* **Starting.** Six ways in, each with its own order of parsing, binding, loading
  the certificate and starting threads, and each step can fail half-way.
* **Pipeline.** Layers may be installed in any order, and an answer leaves the
  onion by returning, by a short-circuit, by a panic, by the deadline, or never
  enters it. What describes a body must describe the one that is sent, and what a
  shared cache stores must be right for whom it is replayed to.
* **Bodies.** Chunks are cut anywhere; the stream goes on after the error that
  refused it; the same multipart body is parsed by two parsers.
* **Files.** Validators, ranges and codings of several answers, given while the
  file is replaced, must add up to one copy.
* **Rate limiter.** The clock is read before the lock is taken, so the table
  sees readings out of order; eviction must bound the table.
* **Sessions.** Commands fail, are retried without knowing whether they were
  executed, and are cancelled; two requests of one visitor overlap. With cookies
  the last answer to arrive decides which session the browser has.
* **Redis connection.** Many commands share, drop and dial at the same time.
* **Tower, authentication, client.** Long sequences of legal calls: a layer that
  retries from another task, schemes stacked on one header, a chain of redirects
  that leaves an origin and comes back.

`PROJECT.json` lists every component, and under "hazards" each of these points
with its line and the properties that cover it.

## The modules

| Module | Models |
|---|---|
| `ConnLease` | the contract of one connection with the engine: held until let go; let go once; by the server only after asking, and with nothing being answered |
| `Connection` | `serve_stream`'s `select!` loop, `ConnActivity`, `InFlight::drop` statement by statement, `Sniffing`; implements `ConnLease` |
| `Serve` | `serve`, `serve_on`, `serve_many`, `serve_sharded` on Linux: accept loops on one budget, the TLS step, `ConnGuard` and its WebSocket clone, `Drain`; uses connections by `ConnLease` |
| `ShardedCentral` | `serve_sharded_central`, `shard_accept_loop`, `worker_loop`, the joins of the calling thread |
| `UnixSocket`, `MCUnixSocket` | `serve_unix` around its accept loop: stat, probe, remove, bind, listen, identify, unlink, by several instances |
| `Router` | the trie, `add`, `walk_matching`, `walk_wildcard`, `route`, `methods_for`, `all_methods` |
| `Dispatch`, `MCDispatch` | `App::dispatch` over `Router`, and a reference without a search |
| `RateLimit` | the GCRA table: `prune`, `check`, out-of-order clock readings |
| `RedisSessions`, `MCRedisSessions` | `SessionMiddleware`, `Session`, `Identity`, `RedisStore` over a Redis that may not answer |
| `Startup` | `Config::load`, the setters, `start`, `start_on`, `start_unix`, `run_sharded`, down to the first accept of every loop |
| `Pipeline` | `respond` and `handle` around `build`'s layers: CORS, compression, error pages, JSON errors, Alt-Svc, request ids, an application's own gates, the chain of a scope |
| `RequestBody` | the server's cap, the route's caps, `receive`, `Payload`, `String`, `Bytes`, `Form`, `Json`, `Either` |
| `Multipart` | the buffered parser as a function, `MultipartStream` as a state machine over any chunking |
| `WebSocket` | the extractor, the upgrade task, `WsActivity` and the reaper |
| `Http3` | the QUIC accept loop, its budgets, handshakes, connections, drain |
| `Http3Request` | `serve_request`: a body collected under a deadline, an answer that may break off |
| `StaticFiles`, `Compression` | decisions without state: location, preconditions, ranges, validators; negotiation, what becomes of an answer |
| `Download` | `StaticFiles` behind `Compression`, a client that resumes, a file that is replaced |
| `TowerBridge` | `TowerMiddleware` and `NextService`, nested, over several tasks |
| `Auth` | stacked bearer, basic and JWT plugins, `Principal` |
| `CookieSessions` | `CookieStore`, `Sessions` and `Identities` with both deadlines |
| `RedisConnection` | `RedisBackend::connection` and `run` |
| `Client` | one request with its redirects, up to the body |
| `ApiDocument` | `OpenApi`: listing, describing, drift, mounting |
| `MCShared` | the run of `RateLimit` and `UnixSocket` side by side |
| `MCApplication` | the run of `Dispatch` and `RedisSessions` side by side |
| `MCComponents` | the instances of the sixteen modules from `Startup` on, and their run |
| `Connection_proofs`, `Serve_proofs`, `ShardedCentral_proofs`, `UnixSocket_proofs`, `Dispatch_proofs`, `Multipart_proofs` | the theorems about the module of the same name |
| `Components_proofs` | the theorems about `RateLimit`, `RedisSessions` and the components of `MCComponents`, except `Multipart` |
| `Counting` | lemmas about sizes, least elements, remainders and recursive definitions |

`Serve` composes connections by `ConnLease`, which `Connection` implements;
`Dispatch` is built on `Router`; `Download` on `StaticFiles` and `Compression`;
`Pipeline` uses `Compression`.

### How state and actions correspond to the code

**Connection.** `inFlight`, `served`, `quiet` and `permit` are the fields of
`ConnActivity` (`quiet` is the time since `last_ms`, `permit` the stored permit
of the `Notify`). `winding`, `lingering`, `negArmed` and the three timers are
the locals of the loop. There is one action per `select!` branch, with the
guards of the branches before it negated, because the `select!` is `biased`.
A request goes through "handling" (the service closure), "writing" (the guard
rides on `EngineBody`) and the four statements of `InFlight::drop`. Under HTTP/1
the loop polls the request itself, so `Polling` keeps the loop from running in
the middle of a drop; under HTTP/2 it may. The loads and stores of the code are
`Relaxed`; the model interleaves them one by one, as if sequentially consistent.
The head of the loop re-evaluates `negotiation_armed`; a pass of the loop starts
when a branch has fired, so the action of the branch does it (`Reenter`).
hyper and the peer are an environment: they may close at any time, and hyper is
trusted only for what the code relies on (`HyperFinishes`, `PingTimesOut`,
`HeadTimesOut`, `FinalGoaway`).

**Serve.** `pc` is where `serve_listener` is; waiting for a slot and accepting
are one future, so `LoopStops` may cancel either and returns a slot that was
taken. `loopHolds` and `wsHolds` are the two clones of a `ConnGuard`; the permit
goes back with the last of them. `Budget` is what `AcceptLimits` was built with.
A connection is followed from the kernel's backlog through the handshake budget
and the handshake to being served, asked to finish, and let go. `timer` is what is
left of `tokio::time::timeout` around the queue and the handshake; `waited` is
history: how long a connection has been unproven. `Tick` is a unit of time for
everybody; it does not pass a timer that is due.

**ShardedCentral.** A `Worker`'s queue is its unbounded channel; `Ends` drops
what a thread owned when it ends. `given` is a history variable for `Balanced`.

**UnixSocket.** A node is named after the instance that bound it. `Serialised`
starts one instance at a time, which is what the documentation speaks of.

**Router.** A node is the sequence of keys that leads to it, and the trie is what
the registered patterns span; `NameOf` is the name an edge was created with.
A search is a recursive function of the spot it is at: a node, the segments that are
left, and the captures so far. `WalkMatching` and `WalkWildcard` thread the captures
through the walk like the `&mut Params` of the code and leave what they have afterwards
in the outcome, so that what an abandoned branch puts back, or fails to, is the next
one's. `Reached` is what `walk_matching` visits when its closure accepts nothing.
`Register` is a registration with the guards chained after it; one that panics
is not registered. **Dispatch** answers one request at a time: the router does
not change after `build`, so concurrent requests do not meet there.

**RateLimit.** `tat` is the table, by digest. `ReadClock` and `Check` are the two
halves of a request: the reading, and everything under the lock. `first`, `last`
and `cost` are history: they record a window of admissions that starts at an
arbitrary one, which is what the rate is a statement about.

**RedisSessions.** A request is followed from `loading` through `handling` to
the commands that store what the handler left. Each attempt of a command may be
executed or not, answered or not, and is retried once; the future may be dropped
at any await. `mintedFor`, `revoked` and `raced` are history.

**Startup.** `cfg` is the configuration as the layers leave it: defaults, file,
environment, code, last one wins. `shape` is which function of the engine serves;
`BindNext`, `Launch` and `LoopStarts` are its steps in the order that function has
them, and `loops` is what each accept loop is doing. `taken` (addresses of others)
and `cert` are the machine's.

**Pipeline.** One request. `chain` is what `build` leaves, `idx` the cursor of
`Next`, and the value of a layer is what it does on the way out (`After`). The
engine's refusals go past the chain; a panic and the deadline leave it from any
place, and `SendAnswer` is what `handle` does to whatever comes. A scope's chain
is entered when the application's is spent.

**RequestBody.** A request is `extracting`, then `collecting` or `streaming`; the
client sends pieces of any size and may break off. `left` is what `Limited` has
room for; `holed` is history: a piece was handed on after one that was not.

**Multipart.** `framed` is the body with the line break both parsers put before it;
the buffer is the part of it between `lo` and `hi`. `Fill` is a chunk arriving, one
action per turn of the parser's loops.

**WebSocket.** `last` is what `WsActivity` records, and the reaper looks at it when
`timer` says so, at no other time. **Http3.** `at` says where each connection
is: queued, given a slot and waiting for the handshake budget, shaking hands,
served, or gone with request tasks that outlive it. **Http3Request.** The peer and
the server take turns; `wire` says
how the answer ended for the peer: a clean end, or a reset. `panicked` is history.

**Download.** `answer` is decided on the stat of the file, `OpenFile` may read a
newer one (`raced`). `copy.sources` is history: which version, in which coding, each
byte the client has came from.

**TowerBridge.** A task is a request's; `slots` is its task-local stack. A layer may
call now, later, twice, from a worker, from another request's task, or not at all.
`res` is what is on its way out: an answer, with whose it is, or an error, which stays
one until an adapter makes a 500 of it. `borrowed` is history: a layer brought another
request's call into this task.

**Auth.** The header is a scheme word and a credential; `accepts` is what a verifier
lets in. **CookieSessions.** `jar` is the cookie the browser sends next; `since` and
`active` are history. **RedisConnection.** Connections are numbered as they are
dialled; `met` is history: on which ones a command found itself broken.
**Client.** `sent` is what the current request carried, `stripped` what has been
dropped for good; of the body, `codings` is what its headers name and `layers` what it
is under. **ApiDocument.** `offered` is what is served where the document
is mounted; `known` is history: the routes there were when `from_routes` last looked.

`MCComponents` puts these side by side: they share no state, so while one is at work
the others are at rest (`OnlyAtWork`), and one run explores the sum of their states
and never the product. `MCShared` and `MCApplication` do the same with two modules each.

## The runs

| Run | Module, configuration | Bounds | Result |
|---|---|---|---|
| `connection` | `Connection`, `Connection.cfg` | two requests, a preface of two bytes, keep-alive 0 and 2, header deadline 0 and 1 | holds |
| `serve` | `Serve`, `Serve.cfg` | two listeners, two connections, caps 1 and 2, one handshake permit, a handshake timeout of two ticks | holds |
| `serve_reuseport` | `Serve`, `ServeReuseport.cfg` | two workers, cap 2 | `BacklogServed` fails |
| `sharded_central` | `ShardedCentral`, `ShardedCentral.cfg` | two loops, two workers, three connections, caps 0 and 2 | holds |
| `shared` | `MCShared`, `Shared.cfg` | rate limiter: three keys, two requests, a table of two, five ticks; Unix socket: three instances, a kernel queue that does not fill | holds |
| `unix_saturated` | `MCUnixSocket`, `UnixSaturated.cfg` | two instances, a kernel queue of one | `ServingIsReachable` fails |
| `application` | `MCApplication`, `Application.cfg` | dispatch: up to three of fourteen routes, paths of up to three segments; sessions: two requests, three identifiers, one user | holds |
| `dispatch_allow` | `MCDispatch`, `DispatchAllow.cfg` | the routes and requests of `application` | `AllowIsComplete` fails |
| `sessions_revival` | `MCRedisSessions`, `SessionsRevival.cfg` | the sessions of `application` | `Withdrawn` fails |
| `components` | `MCComponents`, `Components.cfg` | below, component by component | holds |
| `auth_scheme` | `MCComponents`, `AuthScheme.cfg` | those of `components` | `SchemeInAnyCase` fails |
| `client_stack` | `MCComponents`, `ClientStack.cfg` | those of `components` | `BodyIsAsDescribed` fails |

What the bounds are for:

* **connection** Two requests are the least that lets one drop overlap another
  and a new request arrive during a wind-down. Every deadline is larger than
  zero and at least two of them differ, so that each order of expiry occurs.
  Both values of each setting that changes the control flow are in. Checked:
  the counter is exact (`CountExact`), the task implements `ConnLease`
  (`LeaseSpec`), every `graceful_shutdown` has one of the four reasons
  (`WindDownHasReason`), and four liveness properties say that a silent, an
  idle, an answered and a drained connection is let go.
* **serve** With cap 1 and two listeners the loops compete for the only slot;
  with cap 2 both park and connections wait. Two connections let one hold what
  the other needs (slot, handshake permit). `BudgetKept`
  (`PermitsExact` and `CapRespected`), `ReturnedMeansDrained`, `HandshakeBounded`;
  `ShutdownReturns`, and
  `BacklogServed` for caps that leave every listener a slot to accept with. A timeout
  of two ticks lets the permit of the handshake budget come one tick after the queueing
  began: a deadline that starts over there (the mutant) ends one tick too late.
* **sharded_central** Three connections on two workers is the least in which one
  worker gets two and a failing worker has something queued. `SlotsExact`,
  `HandedOnFairly` (`SurvivorsServe` and `Balanced`), `ReturnMeansStopped`,
  `ShutdownReturns`.
* **shared**, the Unix socket. Three instances: one that crashed, one that serves, one that
  starts. `ServingIsReachable`, `NoStartBlocked`, and `UnlinksOnlyOwn`: a node is
  removed by whom it belongs to, and a return leaves none of one's own. `Backlog`
  exceeds what clients and probes can fill;
  `unix_saturated` removes that margin.
* **application**, dispatch. Every shape of overlap of two segments is in: static beside
  parameter beside wildcard at both depths, two wildcards at one node, guards,
  explicit HEAD and OPTIONS. Three routes are a dead end, another dead end, and
  a route that serves. Paths include the root, a segment with an encoded
  separator, one that does not decode, one too deep, an alias (under the strict
  policy) and `*`. `BestServes` compares the search and its captures with a
  reference; `AllowIsHonest` compares a 405 and an OPTIONS with what would be
  served.
* **shared**, the rate limiter. A table of two and three keys forces evictions; two requests
  give out-of-order readings; five ticks exceed the tolerance plus two emission
  intervals minus one. `TableKept` (the table is bounded, and so is every debt in it) and
  `RateConforms`. `MaxClock` bounds the clock, nothing else is cut. The instance uses
  the same three model values for keys and for servers of the socket, which never meet.
* **application**, sessions. Two requests over three identifiers: one presented, one
  minted by each. A request may be repeated any number of times while new
  identifiers remain. `NoElevation` (no identifier gains a login it was not minted
  with, none that a visitor chose becomes a record) and `WithdrawnAlone`.
* **components** One property per component, two for the pipeline:
  * `IdleBoundExact` (`WebSocket`): a period of 3, a clock to 8, so that a reaper
    looks twice and a frame comes between; period 0 is in.
  * `QuicBudgetsExact` (`Http3`): two peers; caps 1 and 2, one handshake permit, so
    that one waits with a slot for the other; 0 (no limit) for each in turn.
  * `WholeOrRefused` (`Http3Request`): a cap of 2, a peer that sends up to 3, every
    declared length, deadlines on and off, answers of up to two pieces that may fail
    or panic at each. A panic is excluded: see below.
  * `StreamedAsBuffered` (`Multipart`): a preamble, padding, two parts, whose
    contents are each of the lines that look like a delimiter; every chunking into
    pieces of 1 to 3; fields read and skipped.
  * `BodyWholeOrRefused` (`RequestBody`): a server cap of 3, route caps below and
    above it and chained, bodies of up to 4, every way of cutting them.
  * `HandledOnce` (`TowerBridge`): two tasks and two nested adapters, the least in
    which one adapter's task is inside another one. No call is handled twice, no error
    of a layer leaves the outermost adapter, every request that is not dropped has an
    answer, its own unless a layer crossed two calls, and of a length that is known if
    it was known where the answer was made.
  * `PrincipalEarned` (`Auth`): one or two of five plugins, so that schemes and
    principal types agree and differ in all combinations; a scheme's word in the two
    spellings the code knows, and in a third, of which `auth_scheme` speaks.
  * `LoginsEnd` (`CookieSessions`): two requests in flight, deadlines of 2 and 3, a
    clock to 3: a login past its deadline with a visit that is not, and both.
  * `GivesUpForCause` (`RedisConnection`): three commands, three connections: one
    command empties what a second has just put there, while a third shares it.
  * `RedirectsLeakNothing` (`Client`): two hosts and both schemes, two redirects:
    out and back. A bound of 1 on a body of up to 2, under none, one or two codings
    (`ClMaxCodings`), each of which the client can undo or not; what it makes of two is
    excluded, and is what `client_stack` speaks of.
  * `CopyIsOne` (`Download`): three versions, of which two differ in time only and
    one is shorter; clients that take, refuse and do not mention a coding.
  * `CacheServesRight`, `AnswersDressed` (`Pipeline`): four orders of installation
    with gates at three places, scopes with one and two layers, every origin a
    policy tells apart, and each refusal.
  * `DocumentHonest` (`ApiDocument`): three routes of four, two of which the OpenAPI
    template cannot tell apart. What is offered is served; what was registered before
    the document last looked is offered; the drift is exactly the difference between
    what it knows and what is described.
  * `StartsWhole` (`Startup`): one and two addresses, one of them taken or not
    parsing, a good and a bad certificate, the `tls` feature on and off, a file and
    an environment that count and that do not.

  Commands and cookie requests are interchangeable, and every property of the run
  is an invariant: `Symmetry`. Each component starts over from rest when it has
  ended, or has nothing left to do, which is why deadlock is not looked for.

## Fairness

Only what the code or its runtime guarantees is assumed.

* `Connection`: time passes; tokio polls a woken task and fires an elapsed timer
  (`WF(Loop)`); a spawned stream task is polled and a started drop runs to its
  end; hyper closes what has nothing left to serve and acts on its own
  deadlines. Nothing is assumed of the peer, of handlers or of bodies. The
  liveness properties therefore speak of connections on which requests *have*
  ended; with `header_read_timeout_ms = 0` the last one is not claimed, because
  then a peer that stops answering pings is noticed by nobody.
* `Serve`: a loop that can stop, wake up or return does; time passes and a due
  handshake deadline fires; a request ends (`request_timeout_ms`, and a body that is read); a
  connection the drain asked to finish is let go, which is what the liveness
  properties of `Connection` establish; a socket task sees the signal.
  `BacklogServed` additionally assumes that clients leave and that tokio's
  semaphore, which is first come first served, gives every waiting loop a turn
  (strong fairness of the acquisition); both are its hypothesis, not part of
  `FairSpec`.
* `ShardedCentral`: threads run, connections end.

The other modules have no liveness property. What must happen in them, and at the
end of a handshake in `Serve`, is bounded
instead: the clock does not pass a deadline whose owner has not acted
(`IdleBoundExact`, `QuicBudgetsExact`, `HandshakeBounded`), so that "eventually" is "by
then", which needs no fairness.

## Proofs

TLAPS checks every theorem of the seven modules that have them, and the lemmas of
`Counting`, without exception. Every invariant that a passing run checks is proved, and
so are the action properties `UnlinksOnlyOwn` and `WindDownHasReason` and the
refinement `LeaseSpec`; what is left to TLC is named at the end of this section. Under each property is an inductive
invariant, proved to be one: what it says beyond the property is why the property
holds.

The assumptions are those on the constants, named where they are declared. They are
what a program has anyway: finite sets of connections, listeners and peers, sizes
and times that are natural numbers, `max_keys` at least 1, a positive linger and idle
default, names of absence (`NoId`, `NoTask`, `NoPeer`, `NoAnswer`, the method of
`NoRoute`) that name nothing else, requests and routes of the types the code gives them
(`Asking`, `Routing`; a route's keys for parameters and wildcards are no text that a
segment may have, as they are separate fields of `Node`), bodies that are sequences,
stacks of plugins and chains of layers that are sequences (`AuStacks`, `PipeInputs`),
versions of a file that were written in different seconds (`Distinct`, the resolution
of `Last-Modified`).

* **Connection_proofs.** `IInv` is `TypeOK`, `CountExact`, and two facts that
  make the rest inductive: the `Negotiated` flag is raised exactly when hyper has
  chosen a protocol (`FlagTellsPhase`), and the linger is armed only by winding
  down (`LingerAsked`). The first is what excludes a wind-down of a negotiated
  connection by the negotiation deadline, the second what lets `LoopLinger` be a
  `Release` of the lease. From it: `CounterIsExact`, `LeaseKept` (the refinement of
  `ConnLease`, one case per action: a step or a stutter), `WindDownJustified`.
* **Serve_proofs.** `IInv` is `TypeOK`, `GuardsMatch` (who holds a clone of the
  guard follows from where the connection is), `PermitsExact`, `ReturnedMeansDrained`,
  and `TimersMatch`. `GuardsMatch` is what makes the permit equation
  inductive: the last clone can be recognised. `TimersMatch` says that what a timer has
  lost its connection has waited, so that a wait ends when the timer does. From it:
  `BudgetIsKept`, `DrainIsComplete`, `HandshakesAreBounded`.
* **RateLimit**, in `Components_proofs`. `RlIInv` adds `ReadingsPast` (no reading is ahead of the
  clock) and `WindowCharged` (the schedule of a key has been charged for every
  admission of its window) to the three bounds. `WindowCharged` carries the rate:
  an admission requires `now >= tat - tolerance`, and `tat` is at least the start
  of the window plus its cost. From it: `RateIsKept` and `TableIsKept`, for every
  order of clock readings.
* **ShardedCentral_proofs.** A slot is counted by where its connection is, so the
  invariant must say that a connection is in one place: `QueuesExact` (queues are
  disjoint, hold nothing twice, and hold exactly what is "queued"), `WorkersHold`
  (what is live is with a thread that runs, a thread that drains has no queue) and
  `MainFollows` (the caller joins the accept loops first). Fairness of the turns is
  `TurnsCount`: the lead of worker `v` over a later worker `w` *is* the number of
  loops whose next turn lies between the two, hence at most the number of loops;
  `CountingOn` (remainders) carries it over the wrap-around. From them:
  `SlotsAreExact`, `HandOffIsFair`, `ReturnedMeansStopped`.
* **UnixSocket_proofs.** Two hypotheses, and both are needed: `Serialised`, that
  instances start one at a time, and `Roomy`, that a queue has room for all clients
  and probes. `unix_saturated` is the violation without the second. `IInv` says what
  a start may rely on between its system calls (`StartOwns`: a node about to be
  removed belongs to nobody who listens, at `bind` the path is free), that the
  remembered identity is the node's own (`Remembers`), and that nobody else is
  starting (`OneStarts`). From it: `ServingStaysReachable`, `StartsAreNotBlocked`,
  and the action property `OnlyOwnIsUnlinked`.
* **RedisSessions**, in `Components_proofs`. An identifier moves from a request's `arrived` to its
  `sid` to its `target`, by commands that may be executed twice or not at all.
  `AtItsStage` says which of the three it is in at which stage, `Carries` that what
  a request is about to store is never more than the identifier was minted as,
  `StillToIssue` that nobody presents an identifier before its cookie was sent, and
  `NobodyHas` that no request is left that could write a withdrawn session back,
  unless one raced the withdrawal. From them: `NothingIsElevated`,
  `WithdrawalsStick`.
* **Dispatch_proofs.** The state is simple and a step is not: `DpIInv` is `TypeOK`,
  `TrieOK` (a wildcard ends its pattern, and routes through one parameter edge agree on
  its name: what the assertions of `Router::add` leave behind) and `AnswerKept` (an answer
  is `Respond` of its request, and stays it). What remains is that the two walks find
  what a reference without a search names, for every trie and every path:
  * Each walk solves its recursive equation (`MatchingUnfolds`, `WildcardUnfolds`, from
    `Recursion`: a step looks at spots with fewer segments left only).
  * A spot that a search of a path can be at is one that `Tracks` the path: the node
    fits its first segments, and the captures are those of *every* route through the
    node. The second half needs `WellNamed`; it is what says that no capture of another
    branch is there.
  * By induction on the segments left (`SmallestFirst`), a walk at such a spot satisfies
    `Verdict`: it serves the best of the routes below the node that match, with the
    captures of that route's own pattern; or it finds none, gives the captures back as
    it got them, and what it says about methods is true of routes below the node
    (`MatchingVerdict`, `WildcardVerdict`). `StaticVerdict` and `ParamVerdict` carry it
    through the two branches, `OwnVerdict` through a node's own wildcard.
  * That static before parameter before wildcard *is* the order of preference is
    `StaticBeforeParam`, `DeeperBeforeOwn` and `PickIs`, from the reference said in
    terms of keys (`MatchIs`, `PreferredIs`, `FirstDifference`).
  * `RouteIs` puts the two walks together; `LookingIs` adds HEAD, OPTIONS and the
    refusals of `App::dispatch`; `OfferedIsTold` relates the methods a 405 names to
    those an OPTIONS names.

  From them: `BestAlwaysServes` and `AllowAlwaysHonest`.
* **Multipart_proofs.** The buffered parser is a sequence of delimiter lines
  (`LinesAre`) that ends with a closing one (`TakenIs`). `MpIInv` says where in it the
  incremental parser is, for a body that the buffered one takes (`Follows`): the line it
  looks for is the next one *from wherever its search resumes*, the parts it handed out
  are those of the lines so far, and the content of the part it reads is what lies
  between that part's head and the start of the buffer. Three things keep it true over
  every cutting into chunks: what `delimiter_tail` decides before the end of the body is
  what the whole body decides (`TailStable`), a search that resumes past content or past
  a false delimiter passes over no line (`FollowsFalse`, `FollowsEmit`), and what is held
  back is long enough for any delimiter that is still incomplete (`Hold`). From it:
  `StreamedIsBuffered`.
* **Components_proofs.** `RateLimit`, `RedisSessions` and the components of
  `MCComponents`, each under the specification of its own steps (`RlSpec`, `WsSpec`,
  `H3Spec`, ...): a step of the run `components` is a step of one of them that leaves
  the others alone, or starts one over at its `Init`.
  * `IdleBound`: the timer is never later than one period after the last frame the
    reaper knows of (`WsTimed`), and the clock does not pass the timer.
  * `QuicBudgets`: `H3Placed`, with `Lands` for the counting: one connection moves
    from one place to another and the permits follow.
  * `H3WholeOrRefused`: the body is within the cap at every chunk, and the end of the
    stream is set by the last step only (`H3rOnTheWay`).
  * `BodiesWholeOrRefused`: what is left of `Limited`'s allowance is the cap less what
    was sent, and what a stream handed on is all it has seen until it fails
    (`UpCounted`).
  * `CookieLoginsEnd`: `CkTrue` relates the timestamps that a cookie carries to the
    history: a login's is exact, a visit's never later than a visit that happened.
  * `RedisGivesUpForCause`: before a second attempt a command has met exactly one
    broken socket, which is neither cached nor asked again (`RcSound`); a socket that
    is not shared yet is known to its dialler only (`RcApart`).
  * `StartsAreWhole`: until everything is bound nothing runs, with the one exception
    of `SO_REUSEPORT`; the failure of a single accept loop is the start's (`StSound`).
  * `RedirectsKeepSecrets`: either the credentials are dropped for good, or every
    address so far, and the one ahead, has the first one's origin (`ClChain`,
    `ClAhead`); a body that is still being read is under the codings its headers name
    (`ClDescribed`), and of these one at most is undone.
  * `PrincipalsAreEarned`: of the plugins whose turn has been, the last of each type
    that accepts the header, in a spelling the code knows, is the one whose principal is
    in the call (`AuLatest`).
  * `HandledAtMostOnce`: a call is in one place, a slot or a pipeline (`InOnePlace`),
    and in none before it came or after it was handled (`NotYet`).
  * `CachesServeRight`, `AnswersLeaveDressed`: every layer leaves its mark on what
    passes it and keeps the marks of those within it (`AfterKeeps`, one lemma per
    layer), whatever order `build` sorted them into; `NegotiatedIsAccepted` says of
    every `Accept-Encoding` that the coding agreed on was not refused by it.
  * `CopiesAreOne`: what the client holds is of one version in one coding, with that
    version's validators (`Kept`), it asks by these only (`Asks`), and an answer says
    about the version of its `stat` what that version is (`About`).
  * `DocumentsAreHonest`: what is listed was registered, and *is* what `known` says
    (`ApListing`, from `RankIsOwn`: counting through the new routes leaves none out);
    of routes with one template and method the last one is in the document.
* **Counting** has what several of these cite and the library does not: sets that
  differ in one element, the least element of a set of numbers, the greatest value of
  a finite function, the i-th element of a set of positions, remainders; and, for
  recursive definitions, that an iteration is defined (`Iterated`), that what holds of
  `x` once it holds of everything smaller holds everywhere (`SmallestFirst`), and that a
  definition whose value depends on smaller arguments has a solution (`Recursion`). The
  library states these with an operator as a parameter, which the provers cannot
  instantiate; here they speak of sets and functions, so that they can be cited.

`TypeOK` of `Connection`, `Serve`, `RateLimit`, `ShardedCentral`, `UnixSocket`,
`RedisSessions` and `Dispatch` is a conjunct of the inductive invariant of each, and in
the runs of the last four one of `SlotsExact`, `NoStartBlocked`, `NoElevation` and
`BestServes`. The typing of the components of `MCComponents` is proved with their
invariants (`WsTyped`, `H3Typed`, ...) and is not a property of the run.

Model-checked only:

* all liveness properties: TLAPS has no rule for fairness;
* the six runs that end in a counterexample, which are about what does not hold.

The sort of `build` (`Pipeline`) and the list of `from_routes` (`ApiDocument`) are
written by counting and not by a fold, which the provers cannot unfold; that they are what the loop
computes was compared with the fold on all lists of up to five.

## What the models disagree with

Each of these is a run that TLC finds violated; `PROJECT.json` quotes the lines.

1. **`serve_sharded` with `SO_REUSEPORT` and a cap** (`serve_reuseport`). The cap
   is divided by the number of workers, as the comment announces, but the result
   seeds one semaphore that all workers share. With a cap of 2 and two workers
   there is one permit: a worker parks in `accept` with it, and the connections
   the kernel gives the other are never served.
2. **A saturated Unix socket is taken over** (`unix_saturated`). `unlink_if_stale`
   takes every failed `connect` for a dead server, but a live one whose queue is
   full refuses too. Its node is removed and a second instance binds the path.
3. **A logout does not stick against a concurrent request** (`sessions_revival`).
   A request that loaded the session before the logout writes the record back.
   `WithdrawnAlone`, in the passing run, shows that this is the only way.
4. **`Allow` of a 405 may be incomplete** (`dispatch_allow`). Two sibling branches
   that both end in wildcards overwrite each other's methods.
5. **The scheme's word is not matched in any case** (`auth_scheme`). The documentation
   of the bearer, the basic and the JWT plugin says that it is; the code compares with
   two spellings of each, so `BEARER` with a good token is turned away.
6. **A body under two codings loses the header of both** (`client_stack`).
   `maybe_decompress` undoes the first coding that `Content-Encoding` lists, once, and
   removes the header: after `gzip, gzip` the caller reads gzip under no coding. (After
   `gzip, br` it fails, as the outermost coding is not the one it undoes.)

Seen while modelling, without a run of its own:

* A wildcard keeps the name it was first registered with, so `POST /f/{b...}`
  after `GET /f/{a...}` captures under `a`; parameters panic in that case.
  Likewise `walk_wildcard` forgets a capture when a deeper, abandoned branch uses
  the same name. `BestServes` compares captures under the hypothesis `WellNamed`.
  `Router::add` asserts one name per parameter node (`router.rs:302`), and none per
  wildcard.
* Two instances started on one Unix path at the same moment may each remove the
  other's node (set `Serialised = FALSE`). No document promises otherwise, and the
  properties of the run speak of instances that start one at a time.
* A panic in the stream that makes an HTTP/3 answer (`http3.rs:874`) drops the send
  stream without a reset, and quinn finishes what is dropped: the peer takes the part
  for the whole. The comment there describes the same of an error, for which the code
  resets. `WholeOrRefused` excludes the panic.
* `churust-compression/src/lib.rs:312` says that an explicit coding always beats `*`;
  `negotiate` takes the higher quality, so with its example `gzip;q=0.5, *` it chooses another
  coding than gzip if it has one.
* `OpenApi::stale` is documented as "a documented endpoint that answers `404`"; a
  described HEAD or OPTIONS is in it too, since these are never listed, and is served. Routes
  registered after `from_routes`, and the mount's own, are served and in neither the
  document nor the drift. Derived operation ids may coincide (`lib.rs:521`).
* `serve_many` with fewer slots than addresses starves a listener.
* Under `SO_REUSEPORT`, addresses are bound and their workers spawned in one loop
  (`engine.rs:1122`). A second address that cannot be bound returns the error when
  workers of the first already accept, until the dropped `stop` sender ends them; the
  doc comment says "Binding happens before any worker starts, so a failure leaves
  nothing half-serving" (`engine.rs:1045`). Those workers also drop what their
  accept loop returns (`let _ = serve_listener`), so a certificate that does not load
  leaves a process that serves nothing and says nothing; under `serve_many` it is
  reported, after the shutdown. `StartsWhole` is stated around the first two.
* `config.rs:199` says of the `[tls]` table that without the feature "the paths are
  ignored"; every entry point refuses to start instead, as `StartsWhole` demands.
* `AltSvc` is "present on error responses too" (`app.rs:1382`): on those of the router
  and of layers within it, not on the engine's refusals, a panic's or a timeout's
  answer, which no layer sees. The same is true of a request id.
* The two multipart parsers disagree on bodies the buffered one refuses, such as one
  cut short after a complete part: the incremental one has already handed that part
  out. `StreamedAsBuffered` speaks of the bodies the buffered one takes.
* A HEAD whose answer the JSON errors rewrite has no length left, so compression
  leaves it alone where it would encode the GET's.
* An HTTP/3 request task outlives its connection and its permit, so the number of
  requests in work is not bounded by the ceiling on connections.
* A login written into a session by hand has no time of login and therefore no login
  deadline; `LoginsEnd` speaks of logins through `Identity`.
* `GET /f/{p}` and `GET /f/{p...}` are one path of an OpenAPI document; the one listed
  later replaces the other, where "every route becomes an operation" is the promise.
* Of two `max_body_bytes` chained on one route the first one counts, not the last.
* `tower.rs:29` says of a method that a layer rewrites that "routing has already
  happened"; a layer around the application is called before the router is.
* A file replaced between the stat and the open of one request is sent under the
  validators of its predecessor (`fs.rs:318`); `CopyIsOne` excludes that case.

## What is not modelled

* Byte-level work: HTTP parsing (hyper, h3), TLS records (rustls), percent-decoding,
  header formatting, signatures of cookies and JWTs, JSON, compression codecs. The
  one exception is the search for multipart delimiters, which is the code's own.
* The kernel beyond a listening socket's queue; the accept errors of an operating
  system are one action that fails.
* An HTTP/2 stream that hyper has spawned but not polled yet: its request is not
  counted (`engine.rs:1815`), and whether a wind-down can fall in between is hyper's.
* Delayed execution of a Redis command after its request gave it up
  (`churust-redis/src/lib.rs:314`).
* `period / limit` of a rate limit truncates (`churust-ratelimit/src/lib.rs:202`):
  the model takes the emission interval as given and positive.
* A Unix path deleted between the two system calls of one's own removal.
* Rate-limit keys: the choice of the key of a request and collisions of digests
  (two keys that collide are one key).
* WebSocket messages: size limits are handed to tungstenite.
* Multipart: the limit on one field's bytes, the content type of a part.
* Extracting path and query, the parsing of `churust.toml`, the settings other than
  an address, a certificate and a number, which are layered like them.
* OpenAPI schemas, parameters and operation ids; the lists a CORS preflight echoes;
  the values of the security headers; what is logged.
* The client's connection pool, which is hyper's.
* Application state (a type map that is fixed before the start), templates (a
  third-party engine), macros (compile time), the test client, the facade crate and
  the experimental plugins: nothing in them changes state after the start, or they
  are support for tests.

## Plan

What would add most, in order:

1. `Budget` and `Drain` as abstract modules that `Serve`, `ShardedCentral` and `Http3`
   are shown to implement, and `WebSocket` as the implementation of the guard holder
   that `Serve` assumes.
2. Delayed commands in `RedisSessions`, composed with `RedisConnection`.
3. `Dispatch` as the innermost layer of `Pipeline`, in place of a choice of answers.
