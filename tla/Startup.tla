-------------------------------- MODULE Startup --------------------------------
(***************************************************************************)
(* From the settings to the first accept: the layers a configuration is put *)
(* together from, the addresses it names, and the ways into the engine --   *)
(* start, start_on, start_unix, run_sharded -- each of which binds, loads   *)
(* the certificate, starts its threads and its accept loops in an order of  *)
(* its own, with every one of these steps able to fail.                     *)
(*                                                                         *)
(* What a loop does once it accepts is Serve, ShardedCentral or UnixSocket; *)
(* here it accepts until it is told to stop.  The settings stand for all of *)
(* theirs: an address in two parts, a certificate, and a number.            *)
(***************************************************************************)
EXTENDS Naturals, Sequences, TLC

CONSTANTS
  StFiles,   \* churust.toml: [readable, says], where says gives some settings
  StEnvs,    \* CHURUST_*: [says, junk], where junk are the keys that do not parse
  StCalls,   \* what the setters of a builder say, in code
  StBinds,   \* what bind adds: addresses
  StTaken,   \* the addresses others listen on, a set of sets
  StWorkers, \* run_sharded(workers)
  StMaxCalls \* bound on the calls of a builder

\* Default for ServerSection, ServerConfig.
Defaults == [host |-> "local", port |-> 1, cap |-> 9, tls |-> "none"]

\* at: how far the start is; shape: which function of the engine serves; loops:
\* what each accept loop is doing; took: some loop has accepted; taken and cert
\* are the machine's.
BootRest == [at |-> "rest", cfg |-> Defaults, binds |-> <<>>, calls |-> 0, feature |-> TRUE,
             taken |-> {}, cert |-> "good", shape |-> "none", workers |-> 1, addrs |-> <<>>,
             bound |-> <<>>, loops |-> <<>>, took |-> FALSE, err |-> FALSE]

VARIABLE boot

StInit == boot = BootRest
StAtRest == boot.at = "rest"

-----------------------------------------------------------------------------
(* Config::load, and the builder's setters.                                 *)

\* apply_env: a value that does not parse changes nothing.
Parsed(env) == [k \in DOMAIN env.says \ env.junk |-> env.says[k]]

\* A file that is missing or malformed counts for nothing.
Load(file, env) ==
  Parsed(env) @@ (IF file.readable THEN file.says @@ Defaults ELSE Defaults)

Server(feature, taken, cert) ==
  /\ boot.at = "rest"
  /\ boot' = [boot EXCEPT !.at = "building", !.feature = feature, !.taken = taken, !.cert = cert]

Says == boot.at = "building" /\ boot.calls < StMaxCalls

\* It overwrites every setting, whoever made it.
WithConfig(file, env) ==
  /\ Says
  /\ boot' = [boot EXCEPT !.calls = @ + 1, !.cfg = Load(file, env)]

SetInCode(layer) ==
  /\ Says
  /\ boot' = [boot EXCEPT !.calls = @ + 1, !.cfg = layer @@ @]

AddBind(addr) ==
  /\ Says
  /\ boot' = [boot EXCEPT !.calls = @ + 1, !.binds = Append(@, addr)]

-----------------------------------------------------------------------------
(* The entry points, up to the first bind.                                  *)

\* The configured address first, then those of bind.
BindAddrs == <<[host |-> boot.cfg.host, port |-> boot.cfg.port]>> \o boot.binds
Parses(addr) == addr.host # "bad"

TlsConfigured == boot.cfg.tls # "none"

\* refuse_tls_without_the_feature; a Unix socket carries no TLS at all.
RefuseTls(shape) == TlsConfigured /\ (shape = "unix" \/ ~boot.feature)

Refused == [boot EXCEPT !.at = "refused", !.err = TRUE]

Enter(shape, workers, addrs, bound) ==
  /\ boot.at = "building"
  /\ boot' = IF RefuseTls(shape) \/ \E k \in DOMAIN addrs : ~Parses(addrs[k])
               THEN [Refused EXCEPT !.shape = shape]
               ELSE [boot EXCEPT !.at = "starting", !.shape = shape, !.workers = workers,
                                 !.addrs = addrs, !.bound = bound, !.binds = <<>>, !.calls = 0]

\* start_with_shutdown: serve, or serve_many.
StartTcp ==
  LET addrs == BindAddrs
  IN Enter(IF Len(addrs) = 1 THEN "one" ELSE "many", 1, addrs, <<>>)

HandedOver == [host |-> "given", port |-> 0]
StartOn == Enter("given", 1, <<HandedOver>>, <<HandedOver>>)

StartUnix == Enter("unix", 1, <<[host |-> "path", port |-> 0]>>, <<>>)

\* serve_sharded: a cap too small to divide goes to the central acceptor.
RunSharded(workers, linux) ==
  LET divides == boot.cfg.cap = 0 \/ boot.cfg.cap >= workers
  IN Enter(IF linux /\ divides THEN "reuseport" ELSE "central", workers, BindAddrs, <<>>)

-----------------------------------------------------------------------------
(* Binding, the certificate, the threads.                                   *)

\* Only SO_REUSEPORT lets one's own second socket in beside the first.
Occupied ==
  boot.taken \cup (IF boot.shape = "reuseport" THEN {}
                   ELSE {boot.bound[k] : k \in DOMAIN boot.bound})

\* bind_tcp, bind_tcp_std, reuseport_listeners.
Binds(addr) == addr \notin Occupied

Spawned(n) == [k \in 1..n |-> "spawned"]

\* serve_sharded_reuseport spawns the workers of an address once it is bound.
BindNext ==
  /\ boot.at = "starting" /\ Len(boot.bound) < Len(boot.addrs)
  /\ LET addr == boot.addrs[Len(boot.bound) + 1]
     IN boot' = IF ~Binds(addr) THEN Refused
                ELSE [boot EXCEPT !.bound = Append(@, addr),
                       !.loops = IF boot.shape = "reuseport" THEN @ \o Spawned(boot.workers) ELSE @]

\* Mutant: an accept loop starts as soon as there is a socket for it.
Ready_first == boot.bound # <<>>

Ready == Len(boot.bound) = Len(boot.addrs)

Unloadable == TlsConfigured /\ boot.cert = "bad"

\* The central acceptor loads the certificate before it starts a thread; the
\* others leave that to their accept loops.
Launch ==
  /\ boot.at = "starting" /\ Ready
  /\ boot' = IF boot.shape = "central" /\ Unloadable THEN Refused
             ELSE [boot EXCEPT !.at = "serving",
                     !.loops = IF boot.shape = "reuseport" THEN @ ELSE Spawned(Len(boot.addrs))]

Sharded == boot.shape \in {"central", "reuseport"}

\* A thread, or the runtime of the calling one, cannot be had.
ThreadFails ==
  /\ boot.at = "starting" /\ Sharded /\ boot.bound # <<>>
  /\ boot.shape = "central" => Ready
  /\ boot' = Refused

-----------------------------------------------------------------------------
(* The accept loops.                                                        *)

LoopAt(k, state) == boot.loops[k] = state
LoopTo(k, state) == [boot EXCEPT !.loops[k] = state]

\* serve_listener, up to its loop.  serve and serve_on return its error; for
\* serve_many it is the result of a task, and a reuseport worker drops it.
LoopStarts(k) ==
  /\ LoopAt(k, "spawned")
  /\ boot' = IF boot.shape \in {"central", "unix"} \/ ~Unloadable
               THEN [LoopTo(k, "accepting") EXCEPT !.took = TRUE]
             ELSE IF boot.shape \in {"one", "given"}
               THEN [LoopTo(k, "failed") EXCEPT !.at = "refused", !.err = TRUE]
             ELSE LoopTo(k, "failed")

\* A worker without a runtime, a socket its reactor does not adopt.
LoopLost(k) == Sharded /\ LoopAt(k, "spawned") /\ boot' = LoopTo(k, "gone")

\* The caller's shutdown; or the sender of the signal is dropped with an error.
LoopStops(k) ==
  /\ LoopAt(k, "accepting") /\ boot.at \in {"stopping", "refused"}
  /\ boot' = LoopTo(k, "stopped")

ShutdownComes == boot.at = "serving" /\ boot' = [boot EXCEPT !.at = "stopping"]

AllEnded == \A k \in DOMAIN boot.loops : boot.loops[k] \in {"failed", "gone", "stopped"}

\* serve_many reports the first error of its tasks.
EngineReturns ==
  /\ boot.at = "stopping" /\ AllEnded
  /\ boot' = [boot EXCEPT !.at = "returned",
                 !.err = boot.shape = "many" /\ \E k \in DOMAIN boot.loops : LoopAt(k, "failed")]

StartForgotten == boot.at \in {"refused", "returned"} /\ AllEnded /\ boot' = BootRest

StNext ==
  \/ \E feature \in BOOLEAN, taken \in StTaken, cert \in {"good", "bad"} : Server(feature, taken, cert)
  \/ \E file \in StFiles, env \in StEnvs : WithConfig(file, env)
  \/ \E layer \in StCalls : SetInCode(layer)
  \/ \E addr \in StBinds : AddBind(addr)
  \/ StartTcp
  \/ StartOn
  \/ StartUnix
  \/ \E workers \in StWorkers, linux \in BOOLEAN : RunSharded(workers, linux)
  \/ BindNext
  \/ Launch
  \/ ThreadFails
  \/ \E k \in DOMAIN boot.loops : LoopStarts(k) \/ LoopLost(k) \/ LoopStops(k)
  \/ ShutdownComes
  \/ EngineReturns
  \/ StartForgotten

-----------------------------------------------------------------------------
(* Properties.                                                              *)

\* No server comes up on half its addresses: none accepts before all are bound,
\* a start that is refused has accepted nothing, and a listener that could not
\* load its certificate is reported by the time the engine returns -- except
\* under SO_REUSEPORT, which binds and spawns address by address and drops what
\* its workers return.  And whichever way in was taken, an application with a
\* certificate never accepts in cleartext, nor with a certificate it could not
\* load.
StartsWhole ==
  /\ boot.shape # "reuseport" =>
       /\ boot.took => Len(boot.bound) = Len(boot.addrs)
       /\ boot.at = "refused" => ~boot.took
       /\ boot.at = "returned" /\ ~boot.err => \A k \in DOMAIN boot.loops : ~LoopAt(k, "failed")
  /\ boot.took /\ TlsConfigured => boot.feature /\ boot.cert = "good" /\ boot.shape # "unix"
=============================================================================
