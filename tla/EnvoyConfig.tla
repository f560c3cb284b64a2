----------------------------- MODULE EnvoyConfig -----------------------------
(***************************************************************************)
(* The files that configure the Envoy proxies: EnvoyConfigGenerator        *)
(* (internal/worker/envoy_config.go) as prepareProxy (worker_pool.go)      *)
(* drives it, for every pool in proxy mode before any proxy is started,    *)
(* and again for one pool when its proxy is restarted.  Everything but     *)
(* Envoy itself happens in the supervisor's goroutine.                     *)
(***************************************************************************)
EXTENDS Sequences

CONSTANTS
  Pool,        \* the pools in proxy mode
  NoPool,      \* content that no pool has written
  Path         \* directories

\* What is assumed of the constants.
EnvoyConstants == NoPool \notin Pool

Kind == {"Cluster", "Listener", "Bootstrap"}

\* The order in which prepareProxy renders them.
Files == <<"Cluster", "Listener", "Bootstrap">>

Content == [of : Pool \cup {NoPool}, whole : BOOLEAN]

NoFile == [of |-> NoPool, whole |-> FALSE]

VARIABLES
  path,      \* ProxyPathPrefixOrDefault of each pool: nothing keeps two pools
             \* from having the same one, and the default is one for all
  dir,       \* the directories that exist
  file,      \* the files in each directory
  toPrepare, \* createAndPreparePools: the pools not yet prepared
  busy,      \* {p}: the goroutine is in prepareProxy of p
  render,    \* the files this call of prepareProxy has still to render
  run,       \* Supervisor.Run: create, up, or failed
  proxy,     \* each proxy: none, prepared, starting, up, down, lost
  loaded     \* what each proxy has read

envoyVars == <<path, dir, file, toPrepare, busy, render, run, proxy, loaded>>

EnvoyInit ==
  /\ path \in [Pool -> Path]
  /\ dir \in SUBSET Path
  /\ file = [d \in Path |-> [k \in Kind |-> NoFile]]
  /\ toPrepare = Pool
  /\ busy = {} /\ render = <<>>
  /\ run = "create"
  /\ proxy = [p \in Pool |-> "none"]
  /\ loaded = [p \in Pool |-> [k \in Kind |-> NoFile]]

-------------------------------------------------------------------------------

\* PrepareWorkers comes to its end, or RestartWorker begins: prepareProxy.
PrepareProxy(p) ==
  /\ busy = {}
  /\ \/ run = "create" /\ p \in toPrepare
     \/ run = "up" /\ proxy[p] = "down"
  /\ busy' = {p} /\ render' = Files
  /\ toPrepare' = toPrepare \ {p}
  /\ UNCHANGED <<path, dir, file, run, proxy, loaded>>

\* Mutant of Render: a file whose rendering fails is skipped.
RenderOrSkip(p) ==
  /\ busy = {p} /\ render # <<>>
  /\ \E written \in BOOLEAN :
       file' = [file EXCEPT ![path[p]][Head(render)] =
                  [of |-> p, whole |-> written]]
  /\ dir' = dir \cup {path[p]}
  /\ render' = Tail(render)
  /\ UNCHANGED <<path, toPrepare, busy, run, proxy, loaded>>

\* Render...: createEnvoyDir, OpenFile with O_TRUNC, Execute.
Render(p) ==
  /\ busy = {p} /\ render # <<>>
  /\ dir' = dir \cup {path[p]}
  /\ file' = [file EXCEPT ![path[p]][Head(render)] = [of |-> p, whole |-> TRUE]]
  /\ render' = Tail(render)
  /\ UNCHANGED <<path, toPrepare, busy, run, proxy, loaded>>

\* Mutant of RenderFails: the restart of a proxy is tried again while it fails.
RenderFailsAgain(p) ==
  /\ busy = {p} /\ render # <<>>
  /\ dir' = dir \cup {path[p]}
  /\ busy' = {} /\ render' = <<>>
  /\ run' = IF run = "create" THEN "failed" ELSE run
  /\ UNCHANGED <<path, file, toPrepare, proxy, loaded>>

(***************************************************************************)
(* Mkdir fails, OpenFile fails, or Execute fails behind a part of the      *)
(* file.  On creation Run returns the error; a proxy that was to be        *)
(* restarted is given up.                                                  *)
(***************************************************************************)
RenderFails(p) ==
  /\ busy = {p} /\ render # <<>>
  /\ \/ path[p] \notin dir /\ UNCHANGED <<dir, file>>
     \/ dir' = dir \cup {path[p]} /\ UNCHANGED file
     \/ /\ dir' = dir \cup {path[p]}
        /\ file' = [file EXCEPT ![path[p]][Head(render)] =
                      [of |-> p, whole |-> FALSE]]
  /\ busy' = {} /\ render' = <<>>
  /\ run' = IF run = "create" THEN "failed" ELSE run
  /\ proxy' = [proxy EXCEPT ![p] = IF run = "create" THEN @ ELSE "lost"]
  /\ UNCHANGED <<path, toPrepare, loaded>>

\* The worker for the proxy is made; on a restart it is also run.
ProxyPrepared(p) ==
  /\ busy = {p} /\ render = <<>>
  /\ busy' = {}
  /\ proxy' = [proxy EXCEPT ![p] = IF run = "create" THEN "prepared" ELSE "starting"]
  /\ UNCHANGED <<path, dir, file, toPrepare, render, run, loaded>>

\* RunAll of all pools, once all of them are prepared.
RunAll ==
  /\ run = "create" /\ toPrepare = {} /\ busy = {}
  /\ run' = "up"
  /\ proxy' = [p \in Pool |-> "starting"]
  /\ UNCHANGED <<path, dir, file, toPrepare, busy, render, loaded>>

\* Envoy reads the bootstrap file, which names the other two.
EnvoyLoads(p) ==
  /\ proxy[p] = "starting"
  /\ proxy' = [proxy EXCEPT ![p] = "up"]
  /\ loaded' = [loaded EXCEPT ![p] = file[path[p]]]
  /\ UNCHANGED <<path, dir, file, toPrepare, busy, render, run>>

EnvoyEnds(p) ==
  /\ proxy[p] \in {"starting", "up"}
  /\ proxy' = [proxy EXCEPT ![p] = "down"]
  /\ UNCHANGED <<path, dir, file, toPrepare, busy, render, run, loaded>>

\* Run has returned an error, or all proxies are lost.
Stuck ==
  /\ run = "failed" \/ \A p \in Pool : proxy[p] = "lost"
  /\ UNCHANGED envoyVars

EnvoyNext ==
  \/ \E p \in Pool :
       \/ PrepareProxy(p) \/ Render(p) \/ RenderFails(p) \/ ProxyPrepared(p)
       \/ EnvoyLoads(p) \/ EnvoyEnds(p)
  \/ RunAll
  \/ Stuck

EnvoySpec == EnvoyInit /\ [][EnvoyNext]_envoyVars

-------------------------------------------------------------------------------
\* Correctness.

\* Every variable has its type: the files on disk and the proxies.
EnvoyTypeOK ==
  /\ path \in [Pool -> Path]
  /\ dir \in SUBSET Path
  /\ file \in [Path -> [Kind -> Content]]
  /\ toPrepare \in SUBSET Pool
  /\ busy \in SUBSET Pool
  /\ render \in Seq(Kind)
  /\ run \in {"create", "up", "failed"}
  /\ proxy \in [Pool -> {"none", "prepared", "starting", "up", "down", "lost"}]
  /\ loaded \in [Pool -> [Kind -> Content]]

\* The three files of a pool, complete.
OwnFiles(p) == [k \in Kind |-> [of |-> p, whole |-> TRUE]]

\* No other pool in proxy mode has the directory of p.
Alone(p) == \A q \in Pool : path[q] = path[p] => q = p

\* A proxy that is up and whose pool has a directory to itself has read three
\* complete files of its own pool, whichever directories other pools share,
\* and also after rendering has failed for some pool and proxies were restarted.
OwnConfig ==
  \A p \in Pool : Alone(p) /\ proxy[p] = "up" => loaded[p] = OwnFiles(p)

\* README.md, of a pool in proxy mode: "Monoceros will configure an Envoy proxy
\* process that will load balance incoming requests among the workers".  A
\* proxy that is up has read the files of its own pool, also where the pools
\* leave proxy_config_path at its default.
OwnConfigAlways ==
  \A p \in Pool : proxy[p] = "up" => loaded[p] = OwnFiles(p)

\* A proxy that ended is started again or given up: the goroutine is not held
\* up by the files of another pool.
ProxyComesBack ==
  \A p \in Pool : proxy[p] = "down" ~> proxy[p] \in {"starting", "lost"}

===============================================================================
