-------------------------------- MODULE Config --------------------------------
(***************************************************************************)
(* The configuration of one worker pool on its way into the program: what  *)
(* LoadConf accepts (internal/config, internal/worker, internal/server,    *)
(* internal/admin), what NewWorkerPool and PrepareWorkers                  *)
(* (internal/worker/worker_pool.go) then do with it, and which values the  *)
(* ...OrDefault functions put in for the ones that are missing.            *)
(*                                                                         *)
(* Strings are classes: "" and "set" where only presence matters.  A       *)
(* template is ill-formed, well-formed but failing when it is executed (it *)
(* names a field other than Port), or fine.                                *)
(***************************************************************************)
EXTENDS Integers

CONSTANTS
  Ints         \* the integers tried in numeric fields

\* What is assumed of the constants.
ConfigConstants == Ints \subseteq Int

Text     == {"", "set"}
Template == {"", "illFormed", "failsToRun", "fine"}

\* load_balancer_algorithm: absent, empty, a supported name, one in lower case,
\* or another one.
LbName == {"nil", "", "ROUND_ROBIN", "LEAST_REQUEST", "RANDOM", "random", "MAGLEV"}

Supported == {"ROUND_ROBIN", "LEAST_REQUEST", "RANDOM"}

ToUpper(s) == IF s = "random" THEN "RANDOM" ELSE s

-------------------------------------------------------------------------------
\* server.ServerConfig.

\* Mutant of ServerIsValid: the value template is not looked at.
ServerIsValidAnyTemplate(s) ==
  /\ s.portArgName # ""
  /\ s.startPort > 0
  /\ s.lb # "nil" => ToUpper(s.lb) \in Supported
  /\ s.healthCheckPath # ""
  /\ s.adminPort >= 0

ServerIsValid(s) ==
  /\ s.portArgName # ""
  /\ s.startPort > 0
  /\ s.template \notin {"", "illFormed"}
  /\ s.lb # "nil" => ToUpper(s.lb) \in Supported
  /\ s.healthCheckPath # ""
  /\ s.adminPort >= 0

LoadBalancerAlgorithmOrDefault(s) ==
  IF s.lb \in {"nil", ""} THEN "ROUND_ROBIN" ELSE s.lb

ProxyListenerPortOrDefault(s) ==
  IF s.listenerPort <= 0 THEN 10000 ELSE s.listenerPort

-------------------------------------------------------------------------------
\* worker.WorkerConfig.  The server part is looked at only if there is one.

WorkerIsValid(w) ==
  /\ w.name # ""
  /\ w.replicas > 0
  /\ w.exec # ""
  /\ w.hasServer => ServerIsValid(w.server)

\* Seconds; both kinds of processes have the same default.
SignalTimeoutOrDefault(t) == IF t = 0 THEN 10 ELSE t

\* math.MaxInt, a number no worker reaches, is 2^30 here.
MaxRestartsOrDefault(w) == IF w.maxRestarts < 0 THEN 1073741824 ELSE w.maxRestarts

\* SupervisorConfig.IsValid and AdminConfig.IsValid, for this pool.
LoadConfAccepts(w, port) == port >= 0 /\ WorkerIsValid(w)

\* Why NewWorkerPool refuses a pool.
PoolErrors(w, found) ==
  {e \in {"executableNotFound"} : ~found} \cup
  {e \in {"replicas"} : w.replicas <= 0} \cup
  {e \in {"template"} : w.hasServer /\ w.server.template \in {"", "illFormed"}}

\* The pool as NewWorkerPool fills it in; the last three are part of sInfo and
\* mean nothing for a pool without a server.
NewPool(w) ==
  [maxRestarts   |-> MaxRestartsOrDefault(w),
   signalTimeout |-> SignalTimeoutOrDefault(w.signalTimeout),
   proxyTimeout  |-> SignalTimeoutOrDefault(w.server.signalTimeout),
   lb            |-> LoadBalancerAlgorithmOrDefault(w.server),
   listenerPort  |-> ProxyListenerPortOrDefault(w.server)]

\* getPortArgs: executing the template for a worker fails, and
\* prepareWorkerInternal panics.
PortArgsFail(w) == w.hasServer /\ w.server.template = "failsToRun"

-------------------------------------------------------------------------------
\* From the file to the pool.

VARIABLES
  config,      \* the pool's configuration
  adminPort,   \* the port of the admin server
  pool,        \* the pool, once it is made
  stage        \* read, rejected, accepted, noExecutable, refused, made,
               \* prepared, panicked

confVars == <<config, adminPort, pool, stage>>

Unmade == [maxRestarts |-> 0, signalTimeout |-> 0, proxyTimeout |-> 0, lb |-> "",
           listenerPort |-> 0]

\* A usable configuration, of which one part is changed at will: what the server
\* is judged by, its other numbers, or everything else with the template.
Base == [name |-> "set", replicas |-> 2, exec |-> "set", hasServer |-> TRUE,
         signalTimeout |-> 0, maxRestarts |-> 2,
         server |-> [portArgName |-> "set", startPort |-> 2, template |-> "fine",
                     lb |-> "nil", healthCheckPath |-> "set", adminPort |-> 2,
                     listenerPort |-> 0, signalTimeout |-> 0]]

ConfInit ==
  /\ \/ /\ \E n, h \in Text, sp \in Ints \cap Nat, tm \in Template, lb \in LbName,
              ap \in Ints, hs \in BOOLEAN :
             config = [Base EXCEPT !.server.portArgName = n, !.server.startPort = sp,
                                   !.server.template = tm, !.server.lb = lb,
                                   !.server.healthCheckPath = h,
                                   !.server.adminPort = ap, !.hasServer = hs]
        /\ adminPort = 0
     \/ /\ \E lp, t \in Ints :
             config = [Base EXCEPT !.server.listenerPort = lp,
                                   !.server.signalTimeout = t]
        /\ adminPort = 0
     \/ /\ \E n, e \in Text, r, t, m \in Ints, tm \in Template :
             config = [Base EXCEPT !.name = n, !.exec = e, !.replicas = r,
                                   !.signalTimeout = t, !.maxRestarts = m,
                                   !.server.template = tm]
        /\ adminPort \in {-1, 0}
  /\ pool = Unmade
  /\ stage = "read"

LoadConf ==
  /\ stage = "read"
  /\ stage' = IF LoadConfAccepts(config, adminPort) THEN "accepted" ELSE "rejected"
  /\ UNCHANGED <<config, adminPort, pool>>

\* The executable may or may not be found.
NewWorkerPool ==
  /\ stage = "accepted"
  /\ \E found \in BOOLEAN :
       IF PoolErrors(config, found) = {}
         THEN stage' = "made" /\ pool' = NewPool(config)
         ELSE /\ stage' = IF found THEN "refused" ELSE "noExecutable"
              /\ UNCHANGED pool
  /\ UNCHANGED <<config, adminPort>>

PrepareWorkers ==
  /\ stage = "made"
  /\ stage' = IF PortArgsFail(config) THEN "panicked" ELSE "prepared"
  /\ UNCHANGED <<config, adminPort, pool>>

ConfNext == LoadConf \/ NewWorkerPool \/ PrepareWorkers

ConfSpec == ConfInit /\ [][ConfNext]_confVars

-------------------------------------------------------------------------------
\* Correctness.

\* The two places that judge a configuration agree: what LoadConf (and
\* --validate) accepts, NewWorkerPool does not refuse, unless the executable
\* is missing.  That is less than main.go says behind --validate, "the config is
\* all correct": PrepareWorkers still panics on a template that only fails when
\* it is executed, and a negative signal timeout is taken as it is.
NotRefusedLater == stage # "refused"

===============================================================================
