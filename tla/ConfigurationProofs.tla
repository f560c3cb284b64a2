------------------------- MODULE ConfigurationProofs -------------------------
(***************************************************************************)
(* Theorems about what the program is configured with and what it          *)
(* configures: the way of a pool's configuration from the file into the    *)
(* pool (module Config), for all numbers in it, and the files of the       *)
(* proxies (module EnvoyConfig), for any number of pools, whichever of     *)
(* them share a directory.                                                 *)
(***************************************************************************)
EXTENDS Config, EnvoyConfig, TLAPS

-------------------------------------------------------------------------------
(***************************************************************************)
(* From the file to the pool.  What LoadConf has accepted is still there   *)
(* when NewWorkerPool judges it again.                                     *)
(***************************************************************************)
Numbers == config.replicas \in Int

Judged ==
  stage \in {"accepted", "made", "prepared", "panicked"} => WorkerIsValid(config)

ConfInv == Numbers /\ Judged /\ NotRefusedLater

\* Every configuration that is read has numbers where numbers belong.
LEMMA ConfInitInv == ConfigConstants /\ ConfInit => ConfInv
<1> SUFFICES ASSUME ConfigConstants, ConfInit PROVE ConfInv
  OBVIOUS
<1>1. Numbers
  <2>1. Base.replicas \in Int
    BY DEF Base
  <2>2. CASE \E n, h \in Text, sp \in Ints \cap Nat, tm \in Template, lb \in LbName,
               ap \in Ints, hs \in BOOLEAN :
               config = [Base EXCEPT !.server.portArgName = n, !.server.startPort = sp,
                                     !.server.template = tm, !.server.lb = lb,
                                     !.server.healthCheckPath = h,
                                     !.server.adminPort = ap, !.hasServer = hs]
    BY <2>1, <2>2 DEF Base, Numbers
  <2>3. CASE \E lp, t \in Ints :
               config = [Base EXCEPT !.server.listenerPort = lp,
                                     !.server.signalTimeout = t]
    BY <2>1, <2>3 DEF Base, Numbers
  <2>4. CASE \E n, e \in Text, r, t, m \in Ints, tm \in Template :
               config = [Base EXCEPT !.name = n, !.exec = e, !.replicas = r,
                                     !.signalTimeout = t, !.maxRestarts = m,
                                     !.server.template = tm]
    BY <2>4 DEF ConfigConstants, Base, Numbers
  <2> QED
    BY <2>2, <2>3, <2>4, Zenon DEF ConfInit
<1>2. stage = "read"
  BY DEF ConfInit
<1> QED
  BY <1>1, <1>2 DEF ConfInv, Judged, NotRefusedLater

\* NewWorkerPool finds nothing wrong with what LoadConf has accepted.
LEMMA JudgesAgree ==
  ASSUME NEW w, w.replicas \in Int, WorkerIsValid(w)
  PROVE  PoolErrors(w, TRUE) = {}
<1>1. w.replicas > 0
  BY Zenon DEF WorkerIsValid
<1>2. ~(w.replicas <= 0)
  BY <1>1
<1>3. ~(w.hasServer /\ w.server.template \in {"", "illFormed"})
  BY Zenon DEF WorkerIsValid, ServerIsValid
<1> QED
  BY <1>2, <1>3, Zenon DEF PoolErrors

\* LoadConf, NewWorkerPool and PrepareWorkers preserve the invariant.
LEMMA ConfNextInv == ConfInv /\ [ConfNext]_confVars => ConfInv'
<1> SUFFICES ASSUME ConfInv, [ConfNext]_confVars PROVE ConfInv'
  OBVIOUS
<1>1. config' = config
  BY DEF ConfNext, LoadConf, NewWorkerPool, PrepareWorkers, confVars
<1>2. Numbers'
  BY <1>1 DEF ConfInv, Numbers
<1>3. WorkerIsValid(config)' <=> WorkerIsValid(config)
  BY <1>1
<1>4. CASE LoadConf
  <2>1. /\ stage' \in {"accepted", "rejected"}
        /\ stage' = "accepted" => WorkerIsValid(config)
    BY <1>4 DEF LoadConf, LoadConfAccepts
  <2> QED
    BY <1>2, <1>3, <2>1 DEF ConfInv, Judged, NotRefusedLater
<1>5. CASE NewWorkerPool
  <2>1. WorkerIsValid(config)
    BY <1>5 DEF NewWorkerPool, ConfInv, Judged
  <2>2. PoolErrors(config, TRUE) = {}
    BY <2>1, JudgesAgree DEF ConfInv, Numbers
  <2>3. PICK found \in BOOLEAN :
          IF PoolErrors(config, found) = {}
            THEN stage' = "made" /\ pool' = NewPool(config)
            ELSE /\ stage' = IF found THEN "refused" ELSE "noExecutable"
                 /\ UNCHANGED pool
    BY <1>5, Zenon DEF NewWorkerPool
  <2>4. stage' \in {"made", "noExecutable"}
    <3>1. CASE found = TRUE
      BY <2>2, <2>3, <3>1, Zenon
    <3>2. CASE found = FALSE
      BY <2>3, <3>2, Zenon
    <3> QED
      BY <3>1, <3>2
  <2> QED
    BY <1>2, <1>3, <2>1, <2>4 DEF ConfInv, Judged, NotRefusedLater
<1>6. CASE PrepareWorkers
  <2>1. stage = "made" /\ stage' \in {"panicked", "prepared"}
    BY <1>6 DEF PrepareWorkers
  <2> QED
    BY <1>2, <1>3, <2>1 DEF ConfInv, Judged, NotRefusedLater
<1>7. CASE UNCHANGED confVars
  <2>1. stage' = stage
    BY <1>7 DEF confVars
  <2> QED
    BY <1>2, <1>3, <2>1 DEF ConfInv, Judged, NotRefusedLater
<1> QED
  BY <1>4, <1>5, <1>6, <1>7 DEF ConfNext

LEMMA ConfInvariant == ConfigConstants /\ ConfSpec => []ConfInv
BY ConfInitInv, ConfNextInv, PTL DEF ConfSpec

\* For every configuration, whatever its numbers: NewWorkerPool refuses nothing
\* that LoadConf (and --validate) has accepted, unless the executable is missing.
\* (PrepareWorkers may still panic on it.)
THEOREM AcceptedIsNotRefused == ConfigConstants /\ ConfSpec => []NotRefusedLater
<1>1. ConfInv => NotRefusedLater
  BY DEF ConfInv
<1> QED
  BY <1>1, ConfInvariant, PTL

-------------------------------------------------------------------------------
\* The files of the proxies.

\* A file written for p.
Own(p) == [of |-> p, whole |-> TRUE]

\* In a directory that p has to itself, the files K are its own.
Rendered(p, K) == Alone(p) => \A k \in K : file[path[p]][k] = Own(p)

\* How far the goroutine is in prepareProxy of p.
Rendering(p) ==
  \/ render = <<"Cluster", "Listener", "Bootstrap">>
  \/ render = <<"Listener", "Bootstrap">> /\ Rendered(p, {"Cluster"})
  \/ render = <<"Bootstrap">> /\ Rendered(p, {"Cluster", "Listener"})
  \/ render = <<>> /\ Rendered(p, Kind)

Shape ==
  /\ path \in [Pool -> Path]
  /\ file \in [Path -> [Kind -> Content]]
  /\ proxy \in [Pool -> {"none", "prepared", "starting", "up", "down", "lost"}]
  /\ loaded \in [Pool -> [Kind -> Content]]
  /\ busy \in SUBSET Pool

\* The files of a proxy that is yet to read them are complete, if no other pool
\* writes to its directory; the goroutine is in at most one prepareProxy, of a
\* proxy that does not run; and Run starts the proxies only when all of them are
\* prepared.
Prepared ==
  /\ \A p \in Pool : proxy[p] \in {"prepared", "starting"} => Rendered(p, Kind)
  /\ \A p \in busy : Rendering(p) /\ proxy[p] \in {"none", "down"} /\ busy = {p}
  /\ \A p \in busy : p \notin toPrepare
  /\ run = "create" =>
       \A p \in Pool : p \in toPrepare \/ p \in busy \/ proxy[p] = "prepared"
  /\ run = "create" => \A p \in Pool : proxy[p] \in {"none", "prepared"}
  /\ \A p \in toPrepare : run = "create" => proxy[p] = "none"

EnvoyInv == Shape /\ Prepared /\ OwnConfig

-------------------------------------------------------------------------------

\* The directories are configured once.
LEMMA AloneStays ==
  ASSUME path' = path, NEW p
  PROVE  Alone(p)' <=> Alone(p)
BY DEF Alone

LEMMA EnvoyInitInv == EnvoyConstants /\ EnvoyInit => EnvoyInv
<1> SUFFICES ASSUME EnvoyConstants, EnvoyInit PROVE EnvoyInv
  OBVIOUS
<1>1. NoFile \in Content
  BY DEF NoFile, Content
<1>2. Shape
  BY <1>1 DEF EnvoyInit, Shape
<1>3. Prepared /\ OwnConfig
  BY DEF EnvoyInit, Prepared, OwnConfig
<1> QED
  BY <1>2, <1>3 DEF EnvoyInv

LEMMA OwnContent ==
  ASSUME NEW p \in Pool
  PROVE  Own(p) \in Content
BY DEF Own, Content

\* What the sequence of files looks like from within.
LEMMA HeadsAndTails ==
  /\ Files = <<"Cluster", "Listener", "Bootstrap">>
  /\ Head(<<"Cluster", "Listener", "Bootstrap">>) = "Cluster"
  /\ Tail(<<"Cluster", "Listener", "Bootstrap">>) = <<"Listener", "Bootstrap">>
  /\ Head(<<"Listener", "Bootstrap">>) = "Listener"
  /\ Tail(<<"Listener", "Bootstrap">>) = <<"Bootstrap">>
  /\ Head(<<"Bootstrap">>) = "Bootstrap"
  /\ Tail(<<"Bootstrap">>) = <<>>
BY DEF Files

\* One more file: the others of the pool stay, the next one is its own.
LEMMA RenderNext ==
  ASSUME EnvoyConstants, EnvoyInv, NEW p \in Pool, p \in busy, render # <<>>,
         path' = path, file' = [file EXCEPT ![path[p]][Head(render)] = Own(p)],
         render' = Tail(render)
  PROVE  Rendering(p)' /\ file' \in [Path -> [Kind -> Content]]
<1> DEFINE d == path[p]
<1>1. /\ file \in [Path -> [Kind -> Content]] /\ d \in Path
      /\ Own(p) \in Content /\ Rendering(p)
  BY OwnContent DEF EnvoyInv, Shape, Prepared
<1>2. ASSUME NEW h \in Kind, Head(render) = h
      PROVE  /\ file' \in [Path -> [Kind -> Content]]
             /\ file'[d][h] = Own(p)
             /\ \A k \in Kind \ {h} : file'[d][k] = file[d][k]
  <2>1. file' = [file EXCEPT ![d] = [file[d] EXCEPT ![h] = Own(p)]]
    BY <1>2
  <2>2. file[d] \in [Kind -> Content]
    BY <1>1
  <2>3. [file[d] EXCEPT ![h] = Own(p)] \in [Kind -> Content]
    BY <1>1, <2>2
  <2>4. file'[d] = [file[d] EXCEPT ![h] = Own(p)]
    BY <1>1, <2>1
  <2> QED
    BY <1>1, <2>1, <2>2, <2>3, <2>4
<1> HIDE DEF d
<1>3. CASE render = <<"Cluster", "Listener", "Bootstrap">>
  BY <1>2, <1>3, HeadsAndTails, AloneStays DEF Rendering, Rendered, Kind, d
<1>4. CASE render = <<"Listener", "Bootstrap">> /\ Rendered(p, {"Cluster"})
  BY <1>2, <1>4, HeadsAndTails, AloneStays DEF Rendering, Rendered, Kind, d
<1>5. CASE render = <<"Bootstrap">> /\ Rendered(p, {"Cluster", "Listener"})
  BY <1>2, <1>5, HeadsAndTails, AloneStays DEF Rendering, Rendered, Kind, d
<1> QED
  BY <1>1, <1>3, <1>4, <1>5 DEF Rendering

\* Other pools do not write to the directory of a pool that has it to itself.
LEMMA OthersKeep ==
  ASSUME EnvoyInv, NEW p \in Pool, NEW q \in Pool, q # p, path' = path,
         NEW h, NEW c, NEW K \in SUBSET Kind,
         \/ file' = [file EXCEPT ![path[p]][h] = c]
         \/ file' = file,
         Rendered(q, K)
  PROVE  Rendered(q, K)'
<1> SUFFICES ASSUME Alone(q) PROVE \A k \in K : file'[path[q]][k] = Own(q)
  BY AloneStays DEF Rendered
<1>1. path[q] # path[p] /\ path[q] \in Path
  BY DEF Alone, EnvoyInv, Shape
<1>2. file'[path[q]] = file[path[q]]
  BY <1>1 DEF EnvoyInv, Shape
<1> QED
  BY <1>2 DEF Rendered

-------------------------------------------------------------------------------

LEMMA PrepareProxyStep ==
  ASSUME EnvoyInv, NEW p \in Pool, PrepareProxy(p)
  PROVE  EnvoyInv'
<1>1. Shape' /\ OwnConfig'
  BY AloneStays DEF EnvoyInv, Shape, OwnConfig, PrepareProxy
<1>2. Rendering(p)'
  BY HeadsAndTails DEF PrepareProxy, Rendering
<1>3. proxy[p] \in {"none", "down"}
  BY DEF PrepareProxy, EnvoyInv, Prepared
<1>4. Prepared'
  BY <1>2, <1>3, AloneStays DEF PrepareProxy, EnvoyInv, Prepared, Rendered
<1> QED
  BY <1>1, <1>4 DEF EnvoyInv

LEMMA RenderStep ==
  ASSUME EnvoyConstants, EnvoyInv, NEW p \in Pool, Render(p)
  PROVE  EnvoyInv'
<1>1. /\ busy = {p} /\ render # <<>> /\ render' = Tail(render)
      /\ file' = [file EXCEPT ![path[p]][Head(render)] = Own(p)]
      /\ UNCHANGED <<path, toPrepare, busy, run, proxy, loaded>>
  BY DEF Render, Own
<1>2. Rendering(p)' /\ file' \in [Path -> [Kind -> Content]]
  BY <1>1, RenderNext
<1>3. \A q \in Pool : proxy[q] \in {"prepared", "starting"} => Rendered(q, Kind)'
  <2> SUFFICES ASSUME NEW q \in Pool, proxy[q] \in {"prepared", "starting"}
               PROVE  Rendered(q, Kind)'
    OBVIOUS
  <2>1. q # p /\ Rendered(q, Kind)
    BY <1>1 DEF EnvoyInv, Prepared
  <2> QED
    BY <1>1, <2>1, OthersKeep
<1>4. Shape' /\ OwnConfig'
  BY <1>1, <1>2, AloneStays DEF EnvoyInv, Shape, OwnConfig
<1>5. Prepared'
  BY <1>1, <1>2, <1>3 DEF EnvoyInv, Prepared
<1> QED
  BY <1>4, <1>5 DEF EnvoyInv

LEMMA RenderFailsStep ==
  ASSUME EnvoyConstants, EnvoyInv, NEW p \in Pool, RenderFails(p)
  PROVE  EnvoyInv'
<1> DEFINE c == [of |-> p, whole |-> FALSE]
<1>1. /\ busy = {p} /\ busy' = {} /\ render # <<>>
      /\ \/ file' = [file EXCEPT ![path[p]][Head(render)] = c]
         \/ file' = file
      /\ run' = IF run = "create" THEN "failed" ELSE run
      /\ proxy' = [proxy EXCEPT ![p] = IF run = "create" THEN @ ELSE "lost"]
      /\ UNCHANGED <<path, toPrepare, loaded>>
  BY DEF RenderFails
<1>2. c \in Content
  BY DEF Content
<1> HIDE DEF c
<1>3. file' \in [Path -> [Kind -> Content]]
  <2>1. Head(render) \in Kind
    BY <1>1, HeadsAndTails DEF EnvoyInv, Prepared, Rendering, Kind
  <2>2. path[p] \in Path /\ file \in [Path -> [Kind -> Content]]
    BY DEF EnvoyInv, Shape
  <2>3. [file[path[p]] EXCEPT ![Head(render)] = c] \in [Kind -> Content]
    BY <1>2, <2>1, <2>2
  <2> QED
    BY <1>1, <2>2, <2>3
<1>4. /\ proxy' \in [Pool -> {"none", "prepared", "starting", "up", "down", "lost"}]
      /\ \A q \in Pool : q # p => proxy'[q] = proxy[q]
      /\ proxy'[p] \notin {"prepared", "starting", "up"}
  BY <1>1 DEF EnvoyInv, Shape, Prepared
<1>5. \A q \in Pool : proxy'[q] \in {"prepared", "starting"} => Rendered(q, Kind)'
  <2> SUFFICES ASSUME NEW q \in Pool, proxy'[q] \in {"prepared", "starting"}
               PROVE  Rendered(q, Kind)'
    OBVIOUS
  <2>1. q # p /\ Rendered(q, Kind)
    BY <1>4 DEF EnvoyInv, Prepared
  <2> QED
    BY <1>1, <2>1, OthersKeep
<1>6. Shape' /\ OwnConfig'
  BY <1>1, <1>3, <1>4, AloneStays DEF EnvoyInv, Shape, OwnConfig
<1>7. Prepared'
  BY <1>1, <1>5 DEF Prepared
<1> QED
  BY <1>6, <1>7 DEF EnvoyInv

LEMMA ProxyPreparedStep ==
  ASSUME EnvoyInv, NEW p \in Pool, ProxyPrepared(p)
  PROVE  EnvoyInv'
<1>1. /\ busy = {p} /\ busy' = {} /\ render = <<>>
      /\ proxy' = [proxy EXCEPT ![p] = IF run = "create" THEN "prepared" ELSE "starting"]
      /\ UNCHANGED <<path, file, toPrepare, run, loaded>>
  BY DEF ProxyPrepared
<1>2. Rendered(p, Kind)
  BY <1>1 DEF EnvoyInv, Prepared, Rendering
<1>3. Shape' /\ OwnConfig'
  BY <1>1, AloneStays DEF EnvoyInv, Shape, OwnConfig
<1>4. Prepared'
  <2>1. \A q \in Pool : proxy'[q] \in {"prepared", "starting"} => Rendered(q, Kind)'
    BY <1>1, <1>2, AloneStays DEF EnvoyInv, Shape, Prepared, Rendered
  <2>2. p \notin toPrepare \/ run # "create"
    BY <1>1 DEF EnvoyInv, Prepared
  <2> QED
    BY <1>1, <2>1, <2>2 DEF EnvoyInv, Shape, Prepared
<1> QED
  BY <1>3, <1>4 DEF EnvoyInv

LEMMA RunAllStep ==
  ASSUME EnvoyInv, RunAll
  PROVE  EnvoyInv'
<1>1. /\ run' = "up" /\ busy' = {} /\ toPrepare' = {}
      /\ proxy' = [p \in Pool |-> "starting"]
      /\ UNCHANGED <<path, file, loaded, busy>>
  BY DEF RunAll
<1>2. \A p \in Pool : Rendered(p, Kind)
  BY DEF RunAll, EnvoyInv, Prepared
<1>3. Shape' /\ OwnConfig'
  BY <1>1, AloneStays DEF EnvoyInv, Shape, OwnConfig
<1>4. Prepared'
  BY <1>1, <1>2, AloneStays DEF Prepared, Rendered
<1> QED
  BY <1>3, <1>4 DEF EnvoyInv

\* What Envoy reads is what was rendered last.
LEMMA EnvoyLoadsStep ==
  ASSUME EnvoyConstants, EnvoyInv, NEW p \in Pool, EnvoyLoads(p)
  PROVE  EnvoyInv'
<1>1. /\ proxy[p] = "starting"
      /\ proxy' = [proxy EXCEPT ![p] = "up"]
      /\ loaded' = [loaded EXCEPT ![p] = file[path[p]]]
      /\ UNCHANGED <<path, file, toPrepare, busy, render, run>>
  BY DEF EnvoyLoads
<1>2. /\ Rendered(p, Kind) /\ path[p] \in Path
      /\ file[path[p]] \in [Kind -> Content]
  BY <1>1 DEF EnvoyInv, Shape, Prepared
<1>3. Alone(p) => file[path[p]] = OwnFiles(p)
  BY <1>2 DEF Rendered, Own, OwnFiles
<1>4. Shape'
  BY <1>1, <1>2 DEF EnvoyInv, Shape
<1>5. OwnConfig'
  <2>1. Alone(p) => loaded'[p] = OwnFiles(p)
    BY <1>1, <1>3 DEF EnvoyInv, Shape
  <2>2. \A q \in Pool : q # p => loaded'[q] = loaded[q] /\ proxy'[q] = proxy[q]
    BY <1>1 DEF EnvoyInv, Shape
  <2> QED
    BY <1>1, <2>1, <2>2, AloneStays DEF EnvoyInv, OwnConfig, OwnFiles
<1>6. Prepared'
  BY <1>1, AloneStays DEF EnvoyInv, Shape, Prepared, Rendering, Rendered
<1> QED
  BY <1>4, <1>5, <1>6 DEF EnvoyInv

LEMMA EnvoyEndsStep ==
  ASSUME EnvoyInv, NEW p \in Pool, EnvoyEnds(p)
  PROVE  EnvoyInv'
<1>1. /\ proxy[p] \in {"starting", "up"}
      /\ proxy' = [proxy EXCEPT ![p] = "down"]
      /\ UNCHANGED <<path, file, toPrepare, busy, render, run, loaded>>
  BY DEF EnvoyEnds
<1>2. Shape' /\ OwnConfig'
  BY <1>1, AloneStays DEF EnvoyInv, Shape, OwnConfig
<1>3. Prepared'
  BY <1>1, AloneStays DEF EnvoyInv, Shape, Prepared, Rendering, Rendered
<1> QED
  BY <1>2, <1>3 DEF EnvoyInv

LEMMA EnvoyNextInv ==
  ASSUME EnvoyConstants, EnvoyInv, [EnvoyNext]_envoyVars
  PROVE  EnvoyInv'
<1>1. CASE UNCHANGED envoyVars
  BY <1>1, AloneStays
     DEF envoyVars, EnvoyInv, Shape, Prepared, OwnConfig, Rendering, Rendered
<1> QED
  BY <1>1, PrepareProxyStep, RenderStep, RenderFailsStep, ProxyPreparedStep,
     RunAllStep, EnvoyLoadsStep, EnvoyEndsStep
  DEF EnvoyNext, Stuck

-------------------------------------------------------------------------------

\* Whichever pools share a directory, whatever fails to render and however often
\* proxies are restarted, a running proxy whose pool has its directory to itself
\* has read three complete files of its own pool.
THEOREM ProxiesKeepApart ==
  ASSUME EnvoyConstants
  PROVE  EnvoySpec => []OwnConfig
<1>1. EnvoyInit => EnvoyInv
  BY EnvoyInitInv
<1>2. EnvoyInv /\ [EnvoyNext]_envoyVars => EnvoyInv'
  BY EnvoyNextInv
<1>3. EnvoyInv => OwnConfig
  BY DEF EnvoyInv
<1> QED
  BY <1>1, <1>2, <1>3, PTL DEF EnvoySpec

\* The directories, the files and the proxies keep their types, directories of
\* their own or not.
THEOREM EnvoyTypeCorrect ==
  ASSUME EnvoyConstants
  PROVE  EnvoySpec => []EnvoyTypeOK
<1>1. EnvoyInit => EnvoyTypeOK
  <2>1. NoFile \in Content
    BY DEF NoFile, Content
  <2> QED
    BY <2>1 DEF EnvoyInit, EnvoyTypeOK
<1>2. EnvoyTypeOK /\ [EnvoyNext]_envoyVars => EnvoyTypeOK'
  <2> SUFFICES ASSUME EnvoyTypeOK, [EnvoyNext]_envoyVars PROVE EnvoyTypeOK'
    OBVIOUS
  <2> USE DEF EnvoyTypeOK
  <2>1. ASSUME NEW p \in Pool, PrepareProxy(p) PROVE EnvoyTypeOK'
    BY <2>1 DEF PrepareProxy, Files, Kind
  <2>2. ASSUME NEW p \in Pool, render # <<>>
        PROVE  /\ path[p] \in Path /\ Head(render) \in Kind
               /\ Tail(render) \in Seq(Kind) /\ <<>> \in Seq(Kind)
               /\ dir \cup {path[p]} \in SUBSET Path
               /\ [of |-> p, whole |-> TRUE] \in Content
               /\ [of |-> p, whole |-> FALSE] \in Content
    BY <2>2 DEF Content
  <2>3. ASSUME NEW d \in Path, NEW k \in Kind, NEW c \in Content
        PROVE  [file EXCEPT ![d][k] = c] \in [Path -> [Kind -> Content]]
    OBVIOUS
  <2>4. ASSUME NEW p \in Pool, Render(p) PROVE EnvoyTypeOK'
    <3>1. file' \in [Path -> [Kind -> Content]]
      BY <2>2, <2>3, <2>4 DEF Render
    <3> QED
      BY <2>2, <2>4, <3>1 DEF Render
  <2>5. ASSUME NEW p \in Pool, RenderFails(p) PROVE EnvoyTypeOK'
    <3>1. file' \in [Path -> [Kind -> Content]]
      <4>1. render # <<>> /\ (\/ UNCHANGED file
                              \/ file' = [file EXCEPT ![path[p]][Head(render)] =
                                            [of |-> p, whole |-> FALSE]])
        BY <2>5, Zenon DEF RenderFails
      <4>2. /\ path[p] \in Path /\ Head(render) \in Kind
            /\ [of |-> p, whole |-> FALSE] \in Content
        BY <2>2, <4>1
      <4>3. [file EXCEPT ![path[p]][Head(render)] = [of |-> p, whole |-> FALSE]]
              \in [Path -> [Kind -> Content]]
        BY <2>3, <4>2
      <4> QED
        BY <4>1, <4>3, Zenon
    <3> QED
      BY <2>2, <2>5, <3>1 DEF RenderFails
  <2>6. ASSUME NEW p \in Pool, ProxyPrepared(p) PROVE EnvoyTypeOK'
    BY <2>6 DEF ProxyPrepared
  <2>7. CASE RunAll
    BY <2>7 DEF RunAll
  <2>8. ASSUME NEW p \in Pool, EnvoyLoads(p) PROVE EnvoyTypeOK'
    BY <2>8 DEF EnvoyLoads
  <2>9. ASSUME NEW p \in Pool, EnvoyEnds(p) PROVE EnvoyTypeOK'
    BY <2>9 DEF EnvoyEnds
  <2>10. CASE UNCHANGED envoyVars
    BY <2>10 DEF envoyVars
  <2> QED
    BY <2>1, <2>4, <2>5, <2>6, <2>7, <2>8, <2>9, <2>10 DEF EnvoyNext, Stuck
<1> QED
  BY <1>1, <1>2, PTL DEF EnvoySpec

===============================================================================
