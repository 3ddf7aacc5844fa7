-------------------------- MODULE SourceBuild_proofs --------------------------
(***************************************************************************)
(* Theorems about SourceBuild, for every set of configurations and every   *)
(* bound: its types, that the hash label of the BuildConfig stands for the *)
(* newest build, and that no build is forgotten.                           *)
(***************************************************************************)
EXTENDS SourceBuild, TLAPS

-----------------------------------------------------------------------------
(* The data.                                                               *)

LEMMA ConfigFacts ==
    ASSUME NEW c \in BuildConfigs, NEW s \in Sourced
    PROVE  /\ c # None /\ c.hash \in Sourced
           /\ [c EXCEPT !.started = TRUE] \in BuildConfigs
           /\ [c EXCEPT !.started = TRUE].hash = c.hash
           /\ [c EXCEPT !.started = TRUE] # None
           /\ [c EXCEPT !.hash = s] \in BuildConfigs
           /\ [c EXCEPT !.hash = s].hash = s
           /\ [c EXCEPT !.hash = s] # None
           /\ NewConfig(s) \in BuildConfigs
           /\ NewConfig(s).hash = s /\ ~NewConfig(s).started
           /\ NewConfig(s) # None
<1> DEFINE a == [c EXCEPT !.started = TRUE]
           b == [c EXCEPT !.hash = s]
<1>1. \A d \in BuildConfigs : d # None
  BY ConstantsAssumption
<1>2. c.hash \in Sourced
  BY DEF BuildConfigs
<1>3. a \in BuildConfigs /\ a.hash = c.hash
  BY DEF BuildConfigs
<1>4. b \in BuildConfigs /\ b.hash = s
  BY DEF BuildConfigs
<1>5. NewConfig(s) \in BuildConfigs /\ NewConfig(s).hash = s /\ ~NewConfig(s).started
  BY DEF BuildConfigs, NewConfig
<1> QED
  BY <1>1, <1>2, <1>3, <1>4, <1>5

LEMMA WorkloadFacts ==
    ASSUME NEW w \in Workloads, NEW s \in Cfgs, NEW i \in Sourced
    PROVE  /\ w # None
           /\ [w EXCEPT !.image = i] \in Workloads
           /\ [w EXCEPT !.image = i].hash = w.hash
           /\ [w EXCEPT !.image = i] # None
BY ConstantsAssumption DEF Workloads

LEMMA NewWorkload ==
    ASSUME NEW s \in Cfgs
    PROVE  /\ [hash |-> s, image |-> None] \in Workloads
           /\ [hash |-> s, image |-> None].hash = s
           /\ [hash |-> s, image |-> None] # None
BY ConstantsAssumption DEF Workloads

LEMMA ResultFacts ==
    ASSUME NEW s \in Sourced, NEW ok \in BOOLEAN
    PROVE  /\ [cfg |-> s, ok |-> ok] \in Results
           /\ [cfg |-> s, ok |-> ok] # None
           /\ [cfg |-> s, ok |-> ok].cfg = s
           /\ [cfg |-> s, ok |-> ok].ok = ok
BY ConstantsAssumption DEF Results

(* A build joins the queue at its end.                                     *)
LEMMA AppendFacts ==
    ASSUME NEW q \in Seq(Sourced), NEW s \in Sourced
    PROVE  /\ Append(q, s) \in Seq(Sourced)
           /\ Append(q, s) # <<>>
           /\ Append(q, s)[Len(Append(q, s))] = s
OBVIOUS

(* ... and leaves it at its head; the last stays the last.                 *)
LEMMA TailFacts ==
    ASSUME NEW q \in Seq(Sourced), q # <<>>
    PROVE  /\ Head(q) \in Sourced
           /\ Tail(q) \in Seq(Sourced)
           /\ Tail(q) # <<>> => Tail(q)[Len(Tail(q))] = q[Len(q)]
           /\ Tail(q) = <<>> => Head(q) = q[Len(q)]
<1>1. Len(q) \in Nat \ {0} /\ Head(q) = q[1] /\ q[1] \in Sourced
  OBVIOUS
<1>2. Tail(q) \in Seq(Sourced) /\ Len(Tail(q)) = Len(q) - 1
  BY <1>1
<1>3. ASSUME Tail(q) # <<>> PROVE Tail(q)[Len(Tail(q))] = q[Len(q)]
  <2>1. Len(Tail(q)) \in 1 .. (Len(q) - 1)
    BY <1>2, <1>3
  <2> QED
    BY <1>1, <1>2, <2>1
<1>4. Tail(q) = <<>> => Len(q) = 1
  BY <1>1, <1>2
<1> QED
  BY <1>1, <1>2, <1>3, <1>4

-----------------------------------------------------------------------------
(* Types.                                                                  *)

LEMMA Empty == <<>> \in Seq(Sourced)
OBVIOUS

LEMMA InitTypes == Init => TypeOK
BY Empty, ConstantsAssumption DEF Init, TypeOK, Calls

LEMMA InstantiatesTypes ==
    ASSUME TypeOK, NEW c \in BuildConfigs, Instantiates(c)
    PROVE  /\ builds' \in Seq(Sourced)
           /\ config' \in BuildConfigs /\ configLag' \in BOOLEAN
<1>1. c.hash \in Sourced /\ [c EXCEPT !.started = TRUE] \in BuildConfigs
  BY DEF BuildConfigs
<1> QED
  BY <1>1, AppendFacts DEF Instantiates, TypeOK

LEMMA ReturnTyped ==
    ASSUME TypeOK, Return(TRUE)
    PROVE  /\ pc' = "idle" /\ snap' = None /\ queued' \in BOOLEAN
           /\ missed' = missed /\ behind' = behind
BY DEF TypeOK, Return, Over, history

LEMMA RestTyped ==
    ASSUME TypeOK, Rest
    PROVE  /\ pc' = "idle" /\ snap' = None /\ queued' \in BOOLEAN
           /\ missed' = missed /\ behind' = behind
BY DEF Rest, Return, Over, history

LEMMA PassOverTyped ==
    ASSUME TypeOK, NEW error, PassOver(error)
    PROVE  /\ pc' = "idle" /\ snap' = None /\ queued' \in BOOLEAN
           /\ missed' = error /\ behind' = behind
BY DEF TypeOK, PassOver, Over

LEMMA ReconcileTypes == TypeOK /\ Reconcile => TypeOK'
<1> SUFFICES ASSUME TypeOK, Reconcile PROVE TypeOK'
  OBVIOUS
<1> USE DEF TypeOK, Calls, operands, output, history, Goto
<1>1. CASE Start
  BY <1>1 DEF Start, Entry
<1>2. CASE EnsureStream
  <2>1. CASE streamSeen
    BY <1>2, <2>1 DEF EnsureStream
  <2>2. CASE ~streamSeen
    BY <1>2, <2>2, ReturnTyped DEF EnsureStream
  <2> QED
    BY <2>1, <2>2
<1>3. CASE CreateConfig
  <2>1. NewConfig(snap) \in BuildConfigs
    BY <1>3 DEF CreateConfig, NewConfig, BuildConfigs
  <2> QED
    BY <1>3, <2>1, ReturnTyped DEF CreateConfig
<1>4. CASE KeepConfig
  BY <1>4 DEF KeepConfig
<1>5. CASE UpdateConfig
  <2>1. config # None => [config EXCEPT !.hash = snap] \in BuildConfigs
    BY <1>5 DEF UpdateConfig, BuildConfigs
  <2>2. CASE config # None /\ ~configLag
    BY <1>5, <2>1, <2>2 DEF UpdateConfig
  <2>3. CASE ~(config # None /\ ~configLag)
    BY <1>5, <2>3, ReturnTyped DEF UpdateConfig
  <2> QED
    BY <2>2, <2>3
<1>6. CASE Instantiate
  <2>1. config \in BuildConfigs /\ Instantiates(config)
    BY <1>6 DEF Instantiate
  <2>2. /\ builds' \in Seq(Sourced)
        /\ config' \in BuildConfigs /\ configLag' \in BOOLEAN
    BY ONLY <2>1, InstantiatesTypes, TypeOK
  <2> QED
    BY <1>6, <2>2 DEF Instantiate
<1>7. CASE DeleteConfig
  BY <1>7, Empty DEF DeleteConfig
<1>8. CASE Deploy
  <2>1. CASE workload = None \/ workload.hash # snap
    BY <1>8, <2>1, NewWorkload, ReturnTyped DEF Deploy
  <2>2. CASE ~(workload = None \/ workload.hash # snap)
    BY <1>8, <2>2, RestTyped DEF Deploy
  <2> QED
    BY <2>1, <2>2
<1> QED
  BY <1>1, <1>2, <1>3, <1>4, <1>5, <1>6, <1>7, <1>8 DEF Reconcile

LEMMA OthersTypes ==
    TypeOK /\ (SyncStream \/ SyncConfig \/ OpenShift \/ Disturbances) => TypeOK'
<1> SUFFICES ASSUME TypeOK, SyncStream \/ SyncConfig \/ OpenShift \/ Disturbances
             PROVE  TypeOK'
  OBVIOUS
<1> USE DEF TypeOK, Calls, operands, output, history, Goto, Disturb
<1>1. CASE SyncStream \/ SyncConfig
  BY <1>1 DEF SyncStream, SyncConfig
<1>2. CASE FirstBuild \/ Rebuild
  <2>1. config \in BuildConfigs /\ Instantiates(config)
    BY <1>2 DEF FirstBuild, Rebuild, Starts
  <2>2. /\ builds' \in Seq(Sourced)
        /\ config' \in BuildConfigs /\ configLag' \in BOOLEAN
    BY ONLY <2>1, InstantiatesTypes, TypeOK
  <2> QED
    BY <1>2, <2>2 DEF FirstBuild, Rebuild, Starts
<1>3. CASE BuildSucceeds \/ BuildFails
  <2>1. PICK ok \in BOOLEAN : Ends(ok)
    BY <1>3 DEF BuildSucceeds, BuildFails
  <2>2. Head(builds) \in Sourced /\ Tail(builds) \in Seq(Sourced)
    BY <2>1, TailFacts DEF Ends
  <2>3. last' \in Results
    BY <2>1, <2>2, ResultFacts DEF Ends
  <2> QED
    BY <1>3, <2>1, <2>2, <2>3 DEF Ends, BuildSucceeds, BuildFails
<1>4. CASE TriggerImage
  <2>1. [workload EXCEPT !.image = latest] \in Workloads
    BY <1>4, WorkloadFacts DEF TriggerImage, Triggered, Workloads
  <2> QED
    BY <1>4, <2>1 DEF TriggerImage
<1>5. CASE CallFails
  BY <1>5, ReturnTyped DEF CallFails
<1>6. CASE DeleteFails
  BY <1>6 DEF DeleteFails
<1>7. CASE Crash
  <2>1. /\ Disturb /\ UNCHANGED <<ws, stream, config, output>>
        /\ pc' = "idle" /\ snap' = None /\ queued' = (queued \/ TRUE)
        /\ streamSeen' = stream /\ configCache' = config /\ configLag' = FALSE
        /\ missed' = "none" /\ behind' = FALSE
    BY <1>7 DEF Crash, Over
  <2>2. budget' \in Nat
    BY <2>1
  <2>3. queued' \in BOOLEAN
    BY <2>1
  <2> QED
    BY <2>1, <2>2, <2>3
<1>9. CASE NoStream \/ DeployFails
  BY <1>9, PassOverTyped DEF NoStream, DeployFails
<1>8. CASE EditSpec
  BY <1>8 DEF EditSpec
<1> QED
  BY <1>1, <1>2, <1>3, <1>4, <1>5, <1>6, <1>7, <1>8, <1>9
     DEF OpenShift, Disturbances

LEMMA StepTypes == TypeOK /\ [Next]_vars => TypeOK'
<1>1. TypeOK /\ UNCHANGED vars => TypeOK'
  BY DEF TypeOK, vars, operands, output, history
<1> QED
  BY <1>1, ReconcileTypes, OthersTypes DEF Next

(* Every reachable state has its types; a reconcile that is at the stream  *)
(* or the BuildConfig is one for a configuration with sources.             *)
THEOREM TypeCorrect == Spec => []TypeOK
BY InitTypes, StepTypes, PTL DEF Spec
-----------------------------------------------------------------------------
(* The label of the BuildConfig.                                           *)

LEMMA InstantiatesNewest ==
    ASSUME TypeOK, config # None, Instantiates(config)
    PROVE  /\ config' # None /\ config'.hash = config.hash /\ config'.started
           /\ builds' # <<>>
           /\ builds'[Len(builds')] = config.hash
           /\ Newest' = config'.hash
<1>1. config \in BuildConfigs /\ builds \in Seq(Sourced)
  BY DEF TypeOK
<1>2. config.hash \in Sourced
  BY <1>1 DEF BuildConfigs
<1>3. config' \in BuildConfigs /\ config'.hash = config.hash /\ config'.started
  BY <1>1 DEF Instantiates, BuildConfigs
<1>4. config' # None
  BY <1>3, ConstantsAssumption
<1>5. builds' # <<>> /\ builds'[Len(builds')] = config.hash
  BY <1>1, <1>2, AppendFacts DEF Instantiates
<1> QED
  BY <1>3, <1>4, <1>5 DEF Newest

(* Ending a build does not change which one is the newest.                 *)
LEMMA EndsNewest ==
    ASSUME TypeOK, NEW ok \in BOOLEAN, Ends(ok)
    PROVE  Newest' = Newest
<1>1. builds \in Seq(Sourced) /\ builds # <<>> /\ builds' = Tail(builds)
  BY DEF Ends, TypeOK
<1>2. Newest = builds[Len(builds)]
  BY <1>1 DEF Newest
<1>3. CASE Tail(builds) # <<>>
  BY <1>1, <1>2, <1>3, TailFacts DEF Newest
<1>4. CASE Tail(builds) = <<>>
  <2>1. Head(builds) = builds[Len(builds)] /\ Head(builds) \in Sourced
    BY <1>1, <1>4, TailFacts
  <2>2. last' # None /\ last'.cfg = Head(builds)
    BY <2>1, ResultFacts DEF Ends
  <2> QED
    BY <1>1, <1>2, <1>4, <2>1, <2>2 DEF Newest
<1> QED
  BY <1>3, <1>4

LEMMA HashStep ==
    ASSUME "instantiate" \notin FailingCalls,
           TypeOK, HashNamesBuild, [Next]_vars
    PROVE  HashNamesBuild'
<1> USE DEF HashNamesBuild, operands, output, history, Goto, Return, Over
<1>1. CASE Start \/ EnsureStream \/ KeepConfig \/ Deploy
  BY <1>1 DEF Start, Entry, EnsureStream, KeepConfig, Deploy, Rest, Newest
<1>2. CASE CreateConfig
  <2>1. CASE config = None
    <3>1. config' = NewConfig(snap) /\ ~NewConfig(snap).started
      BY <1>2, <2>1 DEF CreateConfig, NewConfig
    <3> QED
      BY <3>1
  <2>2. CASE config # None
    BY <1>2, <2>2 DEF CreateConfig, Newest
  <2> QED
    BY <2>1, <2>2
<1>3. CASE UpdateConfig
  BY <1>3 DEF UpdateConfig, Newest
<1>4. CASE Instantiate \/ FirstBuild \/ Rebuild
  <2>1. config # None /\ Instantiates(config)
    BY <1>4 DEF Instantiate, FirstBuild, Rebuild, Starts
  <2> QED
    BY ONLY <2>1, TypeOK, InstantiatesNewest DEF HashNamesBuild
<1>5. CASE DeleteConfig
  BY <1>5 DEF DeleteConfig, Newest
<1>6. CASE BuildSucceeds \/ BuildFails
  <2>1. PICK ok \in BOOLEAN : Ends(ok)
    BY <1>6 DEF BuildSucceeds, BuildFails
  <2>2. Newest' = Newest
    BY <2>1, EndsNewest
  <2> QED
    BY <2>1, <2>2 DEF Ends
<1>7. CASE CallFails \/ DeleteFails \/ Crash \/ NoStream \/ DeployFails
  BY <1>7 DEF CallFails, DeleteFails, Crash, NoStream, DeployFails, PassOver, Newest
<1>8. CASE SyncStream \/ SyncConfig \/ TriggerImage \/ EditSpec
  BY <1>8 DEF SyncStream, SyncConfig, TriggerImage, EditSpec, Newest
<1>9. CASE UNCHANGED vars
  BY <1>9 DEF vars, Newest
<1> QED
  BY <1>1, <1>2, <1>3, <1>4, <1>5, <1>6, <1>7, <1>8, <1>9
     DEF Next, Reconcile, OpenShift, Disturbances

(* As long as Instantiate does not fail between the label and the build,   *)
(* the label of the BuildConfig names the newest build.                    *)
THEOREM HashCorrect ==
    ASSUME "instantiate" \notin FailingCalls
    PROVE  Spec => []HashNamesBuild
<1>1. Init => TypeOK /\ HashNamesBuild
  BY InitTypes DEF Init, HashNamesBuild
<1>2. TypeOK /\ HashNamesBuild /\ [Next]_vars => (TypeOK /\ HashNamesBuild)'
  BY StepTypes, HashStep
<1> QED
  BY <1>1, <1>2, PTL DEF Spec

-----------------------------------------------------------------------------
(* No build is forgotten.                                                  *)

(* A cached BuildConfig without lag is the current one, and while a        *)
(* reconcile that began with it decides what to do with it, its hash is.   *)
SameConfig(a, b) ==
    (a = None <=> b = None) /\ (a # None => a.hash = b.hash)

CacheRight ==
    /\ ~configLag => configCache = config
    /\ pc \in {"stream", "config"} /\ ~behind => SameConfig(configCache, config)

(* A reconcile works for the current WebServer or another one follows;     *)
(* past the BuildConfig it has left one for its own sources.               *)
Configured(s) == s \in Sourced => config # None /\ config.hash = s

Working ==
    /\ pc # "idle" => snap = ws \/ queued
    /\ pc = "delete" => snap \notin Sourced
    /\ pc \in {"instantiate", "deploy"} /\ ~behind => Configured(snap)

(* Nothing is left to do only when BuildConfig and workload are up to date.*)
Done ==
    pc = "idle" /\ ~queued /\ missed = "none" =>
      /\ workload # None /\ workload.hash = ws
      /\ ~behind => Configured(ws)

(* The image behind the tag is that of the last build that succeeded.      *)
Pushed == last # None /\ last.ok => latest = last.cfg

QuietInv == CacheRight /\ Working /\ Done /\ Pushed

LEMMA QuietInit == Init => QuietInv
BY DEF Init, QuietInv, CacheRight, SameConfig, Working, Configured, Done, Pushed

(* What leaves the BuildConfig's hash, the workload's and the reconcile    *)
(* alone disturbs nothing but what is said of the image.                   *)
LEMMA QuietFrame ==
    ASSUME QuietInv, UNCHANGED <<ws, configCache, pc, snap, queued, missed, behind>>,
           SameConfig(config', config),
           configLag' = TRUE \/ (config' = config /\ UNCHANGED configLag),
           workload' # None <=> workload # None,
           workload # None => workload'.hash = workload.hash,
           Pushed'
    PROVE  QuietInv'
BY DEF QuietInv, CacheRight, SameConfig, Working, Configured, Done

LEMMA QuietReconcile ==
    ASSUME TypeOK, QuietInv, Reconcile
    PROVE  QuietInv'
<1> USE DEF QuietInv, CacheRight, SameConfig, Working, Configured, Done, Pushed,
            operands, output, history, Goto, Return, Over
<1>1. CASE Start
  BY <1>1 DEF Start, Entry
<1>2. CASE EnsureStream
  BY <1>2 DEF EnsureStream
<1>3. CASE CreateConfig
  BY <1>3 DEF CreateConfig
<1>4. CASE KeepConfig
  BY <1>4 DEF KeepConfig
<1>5. CASE UpdateConfig
  <2>1. config # None =>
          /\ [config EXCEPT !.hash = snap] # None
          /\ [config EXCEPT !.hash = snap].hash = snap
    BY <1>5, ConfigFacts DEF UpdateConfig, TypeOK
  <2> QED
    BY <1>5, <2>1 DEF UpdateConfig
<1>6. CASE Instantiate
  <2>1. config # None /\ Instantiates(config)
    BY <1>6 DEF Instantiate
  <2>2. config' # None /\ config'.hash = config.hash
    BY ONLY <2>1, TypeOK, InstantiatesNewest
  <2> QED
    BY <1>6, <2>1, <2>2 DEF Instantiate, Instantiates
<1>7. CASE DeleteConfig
  BY <1>7 DEF DeleteConfig
<1>8. CASE Deploy
  BY <1>8, NewWorkload DEF Deploy, Rest, TypeOK
<1> QED
  BY <1>1, <1>2, <1>3, <1>4, <1>5, <1>6, <1>7, <1>8 DEF Reconcile

LEMMA QuietOthers ==
    ASSUME "instantiate" \notin FailingCalls, TypeOK, QuietInv,
           SyncStream \/ SyncConfig \/ OpenShift \/ Disturbances
    PROVE  QuietInv'
<1> USE DEF operands, output, history, Goto, Return, Over
<1>1. CASE SyncStream \/ SyncConfig
  BY <1>1 DEF SyncStream, SyncConfig, QuietInv, CacheRight, SameConfig, Working,
              Configured, Done, Pushed
<1>2. CASE FirstBuild \/ Rebuild
  <2>1. config # None /\ Instantiates(config)
    BY <1>2 DEF FirstBuild, Rebuild, Starts
  <2>2. config' # None /\ config'.hash = config.hash
    BY ONLY <2>1, TypeOK, InstantiatesNewest
  <2>3. SameConfig(config', config) /\ configLag' = TRUE /\ Pushed'
    BY <1>2, <2>1, <2>2
       DEF SameConfig, Instantiates, QuietInv, Pushed, FirstBuild, Rebuild, Starts
  <2>4. UNCHANGED <<ws, configCache, pc, snap, queued, missed, behind, workload>>
    BY <1>2 DEF FirstBuild, Rebuild, Starts
  <2> QED
    BY ONLY QuietInv, <2>3, <2>4, QuietFrame
<1>3. CASE BuildSucceeds \/ BuildFails
  <2>1. PICK ok \in BOOLEAN : Ends(ok)
    BY <1>3 DEF BuildSucceeds, BuildFails
  <2>2. Head(builds) \in Sourced
    BY <2>1, TailFacts DEF Ends, TypeOK
  <2>3. Pushed'
    BY <2>1, <2>2, ResultFacts DEF Ends, Pushed
  <2>4. SameConfig(config', config)
    BY <2>1 DEF Ends, SameConfig
  <2>5. /\ UNCHANGED <<ws, configCache, pc, snap, queued, missed, behind, workload>>
        /\ config' = config /\ UNCHANGED configLag
    BY <2>1 DEF Ends
  <2> QED
    BY ONLY QuietInv, <2>3, <2>4, <2>5, QuietFrame
<1>4. CASE TriggerImage
  BY <1>4 DEF TriggerImage, QuietInv, CacheRight, SameConfig, Working,
              Configured, Done, Pushed
<1>5. CASE CallFails
  BY <1>5 DEF CallFails, QuietInv, CacheRight, SameConfig, Working,
              Configured, Done, Pushed
<1>6. CASE DeleteFails
  BY <1>6 DEF DeleteFails, QuietInv, CacheRight, SameConfig, Working,
              Configured, Done, Pushed
<1>7. CASE Crash
  BY <1>7 DEF Crash, QuietInv, CacheRight, SameConfig, Working, Configured,
              Done, Pushed
<1>8. CASE EditSpec
  BY <1>8 DEF EditSpec, QuietInv, CacheRight, SameConfig, Working, Configured,
              Done, Pushed
<1>9. CASE NoStream \/ DeployFails
  BY <1>9 DEF NoStream, DeployFails, PassOver, QuietInv, CacheRight, SameConfig,
              Working, Configured, Done, Pushed
<1> QED
  BY <1>1, <1>2, <1>3, <1>4, <1>5, <1>6, <1>7, <1>8, <1>9
     DEF OpenShift, Disturbances

(* When nobody has anything left to do, the workload is made from the      *)
(* current spec and, with sources, runs what these were built to: whatever *)
(* else fails, unless the last reconcile has passed over an error or began *)
(* with an old copy of the BuildConfig.                                    *)
THEOREM BuiltCorrect ==
    ASSUME "instantiate" \notin FailingCalls
    PROVE  Spec => []QuietMeansBuilt
<1> DEFINE Inv == TypeOK /\ HashNamesBuild /\ QuietInv
<1>1. Init => Inv
  BY InitTypes, QuietInit DEF Init, HashNamesBuild
<1>2. Inv /\ [Next]_vars => Inv'
  <2>1. ASSUME Inv, UNCHANGED vars PROVE QuietInv'
    BY <2>1 DEF vars, operands, output, history, QuietInv, CacheRight, SameConfig,
                Working, Configured, Done, Pushed
  <2> QED
    BY <2>1, StepTypes, HashStep, QuietReconcile, QuietOthers DEF Next
<1>3. Inv => QuietMeansBuilt
  <2> SUFFICES ASSUME Inv, AtRest, missed = "none", ~behind
               PROVE  /\ workload # None /\ workload.hash = ws
                      /\ ws \in Sourced => RunsItsBuild
    BY DEF QuietMeansBuilt
  <2>1. workload # None /\ workload.hash = ws /\ Configured(ws)
    BY DEF AtRest, QuietInv, Done
  <2>2. ASSUME ws \in Sourced PROVE RunsItsBuild
    <3>1. Newest = ws
      BY <2>1, <2>2 DEF AtRest, HashNamesBuild, Configured
    <3>2. ws # None
      BY <2>2, ConstantsAssumption
    <3>3. last # None /\ last.cfg = ws
      BY <3>1, <3>2 DEF AtRest, Newest
    <3>4. last.ok => latest = ws
      BY <3>3 DEF QuietInv, Pushed
    <3> QED
      BY <2>1, <3>2, <3>3, <3>4 DEF AtRest, Triggered, RunsItsBuild
  <2> QED
    BY <2>1, <2>2
<1> QED
  BY <1>1, <1>2, <1>3, PTL DEF Spec
=============================================================================
