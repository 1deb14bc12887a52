-------------------------- MODULE Reconciler_proofs --------------------------
(***************************************************************************)
(* Proofs about the reconciler, for every value of the constants.          *)
(***************************************************************************)
EXTENDS ReconcilerProperties, TLAPS

-----------------------------------------------------------------------------
(* Typing of the operators that the actions are built from. *)

USE DEF Kinds

LEMMA OutdateType ==
    ASSUME TypeOK, NEW k \in Kinds
    PROVE  /\ Outdate(k) \in [Operators -> SUBSET Kinds]
           /\ OutdateWorkers \in [Operators -> Worker]
<1>1. Outdate(k) \in [Operators -> SUBSET Kinds]
  BY DEF TypeOK, Outdate
<1>2. ASSUME NEW q \in Operators
      PROVE  [worker[q] EXCEPT !.current = FALSE] \in Worker
  <2>1. worker[q] \in Worker
    BY DEF TypeOK
  <2> QED
    BY <2>1 DEF Worker
<1>3. OutdateWorkers \in [Operators -> Worker]
  BY <1>2 DEF OutdateWorkers
<1> QED
  BY <1>1, <1>3

LEMMA CallType ==
    ASSUME TypeOK, NEW accepted, NEW applied, NEW ok,
           Call(accepted, applied, ok)
    PROVE  faults' \in 0..MaxFaults
BY BoundsAssumption DEF TypeOK, Call

LEMMA ReturnType ==
    ASSUME TypeOK, NEW o \in Operators, NEW again \in BOOLEAN,
           NEW later \in BOOLEAN, Return(o, again, later)
    PROVE  /\ queue' \in [Operators -> BOOLEAN]
           /\ timer' \in [Operators -> BOOLEAN]
BY DEF TypeOK, Return, Armed

LEMMA StoreRouterType ==
    ASSUME TypeOK, NEW o \in Operators, NEW new \in Router, NEW applied,
           NEW touched, NEW next \in Worker,
           StoreRouter(o, new, applied, touched, next)
    PROVE  /\ router' \in Router
           /\ fresh' \in [Operators -> SUBSET Kinds]
           /\ worker' \in [Operators -> Worker]
<1>1. CASE applied /\ (touched \/ new # router)
  BY <1>1, OutdateType DEF StoreRouter, TypeOK
<1>2. CASE ~(applied /\ (touched \/ new # router))
  BY <1>2 DEF StoreRouter, TypeOK
<1> QED
  BY <1>1, <1>2

LEMMA ConstantTypes ==
    /\ NoStatus \in Status
    /\ NoRouter \in Router
    /\ NoConfigMap \in ConfigMap
    /\ NoDeployment \in Deployment
    /\ NoService \in Service
    /\ Idle \in Worker
    /\ Down \in Worker
<1>1. NoStatus \in Status
  BY WindowAssumption DEF NoStatus, Status, Phases, Hashes
<1>2. NoRouter \in Router
  BY <1>1, BoundsAssumption DEF NoRouter, Router, Uids, Hashes
<1>3. NoConfigMap \in ConfigMap /\ NoDeployment \in Deployment
                              /\ NoService \in Service
  BY BoundsAssumption
     DEF NoConfigMap, NoDeployment, NoService, ConfigMap, Deployment, Service,
         Uids, Hashes
<1>4. Idle \in Worker
  BY <1>2 DEF Idle, Worker, Pcs, DrainPolls, Hashes
<1>5. Down \in Worker
  BY <1>4 DEF Down, Worker, Pcs
<1> QED
  BY <1>1, <1>2, <1>3, <1>4, <1>5

LEMMA BeginType ==
    ASSUME NEW tr \in Router, NEW current \in BOOLEAN
    PROVE  /\ \A pc \in Pcs : Working(pc, tr, current) \in Worker
           /\ Enter(tr, current) \in Worker
           /\ Begin(tr, current) \in Worker
<1>1. ASSUME NEW pc \in Pcs
      PROVE  Working(pc, tr, current) \in Worker
  BY ConstantTypes DEF Working, Worker, Router
<1>2. Enter(tr, current) \in Worker
  BY <1>1, ConstantTypes DEF Enter, Pcs
<1>3. Begin(tr, current) \in Worker
  BY <1>1, <1>2, ConstantTypes DEF Begin, Pcs
<1> QED
  BY <1>1, <1>2, <1>3

-----------------------------------------------------------------------------
(* Type correctness. *)

\* The parts that most actions leave alone.
LEMMA WorkerMoves ==
    ASSUME TypeOK, NEW o \in Operators, NEW next \in Worker
    PROVE  [worker EXCEPT ![o] = next] \in [Operators -> Worker]
BY DEF TypeOK

\* The updates of a pass that keep it a pass.
LEMMA WorkerFields ==
    ASSUME TypeOK, NEW o \in Operators, NEW pc \in Pcs
    PROVE  /\ worker[o] \in Worker
           /\ worker[o].tr \in Router
           /\ worker[o].tr.status \in Status
           /\ [worker[o] EXCEPT !.pc = pc] \in Worker
<1>1. worker[o] \in Worker
  BY DEF TypeOK
<1>2. worker[o].tr \in Router /\ worker[o].tr.status \in Status
  BY <1>1 DEF Worker, Router
<1>3. [worker[o] EXCEPT !.pc = pc] \in Worker
  BY <1>1 DEF Worker
<1> QED
  BY <1>1, <1>2, <1>3

LEMMA FailingType ==
    ASSUME NEW w \in Worker, NEW phase \in ErrorPhases
    PROVE  Failing(w, phase) \in Worker
BY DEF Failing, Worker, Pcs

LEMMA StepType ==
    ASSUME TypeOK, NEW o \in Operators, Step(o)
    PROVE  TypeOK'
<1>c. cache[o].router \in Router /\ cache[o].configMap \in ConfigMap
      /\ cache[o].deployment \in Deployment /\ cache[o].service \in Service
  BY DEF TypeOK
<1>w. /\ worker[o] \in Worker
      /\ worker[o].tr \in Router
      /\ worker[o].tr.status \in Status
      /\ worker[o].tr.uid \in Uids
      /\ worker[o].tr.config \in Hashes
      /\ worker[o].tr.replicas \in Replicas \cup {1}
      /\ worker[o].goal \in Hashes
      /\ worker[o].current \in BOOLEAN
      /\ worker[o].failure \in ErrorPhases \cup {""}
      /\ worker[o].polls \in 0..DrainPolls
  BY DEF TypeOK, Worker, Router
<1>r. router \in Router /\ router.status \in Status
  BY DEF TypeOK, Router
<1>1. CASE StartPass(o)
  <2>1. Begin(cache[o].router, "router" \in fresh[o]) \in Worker
    <3>1. ("router" \in fresh[o]) \in BOOLEAN
      OBVIOUS
    <3> QED
      BY <3>1, <1>c, BeginType
  <2>2. worker' \in [Operators -> Worker]
    BY <1>1, <2>1, WorkerMoves DEF StartPass
  <2>3. queue' \in [Operators -> BOOLEAN]
    BY <1>1 DEF StartPass, TypeOK
  <2>4. timer' \in [Operators -> BOOLEAN]
    BY <1>1 DEF StartPass, Armed, TypeOK
  <2> QED
    BY <1>1, <2>2, <2>3, <2>4
    DEF StartPass, TypeOK, children, informers, user
<1>2. CASE AddFinalizer(o)
  <2> DEFINE new == [worker[o].tr EXCEPT !.finalizer = TRUE,
                                         !.status = router.status]
             next == Enter([worker[o].tr EXCEPT !.finalizer = TRUE], TRUE)
  <2>1. new \in Router
    BY <1>w, <1>r DEF Router
  <2>2. next \in Worker
    <3>1. [worker[o].tr EXCEPT !.finalizer = TRUE] \in Router
      BY <1>w DEF Router
    <3> QED
      BY <3>1, BeginType
  <2> HIDE DEF new, next
  <2>3. PICK applied \in BOOLEAN, ok \in BOOLEAN :
            /\ Call(Accepts(worker[o]), applied, ok)
            /\ StoreRouter(o, new, applied, FALSE, IF ok THEN next ELSE Idle)
            /\ Return(o, ~ok, ok /\ Skips(worker[o].tr))
    BY <1>2 DEF AddFinalizer, new, next
  <2>4. (IF ok THEN next ELSE Idle) \in Worker
    BY <2>2, ConstantTypes
  <2>5. /\ router' \in Router
        /\ fresh' \in [Operators -> SUBSET Kinds]
        /\ worker' \in [Operators -> Worker]
    BY <2>1, <2>3, <2>4, StoreRouterType
  <2>6. faults' \in 0..MaxFaults
    BY <2>3, CallType
  <2>7. queue' \in [Operators -> BOOLEAN] /\ timer' \in [Operators -> BOOLEAN]
    <3>1. (ok /\ Skips(worker[o].tr)) \in BOOLEAN
      OBVIOUS
    <3> QED
      BY <2>3, <3>1, ReturnType
  <2> QED
    BY <1>2, <2>5, <2>6, <2>7 DEF AddFinalizer, TypeOK, children, user
<1>3. CASE DrainCheck(o)
  <2>1. [worker[o] EXCEPT !.polls = @ + 1] \in Worker
    <3> DEFINE polls == worker[o].polls
    <3>1. polls < DrainPolls /\ polls \in 0..DrainPolls
      BY <1>3, <1>w DEF DrainCheck
    <3> HIDE DEF polls
    <3>3. polls + 1 \in 0..DrainPolls
      BY <3>1 DEF DrainPolls
    <3>2. ASSUME NEW n \in 0..DrainPolls
          PROVE  [worker[o] EXCEPT !.polls = n] \in Worker
      BY <1>w DEF Worker
    <3> QED
      BY <3>2, <3>3 DEF polls
  <2>2. worker' = [worker EXCEPT ![o] = [worker[o] EXCEPT !.polls = @ + 1]]
    BY <1>3 DEF DrainCheck, TypeOK
  <2>3. worker' \in [Operators -> Worker]
    BY <2>1, <2>2, WorkerMoves
  <2> QED
    BY <1>3, <2>3 DEF DrainCheck, TypeOK, Continue, children, informers, user
<1>4. CASE RemoveFinalizer(o)
  <2>1. PICK applied \in BOOLEAN, ok \in BOOLEAN :
            /\ Call(Accepts(worker[o]), applied, ok)
            /\ StoreRouter(o, NoRouter, applied, FALSE, Idle)
            /\ Return(o, ~ok, FALSE)
    BY <1>4 DEF RemoveFinalizer
  <2>2. /\ router' \in Router
        /\ fresh' \in [Operators -> SUBSET Kinds]
        /\ worker' \in [Operators -> Worker]
    BY <2>1, ConstantTypes, StoreRouterType
  <2>3. faults' \in 0..MaxFaults
    BY <2>1, CallType
  <2>4. queue' \in [Operators -> BOOLEAN] /\ timer' \in [Operators -> BOOLEAN]
    BY <2>1, ReturnType
  <2> QED
    BY <1>4, <2>2, <2>3, <2>4 DEF RemoveFinalizer, TypeOK, children, user
<1>5. CASE CheckPods(o)
  <2>1. PICK crashing \in Sightings, ok \in BOOLEAN :
            /\ Call(TRUE, ok, ok)
            /\ worker' = [worker EXCEPT ![o] =
                  CASE ~ok -> Idle
                    [] ok /\ crashing -> [worker[o] EXCEPT !.pc = "rollback"]
                    [] OTHER -> [worker[o] EXCEPT !.pc = "configMap",
                                   !.tr.status.good = worker[o].tr.config]]
            /\ Return(o, ~ok, FALSE)
    BY <1>5 DEF CheckPods
  <2>2. [worker[o] EXCEPT !.pc = "rollback"] \in Worker
    BY WorkerFields DEF Pcs
  <2>3. [worker[o] EXCEPT !.pc = "configMap",
                          !.tr.status.good = worker[o].tr.config] \in Worker
    BY <1>w DEF Worker, Router, Status, Pcs
  <2>4. worker' \in [Operators -> Worker]
    BY <2>1, <2>2, <2>3, ConstantTypes, WorkerMoves
  <2>5. faults' \in 0..MaxFaults
    BY <2>1, CallType
  <2>6. queue' \in [Operators -> BOOLEAN] /\ timer' \in [Operators -> BOOLEAN]
    BY <2>1, ReturnType
  <2> QED
    BY <1>5, <2>4, <2>5, <2>6 DEF CheckPods, TypeOK, children, informers, user
<1>6. CASE RollbackConfig(o)
  <2>1. Failing(worker[o], "RollbackFailed") \in Worker
    BY <1>w, FailingType DEF ErrorPhases
  <2>2. [worker[o] EXCEPT !.pc = "rollbackDeployment",
                          !.goal = cache[o].configMap.snapshot] \in Worker
    BY <1>w, <1>c DEF Worker, ConfigMap, Pcs
  <2>3. Restored(cache[o].configMap) \in ConfigMap
    BY <1>c DEF Restored, ConfigMap
  <2>4. /\ worker' \in [Operators -> Worker]
        /\ configMap' \in ConfigMap
        /\ fresh' \in [Operators -> SUBSET Kinds]
        /\ faults' \in 0..MaxFaults
    <3>1. CASE cache[o].configMap.snapshot = None
      BY <1>6, <2>1, <3>1, WorkerMoves DEF RollbackConfig, TypeOK
    <3>2. CASE cache[o].configMap.snapshot # None
      <4>1. PICK applied \in BOOLEAN, ok \in BOOLEAN :
              /\ Call("configMap" \in fresh[o], applied, ok)
              /\ configMap' = IF applied THEN Restored(cache[o].configMap)
                                         ELSE configMap
              /\ fresh' = IF configMap' # configMap THEN Outdate("configMap")
                                                    ELSE fresh
              /\ worker' = [worker EXCEPT ![o] =
                    IF ok THEN [worker[o] EXCEPT !.pc = "rollbackDeployment",
                                     !.goal = cache[o].configMap.snapshot]
                          ELSE Failing(worker[o], "RollbackFailed")]
        BY <1>6, <3>2 DEF RollbackConfig
      <4>2. faults' \in 0..MaxFaults
        BY <4>1, CallType
      <4>3. worker' \in [Operators -> Worker]
        BY <4>1, <2>1, <2>2, WorkerMoves
      <4> QED
        BY <4>1, <4>2, <4>3, <2>3, OutdateType DEF TypeOK
    <3> QED
      BY <3>1, <3>2
  <2> QED
    BY <1>6, <2>4 DEF RollbackConfig, TypeOK, Continue, user
<1>7. CASE WriteRolledBack(o)
  <2> DEFINE status == RolledBackStatus(worker[o].tr, worker[o].goal)
  <2>1. [router EXCEPT !.status = status] \in Router
    BY <1>w, <1>r DEF RolledBackStatus, Router, Status, Phases
  <2>2. \E applied, ok \in BOOLEAN :
            /\ Call(Accepts(worker[o]), applied, ok)
            /\ StoreRouter(o, [router EXCEPT !.status = status], applied,
                           FALSE, Idle)
            /\ Return(o, ~ok, ok)
    BY <1>7 DEF WriteRolledBack
  <2> HIDE DEF status
  <2>3. /\ router' \in Router
        /\ fresh' \in [Operators -> SUBSET Kinds]
        /\ worker' \in [Operators -> Worker]
    BY <2>1, <2>2, ConstantTypes, StoreRouterType
  <2>4. faults' \in 0..MaxFaults
    BY <2>2, CallType
  <2>5. queue' \in [Operators -> BOOLEAN] /\ timer' \in [Operators -> BOOLEAN]
    BY <2>2, ReturnType
  <2> QED
    BY <1>7, <2>3, <2>4, <2>5 DEF WriteRolledBack, TypeOK, children, user
<1>8. CASE ApplyConfigMap(o)
  <2> DEFINE seen == cache[o].configMap
             missing == seen.owner = 0
             want == IF missing
                     THEN [NoConfigMap EXCEPT !.owner = worker[o].tr.uid,
                                              !.config = worker[o].goal]
                     ELSE Overwritten(seen, worker[o].goal)
  <2>1. want \in ConfigMap
    BY <1>c, <1>w, ConstantTypes DEF ConfigMap, Overwritten
  <2>2. /\ Failing(worker[o], "ConfigMapError") \in Worker
        /\ [worker[o] EXCEPT !.pc = "deployment"] \in Worker
    BY <1>w, FailingType, WorkerFields DEF ErrorPhases, Pcs
  <2>3. /\ worker' \in [Operators -> Worker]
        /\ configMap' \in ConfigMap
        /\ fresh' \in [Operators -> SUBSET Kinds]
        /\ faults' \in 0..MaxFaults
    <3>1. CASE seen.config = worker[o].goal
      BY <1>8, <2>2, <3>1, WorkerMoves DEF ApplyConfigMap, TypeOK, Goto
    <3>2. CASE seen.config # worker[o].goal
      <4>1. PICK applied \in BOOLEAN, ok \in BOOLEAN :
              /\ Call(IF missing THEN configMap.owner = 0
                                 ELSE "configMap" \in fresh[o], applied, ok)
              /\ configMap' = IF applied THEN want ELSE configMap
              /\ fresh' = IF applied THEN Outdate("configMap") ELSE fresh
              /\ worker' = [worker EXCEPT ![o] =
                    IF ok THEN [worker[o] EXCEPT !.pc = "deployment"]
                          ELSE Failing(worker[o], "ConfigMapError")]
        BY <1>8, <3>2 DEF ApplyConfigMap
      <4>2. faults' \in 0..MaxFaults
        BY <4>1, CallType
      <4>3. worker' \in [Operators -> Worker]
        BY <4>1, <2>2, WorkerMoves
      <4> HIDE DEF want
      <4> QED
        BY <4>1, <4>2, <4>3, <2>1, OutdateType DEF TypeOK
    <3> QED
      BY <3>1, <3>2
  <2> QED
    BY <1>8, <2>3 DEF ApplyConfigMap, TypeOK, Continue, user
<1>9. CASE ApplyDeployment(o)
  <2> DEFINE seen == cache[o].deployment
             missing == seen.owner = 0
             want == [owner |-> IF missing THEN worker[o].tr.uid ELSE seen.owner,
                      config |-> worker[o].goal,
                      replicas |-> worker[o].tr.replicas]
             rollout == worker[o].pc = "deployment"
             done == [worker[o] EXCEPT
                        !.pc = IF rollout THEN "service" ELSE "rollbackStatus"]
  <2>1. want \in Deployment
    BY <1>c, <1>w DEF Deployment
  <2>2. /\ Failing(worker[o], "DeploymentError") \in Worker
        /\ done \in Worker
        /\ Idle \in Worker
    BY <1>w, FailingType, WorkerFields, ConstantTypes DEF ErrorPhases, Pcs
  <2>3. /\ worker' \in [Operators -> Worker]
        /\ deployment' \in Deployment
        /\ fresh' \in [Operators -> SUBSET Kinds]
        /\ faults' \in 0..MaxFaults
        /\ queue' \in [Operators -> BOOLEAN]
        /\ timer' \in [Operators -> BOOLEAN]
    <3>1. CASE seen = want
      BY <1>9, <2>2, <3>1, WorkerMoves DEF ApplyDeployment, TypeOK, Continue
    <3>2. CASE seen # want
      <4>1. PICK applied \in BOOLEAN, ok \in BOOLEAN :
              /\ Call(IF missing THEN deployment.owner = 0
                                 ELSE "deployment" \in fresh[o], applied, ok)
              /\ deployment' = IF applied THEN want ELSE deployment
              /\ fresh' = IF applied THEN Outdate("deployment") ELSE fresh
              /\ worker' = [worker EXCEPT ![o] =
                    CASE ok -> done
                      [] ~ok /\ rollout -> Failing(worker[o], "DeploymentError")
                      [] OTHER -> Idle]
              /\ Return(o, ~ok /\ ~rollout, FALSE)
        BY <1>9, <3>2 DEF ApplyDeployment
      <4> HIDE DEF want, done, rollout
      <4>2. faults' \in 0..MaxFaults
        BY <4>1, CallType
      <4>3. worker' \in [Operators -> Worker]
        BY <4>1, <2>2, WorkerMoves
      <4>4. /\ queue' \in [Operators -> BOOLEAN]
            /\ timer' \in [Operators -> BOOLEAN]
        BY <4>1, ReturnType
      <4> QED
        BY <4>1, <4>2, <4>3, <4>4, <2>1, OutdateType DEF TypeOK
    <3> QED
      BY <3>1, <3>2
  <2> QED
    BY <1>9, <2>3 DEF ApplyDeployment, TypeOK, user
<1>10. CASE ApplyService(o)
  <2>1. /\ Failing(worker[o], "ServiceError") \in Worker
        /\ [worker[o] EXCEPT !.pc = "status"] \in Worker
    BY <1>w, FailingType, WorkerFields DEF ErrorPhases, Pcs
  <2>2. [owner |-> worker[o].tr.uid] \in Service
    BY <1>w DEF Service
  <2>3. /\ worker' \in [Operators -> Worker]
        /\ service' \in Service
        /\ fresh' \in [Operators -> SUBSET Kinds]
        /\ faults' \in 0..MaxFaults
    <3>1. CASE cache[o].service.owner # 0
      BY <1>10, <2>1, <3>1, WorkerMoves DEF ApplyService, TypeOK, Goto
    <3>2. CASE cache[o].service.owner = 0
      <4>1. PICK applied \in BOOLEAN, ok \in BOOLEAN :
              /\ Call(service.owner = 0, applied, ok)
              /\ service' = IF applied THEN [owner |-> worker[o].tr.uid]
                                       ELSE service
              /\ fresh' = IF applied THEN Outdate("service") ELSE fresh
              /\ worker' = [worker EXCEPT ![o] =
                    IF ok THEN [worker[o] EXCEPT !.pc = "status"]
                          ELSE Failing(worker[o], "ServiceError")]
        BY <1>10, <3>2 DEF ApplyService
      <4>2. faults' \in 0..MaxFaults
        BY <4>1, CallType
      <4>3. worker' \in [Operators -> Worker]
        BY <4>1, <2>1, WorkerMoves
      <4> QED
        BY <4>1, <4>2, <4>3, <2>2, OutdateType DEF TypeOK
    <3> QED
      BY <3>1, <3>2
  <2> QED
    BY <1>10, <2>3 DEF ApplyService, TypeOK, Continue, user
<1>11. CASE WriteStatus(o)
  <2> DEFINE status == RolloutStatus(worker[o].tr)
  <2>1. [router EXCEPT !.status = status] \in Router
    <3>1. Window \in 0..Window /\ 0 \in 0..Window
      BY WindowAssumption
    <3>2. /\ [worker[o].tr.status EXCEPT !.phase = "Validating",
               !.hash = worker[o].tr.config, !.left = Window] \in Status
          /\ [worker[o].tr.status EXCEPT !.phase = "Ready",
               !.hash = worker[o].tr.config, !.left = 0] \in Status
      BY <3>1, <1>w DEF Status, Phases
    <3>3. status \in Status
      BY <3>2 DEF RolloutStatus
    <3> QED
      BY <3>3, <1>r DEF Router
  <2>2. CASE Steady(worker[o].tr)
    <3>1. worker' \in [Operators -> Worker]
      BY <1>11, <2>2, ConstantTypes, WorkerMoves DEF WriteStatus
    <3>2. /\ queue' \in [Operators -> BOOLEAN]
          /\ timer' \in [Operators -> BOOLEAN]
      BY <1>11, <2>2, ReturnType DEF WriteStatus
    <3> QED
      BY <1>11, <2>2, <3>1, <3>2 DEF WriteStatus, TypeOK, children, user
  <2>3. CASE ~Steady(worker[o].tr)
    <3>1. \E applied, ok \in BOOLEAN :
              /\ Call(Accepts(worker[o]), applied, ok)
              /\ StoreRouter(o, [router EXCEPT !.status = status], applied,
                             FALSE, Idle)
              /\ Return(o, ~ok, ok)
      BY <1>11, <2>3 DEF WriteStatus
    <3> HIDE DEF status
    <3>2. /\ router' \in Router
          /\ fresh' \in [Operators -> SUBSET Kinds]
          /\ worker' \in [Operators -> Worker]
      BY <2>1, <3>1, ConstantTypes, StoreRouterType
    <3>3. faults' \in 0..MaxFaults
      BY <3>1, CallType
    <3>4. /\ queue' \in [Operators -> BOOLEAN]
          /\ timer' \in [Operators -> BOOLEAN]
      BY <3>1, ReturnType
    <3> QED
      BY <1>11, <3>2, <3>3, <3>4 DEF WriteStatus, TypeOK, children, user
  <2> QED
    BY <2>2, <2>3
<1>12. CASE SetStatus(o)
  <2> DEFINE status == [worker[o].tr.status EXCEPT !.phase = worker[o].failure]
  <2>1. [router EXCEPT !.status = status] \in Router
    BY <1>w, <1>r DEF Router, Status, Phases
  <2>2. \E applied, ok, touched \in BOOLEAN :
            /\ Call(Accepts(worker[o]), applied, ok)
            /\ StoreRouter(o, [router EXCEPT !.status = status], applied,
                           touched, Idle)
            /\ Return(o, ~ok, FALSE)
    BY <1>12 DEF SetStatus
  <2> HIDE DEF status
  <2>3. /\ router' \in Router
        /\ fresh' \in [Operators -> SUBSET Kinds]
        /\ worker' \in [Operators -> Worker]
    BY <2>1, <2>2, ConstantTypes, StoreRouterType
  <2>4. faults' \in 0..MaxFaults
    BY <2>2, CallType
  <2>5. queue' \in [Operators -> BOOLEAN] /\ timer' \in [Operators -> BOOLEAN]
    BY <2>2, ReturnType
  <2> QED
    BY <1>12, <2>3, <2>4, <2>5 DEF SetStatus, TypeOK, children, user
<1> QED
  BY <1>1, <1>2, <1>3, <1>4, <1>5, <1>6, <1>7, <1>8, <1>9, <1>10, <1>11, <1>12
  DEF Step

LEMMA AgedType ==
    ASSUME NEW tr \in Router
    PROVE  Aged(tr) \in Router
<1>1. tr.status \in Status /\ tr.status.left \in 0..Window
  BY DEF Router, Status
<1>2. \A n \in 0..Window : [tr EXCEPT !.status.left = n] \in Router
  BY <1>1 DEF Router, Status
<1> DEFINE left == tr.status.left
<1>3. left \in 0..Window
  BY <1>1
<1> HIDE DEF left
<1>4. (IF left = 0 THEN 0 ELSE left - 1) \in 0..Window
  BY <1>3, WindowAssumption
<1> QED
  BY <1>2, <1>4 DEF Aged, left

LEMMA RuntimeType ==
    ASSUME TypeOK, NEW o \in Operators, Runtime(o) \/ Crash(o) \/ Boot(o)
    PROVE  TypeOK'
<1> DEFINE Copies == [router : Router, configMap : ConfigMap,
                      deployment : Deployment, service : Service]
<1>s. Stored \in Copies
  BY DEF TypeOK, Stored
<1>1. ASSUME NEW k \in Kinds, Deliver(o, k)
      PROVE  TypeOK'
  <2>1. [cache[o] EXCEPT ![k] = Stored[k]] \in Copies
    <3>1. cache[o] \in Copies
      BY DEF TypeOK
    <3> QED
      BY <1>s, <3>1
  <2>2. cache' \in [Operators -> Copies]
    BY <1>1, <2>1 DEF Deliver, TypeOK
  <2>3. fresh' \in [Operators -> SUBSET Kinds]
    BY <1>1 DEF Deliver, TypeOK
  <2>4. queue' \in [Operators -> BOOLEAN]
    BY <1>1 DEF Deliver, TypeOK
  <2> QED
    BY <1>1, <2>2, <2>3, <2>4 DEF Deliver, TypeOK, children, user
<1>2. CASE TimerFires(o)
  BY <1>2 DEF TimerFires, TypeOK, children, informers, user
<1>3. CASE Crash(o)
  <2>1. restarts' \in 0..MaxRestarts /\ torn' \in BOOLEAN
    BY <1>3, BoundsAssumption DEF Crash, TypeOK
  <2>2. worker' \in [Operators -> Worker]
    BY <1>3, ConstantTypes, WorkerMoves DEF Crash
  <2>3. cache' \in [Operators -> Copies]
    BY <1>3, ConstantTypes DEF Crash, TypeOK, NoCache
  <2>4. fresh' \in [Operators -> SUBSET Kinds]
    BY <1>3 DEF Crash, TypeOK
  <2>5. queue' \in [Operators -> BOOLEAN] /\ timer' \in [Operators -> BOOLEAN]
    BY <1>3 DEF Crash, TypeOK
  <2> QED
    BY <1>3, <2>1, <2>2, <2>3, <2>4, <2>5 DEF Crash, TypeOK, children, user
<1>4. CASE Boot(o)
  <2>1. worker' \in [Operators -> Worker]
    BY <1>4, ConstantTypes, WorkerMoves DEF Boot
  <2>2. cache' \in [Operators -> Copies]
    BY <1>4, <1>s DEF Boot, TypeOK
  <2>3. fresh' \in [Operators -> SUBSET Kinds]
    BY <1>4 DEF Boot, TypeOK
  <2>4. queue' \in [Operators -> BOOLEAN]
    BY <1>4 DEF Boot, TypeOK
  <2> QED
    BY <1>4, <2>1, <2>2, <2>3, <2>4 DEF Boot, TypeOK, children, user
<1> QED
  BY <1>1, <1>2, <1>3, <1>4 DEF Runtime

LEMMA ClusterType ==
    ASSUME TypeOK, Cluster
    PROVE  TypeOK'
<1>1. CASE Tick
  <2>1. router' \in Router
    BY <1>1, AgedType DEF Tick, TypeOK
  <2>2. ASSUME NEW o \in Operators
        PROVE  /\ [cache[o] EXCEPT !.router = Aged(cache[o].router)] \in
                     [router : Router, configMap : ConfigMap,
                      deployment : Deployment, service : Service]
               /\ [worker[o] EXCEPT !.tr = Aged(worker[o].tr)] \in Worker
    <3>1. cache[o].router \in Router /\ worker[o].tr \in Router
      BY DEF TypeOK, Worker
    <3>2. Aged(cache[o].router) \in Router /\ Aged(worker[o].tr) \in Router
      BY <3>1, AgedType
    <3> QED
      <4>1. ASSUME NEW w \in Worker, NEW tr \in Router
            PROVE  [w EXCEPT !.tr = tr] \in Worker
        BY DEF Worker
      <4>2. worker[o] \in Worker
        BY DEF TypeOK
      <4>3. [worker[o] EXCEPT !.tr = Aged(worker[o].tr)] \in Worker
        BY <4>1, <4>2, <3>2
      <4> QED
        BY <4>3, <3>2 DEF TypeOK
  <2>3. /\ cache' \in [Operators ->
                        [router : Router, configMap : ConfigMap,
                         deployment : Deployment, service : Service]]
        /\ worker' \in [Operators -> Worker]
    BY <1>1, <2>2 DEF Tick
  <2> QED
    BY <1>1, <2>1, <2>3 DEF Tick, TypeOK, children, user
<1>2. ASSUME NEW new \in SUBSET Hashes, PodsBecome(new)
      PROVE  TypeOK'
  <2>1. fresh' \in [Operators -> SUBSET Kinds]
    BY <1>2, OutdateType DEF PodsBecome
  <2> QED
    BY <1>2, <2>1 DEF PodsBecome, TypeOK, children, user
<1>3. configMap.config \in Hashes /\ pods \subseteq Hashes
  BY DEF TypeOK, ConfigMap
<1>4. CASE PodStarts
  BY <1>2, <1>3, <1>4 DEF PodStarts
<1>5. CASE CrashingPodRestarts
  BY <1>2, <1>3, <1>5 DEF CrashingPodRestarts
<1>6. CASE OldPodsRetire
  BY <1>2, <1>3, <1>6 DEF OldPodsRetire
<1>7. CASE CollectConfigMap
  BY <1>7, OutdateType, ConstantTypes DEF CollectConfigMap, TypeOK, user
<1>8. CASE CollectDeployment
  BY <1>8, OutdateType, ConstantTypes DEF CollectDeployment, TypeOK, user
<1>9. CASE CollectService
  BY <1>9, OutdateType, ConstantTypes DEF CollectService, TypeOK, user
<1> QED
  BY <1>1, <1>4, <1>5, <1>6, <1>7, <1>8, <1>9 DEF Cluster

LEMMA UsersType ==
    ASSUME TypeOK, Users
    PROVE  TypeOK'
<1>1. ASSUME NEW new \in Router, UserWrites(new)
      PROVE  /\ router' \in Router
             /\ fresh' \in [Operators -> SUBSET Kinds]
             /\ worker' \in [Operators -> Worker]
             /\ UNCHANGED <<configMap, deployment, service, pods, cache, queue,
                            timer, faults, restarts, torn>>
  BY <1>1, OutdateType DEF UserWrites, children
<1>2. CASE CreateRouter
  <2>1. creates' = creates + 1 /\ creates' \in 0..MaxCreates /\ edits' = edits
    BY <1>2, BoundsAssumption DEF CreateRouter, TypeOK
  <2>2. PICK c \in Configs, n \in Replicas :
            UserWrites([NoRouter EXCEPT !.uid = creates + 1, !.config = c,
                                        !.replicas = n])
    BY <1>2 DEF CreateRouter
  <2>3. creates + 1 \in Uids
    BY <2>1 DEF Uids
  <2>4. [NoRouter EXCEPT !.uid = creates + 1, !.config = c, !.replicas = n]
            \in Router
    <3>1. ASSUME NEW u \in Uids
          PROVE  [NoRouter EXCEPT !.uid = u, !.config = c, !.replicas = n]
                     \in Router
      BY ConstantTypes DEF Router, Hashes
    <3> QED
      BY <2>3, <3>1
  <2> QED
    BY <1>1, <2>1, <2>2, <2>4 DEF TypeOK
<1>3. CASE EditSpec
  <2>1. edits' \in 0..MaxEdits /\ creates' = creates
    BY <1>3, BoundsAssumption DEF EditSpec, TypeOK
  <2>2. PICK c \in Configs, n \in Replicas :
            UserWrites([router EXCEPT !.config = c, !.replicas = n])
    BY <1>3 DEF EditSpec
  <2>3. [router EXCEPT !.config = c, !.replicas = n] \in Router
    BY DEF TypeOK, Router, Hashes
  <2> QED
    BY <1>1, <2>1, <2>2, <2>3 DEF TypeOK
<1>4. CASE DeleteRouter
  <2>1. [router EXCEPT !.deleting = TRUE] \in Router
    BY DEF TypeOK, Router
  <2>2. UserWrites([router EXCEPT !.deleting = TRUE]) \/ UserWrites(NoRouter)
    BY <1>4 DEF DeleteRouter
  <2> QED
    BY <1>1, <1>4, <2>1, <2>2, ConstantTypes DEF DeleteRouter, TypeOK, user
<1> QED
  BY <1>2, <1>3, <1>4 DEF Users

\* Every variable keeps its type, whatever the values of the constants.
THEOREM Typing == Spec => []TypeOK
<1>1. ASSUME Init
      PROVE  TypeOK
  <2>1. torn \in BOOLEAN
    BY <1>1 DEF Init
  <2> QED
    BY <1>1, <2>1, ConstantTypes, BoundsAssumption DEF Init, TypeOK, Stored
<1>2. TypeOK /\ [Next]_vars => TypeOK'
  <2> SUFFICES ASSUME TypeOK, [Next]_vars
               PROVE  TypeOK'
    OBVIOUS
  <2>1. CASE UNCHANGED vars
    BY <2>1 DEF vars, children, informers, user, TypeOK
  <2> QED
    BY <2>1, StepType, RuntimeType, ClusterType, UsersType DEF Next
<1> QED
  BY <1>1, <1>2, PTL DEF Spec
=============================================================================
