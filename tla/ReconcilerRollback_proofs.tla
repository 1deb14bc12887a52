---------------------- MODULE ReconcilerRollback_proofs ----------------------
(***************************************************************************)
(* A rollback has a healthy target, it takes place where it is reported,   *)
(* and what is reported is deployed: RolloutSound and FlaggedIsCrashing    *)
(* for one operator that may stop at any moment and start again at any     *)
(* later one, and whose calls may fail or whose caches may lag.            *)
(***************************************************************************)
EXTENDS ReconcilerSafety_proofs

-----------------------------------------------------------------------------
(* What an orderly cluster means for a step. *)

LEMMA OneOperator ==
    ASSUME Orderly, NEW o \in Operators
    PROVE  Operators = {o}
BY DEF Orderly

\* A worker that waits for its caches sees what the server holds.
LEMMA ReadsTheServer ==
    ASSUME IInv, ~StaleReads, NEW o \in Operators
    PROVE  /\ Readable(o, "router")
                 => "router" \in fresh[o] /\ cache[o].router = router
           /\ Readable(o, "configMap")
                 => "configMap" \in fresh[o] /\ cache[o].configMap = configMap
           /\ Readable(o, "deployment")
                 => "deployment" \in fresh[o] /\ cache[o].deployment = deployment
BY DEF Readable, IInv, UpToDate

\* Where the caches lag no call fails that the server can serve.
LEMMA NoFaults ==
    ASSUME TypeOK, Orderly, StaleReads,
           NEW accepted, NEW applied, NEW ok, Call(accepted, applied, ok),
           accepted
    PROVE  ok
BY BoundsAssumption DEF TypeOK, Orderly, Call

LEMMA Typed ==
    ASSUME TypeOK, NEW o \in Operators
    PROVE  /\ router \in Router /\ router.status \in Status
           /\ configMap \in ConfigMap /\ deployment \in Deployment
           /\ worker[o] \in Worker /\ worker[o].tr \in Router
           /\ worker[o].tr.status \in Status
           /\ worker[o].current \in BOOLEAN
           /\ cache[o].router \in Router
           /\ router.status.left \in Nat
<1>1. worker[o] \in Worker /\ router \in Router /\ cache[o].router \in Router
  BY DEF TypeOK
<1>2. worker[o].tr \in Router /\ worker[o].current \in BOOLEAN
  BY <1>1 DEF Worker
<1>3. \A tr \in Router : tr.status \in Status /\ tr.status.left \in Nat
  BY WindowAssumption DEF Router, Status
<1> QED
  BY <1>1, <1>2, <1>3 DEF TypeOK

\* A pass that is under way with the current version has the router in hand,
\* with or without the promotion that it is about to write.
LEMMA PassInHand ==
    ASSUME TypeOK, IInv, OInv, NEW o \in Operators,
           Passing(worker[o]), worker[o].current
    PROVE  LET tr == worker[o].tr IN
           /\ Live
           /\ tr.config \in Configs /\ tr.config # None
           /\ tr.uid = router.uid /\ tr.config = router.config
           /\ tr.status.phase = router.status.phase
           /\ tr.status.hash = router.status.hash
           /\ tr.status.bad = router.status.bad
           /\ tr.status.left = router.status.left
           /\ tr.status.good # router.status.good
                 => /\ worker[o].pc \in {"configMap", "deployment", "service",
                                         "status", "fail"}
                    /\ tr.status.good = tr.config
                    /\ InTrial(router) /\ router.status.left = 0
<1> DEFINE tr == worker[o].tr
<1>1. Holds(worker[o]) /\ Knows(worker[o]) /\ InHand(worker[o])
  BY DEF OInv, IInv
<1>2. tr.deleting = router.deleting /\ tr.uid = router.uid
  <2>1. CASE tr = router
    BY <2>1
  <2>2. CASE tr = [router EXCEPT !.status.good = router.config]
    BY <2>2, Typed DEF Router
  <2> QED
    BY <1>1, <2>1, <2>2 DEF InHand
<1>3. Live
  BY <1>1, <1>2 DEF Live, Holds, Knows, Passing
<1> QED
  BY <1>2, <1>3, HandRefines

\* A rollout with the current version has promoted what is on trial.
LEMMA RolloutPromotes ==
    ASSUME TypeOK, IInv, OInv, NEW o \in Operators, worker[o].current,
           worker[o].pc \in {"configMap", "deployment", "service", "status"},
           router.status.phase = "Validating"
    PROVE  ~Crashes /\ worker[o].tr.status.good = router.config
<1>1. Passing(worker[o])
  BY DEF Passing
<1>2. Live /\ Told /\ Reached(worker[o]) /\ Knows(worker[o])
  BY <1>1, PassInHand DEF OInv, IInv
<1> QED
  BY <1>1, <1>2, PassInHand DEF Told, Reached, Knows, InTrial

\* When the operator is at ease with a live router, no pass is pending and the
\* status is true.
LEMMA AtEaseReported ==
    ASSUME OInv, Live, AtEase
    PROVE  /\ ~Pending
           /\ \A o \in Operators : ~Passing(worker[o])
           /\ router.status.phase = "Validating" =>
                 Deployed(router.config) /\ (router.status.left = 0 => Seen)
           /\ router.status.phase \in {"Ready", "RolledBack"}
                 => /\ Deployed(router.status.good)
                    /\ router.config \in {router.status.good, router.status.bad}
<1>1. \A o \in Operators : /\ ~Passing(worker[o]) /\ ~queue[o]
                           /\ "router" \in fresh[o]
  BY DEF AtEase, Resting, Passing, Kinds
<1>2. ~Pending
  BY <1>1 DEF Pending
<1> QED
  BY <1>1, <1>2 DEF OInv, Reported, Undecided

\* Where the one operator runs, nobody is away.
LEMMA NobodyAway ==
    ASSUME Orderly, NEW o \in Operators, worker'[o].pc # "down"
    PROVE  ~Away'
BY OneOperator DEF Away

-----------------------------------------------------------------------------
(* A pass that goes on, and one that ends. *)

\* The router is the same but for its finalizer, and no rollback is torn.
SameRouter ==
    /\ UNCHANGED torn
    /\ router'.uid = router.uid /\ router'.deleting = router.deleting
    /\ router'.config = router.config /\ router'.status = router.status
    /\ router.finalizer => router'.finalizer

SameChildren == UNCHANGED <<configMap, deployment>>

\* The informers of o show what they did, and are as up to date.
SameInformers(o) ==
    /\ UNCHANGED cache
    /\ \A k \in {"router", "configMap", "deployment"} :
          k \in fresh'[o] <=> k \in fresh[o]

\* While a pass is pending the report is as good as it was.
LEMMA StillReported ==
    ASSUME OInv, Live, SameRouter, SameChildren, UNCHANGED pods, Pending',
           Away' => Away
    PROVE  Reported'
<1>1. Deployed(router.config) => Deployed(router.config)'
  BY DEF SameRouter, SameChildren, Deployed
<1>2. Deployed(router.status.good) => Deployed(router.status.good)'
  BY DEF SameRouter, SameChildren, Deployed
<1>3. (Seen => Seen') /\ (Undecided => Undecided')
  BY DEF Seen, Undecided, SameRouter, SameChildren, Crashes
<1> QED
  BY <1>1, <1>2, <1>3 DEF OInv, Reported, SameRouter

LEMMA StillTrails ==
    ASSUME OInv, NEW o \in Operators, router'.uid = router.uid,
           UNCHANGED cache, "router" \in fresh'[o] <=> "router" \in fresh[o],
           worker'[o].current => worker[o].current
    PROVE  Trails(o)'
BY DEF OInv, Trails

\* A step that changes a pass, or what it writes.
LEMMA PassWrites ==
    ASSUME OInv, NEW o \in Operators, SameRouter, UNCHANGED pods,
           Family', Holds(worker[o])', Trails(o)',
           Live => /\ Backed' /\ Reported' /\ Reached(worker[o])'
                   /\ StaleReads => Lags(o)'
    PROVE  OInv'
<1>1. Operators = {o}
  BY OneOperator DEF OInv
<1>2. Live' = Live
  BY DEF Live, SameRouter
<1>3. PromotedIsHealthy' /\ FlaggedIsCrashing'
  BY DEF OInv, PromotedIsHealthy, FlaggedIsCrashing, SameRouter
<1>4. Live => Told' /\ Observed'
  BY DEF OInv, Told, Observed, SameRouter, Seen, Crashes
<1> QED
  BY <1>1, <1>2, <1>3, <1>4 DEF OInv, Orderly

\* A step that changes a pass and nothing that it is about.
LEMMA PassTurns ==
    ASSUME OInv, NEW o \in Operators, SameRouter, SameChildren, UNCHANGED pods,
           Holds(worker[o])', Trails(o)',
           Live => /\ Reported' /\ Reached(worker[o])'
                   /\ StaleReads => Lags(o)'
    PROVE  OInv'
<1>1. Family'
  BY DEF OInv, Family, SameRouter, SameChildren
<1>2. Live => Backed'
  BY DEF OInv, Backed, Misled, SameRouter, SameChildren
<1> QED
  BY <1>1, <1>2, PassWrites

\* Harm depends on the status, the spec and what the children hold.
LEMMA StillHarmless ==
    ASSUME NEW tr, Harmless(tr), UNCHANGED <<router, pods>>,
           \/ UNCHANGED configMap
           \/ router.status.phase \in ErrorPhases,
           \/ deployment'.config = deployment.config
           \/ router.status.phase \in ErrorPhases
    PROVE  Harmless(tr)'
<1>1. "" \notin ErrorPhases /\ "Validating" \notin ErrorPhases
      /\ "Ready" \notin ErrorPhases /\ "RolledBack" \notin ErrorPhases
  BY DEF ErrorPhases
<1> QED
  BY <1>1 DEF Harmless, Deployed, Crashes

\* A pass that moves on leaves the informers where they were.
LEMMA SameLags ==
    ASSUME OInv, Live, StaleReads, NEW o \in Operators,
           UNCHANGED <<router, configMap, deployment, pods>>, SameInformers(o),
           worker[o].pc # "down", ~Restoring(worker[o]), PassHarmless(o)'
    PROVE  Lags(o)'
<1>1. Lags(o)
  BY DEF OInv
<1>2. \A tr : Harmless(tr) => Harmless(tr)'
  BY StillHarmless
<1>3. CacheHarmless(o)'
  BY <1>1, <1>2 DEF Lags, CacheHarmless, SameInformers
<1>4. FreshInTrial(o)'
  BY <1>1 DEF Lags, FreshInTrial, Closed, SameInformers, Crashes
<1>5. ConfigMapLags(o)' /\ DeploymentLags(o)'
  BY <1>1 DEF Lags, ConfigMapLags, DeploymentLags, SameInformers, Undone
<1> QED
  BY <1>3, <1>4, <1>5 DEF Lags

\* A step that leaves all of it alone.
LEMMA LagsStay ==
    ASSUME OInv, Live, StaleReads, NEW o \in Operators,
           UNCHANGED <<router, configMap, deployment, pods, worker>>,
           SameInformers(o), queue[o] => queue'[o]
    PROVE  Lags(o)'
<1>1. Lags(o)
  BY DEF OInv
<1>2. \A tr : Harmless(tr) => Harmless(tr)'
  BY StillHarmless
<1>3. CacheHarmless(o)'
  BY <1>1, <1>2 DEF Lags, CacheHarmless, SameInformers
<1>4. PassHarmless(o)'
  BY <1>1, <1>2 DEF Lags, PassHarmless, SameInformers, Crashes
<1>5. FreshInTrial(o)'
  BY <1>1 DEF Lags, FreshInTrial, Closed, SameInformers, Crashes
<1>6. ConfigMapLags(o)' /\ DeploymentLags(o)'
  BY <1>1 DEF Lags, ConfigMapLags, DeploymentLags, SameInformers, Undone
<1> QED
  BY <1>3, <1>4, <1>5, <1>6 DEF Lags

\* A pass with the current version that writes a child.
LEMMA CurrentLags ==
    ASSUME OInv, NEW o \in Operators, worker[o].current,
           ~Passing(worker'[o]) \/ worker'[o].current,
           UNCHANGED <<router, cache>>,
           "router" \in fresh'[o] <=> "router" \in fresh[o],
           FreshInTrial(o)', ConfigMapLags(o)', DeploymentLags(o)'
    PROVE  Lags(o)'
<1>1. CacheHarmless(o)'
  BY DEF OInv, Trails, CacheHarmless
<1>2. PassHarmless(o)'
  BY DEF PassHarmless, Passing
<1> QED
  BY <1>1, <1>2 DEF Lags

\* A pass with an outdated copy that goes on.
LEMMA StaleLags ==
    ASSUME OInv, Live, NEW o \in Operators,
           Passing(worker[o]), ~worker[o].current, ~worker'[o].current,
           worker[o].pc # "addFinalizer", worker'[o].pc # "addFinalizer",
           UNCHANGED <<router, pods, cache>>,
           "router" \in fresh'[o] <=> "router" \in fresh[o],
           queue[o] => queue'[o],
           \/ UNCHANGED configMap
           \/ /\ router.status.phase \in ErrorPhases
              /\ configMap'.config = router.config,
           \/ deployment'.config = deployment.config
           \/ /\ router.status.phase \in ErrorPhases
              /\ deployment'.config = router.config,
           LET w == worker[o]
               next == worker'[o]
           IN
           Passing(next) =>
              /\ next.tr.config = w.tr.config
              /\ next.tr.status.phase = w.tr.status.phase
              /\ next.tr.status.hash = w.tr.status.hash
              /\ next.tr.status.bad = w.tr.status.bad
              /\ next.pc \in {"rollback", "rollbackDeployment", "rollbackStatus"}
                    => Crashes
              /\ next.pc \in {"rollbackDeployment", "rollbackStatus"}
                    => /\ router.status.phase = "RolledBack"
                       /\ next.goal = router.status.good
              /\ next.pc \in {"configMap", "deployment", "service", "status"}
                    => (InTrial(w.tr) => ~Crashes)
    PROVE  Lags(o)'
<1> DEFINE w == worker[o]
<1>1. StaleReads
  BY DEF OInv, Holds
<1>2. Lags(o)
  BY <1>1 DEF OInv
<1>3. \A tr : Harmless(tr) => Harmless(tr)'
  BY StillHarmless
<1>4. Harmless(w.tr)
  BY <1>2 DEF Lags, PassHarmless
<1>5. CacheHarmless(o)'
  BY <1>2, <1>3 DEF Lags, CacheHarmless
<1>6. Passing(w)' => Harmless(w.tr)'
  <2> PICK old, new : old = w.tr /\ new = w.tr'
    OBVIOUS
  <2>1. Harmless(old)'
    BY <1>3, <1>4
  <2>2. Passing(w)' => Harmless(new)'
    BY <2>1 DEF Harmless, InTrial
  <2> QED
    BY <2>2
<1>7. PassHarmless(o)'
  <2>1. Passing(w)' => (InTrial(w.tr)' <=> InTrial(w.tr))
    BY DEF InTrial
  <2>2. queue'[o] \/ "router" \notin fresh'[o]
    BY <1>2 DEF Lags, PassHarmless
  <2> QED
    BY <1>6, <2>1, <2>2 DEF PassHarmless, Crashes
<1>8. FreshInTrial(o)'
  BY <1>4 DEF Harmless, FreshInTrial, Closed
<1>9. ConfigMapLags(o)' /\ DeploymentLags(o)'
  BY <1>2 DEF Lags, ConfigMapLags, DeploymentLags, Undone, Restoring
<1> QED
  BY <1>5, <1>7, <1>8, <1>9 DEF Lags

LEMMA IdleHolds == Holds(Idle) /\ Reached(Idle) /\ ~Passing(Idle)
BY IdleFields DEF Holds, Reached, Passing

\* A pass that ends with the router still in the queue.
LEMMA PassRetries ==
    ASSUME OInv, NEW o \in Operators,
           UNCHANGED <<router, configMap, deployment, pods, torn>>,
           SameInformers(o), worker[o].pc # "down", worker'[o] = Idle,
           queue'[o], StaleReads => ~Restoring(worker[o])
    PROVE  OInv'
<1>1. SameRouter /\ SameChildren
  BY DEF SameRouter, SameChildren
<1>2. Holds(worker[o])' /\ Reached(worker[o])'
  BY IdleHolds, IdleFields DEF Holds, Reached
<1>3. Trails(o)'
  BY IdleFields, StillTrails DEF SameInformers
<1>4. Live => Reported'
  BY <1>1, IdleFields, NobodyAway, StillReported DEF Pending, OInv
<1>5. PassHarmless(o)'
  BY IdleFields DEF PassHarmless, Passing
<1>6. Live /\ StaleReads => Lags(o)'
  BY <1>5, SameLags
<1> QED
  BY <1>1, <1>2, <1>3, <1>4, <1>6, PassTurns

\* The status is written from the copy in hand and the pass ends.
LEMMA StatusWritten ==
    ASSUME TypeOK, OInv, NEW o \in Operators, NEW status \in Status, Live,
           worker[o].current,
           router' = [router EXCEPT !.status = status], worker'[o] = Idle,
           fresh'[o] = fresh[o] \/ fresh'[o] = fresh[o] \ {"router"},
           SameChildren, UNCHANGED <<cache, pods, torn>>,
           ~torn => status.good \notin Crashing, status.bad \in Crashing \cup {None},
           Told', Backed', Reported', Observed',
           StaleReads =>
              /\ UpToDate(o)
              /\ \E old : old = router /\ Harmless(old)'
              /\ status.phase # "Validating" \/ status.left # 0
              /\ \/ Undone'
                 \/ ~Undone /\ ~Restoring(worker[o])
    PROVE  OInv'
<1>1. Operators = {o}
  BY OneOperator DEF OInv
<1>2. /\ router'.uid = router.uid /\ router'.status = status
      /\ router'.deleting = router.deleting /\ router'.config = router.config
      /\ router'.finalizer = router.finalizer
  BY Typed DEF Router
<1>3. Holds(worker[o])' /\ Reached(worker[o])'
  BY IdleHolds, IdleFields DEF Holds, Reached
<1>4. Family' /\ PromotedIsHealthy' /\ FlaggedIsCrashing'
  BY <1>2 DEF OInv, Family, PromotedIsHealthy, FlaggedIsCrashing, SameChildren
<1>5. Trails(o)'
  BY <1>2, IdleFields DEF OInv, Trails
<1>6. ASSUME StaleReads
      PROVE  Lags(o)'
  <2>1. PICK old : old = router /\ Harmless(old)'
    BY <1>6
  <2>2. Lags(o) /\ Trails(o) /\ UpToDate(o)
    BY <1>6 DEF OInv
  <2>3. "router" \in fresh[o] \/ ~cache[o].router.finalizer
    BY <2>2 DEF Trails
  <2>4. "router" \in fresh[o] => cache[o].router = old
    BY <2>1, <2>2 DEF UpToDate
  <2>5. CacheHarmless(o)'
    BY <2>1, <2>3, <2>4 DEF CacheHarmless
  <2>6. PassHarmless(o)'
    BY IdleFields DEF PassHarmless, Passing
  <2>7. FreshInTrial(o)'
    BY <1>2, <1>6 DEF FreshInTrial, Closed
  <2>8. ConfigMapLags(o)' /\ DeploymentLags(o)'
    BY <1>2, <1>6, <2>2 DEF Lags, ConfigMapLags, DeploymentLags, SameChildren
  <2> QED
    BY <2>5, <2>6, <2>7, <2>8 DEF Lags
<1> QED
  BY <1>1, <1>3, <1>4, <1>5, <1>6 DEF OInv, Orderly

-----------------------------------------------------------------------------
(* Reconcile, up to the first call that it cannot avoid. *)

LEMMA EnterHolds ==
    ASSUME NEW tr \in Router, NEW current \in BOOLEAN
    PROVE  LET next == Enter(tr, current) IN
           \/ next = Idle /\ Skips(tr)
           \/ /\ next.pc \in {"check", "configMap"}
              /\ next.tr = tr /\ next.current = current /\ next.goal = tr.config
              /\ next.pc = "configMap" => ~InTrial(tr)
<1>1. \A pc \in Pcs : Working(pc, tr, current).goal = tr.config
  BY ConstantTypes DEF Working, Worker
<1>2. CASE Skips(tr)
  BY <1>2 DEF Enter
<1>3. CASE ~Skips(tr) /\ InTrial(tr)
  <2>1. Enter(tr, current) = Working("check", tr, current)
    BY <1>3 DEF Enter
  <2> QED
    BY <1>1, <2>1, WorkingFields DEF Pcs
<1>4. CASE ~Skips(tr) /\ ~InTrial(tr)
  <2>1. Enter(tr, current) = Working("configMap", tr, current)
    BY <1>4 DEF Enter
  <2> QED
    BY <1>1, <1>4, <2>1, WorkingFields DEF Pcs
<1> QED
  BY <1>2, <1>3, <1>4

LEMMA BeginHolds ==
    ASSUME NEW tr \in Router, NEW current \in BOOLEAN
    PROVE  LET next == Begin(tr, current) IN
           \/ next = Idle /\ (tr.uid = 0 \/ (~tr.deleting /\ Skips(tr)))
           \/ /\ next.pc \in {"drain", "addFinalizer", "check", "configMap"}
              /\ next.tr = tr /\ next.current = current /\ next.goal = tr.config
              /\ next.pc = "drain" <=> tr.deleting
              /\ next.pc = "addFinalizer" => ~tr.finalizer
              /\ next.pc \in {"check", "configMap"} => tr.finalizer
              /\ next.pc = "configMap" => ~InTrial(tr)
<1>1. \A pc \in Pcs : Working(pc, tr, current).goal = tr.config
  BY ConstantTypes DEF Working, Worker
<1>2. CASE tr.uid = 0
  BY <1>2 DEF Begin
<1>3. CASE tr.uid # 0 /\ tr.deleting
  <2>1. Begin(tr, current) = Working("drain", tr, current)
    BY <1>3 DEF Begin
  <2> QED
    BY <1>1, <1>3, <2>1, WorkingFields DEF Pcs
<1>4. CASE tr.uid # 0 /\ ~tr.deleting /\ NeedsFinalizer(tr)
  <2>1. Begin(tr, current) = Working("addFinalizer", tr, current)
    BY <1>4 DEF Begin
  <2> QED
    BY <1>1, <1>4, <2>1, WorkingFields DEF Pcs, NeedsFinalizer
<1>5. CASE tr.uid # 0 /\ ~tr.deleting /\ ~NeedsFinalizer(tr)
  <2>1. Begin(tr, current) = Enter(tr, current)
    BY <1>5 DEF Begin
  <2> QED
    BY <1>5, <2>1, EnterHolds DEF NeedsFinalizer
<1> QED
  BY <1>2, <1>3, <1>4, <1>5

\* A pass with the current version that has only just begun.
LEMMA JustBegun ==
    ASSUME NEW w, w.pc \in {"drain", "addFinalizer", "check", "configMap"},
           w.tr.status.good = router.status.good
    PROVE  Reached(w)
BY DEF Reached

\* What a pass skips has been reported already.
LEMMA SkipsReported ==
    ASSUME TypeOK, OInv, Live, Skips(router), SameRouter, SameChildren,
           UNCHANGED pods
    PROVE  Reported'
<1>1. router.status.left \in Nat
  BY Typed, OperatorsAssumption
<1>2. Told /\ Reported
  BY DEF OInv
<1>3. CASE router.config = router.status.bad
  BY <1>2, <1>3 DEF Reported, Told, SameRouter, SameChildren, Deployed
<1>4. CASE InTrial(router) /\ router.status.left # 0
  BY <1>2, <1>4
  DEF Reported, InTrial, SameRouter, SameChildren, Deployed, Undecided
<1> QED
  BY <1>1, <1>3, <1>4 DEF Skips

\* What StartPass finds, in a cache that may lag: nothing to do, or a pass to
\* begin.
LEMMA StartPassOrderly ==
    ASSUME TypeOK, IInv, OInv, NEW o \in Operators, StartPass(o)
    PROVE  OInv'
<1> DEFINE tr == cache[o].router
           current == "router" \in fresh[o]
           next == Begin(tr, current)
<1>1. worker' = [worker EXCEPT ![o] = next]
  BY DEF StartPass
<1>2. worker'[o] = next
  BY <1>1 DEF TypeOK
<1>3. SameRouter /\ SameChildren /\ SameInformers(o)
      /\ UNCHANGED <<router, configMap, deployment, pods, torn>>
  BY DEF StartPass, SameRouter, SameChildren, SameInformers, children, informers
<1>4. worker[o].pc = "idle"
  BY DEF StartPass
<1>5. current => tr = router
  BY DEF IInv, UpToDate
<1>6. ~StaleReads => current
  BY DEF StartPass, Readable
<1>7. tr \in Router /\ current \in BOOLEAN
  BY Typed
<1>8. \/ next = Idle /\ (tr.uid = 0 \/ (~tr.deleting /\ Skips(tr)))
      \/ /\ next.pc \in {"drain", "addFinalizer", "check", "configMap"}
         /\ next.tr = tr /\ next.current = current /\ next.goal = tr.config
         /\ next.pc = "drain" <=> tr.deleting
         /\ next.pc = "addFinalizer" => ~tr.finalizer
         /\ next.pc \in {"check", "configMap"} => tr.finalizer
         /\ next.pc = "configMap" => ~InTrial(tr)
  BY <1>7, BeginHolds
<1>9. Trails(o)
  BY DEF OInv
<1> HIDE DEF next
<1>10. Holds(next)
  <2>1. CASE next = Idle
    BY <2>1, IdleHolds
  <2>2. CASE next # Idle
    <3>1. tr.finalizer /\ ~tr.deleting => tr.uid \in {0, router.uid}
      BY <1>9 DEF Trails
    <3>2. next.pc \in {"check", "configMap"} => tr.uid # 0
      <4>1. Knows(next)
        BY <1>7, BeginKnows DEF next
      <4> QED
        BY <1>8, <2>2, <4>1, IdleFields DEF Knows
    <3> QED
      BY <1>6, <1>8, <2>2, <3>1, <3>2 DEF Holds, Passing
  <2> QED
    BY <2>1, <2>2
<1>11. Holds(worker[o])'
  BY <1>2, <1>3, <1>10 DEF Holds, Live, Passing
<1>12. Trails(o)'
  BY <1>2, <1>3, <1>8, <1>9, IdleFields DEF Trails, SameInformers
<1>13. ASSUME Live
       PROVE  Reported' /\ Reached(worker[o])' /\ (StaleReads => Lags(o)')
  <2>1. Reached(next)
    BY <1>5, <1>8, IdleHolds, JustBegun DEF Reached
  <2>2. Reached(worker[o])'
    BY <1>2, <1>3, <2>1 DEF Reached, Crashes
  <2>3. Reported'
    <3>0. Away' => Away
      BY <1>2, <1>8, IdleFields, NobodyAway DEF OInv
    <3>1. CASE current /\ next = Idle
      BY <1>3, <1>5, <1>8, <1>13, <3>1, IdleFields, SkipsReported DEF Live
    <3>2. CASE current /\ next # Idle
      BY <1>2, <1>3, <1>5, <1>8, <1>13, <3>0, <3>2, StillReported
      DEF Live, Passing, Pending
    <3>3. CASE ~current
      BY <1>3, <1>13, <3>0, <3>3, StillReported DEF Pending, SameInformers
    <3> QED
      BY <3>1, <3>2, <3>3
  <2>4. ASSUME StaleReads
        PROVE  Lags(o)'
    <3>1. CacheHarmless(o)
      BY <1>13, <2>4 DEF OInv, Lags
    <3>2. Passing(next) /\ ~next.current /\ next.pc # "addFinalizer"
             => ~current /\ tr.uid = router.uid /\ tr.finalizer
                /\ next.tr = tr /\ next.pc \in {"check", "configMap"}
      BY <1>8, <1>10, IdleHolds DEF Holds, Passing
    <3>3. Passing(next) /\ ~next.current /\ next.pc # "addFinalizer"
             => Harmless(next.tr)
      BY <3>1, <3>2 DEF CacheHarmless
    <3>4. Passing(next) /\ ~next.current => ~current
      BY <1>8, IdleHolds
    <3>5. PassHarmless(o)'
      <4> PICK new : new = next
        OBVIOUS
      <4>1. Passing(new) /\ ~new.current /\ new.pc # "addFinalizer"
               => Harmless(new.tr)'
        BY <1>3, <3>3, StillHarmless
      <4>2. Passing(new) /\ ~new.current
               => /\ new.pc \in {"addFinalizer", "check", "configMap"}
                  /\ new.pc = "configMap" => ~InTrial(new.tr)
        BY <1>8, IdleHolds DEF Passing
      <4>3. worker'[o] = new
        BY <1>2
      <4>4. Passing(new) /\ ~new.current => "router" \notin fresh'[o]
        BY <1>3, <3>4 DEF SameInformers
      <4> HIDE DEF next
      <4> QED
        BY <4>1, <4>2, <4>3, <4>4 DEF PassHarmless
    <3>6. ~Restoring(worker[o])
      BY <1>4 DEF Restoring
    <3> QED
      BY <1>3, <1>4, <1>13, <2>4, <3>5, <3>6, SameLags
  <2> QED
    BY <2>2, <2>3, <2>4
<1> QED
  BY <1>3, <1>11, <1>12, <1>13, PassTurns

\* The finalizer is added before anything has been reported, and the cache that
\* falls behind shows a router that lacks it.
LEMMA AddFinalizerOrderly ==
    ASSUME TypeOK, IInv, OInv, NEW o \in Operators, AddFinalizer(o)
    PROVE  OInv'
<1> DEFINE w == worker[o]
           tr == [w.tr EXCEPT !.finalizer = TRUE]
           new == [w.tr EXCEPT !.finalizer = TRUE, !.status = router.status]
           next == Enter(tr, TRUE)
<1>1. PICK applied, ok \in BOOLEAN :
          /\ Call(Accepts(w), applied, ok)
          /\ StoreRouter(o, new, applied, FALSE, IF ok THEN next ELSE Idle)
          /\ Return(o, ~ok, ok /\ Skips(w.tr))
  BY DEF AddFinalizer
<1>2. w.pc = "addFinalizer" /\ w \in Worker /\ w.tr \in Router
  BY Typed DEF AddFinalizer
<1>3. /\ new.uid = w.tr.uid /\ new.deleting = w.tr.deleting
      /\ new.config = w.tr.config /\ new.status = router.status
      /\ new.finalizer
      /\ tr \in Router
      /\ tr.uid = w.tr.uid /\ tr.deleting = w.tr.deleting
      /\ tr.config = w.tr.config /\ tr.status = w.tr.status
  BY <1>2 DEF Router
<1>4. UNCHANGED <<configMap, deployment, pods, cache, torn>> /\ SameChildren
  BY DEF AddFinalizer, SameChildren, children
<1>5. worker'[o] = IF ok THEN next ELSE Idle
  BY <1>1 DEF StoreRouter, TypeOK, OutdateWorkers
<1>6. (ok => applied) /\ (applied => w.current)
  BY <1>1 DEF Call, Accepts
<1>7. CASE ~applied
  <2>1. ~ok /\ UNCHANGED <<router, fresh>>
    BY <1>1, <1>6, <1>7 DEF StoreRouter
  <2>2. queue'[o]
    BY <1>1, <2>1 DEF Return, TypeOK
  <2>3. SameInformers(o) /\ ~Restoring(w)
    BY <1>2, <1>4, <2>1 DEF SameInformers, Restoring
  <2> QED
    BY <1>2, <1>4, <1>5, <2>1, <2>2, <2>3, PassRetries
<1>8. CASE applied
  <2>1. w.tr = router /\ w.current
    BY <1>2, <1>6, <1>8 DEF IInv, InHand
  <2>2. /\ ~router.finalizer /\ Live
        /\ w.tr.uid # 0 /\ ~w.tr.deleting
    BY <1>2, <2>1 DEF OInv, Holds, IInv, Knows, Live
  <2>3. router' = new /\ fresh' = Outdate("router")
    BY <1>1, <1>3, <1>8, <2>2 DEF StoreRouter
  <2>4. SameRouter /\ UNCHANGED pods
    BY <1>3, <1>4, <2>1, <2>3 DEF SameRouter
  <2>5. router.status.phase = ""
    BY <2>2 DEF OInv, Told
  <2>6. ~cache[o].router.finalizer
    BY <2>1, <2>2 DEF OInv, Trails, IInv, UpToDate
  <2>7. \/ next = Idle
        \/ /\ next.pc \in {"check", "configMap"}
           /\ next.tr = tr /\ next.current = TRUE /\ next.goal = tr.config
    BY <1>3, EnterHolds
  <2> HIDE DEF next, tr
  <2>8. /\ Holds(next) /\ Reached(next)
        /\ ~Passing(next) \/ next.current
    BY <1>3, <2>1, <2>2, <2>7, IdleHolds, JustBegun DEF Holds, Passing
  <2>9. Holds(worker[o])' /\ Reached(worker[o])'
    BY <1>4, <1>5, <2>4, <2>8, IdleHolds
    DEF Holds, Reached, Live, SameRouter, Crashes
  <2>10. Trails(o)'
    BY <1>4, <2>4, <2>6 DEF Trails, SameRouter, OInv
  <2>11. Reported'
    BY <2>4, <2>5 DEF Reported, SameRouter
  <2>12. ASSUME StaleReads
         PROVE  Lags(o)'
    <3>1. Lags(o) /\ ~Restoring(w)
      BY <1>2, <2>2, <2>12 DEF OInv, Restoring
    <3>2. CacheHarmless(o)'
      BY <1>4, <2>6 DEF CacheHarmless
    <3>3. PassHarmless(o)'
      BY <1>5, <2>8, IdleHolds DEF PassHarmless
    <3>4. FreshInTrial(o)'
      BY <2>4, <2>5 DEF FreshInTrial, Closed, SameRouter
    <3>5. ConfigMapLags(o)' /\ DeploymentLags(o)'
      BY <1>4, <2>4, <3>1
      DEF Lags, ConfigMapLags, DeploymentLags, SameRouter, Undone
    <3> QED
      BY <3>2, <3>3, <3>4, <3>5 DEF Lags
  <2> QED
    BY <1>4, <2>4, <2>9, <2>10, <2>11, <2>12, PassTurns
<1> QED
  BY <1>7, <1>8

LEMMA DrainOrderly ==
    ASSUME TypeOK, IInv, OInv, NEW o \in Operators,
           DrainCheck(o) \/ RemoveFinalizer(o)
    PROVE  OInv'
<1> DEFINE w == worker[o]
<1>1. w.pc = "drain" /\ ~Passing(w) /\ ~Restoring(w)
  BY DEF DrainCheck, RemoveFinalizer, Passing, Restoring
<1>2. UNCHANGED <<configMap, deployment, pods, cache, torn>> /\ SameChildren
  BY DEF DrainCheck, RemoveFinalizer, SameChildren, children, informers
<1>3. CASE DrainCheck(o)
  <2>1. /\ w'.pc = w.pc /\ w'.tr = w.tr /\ w'.current = w.current
        /\ w'.goal = w.goal
        /\ UNCHANGED <<router, fresh, queue>>
    BY <1>3 DEF DrainCheck, TypeOK, Worker, Continue, informers
  <2>2. SameRouter /\ SameInformers(o)
    BY <1>2, <2>1 DEF SameRouter, SameInformers
  <2>3. Holds(w)'
    BY <1>1, <2>1 DEF OInv, Holds, Passing
  <2>4. Trails(o)'
    BY <1>2, <2>1, StillTrails
  <2>5. ASSUME Live
        PROVE  Reported' /\ Reached(w)' /\ (StaleReads => Lags(o)')
    <3>1. Reported'
      <4>1. Operators = {o}
        BY OneOperator DEF OInv
      <4> QED
        BY <1>1, <1>2, <2>1, <2>5, <4>1
        DEF OInv, Reported, Pending, Passing, Deployed, Crashes, Undecided,
            Seen, Away
    <3>2. Reached(w)'
      BY <1>1, <1>2, <2>1, <2>5 DEF OInv, Reached, Crashes
    <3>3. PassHarmless(o)'
      BY <1>1, <2>1 DEF PassHarmless, Passing
    <3>4. StaleReads => Lags(o)'
      BY <1>1, <1>2, <2>1, <2>2, <2>5, <3>3, SameLags
    <3> QED
      BY <3>1, <3>2, <3>4
  <2> QED
    BY <1>2, <2>2, <2>3, <2>4, <2>5, PassTurns
<1>4. CASE RemoveFinalizer(o)
  <2>1. PICK applied, ok \in BOOLEAN :
            /\ Call(Accepts(w), applied, ok)
            /\ StoreRouter(o, NoRouter, applied, FALSE, Idle)
            /\ Return(o, ~ok, FALSE)
    BY <1>4 DEF RemoveFinalizer
  <2>2. w'= Idle
    BY <2>1 DEF StoreRouter, TypeOK, OutdateWorkers
  <2>3. CASE ~applied
    <3>1. queue'[o] /\ UNCHANGED <<router, fresh>>
      BY <2>1, <2>3 DEF StoreRouter, Return, Call, TypeOK
    <3>2. SameInformers(o)
      BY <1>2, <3>1 DEF SameInformers
    <3> QED
      BY <1>1, <1>2, <2>2, <3>1, <3>2, PassRetries
  <2>4. CASE applied
    <3>1. w.current /\ w.tr = router
      BY <1>1, <2>1, <2>4 DEF Call, Accepts, IInv, InHand
    <3>2. router.deleting /\ router.uid # 0
      BY <1>1, <3>1 DEF OInv, Holds, IInv, Knows
    <3>3. router' = NoRouter
      BY <2>1, <2>4 DEF StoreRouter
    <3>4. /\ router'.uid = 0 /\ router'.status.good = None
          /\ router'.status.bad = None
      BY <3>3 DEF NoRouter, NoStatus
    <3>5. cache[o].router.deleting \/ ~cache[o].router.finalizer
      BY <3>1, <3>2 DEF OInv, Trails, IInv, UpToDate
    <3>6. Trails(o)' /\ Holds(w)'
      BY <1>2, <2>2, <3>5, IdleHolds, IdleFields DEF Trails, Holds
    <3>7. Family' /\ PromotedIsHealthy' /\ FlaggedIsCrashing' /\ ~Live'
      BY <1>2, <3>4, ConfigsAssumption DEF OInv, Family, PromotedIsHealthy,
         FlaggedIsCrashing, Live
    <3> QED
      BY <3>6, <3>7, OneOperator DEF OInv, Orderly
  <2> QED
    BY <2>3, <2>4
<1> QED
  BY <1>3, <1>4

-----------------------------------------------------------------------------
(* The steps of a rollout and of a rollback. *)

\* A pass that gives up a step goes on to report it.
LEMMA GivesUp ==
    ASSUME TypeOK, IInv, OInv, NEW o \in Operators, NEW phase \in ErrorPhases,
           worker[o].pc \in {"rollback", "configMap", "deployment", "service"}
    PROVE  /\ Failing(worker[o], phase).pc = "fail"
           /\ Failing(worker[o], phase).tr = worker[o].tr
           /\ Failing(worker[o], phase).current = worker[o].current
           /\ Holds(Failing(worker[o], phase))
           /\ (worker[o].pc = "rollback" /\ StaleReads
                  => router.status.good = None)
                 => Reached(Failing(worker[o], phase))
<1> DEFINE w == worker[o]
           next == Failing(w, phase)
<1>1. /\ next.pc = "fail" /\ next.failure = phase /\ next.tr = w.tr
      /\ next.current = w.current
  BY Typed DEF Failing, Worker
<1>2. Holds(w) /\ Knows(w) /\ Passing(w)
  BY DEF OInv, IInv, Passing
<1>3. w.pc \in {"rollback", "configMap", "deployment", "service"}
  OBVIOUS
<1>4. w.current => Reached(w)
  BY <1>2, PassInHand DEF OInv
<1>5. w.current /\ InTrial(w.tr) /\ w.pc # "rollback" => ~Crashes
  <2> SUFFICES ASSUME w.current, InTrial(w.tr), w.pc # "rollback"
               PROVE  ~Crashes
    OBVIOUS
  <2>1. router.status.phase = "Validating"
    BY <1>2, PassInHand DEF InTrial
  <2> QED
    BY <1>3, <2>1, RolloutPromotes
<1> HIDE DEF next, w
<1>6. Holds(next)
  BY <1>1, <1>2, <1>3 DEF Holds, Knows, Passing
<1>7. (w.pc = "rollback" /\ StaleReads => router.status.good = None)
         => Reached(next)
  BY <1>1, <1>4, <1>5 DEF Reached
<1> QED
  BY <1>1, <1>6, <1>7 DEF next, w

LEMMA CheckPodsOrderly ==
    ASSUME TypeOK, IInv, OInv, NEW o \in Operators, CheckPods(o)
    PROVE  OInv'
<1> DEFINE w == worker[o]
           rollback == [w EXCEPT !.pc = "rollback"]
           promoted == [w EXCEPT !.pc = "configMap",
                                 !.tr.status.good = w.tr.config]
<1>1. PICK crashing \in Sightings, ok \in BOOLEAN :
          /\ worker' = [worker EXCEPT ![o] =
                CASE ~ok -> Idle
                  [] ok /\ crashing -> rollback
                  [] OTHER -> promoted]
          /\ Return(o, ~ok, FALSE)
  BY DEF CheckPods
<1>2. worker'[o] = CASE ~ok -> Idle
                     [] ok /\ crashing -> rollback
                     [] OTHER -> promoted
  BY <1>1 DEF TypeOK
<1>3. /\ SameRouter /\ SameChildren /\ SameInformers(o)
      /\ UNCHANGED <<router, configMap, deployment, pods, cache, fresh, torn>>
  BY DEF CheckPods, SameRouter, SameChildren, SameInformers, children, informers
<1>4. w.pc = "check" /\ w \in Worker /\ w.tr \in Router
      /\ w.tr.status \in Status
  BY Typed DEF CheckPods
<1>5. crashing = Crashes
  BY DEF Sightings, OInv, Orderly, Crashes
<1>6. Holds(w) /\ (Live => Reached(w)) /\ Passing(w) /\ ~Restoring(w)
  BY <1>4 DEF OInv, Passing, Restoring
<1>7. CASE ~ok
  <2>1. queue'[o]
    BY <1>1, <1>7 DEF Return, TypeOK
  <2> QED
    BY <1>2, <1>3, <1>4, <1>6, <1>7, <2>1, PassRetries
<1>8. CASE ok
  <2>1. /\ rollback.pc = "rollback" /\ rollback.tr = w.tr
        /\ rollback.current = w.current
        /\ promoted.pc = "configMap" /\ promoted.current = w.current
        /\ promoted.tr.uid = w.tr.uid /\ promoted.tr.config = w.tr.config
        /\ promoted.tr.deleting = w.tr.deleting
        /\ promoted.tr.status.phase = w.tr.status.phase
        /\ promoted.tr.status.hash = w.tr.status.hash
        /\ promoted.tr.status.bad = w.tr.status.bad
        /\ promoted.goal = w.goal
    BY <1>4 DEF Worker, Router, Status
  <2>2. worker'[o] = IF Crashes THEN rollback ELSE promoted
    BY <1>2, <1>5, <1>8
  <2> HIDE DEF rollback, promoted
  <2>3. queue[o] => queue'[o]
    BY <1>1, <1>8 DEF Return, TypeOK
  <2>4. /\ worker'[o].pc = IF Crashes THEN "rollback" ELSE "configMap"
        /\ worker'[o].current = w.current
        /\ worker'[o].tr.uid = w.tr.uid /\ worker'[o].tr.config = w.tr.config
        /\ worker'[o].tr.deleting = w.tr.deleting
        /\ worker'[o].tr.status.phase = w.tr.status.phase
        /\ worker'[o].tr.status.hash = w.tr.status.hash
        /\ worker'[o].tr.status.bad = w.tr.status.bad
        /\ Crashes => worker'[o].tr = w.tr
        /\ ~Crashes => worker'[o].goal = w.goal
    BY <2>1, <2>2
  <2> HIDE DEF w
  <2>5. Holds(worker[o])'
    BY <1>3, <1>4, <1>6, <2>4 DEF Holds, Live, Passing
  <2>6. Trails(o)'
    BY <1>3, <2>4, StillTrails DEF w
  <2>7. ASSUME Live
        PROVE  Reported' /\ Reached(worker[o])' /\ (StaleReads => Lags(o)')
    <3>1. Passing(worker[o])'
      BY <2>4 DEF Passing
    <3>2. Reported'
      BY <1>3, <2>4, <2>7, <3>1, NobodyAway, StillReported DEF OInv, Pending
    <3>3. Reached(worker[o])'
      BY <1>3, <1>6, <2>4, <2>7 DEF Reached, Crashes
    <3>4. ASSUME StaleReads
          PROVE  Lags(o)'
      <4>1. CASE w.current
        <5>1. PassHarmless(o)'
          BY <2>4, <4>1 DEF PassHarmless
        <5> QED
          BY <1>3, <1>4, <1>6, <2>7, <3>4, <5>1, SameLags DEF w
      <4>2. CASE ~w.current
        BY <1>3, <1>4, <1>6, <2>3, <2>4, <2>7, <4>2, StaleLags DEF w
      <4> QED
        BY <4>1, <4>2
    <3> QED
      BY <3>2, <3>3, <3>4
  <2> QED
    BY <1>3, <2>5, <2>6, <2>7, PassTurns
<1> QED
  BY <1>7, <1>8

\* The rollback of a pass with the current version finds the snapshot that the
\* trial rests on; one of an outdated pass finds that it has taken place.
LEMMA RollbackConfigOrderly ==
    ASSUME TypeOK, IInv, OInv, NEW o \in Operators, RollbackConfig(o)
    PROVE  OInv'
<1> DEFINE w == worker[o]
           failing == Failing(w, "RollbackFailed")
           goes == [w EXCEPT !.pc = "rollbackDeployment",
                             !.goal = configMap.snapshot]
<1>1. "configMap" \in fresh[o] => cache[o].configMap = configMap
  BY DEF IInv, UpToDate
<1>2. /\ w.pc = "rollback" /\ w \in Worker
      /\ UNCHANGED <<router, pods, deployment, cache, queue, torn>>
      /\ SameRouter /\ Passing(w) /\ ~Restoring(w)
  BY Typed DEF RollbackConfig, Continue, SameRouter, Passing, Restoring
<1>3. Holds(w) /\ Knows(w)
  BY DEF OInv, IInv
<1>4. /\ failing.pc = "fail" /\ failing.tr = w.tr
      /\ failing.current = w.current /\ Holds(failing)
      /\ (StaleReads => router.status.good = None) => Reached(failing)
  BY <1>2, GivesUp DEF ErrorPhases
<1>5. /\ goes.pc = "rollbackDeployment" /\ goes.tr = w.tr
      /\ goes.goal = configMap.snapshot /\ goes.current = w.current
  BY <1>2 DEF Worker
<1>6. \/ /\ worker'[o] = failing /\ UNCHANGED <<configMap, fresh>>
         /\ "configMap" \in fresh[o] /\ StaleReads => configMap.snapshot = None
      \/ /\ configMap.snapshot # None /\ configMap' = Restored(configMap)
         /\ fresh' = IF configMap' # configMap THEN Outdate("configMap")
                                               ELSE fresh
         /\ "configMap" \in fresh[o]
         /\ worker'[o] = goes \/ (~StaleReads /\ worker'[o] = failing)
  <2>1. CASE cache[o].configMap.snapshot = None
    BY <1>1, <2>1 DEF RollbackConfig, TypeOK
  <2>2. CASE cache[o].configMap.snapshot # None
    <3>1. PICK applied, ok \in BOOLEAN :
              /\ Call("configMap" \in fresh[o], applied, ok)
              /\ configMap' = IF applied THEN Restored(cache[o].configMap)
                                         ELSE configMap
              /\ fresh' = IF configMap' # configMap THEN Outdate("configMap")
                                                    ELSE fresh
              /\ worker' = [worker EXCEPT ![o] =
                    IF ok THEN [w EXCEPT !.pc = "rollbackDeployment",
                                         !.goal = cache[o].configMap.snapshot]
                          ELSE failing]
      BY <2>2 DEF RollbackConfig
    <3>2. "configMap" \in fresh[o] /\ StaleReads => ok
      BY <3>1, NoFaults DEF OInv
    <3>3. (ok => applied) /\ (applied => "configMap" \in fresh[o])
      BY <3>1 DEF Call
    <3>4. worker'[o] = IF ok THEN [w EXCEPT !.pc = "rollbackDeployment",
                                            !.goal = cache[o].configMap.snapshot]
                             ELSE failing
      BY <3>1 DEF TypeOK
    <3> HIDE DEF failing
    <3>5. CASE applied
      BY <1>1, <2>2, <3>1, <3>2, <3>3, <3>4, <3>5
    <3>6. CASE ~applied
      BY <3>1, <3>2, <3>3, <3>4, <3>6
    <3> QED
      BY <3>5, <3>6
  <2> QED
    BY <2>1, <2>2
<1>7. LET new == Restored(configMap) IN
      /\ new.owner = configMap.owner /\ new.config = configMap.snapshot
      /\ new.snapshot = configMap.snapshot
      /\ configMap.config = configMap.snapshot => new = configMap
  BY Typed DEF Restored, ConfigMap
<1> HIDE DEF failing, goes, w
<1>8. worker'[o] \in {failing, goes}
  BY <1>6
<1>9. Holds(goes)
  BY <1>2, <1>3, <1>5 DEF Holds, Passing
<1>10. Holds(worker[o])'
  BY <1>2, <1>4, <1>8, <1>9 DEF Holds, Live, Passing
<1>11. "router" \in fresh'[o] <=> "router" \in fresh[o]
  BY <1>6 DEF Outdate, TypeOK
<1>12. Trails(o)'
  BY <1>2, <1>4, <1>5, <1>8, <1>11, StillTrails DEF w
<1>13. Family'
  <2>1. Family
    BY DEF OInv
  <2>2. configMap.snapshot # None => configMap.owner # 0
    BY <2>1 DEF Family, NoConfigMap
  <2> QED
    BY <1>2, <1>6, <1>7, <2>1, <2>2 DEF Family
<1>14. Passing(worker'[o]) /\ Pending' /\ ~Away'
  BY <1>4, <1>5, <1>8, NobodyAway DEF OInv, Passing, Pending
<1>15. ASSUME Live, w.current
       PROVE  /\ Backed' /\ Reported' /\ Reached(worker[o])'
              /\ StaleReads => Lags(o)'
  <2>1. /\ router.status.phase = "Validating" /\ router.status.left = 0
        /\ w.tr.status.good = router.status.good
    BY <1>2, <1>3, <1>15, PassInHand DEF Knows, InTrial, w
  <2>2. Told /\ Backed /\ Reported /\ Reached(w) /\ (StaleReads => Lags(o))
    BY <1>15 DEF OInv, w
  <2>3. Crashes /\ router.config \in Crashing /\ ~Misled
    BY <1>2, <1>15, <2>1, <2>2 DEF Reached, OInv, Observed, Misled, ErrorPhases
  <2>4. StaleReads => {"router", "configMap", "deployment"} \subseteq fresh[o]
    BY <1>2, <2>1, <2>2, <2>3 DEF Lags, FreshInTrial, Closed, w
  <2>5. CASE worker'[o] = failing /\ UNCHANGED <<configMap, fresh>>
             /\ ("configMap" \in fresh[o] /\ StaleReads
                    => configMap.snapshot = None)
    <3>1. SameChildren /\ SameInformers(o)
      BY <1>2, <2>5 DEF SameChildren, SameInformers
    <3>2. StaleReads => router.status.good = None
      BY <2>1, <2>2, <2>3, <2>4, <2>5 DEF Backed
    <3>3. Reached(worker[o])'
      BY <1>2, <1>4, <2>5, <3>2 DEF Reached, Crashes
    <3>4. Backed' /\ Reported'
      BY <1>2, <1>14, <1>15, <2>2, <3>1, StillReported
      DEF Backed, Misled, SameChildren
    <3>5. PassHarmless(o)'
      BY <1>4, <1>15, <2>5 DEF PassHarmless
    <3>6. StaleReads => Lags(o)'
      BY <1>2, <1>15, <2>5, <3>1, <3>5, SameLags DEF w
    <3> QED
      BY <3>3, <3>4, <3>6
  <2>6. CASE /\ configMap.snapshot # None /\ configMap' = Restored(configMap)
             /\ fresh' = IF configMap' # configMap THEN Outdate("configMap")
                                                   ELSE fresh
             /\ worker'[o] = goes \/ (~StaleReads /\ worker'[o] = failing)
    <3>1. /\ router.status.good # None
          /\ configMap.snapshot = router.status.good
          /\ configMap'.config = router.status.good
          /\ configMap'.snapshot = router.status.good
      BY <1>7, <2>1, <2>2, <2>3, <2>6 DEF Backed
    <3>2. Backed'
      BY <1>2, <3>1 DEF Backed
    <3>3. Reported'
      BY <1>2, <1>14, <2>1, <2>3, <3>1 DEF Reported, Undecided, Crashes
    <3>4. Reached(worker[o])'
      <4>1. CASE worker'[o] = failing /\ ~StaleReads
        BY <1>2, <1>4, <4>1 DEF Reached, Crashes
      <4>2. CASE worker'[o] = goes
        BY <1>2, <1>5, <2>1, <2>3, <3>1, <4>2 DEF Reached, Crashes
      <4> QED
        BY <2>6, <4>1, <4>2
    <3>5. ASSUME StaleReads
          PROVE  Lags(o)'
      <4>1. worker'[o] = goes
        BY <2>6, <3>5
      <4>2. Restoring(worker[o])' /\ worker'[o].current
        BY <1>5, <1>15, <4>1 DEF Restoring
      <4>3. {"router", "deployment"} \subseteq fresh'[o]
        BY <2>4, <2>6, <3>5 DEF Outdate, TypeOK
      <4>4. FreshInTrial(o)'
        BY <4>2, <4>3 DEF FreshInTrial
      <4>5. cache'[o].deployment = deployment'
        BY <1>2, <2>4, <3>5 DEF IInv, UpToDate
      <4>6. ConfigMapLags(o)' /\ DeploymentLags(o)'
        BY <4>2, <4>5 DEF ConfigMapLags, DeploymentLags
      <4> QED
        BY <1>2, <1>11, <1>15, <4>2, <4>4, <4>6, CurrentLags DEF w
    <3> QED
      BY <3>2, <3>3, <3>4, <3>5
  <2> QED
    BY <1>6, <2>5, <2>6
<1>16. ASSUME Live, ~w.current
       PROVE  /\ Backed' /\ Reported' /\ Reached(worker[o])'
              /\ StaleReads => Lags(o)'
  <2>1. StaleReads /\ Backed /\ Told /\ Lags(o)
    BY <1>2, <1>3, <1>16 DEF OInv, Holds
  <2>2. Crashes /\ Harmless(w.tr) /\ InTrial(w.tr)
    BY <1>2, <1>3, <1>16, <2>1 DEF Lags, PassHarmless, Knows, w
  <2>3. \/ /\ router.status.phase = "RolledBack"
           /\ configMap.snapshot = router.status.good
           /\ configMap.config = router.status.good
        \/ configMap.snapshot = None
    BY <2>1, <2>2 DEF Harmless, InTrial, Backed, Deployed
  <2>4. configMap' = configMap /\ fresh' = fresh
    BY <1>6, <1>7, <2>3
  <2>5. worker'[o] = goes => /\ router.status.phase = "RolledBack"
                             /\ goes.goal = router.status.good
    BY <1>4, <1>5, <1>6, <2>3
  <2>6. SameChildren /\ SameInformers(o)
    BY <1>2, <2>4 DEF SameChildren, SameInformers
  <2>7. Backed' /\ Reported'
    BY <1>2, <1>14, <1>16, <2>1, <2>6, StillReported
    DEF Backed, Misled, SameChildren
  <2>8. /\ ~worker'[o].current /\ worker'[o].tr = w.tr
        /\ worker'[o].pc \in {"fail", "rollbackDeployment"}
        /\ worker'[o].pc = "rollbackDeployment"
              => /\ router.status.phase = "RolledBack"
                 /\ worker'[o].goal = router.status.good
    BY <1>4, <1>5, <1>8, <1>16, <2>5
  <2>9. Reached(worker[o])'
    BY <2>8 DEF Reached
  <2>10. Lags(o)'
    BY <1>2, <1>11, <1>16, <2>2, <2>4, <2>8, StaleLags DEF w
  <2> QED
    BY <2>7, <2>9, <2>10
<1> QED
  BY <1>2, <1>10, <1>12, <1>13, <1>15, <1>16, PassWrites

\* The ConfigMap is overwritten by a rollout that is not on trial, or by one that
\* promotes what a torn rollback has left.
LEMMA ApplyConfigMapOrderly ==
    ASSUME TypeOK, IInv, OInv, NEW o \in Operators, ApplyConfigMap(o)
    PROVE  OInv'
<1> DEFINE w == worker[o]
           seen == cache[o].configMap
           failing == Failing(w, "ConfigMapError")
           goes == [w EXCEPT !.pc = "deployment"]
           created == [NoConfigMap EXCEPT !.owner = w.tr.uid, !.config = w.goal]
           want == IF configMap.owner = 0 THEN created
                                          ELSE Overwritten(configMap, w.goal)
           keep == UNCHANGED <<configMap, fresh>>
           write == /\ configMap' = want /\ fresh' = Outdate("configMap")
                    /\ configMap.owner = 0 \/ configMap.config # w.goal
<1>1. "configMap" \in fresh[o] => seen = configMap
  BY DEF IInv, UpToDate
<1>2. /\ w.pc = "configMap" /\ w \in Worker
      /\ UNCHANGED <<router, pods, deployment, cache, queue, torn>>
      /\ SameRouter /\ Passing(w) /\ ~Restoring(w)
  BY Typed DEF ApplyConfigMap, Continue, SameRouter, Passing, Restoring
<1>3. /\ Holds(w) /\ Knows(w) /\ w.goal = w.tr.config
      /\ w.tr.uid = router.uid /\ w.tr.uid # 0
  BY <1>2 DEF OInv, Holds, IInv, Knows, Passing
<1>4. /\ failing.pc = "fail" /\ failing.tr = w.tr
      /\ failing.current = w.current /\ Holds(failing) /\ Reached(failing)
  BY <1>2, GivesUp DEF ErrorPhases
<1>5. /\ goes.pc = "deployment" /\ goes.tr = w.tr
      /\ goes.goal = w.goal /\ goes.current = w.current
  BY <1>2 DEF Worker
<1>6. \/ worker'[o] = goes /\ seen.config = w.goal /\ keep
      \/ worker'[o] = failing /\ keep
      \/ worker'[o] = goes /\ write
      \/ worker'[o] = failing /\ ~StaleReads /\ write
  <2>1. CASE seen.config = w.goal
    BY <2>1 DEF ApplyConfigMap, TypeOK, Goto
  <2>2. CASE seen.config # w.goal
    <3>1. PICK applied, ok \in BOOLEAN :
              /\ Call(IF seen.owner = 0 THEN configMap.owner = 0
                                        ELSE "configMap" \in fresh[o],
                      applied, ok)
              /\ configMap' = IF applied
                              THEN IF seen.owner = 0 THEN created
                                   ELSE Overwritten(seen, w.goal)
                              ELSE configMap
              /\ fresh' = IF applied THEN Outdate("configMap") ELSE fresh
              /\ worker' = [worker EXCEPT ![o] = IF ok THEN goes ELSE failing]
      BY <2>2 DEF ApplyConfigMap
    <3>2. worker'[o] = IF ok THEN goes ELSE failing
      BY <3>1 DEF TypeOK
    <3>3. ok => applied
      BY <3>1 DEF Call
    <3>4. applied => IF seen.owner = 0 THEN configMap.owner = 0
                                       ELSE "configMap" \in fresh[o]
      BY <3>1 DEF Call
    <3>5. applied /\ StaleReads => ok
      BY <3>1, <3>4, NoFaults DEF OInv
    <3> HIDE DEF failing, goes, created
    <3>6. CASE applied
      <4>1. write
        BY <1>1, <2>2, <3>1, <3>4, <3>6
      <4> QED
        BY <3>2, <3>5, <3>6, <4>1
    <3>7. CASE ~applied
      BY <3>1, <3>2, <3>3, <3>7
    <3> QED
      BY <3>6, <3>7
  <2> QED
    BY <2>1, <2>2
<1>7. /\ created.owner = w.tr.uid /\ created.config = w.goal
      /\ created.snapshot = None
  BY DEF NoConfigMap
<1>8. LET new == Overwritten(configMap, w.goal) IN
      /\ new.owner = configMap.owner /\ new.config = w.goal
      /\ new.snapshot = configMap.config
  BY Typed DEF Overwritten, ConfigMap
<1> HIDE DEF failing, goes, created, w
<1>9. write => /\ configMap'.config = w.goal
               /\ IF configMap.owner = 0
                  THEN configMap'.owner = w.tr.uid /\ configMap'.snapshot = None
                  ELSE /\ configMap'.owner = configMap.owner
                       /\ configMap'.snapshot = configMap.config
                       /\ configMap.config # w.goal
  BY <1>7, <1>8
<1>10. configMap.owner = 0 => configMap.config = None
  BY DEF OInv, Family, NoConfigMap
<1>11. keep \/ write
  BY <1>6
<1> HIDE DEF write
<1>12. worker'[o] \in {failing, goes}
  BY <1>6
<1>13. Holds(goes)
  BY <1>2, <1>3, <1>5 DEF Holds, Passing
<1>14. Holds(worker[o])'
  BY <1>2, <1>4, <1>12, <1>13 DEF Holds, Live, Passing
<1>15. "router" \in fresh'[o] <=> "router" \in fresh[o]
  BY <1>11 DEF write, Outdate, TypeOK
<1>16. Trails(o)'
  BY <1>2, <1>4, <1>5, <1>12, <1>15, StillTrails DEF w
<1>17. Family'
  <2>1. Family
    BY DEF OInv
  <2> QED
    BY <1>2, <1>3, <1>9, <1>11, <2>1 DEF Family
<1>18. Passing(worker'[o]) /\ Pending' /\ ~Away'
  BY <1>4, <1>5, <1>12, NobodyAway DEF OInv, Passing, Pending
<1>19. keep => SameChildren /\ SameInformers(o)
  BY <1>2 DEF SameChildren, SameInformers
<1>20. Live => router.config # None
  BY ConfigsAssumption DEF IInv, Numbering, Live
<1>21. ASSUME Live, write, w.goal = router.config,
              configMap.config # router.config
       PROVE  Backed'
  <2>1. Backed
    BY <1>21 DEF OInv
  <2>2. configMap'.config = router.config
        /\ configMap'.snapshot = configMap.config
    BY <1>9, <1>10, <1>21
  <2> QED
    BY <1>2, <1>10, <1>20, <1>21, <2>1, <2>2 DEF Backed, Misled
<1>22. ASSUME Live, w.current
       PROVE  /\ Backed' /\ Reported' /\ Reached(worker[o])'
              /\ StaleReads => Lags(o)'
  <2>1. /\ w.tr.config = router.config /\ w.tr.status.bad = router.status.bad
        /\ w.goal = router.config /\ router.config # router.status.bad
    BY <1>2, <1>3, <1>22, PassInHand DEF Knows, w
  <2>2. Backed /\ Reported /\ Reached(w) /\ (StaleReads => Lags(o))
    BY <1>22 DEF OInv, w
  <2>3. router.status.phase = "Validating" => ~Crashes
    BY <1>2, <1>22, RolloutPromotes DEF w
  <2>4. /\ worker'[o].current /\ worker'[o].tr = w.tr
        /\ worker'[o].pc \in {"fail", "deployment"}
    BY <1>4, <1>5, <1>12, <1>22
  <2>5. CASE keep
    <3>1. worker'[o] = goes /\ seen.config = w.goal
             => configMap.config = router.config
      <4>1. CASE StaleReads
        BY <1>2, <2>1, <2>2, <4>1 DEF Lags, ConfigMapLags, Undone, w
      <4>2. CASE ~StaleReads
        <5>1. seen = configMap
          BY <4>2, ReadsTheServer DEF ApplyConfigMap
        <5> QED
          BY <2>1, <5>1
      <4> QED
        BY <4>1, <4>2
    <3>2. worker'[o] = failing \/ configMap.config = router.config
      BY <1>6, <1>9, <2>1, <2>5, <3>1
    <3>3. Reached(worker[o])'
      <4>1. CASE worker'[o] = failing
        BY <1>2, <1>4, <2>5, <4>1 DEF Reached, Crashes
      <4>2. CASE worker'[o] = goes /\ configMap.config = router.config
        BY <1>2, <1>5, <2>2, <2>5, <4>2 DEF Reached, Crashes
      <4> QED
        BY <1>12, <3>2, <4>1, <4>2
    <3>4. Backed' /\ Reported'
      BY <1>2, <1>18, <1>19, <1>22, <2>2, <2>5, StillReported
      DEF Backed, Misled, SameChildren
    <3>5. PassHarmless(o)'
      BY <2>4 DEF PassHarmless
    <3>6. StaleReads => Lags(o)'
      BY <1>2, <1>19, <1>22, <2>5, <3>5, SameLags DEF w
    <3> QED
      BY <3>3, <3>4, <3>6
  <2>6. CASE write
    <3>1. /\ configMap'.config = router.config
          /\ configMap.config # router.config
      BY <1>9, <1>10, <1>20, <1>22, <2>1, <2>6
    <3>2. router.status.phase = "Validating" => ~Crashes /\ Undecided /\ torn
      BY <2>2, <2>3, <3>1 DEF Reported, Deployed, Undecided
    <3>3. Backed'
      BY <1>21, <1>22, <2>1, <2>6, <3>1
    <3>4. Reported'
      BY <1>2, <1>18, <2>1, <3>2 DEF Reported, Undecided
    <3>5. Reached(worker[o])'
      <4>1. CASE worker'[o] = failing
        BY <1>2, <1>4, <4>1 DEF Reached, Crashes
      <4>2. CASE worker'[o] = goes
        BY <1>2, <1>5, <2>2, <3>1, <4>2 DEF Reached, Crashes
      <4> QED
        BY <1>12, <4>1, <4>2
    <3>6. FreshInTrial(o)'
      BY <1>2, <3>2 DEF FreshInTrial, Closed, Crashes
    <3>7. ASSUME StaleReads
          PROVE  Lags(o)'
      <4>1. ConfigMapLags(o)'
        BY <1>2, <3>1 DEF ConfigMapLags
      <4>2. DeploymentLags(o)'
        BY <1>2, <2>2, <3>7 DEF Lags, DeploymentLags, Undone, w
      <4> QED
        BY <1>2, <1>15, <1>22, <2>4, <3>6, <4>1, <4>2, CurrentLags DEF w
    <3> QED
      BY <3>3, <3>4, <3>5, <3>7
  <2> QED
    BY <1>11, <2>5, <2>6
<1>23. ASSUME Live, ~w.current
       PROVE  /\ Backed' /\ Reported' /\ Reached(worker[o])'
              /\ StaleReads => Lags(o)'
  <2>1. StaleReads /\ Backed /\ Told /\ Lags(o)
    BY <1>2, <1>3, <1>23 DEF OInv, Holds
  <2>2. /\ Harmless(w.tr) /\ w.tr.config # w.tr.status.bad
        /\ InTrial(w.tr) => ~Crashes
    BY <1>2, <1>3, <1>23, <2>1 DEF Lags, PassHarmless, Knows, w
  <2>3. \/ configMap.config = w.goal /\ w.goal # None
        \/ router.status.phase \in ErrorPhases /\ w.goal = router.config
    BY <1>3, <1>20, <1>23, <2>1, <2>2, Typed
    DEF Harmless, Told, Deployed, Phases, Status
  <2>4. write => router.status.phase \in ErrorPhases /\ w.goal = router.config
    BY <1>9, <1>10, <2>3
  <2>5. router.status.phase \in ErrorPhases
           => router.status.phase \notin {"Validating", "Ready", "RolledBack"}
    BY DEF ErrorPhases
  <2>6. /\ ~worker'[o].current /\ worker'[o].tr = w.tr
        /\ worker'[o].pc \in {"fail", "deployment"}
    BY <1>4, <1>5, <1>12, <1>23
  <2>7. Reached(worker[o])'
    BY <2>6 DEF Reached
  <2>8. Backed' /\ Reported'
    <3>1. CASE keep
      BY <1>2, <1>18, <1>19, <1>23, <2>1, <3>1, StillReported
      DEF Backed, Misled, SameChildren
    <3>2. CASE write
      <4>1. Reported'
        BY <1>2, <2>4, <2>5, <3>2 DEF Reported
      <4>2. configMap.config # router.config
        BY <1>9, <1>10, <1>20, <1>23, <2>4, <3>2
      <4> QED
        BY <1>21, <1>23, <2>4, <2>5, <3>2, <4>1, <4>2
    <3> QED
      BY <1>11, <3>1, <3>2
  <2>9. \/ UNCHANGED configMap
        \/ /\ router.status.phase \in ErrorPhases
           /\ configMap'.config = router.config
    BY <1>9, <1>11, <2>4
  <2>10. Lags(o)'
    BY <1>2, <1>15, <1>23, <2>2, <2>6, <2>9, StaleLags DEF w
  <2> QED
    BY <2>7, <2>8, <2>10
<1> QED
  BY <1>2, <1>14, <1>16, <1>17, <1>22, <1>23, PassWrites

\* A rollout brings the Deployment to the spec and a rollback to the snapshot,
\* which for an outdated pass is what the Deployment holds already.
LEMMA ApplyDeploymentOrderly ==
    ASSUME TypeOK, IInv, OInv, NEW o \in Operators, ApplyDeployment(o)
    PROVE  OInv'
<1> DEFINE w == worker[o]
           seen == cache[o].deployment
           rollout == w.pc = "deployment"
           want == [owner |-> IF seen.owner = 0 THEN w.tr.uid ELSE seen.owner,
                    config |-> w.goal, replicas |-> w.tr.replicas]
           failing == Failing(w, "DeploymentError")
           done == [w EXCEPT !.pc = IF rollout THEN "service"
                                               ELSE "rollbackStatus"]
           keep == UNCHANGED <<deployment, fresh>>
           write == /\ fresh' = Outdate("deployment")
                    /\ deployment'.owner \in {w.tr.uid, deployment.owner}
                    /\ deployment'.config = w.goal
<1>1. "deployment" \in fresh[o] => seen = deployment
  BY DEF IInv, UpToDate
<1>2. /\ w.pc \in {"deployment", "rollbackDeployment"} /\ w \in Worker
      /\ UNCHANGED <<router, pods, configMap, cache, torn>>
      /\ SameRouter /\ Passing(w)
      /\ w.current => (Restoring(w) <=> ~rollout)
      /\ Restoring(w) => w.current
  BY Typed DEF ApplyDeployment, SameRouter, Passing, Restoring
<1>3. Holds(w) /\ Knows(w) /\ w.tr.uid = router.uid
  BY <1>2 DEF OInv, Holds, IInv, Passing
<1>4. rollout => /\ failing.pc = "fail" /\ failing.tr = w.tr
                 /\ failing.current = w.current
                 /\ Holds(failing) /\ Reached(failing)
  BY <1>2, GivesUp DEF ErrorPhases
<1>5. /\ done.pc = (IF rollout THEN "service" ELSE "rollbackStatus")
      /\ done.tr = w.tr /\ done.goal = w.goal /\ done.current = w.current
  BY <1>2 DEF Worker
<1>6. /\ \/ worker'[o] = done /\ seen.config = w.goal /\ keep
         \/ worker'[o] = failing /\ rollout /\ keep
         \/ worker'[o] = done /\ write
         \/ worker'[o] = failing /\ rollout /\ ~StaleReads /\ write
         \/ /\ worker'[o] = Idle /\ ~rollout /\ queue'[o] /\ keep
            /\ "deployment" \notin fresh[o] \/ ~StaleReads
         \/ worker'[o] = Idle /\ ~rollout /\ queue'[o] /\ ~StaleReads /\ write
      /\ queue[o] => queue'[o]
  <2>1. CASE seen = want
    BY <2>1 DEF ApplyDeployment, TypeOK, Continue
  <2>2. CASE seen # want
    <3> DEFINE accepted == IF seen.owner = 0 THEN deployment.owner = 0
                                             ELSE "deployment" \in fresh[o]
    <3>1. PICK applied, ok \in BOOLEAN :
              /\ Call(accepted, applied, ok)
              /\ deployment' = IF applied THEN want ELSE deployment
              /\ fresh' = IF applied THEN Outdate("deployment") ELSE fresh
              /\ worker' = [worker EXCEPT ![o] =
                    CASE ok -> done
                      [] ~ok /\ rollout -> failing
                      [] OTHER -> Idle]
              /\ Return(o, ~ok /\ ~rollout, FALSE)
      BY <2>2 DEF ApplyDeployment
    <3>2. worker'[o] = CASE ok -> done
                         [] ~ok /\ rollout -> failing
                         [] OTHER -> Idle
      BY <3>1 DEF TypeOK
    <3>3. (~ok /\ ~rollout => queue'[o]) /\ (queue[o] => queue'[o])
      BY <3>1 DEF Return, TypeOK
    <3>4. (ok => applied) /\ (applied => accepted)
      BY <3>1 DEF Call
    <3>5. accepted /\ StaleReads => ok
      BY <3>1, NoFaults DEF OInv
    <3>6. "deployment" \in fresh[o] => accepted
      BY <1>1
    <3>7. applied => write
      <4>1. accepted => want.owner \in {w.tr.uid, deployment.owner}
        BY <1>1
      <4> QED
        BY <3>1, <3>4, <4>1
    <3> HIDE DEF failing, done, write, accepted
    <3> QED
      BY <3>1, <3>2, <3>3, <3>4, <3>5, <3>6, <3>7
  <2> QED
    BY <2>1, <2>2
<1> HIDE DEF failing, done, w
<1>7. keep \/ write
  BY <1>6
<1>8. \/ worker'[o] = done
      \/ worker'[o] = failing /\ rollout
      \/ worker'[o] = Idle /\ ~rollout /\ queue'[o]
  BY <1>6
<1>9. Holds(done)
  BY <1>2, <1>3, <1>5 DEF Holds, Passing
<1>10. Holds(worker[o])'
  BY <1>2, <1>4, <1>8, <1>9, IdleHolds DEF Holds, Live, Passing
<1>11. "router" \in fresh'[o] <=> "router" \in fresh[o]
  BY <1>7 DEF Outdate, TypeOK
<1>12. Trails(o)'
  BY <1>2, <1>4, <1>5, <1>8, <1>11, IdleFields, StillTrails DEF w
<1>13. Family'
  BY <1>2, <1>3, <1>7 DEF OInv, Family
<1>14. Pending' /\ ~Away'
  BY <1>4, <1>5, <1>8, IdleFields, NobodyAway DEF OInv, Pending, Passing
<1>15. keep => SameChildren /\ SameInformers(o)
  BY <1>2 DEF SameChildren, SameInformers
<1>16. Live => Backed'
  BY <1>2 DEF OInv, Backed, Misled
<1>17. ASSUME Live, w.current, rollout
       PROVE  /\ Reported' /\ Reached(worker[o])'
              /\ StaleReads => Lags(o)'
  <2>1. /\ w.tr.config = router.config /\ w.tr.status.bad = router.status.bad
        /\ w.goal = router.config /\ router.config # router.status.bad
    BY <1>2, <1>3, <1>17, PassInHand DEF Holds, Knows, w
  <2>2. Reported /\ Reached(w) /\ (StaleReads => Lags(o))
    BY <1>17 DEF OInv, w
  <2>3. router.status.phase = "Validating" => ~Crashes
    BY <1>2, <1>17, RolloutPromotes DEF w
  <2>4. configMap.config = router.config
    BY <1>17, <2>2 DEF Reached
  <2>5. /\ worker'[o].current /\ worker'[o].tr = w.tr
        /\ worker'[o] \in {done, failing}
    BY <1>4, <1>5, <1>8, <1>17
  <2>6. worker'[o] = done => deployment'.config = router.config
    <3>1. CASE seen.config = w.goal /\ keep
      <4>1. CASE StaleReads
        BY <1>2, <1>17, <2>1, <2>2, <3>1, <4>1
        DEF Lags, DeploymentLags, Undone, w
      <4>2. CASE ~StaleReads
        <5>1. seen = deployment
          BY <4>2, ReadsTheServer DEF ApplyDeployment
        <5> QED
          BY <2>1, <3>1, <5>1
      <4> QED
        BY <4>1, <4>2
    <3>2. CASE write
      BY <2>1, <3>2
    <3>3. done # failing
      BY <1>4, <1>5, <1>17
    <3> QED
      BY <1>6, <1>17, <3>1, <3>2, <3>3
  <2>7. Reported'
    <3>1. deployment' = deployment \/ deployment'.config = router.config
      BY <1>7, <2>1
    <3> QED
      BY <1>2, <1>14, <2>1, <2>2, <2>3, <2>4, <3>1
      DEF Reported, Deployed, Crashes, Undecided, Seen
  <2>8. Reached(worker[o])'
    <3>1. CASE worker'[o] = failing
      BY <1>2, <1>4, <1>17, <3>1 DEF Reached, Crashes
    <3>2. CASE worker'[o] = done
      BY <1>2, <1>5, <1>17, <2>2, <2>4, <2>6, <3>2 DEF Reached, Crashes
    <3> QED
      BY <2>5, <3>1, <3>2
  <2>9. ASSUME StaleReads
        PROVE  Lags(o)'
    <3>1. FreshInTrial(o)'
      <4>1. CASE router.status.phase = "Validating"
        BY <1>2, <2>3, <4>1 DEF FreshInTrial, Closed, Crashes
      <4>2. CASE router.status.phase # "Validating"
        BY <1>2, <4>2 DEF FreshInTrial, Closed
      <4> QED
        BY <4>1, <4>2
    <3>2. ConfigMapLags(o)'
      BY <1>2, <2>4 DEF ConfigMapLags
    <3>3. DeploymentLags(o)'
      BY <1>2, <1>7, <1>17, <2>1, <2>2, <2>9
      DEF Lags, DeploymentLags, Undone, w
    <3> QED
      BY <1>2, <1>11, <1>17, <2>5, <3>1, <3>2, <3>3, CurrentLags DEF w
  <2> QED
    BY <2>7, <2>8, <2>9
<1>18. ASSUME Live, w.current, ~rollout
       PROVE  /\ Reported' /\ Reached(worker[o])'
              /\ StaleReads => Lags(o)'
  <2>1. /\ router.status.phase = "Validating" /\ router.status.left = 0
        /\ w.tr.status.good = router.status.good
    BY <1>2, <1>3, <1>18, PassInHand DEF Knows, InTrial, w
  <2>2. Reached(w) /\ (StaleReads => Lags(o))
    BY <1>18 DEF OInv, w
  <2>3. /\ Crashes /\ w.goal = router.status.good /\ w.goal # None
        /\ configMap.config = w.goal /\ router.config \in Crashing
    BY <1>2, <1>18, <2>1, <2>2 DEF Reached, OInv, Observed
  <2>4. StaleReads => {"router", "deployment"} \subseteq fresh[o]
    BY <1>2, <1>18, <2>1, <2>2, <2>3 DEF Lags, FreshInTrial, Closed, w
  <2>5. Reported'
    BY <1>2, <1>14, <2>1, <2>3 DEF Reported, Undecided, Crashes
  <2>6. worker'[o] = done => deployment'.config = w.goal
    <3>1. CASE seen.config = w.goal /\ keep
      <4>1. seen = deployment
        BY <1>1, <2>4, ReadsTheServer DEF ApplyDeployment
      <4> QED
        BY <3>1, <4>1
    <3>2. CASE write
      BY <3>2
    <3>3. done # Idle
      BY <1>5, IdleFields
    <3> QED
      BY <1>6, <1>18, <3>1, <3>2, <3>3
  <2>7. Reached(worker[o])'
    <3>1. CASE worker'[o] = Idle
      BY <3>1, IdleFields DEF Reached
    <3>2. CASE worker'[o] = done
      BY <1>2, <1>5, <1>18, <2>1, <2>3, <2>6, <3>2 DEF Reached, Crashes
    <3> QED
      BY <1>8, <1>18, <3>1, <3>2
  <2>8. ASSUME StaleReads
        PROVE  Lags(o)'
    <3>1. worker'[o] = done
      BY <1>6, <1>18, <2>4, <2>8
    <3>2. /\ Restoring(worker[o])' /\ worker'[o].current
          /\ worker'[o].pc = "rollbackStatus"
      BY <1>5, <1>18, <3>1 DEF Restoring
    <3>3. FreshInTrial(o)'
      BY <1>11, <2>4, <2>8, <3>2 DEF FreshInTrial, Closed
    <3>4. ConfigMapLags(o)' /\ DeploymentLags(o)'
      BY <3>2 DEF ConfigMapLags, DeploymentLags
    <3> QED
      BY <1>2, <1>11, <1>18, <3>2, <3>3, <3>4, CurrentLags DEF w
  <2> QED
    BY <2>5, <2>7, <2>8
<1>19. ASSUME Live, ~w.current
       PROVE  /\ Reported' /\ Reached(worker[o])'
              /\ StaleReads => Lags(o)'
  <2>1. StaleReads /\ Reported /\ Told /\ Lags(o)
    BY <1>2, <1>3, <1>19 DEF OInv, Holds
  <2>2. /\ Harmless(w.tr) /\ w.tr.config # w.tr.status.bad
        /\ rollout => (InTrial(w.tr) => ~Crashes) /\ w.goal = w.tr.config
        /\ ~rollout => /\ Crashes /\ router.status.phase = "RolledBack"
                       /\ w.goal = router.status.good
    BY <1>2, <1>3, <1>19, <2>1 DEF Lags, PassHarmless, Knows, Holds, w
  <2>3. \/ deployment.config = w.goal
        \/ router.status.phase \in ErrorPhases /\ w.goal = router.config
    <3>1. CASE rollout
      BY <1>3, <2>2, <3>1, Typed DEF Harmless, Deployed, Phases, Status
    <3>2. CASE ~rollout
      BY <2>2, <3>2 DEF Harmless, Deployed
    <3> QED
      BY <3>1, <3>2
  <2>4. \/ deployment'.config = deployment.config
        \/ /\ router.status.phase \in ErrorPhases
           /\ deployment'.config = router.config
    BY <1>7, <2>3
  <2>5. router.status.phase \in ErrorPhases
           => router.status.phase \notin {"Validating", "Ready", "RolledBack"}
    BY DEF ErrorPhases
  <2>6. Reported'
    BY <1>2, <1>14, <2>1, <2>4, <2>5
    DEF Reported, Deployed, Crashes, Undecided, Seen
  <2>7. /\ ~worker'[o].current
        /\ worker'[o].pc \in {"fail", "service", "rollbackStatus", "idle"}
        /\ worker'[o].pc # "idle" => worker'[o].tr = w.tr
        /\ worker'[o].pc = "service" => rollout
        /\ worker'[o].pc = "rollbackStatus"
              => ~rollout /\ worker'[o].goal = w.goal
    BY <1>4, <1>5, <1>8, <1>19, IdleFields
  <2>8. Reached(worker[o])'
    BY <2>7 DEF Reached
  <2>9. Lags(o)'
    <3>1. Passing(worker'[o]) =>
             /\ worker'[o].tr = w.tr
             /\ worker'[o].pc \notin {"rollback", "rollbackDeployment"}
             /\ worker'[o].pc = "rollbackStatus"
                   => /\ Crashes /\ router.status.phase = "RolledBack"
                      /\ worker'[o].goal = router.status.good
             /\ worker'[o].pc \in {"configMap", "deployment", "service", "status"}
                   => (InTrial(w.tr) => ~Crashes)
      BY <2>2, <2>7 DEF Passing
    <3> QED
      BY <1>2, <1>6, <1>11, <1>19, <2>4, <2>7, <3>1, StaleLags DEF w
  <2> QED
    BY <2>6, <2>8, <2>9
<1> QED
  BY <1>2, <1>10, <1>12, <1>13, <1>16, <1>17, <1>18, <1>19, PassWrites

LEMMA ApplyServiceOrderly ==
    ASSUME TypeOK, IInv, OInv, NEW o \in Operators, ApplyService(o)
    PROVE  OInv'
<1> DEFINE w == worker[o]
           failing == Failing(w, "ServiceError")
           goes == [w EXCEPT !.pc = "status"]
<1>1. /\ w.pc = "service" /\ w \in Worker
      /\ UNCHANGED <<router, pods, configMap, deployment, cache, queue, torn>>
  BY Typed DEF ApplyService, Continue
<1>2. /\ SameRouter /\ SameChildren /\ SameInformers(o)
      /\ Passing(w) /\ ~Restoring(w)
  BY <1>1 DEF ApplyService, SameRouter, SameChildren, SameInformers, Passing,
              Restoring, Outdate, TypeOK
<1>3. Holds(w) /\ (Live => Reached(w))
  BY DEF OInv
<1>4. /\ failing.pc = "fail" /\ failing.tr = w.tr
      /\ failing.current = w.current /\ Holds(failing) /\ Reached(failing)
  BY <1>1, GivesUp DEF ErrorPhases
<1>5. /\ goes.pc = "status" /\ goes.tr = w.tr
      /\ goes.goal = w.goal /\ goes.current = w.current
  BY <1>1 DEF Worker
<1>6. worker'[o] \in {failing, goes}
  BY DEF ApplyService, TypeOK, Goto
<1> HIDE DEF failing, goes, w
<1>7. Holds(goes) /\ (Live => Reached(goes))
  BY <1>1, <1>3, <1>5 DEF Holds, Reached, Passing
<1>8. Holds(worker[o])' /\ Pending' /\ ~Away' /\ (Live => Reached(worker[o])')
  BY <1>1, <1>4, <1>5, <1>6, <1>7, NobodyAway
  DEF OInv, Holds, Reached, Pending, Live, Passing, Crashes
<1>9. /\ worker'[o].current = w.current /\ worker'[o].tr = w.tr
      /\ worker'[o].pc \in {"fail", "status"}
  BY <1>4, <1>5, <1>6
<1>10. Trails(o)'
  BY <1>1, <1>2, <1>9, StillTrails DEF w, SameInformers
<1>11. ASSUME Live, StaleReads
       PROVE  Lags(o)'
  <2>1. CASE w.current
    <3>1. PassHarmless(o)'
      BY <1>9, <2>1 DEF PassHarmless
    <3> QED
      BY <1>1, <1>2, <1>11, <3>1, SameLags DEF w
  <2>2. CASE ~w.current
    <3>1. InTrial(w.tr) => ~Crashes
      BY <1>1, <1>2, <1>11, <2>2 DEF OInv, Lags, PassHarmless, w
    <3> QED
      BY <1>1, <1>2, <1>9, <1>11, <2>2, <3>1, StaleLags DEF w, SameInformers
  <2> QED
    BY <2>1, <2>2
<1> QED
  BY <1>1, <1>2, <1>8, <1>10, <1>11, PassTurns, StillReported

-----------------------------------------------------------------------------
(* The status. *)

\* What the server does with a status made from the copy in hand.
LEMMA StatusCall ==
    ASSUME TypeOK, IInv, OInv, NEW o \in Operators, NEW status, NEW touched,
           NEW applied \in BOOLEAN,
           worker[o].pc \in {"rollbackStatus", "status", "fail"},
           applied => worker[o].current, applied \/ queue'[o],
           StaleReads /\ worker[o].current => applied,
           StoreRouter(o, [router EXCEPT !.status = status], applied, touched,
                       Idle),
           UNCHANGED <<configMap, deployment, pods, cache, torn>>
    PROVE  \/ OInv'
           \/ /\ Live /\ worker[o].current /\ worker'[o] = Idle
              /\ router' = [router EXCEPT !.status = status]
              /\ \/ fresh'[o] = fresh[o]
                 \/ fresh'[o] = fresh[o] \ {"router"}
<1>1. worker'[o] = Idle
  BY DEF StoreRouter, TypeOK, OutdateWorkers
<1>2. CASE applied
  <2>1. worker[o].current /\ Passing(worker[o])
    BY <1>2 DEF Passing
  <2>2. Live
    BY <2>1, PassInHand
  <2>3. /\ router' = [router EXCEPT !.status = status]
        /\ fresh'[o] = fresh[o] \/ fresh'[o] = fresh[o] \ {"router"}
    BY <1>2 DEF StoreRouter, Outdate
  <2> QED
    BY <1>1, <2>1, <2>2, <2>3
<1>3. CASE ~applied
  <2>1. router' = router /\ fresh' = fresh /\ queue'[o]
    BY <1>3 DEF StoreRouter
  <2>2. SameInformers(o)
    BY <2>1 DEF SameInformers
  <2>3. StaleReads => ~Restoring(worker[o])
    BY <1>3 DEF Restoring
  <2> QED
    BY <1>1, <2>1, <2>2, <2>3, PassRetries
<1> QED
  BY <1>2, <1>3

\* A promotion that is written down was earned: the window is over, the pods run
\* the spec and none of them crashes.  After a torn rollback they need not run it.
LEMMA PromotionEarned ==
    ASSUME TypeOK, IInv, OInv, NEW o \in Operators,
           Passing(worker[o]), worker[o].current
    PROVE  /\ ~torn => worker[o].tr.status.good \notin Crashing
           /\ worker[o].tr.status.bad \in Crashing \cup {None}
           /\ worker[o].tr.status.good # router.status.good
                 => Deployed(router.config) \/ torn
<1> DEFINE tr == worker[o].tr
<1>1. /\ tr.config = router.config
      /\ tr.status.bad = router.status.bad
      /\ tr.status.good # router.status.good
            => /\ tr.status.good = tr.config
               /\ InTrial(router) /\ router.status.left = 0
  BY PassInHand
<1>2. Reached(worker[o]) /\ Observed /\ Reported
  BY PassInHand DEF OInv
<1>3. PromotedIsHealthy /\ FlaggedIsCrashing
  BY DEF OInv
<1>4. CASE tr.status.good # router.status.good
  <2>1. /\ tr.status.good = router.config
        /\ router.status.phase = "Validating" /\ router.status.left = 0
    BY <1>1, <1>4 DEF InTrial
  <2>2. pods \cap Crashing = {}
    BY <1>2, <1>4 DEF Reached, Crashes
  <2>3. ~torn => router.config \in pods
    BY <1>2, <2>1 DEF Observed, Seen
  <2>4. Deployed(router.config) \/ torn
    BY <1>2, <2>1, <2>2 DEF Reported, Undecided, Crashes
  <2> QED
    BY <1>1, <1>3, <2>1, <2>2, <2>3, <2>4 DEF FlaggedIsCrashing
<1> QED
  BY <1>1, <1>3, <1>4 DEF PromotedIsHealthy, FlaggedIsCrashing

LEMMA WriteRolledBackOrderly ==
    ASSUME TypeOK, IInv, OInv, NEW o \in Operators, WriteRolledBack(o)
    PROVE  OInv'
<1> DEFINE w == worker[o]
           status == RolledBackStatus(w.tr, w.goal)
<1>1. PICK applied, ok, touched \in BOOLEAN :
          /\ Call(w.current, applied, ok)
          /\ StoreRouter(o, [router EXCEPT !.status = status], applied,
                         touched, Idle)
          /\ Return(o, ~ok, ok)
  BY DEF WriteRolledBack, Accepts
<1>2. w.pc = "rollbackStatus" /\ SameChildren
      /\ UNCHANGED <<configMap, deployment, pods, cache, torn>>
  BY DEF WriteRolledBack, SameChildren, children
<1>3. /\ applied => w.current
      /\ applied \/ queue'[o]
      /\ StaleReads /\ w.current => applied
  BY <1>1, NoFaults DEF Call, Return, TypeOK, OInv
<1>4. \/ OInv'
      \/ /\ Live /\ w.current /\ w' = Idle
         /\ router' = [router EXCEPT !.status = status]
         /\ fresh'[o] = fresh[o] \/ fresh'[o] = fresh[o] \ {"router"}
  <2>1. /\ worker[o].pc \in {"rollbackStatus", "status", "fail"}
        /\ applied => worker[o].current
        /\ applied \/ queue'[o]
        /\ StaleReads /\ worker[o].current => applied
        /\ StoreRouter(o, [router EXCEPT !.status = status], applied, touched,
                       Idle)
    BY <1>1, <1>2, <1>3
  <2> HIDE DEF status
  <2> QED
    BY <1>2, <2>1, StatusCall
<1> SUFFICES ASSUME Live, w.current, w' = Idle,
                    router' = [router EXCEPT !.status = status],
                    fresh'[o] = fresh[o] \/ fresh'[o] = fresh[o] \ {"router"}
             PROVE  OInv'
  BY <1>4
<1>5. Passing(w) /\ Knows(w) /\ UpToDate(o)
  BY <1>2 DEF Passing, IInv
<1>6. /\ w.tr.config = router.config /\ w.tr.status.good = router.status.good
      /\ router.config # None /\ router.config # router.status.bad
      /\ InTrial(router) /\ router.status.left = 0
  BY <1>2, <1>5, PassInHand DEF Knows, InTrial
<1>7. status \in Status
  BY StatusTypes
<1>8. /\ status.phase = "RolledBack" /\ status.hash = w.goal
      /\ status.bad = router.config /\ status.good = router.status.good
  BY <1>6, Typed DEF RolledBackStatus, Status
<1>9. Told /\ Backed /\ Observed /\ Reached(w)
  BY DEF OInv
<1>10. /\ router'.status = status /\ router'.config = router.config
       /\ router'.finalizer = router.finalizer
  BY Typed DEF Router
<1> HIDE DEF status, w
<1>11. /\ w.goal = router.status.good /\ w.goal # None
       /\ Crashes /\ Deployed(w.goal)
  BY <1>2, <1>9 DEF Reached, Deployed
<1>12. (~torn => status.good \notin Crashing) /\ status.bad \in Crashing
  BY <1>6, <1>8, <1>9, <1>11 DEF Observed, OInv, PromotedIsHealthy, InTrial
<1>13. Told'
  BY <1>6, <1>8, <1>9, <1>10, <1>11 DEF Told, InTrial
<1>14. Backed' /\ Observed' /\ ~Misled
  <2>1. ~Misled
    BY <1>6 DEF Misled, InTrial, ErrorPhases
  <2> QED
    BY <1>2, <1>6, <1>8, <1>9, <1>10, <1>11, <2>1
    DEF Backed, Observed, SameChildren, Deployed, InTrial
<1>15. Reported'
  BY <1>2, <1>8, <1>10, <1>11 DEF Reported, SameChildren, Deployed
<1>16. PICK old : old = router
  OBVIOUS
<1>17. Harmless(old)'
  <2>1. configMap.snapshot = router.status.good
    BY <1>6, <1>9, <1>11, <1>14 DEF Backed, InTrial
  <2> QED
    BY <1>2, <1>6, <1>8, <1>10, <1>11, <1>16, <2>1
    DEF Harmless, Deployed, Crashes, InTrial
<1>18. Undone'
  BY <1>8, <1>10 DEF Undone
<1>19. /\ \E x : x = router /\ Harmless(x)'
       /\ status.phase # "Validating" \/ status.left # 0
  BY <1>8, <1>16, <1>17
<1> QED
  BY <1>2, <1>5, <1>7, <1>8, <1>12, <1>13, <1>14, <1>15, <1>18, <1>19,
     StatusWritten DEF w

LEMMA WriteStatusOrderly ==
    ASSUME TypeOK, IInv, OInv, NEW o \in Operators, WriteStatus(o)
    PROVE  OInv'
<1> DEFINE w == worker[o]
           status == RolloutStatus(w.tr)
<1>1. w.pc = "status" /\ SameChildren
      /\ UNCHANGED <<configMap, deployment, pods, cache, torn>>
  BY DEF WriteStatus, SameChildren, children
<1>2. Passing(w) /\ Knows(w) /\ UpToDate(o) /\ ~Restoring(w)
  BY <1>1 DEF Passing, IInv, Restoring
<1>3. CASE Steady(w.tr)
  <2>1. w' = Idle /\ UNCHANGED <<router, fresh>> /\ (queue[o] => queue'[o])
    BY <1>3 DEF WriteStatus, TypeOK, Return
  <2>2. SameRouter /\ SameInformers(o)
    BY <1>1, <2>1 DEF SameRouter, SameInformers
  <2>3. Holds(w)' /\ Reached(w)'
    BY <2>1, IdleHolds, IdleFields DEF Holds, Reached
  <2>4. Trails(o)'
    BY <1>1, <2>1, IdleFields, StillTrails
  <2>5. ASSUME Live
        PROVE  Reported' /\ (StaleReads => Lags(o)')
    <3>1. Reported'
      <4>1. CASE w.current
        <5>1. /\ w.tr.config = router.config
              /\ w.tr.status.phase = router.status.phase
              /\ w.tr.status.good # router.status.good => InTrial(router)
          BY <1>2, <4>1, PassInHand
        <5>2. /\ router.status.phase = "Ready"
              /\ router.status.good = router.config
          BY <1>3, <5>1 DEF Steady, InTrial
        <5>3. Deployed(router.config)
          BY <1>1, <2>5, <4>1 DEF OInv, Reached, Deployed
        <5> QED
          BY <1>1, <2>1, <5>2, <5>3 DEF Reported, SameChildren, Deployed
      <4>2. CASE ~w.current
        <5>1. PassHarmless(o)
          BY <1>2, <2>5, <4>2 DEF OInv, Holds, Lags
        <5>2. Pending'
          BY <1>2, <2>1, <4>2, <5>1 DEF PassHarmless, Pending
        <5> QED
          BY <1>1, <2>1, <2>2, <2>5, <5>2, IdleFields, NobodyAway,
             StillReported
          DEF OInv
      <4> QED
        BY <4>1, <4>2
    <3>2. PassHarmless(o)'
      BY <2>1, IdleFields DEF PassHarmless, Passing
    <3>3. StaleReads => Lags(o)'
      BY <1>1, <1>2, <2>1, <2>2, <2>5, <3>2, SameLags
    <3> QED
      BY <3>1, <3>3
  <2> QED
    BY <1>1, <2>2, <2>3, <2>4, <2>5, PassTurns
<1>4. CASE ~Steady(w.tr)
  <2>1. PICK applied, ok, touched \in BOOLEAN :
            /\ Call(w.current, applied, ok)
            /\ StoreRouter(o, [router EXCEPT !.status = status], applied,
                           touched, Idle)
            /\ Return(o, ~ok, ok)
    BY <1>4 DEF WriteStatus, Accepts
  <2>2. /\ applied => w.current
        /\ applied \/ queue'[o]
        /\ StaleReads /\ w.current => applied
    BY <2>1, NoFaults DEF Call, Return, TypeOK, OInv
  <2>3. \/ OInv'
        \/ /\ Live /\ w.current /\ w' = Idle
           /\ router' = [router EXCEPT !.status = status]
           /\ fresh'[o] = fresh[o] \/ fresh'[o] = fresh[o] \ {"router"}
    <3>1. /\ worker[o].pc \in {"rollbackStatus", "status", "fail"}
          /\ applied => worker[o].current
          /\ applied \/ queue'[o]
          /\ StaleReads /\ worker[o].current => applied
          /\ StoreRouter(o, [router EXCEPT !.status = status], applied, touched,
                         Idle)
      BY <1>1, <2>1, <2>2
    <3> HIDE DEF status
    <3> QED
      BY <1>1, <3>1, StatusCall
  <2> SUFFICES ASSUME Live, w.current, w' = Idle,
                      router' = [router EXCEPT !.status = status],
                      fresh'[o] = fresh[o] \/ fresh'[o] = fresh[o] \ {"router"}
               PROVE  OInv'
    BY <2>3
  <2>4. /\ w.tr.config = router.config /\ router.config # None
        /\ w.tr.status.bad = router.status.bad
        /\ router.config # router.status.bad
        /\ w.tr.status.good # router.status.good
              => w.tr.status.good = router.config
    BY <1>1, <1>2, PassInHand DEF Knows
  <2>5. status \in Status
    BY StatusTypes
  <2>6. /\ status.hash = router.config /\ status.bad = router.status.bad
        /\ status.good = w.tr.status.good
        /\ IF router.config # w.tr.status.good
           THEN status.phase = "Validating" /\ status.left = Window
           ELSE status.phase = "Ready"
    BY <2>4, Typed DEF RolloutStatus, Status
  <2>7. /\ router'.status = status /\ router'.config = router.config
        /\ router'.finalizer = router.finalizer
    BY Typed DEF Router
  <2>8. /\ ~torn => w.tr.status.good \notin Crashing
        /\ w.tr.status.bad \in Crashing \cup {None}
    BY <1>2, PromotionEarned
  <2>9. Backed /\ Told /\ Deployed(router.config)
    BY <1>1 DEF OInv, Reached, Deployed
  <2>10. router.status.phase = "Validating"
            => ~Crashes /\ w.tr.status.good = router.config
    BY <1>1, RolloutPromotes
  <2>11. router.finalizer
    <3>1. w.tr.finalizer /\ w.tr.uid = router.uid /\ w.tr.uid # 0
      BY <1>1, <1>2, PassInHand DEF Knows
    <3> QED
      BY <3>1 DEF IInv, Copy
  <2> HIDE DEF status, w
  <2>12. Told'
    BY <2>4, <2>6, <2>7, <2>11 DEF Told
  <2>13. Observed'
    BY <2>6, <2>7, WindowAssumption DEF Observed
  <2>14. Reported'
    BY <1>1, <2>6, <2>7, <2>9, WindowAssumption
    DEF Reported, SameChildren, Deployed
  <2>15. Backed'
    BY <1>1, <2>4, <2>6, <2>7, <2>9 DEF Backed, Misled, SameChildren, Deployed
  <2>16. PICK old : old = router
    OBVIOUS
  <2>17. Harmless(old)'
    <3>1. Deployed(router.config)'
      BY <1>1, <2>7, <2>9 DEF Deployed
    <3>2. Window > 0
      BY WindowAssumption
    <3> QED
      BY <1>1, <2>6, <2>7, <2>9, <2>10, <2>16, <3>1, <3>2
      DEF Harmless, InTrial, Deployed, Crashes
  <2>18. ~Undone
    BY <2>4 DEF Undone
  <2>19. StaleReads =>
            /\ UpToDate(o)
            /\ \E x : x = router /\ Harmless(x)'
            /\ status.phase # "Validating" \/ status.left # 0
            /\ \/ Undone'
               \/ ~Undone /\ ~Restoring(worker[o])
    BY <1>2, <2>6, <2>16, <2>17, <2>18, WindowAssumption DEF w
  <2>20. /\ ~torn => status.good \notin Crashing
         /\ status.bad \in Crashing \cup {None}
         /\ worker[o].current /\ worker'[o] = Idle
    BY <2>4, <2>6, <2>8 DEF w
  <2> QED
    BY <1>1, <2>5, <2>12, <2>13, <2>14, <2>15, <2>19, <2>20, StatusWritten
<1> QED
  BY <1>3, <1>4

LEMMA SetStatusOrderly ==
    ASSUME TypeOK, IInv, OInv, NEW o \in Operators, SetStatus(o)
    PROVE  OInv'
<1> DEFINE w == worker[o]
           status == [w.tr.status EXCEPT !.phase = w.failure]
<1>1. PICK applied, ok, touched \in BOOLEAN :
          /\ Call(w.current, applied, ok)
          /\ StoreRouter(o, [router EXCEPT !.status = status], applied,
                         touched, Idle)
          /\ Return(o, ~ok, FALSE)
  BY DEF SetStatus, Accepts
<1>2. w.pc = "fail" /\ SameChildren
      /\ UNCHANGED <<configMap, deployment, pods, cache, torn>>
  BY DEF SetStatus, SameChildren, children
<1>3. /\ applied => w.current
      /\ applied \/ queue'[o]
      /\ StaleReads /\ w.current => applied
  BY <1>1, NoFaults DEF Call, Return, TypeOK, OInv
<1>4. \/ OInv'
      \/ /\ Live /\ w.current /\ w' = Idle
         /\ router' = [router EXCEPT !.status = status]
         /\ fresh'[o] = fresh[o] \/ fresh'[o] = fresh[o] \ {"router"}
  <2>1. /\ worker[o].pc \in {"rollbackStatus", "status", "fail"}
        /\ applied => worker[o].current
        /\ applied \/ queue'[o]
        /\ StaleReads /\ worker[o].current => applied
        /\ StoreRouter(o, [router EXCEPT !.status = status], applied, touched,
                       Idle)
    BY <1>1, <1>2, <1>3
  <2> HIDE DEF status
  <2> QED
    BY <1>2, <2>1, StatusCall
<1> SUFFICES ASSUME Live, w.current, w' = Idle,
                    router' = [router EXCEPT !.status = status],
                    fresh'[o] = fresh[o] \/ fresh'[o] = fresh[o] \ {"router"}
             PROVE  OInv'
  BY <1>4
<1>5. Passing(w) /\ Holds(w) /\ Knows(w) /\ UpToDate(o) /\ ~Restoring(w)
  BY <1>2 DEF Passing, IInv, OInv, Restoring
<1>6. /\ w.tr.config = router.config /\ router.config # None
      /\ w.tr.uid = router.uid
      /\ w.tr.status.phase = router.status.phase
      /\ w.tr.status.hash = router.status.hash
      /\ w.tr.status.bad = router.status.bad
      /\ w.tr.status.good # router.status.good
            => w.tr.status.good = router.config
  BY <1>5, PassInHand
<1>7. w.failure \in ErrorPhases /\ router.config # router.status.bad
  BY <1>2, <1>5, <1>6 DEF Holds
<1>8. status \in Status
  BY StatusTypes
<1>9. /\ status.phase \in ErrorPhases /\ status.bad = router.status.bad
      /\ status.good = w.tr.status.good
  BY <1>6, <1>7, Typed DEF Status
<1>10. /\ router'.status = status /\ router'.config = router.config
       /\ router'.finalizer = router.finalizer
  BY Typed DEF Router
<1>11. /\ ~torn => w.tr.status.good \notin Crashing
       /\ w.tr.status.bad \in Crashing \cup {None}
       /\ w.tr.status.good # router.status.good
             => Deployed(router.config) \/ torn
  BY <1>5, PromotionEarned
<1>12. Backed /\ Reached(w)
  BY DEF OInv
<1>13. router.finalizer
  BY <1>2, <1>5, <1>6 DEF Knows, IInv, Copy
<1> HIDE DEF status, w
<1>14. status.phase \notin {"", "Validating", "Ready", "RolledBack"}
  BY <1>9 DEF ErrorPhases
<1>15. Told' /\ Observed' /\ Reported'
  BY <1>6, <1>7, <1>9, <1>10, <1>13, <1>14 DEF Told, Observed, Reported
<1>16. Backed'
  BY <1>2, <1>6, <1>9, <1>10, <1>11, <1>12, <1>14
  DEF Backed, Misled, SameChildren, Deployed
<1>17. PICK old : old = router
  OBVIOUS
<1>18. StaleReads => Harmless(old)'
  <2>1. StaleReads /\ InTrial(router) => ~Crashes \/ status.good = None
    BY <1>2, <1>6, <1>9, <1>12 DEF Reached, InTrial
  <2> QED
    BY <1>2, <1>9, <1>10, <1>14, <1>17, <2>1 DEF Harmless, InTrial, Crashes
<1>19. ~Undone
  BY <1>7 DEF Undone
<1>20. StaleReads =>
          /\ UpToDate(o)
          /\ \E x : x = router /\ Harmless(x)'
          /\ status.phase # "Validating" \/ status.left # 0
          /\ \/ Undone'
             \/ ~Undone /\ ~Restoring(worker[o])
  BY <1>5, <1>14, <1>17, <1>18, <1>19 DEF w
<1>21. /\ ~torn => status.good \notin Crashing
       /\ status.bad \in Crashing \cup {None}
       /\ worker[o].current /\ worker'[o] = Idle
  BY <1>6, <1>9, <1>11 DEF w
<1> QED
  BY <1>2, <1>8, <1>15, <1>16, <1>20, <1>21, StatusWritten

-----------------------------------------------------------------------------
(* Operators that do not run. *)

\* No pass ends with its operator down: only a crash does that.
LEMMA StepsRun ==
    ASSUME TypeOK, NEW o \in Operators, Step(o)
    PROVE  worker'[o].pc # "down"
<1> DEFINE w == worker[o]
<1>1. w \in Worker /\ w.tr \in Router
  BY Typed
<1>2. \A pc \in Pcs : [w EXCEPT !.pc = pc].pc = pc
  BY <1>1 DEF Worker
<1>3. \A phase : Failing(w, phase).pc = "fail"
  BY <1>1 DEF Failing, Worker
<1>4. CASE StartPass(o)
  <2>1. worker'[o] = Begin(cache[o].router, "router" \in fresh[o])
    BY <1>4 DEF StartPass, TypeOK
  <2>2. cache[o].router \in Router
    BY Typed
  <2>3. ("router" \in fresh[o]) \in BOOLEAN
    OBVIOUS
  <2> QED
    BY <2>1, <2>2, <2>3, BeginHolds, IdleFields
<1>5. CASE AddFinalizer(o)
  <2> DEFINE tr == [w.tr EXCEPT !.finalizer = TRUE]
  <2>1. worker'[o] \in {Enter(tr, TRUE), Idle}
    BY <1>5 DEF AddFinalizer, StoreRouter, OutdateWorkers, TypeOK
  <2>2. tr \in Router
    BY <1>1 DEF Router
  <2> QED
    BY <2>1, <2>2, EnterHolds, IdleFields
<1>6. CASE DrainCheck(o)
  BY <1>1, <1>6 DEF DrainCheck, TypeOK, Worker
<1>7. CASE RemoveFinalizer(o) \/ WriteRolledBack(o) \/ SetStatus(o)
  BY <1>7, IdleFields
  DEF RemoveFinalizer, WriteRolledBack, SetStatus, StoreRouter, OutdateWorkers,
      TypeOK
<1>8. CASE WriteStatus(o)
  BY <1>8, IdleFields DEF WriteStatus, StoreRouter, OutdateWorkers, TypeOK
<1>9. CASE CheckPods(o)
  <2>1. \/ worker'[o] = Idle
        \/ worker'[o] = [w EXCEPT !.pc = "rollback"]
        \/ worker'[o] = [w EXCEPT !.pc = "configMap",
                                  !.tr.status.good = w.tr.config]
    BY <1>9 DEF CheckPods, TypeOK
  <2> QED
    BY <1>1, <2>1, IdleFields DEF Worker
<1>10. CASE RollbackConfig(o)
  <2>1. \/ worker'[o] = Failing(w, "RollbackFailed")
        \/ worker'[o] = [w EXCEPT !.pc = "rollbackDeployment",
                                  !.goal = cache[o].configMap.snapshot]
    BY <1>10 DEF RollbackConfig, TypeOK
  <2> QED
    BY <1>1, <1>3, <2>1 DEF Worker
<1>11. CASE ApplyConfigMap(o)
  <2>1. \/ worker'[o] = [w EXCEPT !.pc = "deployment"]
        \/ worker'[o] = Failing(w, "ConfigMapError")
    BY <1>11 DEF ApplyConfigMap, Goto, TypeOK
  <2> QED
    BY <1>1, <1>3, <2>1 DEF Worker
<1>12. CASE ApplyDeployment(o)
  <2>1. \/ \E pc \in {"service", "rollbackStatus"} :
              worker'[o] = [w EXCEPT !.pc = pc]
        \/ worker'[o] = Failing(w, "DeploymentError")
        \/ worker'[o] = Idle
    BY <1>12 DEF ApplyDeployment, TypeOK
  <2> QED
    BY <1>1, <1>3, <2>1, IdleFields DEF Worker
<1>13. CASE ApplyService(o)
  <2>1. \/ worker'[o] = [w EXCEPT !.pc = "status"]
        \/ worker'[o] = Failing(w, "ServiceError")
    BY <1>13 DEF ApplyService, Goto, TypeOK
  <2> QED
    BY <1>1, <1>3, <2>1 DEF Worker
<1> QED
  BY <1>4, <1>5, <1>6, <1>7, <1>8, <1>9, <1>10, <1>11, <1>12, <1>13 DEF Step

\* Time does not show in a cache that is empty, and nothing else happens to it.
LEMMA GoneInductive ==
    ASSUME TypeOK, Orderly, Gone, [Next]_vars
    PROVE  Gone'
<1> PICK o \in Operators : TRUE
  BY OperatorsAssumption
<1>1. Operators = {o}
  BY OneOperator
<1> DEFINE Nothing == /\ cache[o].router.uid = 0
                      /\ cache[o].configMap = NoConfigMap
                      /\ cache[o].deployment = NoDeployment
                      /\ fresh[o] = {} /\ ~queue[o] /\ ~timer[o]
<1> SUFFICES ASSUME worker'[o].pc = "down"
             PROVE  Nothing'
  BY <1>1 DEF Gone
<1>2. worker[o].pc = "down" => Nothing
  BY DEF Gone
<1>3. CASE Crash(o)
  BY <1>3 DEF Crash, TypeOK, NoCache, NoRouter
<1>4. CASE Step(o) \/ Boot(o)
  BY <1>4, StepsRun, IdleFields DEF Boot, TypeOK
<1>5. CASE Runtime(o)
  BY <1>2, <1>5 DEF Runtime, Deliver, TimerFires
<1>6. CASE Tick
  <2>1. /\ worker'[o] = [worker[o] EXCEPT !.tr = Aged(worker[o].tr)]
        /\ cache'[o] = [cache[o] EXCEPT !.router = Aged(cache[o].router)]
        /\ UNCHANGED <<fresh, queue, timer>>
    BY <1>6 DEF Tick
  <2>2. worker'[o].pc = worker[o].pc
    BY <2>1, Typed DEF Worker
  <2>3. /\ cache'[o].router = Aged(cache[o].router)
        /\ cache'[o].configMap = cache[o].configMap
        /\ cache'[o].deployment = cache[o].deployment
    BY <2>1 DEF TypeOK
  <2>4. cache'[o].router.uid = cache[o].router.uid
    BY <2>3, Typed, AgedFields
  <2> QED
    BY <1>2, <2>1, <2>2, <2>3, <2>4
<1>7. CASE PodStarts \/ CrashingPodRestarts \/ OldPodsRetire
  BY <1>2, <1>7 DEF PodStarts, CrashingPodRestarts, OldPodsRetire, PodsBecome,
     Outdate
<1>8. CASE CollectConfigMap \/ CollectDeployment \/ CollectService
  BY <1>2, <1>8 DEF CollectConfigMap, CollectDeployment, CollectService, Outdate
<1>9. CASE Users
  <2>1. /\ worker' = OutdateWorkers /\ fresh' = Outdate("router")
        /\ UNCHANGED <<cache, queue, timer>>
    BY <1>9 DEF Users, CreateRouter, EditSpec, DeleteRouter, UserWrites
  <2>2. worker'[o].pc = worker[o].pc
    BY <2>1, Typed DEF OutdateWorkers, Worker
  <2> QED
    BY <1>2, <2>1, <2>2 DEF Outdate
<1>10. CASE UNCHANGED vars
  BY <1>2, <1>10 DEF vars, informers
<1> QED
  BY <1>1, <1>3, <1>4, <1>5, <1>6, <1>7, <1>8, <1>9, <1>10 DEF Next, Cluster

-----------------------------------------------------------------------------
(* The runtime, the cluster and the user. *)

\* An event, a timer or a start leaves the router in the queue.
LEMMA RuntimeOrderly ==
    ASSUME TypeOK, IInv, OInv, NEW o \in Operators, Runtime(o) \/ Boot(o)
    PROVE  OInv'
<1>1. /\ SameRouter /\ SameChildren
      /\ UNCHANGED <<router, configMap, deployment, pods>>
  BY DEF Runtime, Deliver, TimerFires, Boot, SameRouter, SameChildren, children
<1>2. queue'[o]
  BY DEF Runtime, Deliver, TimerFires, Boot, TypeOK
<1>3. Live => Reported'
  <2>1. CASE Boot(o)
    <3>1. worker'[o].pc # "down"
      BY <2>1, IdleFields DEF Boot, TypeOK
    <3> QED
      BY <1>1, <1>2, <3>1, NobodyAway, StillReported DEF Pending, OInv
  <2>2. CASE Runtime(o)
    <3>1. UNCHANGED worker
      BY <2>2 DEF Runtime, Deliver, TimerFires
    <3>2. Away' => Away
      BY <3>1 DEF Away
    <3> QED
      BY <1>1, <1>2, <3>2, StillReported DEF Pending
  <2> QED
    BY <2>1, <2>2
<1>4. CASE TimerFires(o)
  <2>1. UNCHANGED <<worker, cache, fresh>>
    BY <1>4 DEF TimerFires, informers
  <2>2. Holds(worker[o])' /\ (Live => Reached(worker[o])')
    BY <1>1, <2>1 DEF OInv, Holds, Reached, Live, Crashes
  <2>3. Trails(o)'
    BY <1>1, <2>1, StillTrails
  <2>4. Live /\ StaleReads => Lags(o)'
    BY <1>1, <1>2, <2>1, LagsStay DEF SameInformers
  <2> QED
    BY <1>1, <1>3, <2>2, <2>3, <2>4, PassTurns
<1>5. ASSUME NEW k \in Kinds, Deliver(o, k)
      PROVE  OInv'
  <2>1. /\ cache'[o] = [cache[o] EXCEPT ![k] = Stored[k]]
        /\ fresh'[o] = fresh[o] \cup {k} /\ UNCHANGED worker
    BY <1>5 DEF Deliver, TypeOK
  <2>2. /\ cache'[o].router = IF k = "router" THEN router ELSE cache[o].router
        /\ cache'[o].configMap = IF k = "configMap" THEN configMap
                                                    ELSE cache[o].configMap
        /\ cache'[o].deployment = IF k = "deployment" THEN deployment
                                                      ELSE cache[o].deployment
    BY <2>1 DEF TypeOK, Stored, Kinds
  <2>3. Holds(worker[o])' /\ (Live => Reached(worker[o])')
    BY <1>1, <2>1 DEF OInv, Holds, Reached, Live, Crashes
  <2>4. Trails(o)'
    <3>1. Trails(o)
      BY DEF OInv
    <3>2. CASE k = "router"
      BY <1>1, <2>1, <2>2, <3>2 DEF Trails
    <3>3. CASE k # "router"
      BY <1>1, <2>1, <2>2, <3>1, <3>3 DEF Trails
    <3> QED
      BY <3>2, <3>3
  <2>5. ASSUME Live, StaleReads
        PROVE  Lags(o)'
    <3>1. Lags(o)
      BY <2>5 DEF OInv
    <3>2. \A tr : Harmless(tr) => Harmless(tr)'
      BY <1>1, StillHarmless
    <3>3. CacheHarmless(o)'
      <4> PICK old : old = cache[o].router
        OBVIOUS
      <4>1. /\ "router" \notin fresh'[o] /\ old.uid = router.uid /\ old.finalizer
                  => Harmless(old)'
        BY <2>1, <3>1, <3>2 DEF Lags, CacheHarmless
      <4>2. "router" \notin fresh'[o] => cache'[o].router = old
        BY <2>1, <2>2
      <4> QED
        BY <1>1, <4>1, <4>2 DEF CacheHarmless
    <3>4. PassHarmless(o)'
      BY <1>1, <1>2, <2>1, <3>1, <3>2 DEF Lags, PassHarmless, Crashes
    <3>5. FreshInTrial(o)'
      BY <1>1, <2>1, <3>1 DEF Lags, FreshInTrial, Closed, Crashes
    <3>6. ConfigMapLags(o)'
      BY <1>1, <2>1, <2>2, <3>1 DEF Lags, ConfigMapLags, Undone
    <3>7. DeploymentLags(o)'
      BY <1>1, <2>1, <2>2, <3>1 DEF Lags, DeploymentLags, Undone
    <3> QED
      BY <3>3, <3>4, <3>5, <3>6, <3>7 DEF Lags
  <2> QED
    BY <1>1, <1>3, <2>3, <2>4, <2>5, PassTurns
<1>6. CASE Boot(o)
  <2>1. worker'[o] = Idle /\ cache'[o] = Stored /\ fresh'[o] = Kinds
    BY <1>6 DEF Boot, TypeOK
  <2>2. /\ cache'[o].router = router' /\ cache'[o].configMap = configMap'
        /\ cache'[o].deployment = deployment'
        /\ {"router", "configMap", "deployment"} \subseteq fresh'[o]
    BY <1>1, <2>1 DEF Stored, Kinds
  <2>3. Holds(worker[o])' /\ Reached(worker[o])' /\ Trails(o)'
    BY <2>1, <2>2, IdleHolds, IdleFields DEF Holds, Reached, Trails
  <2>4. Lags(o)'
    BY <2>1, <2>2, IdleFields
    DEF Lags, CacheHarmless, PassHarmless, Passing, FreshInTrial, ConfigMapLags,
        DeploymentLags
  <2> QED
    BY <1>1, <1>3, <2>3, <2>4, PassTurns
<1> QED
  BY <1>4, <1>5, <1>6 DEF Runtime

\* An operator stops: what it had begun is left as it is, and a rollback that is
\* half done is torn.
LEMMA CrashOrderly ==
    ASSUME TypeOK, IInv, OInv, NEW o \in Operators, Crash(o)
    PROVE  OInv'
<1>1. Operators = {o}
  BY OneOperator DEF OInv
<1>2. /\ worker'[o] = Down /\ cache'[o] = NoCache /\ fresh'[o] = {}
      /\ torn' = (torn \/ HalfRolledBack)
      /\ UNCHANGED <<router, configMap, deployment, pods>>
  BY DEF Crash, TypeOK, children
<1>3. /\ worker'[o].pc = "down" /\ ~Passing(worker'[o])
      /\ ~worker'[o].current /\ ~worker'[o].tr.deleting
  BY <1>2, IdleFields DEF Passing, NoRouter
<1>4. /\ cache'[o].router.uid = 0 /\ cache'[o].configMap.config = None
      /\ cache'[o].deployment.config = None
  BY <1>2 DEF NoCache, NoRouter, NoConfigMap, NoDeployment
<1>5. Holds(worker[o])' /\ Trails(o)' /\ Live' = Live
  BY <1>2, <1>3, <1>4 DEF Holds, Trails, Live, Passing
<1>6. Family' /\ PromotedIsHealthy' /\ FlaggedIsCrashing'
  BY <1>2 DEF OInv, Family, PromotedIsHealthy, FlaggedIsCrashing
<1>7. ASSUME Live
      PROVE  /\ Told' /\ Backed' /\ Reported' /\ Observed'
             /\ Reached(worker[o])' /\ Lags(o)'
  <2>1. Told /\ Backed /\ Reported /\ Observed
    BY <1>7 DEF OInv
  <2>2. Told' /\ Backed'
    BY <1>2, <2>1 DEF Told, Backed, Misled
  <2>3. Pending'
    BY <1>2 DEF Pending
  <2>4. Reported'
    <3>1. CASE router.status.phase = "Validating"
      <4>1. CASE Undecided
        <5>1. torn \/ HalfRolledBack
          BY <2>1, <3>1, <4>1 DEF Undecided, HalfRolledBack, Told
        <5> QED
          BY <1>2, <2>3, <3>1, <4>1, <5>1 DEF Reported, Undecided
      <4>2. CASE ~Undecided
        BY <1>2, <2>1, <3>1, <4>2 DEF Reported, Deployed, Seen
      <4> QED
        BY <4>1, <4>2
    <3>2. CASE router.status.phase # "Validating"
      BY <1>2, <2>1, <2>3, <3>2 DEF Reported, Deployed
    <3> QED
      BY <3>1, <3>2
  <2>5. Observed'
    BY <1>2, <2>1 DEF Observed, Seen, Crashes
  <2>6. Reached(worker[o])'
    BY <1>3 DEF Reached
  <2>7. router.config # None /\ router.uid # 0
    BY <1>7, ConfigsAssumption DEF IInv, Numbering, Live
  <2>8. Lags(o)'
    BY <1>2, <1>3, <1>4, <2>7
    DEF Lags, CacheHarmless, PassHarmless, FreshInTrial, ConfigMapLags,
        DeploymentLags
  <2> QED
    BY <2>2, <2>4, <2>5, <2>6, <2>8
<1> QED
  BY <1>1, <1>5, <1>6, <1>7 DEF OInv, Orderly

\* What an operator at ease knows.
LEMMA AtEaseShows ==
    ASSUME IInv, NEW o \in Operators, Resting(o)
    PROVE  /\ ~Passing(worker[o]) /\ fresh[o] = Kinds
           /\ {"router", "configMap", "deployment"} \subseteq fresh[o]
           /\ cache[o].router = router
           /\ cache[o].configMap = configMap
           /\ cache[o].deployment = deployment
BY DEF Resting, IInv, UpToDate, Kinds, Passing

\* What the one operator knows when it is quiet: all there is, or nothing.
LEMMA QuietShows ==
    ASSUME IInv, OInv, Gone, Quiet, NEW o \in Operators
    PROVE  /\ ~Passing(worker[o])
           /\ \/ /\ worker[o].pc # "down" /\ ~Pending
                 /\ {"router", "configMap", "deployment"} \subseteq fresh[o]
                 /\ cache[o].router = router
                 /\ cache[o].configMap = configMap
                 /\ cache[o].deployment = deployment
              \/ /\ worker[o].pc = "down" /\ Away
                 /\ cache[o].router.uid = 0
                 /\ cache[o].configMap.config = None
                 /\ cache[o].deployment.config = None
<1>1. Operators = {o}
  BY OneOperator DEF OInv
<1>2. CASE Resting(o)
  <2>1. ~queue[o] /\ worker[o].pc \in {"idle", "drain"}
    BY <1>2 DEF Resting
  <2>2. ~Pending
    BY <1>1, <1>2, <2>1, AtEaseShows DEF Pending
  <2> QED
    BY <1>2, <2>1, <2>2, AtEaseShows
<1>3. CASE worker[o].pc = "down"
  BY <1>3 DEF Gone, NoConfigMap, NoDeployment, Passing, Away
<1> QED
  BY <1>2, <1>3 DEF Quiet

\* Time passes only when the operator has nothing to do or does not run, and a
\* window closes only when the pods have settled.
LEMMA TickOrderly ==
    ASSUME TypeOK, IInv, OInv, Gone, Tick
    PROVE  OInv'
<1> PICK o \in Operators : TRUE
  BY OperatorsAssumption
<1>1. Operators = {o}
  BY OneOperator DEF OInv
<1>2. Quiet /\ (router.status.left = 1 => PodsSettled)
  BY DEF Tick, OInv, Orderly
<1>3. UNCHANGED <<configMap, deployment, pods, fresh, queue, torn>>
  BY DEF Tick, children
<1>4. /\ router'.uid = router.uid /\ router'.deleting = router.deleting
      /\ router'.finalizer = router.finalizer
      /\ router'.config = router.config
      /\ router'.status.phase = router.status.phase
      /\ router'.status.hash = router.status.hash
      /\ router'.status.good = router.status.good
      /\ router'.status.bad = router.status.bad
      /\ router'.status.left =
            IF router.status.left = 0 THEN 0 ELSE router.status.left - 1
  BY Typed, AgedFields DEF Tick
<1>5. /\ worker'[o].pc = worker[o].pc
      /\ worker'[o].current = worker[o].current
      /\ worker'[o].tr.uid = worker[o].tr.uid
      /\ worker'[o].tr.deleting = worker[o].tr.deleting
      /\ worker'[o].tr.finalizer = worker[o].tr.finalizer
      /\ worker'[o].tr.status.good = worker[o].tr.status.good
  <2>1. worker'[o] = [worker[o] EXCEPT !.tr = Aged(worker[o].tr)]
    BY DEF Tick
  <2>2. /\ worker'[o].pc = worker[o].pc
        /\ worker'[o].current = worker[o].current
        /\ worker'[o].tr = Aged(worker[o].tr)
    BY <2>1, Typed DEF Worker
  <2> QED
    BY <2>2, Typed, AgedFields
<1>6. \/ /\ cache'[o].router.uid = router'.uid
         /\ cache'[o].configMap = configMap'
         /\ cache'[o].deployment = deployment'
         /\ {"router", "configMap", "deployment"} \subseteq fresh'[o]
      \/ /\ worker'[o].pc = "down" /\ cache'[o].router.uid = 0
         /\ cache'[o].configMap.config = None
         /\ cache'[o].deployment.config = None
  <2>1. cache'[o] = [cache[o] EXCEPT !.router = Aged(cache[o].router)]
    BY DEF Tick
  <2>2. /\ cache'[o].router = Aged(cache[o].router)
        /\ cache'[o].configMap = cache[o].configMap
        /\ cache'[o].deployment = cache[o].deployment
    BY <2>1 DEF TypeOK
  <2>3. cache'[o].router.uid = cache[o].router.uid
    BY <2>2, Typed, AgedFields
  <2> QED
    BY <1>2, <1>3, <1>4, <1>5, <2>2, <2>3, QuietShows
<1>7. ~Passing(worker[o]) /\ ~Passing(worker'[o])
  BY <1>2, <1>5, QuietShows DEF Passing
<1>8. Holds(worker[o])' /\ Trails(o)' /\ Live' = Live
  <2>1. Holds(worker[o])' /\ Live' = Live
    BY <1>4, <1>5, <1>7 DEF OInv, Holds, Live, Passing
  <2>2. worker[o].pc = "down" => ~worker[o].current
    BY DEF IInv, InHand
  <2>3. Trails(o)'
    BY <1>4, <1>5, <1>6, <2>2 DEF Trails
  <2> QED
    BY <2>1, <2>3
<1>9. Family' /\ PromotedIsHealthy' /\ FlaggedIsCrashing'
  BY <1>3, <1>4 DEF OInv, Family, PromotedIsHealthy, FlaggedIsCrashing
<1>10. (Pending' <=> Pending) /\ (Away' <=> Away)
  BY <1>1, <1>3, <1>5, <1>7 DEF Pending, Away
<1>11. ASSUME Live
       PROVE  /\ Told' /\ Backed' /\ Reported' /\ Observed'
              /\ Reached(worker[o])' /\ (StaleReads => Lags(o)')
  <2>1. Told /\ Backed /\ Reported /\ Observed /\ Reached(worker[o])
    BY <1>11 DEF OInv
  <2>2. Told' /\ Backed'
    BY <1>3, <1>4, <2>1 DEF Told, Backed, Misled
  <2>3. router.status.left \in Nat
    BY Typed
  <2>4. ASSUME router.status.phase = "Validating", router'.status.left = 0,
               ~Undecided
        PROVE  Seen
    <3>1. CASE router.status.left = 0
      BY <2>1, <2>4, <3>1 DEF Reported
    <3>2. CASE router.status.left = 1
      BY <1>2, <2>1, <2>4, <3>2 DEF Reported, PodsSettled, Seen, Deployed
    <3> QED
      BY <1>4, <2>3, <2>4, <3>1, <3>2
  <2>5. (Undecided => Undecided') /\ (Seen => Seen') /\ Crashes' = Crashes
    BY <1>3, <1>4, <1>10 DEF Undecided, Seen, Crashes
  <2>6. Reported'
    BY <1>3, <1>4, <1>10, <2>1, <2>4, <2>5 DEF Reported, Deployed
  <2>7. Observed'
    <3>1. CASE router.status.left = 0
      BY <1>3, <1>4, <2>1, <2>5, <3>1 DEF Observed
    <3>2. CASE router.status.left # 0
      <4>1. ~Undecided
        BY <3>2 DEF Undecided
      <4> QED
        BY <1>3, <1>4, <2>4, <2>5, <4>1 DEF Observed, Seen, Crashes
    <3> QED
      BY <3>1, <3>2
  <2>8. Reached(worker[o])'
    BY <1>3, <1>4, <1>5, <1>7, <2>1 DEF Reached, Passing, Crashes
  <2>9. router'.config # None /\ router'.uid # 0
    BY <1>4, <1>11, ConfigsAssumption DEF IInv, Numbering, Live
  <2>10. Lags(o)'
    BY <1>6, <1>7, <2>9
    DEF Lags, CacheHarmless, PassHarmless, FreshInTrial, ConfigMapLags,
        DeploymentLags
  <2> QED
    BY <2>2, <2>6, <2>7, <2>8, <2>10
<1> QED
  BY <1>1, <1>8, <1>9, <1>11 DEF OInv, Orderly

\* Once a window is over the pods have nothing left to do but to retire the old
\* ones, when the spec does not crash; after a torn rollback they may do anything.
LEMMA PodsOrderly ==
    ASSUME TypeOK, IInv, OInv, Gone,
           PodStarts \/ CrashingPodRestarts \/ OldPodsRetire
    PROVE  OInv'
<1> PICK o \in Operators : TRUE
  BY OperatorsAssumption
<1>1. Operators = {o}
  BY OneOperator DEF OInv
<1>2. /\ Quiet /\ fresh' = Outdate("deployment")
      /\ UNCHANGED <<router, configMap, deployment, cache, worker, queue, torn>>
  BY DEF PodStarts, CrashingPodRestarts, OldPodsRetire, PodsBecome, OInv,
         Orderly, children
<1>3. /\ ~Passing(worker[o])
      /\ "router" \in fresh'[o] <=> "router" \in fresh[o]
      /\ "configMap" \in fresh'[o] <=> "configMap" \in fresh[o]
  BY <1>2, QuietShows DEF Outdate
<1>4. Holds(worker[o])' /\ Live' = Live
  BY <1>2 DEF OInv, Holds, Live
<1>5. Trails(o)'
  BY <1>2, <1>3, StillTrails
<1>6. Family' /\ PromotedIsHealthy' /\ FlaggedIsCrashing'
  BY <1>2 DEF OInv, Family, PromotedIsHealthy, FlaggedIsCrashing
<1>7. (Pending' <=> Pending) /\ (Away' <=> Away)
  BY <1>1, <1>2, <1>3 DEF Pending, Away
<1>8. ASSUME Live
      PROVE  /\ Told' /\ Backed' /\ Reported' /\ Observed'
             /\ Reached(worker[o])' /\ (StaleReads => Lags(o)')
  <2>1. Told /\ Backed /\ Reported /\ Observed
    BY <1>8 DEF OInv
  <2>2. Told' /\ Backed'
    BY <1>2, <2>1 DEF Told, Backed, Misled
  <2>3. Undecided => torn
    BY <1>2, QuietShows DEF Undecided
  <2>4. Undecided => Undecided'
    BY <1>2, <1>7, <2>3 DEF Undecided
  <2>5. ASSUME router.status.phase = "Validating", router.status.left = 0,
               ~Undecided
        PROVE  pods' = {router.config} /\ router.config \notin Crashing
    <3>1. /\ configMap.config = router.config /\ router.config \in pods
          /\ pods \cap Crashing \subseteq {router.config}
      BY <2>1, <2>5 DEF Reported, Seen, Deployed
    <3> QED
      BY <3>1 DEF PodStarts, CrashingPodRestarts, OldPodsRetire, PodsBecome
  <2>6. Reported'
    <3>1. CASE router.status.phase = "Validating" /\ ~Undecided
      BY <1>2, <2>1, <2>5, <3>1 DEF Reported, Deployed, Seen
    <3>2. CASE router.status.phase = "Validating" /\ Undecided
      BY <1>2, <2>4, <3>2 DEF Reported
    <3>3. CASE router.status.phase # "Validating"
      BY <1>2, <1>7, <2>1, <3>3 DEF Reported, Deployed
    <3> QED
      BY <3>1, <3>2, <3>3
  <2>7. Observed'
    <3>1. CASE Undecided
      BY <1>2, <2>3, <3>1 DEF Observed, Undecided
    <3>2. CASE ~Undecided
      BY <1>2, <2>5, <3>2 DEF Observed, Seen, Crashes
    <3> QED
      BY <3>1, <3>2
  <2>8. Reached(worker[o])'
    <3>1. ~worker[o].current
      BY <1>3, <1>8 DEF OInv, IInv, InHand, Holds, Passing, Live, Knows
    <3> QED
      BY <1>2, <3>1 DEF Reached
  <2>9. FreshInTrial(o)'
    <3>1. worker[o].pc # "down" => ~Undecided
      BY <1>2, QuietShows DEF Undecided
    <3> QED
      BY <1>2, <2>5, <3>1 DEF FreshInTrial, Closed, Crashes
  <2>10. router.config # None /\ router.uid # 0
    BY <1>8, ConfigsAssumption DEF IInv, Numbering, Live
  <2>11. Lags(o)'
    BY <1>2, <1>3, <2>9, <2>10, QuietShows
    DEF Lags, CacheHarmless, PassHarmless, ConfigMapLags, DeploymentLags
  <2> QED
    BY <2>2, <2>6, <2>7, <2>8, <2>11
<1> QED
  BY <1>1, <1>4, <1>5, <1>6, <1>8 DEF OInv, Orderly

\* The children of a live router are not collected.
LEMMA CollectOrderly ==
    ASSUME TypeOK, OInv, CollectConfigMap \/ CollectDeployment \/ CollectService
    PROVE  OInv'
<1> PICK o \in Operators : TRUE
  BY OperatorsAssumption
<1>1. Operators = {o}
  BY OneOperator DEF OInv
<1>2. /\ UNCHANGED <<router, worker, queue, cache, torn>>
      /\ "router" \in fresh'[o] <=> "router" \in fresh[o]
  BY DEF CollectConfigMap, CollectDeployment, CollectService, Outdate, TypeOK
<1>3. Holds(worker[o])' /\ Trails(o)'
  BY <1>2, StillTrails DEF OInv, Holds, Live
<1>4. CASE CollectService
  <2>1. /\ SameRouter /\ SameChildren /\ SameInformers(o)
        /\ UNCHANGED <<configMap, deployment, pods>>
    BY <1>4 DEF CollectService, SameRouter, SameChildren, SameInformers, Outdate,
                TypeOK
  <2>2. ASSUME Live
        PROVE  /\ Reported' /\ Reached(worker[o])'
               /\ StaleReads => Lags(o)'
    <3>1. Reached(worker[o])'
      BY <1>2, <2>1, <2>2 DEF OInv, Reached, Crashes
    <3>2. Reported'
      BY <1>1, <1>2, <2>1, <2>2
      DEF OInv, Reported, Pending, Deployed, Crashes, Undecided, Seen, Away
    <3>3. StaleReads => Lags(o)'
      BY <1>2, <2>1, <2>2, LagsStay
    <3> QED
      BY <3>1, <3>2, <3>3
  <2> QED
    BY <1>3, <2>1, <2>2, PassTurns
<1>5. CASE CollectConfigMap \/ CollectDeployment
  <2>1. router.uid = 0
    BY <1>5 DEF OInv, Family, CollectConfigMap, CollectDeployment, Orphan
  <2>2. configMap' \in {configMap, NoConfigMap}
    BY <1>5 DEF CollectConfigMap, CollectDeployment
  <2>3. Family' /\ PromotedIsHealthy' /\ FlaggedIsCrashing' /\ ~Live'
    BY <1>2, <2>1, <2>2 DEF OInv, Family, PromotedIsHealthy, FlaggedIsCrashing,
                            Live
  <2> QED
    BY <1>1, <1>3, <2>3 DEF OInv, Orderly
<1> QED
  BY <1>4, <1>5

\* The user waits for the children of an earlier router to go before creating a
\* new one, and for a settled router before editing it; deleting needs no wait.
LEMMA UsersOrderly ==
    ASSUME TypeOK, IInv, OInv, Users
    PROVE  OInv'
<1> PICK o \in Operators : TRUE
  BY OperatorsAssumption
<1>1. Operators = {o}
  BY OneOperator DEF OInv
<1>2. /\ SameChildren
      /\ UNCHANGED <<configMap, deployment, pods, queue, cache, torn>>
  BY DEF Users, CreateRouter, EditSpec, DeleteRouter, UserWrites, SameChildren,
         children
<1>3. /\ worker'[o].pc = worker[o].pc /\ worker'[o].tr = worker[o].tr
      /\ worker'[o].failure = worker[o].failure
      /\ worker'[o].goal = worker[o].goal
      /\ ~worker'[o].current
      /\ "router" \notin fresh'[o]
  <2>1. worker' = OutdateWorkers /\ fresh' = Outdate("router")
    BY DEF Users, CreateRouter, EditSpec, DeleteRouter, UserWrites
  <2> QED
    BY <2>1, Typed DEF OutdateWorkers, Outdate, Worker
<1>4. Holds(worker[o]) /\ Trails(o) /\ Knows(worker[o])
  BY DEF OInv, IInv
<1>5. Reached(worker[o])'
  BY <1>3 DEF Reached
<1>6. CASE CreateRouter
  <2>1. PICK c \in Configs, n \in Replicas :
            router' = [NoRouter EXCEPT !.uid = creates + 1, !.config = c,
                                       !.replicas = n]
    BY <1>6 DEF CreateRouter, UserWrites
  <2>2. /\ router'.config = c /\ c # None /\ router'.status.phase = ""
        /\ router'.status.good = None /\ router'.status.bad = None
    BY <2>1, ConfigsAssumption DEF NoRouter, NoStatus
  <2>3. AtEase /\ configMap = NoConfigMap /\ deployment = NoDeployment
        /\ router.uid = 0
    BY <1>6 DEF CreateRouter, OInv, Orderly, Stored
  <2>4. /\ ~Passing(worker[o]) /\ cache[o].router.uid = 0
        /\ cache[o].configMap = NoConfigMap
        /\ cache[o].deployment = NoDeployment
    BY <2>3, AtEaseShows DEF AtEase
  <2>5. Holds(worker[o])' /\ Trails(o)'
    BY <1>2, <1>3, <1>4, <2>4 DEF Holds, Trails, Passing
  <2>6. Family'
    BY <1>2, <2>3 DEF Family, SameChildren, NoConfigMap, NoDeployment
  <2>7. Told' /\ Observed' /\ Reported'
    BY <2>2 DEF Told, Observed, Reported
  <2>8. Backed'
    <3>1. configMap'.config = None /\ configMap'.snapshot = None
      BY <1>2, <2>3 DEF NoConfigMap
    <3> QED
      BY <2>2, <3>1 DEF Backed
  <2>9. PromotedIsHealthy' /\ FlaggedIsCrashing'
    BY <2>2, ConfigsAssumption DEF PromotedIsHealthy, FlaggedIsCrashing
  <2>10. Lags(o)'
    <3>1. /\ cache'[o].router.uid # router'.uid
          /\ cache'[o].configMap.config = None
          /\ cache'[o].deployment.config = None
      BY <1>2, <2>1, <2>4 DEF NoRouter, NoConfigMap, NoDeployment, TypeOK
    <3> QED
      BY <1>3, <2>2, <2>4, <3>1
      DEF Lags, CacheHarmless, PassHarmless, Passing, FreshInTrial, Closed,
          ConfigMapLags, DeploymentLags
  <2> QED
    BY <1>1, <1>5, <2>5, <2>6, <2>7, <2>8, <2>9, <2>10 DEF OInv, Orderly
<1>7. CASE EditSpec
  <2>1. PICK c \in Configs, n \in Replicas :
            router' = [router EXCEPT !.config = c, !.replicas = n]
    BY <1>7 DEF EditSpec, UserWrites
  <2>2. /\ router'.config = c /\ router'.status = router.status
        /\ router'.uid = router.uid /\ router'.deleting = router.deleting
        /\ router'.finalizer = router.finalizer
    BY <2>1, Typed DEF Router
  <2>3. AtEase /\ router.status.phase \in {"Ready", "RolledBack"}
    BY <1>7 DEF EditSpec, OInv, Orderly
  <2>4. /\ ~Passing(worker[o]) /\ cache[o].router = router
        /\ cache[o].configMap = configMap /\ cache[o].deployment = deployment
        /\ "router" \notin fresh'[o]
    BY <1>3, <2>3, AtEaseShows DEF AtEase
  <2>5. Holds(worker[o])' /\ Trails(o)' /\ Live' = Live
    BY <1>2, <1>3, <1>4, <2>2, <2>4 DEF Holds, Trails, Live, Passing
  <2>6. Family' /\ PromotedIsHealthy' /\ FlaggedIsCrashing'
    BY <1>2, <2>2 DEF OInv, Family, PromotedIsHealthy, FlaggedIsCrashing,
                      SameChildren
  <2>7. ASSUME Live
        PROVE  /\ Told' /\ Backed' /\ Reported' /\ Observed'
               /\ StaleReads => Lags(o)'
    <3>1. /\ Deployed(router.status.good)
          /\ router.config \in {router.status.good, router.status.bad}
      BY <2>3, <2>7, AtEaseReported
    <3>2. Told /\ Backed
      BY <2>7 DEF OInv
    <3>3. Told' /\ Observed'
      BY <2>2, <2>3, <3>2 DEF Told, Observed
    <3>4. Backed'
      BY <1>2, <2>2, <2>3, <3>1, <3>2
      DEF Backed, Told, SameChildren, Deployed, Misled, ErrorPhases
    <3>5. Pending'
      BY <2>4 DEF Pending
    <3>6. Reported'
      BY <1>2, <2>2, <2>3, <3>1, <3>5 DEF Reported, Deployed
    <3>7. CacheHarmless(o)'
      <4> PICK old : old = router
        OBVIOUS
      <4>1. ~InTrial(old) /\ old.config \in {old.status.good, old.status.bad}
            /\ old.status = router.status
        BY <2>3, <3>1 DEF InTrial
      <4>2. Harmless(old)'
        BY <1>2, <2>2, <2>3, <3>1, <4>1 DEF Harmless, Deployed
      <4>3. cache'[o].router = old
        BY <1>2, <2>4
      <4> QED
        BY <4>2, <4>3 DEF CacheHarmless
    <3>8. PassHarmless(o)' /\ FreshInTrial(o)'
      BY <1>3, <2>2, <2>3, <2>4 DEF PassHarmless, FreshInTrial, Closed, Passing
    <3>9. ConfigMapLags(o)' /\ DeploymentLags(o)'
      BY <1>2, <2>4 DEF ConfigMapLags, DeploymentLags
    <3> QED
      BY <3>3, <3>4, <3>6, <3>7, <3>8, <3>9 DEF Lags
  <2> QED
    BY <1>1, <1>5, <2>5, <2>6, <2>7 DEF OInv, Orderly
<1>8. CASE DeleteRouter
  <2>1. /\ router.uid # 0 /\ ~router.deleting
        /\ router' = IF router.finalizer THEN [router EXCEPT !.deleting = TRUE]
                                         ELSE NoRouter
    BY <1>8 DEF DeleteRouter, UserWrites
  <2>2. CASE router.finalizer
    <3>1. /\ router'.uid = router.uid /\ router'.deleting = TRUE
          /\ router'.status = router.status
      BY <2>1, <2>2, Typed DEF Router
    <3>2. ~Live' /\ Holds(worker[o])' /\ Trails(o)'
      BY <1>2, <1>3, <1>4, <3>1 DEF Holds, Trails, Live, Passing
    <3>3. Family' /\ PromotedIsHealthy' /\ FlaggedIsCrashing'
      BY <1>2, <3>1 DEF OInv, Family, PromotedIsHealthy, FlaggedIsCrashing,
                        SameChildren
    <3> QED
      BY <1>1, <3>2, <3>3 DEF OInv, Orderly
  <2>3. CASE ~router.finalizer
    <3>1. /\ router'.uid = 0 /\ router'.status.good = None
          /\ router'.status.bad = None
      BY <2>1, <2>3 DEF NoRouter, NoStatus
    <3>2. Copy(worker[o].tr) /\ Copy(cache[o].router)
      BY DEF IInv
    <3>3. worker[o].pc \in {"down", "idle", "addFinalizer", "drain"}
      BY <1>4, <2>1, <2>3, <3>2 DEF Holds, Knows, Copy, Passing
    <3>4. ~Live' /\ Holds(worker[o])'
      BY <1>3, <1>4, <3>1, <3>3 DEF Holds, Live, Passing
    <3>5. Trails(o)'
      <4>1. cache[o].router.uid \notin {0, router.uid}
               => cache[o].router.deleting \/ ~cache[o].router.finalizer
        BY <1>4 DEF Trails
      <4>2. cache[o].router.uid = router.uid => ~cache[o].router.finalizer
        BY <2>1, <2>3, <3>2 DEF Copy
      <4> QED
        BY <1>2, <1>3, <3>1, <4>1, <4>2 DEF Trails
    <3>6. Family' /\ PromotedIsHealthy' /\ FlaggedIsCrashing'
      BY <1>2, <3>1, ConfigsAssumption DEF OInv, Family, PromotedIsHealthy,
         FlaggedIsCrashing, SameChildren
    <3> QED
      BY <1>1, <3>4, <3>5, <3>6 DEF OInv, Orderly
  <2> QED
    BY <2>2, <2>3
<1> QED
  BY <1>6, <1>7, <1>8 DEF Users

-----------------------------------------------------------------------------
(* The theorems. *)

LEMMA OrderlyInductive ==
    TypeOK /\ IInv /\ Gone /\ OInv /\ [Next]_vars => OInv'
<1> SUFFICES ASSUME TypeOK, IInv, Gone, OInv, [Next]_vars
             PROVE  OInv'
  OBVIOUS
<1>1. CASE UNCHANGED vars
  <2> PICK o \in Operators : TRUE
    BY OperatorsAssumption
  <2>1. Operators = {o}
    BY OneOperator DEF OInv
  <2>2. /\ SameRouter /\ SameChildren /\ SameInformers(o)
        /\ UNCHANGED <<router, configMap, deployment, pods, worker, queue, fresh,
                       torn>>
    BY <1>1 DEF vars, children, informers, SameRouter, SameChildren,
                SameInformers
  <2>3. Holds(worker[o])' /\ Trails(o)'
    BY <2>2, StillTrails DEF OInv, Holds, Live, SameInformers
  <2>4. ASSUME Live
        PROVE  /\ Reported' /\ Reached(worker[o])'
               /\ StaleReads => Lags(o)'
    <3>1. Reached(worker[o])'
      BY <2>2, <2>4 DEF OInv, Reached, Crashes
    <3>2. Reported'
      BY <2>2, <2>4
      DEF OInv, Reported, Pending, Deployed, Crashes, Undecided, Seen, Away
    <3>3. StaleReads => Lags(o)'
      BY <2>2, <2>4, LagsStay
    <3> QED
      BY <3>1, <3>2, <3>3
  <2> QED
    BY <2>2, <2>3, <2>4, PassTurns
<1>2. ASSUME NEW o \in Operators, Step(o)
      PROVE  OInv'
  BY <1>2, StartPassOrderly, AddFinalizerOrderly, DrainOrderly, CheckPodsOrderly,
     RollbackConfigOrderly, WriteRolledBackOrderly, ApplyConfigMapOrderly,
     ApplyDeploymentOrderly, ApplyServiceOrderly, WriteStatusOrderly,
     SetStatusOrderly
  DEF Step
<1>3. CASE Cluster
  BY <1>3, TickOrderly, PodsOrderly, CollectOrderly DEF Cluster
<1> QED
  BY <1>1, <1>2, <1>3, RuntimeOrderly, CrashOrderly, UsersOrderly DEF Next

LEMMA OrderlyInitially == Init /\ Orderly => Gone /\ OInv
<1> SUFFICES ASSUME Init, Orderly
             PROVE  Gone /\ OInv
  OBVIOUS
<1>1. /\ router.uid = 0 /\ router.status.good = None /\ router.status.bad = None
      /\ configMap = NoConfigMap
  BY DEF Init, NoRouter, NoStatus
<1>2. ASSUME NEW o \in Operators
      PROVE  Holds(worker[o]) /\ Trails(o)
  <2>1. worker[o] = Idle /\ cache[o].router = router
    BY DEF Init, Stored
  <2> QED
    BY <1>1, <2>1, IdleFields DEF Holds, Trails, Passing
<1>3. Gone
  BY IdleFields DEF Gone, Init
<1> QED
  BY <1>1, <1>2, <1>3, ConfigsAssumption DEF OInv, Family, Live,
     PromotedIsHealthy, FlaggedIsCrashing

\* The invariant of an orderly cluster holds in every behaviour of one, with the
\* operator stopping at any moment and the cluster going on without it.
THEOREM OrderlyInvariance ==
    Orderly => (Spec => [](TypeOK /\ IInv /\ Gone /\ OInv))
<1>1. Init /\ Orderly => Gone /\ OInv
  BY OrderlyInitially
<1>2. TypeOK /\ IInv /\ Gone /\ OInv /\ [Next]_vars => Gone' /\ OInv'
  BY OrderlyInductive, GoneInductive DEF OInv
<1> QED
  BY <1>1, <1>2, Invariance, PTL DEF Spec

\* A configuration is promoted only after pods that ran it stayed up, unless an
\* operator has stopped in the middle of a rollback.
THEOREM PromotionsAreHealthy == Orderly => (Spec => []PromotedIsHealthy)
<1>1. OInv => PromotedIsHealthy
  BY DEF OInv
<1> QED
  BY <1>1, OrderlyInvariance, PTL

\* A configuration is flagged only when it is what crashed.
THEOREM FlagsAreEarned == Orderly => (Spec => []FlaggedIsCrashing)
<1>1. OInv => FlaggedIsCrashing
  BY DEF OInv
<1> QED
  BY <1>1, OrderlyInvariance, PTL

\* Whatever was interrupted, a trial can be undone.
THEOREM TrialsCanBeUndone == Orderly => (Spec => []RollbackTarget)
<1>1. OInv => RollbackTarget
  BY DEF OInv, Backed, Misled, ErrorPhases, RollbackTarget, Settled, Live
<1> QED
  BY <1>1, OrderlyInvariance, PTL

\* A spec that is skipped because it is flagged has been rolled back.
THEOREM SkippedIsRolledBack == Orderly => (Spec => []FlaggedHoldsGood)
<1>1. ASSUME OInv
      PROVE  FlaggedHoldsGood
  <2> SUFFICES ASSUME Settled, router.config = router.status.bad
               PROVE  Deployed(router.status.good)
    BY DEF FlaggedHoldsGood, Deployed
  <2>1. Live /\ AtEase
    BY DEF Settled, Live
  <2>2. router.status.phase \in {"Ready", "RolledBack"}
    BY <1>1, <2>1 DEF OInv, Told
  <2> QED
    BY <1>1, <2>1, <2>2, AtEaseReported
<1> QED
  BY <1>1, OrderlyInvariance, PTL

\* The status reports what is deployed, whatever passes were cut short before.
THEOREM ReportsAreTrue == Orderly => (Spec => []ReportsDeployed)
<1>1. ASSUME OInv
      PROVE  ReportsDeployed
  <2> SUFFICES ASSUME Settled,
                      router.status.phase \in {"Validating", "Ready", "RolledBack"}
               PROVE  Deployed(router.status.hash)
    BY DEF ReportsDeployed, Deployed
  <2>1. Live /\ AtEase
    BY DEF Settled, Live
  <2>2. Told
    BY <1>1, <2>1 DEF OInv
  <2> QED
    BY <1>1, <2>1, <2>2, AtEaseReported DEF Told
<1> QED
  BY <1>1, OrderlyInvariance, PTL

\* The four together, with failed calls or with late caches; a healthy target is
\* promised until a rollback is torn.  Only the run with two operators goes beyond
\* this proof.
THEOREM RolloutIsSound == Orderly => (Spec => []RolloutSound)
<1>1. PromotedIsHealthy /\ RollbackTarget /\ FlaggedHoldsGood /\ ReportsDeployed
         => RolloutSound
  BY DEF RolloutSound
<1> QED
  BY <1>1, PromotionsAreHealthy, TrialsCanBeUndone, SkippedIsRolledBack,
     ReportsAreTrue, PTL

=============================================================================
