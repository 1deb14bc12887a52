------------------------ MODULE ReconcilerProperties ------------------------
(***************************************************************************)
(* What the reconciler promises.  The first group holds whatever happens:  *)
(* caches that lag, calls that fail, operators that crash or overlap, users*)
(* that edit at any moment.  The second needs the pods and the users to be *)
(* slower than the operator (Prompt and SettledEdits).                     *)
(***************************************************************************)
EXTENDS Reconciler

TypeOK ==
    /\ router \in Router
    /\ configMap \in ConfigMap
    /\ deployment \in Deployment
    /\ service \in Service
    /\ pods \subseteq Hashes
    /\ cache \in [Operators -> [router : Router, configMap : ConfigMap,
                                deployment : Deployment, service : Service]]
    /\ fresh \in [Operators -> SUBSET Kinds]
    /\ worker \in [Operators -> Worker]
    /\ queue \in [Operators -> BOOLEAN]
    /\ timer \in [Operators -> BOOLEAN]
    /\ creates \in 0..MaxCreates
    /\ edits \in 0..MaxEdits
    /\ faults \in 0..MaxFaults
    /\ restarts \in 0..MaxRestarts
    /\ torn \in BOOLEAN

-----------------------------------------------------------------------------
(* Whatever happens. *)

\* The status follows the rollout protocol.
Protocol == INSTANCE RolloutProtocol WITH
    trial <- IF router.status.phase = "Validating" THEN router.status.hash
                                                   ELSE None,
    good <- router.status.good,
    bad <- router.status.bad,
    left <- router.status.left

\* Every write of the status is a step of the protocol: a verdict only after a
\* full window, and no window that starts again (reconciler.go:113-117, 188-190).
FollowsProtocol == Protocol!Spec

\* lastKnownGoodHash and badConfigHash never name the same configuration, and a
\* configuration with a verdict is never on trial (reconciler.go:96-105).
Verdicts == Protocol!Verdicts

\* The operator writes whole objects made from a lagging cache, and still no
\* edit of the user is ever undone (reconciler.go:80-85, 221-227).
SpecOnlyByUser ==
    [][edits' = edits /\ router'.uid = router.uid
          => /\ router'.config = router.config
             /\ router'.replicas = router.replicas]_vars

\* No child belongs to a live router that lacks the drain finalizer: it could
\* be deleted, and its Vector pods with it, without a drain (reconciler.go:79-85).
ChildrenProtected ==
    router.uid \in {configMap.owner, deployment.owner, service.owner} \ {0}
        => router.finalizer

-----------------------------------------------------------------------------
(* The inductive invariant behind the theorems of Reconciler_proofs. *)

\* Uids are never used twice, and the spec of a router that exists renders.
Numbering ==
    /\ router.uid <= creates
    /\ router.uid # 0 => router.config \in Configs
    /\ configMap.owner <= creates
    /\ deployment.owner <= creates
    /\ service.owner <= creates

\* A finalizer, once seen, is there as long as the router is.
Copy(tr) ==
    /\ tr.uid <= creates
    /\ tr.uid # 0 /\ tr.uid = router.uid /\ tr.finalizer => router.finalizer

\* An informer that is up to date holds the objects of the server.
UpToDate(o) ==
    /\ "router" \in fresh[o] => cache[o].router = router
    /\ "configMap" \in fresh[o] => cache[o].configMap = configMap
    /\ "deployment" \in fresh[o] => cache[o].deployment = deployment
    /\ "service" \in fresh[o] => cache[o].service = service

\* What a pass knows of its own copy when it is at a certain step.
Knows(w) ==
    /\ w.pc \notin {"down", "idle"} => w.tr.uid # 0
    /\ w.pc \notin {"down", "idle", "addFinalizer", "drain"} => w.tr.finalizer
    /\ w.pc \in {"check", "rollback", "rollbackDeployment", "rollbackStatus"}
          => /\ InTrial(w.tr) /\ w.tr.status.left = 0
             /\ w.tr.config # w.tr.status.bad
    /\ w.pc \in {"configMap", "deployment", "service", "status"}
          => /\ w.tr.config # w.tr.status.bad
             /\ InTrial(w.tr) => /\ w.tr.status.left = 0
                                /\ w.tr.status.good = w.tr.config

\* A current copy is the router itself, except that the pass may have promoted
\* the configuration on trial already.
InHand(w) ==
    w.current =>
        /\ w.pc \notin {"down", "idle"}
        /\ \/ w.tr = router
           \/ /\ w.pc \in {"configMap", "deployment", "service", "status", "fail"}
              /\ InTrial(router) /\ router.status.left = 0
              /\ w.tr = [router EXCEPT !.status.good = router.config]

IInv ==
    /\ Numbering
    /\ \A o \in Operators : /\ Copy(cache[o].router)
                            /\ Copy(worker[o].tr)
                            /\ UpToDate(o)
                            /\ Knows(worker[o])
                            /\ InHand(worker[o])
    /\ ChildrenProtected

-----------------------------------------------------------------------------
(* When the operator is quicker than the pods and the users. *)

\* The last-known-good configuration does not crash (types.go:56-58), unless an
\* operator has stopped between the writes of a rollback and its report: while
\* it is away the pods come back with the restored configuration, and the next
\* one takes their health for that of the spec (reconciler.go:135-164).
PromotedIsHealthy == ~torn => router.status.good \notin Crashing

\* The last-known-good configuration does not crash (types.go:56-58).
LastKnownGoodIsHealthy == router.status.good \notin Crashing

\* The flagged configuration does (types.go:59-61).
FlaggedIsCrashing == router.status.bad \in Crashing \cup {None}

\* The operators have done all they will do for a live router.
Settled == AtEase /\ router.uid # 0 /\ ~router.deleting

\* While a configuration is on trial the ConfigMap holds, as its snapshot, the
\* last-known-good one for a rollback to restore (reconciler.go:30-33).
RollbackTarget ==
    Settled /\ router.status.phase = "Validating" /\ router.status.good # None
        => configMap.snapshot = router.status.good

\* A spec that is flagged is skipped because the ConfigMap and the Deployment
\* already hold the last-known-good configuration (reconciler.go:97-100).
FlaggedHoldsGood ==
    Settled /\ router.config = router.status.bad /\ router.status.good # None
        => /\ configMap.config = router.status.good
           /\ deployment.config = router.status.good

\* The hash that the status reports is what is deployed (types.go:55,
\* reconciler.go:191-227).
ReportsDeployed ==
    Settled /\ router.status.phase \in {"Validating", "Ready", "RolledBack"}
        => /\ configMap.config = router.status.hash
           /\ deployment.config = router.status.hash

\* The four that must outlast caches that lag and operators that overlap, too: a
\* rollback has a healthy target, it has taken place where it is reported, and
\* what is reported is deployed.
RolloutSound ==
    /\ PromotedIsHealthy
    /\ RollbackTarget
    /\ FlaggedHoldsGood
    /\ ReportsDeployed

-----------------------------------------------------------------------------
(* The inductive invariant behind them, for one operator.  It may crash at   *)
(* will, and its caches may lag or its calls fail; PromotedIsHealthy does not *)
(* survive both at once.                                                     *)

Orderly ==
    /\ Prompt /\ SettledEdits
    /\ \A p, q \in Operators : p = q
    /\ StaleReads => MaxFaults = 0

Live == router.uid # 0 /\ ~router.deleting

Passing(w) == w.pc \notin {"down", "idle", "drain"}

\* Somebody does not run.
Away == \E o \in Operators : worker[o].pc = "down"

\* A pass is under way or will be, whatever else happens.
Pending ==
    \E o \in Operators :
        queue[o] \/ Passing(worker[o]) \/ "router" \notin fresh[o]

\* An operator that does not run knows nothing and has nothing to do.
Gone ==
    \A o \in Operators : worker[o].pc = "down" =>
        /\ cache[o].router.uid = 0
        /\ cache[o].configMap = NoConfigMap
        /\ cache[o].deployment = NoDeployment
        /\ fresh[o] = {} /\ ~queue[o] /\ ~timer[o]

\* The children of a router are its own, not those of an earlier one.
Family ==
    /\ router.uid # 0 => {configMap.owner, deployment.owner} \subseteq {0, router.uid}
    /\ configMap.owner = 0 => configMap = NoConfigMap

\* A pass works on the router that is there, and on the current version of it
\* unless the caches lag.
Holds(w) ==
    /\ Passing(w) /\ w.pc # "addFinalizer" => w.tr.uid = router.uid
    /\ w.pc # "idle" => (w.tr.deleting <=> w.pc = "drain")
    /\ w.pc = "addFinalizer" => ~w.tr.finalizer
    /\ Live /\ Passing(w) /\ ~StaleReads => w.current
    /\ w.pc \in {"check", "configMap", "deployment", "service", "status"}
          => w.goal = w.tr.config
    /\ w.pc = "fail" => /\ w.failure \in ErrorPhases
                        /\ w.tr.config # w.tr.status.bad

\* The cache falls behind a pass only where that pass adds the finalizer; no
\* cache shows a router that is gone as one to reconcile.
Trails(o) ==
    LET tr == cache[o].router IN
    /\ worker[o].current /\ "router" \notin fresh[o] => ~tr.finalizer
    /\ tr.uid \notin {0, router.uid} => tr.deleting \/ ~tr.finalizer

\* What the status tells of the verdicts and of the spec.
Told ==
    LET st == router.status IN
    /\ IF st.phase = "" THEN st.good = None ELSE router.finalizer
    /\ st.phase \in {"Ready", "RolledBack"} => st.good # None /\ st.hash = st.good
    /\ st.phase = "Validating" => /\ router.config = st.hash
                                  /\ router.config \notin {st.good, st.bad}
    /\ router.config = st.bad => st.phase \in {"Ready", "RolledBack"}

\* A configuration that a rollback has left was promoted, and is not yet back.
Misled ==
    torn /\ router.config = router.status.good /\ router.status.phase \in ErrorPhases

\* The ConfigMap holds the spec or the last-known-good configuration, and in the
\* first case the latter is its snapshot.
Backed ==
    LET good == router.status.good IN
    IF good = None
    THEN configMap.config \in {None, router.config} /\ configMap.snapshot = None
    ELSE \/ /\ configMap.config \in {good, router.config}
            /\ configMap.config # good \/ router.status.phase = "Validating"
                  => configMap.snapshot = good
         \/ Misled

\* Both children hold the configuration.
Deployed(config) == configMap.config = config /\ deployment.config = config

Crashes == pods \cap Crashing # {}

\* The pods have shown what the spec does.
Seen == router.config \in pods /\ pods \cap Crashing \subseteq {router.config}

\* A rollback is half done: its pods still crash, or an operator has left it.
Undecided ==
    /\ router.status.left = 0 /\ router.status.good # None
    /\ router.config \in Crashing /\ Pending
    /\ \/ torn
       \/ Crashes /\ ~Away /\ configMap.config = router.status.good

\* What is reported is deployed, unless a pass is about to replace it: a new
\* spec in a settled router, or the configuration a half-done rollback left.
Reported ==
    LET st == router.status IN
    /\ st.phase = "Validating" =>
          \/ Deployed(router.config) /\ (st.left = 0 => Seen)
          \/ Undecided
    /\ st.phase \in {"Ready", "RolledBack"} =>
          \/ Deployed(st.good) /\ router.config \in {st.good, st.bad}
          \/ router.config # st.bad /\ Pending

\* When the window closes the pods have shown what the spec does.
Observed ==
    router.status.phase = "Validating" /\ router.status.left = 0 =>
        /\ ~torn => Seen
        /\ Crashes => router.config \in Crashing

\* How far a pass with the current version has come.
Reached(w) ==
    w.current =>
        /\ w.pc \in {"rollback", "rollbackDeployment", "rollbackStatus"} => Crashes
        /\ w.pc \in {"rollbackDeployment", "rollbackStatus"}
              => /\ w.goal = router.status.good /\ w.goal # None
                 /\ configMap.config = w.goal
        /\ w.pc = "rollbackStatus" => deployment.config = w.goal
        /\ w.tr.status.good # router.status.good => ~Crashes
        /\ w.pc \in {"deployment", "service", "status"}
              => configMap.config = router.config
        /\ w.pc \in {"service", "status"} => deployment.config = router.config
        /\ w.pc = "fail" /\ StaleReads /\ InTrial(w.tr)
              => ~Crashes \/ router.status.good = None

\* A pass that works on the outdated copy tr does no harm: what it would apply
\* is what is there, or what the next pass will apply.
Harmless(tr) ==
    LET st == router.status IN
    CASE st.phase = "" -> FALSE
      [] st.phase = "Validating" ->
            /\ st.left > 0 /\ Deployed(router.config)
            /\ tr.config = router.config /\ tr.status.phase # "Validating"
      [] st.phase = "Ready" ->
            /\ Deployed(st.good) /\ tr.config \in {st.good, tr.status.bad}
            /\ InTrial(tr) => ~Crashes
      [] st.phase = "RolledBack" ->
            /\ Deployed(st.good)
            /\ IF InTrial(tr) THEN Crashes /\ configMap.snapshot = st.good
                              ELSE tr.config \in {st.good, tr.status.bad}
      [] OTHER ->
            /\ tr.config = router.config
            /\ InTrial(tr) => ~Crashes \/ st.good = None

\* What an informer that lags shows of the router.
CacheHarmless(o) ==
    LET tr == cache[o].router IN
    "router" \notin fresh[o] /\ tr.uid = router.uid /\ tr.finalizer => Harmless(tr)

\* How far a pass with an outdated copy has come.  Another one follows it.
PassHarmless(o) ==
    LET w == worker[o] IN
    Passing(w) /\ ~w.current =>
        /\ queue[o] \/ "router" \notin fresh[o]
        /\ w.pc # "addFinalizer" => Harmless(w.tr)
        /\ w.pc \in {"rollback", "rollbackDeployment", "rollbackStatus"} => Crashes
        /\ w.pc \in {"rollbackDeployment", "rollbackStatus"}
              => router.status.phase = "RolledBack" /\ w.goal = router.status.good
        /\ w.pc \in {"configMap", "deployment", "service", "status"}
              => (InTrial(w.tr) => ~Crashes)

\* The rollback that will be reported has begun to write the children.
Restoring(w) == w.current /\ w.pc \in {"rollbackDeployment", "rollbackStatus"}

\* When a rollback begins the informers are up to date.
Closed == router.status.phase = "Validating" /\ router.status.left = 0

FreshInTrial(o) ==
    Closed /\ Crashes /\ worker[o].pc # "down" =>
        /\ "router" \in fresh[o]
        /\ "configMap" \in fresh[o] \/ Restoring(worker[o])
        /\ \/ "deployment" \in fresh[o]
           \/ Restoring(worker[o]) /\ worker[o].pc = "rollbackStatus"

Undone ==
    router.status.phase = "RolledBack" /\ router.config = router.status.bad

\* An informer shows the spec in a child that does not hold it only once it has
\* been rolled back.
ConfigMapLags(o) ==
    cache[o].configMap.config = router.config =>
        configMap.config = router.config \/ Undone \/ Restoring(worker[o])

DeploymentLags(o) ==
    cache[o].deployment.config = router.config =>
        \/ deployment.config = router.config
        \/ Undone
        \/ Restoring(worker[o]) /\ worker[o].pc = "rollbackStatus"

Lags(o) ==
    /\ CacheHarmless(o) /\ PassHarmless(o)
    /\ FreshInTrial(o) /\ ConfigMapLags(o) /\ DeploymentLags(o)

OInv ==
    /\ Orderly
    /\ PromotedIsHealthy /\ FlaggedIsCrashing
    /\ Family
    /\ \A o \in Operators : Holds(worker[o]) /\ Trails(o)
    /\ Live => /\ Told /\ Backed /\ Reported /\ Observed
               /\ \A o \in Operators : /\ Reached(worker[o])
                                       /\ StaleReads => Lags(o)

-----------------------------------------------------------------------------
(* Progress. *)

\* A spec that does not crash, and is not flagged, is rolled out and reported,
\* unless the user changes it or deletes the router.
Converged ==
    /\ router.status.phase = "Ready"
    /\ router.config = router.status.hash
    /\ configMap.config = router.config
    /\ deployment.config = router.config

HealthyConverges ==
    \A c \in Configs \ Crashing :
        router.config = c /\ router.status.bad # c
            ~> \/ Converged
               \/ router.config # c
               \/ router.deleting

\* A spec that crashes is rolled back when there is something to return to, with
\* the exception of PromotedIsHealthy.
CrashingRollsBack ==
    \A c \in Crashing :
        router.config = c /\ router.status.good # None
            ~> \/ router.status.phase = "RolledBack"
               \/ router.config = router.status.bad
               \/ torn
               \/ router.config # c
               \/ router.deleting

\* A configuration that crashes is flagged, so that it is not applied again
\* (types.go:59-61).
CrashingIsFlagged ==
    \A c \in Crashing :
        router.config = c /\ router.status.phase = "Validating"
            ~> \/ router.status.bad = c
               \/ router.config # c
               \/ router.deleting

\* A deleted router goes away, and its children after it.
DeletionCompletes ==
    \A u \in 1..MaxCreates :
        router.uid = u /\ router.deleting
            ~> u \notin {router.uid, configMap.owner, deployment.owner,
                         service.owner}
=============================================================================
