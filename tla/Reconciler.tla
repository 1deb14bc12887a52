----------------------------- MODULE Reconciler -----------------------------
(***************************************************************************)
(* The TelemetryRouter controller: one custom resource, the children it    *)
(* owns, and the Operators that reconcile it.  A pass of Reconcile is cut  *)
(* at its calls to the API server: between two of them anything else may   *)
(* happen.  Every read goes to an informer cache, which lags; every write  *)
(* carries the resource version of the copy it was made from, and the API  *)
(* server refuses it when that copy is out of date.                        *)
(*                                                                         *)
(* A configuration is the rendered Vector TOML, identified with its hash.  *)
(***************************************************************************)
EXTENDS Integers, FiniteSets

CONSTANTS
    Operators,      \* operator processes running at the same time
    Configs,        \* rendered configurations
    Crashing,       \* those that put Vector in a crash loop
    Replicas,       \* values of spec.replicas; the CRD admits 1 to 5
    Window,         \* ticks in rolloutValidationWindow
    None,           \* the empty string: no configuration, no hash
    StaleReads,     \* may a worker read a cache that lags behind the server?
    Prompt,         \* does the cluster wait for the operators? (see Quiet)
    SettledEdits,   \* does the user edit only a settled router?
    Deletions,      \* does the user delete the router?
    MaxCreates,     \* how often the router is created
    MaxEdits,       \* how often its spec is edited
    MaxFaults,      \* API calls that fail although the server could serve them
    MaxRestarts     \* crashes and shutdowns of operators

ASSUME OperatorsAssumption == IsFiniteSet(Operators) /\ Operators # {}
ASSUME ConfigsAssumption == Crashing \subseteq Configs /\ None \notin Configs
ASSUME ReplicasAssumption == Replicas # {} /\ Replicas \subseteq 1..5
ASSUME WindowAssumption == Window \in Nat \ {0}
ASSUME SwitchesAssumption ==
    /\ StaleReads \in BOOLEAN
    /\ Prompt \in BOOLEAN
    /\ SettledEdits \in BOOLEAN
    /\ Deletions \in BOOLEAN
ASSUME BoundsAssumption ==
    /\ MaxCreates \in Nat
    /\ MaxEdits \in Nat
    /\ MaxFaults \in Nat
    /\ MaxRestarts \in Nat

VARIABLES
    router,         \* the TelemetryRouter on the API server
    configMap,      \* ConfigMap vector-config-<router>
    deployment,     \* Deployment vector-<router>
    service,        \* Service vector
    pods,           \* configurations loaded by the running Vector pods
    cache,          \* cache[o]: what the informers of o hold
    fresh,          \* fresh[o]: the kinds whose cached copy is the current one
    worker,         \* worker[o]: the pass of Reconcile that o runs
    queue,          \* queue[o]: is the router in the work queue of o?
    timer,          \* timer[o]: is a RequeueAfter of o pending?
    creates,        \* routers created so far; the uid of the latest one
    edits,          \* spec edits so far
    faults,         \* failed calls so far
    restarts,       \* crashes and shutdowns of operators so far
    torn            \* history: did one leave a rollback half done?

children == <<configMap, deployment, service>>
informers == <<cache, fresh>>
user == <<creates, edits>>
vars == <<router, children, pods, informers, worker, queue, timer, user,
          faults, restarts, torn>>

-----------------------------------------------------------------------------
(* The objects on the API server.  Uid 0 and owner 0 mean "no such object". *)

Kinds == {"router", "configMap", "deployment", "service"}

Hashes == Configs \cup {None}

\* Phases of TelemetryRouterStatus; "" is the phase of a router never written.
ErrorPhases == {"ConfigMapError", "DeploymentError", "ServiceError",
                "RollbackFailed"}
Phases == ErrorPhases \cup {"", "Validating", "Ready", "RolledBack"}

\* `left` stands for ValidatingStartedAt: the ticks until the window closes.
Status == [phase : Phases, hash : Hashes, good : Hashes, bad : Hashes,
           left : 0..Window]

NoStatus == [phase |-> "", hash |-> None, good |-> None, bad |-> None,
             left |-> 0]

Uids == 0..MaxCreates

Router == [uid : Uids, deleting : BOOLEAN, finalizer : BOOLEAN,
           config : Hashes, replicas : Replicas \cup {1}, status : Status]
ConfigMap == [owner : Uids, config : Hashes, snapshot : Hashes]
Deployment == [owner : Uids, config : Hashes, replicas : Replicas \cup {1}]
Service == [owner : Uids]

NoRouter == [uid |-> 0, deleting |-> FALSE, finalizer |-> FALSE,
             config |-> None, replicas |-> 1, status |-> NoStatus]
NoConfigMap == [owner |-> 0, config |-> None, snapshot |-> None]
NoDeployment == [owner |-> 0, config |-> None, replicas |-> 1]
NoService == [owner |-> 0]

NoCache == [router |-> NoRouter, configMap |-> NoConfigMap,
            deployment |-> NoDeployment, service |-> NoService]

Stored == [router |-> router, configMap |-> configMap,
           deployment |-> deployment, service |-> service]

\* A pass: `tr` is the copy it works on, `current` whether that copy still is
\* the server's version; `polls` counts drain checks, `goal` is the hash the
\* Deployment is driven to and `failure` the phase setStatus will report.  An
\* operator that does not run is "down".
Pcs == {"down", "idle", "addFinalizer", "drain", "check", "rollback",
        "rollbackDeployment", "rollbackStatus", "configMap", "deployment",
        "service", "status", "fail"}

DrainPolls == 3

Worker == [pc : Pcs, tr : Router, current : BOOLEAN, polls : 0..DrainPolls,
           goal : Hashes, failure : ErrorPhases \cup {""}]

Idle == [pc |-> "idle", tr |-> NoRouter, current |-> FALSE, polls |-> 0,
         goal |-> None, failure |-> ""]
Down == [Idle EXCEPT !.pc = "down"]

-----------------------------------------------------------------------------
(* Reads, writes and events. *)

Readable(o, k) == StaleReads \/ k \in fresh[o]

\* Every cached copy of k is out of date, and so is every copy in hand.
Outdate(k) == [q \in Operators |-> fresh[q] \ {k}]
OutdateWorkers == [q \in Operators |-> [worker[q] EXCEPT !.current = FALSE]]

\* One call: `accepted` says whether the server can serve it, `applied` whether
\* its effect takes place and `ok` whether the caller sees it succeed.  Only a
\* fault makes an acceptable call fail, before or after its effect.
Call(accepted, applied, ok) ==
    /\ ok => applied
    /\ applied => accepted
    /\ IF accepted /\ ~ok
       THEN faults < MaxFaults /\ faults' = faults + 1
       ELSE UNCHANGED faults

\* The effect of a call on the router; the worker of o goes on as `next`.
StoreRouter(o, new, applied, touched, next) ==
    IF applied /\ (touched \/ new # router)
    THEN /\ router' = new
         /\ fresh' = Outdate("router")
         /\ worker' = [OutdateWorkers EXCEPT ![o] = next]
    ELSE /\ UNCHANGED <<router, fresh>>
         /\ worker' = [worker EXCEPT ![o] = next]

\* Mutant of Accepts: an Update without a resource version is always served.
Accepts_Anything(w) == TRUE

\* Optimistic locking: an Update is served if it was made from the current
\* version.
Accepts(w) == w.current

Goto(o, pc) == worker' = [worker EXCEPT ![o].pc = pc]

\* Mutant of Armed: no RequeueAfter.
Armed_Never(o, later) == timer

\* A RequeueAfter does not cancel an earlier timer.
Armed(o, later) == [timer EXCEPT ![o] = @ \/ later]

\* Mutant of Return: an error is not retried.
Return_NoRetry(o, again, later) ==
    /\ timer' = Armed(o, later)
    /\ UNCHANGED queue

\* Reconcile returns: an error puts the router back in the queue (`again`), a
\* RequeueAfter arms a timer (`later`).
Return(o, again, later) ==
    /\ queue' = [queue EXCEPT ![o] = @ \/ again]
    /\ timer' = Armed(o, later)

Continue == UNCHANGED <<queue, timer>>

-----------------------------------------------------------------------------
(* Reconcile, up to the first call that it cannot avoid. *)

\* The spec is the one whose rollout the status says is being validated.
InTrial(tr) == tr.status.phase = "Validating" /\ tr.config = tr.status.hash

\* The spec is deployed, promoted and reported: nothing is left to write.
Steady(tr) ==
    /\ tr.config = tr.status.good
    /\ tr.status.phase = "Ready"
    /\ tr.status.hash = tr.config

\* Mutants of NeedsFinalizer and Skips: no finalizer is added; a flagged
\* configuration is applied again; an open window does not hold up the check.
NeedsFinalizer_Never(tr) == FALSE
Skips_NotFlagged(tr) == InTrial(tr) /\ tr.status.left > 0
Skips_NotWindow(tr) == tr.config = tr.status.bad

NeedsFinalizer(tr) == ~tr.finalizer

\* Known-bad configurations and open validation windows end the pass at once.
Skips(tr) ==
    \/ tr.config = tr.status.bad
    \/ InTrial(tr) /\ tr.status.left > 0

\* A pass that works on tr and goes on at pc.
Working(pc, tr, current) ==
    [Idle EXCEPT !.pc = pc, !.tr = tr, !.current = current, !.goal = tr.config]

\* The pass once the finalizer is in place.
Enter(tr, current) ==
    IF Skips(tr) THEN Idle
    ELSE Working(IF InTrial(tr) THEN "check" ELSE "configMap", tr, current)

\* The pass that has read tr.
Begin(tr, current) ==
    IF tr.uid = 0 THEN Idle
    ELSE IF tr.deleting THEN Working("drain", tr, current)
    ELSE IF NeedsFinalizer(tr) THEN Working("addFinalizer", tr, current)
    ELSE Enter(tr, current)

\* Only a pass that skips its work ends here with a RequeueAfter.
StartPass(o) ==
    LET tr == cache[o].router IN
    /\ worker[o].pc = "idle" /\ queue[o]
    /\ Readable(o, "router")
    /\ worker' = [worker EXCEPT ![o] = Begin(tr, "router" \in fresh[o])]
    /\ queue' = [queue EXCEPT ![o] = FALSE]
    /\ timer' = Armed(o, tr.uid # 0 /\ worker'[o].pc = "idle")
    /\ UNCHANGED <<router, children, pods, informers, user, faults, restarts,
                   torn>>

\* An Update writes the spec of the copy in hand; it leaves the status alone.
AddFinalizer(o) ==
    LET w == worker[o]
        new == [w.tr EXCEPT !.finalizer = TRUE, !.status = router.status]
        next == Enter([w.tr EXCEPT !.finalizer = TRUE], TRUE)
    IN
    /\ w.pc = "addFinalizer"
    /\ \E applied, ok \in BOOLEAN :
          /\ Call(Accepts(w), applied, ok)
          /\ StoreRouter(o, new, applied, FALSE, IF ok THEN next ELSE Idle)
          /\ Return(o, ~ok, ok /\ Skips(w.tr))
    /\ UNCHANGED <<children, pods, cache, user, restarts, torn>>

-----------------------------------------------------------------------------
(* handleDeletion: the worker polls every 5 s and then lets the router go. *)

DrainCheck(o) ==
    /\ worker[o].pc = "drain" /\ worker[o].polls < DrainPolls
    /\ worker' = [worker EXCEPT ![o].polls = @ + 1]
    /\ Continue
    /\ UNCHANGED <<router, children, pods, informers, user, faults, restarts,
                   torn>>

\* Removing the last finalizer of a router that is being deleted deletes it.
RemoveFinalizer(o) ==
    LET w == worker[o] IN
    /\ w.pc = "drain" /\ w.polls = DrainPolls
    /\ \E applied, ok \in BOOLEAN :
          /\ Call(Accepts(w), applied, ok)
          /\ StoreRouter(o, NoRouter, applied, FALSE, Idle)
          /\ Return(o, ~ok, FALSE)
    /\ UNCHANGED <<children, pods, cache, user, restarts, torn>>

-----------------------------------------------------------------------------
(* The validation pass. *)

\* Mutant of Sightings: only a rollout with no healthy pod left is a crash.
Sightings_AllPods ==
    IF Prompt THEN {pods # {} /\ pods \subseteq Crashing} ELSE BOOLEAN

\* What isVectorCrashLooping can report.  A crash-looping container is not in
\* CrashLoopBackOff at every instant, crashed pods linger and the pod informer
\* lags; only under Prompt does the report describe the pods.
Sightings == IF Prompt THEN {pods \cap Crashing # {}} ELSE BOOLEAN

CheckPods(o) ==
    LET w == worker[o] IN
    /\ w.pc = "check"
    /\ \E crashing \in Sightings, ok \in BOOLEAN :
          /\ Call(TRUE, ok, ok)
          /\ worker' = [worker EXCEPT ![o] =
                CASE ~ok -> Idle
                  [] ok /\ crashing -> [w EXCEPT !.pc = "rollback"]
                  [] OTHER -> [w EXCEPT !.pc = "configMap",
                                        !.tr.status.good = w.tr.config]]
          /\ Return(o, ~ok, FALSE)
    /\ UNCHANGED <<router, children, pods, informers, user, restarts, torn>>

\* The pass reports that a step failed.
Failing(w, phase) == [w EXCEPT !.pc = "fail", !.failure = phase]

\* Mutant of Restored: the snapshot is given up, the configuration stays.
Restored_NotConfig(seen) == [seen EXCEPT !.snapshot = None]

\* The snapshot is put back; it is kept, too.
Restored(seen) == [seen EXCEPT !.config = seen.snapshot]

\* rollbackConfig.  Any failure, a conflict included, ends in RollbackFailed.
RollbackConfig(o) ==
    LET w == worker[o]
        seen == cache[o].configMap
    IN
    /\ w.pc = "rollback" /\ Readable(o, "configMap")
    /\ IF seen.snapshot = None
       THEN /\ worker' = [worker EXCEPT ![o] = Failing(w, "RollbackFailed")]
            /\ UNCHANGED <<configMap, fresh, faults>>
       ELSE \E applied, ok \in BOOLEAN :
              /\ Call("configMap" \in fresh[o], applied, ok)
              /\ configMap' = IF applied THEN Restored(seen) ELSE configMap
              /\ fresh' = IF configMap' # configMap THEN Outdate("configMap")
                                                    ELSE fresh
              /\ worker' = [worker EXCEPT ![o] =
                    IF ok THEN [w EXCEPT !.pc = "rollbackDeployment",
                                         !.goal = seen.snapshot]
                          ELSE Failing(w, "RollbackFailed")]
    /\ Continue
    /\ UNCHANGED <<router, deployment, service, pods, cache, user, restarts,
                   torn>>

\* Mutants of RolledBackStatus: the wrong hash is flagged; the deployed hash is
\* not updated.
RolledBackStatus_Swapped(tr, restored) ==
    [tr.status EXCEPT !.phase = "RolledBack", !.bad = restored,
                      !.hash = restored]
RolledBackStatus_OldHash(tr, restored) ==
    [tr.status EXCEPT !.phase = "RolledBack", !.bad = tr.config]

RolledBackStatus(tr, restored) ==
    [tr.status EXCEPT !.phase = "RolledBack", !.bad = tr.config,
                      !.hash = restored]

WriteRolledBack(o) ==
    LET w == worker[o]
        status == RolledBackStatus(w.tr, w.goal)
    IN
    /\ w.pc = "rollbackStatus"
    /\ \E applied, ok \in BOOLEAN :
          /\ Call(Accepts(w), applied, ok)
          /\ StoreRouter(o, [router EXCEPT !.status = status], applied, FALSE,
                         Idle)
          /\ Return(o, ~ok, ok)
    /\ UNCHANGED <<children, pods, cache, user, restarts, torn>>

-----------------------------------------------------------------------------
(* Steps 5 to 7: bring the children in line with the spec. *)

\* Mutant of Overwritten: the snapshot is taken after the overwrite.
Overwritten_SnapshotLate(seen, config) ==
    [seen EXCEPT !.snapshot = config, !.config = config]

\* What the ConfigMap holds becomes the snapshot before it is overwritten.
Overwritten(seen, config) ==
    [seen EXCEPT !.snapshot = seen.config, !.config = config]

\* reconcileConfigMap: create it, leave it or overwrite it.
ApplyConfigMap(o) ==
    LET w == worker[o]
        seen == cache[o].configMap
        missing == seen.owner = 0
        want == IF missing
                THEN [NoConfigMap EXCEPT !.owner = w.tr.uid, !.config = w.goal]
                ELSE Overwritten(seen, w.goal)
    IN
    /\ w.pc = "configMap" /\ Readable(o, "configMap")
    /\ IF seen.config = w.goal
       THEN /\ Goto(o, "deployment")
            /\ UNCHANGED <<configMap, fresh, faults>>
       ELSE \E applied, ok \in BOOLEAN :
              /\ Call(IF missing THEN configMap.owner = 0
                                 ELSE "configMap" \in fresh[o], applied, ok)
              /\ configMap' = IF applied THEN want ELSE configMap
              /\ fresh' = IF applied THEN Outdate("configMap") ELSE fresh
              /\ worker' = [worker EXCEPT ![o] =
                    IF ok THEN [w EXCEPT !.pc = "deployment"]
                          ELSE Failing(w, "ConfigMapError")]
    /\ Continue
    /\ UNCHANGED <<router, deployment, service, pods, cache, user, restarts,
                   torn>>

\* reconcileDeployment, called by a rollout and by a rollback.  After an error
\* a rollout reports DeploymentError; a rollback just returns it.
ApplyDeployment(o) ==
    LET w == worker[o]
        seen == cache[o].deployment
        missing == seen.owner = 0
        want == [owner |-> IF missing THEN w.tr.uid ELSE seen.owner,
                 config |-> w.goal, replicas |-> w.tr.replicas]
        rollout == w.pc = "deployment"
        done == [w EXCEPT !.pc = IF rollout THEN "service" ELSE "rollbackStatus"]
    IN
    /\ w.pc \in {"deployment", "rollbackDeployment"}
    /\ Readable(o, "deployment")
    /\ IF seen = want
       THEN /\ worker' = [worker EXCEPT ![o] = done]
            /\ Continue
            /\ UNCHANGED <<deployment, fresh, faults>>
       ELSE \E applied, ok \in BOOLEAN :
              /\ Call(IF missing THEN deployment.owner = 0
                                 ELSE "deployment" \in fresh[o], applied, ok)
              /\ deployment' = IF applied THEN want ELSE deployment
              /\ fresh' = IF applied THEN Outdate("deployment") ELSE fresh
              /\ worker' = [worker EXCEPT ![o] =
                    CASE ok -> done
                      [] ~ok /\ rollout -> Failing(w, "DeploymentError")
                      [] OTHER -> Idle]
              /\ Return(o, ~ok /\ ~rollout, FALSE)
    /\ UNCHANGED <<router, configMap, service, pods, cache, user, restarts,
                   torn>>

\* reconcileService: create it if it is missing, never update it.
ApplyService(o) ==
    LET w == worker[o] IN
    /\ w.pc = "service" /\ Readable(o, "service")
    /\ IF cache[o].service.owner # 0
       THEN /\ Goto(o, "status")
            /\ UNCHANGED <<service, fresh, faults>>
       ELSE \E applied, ok \in BOOLEAN :
              /\ Call(service.owner = 0, applied, ok)
              /\ service' = IF applied THEN [owner |-> w.tr.uid] ELSE service
              /\ fresh' = IF applied THEN Outdate("service") ELSE fresh
              /\ worker' = [worker EXCEPT ![o] =
                    IF ok THEN [w EXCEPT !.pc = "status"]
                          ELSE Failing(w, "ServiceError")]
    /\ Continue
    /\ UNCHANGED <<router, configMap, deployment, pods, cache, user, restarts,
                   torn>>

-----------------------------------------------------------------------------
(* Step 8: the status. *)

\* An unpromoted configuration starts a validation window of its own.  (It is
\* never one already on trial: that pass ended earlier or promoted it.)
RolloutStatus(tr) ==
    IF tr.config # tr.status.good
    THEN [tr.status EXCEPT !.phase = "Validating", !.hash = tr.config,
                           !.left = Window]
    ELSE [tr.status EXCEPT !.phase = "Ready", !.hash = tr.config, !.left = 0]

\* The status of a steady router is not written again.
WriteStatus(o) ==
    LET w == worker[o]
        status == RolloutStatus(w.tr)
    IN
    /\ w.pc = "status"
    /\ IF Steady(w.tr)
       THEN /\ worker' = [worker EXCEPT ![o] = Idle]
            /\ Return(o, FALSE, TRUE)
            /\ UNCHANGED <<router, fresh, faults>>
       ELSE \E applied, ok \in BOOLEAN :
              /\ Call(Accepts(w), applied, ok)
              /\ StoreRouter(o, [router EXCEPT !.status = status], applied,
                             FALSE, Idle)
              /\ Return(o, ~ok, ok)
    /\ UNCHANGED <<children, pods, cache, user, restarts, torn>>

\* setStatus after a failed step.  The pass returns what the status write
\* returns: once that succeeds nothing puts the router back in the queue but
\* the watch event of the write, and a write that changes nothing has none.
\* `touched`: the message may differ although the phase is the same.
SetStatus(o) ==
    LET w == worker[o]
        status == [w.tr.status EXCEPT !.phase = w.failure]
    IN
    /\ w.pc = "fail"
    /\ \E applied, ok, touched \in BOOLEAN :
          /\ Call(Accepts(w), applied, ok)
          /\ StoreRouter(o, [router EXCEPT !.status = status], applied,
                         touched, Idle)
          /\ Return(o, ~ok, FALSE)
    /\ UNCHANGED <<children, pods, cache, user, restarts, torn>>

-----------------------------------------------------------------------------
(* The controller runtime: watch events, timers, crashes and starts. *)

\* An informer catches up; every event of an owned kind enqueues the router.
Deliver(o, k) ==
    /\ worker[o].pc # "down"
    /\ k \in Kinds \ fresh[o]
    /\ cache' = [cache EXCEPT ![o] = [@ EXCEPT ![k] = Stored[k]]]
    /\ fresh' = [fresh EXCEPT ![o] = @ \cup {k}]
    /\ queue' = [queue EXCEPT ![o] = TRUE]
    /\ UNCHANGED <<router, children, pods, worker, timer, user, faults,
                   restarts, torn>>

TimerFires(o) ==
    /\ timer[o]
    /\ timer' = [timer EXCEPT ![o] = FALSE]
    /\ queue' = [queue EXCEPT ![o] = TRUE]
    /\ UNCHANGED <<router, children, pods, informers, worker, user, faults,
                   restarts, torn>>

\* A rollback has put the snapshot back and has not reported it yet.
HalfRolledBack ==
    /\ router.status.phase = "Validating" /\ router.status.left = 0
    /\ configMap.config # router.config

\* The operator stops wherever it is, by a crash or by SIGTERM (which also ends
\* a drain).  Its caches, its queue and its timers are gone.
Crash(o) ==
    /\ worker[o].pc # "down" /\ restarts < MaxRestarts
    /\ restarts' = restarts + 1
    /\ torn' = (torn \/ HalfRolledBack)
    /\ worker' = [worker EXCEPT ![o] = Down]
    /\ cache' = [cache EXCEPT ![o] = NoCache]
    /\ fresh' = [fresh EXCEPT ![o] = {}]
    /\ queue' = [queue EXCEPT ![o] = FALSE]
    /\ timer' = [timer EXCEPT ![o] = FALSE]
    /\ UNCHANGED <<router, children, pods, user, faults>>

\* The next operator starts, however much later: its informers list the
\* cluster, and what they find is queued.
Boot(o) ==
    /\ worker[o].pc = "down"
    /\ worker' = [worker EXCEPT ![o] = Idle]
    /\ cache' = [cache EXCEPT ![o] = Stored]
    /\ fresh' = [fresh EXCEPT ![o] = Kinds]
    /\ queue' = [queue EXCEPT ![o] = TRUE]
    /\ UNCHANGED <<router, children, pods, timer, user, faults, restarts,
                   torn>>

-----------------------------------------------------------------------------
(* The cluster: time, pods and garbage collection. *)

\* The operator has nothing to do but wait (a drain is a wait, too).
Resting(o) ==
    /\ worker[o].pc \in {"idle", "drain"}
    /\ ~queue[o]
    /\ fresh[o] = Kinds

AtEase == \A o \in Operators : Resting(o)

\* No operator is about to do anything: it rests or it does not run.
Quiet == \A o \in Operators : Resting(o) \/ worker[o].pc = "down"

\* The pods have loaded the ConfigMap; those that crash run nothing else.
PodsSettled ==
    /\ configMap.config \in pods
    /\ pods \cap Crashing \subseteq {configMap.config}

\* Mutant of Aged: the remaining time is not clamped at zero.
Aged_BelowZero(tr) == [tr EXCEPT !.status.left = @ - 1]

Aged(tr) == [tr EXCEPT !.status.left = IF @ = 0 THEN 0 ELSE @ - 1]

\* Time passes for the router and for every copy of it.
Tick ==
    /\ \/ router.status.left > 0
       \/ \E o \in Operators : \/ cache[o].router.status.left > 0
                               \/ worker[o].tr.status.left > 0
    /\ Prompt => Quiet /\ (router.status.left = 1 => PodsSettled)
    /\ router' = Aged(router)
    /\ cache' = [o \in Operators |->
                    [cache[o] EXCEPT !.router = Aged(cache[o].router)]]
    /\ worker' = [o \in Operators |->
                    [worker[o] EXCEPT !.tr = Aged(worker[o].tr)]]
    /\ UNCHANGED <<children, pods, fresh, queue, timer, user, faults,
                   restarts, torn>>

\* The pods change, and with them the status of the Deployment.
PodsBecome(new) ==
    /\ Prompt => Quiet
    /\ pods' = new
    /\ fresh' = Outdate("deployment")
    /\ UNCHANGED <<router, children, cache, worker, queue, timer, user, faults,
                   restarts, torn>>

PodStarts ==
    /\ deployment.owner # 0 /\ configMap.owner # 0
    /\ configMap.config \notin pods
    /\ PodsBecome(pods \cup {configMap.config})

\* A crash-looping container restarts and reads the mounted ConfigMap again.
CrashingPodRestarts ==
    /\ configMap.owner # 0
    /\ \E c \in (pods \cap Crashing) \ {configMap.config} :
          PodsBecome((pods \ {c}) \cup {configMap.config})

\* Once pods of the new template are ready the old ones are taken down.
OldPodsRetire ==
    /\ deployment.config = configMap.config
    /\ configMap.config \in pods \ Crashing
    /\ pods # {configMap.config}
    /\ PodsBecome({configMap.config})

\* The owner of the child is gone.
Orphan(child) == child.owner # 0 /\ child.owner # router.uid

CollectConfigMap ==
    /\ Orphan(configMap)
    /\ configMap' = NoConfigMap
    /\ fresh' = Outdate("configMap")
    /\ UNCHANGED <<router, deployment, service, pods, cache, worker, queue,
                   timer, user, faults, restarts, torn>>

CollectDeployment ==
    /\ Orphan(deployment)
    /\ deployment' = NoDeployment
    /\ pods' = {}
    /\ fresh' = Outdate("deployment")
    /\ UNCHANGED <<router, configMap, service, cache, worker, queue, timer,
                   user, faults, restarts, torn>>

CollectService ==
    /\ Orphan(service)
    /\ service' = NoService
    /\ fresh' = Outdate("service")
    /\ UNCHANGED <<router, configMap, deployment, pods, cache, worker, queue,
                   timer, user, faults, restarts, torn>>

-----------------------------------------------------------------------------
(* The user, through kubectl or the REST API. *)

UserWrites(new) ==
    /\ router' = new
    /\ fresh' = Outdate("router")
    /\ worker' = OutdateWorkers
    /\ UNCHANGED <<children, pods, cache, queue, timer, faults, restarts,
                   torn>>

\* A user who waits for the children of an earlier router to be gone.
CreateRouter ==
    /\ router.uid = 0 /\ creates < MaxCreates
    /\ SettledEdits => AtEase /\ Stored = [Stored EXCEPT
            !.configMap = NoConfigMap, !.deployment = NoDeployment,
            !.service = NoService]
    /\ creates' = creates + 1
    /\ \E c \in Configs, n \in Replicas :
          UserWrites([NoRouter EXCEPT !.uid = creates + 1, !.config = c,
                                      !.replicas = n])
    /\ UNCHANGED edits

EditSpec ==
    /\ router.uid # 0 /\ edits < MaxEdits
    /\ SettledEdits => AtEase /\ router.status.phase \in {"Ready", "RolledBack"}
    /\ edits' = edits + 1
    /\ \E c \in Configs, n \in Replicas :
          /\ <<c, n>> # <<router.config, router.replicas>>
          /\ UserWrites([router EXCEPT !.config = c, !.replicas = n])
    /\ UNCHANGED creates

DeleteRouter ==
    /\ Deletions
    /\ router.uid # 0 /\ ~router.deleting
    /\ UserWrites(IF router.finalizer THEN [router EXCEPT !.deleting = TRUE]
                                      ELSE NoRouter)
    /\ UNCHANGED user

-----------------------------------------------------------------------------
Init ==
    /\ router = NoRouter
    /\ configMap = NoConfigMap
    /\ deployment = NoDeployment
    /\ service = NoService
    /\ pods = {}
    /\ cache = [o \in Operators |-> Stored]
    /\ fresh = [o \in Operators |-> Kinds]
    /\ worker = [o \in Operators |-> Idle]
    /\ queue = [o \in Operators |-> FALSE]
    /\ timer = [o \in Operators |-> FALSE]
    /\ creates = 0
    /\ edits = 0
    /\ faults = 0
    /\ restarts = 0
    /\ torn = FALSE

\* One step of a pass.
Step(o) ==
    \/ StartPass(o) \/ AddFinalizer(o)
    \/ DrainCheck(o) \/ RemoveFinalizer(o)
    \/ CheckPods(o) \/ RollbackConfig(o) \/ WriteRolledBack(o)
    \/ ApplyConfigMap(o) \/ ApplyDeployment(o) \/ ApplyService(o)
    \/ WriteStatus(o) \/ SetStatus(o)

Runtime(o) == (\E k \in Kinds : Deliver(o, k)) \/ TimerFires(o)

Cluster ==
    \/ Tick
    \/ PodStarts \/ CrashingPodRestarts \/ OldPodsRetire
    \/ CollectConfigMap \/ CollectDeployment \/ CollectService

Users == CreateRouter \/ EditSpec \/ DeleteRouter

Next ==
    \/ \E o \in Operators : Step(o) \/ Runtime(o) \/ Crash(o) \/ Boot(o)
    \/ Cluster
    \/ Users

\* A worker goes on, events and timers arrive, an operator that went down is
\* started again and the cluster does its part; no
\* user, no fault and no crash is obliged to happen.  The pods and the clock
\* may be held up by passes again and again and still move in the end.
Fairness ==
    /\ \A o \in Operators :
          /\ WF_vars(Step(o))
          /\ \A k \in Kinds : WF_vars(Deliver(o, k))
          /\ WF_vars(TimerFires(o))
          /\ WF_vars(Boot(o))
    /\ SF_vars(Tick)
    /\ SF_vars(PodStarts) /\ SF_vars(CrashingPodRestarts)
    /\ SF_vars(OldPodsRetire)
    /\ WF_vars(CollectConfigMap) /\ WF_vars(CollectDeployment)
    /\ WF_vars(CollectService)

Spec == Init /\ [][Next]_vars
FairSpec == Spec /\ Fairness
=============================================================================
