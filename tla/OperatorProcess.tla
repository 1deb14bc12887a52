--------------------------- MODULE OperatorProcess ---------------------------
(***************************************************************************)
(* The operator process of main.go: the controller manager that main waits *)
(* for, the REST server, the goroutine that shuts it down, the monitor of  *)
(* Vector's health, and the VectorHealthCache the last two share with the  *)
(* handlers.  What a pass of Reconcile does is in Reconciler.              *)
(***************************************************************************)
EXTENDS Integers

CONSTANTS
    Requests,       \* HTTP requests to the REST server
    MaxChecks       \* ticks of the monitor's ticker

ASSUME MaxChecksAssumption == MaxChecks \in Nat

VARIABLES
    ctx,            \* the context of SetupSignalHandler: "live", "cancelled"
    main,           \* main(): "manager" (in mgr.Start), "waiting" (in
                    \* wg.Wait), "exited"
    code,           \* the exit code
    manager,        \* mgr.Start: "starting", "running", "stopping", "ended"
    failed,         \* does mgr.Start return an error?
    pass,           \* is a pass of Reconcile running?
    api,            \* StartAPIServer: "starting", "serving", "returned"
    shutdown,       \* its goroutine: "waiting" for ctx, "draining", "done"
    monitor,        \* the monitor: see MonitorPcs
    outcome,        \* what its last check found
    health,         \* the fields of VectorHealthCache
    writing,        \* does the monitor hold the lock?
    readers,        \* the handlers that hold the lock for reading
    request,        \* request[r]: where the request is, and what it read
    checks,         \* checks made so far (history)
    results         \* results[n]: what check n found (history)

process == <<ctx, main, code, manager, failed, pass>>
servers == <<api, shutdown>>
history == <<checks, results>>
checking == <<monitor, outcome, health, writing, history>>
vars == <<process, servers, checking, readers, request>>

-----------------------------------------------------------------------------
\* HTTP 200, any other answer, and no answer; "none" is the empty message that
\* the cache holds before the first check.
Outcomes == {"ok", "unavailable", "error"}

\* "select" is the wait for a tick or the end of ctx; the three setting steps
\* are the assignments of Set.
MonitorPcs == {"select", "check", "lock", "setHealthy", "setMessage",
               "setLastCheck", "returned"}

\* `check` stands for lastCheck: the number of the check, 0 for the zero time.
Health == [healthy : BOOLEAN, message : Outcomes \cup {"none"},
           check : 0..MaxChecks]

NoHealth == [healthy |-> FALSE, message |-> "none", check |-> 0]

NoRequest == [pc |-> "idle", read |-> NoHealth]

RequestPcs == {"idle", "serving", "health", "reading", "answered"}

Alive == main # "exited"
InFlight == {r \in Requests : request[r].pc \in {"serving", "health", "reading"}}

-----------------------------------------------------------------------------
(* Signals and the controller manager. *)

Signal ==
    /\ Alive /\ ctx = "live"
    /\ ctx' = "cancelled"
    /\ UNCHANGED <<main, code, manager, failed, pass, servers, checking,
                   readers, request>>

\* The second signal ends the process at once.
SecondSignal ==
    /\ Alive /\ ctx = "cancelled"
    /\ main' = "exited" /\ code' = 1
    /\ UNCHANGED <<ctx, manager, failed, pass, servers, checking, readers,
                   request>>

\* The caches are synced and the workers start.
ManagerReady ==
    /\ Alive /\ manager = "starting" /\ ctx = "live"
    /\ manager' = "running"
    /\ UNCHANGED <<ctx, main, code, failed, pass, servers, checking, readers,
                   request>>

PassBegins ==
    /\ Alive /\ manager = "running" /\ ~pass
    /\ pass' = TRUE
    /\ UNCHANGED <<ctx, main, code, manager, failed, servers, checking,
                   readers, request>>

\* A pass that is told to stop ends soon: its calls and its drain see ctx.
PassEnds ==
    /\ Alive /\ pass
    /\ pass' = FALSE
    /\ UNCHANGED <<ctx, main, code, manager, failed, servers, checking,
                   readers, request>>

\* The manager fails by itself (a cache that does not sync, a lost lease, a
\* port in use) and leaves ctx alone.
ManagerFails ==
    /\ Alive /\ manager \in {"starting", "running"}
    /\ manager' = "stopping" /\ failed' = TRUE
    /\ UNCHANGED <<ctx, main, code, pass, servers, checking, readers, request>>

ManagerStops ==
    /\ Alive /\ manager \in {"starting", "running"} /\ ctx = "cancelled"
    /\ manager' = "stopping"
    /\ UNCHANGED <<ctx, main, code, failed, pass, servers, checking, readers,
                   request>>

\* mgr.Start waits for the workers, but for its grace period only.
ManagerEnds ==
    /\ Alive /\ manager = "stopping"
    /\ manager' = "ended"
    /\ failed' = (failed \/ pass)
    /\ UNCHANGED <<ctx, main, code, pass, servers, checking, readers, request>>

\* mgr.Start returns; with or without an error main waits for the goroutines.
MainWaits ==
    /\ Alive /\ main = "manager" /\ manager = "ended"
    /\ main' = "waiting"
    /\ UNCHANGED <<ctx, code, manager, failed, pass, servers, checking,
                   readers, request>>

\* Mutant of WaitGroupDone: the monitor is not in the wait group.
WaitGroupDone_OnlyApi == api = "returned"

WaitGroupDone == api = "returned" /\ monitor = "returned"

\* Mutant of ExitCode: os.Exit(-1).
ExitCode_MinusOne == IF failed THEN -1 ELSE 0

ExitCode == IF failed THEN 1 ELSE 0

MainExits ==
    /\ main = "waiting" /\ WaitGroupDone
    /\ main' = "exited" /\ code' = ExitCode
    /\ UNCHANGED <<ctx, manager, failed, pass, servers, checking, readers,
                   request>>

-----------------------------------------------------------------------------
(* StartAPIServer. *)

\* ListenAndServe; a server that was shut down before does not start.
ApiListens ==
    /\ Alive /\ api = "starting"
    /\ \/ shutdown = "waiting" /\ api' \in {"serving", "returned"}
       \/ shutdown # "waiting" /\ api' = "returned"
    /\ UNCHANGED <<process, shutdown, checking, readers, request>>

\* Mutant of ShutdownSignalled: the goroutine waits for main to be done, too.
ShutdownSignalled_Late == ctx = "cancelled" /\ main = "exited"

ShutdownSignalled == ctx = "cancelled"

ShutdownBegins ==
    /\ Alive /\ shutdown = "waiting" /\ ShutdownSignalled
    /\ shutdown' = "draining"
    /\ UNCHANGED <<process, api, checking, readers, request>>

\* ListenAndServe returns as soon as Shutdown has closed the listener; nobody
\* waits for Shutdown itself to return.
ApiReturns ==
    /\ Alive /\ api = "serving" /\ shutdown # "waiting"
    /\ api' = "returned"
    /\ UNCHANGED <<process, shutdown, checking, readers, request>>

ShutdownDone ==
    /\ Alive /\ shutdown = "draining" /\ InFlight = {}
    /\ shutdown' = "done"
    /\ UNCHANGED <<process, api, checking, readers, request>>

-----------------------------------------------------------------------------
(* The monitor. *)

\* When a tick and the end of ctx are both there, select takes either.
MonitorTicks ==
    /\ Alive /\ monitor = "select"
    /\ checks < MaxChecks
    /\ monitor' = "check"
    /\ UNCHANGED <<process, servers, outcome, health, writing, history,
                   readers, request>>

MonitorStops ==
    /\ Alive /\ monitor = "select" /\ ctx = "cancelled"
    /\ monitor' = "returned"
    /\ UNCHANGED <<process, servers, outcome, health, writing, history,
                   readers, request>>

\* The answer arrives, or the request fails, times out or is aborted.
MonitorChecks ==
    /\ Alive /\ monitor = "check"
    /\ \E found \in Outcomes :
          /\ outcome' = found
          /\ results' = [results EXCEPT ![checks + 1] = found]
    /\ checks' = checks + 1
    /\ monitor' = "lock"
    /\ UNCHANGED <<process, servers, health, writing, readers, request>>

\* Mutant of Lockable: the writer does not wait for the readers.
Lockable_Anyway == TRUE

Lockable == readers = {}

SetLocks ==
    /\ Alive /\ monitor = "lock" /\ Lockable
    /\ writing' = TRUE
    /\ monitor' = "setHealthy"
    /\ UNCHANGED <<process, servers, outcome, health, history, readers, request>>

SetHealthy ==
    /\ Alive /\ monitor = "setHealthy"
    /\ health' = [health EXCEPT !.healthy = (outcome = "ok")]
    /\ monitor' = "setMessage"
    /\ UNCHANGED <<process, servers, outcome, writing, history, readers, request>>

SetMessage ==
    /\ Alive /\ monitor = "setMessage"
    /\ health' = [health EXCEPT !.message = outcome]
    /\ monitor' = "setLastCheck"
    /\ UNCHANGED <<process, servers, outcome, writing, history, readers, request>>

\* The last assignment, and the unlock.
SetLastCheck ==
    /\ Alive /\ monitor = "setLastCheck"
    /\ health' = [health EXCEPT !.check = checks]
    /\ writing' = FALSE
    /\ monitor' = "select"
    /\ UNCHANGED <<process, servers, outcome, history, readers, request>>

-----------------------------------------------------------------------------
(* The handlers. *)

\* A request for a router or for the health of Vector.
Arrives(r) ==
    /\ Alive /\ api = "serving" /\ shutdown = "waiting"
    /\ request[r].pc = "idle"
    /\ \E pc \in {"serving", "health"} :
          request' = [request EXCEPT ![r].pc = pc]
    /\ UNCHANGED <<process, servers, checking, readers>>

Answers(r) ==
    /\ Alive /\ request[r].pc = "serving"
    /\ request' = [request EXCEPT ![r].pc = "answered"]
    /\ UNCHANGED <<process, servers, checking, readers>>

Readable == ~writing

\* Get: the lock, then the copy of the fields and the unlock.
GetLocks(r) ==
    /\ Alive /\ request[r].pc = "health" /\ Readable
    /\ readers' = readers \cup {r}
    /\ request' = [request EXCEPT ![r].pc = "reading"]
    /\ UNCHANGED <<process, servers, checking>>

GetCopies(r) ==
    /\ Alive /\ request[r].pc = "reading"
    /\ request' = [request EXCEPT ![r] = [pc |-> "answered", read |-> health]]
    /\ readers' = readers \ {r}
    /\ UNCHANGED <<process, servers, checking>>

-----------------------------------------------------------------------------
Init ==
    /\ ctx = "live" /\ main = "manager" /\ code = 0
    /\ manager = "starting" /\ failed = FALSE /\ pass = FALSE
    /\ api = "starting" /\ shutdown = "waiting"
    /\ monitor = "select" /\ outcome = "none" /\ health = NoHealth
    /\ writing = FALSE /\ readers = {}
    /\ request = [r \in Requests |-> NoRequest]
    /\ checks = 0 /\ results = [n \in 1..MaxChecks |-> "none"]

Manager == ManagerReady \/ PassBegins \/ ManagerStops
Setting == SetLocks \/ SetHealthy \/ SetMessage \/ SetLastCheck
Handler(r) == Answers(r) \/ GetLocks(r) \/ GetCopies(r)

Next ==
    \/ Signal \/ SecondSignal
    \/ Manager \/ PassEnds \/ ManagerFails \/ ManagerEnds
    \/ MainWaits \/ MainExits
    \/ ApiListens \/ ShutdownBegins \/ ApiReturns \/ ShutdownDone
    \/ MonitorTicks \/ MonitorStops \/ MonitorChecks \/ Setting
    \/ \E r \in Requests : Arrives(r) \/ Handler(r)

\* Every goroutine that can go on does; signals, failures, ticks and requests
\* need not come.  Of a tick and the end of ctx select takes both in the end.
Fairness ==
    /\ WF_vars(PassEnds) /\ WF_vars(ManagerStops) /\ WF_vars(ManagerEnds)
    /\ WF_vars(MainWaits) /\ WF_vars(MainExits)
    /\ WF_vars(ApiListens) /\ WF_vars(ShutdownBegins)
    /\ WF_vars(ApiReturns) /\ WF_vars(ShutdownDone)
    /\ SF_vars(MonitorStops)
    /\ WF_vars(MonitorChecks) /\ WF_vars(Setting)
    /\ \A r \in Requests : WF_vars(Handler(r))

Spec == Init /\ [][Next]_vars
FairSpec == Spec /\ Fairness

-----------------------------------------------------------------------------
TypeOK ==
    /\ ctx \in {"live", "cancelled"}
    /\ main \in {"manager", "waiting", "exited"}
    /\ code \in {0, 1}
    /\ manager \in {"starting", "running", "stopping", "ended"}
    /\ failed \in BOOLEAN /\ pass \in BOOLEAN
    /\ api \in {"starting", "serving", "returned"}
    /\ shutdown \in {"waiting", "draining", "done"}
    /\ monitor \in MonitorPcs
    /\ outcome \in Outcomes \cup {"none"}
    /\ health \in Health
    /\ writing \in BOOLEAN /\ readers \subseteq Requests
    /\ request \in [Requests -> [pc : RequestPcs, read : Health]]
    /\ checks \in 0..MaxChecks
    /\ results \in [1..MaxChecks -> Outcomes \cup {"none"}]

\* What h says is what one check found, or the zero value before the first.
OneCheck(h) ==
    \/ h = NoHealth
    \/ /\ h.check \in 1..checks
       /\ h.message = results[h.check]
       /\ h.healthy <=> h.message = "ok"

\* The answer to a health request describes one check, never half of one and
\* half of the next (server.go:20-51), and is healthy only after a check.
HealthIsOneCheck == \A r \in Requests : OneCheck(request[r].read)

\* A process that exits with 0 leaves nothing half done: no pass of Reconcile,
\* no check of the monitor (main.go:106-108, 143-146).
CleanExit ==
    main = "exited" /\ code = 0
        => /\ ctx = "cancelled"
           /\ ~pass
           /\ monitor = "returned" /\ ~writing
           /\ api = "returned"

\* The lock: the writer and the readers exclude each other.
Locked ==
    /\ writing <=> monitor \in {"setHealthy", "setMessage", "setLastCheck"}
    /\ writing => readers = {}
    /\ \A r \in Requests : request[r].pc = "reading" => r \in readers

\* How far the writer has got.
Written ==
    /\ monitor = "check" => checks < MaxChecks
    /\ ~writing => OneCheck(health)
    /\ monitor \in MonitorPcs \ {"select", "check", "returned"}
          => checks > 0 /\ outcome = results[checks] /\ outcome \in Outcomes
    /\ monitor \in {"setMessage", "setLastCheck"}
          => (health.healthy <=> outcome = "ok")
    /\ monitor = "setLastCheck" => health.message = outcome

\* What is over when mgr.Start has returned.
Ended ==
    /\ manager \in {"stopping", "ended"} /\ ~failed => ctx = "cancelled"
    /\ manager = "ended" /\ ~failed => ~pass
    /\ main = "waiting" => manager = "ended"

\* The inductive invariant of OperatorProcess_proofs.
IInv == TypeOK /\ Locked /\ Written /\ HealthIsOneCheck /\ Ended /\ CleanExit

\* A signal ends the process, whatever the manager, the monitor and the
\* requests are doing (main.go:143-146).
SignalEnds == ctx = "cancelled" ~> main = "exited"

\* Main exits only after the requests in flight are answered: the wait group
\* is there for "the API server's graceful HTTP shutdown" (main.go:137-138).
RequestsServed == main = "exited" /\ code = 0 => InFlight = {}

\* A manager that fails ends the process, after the goroutines have finished
\* their work (main.go:135-140).
FailedManagerExits == failed ~> main = "exited"
=============================================================================
