------------------------ MODULE OperatorProcess_proofs ------------------------
(***************************************************************************)
(* Theorems of OperatorProcess.  That an answer describes one check rests  *)
(* on the lock (Locked) and on how far the monitor has written what it     *)
(* found (Written); that a clean exit leaves nothing half done, on what is *)
(* over once mgr.Start has returned (Ended).                               *)
(***************************************************************************)
EXTENDS OperatorProcess, TLAPS

\* A step that leaves the history and the answers alone keeps them true.
LEMMA AnswersKept ==
    ASSUME IInv, UNCHANGED <<history, request>>
    PROVE  HealthIsOneCheck'
BY DEF IInv, HealthIsOneCheck, OneCheck, history

LEMMA Initial == Init => IInv
<1> SUFFICES ASSUME Init PROVE IInv
  OBVIOUS
<1>1. NoHealth \in Health
  BY MaxChecksAssumption DEF NoHealth, Health
<1>2. /\ NoRequest \in [pc : RequestPcs, read : Health]
      /\ NoRequest.pc = "idle" /\ NoRequest.read = NoHealth
  BY <1>1 DEF NoRequest, RequestPcs
<1>3. TypeOK
  <2>1. /\ health \in Health
        /\ request \in [Requests -> [pc : RequestPcs, read : Health]]
    BY <1>1, <1>2 DEF Init
  <2>2. /\ checks \in 0..MaxChecks
        /\ results \in [1..MaxChecks -> Outcomes \cup {"none"}]
    BY MaxChecksAssumption DEF Init
  <2> QED
    BY <2>1, <2>2 DEF Init, TypeOK, MonitorPcs
<1>4. Locked /\ Written /\ Ended /\ CleanExit
  BY <1>2 DEF Init, Locked, Written, OneCheck, Ended, CleanExit, MonitorPcs
<1>5. HealthIsOneCheck
  BY <1>2 DEF Init, HealthIsOneCheck, OneCheck
<1> QED
  BY <1>3, <1>4, <1>5 DEF IInv

\* The processes and servers go on: nothing that the health cache is about
\* changes.
LEMMA ControlStep ==
    ASSUME IInv,
           \/ Signal \/ SecondSignal \/ Manager \/ PassEnds
           \/ ManagerFails \/ ManagerEnds \/ MainWaits \/ MainExits
           \/ ApiListens \/ ShutdownBegins \/ ApiReturns \/ ShutdownDone
    PROVE  IInv'
<1> USE DEF Signal, SecondSignal, Manager, ManagerReady, PassBegins,
            ManagerStops, PassEnds, ManagerFails, ManagerEnds, MainWaits,
            MainExits, ApiListens, ShutdownBegins, ApiReturns, ShutdownDone,
            process, servers, checking, history
<1>1. UNCHANGED <<monitor, outcome, health, writing, history, readers, request>>
  OBVIOUS
<1>2. TypeOK'
  BY DEF IInv, TypeOK, ExitCode
<1>3. Locked' /\ Written'
  BY <1>1 DEF IInv, Locked, Written, OneCheck, history
<1>4. Ended'
  BY DEF IInv, TypeOK, Ended
<1>5. CleanExit'
  BY DEF IInv, TypeOK, Locked, Ended, CleanExit, Alive, ExitCode,
         WaitGroupDone
<1> QED
  BY <1>1, <1>2, <1>3, <1>4, <1>5, AnswersKept DEF IInv

LEMMA MonitorStep ==
    ASSUME IInv, MonitorTicks \/ MonitorStops \/ MonitorChecks \/ Setting
    PROVE  IInv'
<1> USE DEF process, servers, history
<1>1. Alive /\ UNCHANGED <<ctx, main, code, manager, failed, pass, api, shutdown>>
  BY DEF MonitorTicks, MonitorStops, MonitorChecks, Setting, SetLocks,
         SetHealthy, SetMessage, SetLastCheck
<1>2. Ended' /\ CleanExit'
  BY <1>1 DEF IInv, Ended, CleanExit, Alive
<1>9. ASSUME monitor' \in MonitorPcs, health' \in Health, writing' \in BOOLEAN,
             UNCHANGED <<outcome, history, readers, request>>
      PROVE  TypeOK'
  BY <1>1, <1>9 DEF IInv, TypeOK
<1>10. health \in Health /\ writing \in BOOLEAN
  BY DEF IInv, TypeOK
<1>3. CASE MonitorTicks \/ MonitorStops
  <2>1. UNCHANGED <<outcome, health, writing, history, readers, request>>
    BY <1>3 DEF MonitorTicks, MonitorStops
  <2>2. /\ monitor = "select"
        /\ monitor' \in {"check", "returned"}
        /\ monitor' = "check" => checks < MaxChecks
    BY <1>3 DEF MonitorTicks, MonitorStops
  <2>3. TypeOK'
    BY <1>1, <2>1, <2>2 DEF IInv, TypeOK, MonitorPcs
  <2>4. Locked' /\ Written'
    BY <2>1, <2>2 DEF IInv, Locked, Written, OneCheck
  <2> QED
    BY <1>2, <2>1, <2>3, <2>4, AnswersKept DEF IInv
<1>4. CASE MonitorChecks
  <2>1. PICK found \in Outcomes :
          /\ outcome' = found
          /\ results' = [results EXCEPT ![checks + 1] = found]
    BY <1>4 DEF MonitorChecks
  <2>2. /\ monitor = "check" /\ monitor' = "lock" /\ checks' = checks + 1
        /\ UNCHANGED <<health, writing, readers, request>>
    BY <1>4 DEF MonitorChecks
  <2>3. /\ checks \in Nat /\ checks < MaxChecks /\ MaxChecks \in Nat
        /\ results \in [1..MaxChecks -> Outcomes \cup {"none"}]
    BY <2>2, MaxChecksAssumption DEF IInv, TypeOK, Written
  <2>4. TypeOK'
    <3>1. /\ checks' \in 0..MaxChecks
          /\ results' \in [1..MaxChecks -> Outcomes \cup {"none"}]
      BY <2>1, <2>2, <2>3
    <3>2. outcome' \in Outcomes \cup {"none"} /\ monitor' \in MonitorPcs
      BY <2>1, <2>2 DEF MonitorPcs
    <3> QED
      BY <1>1, <2>2, <3>1, <3>2 DEF IInv, TypeOK
  <2>5. Locked'
    BY <2>2 DEF IInv, Locked
  <2>6. Written'
    <3>1. ~writing /\ OneCheck(health)
      BY <2>2 DEF IInv, Locked, Written
    <3>2. OneCheck(health)'
      BY <2>1, <2>2, <2>3, <3>1 DEF OneCheck
    <3>3. checks' > 0 /\ outcome' = results'[checks'] /\ outcome' \in Outcomes
      BY <2>1, <2>2, <2>3
    <3> QED
      BY <2>2, <3>2, <3>3 DEF Written
  <2>7. HealthIsOneCheck'
    BY <2>1, <2>2, <2>3 DEF IInv, HealthIsOneCheck, OneCheck
  <2> QED
    BY <1>2, <2>4, <2>5, <2>6, <2>7 DEF IInv
<1>5. CASE SetLocks
  <2>1. /\ monitor = "lock" /\ monitor' = "setHealthy"
        /\ readers = {} /\ writing' = TRUE
        /\ UNCHANGED <<outcome, health, history, readers, request>>
    BY <1>5 DEF SetLocks, Lockable
  <2>2. TypeOK'
    BY <1>9, <1>10, <2>1 DEF MonitorPcs
  <2>3. Locked'
    BY <2>1 DEF IInv, Locked
  <2>4. Written'
    BY <2>1 DEF IInv, TypeOK, Locked, Written, OneCheck, MonitorPcs
  <2> QED
    BY <1>2, <2>1, <2>2, <2>3, <2>4, AnswersKept DEF IInv
<1>6. CASE SetHealthy
  <2>1. /\ monitor = "setHealthy" /\ monitor' = "setMessage"
        /\ health' = [health EXCEPT !.healthy = (outcome = "ok")]
        /\ UNCHANGED <<outcome, writing, history, readers, request>>
    BY <1>6 DEF SetHealthy
  <2>2. TypeOK'
    <3>1. (outcome = "ok") \in BOOLEAN
      OBVIOUS
    <3>2. health' \in Health
      BY <1>10, <2>1, <3>1 DEF Health
    <3> QED
      BY <1>9, <1>10, <2>1, <3>2 DEF MonitorPcs
  <2>3. Locked'
    BY <2>1 DEF IInv, Locked
  <2>4. Written'
    BY <2>1 DEF IInv, TypeOK, Locked, Written, OneCheck, MonitorPcs, Health
  <2> QED
    BY <1>2, <2>1, <2>2, <2>3, <2>4, AnswersKept DEF IInv
<1>7. CASE SetMessage
  <2>1. /\ monitor = "setMessage" /\ monitor' = "setLastCheck"
        /\ health' = [health EXCEPT !.message = outcome]
        /\ UNCHANGED <<outcome, writing, history, readers, request>>
    BY <1>7 DEF SetMessage
  <2>2. TypeOK'
    <3>1. outcome \in Outcomes \cup {"none"}
      BY DEF IInv, TypeOK
    <3>2. health' \in Health
      BY <1>10, <2>1, <3>1 DEF Health
    <3> QED
      BY <1>9, <1>10, <2>1, <3>2 DEF MonitorPcs
  <2>3. Locked'
    BY <2>1 DEF IInv, Locked
  <2>4. Written'
    BY <2>1 DEF IInv, TypeOK, Locked, Written, OneCheck, MonitorPcs, Health
  <2> QED
    BY <1>2, <2>1, <2>2, <2>3, <2>4, AnswersKept DEF IInv
<1>8. CASE SetLastCheck
  <2>1. /\ monitor = "setLastCheck" /\ monitor' = "select"
        /\ health' = [health EXCEPT !.check = checks] /\ writing' = FALSE
        /\ UNCHANGED <<outcome, history, readers, request>>
    BY <1>8 DEF SetLastCheck
  <2>2. TypeOK'
    <3>1. checks \in 0..MaxChecks
      BY DEF IInv, TypeOK
    <3>2. health' \in Health
      BY <1>10, <2>1, <3>1 DEF Health
    <3> QED
      BY <1>9, <1>10, <2>1, <3>2 DEF MonitorPcs
  <2>3. Locked'
    BY <2>1 DEF IInv, Locked
  <2>4. Written'
    BY <2>1 DEF IInv, TypeOK, Locked, Written, OneCheck, MonitorPcs, Health
  <2> QED
    BY <1>2, <2>1, <2>2, <2>3, <2>4, AnswersKept DEF IInv
<1> QED
  BY <1>3, <1>4, <1>5, <1>6, <1>7, <1>8 DEF Setting

LEMMA RequestStep ==
    ASSUME IInv, NEW r \in Requests, Arrives(r) \/ Handler(r)
    PROVE  IInv'
<1> USE DEF process, servers, checking, history
<1>1. UNCHANGED <<ctx, main, code, manager, failed, pass, api, shutdown,
                  monitor, outcome, health, writing, history>>
  BY DEF Arrives, Handler, Answers, GetLocks, GetCopies
<1>2. Ended' /\ CleanExit'
  BY <1>1 DEF IInv, Ended, CleanExit
<1>3. Written'
  BY <1>1 DEF IInv, Written, OneCheck
<1>4. TypeOK' /\ Locked' /\ HealthIsOneCheck'
  <2>1. CASE Arrives(r) \/ Answers(r)
    BY <2>1, <1>1 DEF Arrives, Answers, IInv, TypeOK, RequestPcs, Locked,
                      HealthIsOneCheck, OneCheck
  <2>2. CASE GetLocks(r)
    BY <2>2, <1>1 DEF GetLocks, Readable, IInv, TypeOK, RequestPcs, Locked,
                      HealthIsOneCheck, OneCheck
  <2>3. CASE GetCopies(r)
    BY <2>3, <1>1 DEF GetCopies, IInv, TypeOK, RequestPcs, Locked, Written,
                      HealthIsOneCheck, OneCheck
  <2> QED
    BY <2>1, <2>2, <2>3 DEF Handler
<1> QED
  BY <1>2, <1>3, <1>4 DEF IInv

LEMMA Inductive == IInv /\ [Next]_vars => IInv'
<1>1. CASE UNCHANGED vars
  BY <1>1 DEF vars, process, servers, checking, history, IInv, TypeOK, Locked, Written,
              HealthIsOneCheck, OneCheck, Ended, CleanExit
<1> QED
  BY <1>1, ControlStep, MonitorStep, RequestStep DEF Next

\* IInv holds in every state that the process can reach.
THEOREM Invariance == Spec => []IInv
BY Initial, Inductive, PTL DEF Spec

\* The variables have their types.
THEOREM Typing == Spec => []TypeOK
<1>1. IInv => TypeOK
  BY DEF IInv
<1> QED
  BY <1>1, Invariance, PTL

\* Whatever reads and writes of the cache overlap, an answer to a health request
\* describes one check (server.go:20-51).
THEOREM AnswersDescribeOneCheck == Spec => []HealthIsOneCheck
<1>1. IInv => HealthIsOneCheck
  BY DEF IInv
<1> QED
  BY <1>1, Invariance, PTL

\* A process that exits with 0 has no pass of Reconcile and no check of the
\* monitor under way (main.go:106-108, 143-146).
THEOREM ExitIsClean == Spec => []CleanExit
<1>1. IInv => CleanExit
  BY DEF IInv
<1> QED
  BY <1>1, Invariance, PTL
=============================================================================
