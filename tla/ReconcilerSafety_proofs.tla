----------------------- MODULE ReconcilerSafety_proofs -----------------------
(***************************************************************************)
(* The safety of the reconciler for every value of the constants: IInv is  *)
(* an inductive invariant, and from it follow ChildrenProtected,           *)
(* SpecOnlyByUser and the refinement of the rollout protocol.              *)
(***************************************************************************)
EXTENDS Reconciler_proofs

-----------------------------------------------------------------------------
(* What the operators on copies of the router keep. *)

LEMMA AgedFields ==
    ASSUME NEW tr \in Router
    PROVE  /\ Aged(tr).uid = tr.uid
           /\ Aged(tr).deleting = tr.deleting
           /\ Aged(tr).finalizer = tr.finalizer
           /\ Aged(tr).config = tr.config
           /\ Aged(tr).replicas = tr.replicas
           /\ Aged(tr).status.phase = tr.status.phase
           /\ Aged(tr).status.hash = tr.status.hash
           /\ Aged(tr).status.good = tr.status.good
           /\ Aged(tr).status.bad = tr.status.bad
           /\ Aged(tr).status.left =
                 IF tr.status.left = 0 THEN 0 ELSE tr.status.left - 1
BY DEF Aged, Router, Status

\* A copy whose window is over does not age.
LEMMA AgedOver ==
    ASSUME NEW tr \in Router, tr.status.left = 0
    PROVE  Aged(tr) = tr
BY DEF Aged, Router, Status

LEMMA AddsFinalizer ==
    ASSUME NEW tr \in Router
    PROVE  /\ [tr EXCEPT !.finalizer = TRUE, !.status = tr.status] =
                [tr EXCEPT !.finalizer = TRUE]
           /\ [tr EXCEPT !.finalizer = TRUE] \in Router
BY DEF Router

LEMMA WorkingFields ==
    ASSUME NEW pc \in Pcs, NEW tr \in Router, NEW current \in BOOLEAN
    PROVE  /\ Working(pc, tr, current).pc = pc
           /\ Working(pc, tr, current).tr = tr
           /\ Working(pc, tr, current).current = current
BY ConstantTypes DEF Working, Worker

LEMMA IdleFields ==
    /\ Idle.pc = "idle" /\ Idle.current = FALSE /\ Idle.tr = NoRouter
    /\ Down.pc = "down" /\ Down.current = FALSE /\ Down.tr = NoRouter
BY DEF Idle, Down

\* A pass that begins knows of its copy what the invariant asks.
LEMMA EnterKnows ==
    ASSUME NEW tr \in Router, NEW current \in BOOLEAN, tr.uid # 0, tr.finalizer
    PROVE  /\ Knows(Enter(tr, current))
           /\ \/ Enter(tr, current) = Idle
              \/ /\ Enter(tr, current).tr = tr
                 /\ Enter(tr, current).pc \notin {"down", "idle"}
                 /\ Enter(tr, current).current = current
<1>1. tr.status.left \in Nat
  BY WindowAssumption DEF Router, Status
<1>2. CASE Skips(tr)
  BY <1>2, IdleFields DEF Enter, Knows
<1>3. CASE ~Skips(tr) /\ InTrial(tr)
  <2>1. tr.status.left = 0 /\ tr.config # tr.status.bad
    BY <1>1, <1>3 DEF Skips
  <2>2. Enter(tr, current) = Working("check", tr, current)
    BY <1>3 DEF Enter
  <2> QED
    BY <1>3, <2>1, <2>2, WorkingFields DEF Knows, Pcs
<1>4. CASE ~Skips(tr) /\ ~InTrial(tr)
  <2>1. tr.config # tr.status.bad
    BY <1>4 DEF Skips
  <2>2. Enter(tr, current) = Working("configMap", tr, current)
    BY <1>4 DEF Enter
  <2> QED
    BY <1>4, <2>1, <2>2, WorkingFields DEF Knows, Pcs
<1> QED
  BY <1>2, <1>3, <1>4

LEMMA BeginKnows ==
    ASSUME NEW tr \in Router, NEW current \in BOOLEAN
    PROVE  /\ Knows(Begin(tr, current))
           /\ \/ Begin(tr, current) = Idle
              \/ /\ Begin(tr, current).tr = tr
                 /\ Begin(tr, current).pc \notin {"down", "idle"}
                 /\ Begin(tr, current).current = current
<1>1. Knows(Idle)
  BY IdleFields DEF Knows
<1>2. CASE tr.uid = 0
  BY <1>1, <1>2 DEF Begin
<1>3. CASE tr.uid # 0 /\ tr.deleting
  BY <1>3, WorkingFields DEF Begin, Knows, Pcs
<1>4. CASE tr.uid # 0 /\ ~tr.deleting /\ NeedsFinalizer(tr)
  BY <1>4, WorkingFields DEF Begin, Knows, Pcs
<1>5. CASE tr.uid # 0 /\ ~tr.deleting /\ ~NeedsFinalizer(tr)
  BY <1>5, EnterKnows DEF Begin, NeedsFinalizer
<1> QED
  BY <1>2, <1>3, <1>4, <1>5

-----------------------------------------------------------------------------
(* The three kinds of step: a pass moves on, a child is written, the router *)
(* is written.                                                              *)

LEMMA PassAndChildren ==
    ASSUME TypeOK, IInv, NEW o \in Operators, NEW next,
           worker' = [worker EXCEPT ![o] = next],
           Knows(next), InHand(next), Copy(next.tr),
           UNCHANGED <<router, cache, creates>>,
           Numbering', ChildrenProtected',
           \A q \in Operators : UpToDate(q)'
    PROVE  IInv'
<1>1. ASSUME NEW q \in Operators
      PROVE  /\ Copy(cache[q].router)' /\ Copy(worker[q].tr)'
             /\ Knows(worker[q])' /\ InHand(worker[q])'
  <2>1. worker'[q] = IF q = o THEN next ELSE worker[q]
    BY DEF TypeOK
  <2>2. Copy(cache[q].router)'
    BY DEF IInv, Copy
  <2>3. Copy(worker[q].tr)'
    BY <2>1 DEF IInv, Copy
  <2>4. Knows(worker[q])'
    BY <2>1 DEF IInv, Knows, InTrial
  <2>5. InHand(worker[q])'
    BY <2>1 DEF IInv, InHand, InTrial
  <2> QED
    BY <2>2, <2>3, <2>4, <2>5
<1> QED
  BY <1>1 DEF IInv

LEMMA PassOnly ==
    ASSUME TypeOK, IInv, NEW o \in Operators, NEW next,
           worker' = [worker EXCEPT ![o] = next],
           Knows(next), InHand(next), Copy(next.tr),
           UNCHANGED <<router, children, informers, creates>>
    PROVE  IInv'
<1>1. Numbering' /\ ChildrenProtected'
  BY DEF IInv, Numbering, ChildrenProtected, children
<1>2. \A q \in Operators : UpToDate(q)'
  BY DEF IInv, UpToDate, children, informers
<1> QED
  BY <1>1, <1>2, PassAndChildren DEF informers

\* A new child belongs to the router of a pass that has seen the finalizer.
LEMMA OwnerIsProtected ==
    ASSUME TypeOK, IInv, NEW o \in Operators, worker[o].tr.finalizer
    PROVE  /\ worker[o].tr.uid <= creates
           /\ worker[o].tr.uid # 0 /\ worker[o].tr.uid = router.uid
                 => router.finalizer
BY DEF IInv, Copy

\* The pass that stops, and the one that reports a failure.
LEMMA StoppedPass ==
    ASSUME TypeOK
    PROVE  Knows(Idle) /\ InHand(Idle) /\ Copy(Idle.tr)
<1>1. NoRouter.uid = 0 /\ 0 <= creates
  BY BoundsAssumption DEF NoRouter, TypeOK
<1> QED
  BY <1>1, IdleFields DEF Knows, InHand, Copy

LEMMA FailingPass ==
    ASSUME TypeOK, IInv, NEW o \in Operators, NEW phase \in ErrorPhases,
           worker[o].pc \in {"rollback", "configMap", "deployment", "service"}
    PROVE  LET next == Failing(worker[o], phase)
           IN  Knows(next) /\ InHand(next) /\ Copy(next.tr)
<1> DEFINE next == Failing(worker[o], phase)
<1>1. worker[o] \in Worker
  BY DEF TypeOK
<1>2. next.pc = "fail" /\ next.tr = worker[o].tr
                      /\ next.current = worker[o].current
  BY <1>1 DEF Failing, Worker
<1> HIDE DEF next
<1>3. Knows(next)
  BY <1>2 DEF IInv, Knows
<1>4. InHand(next)
  BY <1>2 DEF IInv, InHand
<1>5. Copy(next.tr)
  BY <1>2 DEF IInv
<1> QED
  BY <1>3, <1>4, <1>5 DEF next

\* The router is replaced: copies of it are no longer current, and what they
\* say of the finalizer still holds.
LEMMA RouterReplaced ==
    ASSUME TypeOK, IInv, NEW o \in Operators, NEW next, NEW new \in Router,
           new.uid \in {0, router.uid},
           new.uid # 0 /\ router.finalizer => new.finalizer,
           new.uid # 0 => new.config \in Configs,
           router' = new, fresh' = Outdate("router"),
           worker' = [OutdateWorkers EXCEPT ![o] = next],
           Knows(next), InHand(next)', Copy(next.tr)',
           UNCHANGED <<children, cache, creates>>
    PROVE  IInv'
<1>0. creates \in Nat
  BY BoundsAssumption DEF TypeOK
<1>1. Numbering'
  BY <1>0 DEF IInv, Numbering, children
<1>2. ChildrenProtected'
  BY DEF IInv, ChildrenProtected, children
<1>3. ASSUME NEW q \in Operators
      PROVE  /\ Copy(cache[q].router)' /\ Copy(worker[q].tr)'
             /\ UpToDate(q)' /\ Knows(worker[q])' /\ InHand(worker[q])'
  <2>0. worker[q] \in Worker
    BY DEF TypeOK
  <2>1. worker'[q] = IF q = o THEN next
                              ELSE [worker[q] EXCEPT !.current = FALSE]
    BY DEF OutdateWorkers
  <2>2. q # o => /\ worker'[q].current = FALSE
                 /\ worker'[q].pc = worker[q].pc
                 /\ worker'[q].tr = worker[q].tr
    <3>1. /\ [worker[q] EXCEPT !.current = FALSE].current = FALSE
          /\ [worker[q] EXCEPT !.current = FALSE].pc = worker[q].pc
          /\ [worker[q] EXCEPT !.current = FALSE].tr = worker[q].tr
      BY <2>0 DEF Worker
    <3> QED
      BY <2>1, <3>1
  <2>3. Copy(cache[q].router)'
    BY DEF IInv, Copy
  <2>4. Copy(worker[q].tr)'
    BY <2>1, <2>2 DEF IInv, Copy
  <2>5. UpToDate(q)'
    BY DEF IInv, UpToDate, Outdate, children
  <2>6. Knows(worker[q])'
    BY <2>1, <2>2 DEF IInv, Knows, InTrial
  <2>7. InHand(worker[q])'
    BY <2>1, <2>2 DEF InHand, InTrial
  <2> QED
    BY <2>3, <2>4, <2>5, <2>6, <2>7
<1> QED
  BY <1>1, <1>2, <1>3 DEF IInv

\* A pass writes the router and ends.
LEMMA RouterStored ==
    ASSUME TypeOK, IInv, NEW o \in Operators, NEW new \in Router,
           NEW applied, NEW touched,
           new.uid \in {0, router.uid},
           new.uid # 0 /\ router.finalizer => new.finalizer,
           new.uid # 0 => new.config \in Configs,
           StoreRouter(o, new, applied, touched, Idle),
           UNCHANGED <<children, cache, creates>>
    PROVE  IInv'
<1>1. CASE applied /\ (touched \/ new # router)
  <2>1. InHand(Idle)' /\ Copy(Idle.tr)'
    BY StoppedPass, IdleFields DEF InHand, Copy, NoRouter
  <2> QED
    BY <1>1, <2>1, StoppedPass, RouterReplaced DEF StoreRouter
<1>2. CASE ~(applied /\ (touched \/ new # router))
  BY <1>2, StoppedPass, PassOnly DEF StoreRouter, informers
<1> QED
  BY <1>1, <1>2

LEMMA StatusStored ==
    ASSUME TypeOK, IInv, NEW o \in Operators, NEW status \in Status,
           NEW applied, NEW touched,
           StoreRouter(o, [router EXCEPT !.status = status], applied, touched,
                       Idle),
           UNCHANGED <<children, cache, creates>>
    PROVE  IInv'
<1> DEFINE new == [router EXCEPT !.status = status]
<1>1. new \in Router /\ new.uid = router.uid /\ new.config = router.config
                     /\ new.finalizer = router.finalizer
  BY DEF TypeOK, Router
<1>2. new.uid # 0 => new.config \in Configs
  BY <1>1 DEF IInv, Numbering
<1>3. new.uid \in {0, router.uid}
  BY <1>1
<1>4. new.uid # 0 /\ router.finalizer => new.finalizer
  BY <1>1
<1>5. StoreRouter(o, new, applied, touched, Idle)
  OBVIOUS
<1> HIDE DEF new
<1> QED
  BY <1>1, <1>2, <1>3, <1>4, <1>5, RouterStored

-----------------------------------------------------------------------------
(* The steps of a pass. *)

LEMMA StartPassSafe ==
    ASSUME TypeOK, IInv, NEW o \in Operators, StartPass(o)
    PROVE  IInv'
<1> DEFINE tr == cache[o].router
           current == "router" \in fresh[o]
           next == Begin(tr, current)
<1>1. tr \in Router /\ current \in BOOLEAN
  BY DEF TypeOK
<1>2. worker' = [worker EXCEPT ![o] = next]
  BY DEF StartPass
<1>3. current => tr = router
  BY DEF IInv, UpToDate
<1>4. Copy(tr)
  BY DEF IInv
<1>5. UNCHANGED <<router, children, informers, creates>>
  BY DEF StartPass, user
<1> HIDE DEF tr, current
<1>6. /\ Knows(next)
      /\ \/ next = Idle
         \/ next.tr = tr /\ next.pc \notin {"down", "idle"} /\ next.current = current
  BY <1>1, BeginKnows
<1> HIDE DEF next
<1>7. InHand(next) /\ Copy(next.tr)
  BY <1>3, <1>4, <1>6, StoppedPass DEF InHand
<1> QED
  BY <1>2, <1>5, <1>6, <1>7, PassOnly

LEMMA AddFinalizerSafe ==
    ASSUME TypeOK, IInv, NEW o \in Operators, AddFinalizer(o)
    PROVE  IInv'
<1> DEFINE w == worker[o]
           tr == [w.tr EXCEPT !.finalizer = TRUE]
           new == [w.tr EXCEPT !.finalizer = TRUE, !.status = router.status]
           next == Enter(tr, TRUE)
<1>0. PICK applied \in BOOLEAN, ok \in BOOLEAN :
          /\ Call(Accepts(w), applied, ok)
          /\ StoreRouter(o, new, applied, FALSE, IF ok THEN next ELSE Idle)
  BY DEF AddFinalizer
<1>1. w \in Worker /\ w.tr \in Router /\ w.pc = "addFinalizer"
  BY DEF TypeOK, Worker, AddFinalizer
<1>2. UNCHANGED <<children, cache, creates>>
  BY DEF AddFinalizer, user
<1>3. CASE applied
  <2>1. w.tr = router
    BY <1>0, <1>1, <1>3 DEF Call, Accepts, IInv, InHand
  <2>2. w.tr.uid # 0 /\ w.tr.config \in Configs
    BY <1>1, <2>1 DEF IInv, Knows, Numbering
  <2>3. /\ tr \in Router /\ new = tr /\ tr.finalizer
        /\ tr.uid = router.uid /\ tr.config = router.config
    BY <1>1, <2>1, AddsFinalizer DEF Router
  <2> HIDE DEF tr, new
  <2>4. PICK n : n = IF ok THEN next ELSE Idle
    OBVIOUS
  <2>5. /\ Knows(n)
        /\ \/ n = Idle
           \/ n.tr = tr /\ n.pc \notin {"down", "idle"} /\ n.current = TRUE
    <3>1. tr.uid # 0
      BY <2>1, <2>2, <2>3
    <3>2. /\ Knows(Enter(tr, TRUE))
          /\ \/ Enter(tr, TRUE) = Idle
             \/ /\ Enter(tr, TRUE).tr = tr
                /\ Enter(tr, TRUE).pc \notin {"down", "idle"}
                /\ Enter(tr, TRUE).current = TRUE
      BY <2>3, <3>1, EnterKnows
    <3>3. n = Enter(tr, TRUE) \/ n = Idle
      BY <2>4
    <3> QED
      BY <3>2, <3>3, StoppedPass
  <2> HIDE DEF next
  <2>6. CASE new # router
    <3>1. router' = new /\ fresh' = Outdate("router")
          /\ worker' = [OutdateWorkers EXCEPT ![o] = n]
      BY <1>0, <1>3, <2>4, <2>6 DEF StoreRouter
    <3>2. InHand(Idle)' /\ Copy(Idle.tr)'
      BY <1>2, StoppedPass, IdleFields DEF InHand, Copy, NoRouter
    <3>3. router'.uid <= creates' /\ router' = tr
      BY <1>2, <2>3, <3>1 DEF IInv, Numbering
    <3>4. InHand(n)' /\ Copy(n.tr)'
      <4>1. CASE n = Idle
        BY <3>2, <4>1
      <4>2. CASE n.tr = tr /\ n.pc \notin {"down", "idle"}
        BY <3>3, <4>2 DEF InHand, Copy
      <4> QED
        BY <2>5, <4>1, <4>2
    <3>5. /\ tr.uid \in {0, router.uid}
          /\ tr.uid # 0 /\ router.finalizer => tr.finalizer
          /\ tr.uid # 0 => tr.config \in Configs
      BY <2>1, <2>2, <2>3
    <3> QED
      BY <1>2, <2>3, <2>5, <3>1, <3>4, <3>5, RouterReplaced
  <2>7. CASE new = router
    <3>1. UNCHANGED <<router, fresh>> /\ worker' = [worker EXCEPT ![o] = n]
      BY <1>0, <2>4, <2>7 DEF StoreRouter
    <3>2. Copy(tr)
      BY <2>3, <2>7 DEF IInv, Numbering, Copy
    <3>3. InHand(n) /\ Copy(n.tr)
      BY <2>3, <2>5, <2>7, <3>2, StoppedPass DEF InHand
    <3> QED
      BY <1>2, <2>5, <3>1, <3>3, PassOnly DEF informers
  <2> QED
    BY <2>6, <2>7
<1>4. CASE ~applied
  <2>1. ~ok
    BY <1>0, <1>4 DEF Call
  <2> QED
    BY <1>0, <1>2, <1>4, <2>1, StoppedPass, PassOnly DEF StoreRouter, informers
<1> QED
  BY <1>3, <1>4

LEMMA DrainSafe ==
    ASSUME TypeOK, IInv, NEW o \in Operators, DrainCheck(o) \/ RemoveFinalizer(o)
    PROVE  IInv'
<1>1. CASE DrainCheck(o)
  <2> DEFINE next == [worker[o] EXCEPT !.polls = @ + 1]
  <2>1. worker' = [worker EXCEPT ![o] = next]
    BY <1>1 DEF DrainCheck, TypeOK
  <2>2. worker[o].pc = "drain" /\ worker[o] \in Worker
    BY <1>1 DEF DrainCheck, TypeOK
  <2>3. /\ next.pc = "drain" /\ next.tr = worker[o].tr
        /\ next.current = worker[o].current
    <3>1. \A n : /\ [worker[o] EXCEPT !.polls = n].pc = "drain"
                 /\ [worker[o] EXCEPT !.polls = n].tr = worker[o].tr
                 /\ [worker[o] EXCEPT !.polls = n].current = worker[o].current
      BY <2>2 DEF Worker
    <3> QED
      BY <3>1
  <2> HIDE DEF next
  <2>4. Knows(next) /\ InHand(next) /\ Copy(next.tr)
    BY <2>2, <2>3 DEF IInv, Knows, InHand
  <2>5. UNCHANGED <<router, children, informers, creates>>
    BY <1>1 DEF DrainCheck, user
  <2> QED
    BY <2>1, <2>4, <2>5, PassOnly
<1>2. CASE RemoveFinalizer(o)
  <2>1. PICK applied, touched, new :
            new = NoRouter /\ StoreRouter(o, new, applied, touched, Idle)
    BY <1>2 DEF RemoveFinalizer
  <2>2. /\ new \in Router
        /\ new.uid \in {0, router.uid}
        /\ new.uid # 0 => new.config \in Configs
        /\ new.uid # 0 /\ router.finalizer => new.finalizer
    BY <2>1, ConstantTypes DEF NoRouter
  <2>3. UNCHANGED <<children, cache, creates>>
    BY <1>2 DEF RemoveFinalizer, user
  <2> QED
    BY <2>1, <2>2, <2>3, RouterStored
<1> QED
  BY <1>1, <1>2

\* A child that changes hands goes to u, which is 0 or has a finalizer.
LEMMA OwnersKept ==
    ASSUME TypeOK, IInv, NEW u, u <= creates,
           u # 0 /\ u = router.uid => router.finalizer,
           configMap'.owner \in {configMap.owner, u},
           deployment'.owner \in {deployment.owner, u},
           service'.owner \in {service.owner, u},
           UNCHANGED <<router, creates>>
    PROVE  Numbering' /\ ChildrenProtected'
<1>1. Numbering'
  BY DEF IInv, Numbering
<1>2. ChildrenProtected'
  BY DEF IInv, ChildrenProtected
<1> QED
  BY <1>1, <1>2

\* A pass that goes on to the next child, with its copy untouched.
LEMMA PassGoesOn ==
    ASSUME TypeOK, IInv, NEW o \in Operators, NEW next,
           worker[o].pc \in {"configMap", "deployment", "service"},
           next.pc \in {"deployment", "service", "status"},
           next.tr = worker[o].tr, next.current = worker[o].current
    PROVE  Knows(next) /\ InHand(next) /\ Copy(next.tr)
BY DEF IInv, Knows, InHand

\* The same on the way of a rollback.
LEMMA RollbackGoesOn ==
    ASSUME TypeOK, IInv, NEW o \in Operators, NEW next,
           worker[o].pc \in {"check", "rollback", "rollbackDeployment"},
           next.pc \in {"rollback", "rollbackDeployment", "rollbackStatus"},
           next.tr = worker[o].tr, next.current = worker[o].current
    PROVE  Knows(next) /\ InHand(next) /\ Copy(next.tr)
BY DEF IInv, Knows, InHand

LEMMA CheckPodsSafe ==
    ASSUME TypeOK, IInv, NEW o \in Operators, CheckPods(o)
    PROVE  IInv'
<1> DEFINE w == worker[o]
           rollback == [w EXCEPT !.pc = "rollback"]
           promoted == [w EXCEPT !.pc = "configMap",
                                 !.tr.status.good = w.tr.config]
<1>1. PICK n : /\ worker' = [worker EXCEPT ![o] = n]
               /\ n \in {Idle, rollback, promoted}
  BY DEF CheckPods
<1>2. w \in Worker /\ w.tr \in Router /\ w.tr.status \in Status
      /\ w.pc = "check"
  BY DEF TypeOK, Worker, Router, CheckPods
<1>3. UNCHANGED <<router, children, informers, creates>>
  BY DEF CheckPods, user
<1>4. /\ rollback.pc = "rollback" /\ rollback.tr = w.tr
      /\ rollback.current = w.current
  BY <1>2 DEF Worker
<1>5. /\ promoted.pc = "configMap" /\ promoted.current = w.current
      /\ promoted.tr = [w.tr EXCEPT !.status.good = w.tr.config]
  BY <1>2 DEF Worker
<1>6. /\ promoted.tr.uid = w.tr.uid
      /\ promoted.tr.finalizer = w.tr.finalizer
      /\ promoted.tr.config = w.tr.config
      /\ promoted.tr.status.phase = w.tr.status.phase
      /\ promoted.tr.status.hash = w.tr.status.hash
      /\ promoted.tr.status.left = w.tr.status.left
      /\ promoted.tr.status.bad = w.tr.status.bad
      /\ promoted.tr.status.good = w.tr.config
  BY <1>2, <1>5 DEF Router, Status
<1>7. Knows(w) /\ InHand(w) /\ Copy(w.tr)
  BY DEF IInv
<1> HIDE DEF w, rollback, promoted
<1>8. Knows(rollback) /\ InHand(rollback) /\ Copy(rollback.tr)
  BY <1>2, <1>4, <1>7 DEF Knows, InHand
<1>9. Knows(promoted) /\ Copy(promoted.tr)
  BY <1>2, <1>5, <1>6, <1>7 DEF Knows, Copy, InTrial
<1>10. InHand(promoted)
  <2>1. CASE w.current
    <3>1. w.tr = router
      BY <1>2, <1>7, <2>1 DEF InHand
    <3>2. InTrial(router) /\ router.status.left = 0
      BY <1>2, <1>7, <3>1 DEF Knows
    <3> QED
      BY <1>5, <3>1, <3>2 DEF InHand
  <2>2. CASE ~w.current
    BY <1>5, <2>2 DEF InHand
  <2> QED
    BY <2>1, <2>2
<1>11. Knows(n) /\ InHand(n) /\ Copy(n.tr)
  BY <1>1, <1>8, <1>9, <1>10, StoppedPass
<1> QED
  BY <1>1, <1>3, <1>11, PassOnly

LEMMA RollbackConfigSafe ==
    ASSUME TypeOK, IInv, NEW o \in Operators, RollbackConfig(o)
    PROVE  IInv'
<1> DEFINE w == worker[o]
           seen == cache[o].configMap
           failing == Failing(w, "RollbackFailed")
           goes == [w EXCEPT !.pc = "rollbackDeployment", !.goal = seen.snapshot]
<1>1. PICK n : /\ worker' = [worker EXCEPT ![o] = n]
               /\ n \in {failing, goes}
  BY DEF RollbackConfig
<1>2. w \in Worker /\ w.pc = "rollback"
  BY DEF TypeOK, RollbackConfig
<1>3. /\ goes.pc = "rollbackDeployment" /\ goes.tr = w.tr
      /\ goes.current = w.current
  BY <1>2 DEF Worker
<1>4. Knows(failing) /\ InHand(failing) /\ Copy(failing.tr)
  BY <1>2, FailingPass DEF ErrorPhases
<1>5. Knows(goes) /\ InHand(goes) /\ Copy(goes.tr)
  <2> HIDE DEF goes
  <2> QED
    BY <1>2, <1>3, RollbackGoesOn
<1>6. Knows(n) /\ InHand(n) /\ Copy(n.tr)
  <2> HIDE DEF failing, goes
  <2> QED
    BY <1>1, <1>4, <1>5
<1>7. UNCHANGED <<router, cache, creates, deployment, service>>
  BY DEF RollbackConfig, user
<1>8. \/ UNCHANGED <<configMap, fresh>>
      \/ /\ "configMap" \in fresh[o] /\ configMap' = Restored(seen)
         /\ fresh' = Outdate("configMap")
  BY DEF RollbackConfig, Call
<1>9. configMap'.owner = configMap.owner
  <2>1. seen \in ConfigMap
    BY DEF TypeOK
  <2>2. Restored(seen).owner = seen.owner
    BY <2>1 DEF Restored, ConfigMap
  <2>3. "configMap" \in fresh[o] => seen = configMap
    BY DEF IInv, UpToDate
  <2> QED
    BY <1>8, <2>2, <2>3
<1>10. Numbering' /\ ChildrenProtected'
  <2>1. 0 <= creates
    BY BoundsAssumption DEF TypeOK
  <2> QED
    BY <1>7, <1>9, <2>1, OwnersKept
<1>11. \A q \in Operators : UpToDate(q)'
  BY <1>7, <1>8 DEF IInv, UpToDate, Outdate
<1> QED
  BY <1>1, <1>6, <1>7, <1>10, <1>11, PassAndChildren

LEMMA ApplyConfigMapSafe ==
    ASSUME TypeOK, IInv, NEW o \in Operators, ApplyConfigMap(o)
    PROVE  IInv'
<1> DEFINE w == worker[o]
           seen == cache[o].configMap
           missing == seen.owner = 0
           failing == Failing(w, "ConfigMapError")
           goes == [w EXCEPT !.pc = "deployment"]
           created == [NoConfigMap EXCEPT !.owner = w.tr.uid, !.config = w.goal]
           updated == Overwritten(seen, w.goal)
<1>1. w \in Worker /\ w.pc = "configMap"
  BY DEF TypeOK, ApplyConfigMap
<1>2. PICK n : /\ worker' = [worker EXCEPT ![o] = n]
               /\ n \in {failing, goes}
  <2>1. worker' = [worker EXCEPT ![o] = failing]
        \/ worker' = [worker EXCEPT ![o] = goes]
    BY DEF ApplyConfigMap, Goto, TypeOK
  <2> QED
    BY <2>1
<1>3. /\ goes.pc = "deployment" /\ goes.tr = w.tr
      /\ goes.current = w.current
  BY <1>1 DEF Worker
<1>4. Knows(failing) /\ InHand(failing) /\ Copy(failing.tr)
  BY <1>1, FailingPass DEF ErrorPhases
<1>5. Knows(goes) /\ InHand(goes) /\ Copy(goes.tr)
  <2> HIDE DEF goes
  <2> QED
    BY <1>1, <1>3, PassGoesOn
<1>6. Knows(n) /\ InHand(n) /\ Copy(n.tr)
  <2> HIDE DEF failing, goes
  <2> QED
    BY <1>2, <1>4, <1>5
<1>7. UNCHANGED <<router, cache, creates, deployment, service>>
  BY DEF ApplyConfigMap, user
<1>8. \/ UNCHANGED <<configMap, fresh>>
      \/ missing /\ configMap' = created /\ fresh' = Outdate("configMap")
      \/ /\ "configMap" \in fresh[o] /\ configMap' = updated
         /\ fresh' = Outdate("configMap")
  BY DEF ApplyConfigMap, Call
<1>9. configMap'.owner \in {configMap.owner, w.tr.uid}
  <2>1. seen \in ConfigMap
    BY DEF TypeOK
  <2>2. updated.owner = seen.owner
    BY <2>1 DEF Overwritten, ConfigMap
  <2>3. created.owner = w.tr.uid
    BY DEF NoConfigMap
  <2>4. "configMap" \in fresh[o] => seen = configMap
    BY DEF IInv, UpToDate
  <2> QED
    BY <1>8, <2>2, <2>3, <2>4
<1>10. w.tr.finalizer
  BY <1>1 DEF IInv, Knows
<1>11. Numbering' /\ ChildrenProtected'
  BY <1>7, <1>9, <1>10, OwnerIsProtected, OwnersKept
<1>12. \A q \in Operators : UpToDate(q)'
  BY <1>7, <1>8 DEF IInv, UpToDate, Outdate
<1> QED
  BY <1>2, <1>6, <1>7, <1>11, <1>12, PassAndChildren

LEMMA ApplyDeploymentSafe ==
    ASSUME TypeOK, IInv, NEW o \in Operators, ApplyDeployment(o)
    PROVE  IInv'
<1> DEFINE w == worker[o]
           seen == cache[o].deployment
           missing == seen.owner = 0
           want == [owner |-> IF missing THEN w.tr.uid ELSE seen.owner,
                    config |-> w.goal, replicas |-> w.tr.replicas]
           rollout == w.pc = "deployment"
           failing == Failing(w, "DeploymentError")
           goes == [w EXCEPT !.pc = IF rollout THEN "service"
                                               ELSE "rollbackStatus"]
<1>1. w \in Worker /\ w.pc \in {"deployment", "rollbackDeployment"}
  BY DEF TypeOK, ApplyDeployment
<1>2. PICK n : /\ worker' = [worker EXCEPT ![o] = n]
               /\ \/ n \in {Idle, goes}
                  \/ rollout /\ n = failing
  BY DEF ApplyDeployment
<1>3. /\ goes.pc = IF rollout THEN "service" ELSE "rollbackStatus"
      /\ goes.tr = w.tr /\ goes.current = w.current
  BY <1>1 DEF Worker
<1>4. rollout => Knows(failing) /\ InHand(failing) /\ Copy(failing.tr)
  BY FailingPass DEF ErrorPhases
<1>5. Knows(goes) /\ InHand(goes) /\ Copy(goes.tr)
  <2> HIDE DEF goes
  <2> QED
    BY <1>1, <1>3, PassGoesOn, RollbackGoesOn
<1>6. Knows(n) /\ InHand(n) /\ Copy(n.tr)
  <2> HIDE DEF failing, goes, rollout
  <2> QED
    BY <1>2, <1>4, <1>5, StoppedPass
<1>7. UNCHANGED <<router, cache, creates, configMap, service>>
  BY DEF ApplyDeployment, user
<1>8. \/ UNCHANGED <<deployment, fresh>>
      \/ /\ missing \/ "deployment" \in fresh[o]
         /\ deployment' = want /\ fresh' = Outdate("deployment")
  BY DEF ApplyDeployment, Call
<1>9. deployment'.owner \in {deployment.owner, w.tr.uid}
  <2>1. want.owner = IF missing THEN w.tr.uid ELSE seen.owner
    OBVIOUS
  <2>2. "deployment" \in fresh[o] => seen = deployment
    BY DEF IInv, UpToDate
  <2> HIDE DEF want
  <2> QED
    BY <1>8, <2>1, <2>2
<1>10. w.tr.finalizer
  BY <1>1 DEF IInv, Knows
<1>11. Numbering' /\ ChildrenProtected'
  BY <1>7, <1>9, <1>10, OwnerIsProtected, OwnersKept
<1>12. \A q \in Operators : UpToDate(q)'
  BY <1>7, <1>8 DEF IInv, UpToDate, Outdate
<1> QED
  BY <1>2, <1>6, <1>7, <1>11, <1>12, PassAndChildren

LEMMA ApplyServiceSafe ==
    ASSUME TypeOK, IInv, NEW o \in Operators, ApplyService(o)
    PROVE  IInv'
<1> DEFINE w == worker[o]
           failing == Failing(w, "ServiceError")
           goes == [w EXCEPT !.pc = "status"]
<1>1. w \in Worker /\ w.pc = "service"
  BY DEF TypeOK, ApplyService
<1>2. PICK n : /\ worker' = [worker EXCEPT ![o] = n]
               /\ n \in {failing, goes}
  <2>1. worker' = [worker EXCEPT ![o] = failing]
        \/ worker' = [worker EXCEPT ![o] = goes]
    BY DEF ApplyService, Goto, TypeOK
  <2> QED
    BY <2>1
<1>3. /\ goes.pc = "status" /\ goes.tr = w.tr
      /\ goes.current = w.current
  BY <1>1 DEF Worker
<1>4. Knows(failing) /\ InHand(failing) /\ Copy(failing.tr)
  BY <1>1, FailingPass DEF ErrorPhases
<1>5. Knows(goes) /\ InHand(goes) /\ Copy(goes.tr)
  <2> HIDE DEF goes
  <2> QED
    BY <1>1, <1>3, PassGoesOn
<1>6. Knows(n) /\ InHand(n) /\ Copy(n.tr)
  <2> HIDE DEF failing, goes
  <2> QED
    BY <1>2, <1>4, <1>5
<1>7. UNCHANGED <<router, cache, creates, configMap, deployment>>
  BY DEF ApplyService, user
<1>8. \/ UNCHANGED <<service, fresh>>
      \/ service' = [owner |-> w.tr.uid] /\ fresh' = Outdate("service")
  BY DEF ApplyService
<1>9. service'.owner \in {service.owner, w.tr.uid}
  BY <1>8
<1>10. w.tr.finalizer
  BY <1>1 DEF IInv, Knows
<1>11. Numbering' /\ ChildrenProtected'
  BY <1>7, <1>9, <1>10, OwnerIsProtected, OwnersKept
<1>12. \A q \in Operators : UpToDate(q)'
  BY <1>7, <1>8 DEF IInv, UpToDate, Outdate
<1> QED
  BY <1>2, <1>6, <1>7, <1>11, <1>12, PassAndChildren

\* What the three writers of the status write.
LEMMA StatusTypes ==
    ASSUME TypeOK, NEW o \in Operators
    PROVE  /\ RolloutStatus(worker[o].tr) \in Status
           /\ RolledBackStatus(worker[o].tr, worker[o].goal) \in Status
           /\ [worker[o].tr.status EXCEPT !.phase = worker[o].failure] \in Status
<1>1. /\ worker[o].tr.status \in Status
      /\ worker[o].tr.config \in Hashes
      /\ worker[o].goal \in Hashes
      /\ worker[o].failure \in Phases
  BY DEF TypeOK, Worker, Router, Phases
<1>2. Window \in 0..Window /\ 0 \in 0..Window
  BY WindowAssumption
<1>3. RolloutStatus(worker[o].tr) \in Status
  <2>1. /\ [worker[o].tr.status EXCEPT !.phase = "Validating",
               !.hash = worker[o].tr.config, !.left = Window] \in Status
        /\ [worker[o].tr.status EXCEPT !.phase = "Ready",
               !.hash = worker[o].tr.config, !.left = 0] \in Status
    BY <1>1, <1>2 DEF Status, Phases
  <2> QED
    BY <2>1 DEF RolloutStatus
<1>4. RolledBackStatus(worker[o].tr, worker[o].goal) \in Status
  BY <1>1 DEF RolledBackStatus, Status, Phases
<1>5. [worker[o].tr.status EXCEPT !.phase = worker[o].failure] \in Status
  BY <1>1 DEF Status
<1> QED
  BY <1>3, <1>4, <1>5

LEMMA StatusWritesSafe ==
    ASSUME TypeOK, IInv, NEW o \in Operators,
           WriteRolledBack(o) \/ WriteStatus(o) \/ SetStatus(o)
    PROVE  IInv'
<1>0. UNCHANGED <<children, cache, creates>>
  BY DEF WriteRolledBack, WriteStatus, SetStatus, user
<1>1. CASE WriteStatus(o) /\ Steady(worker[o].tr)
  BY <1>0, <1>1, StoppedPass, PassOnly DEF WriteStatus, informers
<1>2. CASE ~(WriteStatus(o) /\ Steady(worker[o].tr))
  <2>1. PICK status \in Status, applied \in BOOLEAN, touched \in BOOLEAN :
            StoreRouter(o, [router EXCEPT !.status = status], applied, touched,
                        Idle)
    <3>1. CASE WriteRolledBack(o)
      BY <3>1, StatusTypes DEF WriteRolledBack
    <3>2. CASE WriteStatus(o)
      BY <1>2, <3>2, StatusTypes DEF WriteStatus
    <3>3. CASE SetStatus(o)
      BY <3>3, StatusTypes DEF SetStatus
    <3> QED
      BY <3>1, <3>2, <3>3
  <2> QED
    BY <1>0, <2>1, StatusStored
<1> QED
  BY <1>1, <1>2

-----------------------------------------------------------------------------
(* The steps that are not a pass. *)

LEMMA DeliverSafe ==
    ASSUME TypeOK, IInv, NEW o \in Operators, NEW k \in Kinds, Deliver(o, k)
    PROVE  IInv'
<1>1. UNCHANGED <<router, children, worker, creates>>
  BY DEF Deliver, user
<1>2. ASSUME NEW q \in Operators
      PROVE  /\ Copy(cache[q].router)' /\ Copy(worker[q].tr)'
             /\ Knows(worker[q])' /\ InHand(worker[q])'
             /\ UpToDate(q)'
  <2>0. cache[q] \in [router : Router, configMap : ConfigMap,
                      deployment : Deployment, service : Service]
    BY DEF TypeOK
  <2>1. cache'[q] = IF q = o THEN [cache[o] EXCEPT ![k] = Stored[k]]
                             ELSE cache[q]
    BY DEF Deliver, TypeOK
  <2>2. fresh'[q] = IF q = o THEN fresh[o] \cup {k} ELSE fresh[q]
    BY DEF Deliver, TypeOK
  <2>3. CASE q # o
    BY <1>1, <2>1, <2>2, <2>3
       DEF IInv, Copy, Knows, InHand, InTrial, UpToDate, children
  <2>4. CASE q = o
    <3>1. /\ k = "router" \/ cache'[q].router = cache[q].router
          /\ k = "configMap" \/ cache'[q].configMap = cache[q].configMap
          /\ k = "deployment" \/ cache'[q].deployment = cache[q].deployment
          /\ k = "service" \/ cache'[q].service = cache[q].service
      BY <2>0, <2>1, <2>4
    <3>2. /\ k = "router" => cache'[q].router = router
          /\ k = "configMap" => cache'[q].configMap = configMap
          /\ k = "deployment" => cache'[q].deployment = deployment
          /\ k = "service" => cache'[q].service = service
      BY <2>0, <2>1, <2>4 DEF Stored
    <3>3. UpToDate(q)'
      BY <1>1, <2>2, <2>4, <3>1, <3>2 DEF IInv, UpToDate, children
    <3>4. Copy(cache[q].router)'
      BY <1>1, <3>1, <3>2 DEF IInv, Copy, Numbering
    <3> QED
      BY <1>1, <3>3, <3>4 DEF IInv, Copy, Knows, InHand, InTrial
  <2> QED
    BY <2>3, <2>4
<1>3. Numbering' /\ ChildrenProtected'
  BY <1>1 DEF IInv, Numbering, ChildrenProtected, children
<1> QED
  BY <1>2, <1>3 DEF IInv

LEMMA StopSafe ==
    ASSUME TypeOK, IInv, NEW o \in Operators, Crash(o) \/ Boot(o)
    PROVE  IInv'
<1>1. UNCHANGED <<router, children, creates>>
  BY DEF Crash, Boot, user
<1>2. ASSUME NEW q \in Operators
      PROVE  /\ Copy(cache[q].router)' /\ Copy(worker[q].tr)'
             /\ Knows(worker[q])' /\ InHand(worker[q])'
             /\ UpToDate(q)'
  <2>1. CASE q # o
    <3>1. cache'[q] = cache[q] /\ fresh'[q] = fresh[q] /\ worker'[q] = worker[q]
      BY <2>1 DEF Crash, Boot, TypeOK
    <3> QED
      BY <1>1, <3>1
         DEF IInv, Copy, Knows, InHand, InTrial, UpToDate, children
  <2>2. CASE q = o
    <3>1. worker'[q] \in {Idle, Down}
      BY <2>2 DEF Crash, Boot, TypeOK
    <3>2. Copy(worker[q].tr)' /\ Knows(worker[q])' /\ InHand(worker[q])'
      BY <1>1, <3>1, StoppedPass, IdleFields DEF Copy, Knows, InHand, NoRouter
    <3>3. Copy(cache[q].router)' /\ UpToDate(q)'
      <4>1. CASE cache'[q] = Stored
        BY <1>1, <4>1 DEF IInv, Numbering, Copy, UpToDate, Stored, children
      <4>2. CASE cache'[q] = NoCache /\ fresh'[q] = {}
        BY <1>1, <4>2, BoundsAssumption
           DEF IInv, TypeOK, Copy, UpToDate, NoCache, NoRouter
      <4> QED
        BY <2>2, <4>1, <4>2 DEF Crash, Boot, TypeOK
    <3> QED
      BY <3>2, <3>3
  <2> QED
    BY <2>1, <2>2
<1>3. Numbering' /\ ChildrenProtected'
  BY <1>1 DEF IInv, Numbering, ChildrenProtected, children
<1> QED
  BY <1>2, <1>3 DEF IInv

\* Ageing keeps what is said of a copy.
LEMMA AgedCopies ==
    ASSUME TypeOK, IInv, Tick, NEW q \in Operators
    PROVE  /\ Copy(cache[q].router)' /\ Copy(worker[q].tr)'
           /\ Knows(worker[q])' /\ InHand(worker[q])'
           /\ UpToDate(q)'
<1>1. /\ router \in Router /\ router.status \in Status
      /\ worker[q] \in Worker /\ worker[q].tr \in Router
      /\ cache[q].router \in Router
      /\ cache[q] \in [router : Router, configMap : ConfigMap,
                       deployment : Deployment, service : Service]
  BY DEF TypeOK, Worker, Router
<1>2. /\ router' = Aged(router)
      /\ cache'[q] = [cache[q] EXCEPT !.router = Aged(cache[q].router)]
      /\ worker'[q] = [worker[q] EXCEPT !.tr = Aged(worker[q].tr)]
      /\ fresh' = fresh /\ creates' = creates /\ UNCHANGED children
  BY DEF Tick, user
<1>3. /\ worker'[q].tr = Aged(worker[q].tr)
      /\ worker'[q].pc = worker[q].pc
      /\ worker'[q].current = worker[q].current
  BY <1>1, <1>2 DEF Worker
<1>4. /\ cache'[q].router = Aged(cache[q].router)
      /\ cache'[q].configMap = cache[q].configMap
      /\ cache'[q].deployment = cache[q].deployment
      /\ cache'[q].service = cache[q].service
  BY <1>1, <1>2
<1>5. Copy(cache[q].router)'
  BY <1>1, <1>2, <1>4, AgedFields DEF IInv, Copy
<1>6. Copy(worker[q].tr)'
  BY <1>1, <1>2, <1>3, AgedFields DEF IInv, Copy
<1>7. Knows(worker[q])'
  BY <1>1, <1>3, AgedFields DEF IInv, Knows, InTrial
<1>8. InHand(worker[q])'
  <2>1. CASE worker[q].tr = router
    BY <1>2, <1>3, <2>1 DEF IInv, InHand
  <2>2. CASE /\ InTrial(router) /\ router.status.left = 0
             /\ worker[q].tr = [router EXCEPT !.status.good = router.config]
    <3>1. router' = router
      BY <1>1, <1>2, <2>2, AgedOver
    <3>2. worker[q].tr.status.left = 0
      BY <1>1, <2>2 DEF Router, Status
    <3>3. worker'[q].tr = worker[q].tr
      BY <1>1, <1>3, <3>2, AgedOver
    <3> QED
      BY <1>3, <3>1, <3>3 DEF IInv, InHand, InTrial
  <2>3. CASE ~worker[q].current
    BY <1>3, <2>3 DEF InHand
  <2> QED
    BY <2>1, <2>2, <2>3 DEF IInv, InHand
<1>9. UpToDate(q)'
  BY <1>2, <1>4 DEF IInv, UpToDate, children
<1> QED
  BY <1>5, <1>6, <1>7, <1>8, <1>9

LEMMA TickSafe ==
    ASSUME TypeOK, IInv, Tick
    PROVE  IInv'
<1>1. router' = Aged(router) /\ creates' = creates /\ UNCHANGED children
  BY DEF Tick, user
<1>2. router \in Router
  BY DEF TypeOK
<1>3. Numbering'
  BY <1>1, <1>2, AgedFields DEF IInv, Numbering, children
<1>4. ChildrenProtected'
  BY <1>1, <1>2, AgedFields DEF IInv, ChildrenProtected, children
<1> QED
  BY <1>3, <1>4, AgedCopies DEF IInv

\* Pods and the garbage collector touch no copy of the router.
LEMMA OutsideSafe ==
    ASSUME TypeOK, IInv, UNCHANGED <<router, cache, worker, creates>>,
           configMap'.owner \in {configMap.owner, 0},
           deployment'.owner \in {deployment.owner, 0},
           service'.owner \in {service.owner, 0},
           \A q \in Operators : UpToDate(q)'
    PROVE  IInv'
<1>1. Numbering' /\ ChildrenProtected'
  <2>1. 0 <= creates
    BY BoundsAssumption DEF TypeOK
  <2> QED
    BY <2>1, OwnersKept
<1>2. ASSUME NEW q \in Operators
      PROVE  /\ Copy(cache[q].router)' /\ Copy(worker[q].tr)'
             /\ Knows(worker[q])' /\ InHand(worker[q])'
  BY DEF IInv, Copy, Knows, InHand, InTrial
<1> QED
  BY <1>1, <1>2 DEF IInv

LEMMA ClusterSafe ==
    ASSUME TypeOK, IInv, Cluster
    PROVE  IInv'
<1>1. ASSUME NEW new, PodsBecome(new)
      PROVE  IInv'
  <2>1. \A q \in Operators : UpToDate(q)'
    BY <1>1 DEF PodsBecome, IInv, UpToDate, Outdate, children
  <2> QED
    BY <1>1, <2>1, OutsideSafe DEF PodsBecome, children, user
<1>2. CASE PodStarts \/ CrashingPodRestarts \/ OldPodsRetire
  BY <1>1, <1>2 DEF PodStarts, CrashingPodRestarts, OldPodsRetire
<1>3. CASE CollectConfigMap
  <2>1. \A q \in Operators : UpToDate(q)'
    BY <1>3 DEF CollectConfigMap, IInv, UpToDate, Outdate
  <2> QED
    BY <1>3, <2>1, OutsideSafe DEF CollectConfigMap, NoConfigMap, user
<1>4. CASE CollectDeployment
  <2>1. \A q \in Operators : UpToDate(q)'
    BY <1>4 DEF CollectDeployment, IInv, UpToDate, Outdate
  <2> QED
    BY <1>4, <2>1, OutsideSafe DEF CollectDeployment, NoDeployment, user
<1>5. CASE CollectService
  <2>1. \A q \in Operators : UpToDate(q)'
    BY <1>5 DEF CollectService, IInv, UpToDate, Outdate
  <2> QED
    BY <1>5, <2>1, OutsideSafe DEF CollectService, NoService, user
<1> QED
  BY <1>2, <1>3, <1>4, <1>5, TickSafe DEF Cluster

LEMMA UsersSafe ==
    ASSUME TypeOK, IInv, Users
    PROVE  IInv'
<1>1. creates \in Nat
  BY BoundsAssumption DEF TypeOK
<1>2. ASSUME NEW new, UserWrites(new), creates' \in Nat, creates <= creates',
             new.uid <= creates', new.uid # 0 => new.config \in Configs,
             \/ new.uid = 0
             \/ new.uid = router.uid /\ new.finalizer = router.finalizer
             \/ new.uid > creates
      PROVE  IInv'
  <2>1. /\ router' = new /\ fresh' = Outdate("router")
        /\ worker' = OutdateWorkers /\ UNCHANGED <<children, cache>>
    BY <1>2 DEF UserWrites
  <2>2. /\ router.uid \in Nat /\ configMap.owner \in Nat
        /\ deployment.owner \in Nat /\ service.owner \in Nat
    BY BoundsAssumption
       DEF TypeOK, Router, ConfigMap, Deployment, Service, Uids
  <2>3. Numbering'
    BY <1>1, <1>2, <2>1, <2>2 DEF IInv, Numbering, children
  <2>4. ChildrenProtected'
    BY <1>1, <1>2, <2>1, <2>2
       DEF IInv, Numbering, ChildrenProtected, children
  <2>5. ASSUME NEW tr \in Router, Copy(tr)
        PROVE  tr.uid <= creates' /\ (tr.uid # 0 /\ tr.uid = new.uid
                                       /\ tr.finalizer => new.finalizer)
    <3>1. tr.uid \in Nat
      BY BoundsAssumption DEF Router, Uids
    <3> QED
      BY <1>1, <1>2, <2>5, <3>1 DEF Copy
  <2>6. ASSUME NEW q \in Operators
        PROVE  /\ Copy(cache[q].router)' /\ Copy(worker[q].tr)'
               /\ Knows(worker[q])' /\ InHand(worker[q])'
               /\ UpToDate(q)'
    <3>1. /\ worker[q] \in Worker /\ worker[q].tr \in Router
          /\ cache[q].router \in Router
      BY DEF TypeOK, Worker
    <3>2. worker'[q] = [worker[q] EXCEPT !.current = FALSE]
      BY <2>1 DEF OutdateWorkers
    <3>3. /\ worker'[q].current = FALSE
          /\ worker'[q].pc = worker[q].pc
          /\ worker'[q].tr = worker[q].tr
      BY <3>1, <3>2 DEF Worker
    <3>4. Copy(cache[q].router)'
      BY <2>1, <2>5, <3>1 DEF IInv, Copy
    <3>5. Copy(worker[q].tr)'
      BY <2>1, <2>5, <3>1, <3>3 DEF IInv, Copy
    <3>6. Knows(worker[q])' /\ InHand(worker[q])'
      BY <3>3 DEF IInv, Knows, InHand, InTrial
    <3>7. UpToDate(q)'
      BY <2>1 DEF IInv, UpToDate, Outdate, children
    <3> QED
      BY <3>4, <3>5, <3>6, <3>7
  <2> QED
    BY <2>3, <2>4, <2>6 DEF IInv
<1>3. CASE CreateRouter
  <2>1. PICK c, n, new :
            /\ c \in Configs /\ n \in Replicas
            /\ new = [NoRouter EXCEPT !.uid = creates + 1, !.config = c,
                                      !.replicas = n]
            /\ UserWrites(new)
    BY <1>3 DEF CreateRouter
  <2>2. creates' = creates + 1
    BY <1>3 DEF CreateRouter
  <2>3. new.uid = creates + 1 /\ new.config = c
    BY <2>1 DEF NoRouter
  <2>4. /\ creates' \in Nat /\ creates <= creates'
        /\ new.uid <= creates' /\ new.uid > creates
        /\ new.config \in Configs
    BY <1>1, <2>1, <2>2, <2>3
  <2> QED
    BY <1>2, <2>1, <2>4
<1>4. CASE EditSpec
  <2>1. PICK c, n, new :
            /\ c \in Configs /\ n \in Replicas
            /\ new = [router EXCEPT !.config = c, !.replicas = n]
            /\ UserWrites(new)
    BY <1>4 DEF EditSpec
  <2>2. creates' = creates
    BY <1>4 DEF EditSpec
  <2>3. new.uid = router.uid /\ new.config = c
        /\ new.finalizer = router.finalizer
    BY <2>1 DEF TypeOK, Router
  <2>4. /\ creates' \in Nat /\ creates <= creates'
        /\ new.uid <= creates' /\ new.config \in Configs
    BY <1>1, <2>1, <2>2, <2>3 DEF IInv, Numbering
  <2> QED
    BY <1>2, <2>1, <2>3, <2>4
<1>5. CASE DeleteRouter
  <2>1. PICK new :
            /\ new \in {[router EXCEPT !.deleting = TRUE], NoRouter}
            /\ UserWrites(new)
    BY <1>5 DEF DeleteRouter
  <2>2. creates' = creates
    BY <1>5 DEF DeleteRouter, user
  <2>3. \/ new.uid = 0
        \/ /\ new.uid = router.uid /\ new.config = router.config
           /\ new.finalizer = router.finalizer
    BY <2>1 DEF TypeOK, Router, NoRouter
  <2>4. /\ creates' \in Nat /\ creates <= creates'
        /\ new.uid <= creates' /\ (new.uid # 0 => new.config \in Configs)
    BY <1>1, <2>2, <2>3 DEF IInv, Numbering
  <2> QED
    BY <1>2, <2>1, <2>3, <2>4
<1> QED
  BY <1>3, <1>4, <1>5 DEF Users

-----------------------------------------------------------------------------
(* The theorems. *)

LEMMA Inductive == TypeOK /\ IInv /\ [Next]_vars => IInv'
<1> SUFFICES ASSUME TypeOK, IInv, [Next]_vars
             PROVE  IInv'
  OBVIOUS
<1>1. CASE UNCHANGED vars
  BY <1>1 DEF vars, children, informers, user, IInv, Numbering, Copy, UpToDate,
              Knows, InHand, InTrial, ChildrenProtected
<1>2. ASSUME NEW o \in Operators, Step(o)
      PROVE  IInv'
  BY <1>2, StartPassSafe, AddFinalizerSafe, DrainSafe, CheckPodsSafe,
     RollbackConfigSafe, ApplyConfigMapSafe, ApplyDeploymentSafe,
     ApplyServiceSafe, StatusWritesSafe
  DEF Step
<1>3. ASSUME NEW o \in Operators, Runtime(o) \/ Crash(o) \/ Boot(o)
      PROVE  IInv'
  <2>1. CASE TimerFires(o)
    BY <2>1 DEF TimerFires, children, informers, user, IInv, Numbering, Copy,
                UpToDate, Knows, InHand, InTrial, ChildrenProtected
  <2> QED
    BY <1>3, <2>1, DeliverSafe, StopSafe DEF Runtime
<1> QED
  BY <1>1, <1>2, <1>3, ClusterSafe, UsersSafe DEF Next

LEMMA Initially == Init => IInv
<1> SUFFICES ASSUME Init
             PROVE  IInv
  OBVIOUS
<1>1. Numbering /\ ChildrenProtected
  BY DEF Init, Numbering, ChildrenProtected, NoRouter, NoConfigMap,
         NoDeployment, NoService
<1>2. ASSUME NEW o \in Operators
      PROVE  /\ Copy(cache[o].router) /\ Copy(worker[o].tr)
             /\ UpToDate(o) /\ Knows(worker[o]) /\ InHand(worker[o])
  <2>1. /\ cache[o] = Stored /\ worker[o] = Idle /\ router = NoRouter
        /\ creates = 0
    BY DEF Init
  <2>2. Copy(cache[o].router) /\ Copy(worker[o].tr)
    <3>1. cache[o].router = NoRouter /\ worker[o].tr = NoRouter
      BY <2>1, IdleFields DEF Stored
    <3>2. NoRouter.uid = 0
      BY DEF NoRouter
    <3> QED
      BY <2>1, <3>1, <3>2 DEF Copy
  <2>3. UpToDate(o)
    BY <2>1 DEF Stored, UpToDate
  <2>4. Knows(worker[o]) /\ InHand(worker[o])
    BY <2>1, IdleFields DEF Knows, InHand
  <2> QED
    BY <2>2, <2>3, <2>4
<1> QED
  BY <1>1, <1>2 DEF IInv

\* The inductive invariant holds in every behaviour.
THEOREM Invariance == Spec => [](TypeOK /\ IInv)
<1>1. Init => IInv
  BY Initially
<1>2. TypeOK /\ IInv /\ [Next]_vars => IInv'
  BY Inductive
<1> QED
  BY <1>1, <1>2, Typing, PTL DEF Spec

\* However the caches lag and whoever crashes, a live router without the drain
\* finalizer owns no child.
THEOREM Protection == Spec => []ChildrenProtected
<1>1. IInv => ChildrenProtected
  BY DEF IInv
<1> QED
  BY <1>1, Invariance, PTL

-----------------------------------------------------------------------------
(* Every step of the system does one of five things to the router. *)

\* The status is rewritten from the copy that worker o has in hand.
Rewrites(o, status) ==
    /\ worker[o].current
    /\ router' = [router EXCEPT !.status = status]

StepOnRouter ==
    \/ router' = router
    \/ router'.uid # router.uid /\ router'.status = NoStatus
    \/ /\ router'.status = router.status /\ router'.uid = router.uid
       /\ edits' # edits \/ /\ router'.config = router.config
                            /\ router'.replicas = router.replicas
    \/ Tick
    \/ \E o \in Operators :
          \/ /\ worker[o].pc = "rollbackStatus"
             /\ Rewrites(o, RolledBackStatus(worker[o].tr, worker[o].goal))
          \/ /\ worker[o].pc = "status"
             /\ Rewrites(o, RolloutStatus(worker[o].tr))
          \/ /\ worker[o].pc = "fail"
             /\ Rewrites(o, [worker[o].tr.status EXCEPT
                                !.phase = worker[o].failure])

LEMMA PassOnRouter ==
    ASSUME TypeOK, IInv, NEW o \in Operators, Step(o)
    PROVE  StepOnRouter
<1>1. CASE AddFinalizer(o)
  <2> DEFINE w == worker[o]
             new == [w.tr EXCEPT !.finalizer = TRUE, !.status = router.status]
  <2>1. PICK applied, touched, next :
            /\ applied \in BOOLEAN /\ touched \in BOOLEAN
            /\ applied => w.current
            /\ StoreRouter(o, new, applied, touched, next)
    BY <1>1 DEF AddFinalizer, Call, Accepts
  <2>2. w.tr \in Router /\ w.pc = "addFinalizer"
    BY <1>1 DEF AddFinalizer, TypeOK, Worker
  <2>3. applied => w.tr = router
    BY <2>1, <2>2 DEF IInv, InHand
  <2>4. /\ new.uid = w.tr.uid /\ new.config = w.tr.config
        /\ new.replicas = w.tr.replicas /\ new.status = router.status
    BY <2>2 DEF Router
  <2> HIDE DEF new
  <2>5. router' = router \/ (applied /\ router' = new)
    BY <2>1 DEF StoreRouter
  <2> QED
    BY <2>3, <2>4, <2>5 DEF StepOnRouter
<1>2. CASE RemoveFinalizer(o)
  <2>1. PICK applied \in BOOLEAN, touched \in BOOLEAN :
            /\ applied => worker[o].current
            /\ StoreRouter(o, NoRouter, applied, touched, Idle)
    BY <1>2 DEF RemoveFinalizer, Call, Accepts
  <2>2. applied => router.uid # 0
    <3>1. worker[o].pc = "drain"
      BY <1>2 DEF RemoveFinalizer
    <3> QED
      BY <2>1, <3>1 DEF IInv, InHand, Knows
  <2>3. NoRouter.uid = 0 /\ NoRouter.status = NoStatus
    BY DEF NoRouter
  <2>4. router' = router \/ (applied /\ router' = NoRouter)
    BY <2>1 DEF StoreRouter
  <2> QED
    BY <2>2, <2>3, <2>4 DEF StepOnRouter
<1>3. CASE WriteRolledBack(o)
  <2> DEFINE status == RolledBackStatus(worker[o].tr, worker[o].goal)
  <2>1. PICK applied \in BOOLEAN, touched \in BOOLEAN :
            /\ applied => worker[o].current
            /\ StoreRouter(o, [router EXCEPT !.status = status], applied,
                           touched, Idle)
    BY <1>3 DEF WriteRolledBack, Call, Accepts
  <2>2. worker[o].pc = "rollbackStatus"
    BY <1>3 DEF WriteRolledBack
  <2>3. router' = router \/ Rewrites(o, status)
    BY <2>1 DEF StoreRouter, Rewrites
  <2> QED
    BY <2>2, <2>3 DEF StepOnRouter
<1>4. CASE WriteStatus(o)
  <2> DEFINE status == RolloutStatus(worker[o].tr)
  <2>1. CASE Steady(worker[o].tr)
    BY <1>4, <2>1 DEF WriteStatus, StepOnRouter
  <2>2. CASE ~Steady(worker[o].tr)
    <3>1. PICK applied \in BOOLEAN, touched \in BOOLEAN :
              /\ applied => worker[o].current
              /\ StoreRouter(o, [router EXCEPT !.status = status], applied,
                             touched, Idle)
      BY <1>4, <2>2 DEF WriteStatus, Call, Accepts
    <3>2. worker[o].pc = "status"
      BY <1>4 DEF WriteStatus
    <3>3. router' = router \/ Rewrites(o, status)
      BY <3>1 DEF StoreRouter, Rewrites
    <3> QED
      BY <3>2, <3>3 DEF StepOnRouter
  <2> QED
    BY <2>1, <2>2
<1>5. CASE SetStatus(o)
  <2> DEFINE status == [worker[o].tr.status EXCEPT !.phase = worker[o].failure]
  <2>1. PICK applied \in BOOLEAN, touched \in BOOLEAN :
            /\ applied => worker[o].current
            /\ StoreRouter(o, [router EXCEPT !.status = status], applied,
                           touched, Idle)
    BY <1>5 DEF SetStatus, Call, Accepts
  <2>2. worker[o].pc = "fail"
    BY <1>5 DEF SetStatus
  <2>3. router' = router \/ Rewrites(o, status)
    BY <2>1 DEF StoreRouter, Rewrites
  <2> QED
    BY <2>2, <2>3 DEF StepOnRouter
<1>6. CASE router' = router
  BY <1>6 DEF StepOnRouter
<1> QED
  BY <1>1, <1>2, <1>3, <1>4, <1>5, <1>6
  DEF Step, StartPass, DrainCheck, CheckPods, RollbackConfig, ApplyConfigMap,
      ApplyDeployment, ApplyService

LEMMA RouterSteps ==
    ASSUME TypeOK, IInv, [Next]_vars
    PROVE  StepOnRouter
<1>1. CASE router' = router
  BY <1>1 DEF StepOnRouter
<1>2. CASE \E o \in Operators : Step(o)
  BY <1>2, PassOnRouter
<1>3. CASE Tick
  BY <1>3 DEF StepOnRouter
<1>4. CASE CreateRouter
  <2>1. PICK c \in Configs, n \in Replicas :
            router' = [NoRouter EXCEPT !.uid = creates + 1, !.config = c,
                                       !.replicas = n]
    BY <1>4 DEF CreateRouter, UserWrites
  <2>2. router'.uid = creates + 1 /\ router'.status = NoStatus
    BY <2>1 DEF NoRouter
  <2>3. router.uid = 0 /\ creates \in Nat
    BY <1>4, BoundsAssumption DEF CreateRouter, TypeOK
  <2>4. creates + 1 # 0
    BY <2>3
  <2> QED
    BY <2>2, <2>3, <2>4 DEF StepOnRouter
<1>5. CASE EditSpec
  <2>1. PICK c \in Configs, n \in Replicas :
            router' = [router EXCEPT !.config = c, !.replicas = n]
    BY <1>5 DEF EditSpec, UserWrites
  <2>2. router'.uid = router.uid /\ router'.status = router.status
    BY <2>1 DEF TypeOK, Router
  <2>3. edits' # edits
    BY <1>5, BoundsAssumption DEF EditSpec, TypeOK
  <2> QED
    BY <2>2, <2>3 DEF StepOnRouter
<1>6. CASE DeleteRouter
  <2>1. /\ router.uid # 0
        /\ \/ router' = [router EXCEPT !.deleting = TRUE]
           \/ router' = NoRouter
    BY <1>6 DEF DeleteRouter, UserWrites
  <2>2. CASE router' = [router EXCEPT !.deleting = TRUE]
    <3>1. /\ router'.uid = router.uid /\ router'.status = router.status
          /\ router'.config = router.config
          /\ router'.replicas = router.replicas
      BY <2>2 DEF TypeOK, Router
    <3> QED
      BY <3>1 DEF StepOnRouter
  <2>3. CASE router' = NoRouter
    <3>1. router'.uid = 0 /\ router'.status = NoStatus
      BY <2>3 DEF NoRouter
    <3> QED
      BY <2>1, <3>1 DEF StepOnRouter
  <2> QED
    BY <2>1, <2>2, <2>3
<1>7. CASE UNCHANGED vars
  BY <1>7 DEF vars, StepOnRouter
<1> QED
  BY <1>1, <1>2, <1>3, <1>4, <1>5, <1>6, <1>7
  DEF Next, Runtime, Deliver, TimerFires, Crash, Boot, Cluster, Users,
      PodStarts, CrashingPodRestarts, OldPodsRetire, PodsBecome, CollectConfigMap,
      CollectDeployment, CollectService

-----------------------------------------------------------------------------
(* No edit of the user is undone. *)

\* Whatever copies the operators write back, the spec of a router changes by an
\* edit only.
THEOREM EditsSurvive == Spec => SpecOnlyByUser
<1> DEFINE Kept == edits' = edits /\ router'.uid = router.uid
                      => /\ router'.config = router.config
                         /\ router'.replicas = router.replicas
<1>1. ASSUME TypeOK, IInv, [Next]_vars
      PROVE  Kept
  <2>0. router \in Router
    BY <1>1 DEF TypeOK
  <2>1. CASE Tick
    <3>1. router' = Aged(router)
      BY <2>1 DEF Tick
    <3> QED
      BY <2>0, <3>1, AgedFields
  <2>2. ASSUME NEW status, router' = [router EXCEPT !.status = status]
        PROVE  Kept
    BY <2>0, <2>2 DEF Router
  <2> QED
    BY <1>1, <2>1, <2>2, RouterSteps DEF StepOnRouter, Rewrites
<1>2. TypeOK /\ IInv /\ [Next]_vars => [Kept]_vars
  BY <1>1
<1> QED
  BY <1>2, Invariance, PTL DEF Spec, SpecOnlyByUser

-----------------------------------------------------------------------------
(* The status follows the rollout protocol. *)

\* A router without a status has no trial and no verdicts.
LEMMA NoStatusFields ==
    /\ NoStatus.phase # "Validating"
    /\ NoStatus.good = None /\ NoStatus.bad = None /\ NoStatus.left = 0
BY DEF NoStatus

LEMMA InitRefines == Init => Protocol!Init
<1>1. NoRouter.status = NoStatus
  BY DEF NoRouter
<1> QED
  BY <1>1, NoStatusFields DEF Init, Protocol!Init

\* What a pass that writes the status has in hand.
LEMMA HandRefines ==
    ASSUME TypeOK, IInv, NEW o \in Operators, worker[o].current
    PROVE  LET tr == worker[o].tr IN
           /\ tr \in Router /\ tr.status \in Status
           /\ tr.config \in Configs /\ tr.config # None
           /\ tr.config = router.config
           /\ tr.status.phase = router.status.phase
           /\ tr.status.hash = router.status.hash
           /\ tr.status.bad = router.status.bad
           /\ tr.status.left = router.status.left
           /\ \/ tr.status.good = router.status.good
              \/ /\ worker[o].pc \in {"status", "fail"}
                    \cup {"configMap", "deployment", "service"}
                 /\ tr.status.good = tr.config
                 /\ InTrial(router) /\ router.status.left = 0
<1> DEFINE tr == worker[o].tr
<1>1. tr \in Router /\ tr.status \in Status
  BY DEF TypeOK, Worker, Router
<1>2. router \in Router /\ router.status \in Status
  BY DEF TypeOK, Router
<1>3. tr.uid # 0
  BY DEF IInv, Knows, InHand
<1>4. CASE tr = router
  BY <1>1, <1>3, <1>4, ConfigsAssumption DEF IInv, Numbering
<1>5. CASE /\ worker[o].pc \in {"configMap", "deployment", "service", "status",
                                "fail"}
           /\ InTrial(router) /\ router.status.left = 0
           /\ tr = [router EXCEPT !.status.good = router.config]
  <2>1. /\ tr.uid = router.uid /\ tr.config = router.config
        /\ tr.status.phase = router.status.phase
        /\ tr.status.hash = router.status.hash
        /\ tr.status.bad = router.status.bad
        /\ tr.status.left = router.status.left
        /\ tr.status.good = router.config
    BY <1>2, <1>5 DEF Router, Status
  <2> QED
    BY <1>1, <1>3, <1>5, <2>1, ConfigsAssumption DEF IInv, Numbering
<1> QED
  BY <1>4, <1>5 DEF IInv, InHand

LEMMA RewriteRefines ==
    ASSUME TypeOK, IInv, NEW o \in Operators,
           \/ /\ worker[o].pc = "rollbackStatus"
              /\ Rewrites(o, RolledBackStatus(worker[o].tr, worker[o].goal))
           \/ /\ worker[o].pc = "status"
              /\ Rewrites(o, RolloutStatus(worker[o].tr))
           \/ /\ worker[o].pc = "fail"
              /\ Rewrites(o, [worker[o].tr.status EXCEPT
                                 !.phase = worker[o].failure])
    PROVE  Protocol!Next
<1> DEFINE w == worker[o]
           tr == w.tr
<1>1. w.current /\ Knows(w)
  BY DEF Rewrites, IInv
<1>2. router \in Router /\ router.status \in Status
  BY DEF TypeOK, Router
<1>3. /\ tr.status \in Status
      /\ tr.config \in Configs /\ tr.config # None
      /\ tr.config = router.config
      /\ tr.status.phase = router.status.phase
      /\ tr.status.hash = router.status.hash
      /\ tr.status.bad = router.status.bad
      /\ tr.status.left = router.status.left
      /\ \/ tr.status.good = router.status.good
         \/ /\ w.pc \in {"status", "fail"}
               \cup {"configMap", "deployment", "service"}
            /\ tr.status.good = tr.config
            /\ InTrial(router) /\ router.status.left = 0
  BY <1>1, HandRefines
<1>4. ASSUME NEW status, Rewrites(o, status)
      PROVE  router'.status = status
  BY <1>2, <1>4 DEF Rewrites, Router
<1>5. CASE w.pc = "rollbackStatus"
  <2>1. router'.status = RolledBackStatus(tr, w.goal)
    BY <1>4, <1>5
  <2>2. /\ router'.status.phase = "RolledBack"
        /\ router'.status.bad = tr.config
        /\ router'.status.good = tr.status.good
        /\ router'.status.left = tr.status.left
    BY <1>3, <2>1 DEF RolledBackStatus, Status
  <2>3. InTrial(tr) /\ tr.status.left = 0
    BY <1>1, <1>5 DEF Knows
  <2> HIDE DEF w, tr
  <2> QED
    BY <1>3, <1>5, <2>2, <2>3 DEF Protocol!Next, Protocol!Reject, InTrial
<1>6. CASE w.pc = "status"
  <2>1. router'.status = RolloutStatus(tr)
    BY <1>4, <1>6
  <2>2. /\ tr.config # tr.status.bad
        /\ InTrial(tr) => tr.status.good = tr.config
    BY <1>1, <1>6 DEF Knows
  <2>3. CASE tr.config # tr.status.good
    <3>1. /\ router'.status.phase = "Validating"
          /\ router'.status.hash = tr.config
          /\ router'.status.good = tr.status.good
          /\ router'.status.bad = tr.status.bad
          /\ router'.status.left = Window
      BY <1>3, <2>1, <2>3 DEF RolloutStatus, Status
    <3>2. Protocol!Begin(tr.config)
      <4> HIDE DEF w, tr
      <4> QED
        BY <1>3, <2>2, <2>3, <3>1 DEF Protocol!Begin, InTrial
    <3> QED
      BY <1>3, <3>2 DEF Protocol!Next
  <2>4. CASE tr.config = tr.status.good
    <3>1. /\ router'.status.phase = "Ready"
          /\ router'.status.good = tr.config
          /\ router'.status.bad = tr.status.bad
          /\ router'.status.left = 0
      BY <1>3, <2>1, <2>4 DEF RolloutStatus, Status
    <3> HIDE DEF w, tr
    <3>2. Protocol!Abandon \/ Protocol!Promote
      BY <1>3, <2>4, <3>1 DEF Protocol!Abandon, Protocol!Promote, InTrial
    <3> QED
      BY <3>2 DEF Protocol!Next
  <2> QED
    BY <2>3, <2>4
<1>7. CASE w.pc = "fail"
  <2>1. router'.status = [tr.status EXCEPT !.phase = w.failure]
    BY <1>4, <1>7
  <2>2. w.failure # "Validating"
    BY DEF TypeOK, Worker, ErrorPhases
  <2>3. /\ router'.status.phase # "Validating"
        /\ router'.status.good = tr.status.good
        /\ router'.status.bad = tr.status.bad
        /\ router'.status.left = tr.status.left
    BY <1>3, <2>1, <2>2 DEF Status
  <2> HIDE DEF w, tr
  <2>4. Protocol!Abandon \/ Protocol!Promote
    BY <1>3, <2>3 DEF Protocol!Abandon, Protocol!Promote, InTrial
  <2> QED
    BY <2>4 DEF Protocol!Next
<1> QED
  BY <1>5, <1>6, <1>7

LEMMA StepRefines ==
    ASSUME TypeOK, IInv, [Next]_vars
    PROVE  [Protocol!Next]_(Protocol!vars)
<1>1. CASE router'.status = router.status
  BY <1>1 DEF Protocol!vars
<1>2. CASE router'.status = NoStatus
  BY <1>2, NoStatusFields DEF Protocol!Next, Protocol!Reset
<1>3. CASE Tick
  <2>1. router' = Aged(router) /\ router \in Router
    BY <1>3 DEF Tick, TypeOK
  <2>2. router.status.left \in Nat
    BY <2>1, WindowAssumption DEF Router, Status
  <2>3. /\ router'.status.phase = router.status.phase
        /\ router'.status.hash = router.status.hash
        /\ router'.status.good = router.status.good
        /\ router'.status.bad = router.status.bad
        /\ router'.status.left = IF router.status.left = 0
                                 THEN 0 ELSE router.status.left - 1
    BY <2>1, AgedFields
  <2>4. CASE router.status.left = 0
    BY <2>3, <2>4 DEF Protocol!vars
  <2>5. CASE router.status.left # 0
    <3>1. Protocol!Elapse
      BY <2>2, <2>3, <2>5 DEF Protocol!Elapse
    <3> QED
      BY <3>1 DEF Protocol!Next
  <2> QED
    BY <2>4, <2>5
<1>4. ASSUME router' = router
      PROVE  router'.status = router.status
  BY <1>4
<1> QED
  BY <1>1, <1>2, <1>3, <1>4, RouterSteps, RewriteRefines DEF StepOnRouter

\* Whatever the operators, caches, pods and users do, the status of a router
\* is a behaviour of the rollout protocol.
THEOREM Refinement == Spec => FollowsProtocol
<1>1. Init => Protocol!Init
  BY InitRefines
<1>2. TypeOK /\ IInv /\ [Next]_vars => [Protocol!Next]_(Protocol!vars)
  BY StepRefines
<1> QED
  BY <1>1, <1>2, Invariance, PTL DEF Spec, FollowsProtocol, Protocol!Spec

\* No configuration is promoted and flagged at once.
THEOREM VerdictsHold == Spec => []Verdicts
<1>1. Protocol!Init => Verdicts
  BY DEF Protocol!Init, Verdicts, Protocol!Verdicts
<1>2. Verdicts /\ [Protocol!Next]_(Protocol!vars) => Verdicts'
  <2> SUFFICES ASSUME Protocol!Verdicts, [Protocol!Next]_(Protocol!vars)
               PROVE  Protocol!Verdicts'
    BY DEF Verdicts
  <2> QED
    BY DEF Protocol!Verdicts, Protocol!Next, Protocol!vars, Protocol!Begin,
           Protocol!Elapse, Protocol!Promote, Protocol!Reject,
           Protocol!Abandon, Protocol!Reset
<1> QED
  BY <1>1, <1>2, Refinement, PTL DEF FollowsProtocol, Protocol!Spec
=============================================================================
