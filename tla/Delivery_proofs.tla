--------------------------- MODULE Delivery_proofs ---------------------------
(***************************************************************************)
(* Theorems of Delivery.  NothingVanishes needs only the types; that the   *)
(* pipeline implements Custody rests on Apart: a request that the fan-out  *)
(* has not handed to a sink is in no stage of the buffer of that sink, so  *)
(* that what enters a disk stage is not there, flushed, already.           *)
(***************************************************************************)
EXTENDS Delivery, TLAPS

Apart ==
    \A r \in Requests : \A s \in Sinks :
        r \in queue \/ (r \in current /\ s \in todo) =>
            r \notin memory[s] \cup disk[s] \cup batch[s]

QueueApart == queue \cap current = {}

IInv == TypeOK /\ Apart /\ QueueApart

-----------------------------------------------------------------------------
(* Requests and batches. *)

LEMMA RequestEvents ==
    ASSUME NEW B \in SUBSET Requests
    PROVE  EventsOf(B) \subseteq Events
BY DEF EventsOf, Requests

\* A batch is made of what the sink holds, and goes on when one is under way.
LEMMA BatchOf ==
    ASSUME TypeOK, NEW s \in Sinks, NEW B \in Batches(s)
    PROVE  /\ B \subseteq Requests
           /\ batch[s] \subseteq B
           /\ B \subseteq memory[s] \cup disk[s] \cup batch[s]
<1>1. CASE batch[s] # {}
  BY <1>1 DEF Batches, TypeOK
<1>2. CASE batch[s] = {}
  BY <1>2 DEF Batches, TypeOK
<1> QED
  BY <1>1, <1>2

-----------------------------------------------------------------------------
(* The type invariant. *)

LEMMA InitTyped == Init => TypeOK
BY BoundsAssumption DEF Init, TypeOK

LEMMA FaultTyped == ASSUME TypeOK, Fault PROVE faults' \in 0..MaxFaults
BY BoundsAssumption DEF TypeOK, Fault

LEMMA RetryTyped ==
    ASSUME TypeOK, NEW s \in Sinks, NEW B \in Batches(s), Retry(s, B)
    PROVE  /\ batch' \in [Sinks -> SUBSET Requests]
           /\ tries' \in [Sinks -> Nat]
           /\ memory' \in [Sinks -> SUBSET Requests]
<1>1. B \subseteq Requests
  BY BatchOf
<1>2. batch' \in [Sinks -> SUBSET Requests]
  BY <1>1 DEF TypeOK, Retry
<1>3. tries' \in [Sinks -> Nat]
  BY DEF TypeOK, Retry
<1>4. memory' \in [Sinks -> SUBSET Requests]
  BY DEF TypeOK, Retry
<1> QED
  BY <1>2, <1>3, <1>4

LEMMA EndBatchTyped ==
    ASSUME TypeOK, NEW s \in Sinks, NEW B \in Batches(s), EndBatch(s, B)
    PROVE  /\ batch' \in [Sinks -> SUBSET Requests]
           /\ tries' \in [Sinks -> Nat]
           /\ memory' \in [Sinks -> SUBSET Requests]
           /\ disk' \in [Sinks -> SUBSET Requests]
           /\ unflushed' \in [Sinks -> SUBSET Requests]
<1>1. batch' \in [Sinks -> SUBSET Requests] /\ tries' \in [Sinks -> Nat]
  BY DEF TypeOK, EndBatch
<1>2. memory' \in [Sinks -> SUBSET Requests] /\ disk' \in [Sinks -> SUBSET Requests]
  BY DEF TypeOK, EndBatch
<1>3. unflushed' \in [Sinks -> SUBSET Requests]
  BY DEF TypeOK, EndBatch
<1> QED
  BY <1>1, <1>2, <1>3

LEMMA ArriveTyped ==
    ASSUME TypeOK, NEW s \in Sinks, NEW B \in Batches(s), Arrive(s, B)
    PROVE  delivered' \in [Sinks -> SUBSET Events]
<1>1. EventsOf(B) \subseteq Events
  BY BatchOf, RequestEvents
<1> QED
  BY <1>1 DEF TypeOK, Arrive

LEMMA TryTyped ==
    ASSUME TypeOK, NEW s \in Sinks, NEW B \in Batches(s),
           Retry(s, B) \/ GiveUp(s, B),
           delivered' \in [Sinks -> SUBSET Events], faults' \in 0..MaxFaults
    PROVE  TypeOK'
<1>1. CASE Retry(s, B)
  BY <1>1, RetryTyped DEF TypeOK, Retry, fanOut
<1>2. CASE GiveUp(s, B)
  <2>1. EventsOf(B) \subseteq Events
    BY BatchOf, RequestEvents
  <2>2. givenUp' \in [Sinks -> SUBSET Events]
    BY <1>2, <2>1 DEF TypeOK, GiveUp
  <2> QED
    BY <1>2, <2>2, EndBatchTyped DEF TypeOK, GiveUp, EndBatch, fanOut
<1> QED
  BY <1>1, <1>2

LEMMA NextTyped == TypeOK /\ [Next]_vars => TypeOK'
<1> SUFFICES ASSUME TypeOK, [Next]_vars PROVE TypeOK'
  OBVIOUS
<1> USE DEF fanOut, buffers, sending, outcome
<1>1. ASSUME NEW e \in Events, Send(e) PROVE TypeOK'
  <2>1. PICK n \in 1..MaxCopies : queue' = queue \cup {<<e, n>>}
    BY <1>1 DEF Send
  <2>2. queue' \subseteq Requests
    BY <2>1 DEF TypeOK, Requests
  <2>3. acked' \subseteq Events /\ faults' \in 0..MaxFaults
    BY <1>1, FaultTyped DEF Send, TypeOK
  <2> QED
    BY <1>1, <2>2, <2>3 DEF Send, TypeOK
<1>2. ASSUME NEW r \in Requests, StartFanOut(r) PROVE TypeOK'
  <2>1. r[1] \in Events
    BY DEF Requests
  <2> QED
    BY <1>2, <2>1, SinksAssumption DEF StartFanOut, TypeOK
<1>3. CASE HandOver
  <2>1. EventsOf(current) \subseteq Events
    BY RequestEvents DEF TypeOK
  <2>2. dropped' \in [Sinks -> SUBSET Events]
    BY <1>3, <2>1 DEF HandOver, TypeOK
  <2>3. memory' \in [Sinks -> SUBSET Requests] /\ disk' \in [Sinks -> SUBSET Requests]
    BY <1>3 DEF HandOver, TypeOK
  <2>4. unflushed' \in [Sinks -> SUBSET Requests]
    BY <1>3 DEF HandOver, TypeOK
  <2>5. todo' \subseteq Sinks /\ current' \subseteq Requests
    BY <1>3 DEF HandOver, TypeOK
  <2> QED
    BY <1>3, <2>2, <2>3, <2>4, <2>5 DEF HandOver, TypeOK
<1>4. ASSUME NEW s \in Sinks, Flush(s) PROVE TypeOK'
  BY <1>4 DEF Flush, TypeOK
<1>5. ASSUME NEW s \in Sinks, Deliver(s) PROVE TypeOK'
  <2>1. PICK B \in Batches(s) : Arrive(s, B) /\ EndBatch(s, B)
    BY <1>5 DEF Deliver
  <2> QED
    BY <1>5, <2>1, ArriveTyped, EndBatchTyped DEF Deliver, EndBatch, TypeOK
<1>6. ASSUME NEW s \in Sinks, FailedTry(s) PROVE TypeOK'
  BY <1>6, TryTyped DEF FailedTry, TypeOK
<1>7. ASSUME NEW s \in Sinks, LostAnswer(s) PROVE TypeOK'
  BY <1>7, TryTyped, ArriveTyped, FaultTyped DEF LostAnswer
<1>8. ASSUME NEW s \in Sinks, GoDown(s) \/ ComeBack(s) PROVE TypeOK'
  BY <1>8, FaultTyped DEF GoDown, ComeBack, TypeOK
<1>9. CASE Crash
  BY <1>9, FaultTyped, BoundsAssumption DEF Crash, TypeOK
<1>10. CASE UNCHANGED vars
  BY <1>10 DEF vars, TypeOK
<1> QED
  BY <1>1, <1>2, <1>3, <1>4, <1>5, <1>6, <1>7, <1>8, <1>9, <1>10
  DEF Next, SinkStep

\* The state is well formed, whatever the sinks and their settings.
THEOREM Typed == Spec => []TypeOK
<1> QED
  BY InitTyped, NextTyped, PTL DEF Spec
-----------------------------------------------------------------------------
(* A request is in one place. *)

LEMMA InitApart == Init => Apart /\ QueueApart
BY DEF Init, Apart, QueueApart

LEMMA SendApart ==
    ASSUME IInv, NEW e \in Events, Send(e)
    PROVE  Apart' /\ QueueApart'
<1>1. PICK n \in 1..MaxCopies :
        Free(<<e, n>>) /\ queue' = queue \cup {<<e, n>>}
  BY DEF Send
<1>2. UNCHANGED <<current, todo, memory, disk, batch>>
  BY DEF Send, fanOut, buffers, sending
<1>3. Apart'
  BY <1>1, <1>2 DEF IInv, Apart, Free
<1>4. QueueApart'
  BY <1>1, <1>2 DEF IInv, QueueApart, Free
<1> QED
  BY <1>3, <1>4

LEMMA FanOutApart ==
    ASSUME IInv, NEW r \in Requests, StartFanOut(r)
    PROVE  Apart' /\ QueueApart'
<1>1. /\ queue' = queue \ {r} /\ r \in queue
      /\ current' \subseteq {r}
      /\ UNCHANGED <<memory, disk, batch>>
  BY DEF StartFanOut, buffers, sending
<1> QED
  BY <1>1 DEF IInv, Apart, QueueApart

LEMMA HandOverApart ==
    ASSUME IInv, HandOver
    PROVE  Apart' /\ QueueApart'
<1>1. /\ UNCHANGED <<queue, batch>>
      /\ todo' = todo \ (Buffered \cup Overflowing \cup Dropping)
      /\ current' \subseteq current
      /\ \A s \in Sinks :
           /\ s \in todo' => memory'[s] = memory[s] /\ disk'[s] = disk[s]
           /\ memory'[s] \subseteq memory[s] \cup current
           /\ disk'[s] \subseteq disk[s] \cup current
  BY DEF HandOver, sending
<1>2. ASSUME NEW x \in Requests, NEW s \in Sinks, x \in queue'
      PROVE  x \notin memory'[s] \cup disk'[s] \cup batch'[s]
  BY <1>1, <1>2 DEF IInv, Apart, QueueApart
<1>3. ASSUME NEW x \in Requests, NEW s \in Sinks, x \in current', s \in todo'
      PROVE  x \notin memory'[s] \cup disk'[s] \cup batch'[s]
  BY <1>1, <1>3 DEF IInv, Apart
<1>4. Apart'
  BY <1>2, <1>3 DEF Apart
<1> QED
  BY <1>1, <1>4 DEF IInv, QueueApart

\* A sink only moves what it holds, and a crash leaves nothing before the
\* buffers.
LEMMA SinkApart ==
    ASSUME IInv,
           \/ UNCHANGED <<queue, fanOut>>
           \/ queue' = {} /\ current' = {},
           \A s \in Sinks : memory'[s] \cup disk'[s] \cup batch'[s] \subseteq
                              memory[s] \cup disk[s] \cup batch[s]
    PROVE  Apart' /\ QueueApart'
BY DEF IInv, Apart, QueueApart, fanOut

LEMMA RetryApart ==
    ASSUME IInv, NEW s \in Sinks, NEW B \in Batches(s),
           Retry(s, B) \/ EndBatch(s, B)
    PROVE  Apart' /\ QueueApart'
<1>1. B \subseteq memory[s] \cup disk[s] \cup batch[s]
  BY BatchOf DEF IInv
<1>2. UNCHANGED <<queue, fanOut>>
  BY DEF Retry, EndBatch
<1>3. \A x \in Sinks : memory'[x] \cup disk'[x] \cup batch'[x] \subseteq
                         memory[x] \cup disk[x] \cup batch[x]
  BY <1>1 DEF Retry, EndBatch, IInv, TypeOK
<1> QED
  BY <1>2, <1>3, SinkApart

LEMMA InitIInv == Init => IInv
BY InitTyped, InitApart DEF IInv

LEMMA NextIInv == IInv /\ [Next]_vars => IInv'
<1> SUFFICES ASSUME IInv, [Next]_vars PROVE IInv'
  OBVIOUS
<1>1. TypeOK'
  BY NextTyped DEF IInv
<1>2. ASSUME NEW s \in Sinks, Deliver(s) \/ FailedTry(s) \/ LostAnswer(s)
      PROVE  Apart' /\ QueueApart'
  BY <1>2, RetryApart DEF Deliver, FailedTry, LostAnswer, GiveUp
<1>3. ASSUME UNCHANGED <<queue, fanOut, memory, disk, batch>>
      PROVE  Apart' /\ QueueApart'
  BY <1>3, SinkApart
<1>4. ASSUME NEW s \in Sinks, Flush(s) \/ GoDown(s) \/ ComeBack(s)
      PROVE  Apart' /\ QueueApart'
  BY <1>3, <1>4 DEF Flush, GoDown, ComeBack, buffers, sending
<1>5. ASSUME Crash PROVE Apart' /\ QueueApart'
  <2>1. /\ queue' = {} /\ current' = {}
        /\ \A s \in Sinks : memory'[s] \cup disk'[s] \cup batch'[s] \subseteq
                              memory[s] \cup disk[s] \cup batch[s]
    BY <1>5 DEF Crash
  <2> QED
    BY <2>1, SinkApart
<1>6. ASSUME UNCHANGED vars PROVE Apart' /\ QueueApart'
  BY <1>3, <1>6 DEF vars, buffers, sending
<1>7. Apart' /\ QueueApart'
  BY <1>2, <1>4, <1>5, <1>6, SendApart, FanOutApart, HandOverApart
  DEF Next, SinkStep
<1> QED
  BY <1>1, <1>7 DEF IInv

-----------------------------------------------------------------------------
(* Nothing vanishes. *)

LEMMA Vanishing ==
    ASSUME TypeOK, [Next]_vars, NEW r \in Requests, NEW s \in Sinks,
           OnItsWay(r, s)
    PROVE  \/ OnItsWay(r, s)'
           \/ Accounted(r[1], s)'
           \/ Crash /\ ~Safe(r, s)
<1> DEFINE Goal == OnItsWay(r, s)' \/ Accounted(r[1], s)'
<1>1. ASSUME queue \subseteq queue',
             UNCHANGED <<fanOut, memory, disk, batch>>
      PROVE  OnItsWay(r, s)'
  BY <1>1 DEF OnItsWay, fanOut
<1>2. ASSUME NEW e \in Events, Send(e) PROVE Goal
  BY <1>1, <1>2 DEF Send, buffers, sending
<1>3. ASSUME NEW q \in Requests, StartFanOut(q) PROVE Goal
  BY <1>3 DEF StartFanOut, OnItsWay, buffers, sending
<1>4. CASE HandOver
  <2>1. /\ UNCHANGED <<queue, batch>>
        /\ todo' = todo \ (Buffered \cup Overflowing \cup Dropping)
        /\ todo' # {} => current' = current
        /\ memory'[s] = IF s \in Buffered THEN memory[s] \cup current ELSE memory[s]
        /\ disk'[s] = IF s \in Overflowing THEN disk[s] \cup current ELSE disk[s]
        /\ dropped'[s] = IF s \in Dropping THEN dropped[s] \cup EventsOf(current)
                                           ELSE dropped[s]
    BY <1>4 DEF HandOver, sending
  <2>2. CASE r \in current /\ s \in Dropping
    <3>1. WhenFull[s] = "drop_newest" /\ r[1] \in dropped'[s]
      BY <2>1, <2>2 DEF Dropping, EventsOf
    <3> QED
      BY <3>1 DEF Accounted
  <2>3. CASE ~(r \in current /\ s \in Dropping)
    BY <2>1, <2>3 DEF OnItsWay
  <2> QED
    BY <2>2, <2>3
<1>5. ASSUME NEW x \in Sinks, NEW B \in Batches(x), Retry(x, B) PROVE OnItsWay(r, s)'
  <2>1. /\ batch[x] \subseteq B /\ UNCHANGED <<queue, fanOut, disk>>
        /\ batch' = [batch EXCEPT ![x] = B] /\ memory' = [memory EXCEPT ![x] = @ \ B]
    BY <1>5, BatchOf DEF Retry
  <2> QED
    BY <2>1 DEF OnItsWay, TypeOK, fanOut
<1>6. ASSUME NEW x \in Sinks, NEW B \in Batches(x), EndBatch(x, B)
      PROVE  OnItsWay(r, s)' \/ (x = s /\ r \in B)
  <2>1. /\ batch[x] \subseteq B /\ UNCHANGED <<queue, fanOut>>
        /\ batch' = [batch EXCEPT ![x] = {}]
        /\ memory' = [memory EXCEPT ![x] = @ \ B] /\ disk' = [disk EXCEPT ![x] = @ \ B]
    BY <1>6, BatchOf DEF EndBatch
  <2> QED
    BY <2>1 DEF OnItsWay, TypeOK, fanOut
<1>7. ASSUME NEW B, r \in B PROVE r[1] \in EventsOf(B)
  BY <1>7 DEF EventsOf
<1>8. ASSUME NEW x \in Sinks, Deliver(x) PROVE Goal
  <2>1. PICK B \in Batches(x) : Arrive(x, B) /\ EndBatch(x, B)
    BY <1>8 DEF Deliver
  <2>2. CASE x = s /\ r \in B
    <3>1. r[1] \in delivered'[s]
      BY <1>7, <2>1, <2>2 DEF Arrive, TypeOK
    <3> QED
      BY <3>1 DEF Accounted
  <2> QED
    BY <1>6, <2>1, <2>2
<1>9. ASSUME NEW x \in Sinks, FailedTry(x) \/ LostAnswer(x) PROVE Goal
  <2>1. PICK B \in Batches(x) : Retry(x, B) \/ GiveUp(x, B)
    BY <1>9 DEF FailedTry, LostAnswer
  <2>2. CASE GiveUp(x, B) /\ x = s /\ r \in B
    <3>1. RetryMax[s] # 0 /\ r[1] \in givenUp'[s]
      BY <1>7, <2>2 DEF GiveUp, TypeOK
    <3> QED
      BY <3>1 DEF Accounted
  <2>3. CASE GiveUp(x, B) /\ ~(x = s /\ r \in B)
    BY <1>6, <2>3 DEF GiveUp
  <2> QED
    BY <1>5, <2>1, <2>2, <2>3
<1>10. ASSUME NEW x \in Sinks, Flush(x) \/ GoDown(x) \/ ComeBack(x) PROVE Goal
  BY <1>1, <1>10 DEF Flush, GoDown, ComeBack, buffers, sending
<1>11. CASE Crash
  <2>1. disk'[s] = disk[s] \ unflushed[s]
    BY <1>11 DEF Crash
  <2> QED
    BY <1>11, <2>1 DEF Safe, OnItsWay
<1>12. CASE UNCHANGED vars
  BY <1>1, <1>12 DEF vars, buffers, sending
<1> QED
  BY <1>2, <1>3, <1>4, <1>8, <1>9, <1>10, <1>11, <1>12 DEF Next, SinkStep

\* What the source has taken is never lost on the way, but for a crash that
\* finds it on no disk: for any number of sinks, with any buffers and retries,
\* and any number of crashes, outages and lost answers.
THEOREM Conserved == Spec => NothingVanishes
<1> DEFINE Stays ==
      \A r \in Requests, s \in Sinks : OnItsWay(r, s) =>
          \/ OnItsWay(r, s)'
          \/ Accounted(r[1], s)'
          \/ Crash /\ ~Safe(r, s)
<1>1. TypeOK /\ [Next]_vars => [Stays]_vars
  BY Vanishing
<1>2. NothingVanishes <=> [][Stays]_vars
  BY DEF NothingVanishes
<1> QED
  BY <1>1, <1>2, InitTyped, NextTyped, PTL DEF Spec

-----------------------------------------------------------------------------
(* The refinement. *)

\* The state functions of the mapping, by name.
Volatile(s) == {r \in Requests : OnItsWay(r, s) /\ ~Safe(r, s)}
OnDisk(s) == disk[s] \ unflushed[s]
Owed == [s \in Keeping |-> EventsOf(Volatile(s))]
Kept == [s \in Keeping |-> EventsOf(OnDisk(s))]
Stored == [s \in Keeping |-> delivered[s]]

LEMMA MappedSpec ==
    ASSUME NEW e, NEW s, NEW B
    PROVE  /\ Promise!vars = <<acked, Owed, Kept, Stored>>
           /\ Promise!vars' = <<acked, Owed, Kept, Stored>>'
           /\ Promise!Accept(e) <=>
                /\ Owed' = [x \in Keeping |-> IF x \in Wanted[e]
                                             THEN Owed[x] \cup {e} ELSE Owed[x]]
                /\ acked' \in {acked, acked \cup {e}}
                /\ UNCHANGED <<Kept, Stored>>
           /\ Promise!Keep(s, B) <=>
                /\ B \subseteq Owed[s]
                /\ Kept' = [Kept EXCEPT ![s] = @ \cup B]
                /\ \E C \in SUBSET B : Owed' = [Owed EXCEPT ![s] = @ \ C]
                /\ UNCHANGED <<acked, Stored>>
           /\ Promise!Store(s, B) <=>
                /\ B \subseteq Owed[s] \cup Kept[s]
                /\ Stored' = [Stored EXCEPT ![s] = @ \cup B]
                /\ \E C \in SUBSET B : Owed' = [Owed EXCEPT ![s] = @ \ C]
                /\ \E C \in SUBSET B : Kept' = [Kept EXCEPT ![s] = @ \ C]
                /\ UNCHANGED acked
           /\ Promise!Crash <=>
                /\ Owed' = [x \in Keeping |-> {}]
                /\ UNCHANGED <<acked, Kept, Stored>>
BY DEF Promise!vars, Promise!Accept, Promise!Keep, Promise!Store, Promise!Crash,
       Owed, Kept, Stored, Volatile, OnDisk

\* The tables hold events, sink by sink, before and after a step.
LEMMA Tables ==
    /\ Owed = [x \in Keeping |-> Owed[x]] /\ Owed' = [x \in Keeping |-> Owed'[x]]
    /\ Kept = [x \in Keeping |-> Kept[x]] /\ Kept' = [x \in Keeping |-> Kept'[x]]
    /\ Stored = [x \in Keeping |-> Stored[x]]
    /\ Stored' = [x \in Keeping |-> Stored'[x]]
BY DEF Owed, Kept, Stored

LEMMA TableEntries ==
    ASSUME NEW s \in Keeping
    PROVE  /\ Owed[s] = EventsOf(Volatile(s)) /\ Owed'[s] = EventsOf(Volatile(s)')
           /\ Kept[s] = EventsOf(OnDisk(s)) /\ Kept'[s] = EventsOf(OnDisk(s)')
           /\ Stored[s] = delivered[s] /\ Stored'[s] = delivered'[s]
BY DEF Owed, Kept, Stored, EventsOf

\* Steps of Custody, said sink by sink.
LEMMA StutterMaps ==
    ASSUME acked' = acked,
           \A x \in Keeping : /\ Volatile(x)' = Volatile(x)
                              /\ OnDisk(x)' = OnDisk(x)
                              /\ delivered'[x] = delivered[x]
    PROVE  UNCHANGED Promise!vars
<1>1. \A x \in Keeping : /\ Owed'[x] = Owed[x] /\ Kept'[x] = Kept[x]
                         /\ Stored'[x] = Stored[x]
  BY TableEntries
<1>2. Owed' = Owed /\ Kept' = Kept /\ Stored' = Stored
  BY <1>1, Tables
<1> QED
  BY <1>2, MappedSpec

LEMMA StoreMaps ==
    ASSUME NEW s \in Keeping, NEW B \in SUBSET Events,
           B \subseteq Owed[s] \cup Kept[s],
           acked' = acked,
           Stored'[s] = Stored[s] \cup B,
           Owed'[s] \subseteq Owed[s], Owed[s] \ B \subseteq Owed'[s],
           Kept'[s] \subseteq Kept[s], Kept[s] \ B \subseteq Kept'[s],
           \A x \in Keeping \ {s} : /\ Owed'[x] = Owed[x] /\ Kept'[x] = Kept[x]
                                    /\ Stored'[x] = Stored[x]
    PROVE  Promise!Next
<1>1. Stored' = [Stored EXCEPT ![s] = @ \cup B]
  BY Tables
<1>2. PICK C \in SUBSET B : Owed'[s] = Owed[s] \ C
  <2>1. Owed'[s] = Owed[s] \ (Owed[s] \ Owed'[s]) /\ Owed[s] \ Owed'[s] \in SUBSET B
    OBVIOUS
  <2> QED
    BY <2>1
<1>3. PICK D \in SUBSET B : Kept'[s] = Kept[s] \ D
  <2>1. Kept'[s] = Kept[s] \ (Kept[s] \ Kept'[s]) /\ Kept[s] \ Kept'[s] \in SUBSET B
    OBVIOUS
  <2> QED
    BY <2>1
<1>4. Owed' = [Owed EXCEPT ![s] = @ \ C]
  BY <1>2, Tables
<1>5. Kept' = [Kept EXCEPT ![s] = @ \ D]
  BY <1>3, Tables
<1>6. Promise!Store(s, B)
  BY <1>1, <1>4, <1>5, MappedSpec
<1> QED
  BY <1>6 DEF Promise!Next

LEMMA KeepMaps ==
    ASSUME NEW s \in Keeping, NEW B \in SUBSET Events, B \subseteq Owed[s],
           acked' = acked,
           Kept'[s] = Kept[s] \cup B,
           Owed'[s] \subseteq Owed[s], Owed[s] \ B \subseteq Owed'[s],
           \A x \in Keeping : Stored'[x] = Stored[x],
           \A x \in Keeping \ {s} : Owed'[x] = Owed[x] /\ Kept'[x] = Kept[x]
    PROVE  Promise!Next
<1>1. Kept' = [Kept EXCEPT ![s] = @ \cup B]
  BY Tables
<1>2. PICK C \in SUBSET B : Owed'[s] = Owed[s] \ C
  <2>1. Owed'[s] = Owed[s] \ (Owed[s] \ Owed'[s]) /\ Owed[s] \ Owed'[s] \in SUBSET B
    OBVIOUS
  <2> QED
    BY <2>1
<1>3. Owed' = [Owed EXCEPT ![s] = @ \ C]
  BY <1>2, Tables
<1>4. Stored' = Stored
  BY Tables
<1>5. Promise!Keep(s, B)
  BY <1>1, <1>3, <1>4, MappedSpec
<1> QED
  BY <1>5 DEF Promise!Next

LEMMA CrashMaps ==
    ASSUME acked' = acked,
           \A x \in Keeping : /\ Owed'[x] = {} /\ Kept'[x] = Kept[x]
                              /\ Stored'[x] = Stored[x]
    PROVE  Promise!Next
<1>1. Owed' = [x \in Keeping |-> {}] /\ Kept' = Kept /\ Stored' = Stored
  BY Tables
<1>2. Promise!Crash
  BY <1>1, MappedSpec
<1> QED
  BY <1>2 DEF Promise!Next

LEMMA AcceptMaps ==
    ASSUME NEW e \in Events, acked' \in {acked, acked \cup {e}},
           \A x \in Keeping :
              /\ Owed'[x] = IF x \in Wanted[e] THEN Owed[x] \cup {e} ELSE Owed[x]
              /\ Kept'[x] = Kept[x] /\ Stored'[x] = Stored[x]
    PROVE  Promise!Next
<1>1. Kept' = Kept /\ Stored' = Stored
  BY Tables
<1>2. Owed' = [x \in Keeping |-> IF x \in Wanted[e] THEN Owed[x] \cup {e}
                                                   ELSE Owed[x]]
  BY Tables
<1>3. Promise!Accept(e)
  BY <1>1, <1>2, MappedSpec
<1> QED
  BY <1>3 DEF Promise!Next

-----------------------------------------------------------------------------
(* Which step of Custody each step of Delivery is. *)

LEMMA InitPromise == Init => Promise!Init
<1> SUFFICES ASSUME Init PROVE Promise!Init
  OBVIOUS
<1>1. \A s \in Keeping : Volatile(s) = {} /\ OnDisk(s) = {}
  BY DEF Init, Volatile, OnDisk, OnItsWay, Keeping
<1>2. Owed = [s \in Keeping |-> {}] /\ Kept = [s \in Keeping |-> {}]
  BY <1>1 DEF Owed, Kept, EventsOf
<1>3. Stored = [s \in Keeping |-> {}]
  BY DEF Init, Stored, Keeping
<1> QED
  BY <1>2, <1>3 DEF Init, Promise!Init, Owed, Kept, Stored, Volatile, OnDisk

\* When the stages of the sinks that keep things stay as they are.
LEMMA StillMaps ==
    ASSUME UNCHANGED <<acked, queue, fanOut, memory, disk, unflushed, batch>>,
           \A x \in Keeping : delivered'[x] = delivered[x]
    PROVE  UNCHANGED Promise!vars
<1>1. \A x \in Keeping : Volatile(x)' = Volatile(x) /\ OnDisk(x)' = OnDisk(x)
  BY DEF Volatile, OnDisk, OnItsWay, Safe, fanOut
<1> QED
  BY <1>1, StutterMaps

LEMMA SendMaps ==
    ASSUME IInv, NEW e \in Events, Send(e)
    PROVE  Promise!Next
<1>1. PICK n \in 1..MaxCopies :
        Free(<<e, n>>) /\ queue' = queue \cup {<<e, n>>}
  BY DEF Send
<1>2. acked' \in {acked, acked \cup {e}}
  BY DEF Send
<1>3. UNCHANGED <<current, todo, memory, disk, unflushed, batch, delivered>>
  BY DEF Send, fanOut, buffers, sending, outcome
<1>4. <<e, n>> \in Requests /\ <<e, n>>[1] = e
  BY DEF Requests
<1>5. ASSUME NEW x \in Keeping
      PROVE  /\ Owed'[x] = IF x \in Wanted[e] THEN Owed[x] \cup {e} ELSE Owed[x]
             /\ Kept'[x] = Kept[x] /\ Stored'[x] = Stored[x]
  <2>1. OnDisk(x)' = OnDisk(x) /\ <<e, n>> \notin OnDisk(x)
    BY <1>1, <1>3 DEF OnDisk, Free, Keeping
  <2>2. Volatile(x)' = IF x \in Wanted[e] THEN Volatile(x) \cup {<<e, n>>}
                                          ELSE Volatile(x)
    BY <1>1, <1>3, <1>4, <2>1 DEF Volatile, OnItsWay, Safe, OnDisk
  <2>3. EventsOf(Volatile(x) \cup {<<e, n>>}) = EventsOf(Volatile(x)) \cup {e}
    BY <1>4 DEF EventsOf
  <2> QED
    BY <1>3, <2>1, <2>2, <2>3, TableEntries
<1> QED
  BY <1>2, <1>5, AcceptMaps

LEMMA FanOutMaps ==
    ASSUME IInv, NEW r \in Requests, StartFanOut(r)
    PROVE  UNCHANGED Promise!vars
<1>1. /\ r \in queue /\ current = {} /\ queue' = queue \ {r}
      /\ todo' = Wanted[r[1]]
      /\ current' = IF todo' = {} THEN {} ELSE {r}
      /\ UNCHANGED <<acked, memory, disk, unflushed, batch, delivered>>
  BY DEF StartFanOut, buffers, sending, outcome
<1>2. \A x \in Keeping, q \in Requests : /\ OnItsWay(q, x)' <=> OnItsWay(q, x)
                                         /\ Safe(q, x)' <=> Safe(q, x)
  BY <1>1 DEF OnItsWay, Safe
<1>3. \A x \in Keeping : Volatile(x)' = Volatile(x) /\ OnDisk(x)' = OnDisk(x)
  BY <1>1, <1>2 DEF Volatile, OnDisk
<1> QED
  BY <1>1, <1>3, StutterMaps

LEMMA HandOverMaps ==
    ASSUME IInv, HandOver
    PROVE  UNCHANGED Promise!vars
<1>1. /\ UNCHANGED <<acked, queue, batch, delivered>>
      /\ todo' = todo \ (Buffered \cup Overflowing \cup Dropping)
      /\ todo' # {} => current' = current
      /\ current' \subseteq current
      /\ \A x \in Sinks :
           /\ memory'[x] = IF x \in Buffered THEN memory[x] \cup current ELSE memory[x]
           /\ disk'[x] = IF x \in Overflowing THEN disk[x] \cup current ELSE disk[x]
           /\ unflushed'[x] = IF x \in Overflowing THEN unflushed[x] \cup current
                                                   ELSE unflushed[x]
  BY DEF HandOver, sending
<1>2. ASSUME NEW x \in Keeping, NEW q \in Requests
      PROVE  /\ OnItsWay(q, x)' <=> OnItsWay(q, x)
             /\ Safe(q, x)' <=> Safe(q, x)
  <2>1. x \in Sinks /\ x \notin Dropping
    BY DEF Keeping, Dropping
  <2>2. OnItsWay(q, x)' <=> OnItsWay(q, x)
    BY <1>1, <2>1 DEF OnItsWay, Buffered, Overflowing
  <2>3. x \in Overflowing /\ q \in current => q \notin disk[x]
    BY <2>1 DEF IInv, Apart, Overflowing
  <2>4. Safe(q, x)' <=> Safe(q, x)
    BY <1>1, <2>1, <2>3 DEF Safe
  <2> QED
    BY <2>2, <2>4
<1>3. \A x \in Keeping : OnDisk(x) \subseteq Requests /\ OnDisk(x)' \subseteq Requests
  BY NextTyped DEF IInv, TypeOK, OnDisk, Keeping, Next
<1>4. \A x \in Keeping : Volatile(x)' = Volatile(x) /\ OnDisk(x)' = OnDisk(x)
  BY <1>2, <1>3 DEF Volatile, OnDisk, Safe
<1> QED
  BY <1>1, <1>4, StutterMaps

\* A step of a sink that may lose things changes nothing for the others.
LEMMA OtherSink ==
    ASSUME NEW s \in Sinks, s \notin Keeping,
           UNCHANGED <<acked, queue, fanOut>>,
           \A x \in Sinks \ {s} :
              /\ memory'[x] = memory[x] /\ disk'[x] = disk[x]
              /\ unflushed'[x] = unflushed[x] /\ batch'[x] = batch[x]
              /\ delivered'[x] = delivered[x]
    PROVE  UNCHANGED Promise!vars
<1>1. \A x \in Keeping : x \in Sinks \ {s}
  BY DEF Keeping
<1>2. \A x \in Keeping : Volatile(x)' = Volatile(x) /\ OnDisk(x)' = OnDisk(x)
  BY <1>1 DEF Volatile, OnDisk, OnItsWay, Safe, fanOut
<1> QED
  BY <1>1, <1>2, StutterMaps

LEMMA FlushMaps ==
    ASSUME IInv, NEW s \in Sinks, Flush(s)
    PROVE  [Promise!Next]_(Promise!vars)
<1>1. /\ UNCHANGED <<acked, queue, fanOut, memory, disk, batch, delivered>>
      /\ unflushed'[s] = {}
      /\ \A x \in Sinks \ {s} : unflushed'[x] = unflushed[x]
  BY DEF Flush, sending, outcome, IInv, TypeOK
<1>2. CASE s \notin Keeping
  <2>1. UNCHANGED Promise!vars
    BY <1>1, <1>2, OtherSink
  <2> QED
    BY <2>1
<1>3. CASE s \in Keeping
  <2> DEFINE W == unflushed[s] \cap disk[s]
  <2>1. /\ W \subseteq Requests /\ W \subseteq Volatile(s)
        /\ Volatile(s)' \subseteq Volatile(s)
        /\ Volatile(s) \ W \subseteq Volatile(s)'
        /\ OnDisk(s)' = OnDisk(s) \cup W
    BY <1>1 DEF Volatile, OnDisk, OnItsWay, Safe, fanOut, IInv, TypeOK
  <2>2. /\ EventsOf(W) \in SUBSET Events
        /\ EventsOf(W) \subseteq Owed[s]
        /\ Owed'[s] \subseteq Owed[s] /\ Owed[s] \ EventsOf(W) \subseteq Owed'[s]
        /\ Kept'[s] = Kept[s] \cup EventsOf(W)
    BY <1>3, <2>1, TableEntries, RequestEvents DEF EventsOf
  <2>3. ASSUME NEW x \in Keeping \ {s} PROVE Owed'[x] = Owed[x] /\ Kept'[x] = Kept[x]
    <3>1. Volatile(x)' = Volatile(x) /\ OnDisk(x)' = OnDisk(x)
      BY <1>1 DEF Volatile, OnDisk, OnItsWay, Safe, fanOut, Keeping
    <3> QED
      BY <3>1, TableEntries
  <2>4. \A x \in Keeping : Stored'[x] = Stored[x]
    BY <1>1, TableEntries
  <2>5. Promise!Next
    BY <1>1, <1>3, <2>2, <2>3, <2>4, KeepMaps
  <2> QED
    BY <2>5
<1> QED
  BY <1>2, <1>3

\* What arrives at a sink was owed to it or on its disk.
LEMMA Held ==
    ASSUME IInv, NEW s \in Keeping, NEW B \in Batches(s)
    PROVE  EventsOf(B) \in SUBSET Events /\ EventsOf(B) \subseteq Owed[s] \cup Kept[s]
<1>1. /\ B \subseteq Requests /\ B \subseteq memory[s] \cup disk[s] \cup batch[s]
      /\ s \in Sinks
  BY BatchOf DEF IInv, Keeping
<1>2. B \subseteq Volatile(s) \cup OnDisk(s)
  BY <1>1 DEF Volatile, OnDisk, OnItsWay, Safe
<1> QED
  BY <1>1, <1>2, TableEntries, RequestEvents DEF EventsOf

\* The destination has the batch: it is forgotten, or tried again.
LEMMA ArriveMaps ==
    ASSUME IInv, NEW s \in Keeping, NEW B \in Batches(s), Arrive(s, B),
           UNCHANGED <<acked, queue, fanOut>>,
           \A x \in Sinks \ {s} :
              /\ memory'[x] = memory[x] /\ disk'[x] = disk[x]
              /\ unflushed'[x] = unflushed[x] /\ batch'[x] = batch[x],
           Volatile(s)' \subseteq Volatile(s), Volatile(s) \ B \subseteq Volatile(s)',
           OnDisk(s)' \subseteq OnDisk(s), OnDisk(s) \ B \subseteq OnDisk(s)'
    PROVE  Promise!Next
<1>1. EventsOf(B) \in SUBSET Events /\ EventsOf(B) \subseteq Owed[s] \cup Kept[s]
  BY Held
<1>2. /\ Owed'[s] \subseteq Owed[s] /\ Owed[s] \ EventsOf(B) \subseteq Owed'[s]
      /\ Kept'[s] \subseteq Kept[s] /\ Kept[s] \ EventsOf(B) \subseteq Kept'[s]
  BY TableEntries DEF EventsOf
<1>3. /\ delivered'[s] = delivered[s] \cup EventsOf(B)
      /\ \A x \in Sinks \ {s} : delivered'[x] = delivered[x]
  BY DEF Arrive, IInv, TypeOK, Keeping
<1>4. Stored'[s] = Stored[s] \cup EventsOf(B)
  BY <1>3, TableEntries
<1>5. ASSUME NEW x \in Keeping \ {s}
      PROVE  Owed'[x] = Owed[x] /\ Kept'[x] = Kept[x] /\ Stored'[x] = Stored[x]
  <2>1. x \in Sinks \ {s}
    BY DEF Keeping
  <2>2. Volatile(x)' = Volatile(x) /\ OnDisk(x)' = OnDisk(x)
    BY <2>1 DEF Volatile, OnDisk, OnItsWay, Safe, fanOut
  <2> QED
    BY <1>3, <2>1, <2>2, TableEntries
<1> QED
  BY <1>1, <1>2, <1>4, <1>5, StoreMaps

\* What a retry and the end of a batch do to what a sink holds.
LEMMA RetryHolds ==
    ASSUME IInv, NEW s \in Sinks, NEW B \in Batches(s), Retry(s, B)
    PROVE  /\ UNCHANGED <<acked, queue, fanOut, disk, unflushed>>
           /\ Volatile(s)' = Volatile(s) /\ OnDisk(s)' = OnDisk(s)
           /\ \A x \in Sinks \ {s} : memory'[x] = memory[x] /\ batch'[x] = batch[x]
<1>1. /\ B \subseteq memory[s] \cup disk[s] \cup batch[s] /\ batch[s] \subseteq B
  BY BatchOf DEF IInv
<1>2. /\ UNCHANGED <<acked, queue, fanOut, disk, unflushed>>
      /\ memory'[s] = memory[s] \ B /\ batch'[s] = B
      /\ \A x \in Sinks \ {s} : memory'[x] = memory[x] /\ batch'[x] = batch[x]
  BY DEF Retry, IInv, TypeOK
<1>3. \A q \in Requests : OnItsWay(q, s)' <=> OnItsWay(q, s)
  BY <1>1, <1>2 DEF OnItsWay, fanOut
<1> QED
  BY <1>2, <1>3 DEF Volatile, OnDisk, Safe

LEMMA EndBatchHolds ==
    ASSUME IInv, NEW s \in Sinks, NEW B \in Batches(s), EndBatch(s, B)
    PROVE  /\ UNCHANGED <<acked, queue, fanOut>>
           /\ Volatile(s)' \subseteq Volatile(s)
           /\ Volatile(s) \ B \subseteq Volatile(s)'
           /\ OnDisk(s)' \subseteq OnDisk(s) /\ OnDisk(s) \ B \subseteq OnDisk(s)'
           /\ \A x \in Sinks \ {s} :
                /\ memory'[x] = memory[x] /\ disk'[x] = disk[x]
                /\ unflushed'[x] = unflushed[x] /\ batch'[x] = batch[x]
<1>1. batch[s] \subseteq B
  BY BatchOf DEF IInv
<1>2. /\ UNCHANGED <<acked, queue, fanOut>>
      /\ memory'[s] = memory[s] \ B /\ disk'[s] = disk[s] \ B
      /\ unflushed'[s] = unflushed[s] \ B /\ batch'[s] = {}
      /\ \A x \in Sinks \ {s} :
                /\ memory'[x] = memory[x] /\ disk'[x] = disk[x]
                /\ unflushed'[x] = unflushed[x] /\ batch'[x] = batch[x]
  BY DEF EndBatch, IInv, TypeOK
<1>3. OnDisk(s)' \subseteq OnDisk(s) /\ OnDisk(s) \ B \subseteq OnDisk(s)'
  BY <1>2 DEF OnDisk
<1>4. ASSUME NEW q \in Requests, q \in B PROVE ~OnItsWay(q, s)'
  <2>1. q \in memory[s] \cup disk[s] \cup batch[s]
    BY <1>4, BatchOf DEF IInv
  <2> QED
    BY <1>1, <1>2, <1>4, <2>1 DEF OnItsWay, fanOut, IInv, Apart
<1>5. ASSUME NEW q \in Requests, q \notin B
      PROVE  (OnItsWay(q, s)' <=> OnItsWay(q, s)) /\ (Safe(q, s)' <=> Safe(q, s))
  BY <1>1, <1>2, <1>5 DEF OnItsWay, Safe, fanOut
<1>6. /\ Volatile(s)' \subseteq Volatile(s)
      /\ Volatile(s) \ B \subseteq Volatile(s)'
  BY <1>4, <1>5 DEF Volatile
<1> QED
  BY <1>2, <1>3, <1>6

LEMMA TryMaps ==
    ASSUME IInv, NEW s \in Sinks, Deliver(s) \/ FailedTry(s) \/ LostAnswer(s)
    PROVE  [Promise!Next]_(Promise!vars)
<1>1. PICK B \in Batches(s) :
        \/ Arrive(s, B) /\ EndBatch(s, B)
        \/ (Arrive(s, B) \/ delivered' = delivered) /\ (Retry(s, B) \/ GiveUp(s, B))
  BY DEF Deliver, FailedTry, LostAnswer
<1>2. Retry(s, B) \/ EndBatch(s, B)
  BY <1>1 DEF GiveUp
<1>3. CASE s \notin Keeping
  <2>1. \A x \in Sinks \ {s} : delivered'[x] = delivered[x]
    BY <1>1 DEF Arrive, IInv, TypeOK
  <2>2. UNCHANGED Promise!vars
    BY <1>2, <1>3, <2>1, RetryHolds, EndBatchHolds, OtherSink
  <2> QED
    BY <2>2
<1>4. CASE s \in Keeping
  <2>1. ~GiveUp(s, B)
    BY <1>4 DEF Keeping, GiveUp
  <2>2. CASE Arrive(s, B)
    <3>1. /\ UNCHANGED <<acked, queue, fanOut>>
          /\ \A x \in Sinks \ {s} :
                /\ memory'[x] = memory[x] /\ disk'[x] = disk[x]
                /\ unflushed'[x] = unflushed[x] /\ batch'[x] = batch[x]
          /\ Volatile(s)' \subseteq Volatile(s)
          /\ Volatile(s) \ B \subseteq Volatile(s)'
          /\ OnDisk(s)' \subseteq OnDisk(s) /\ OnDisk(s) \ B \subseteq OnDisk(s)'
      BY <1>2, RetryHolds, EndBatchHolds
    <3>2. Promise!Next
      BY <1>4, <2>2, <3>1, ArriveMaps
    <3> QED
      BY <3>2
  <2>3. CASE ~Arrive(s, B)
    <3>1. Retry(s, B) /\ delivered' = delivered
      BY <1>1, <2>1, <2>3
    <3>2. ASSUME NEW x \in Keeping
          PROVE  Volatile(x)' = Volatile(x) /\ OnDisk(x)' = OnDisk(x)
      <4>1. CASE x = s
        BY <3>1, <4>1, RetryHolds
      <4>2. CASE x # s
        <5>1. /\ UNCHANGED <<queue, fanOut, disk, unflushed>>
              /\ memory'[x] = memory[x] /\ batch'[x] = batch[x]
          BY <3>1, <4>2, RetryHolds DEF Keeping
        <5> QED
          BY <5>1 DEF Volatile, OnDisk, OnItsWay, Safe, fanOut
      <4> QED
        BY <4>1, <4>2
    <3>3. UNCHANGED Promise!vars
      BY <3>1, <3>2, RetryHolds, StutterMaps
    <3> QED
      BY <3>3
  <2> QED
    BY <2>2, <2>3
<1> QED
  BY <1>3, <1>4

LEMMA CrashStepMaps ==
    ASSUME IInv, Crash
    PROVE  Promise!Next
<1>1. /\ queue' = {} /\ current' = {} /\ UNCHANGED <<acked, delivered>>
      /\ \A x \in Sinks : /\ memory'[x] = {} /\ batch'[x] = {}
                          /\ disk'[x] = disk[x] \ unflushed[x]
                          /\ unflushed'[x] = {}
  BY DEF Crash, outcome
<1>2. ASSUME NEW x \in Keeping
      PROVE  Owed'[x] = {} /\ Kept'[x] = Kept[x] /\ Stored'[x] = Stored[x]
  <2>1. x \in Sinks
    BY DEF Keeping
  <2>2. Volatile(x)' = {} /\ OnDisk(x)' = OnDisk(x)
    BY <1>1, <2>1 DEF Volatile, OnDisk, OnItsWay, Safe
  <2>3. EventsOf({}) = {}
    BY DEF EventsOf
  <2> QED
    BY <1>1, <2>2, <2>3, TableEntries
<1> QED
  BY <1>1, <1>2, CrashMaps

LEMMA NextPromise == IInv /\ [Next]_vars => [Promise!Next]_(Promise!vars)
<1> SUFFICES ASSUME IInv, [Next]_vars PROVE [Promise!Next]_(Promise!vars)
  OBVIOUS
<1>1. ASSUME NEW e \in Events, Send(e) PROVE Promise!Next
  BY <1>1, SendMaps
<1>2. ASSUME NEW r \in Requests, StartFanOut(r) PROVE UNCHANGED Promise!vars
  BY <1>2, FanOutMaps
<1>3. ASSUME HandOver PROVE UNCHANGED Promise!vars
  BY <1>3, HandOverMaps
<1>4. ASSUME NEW s \in Sinks, GoDown(s) \/ ComeBack(s)
      PROVE  UNCHANGED Promise!vars
  BY <1>4, StillMaps DEF GoDown, ComeBack, buffers, sending, outcome
<1>5. ASSUME UNCHANGED vars PROVE UNCHANGED Promise!vars
  BY <1>5, StillMaps DEF vars, buffers, sending, outcome
<1>6. ASSUME Crash PROVE Promise!Next
  BY <1>6, CrashStepMaps
<1>7. ASSUME NEW s \in Sinks, SinkStep(s) PROVE [Promise!Next]_(Promise!vars)
  BY <1>4, <1>7, FlushMaps, TryMaps DEF SinkStep
<1> QED
  BY <1>1, <1>2, <1>3, <1>5, <1>6, <1>7 DEF Next

\* The pipeline implements the safety part of Custody for the sinks that block
\* when they are full and never give up: an event that is taken stays owed until
\* it is on disk or stored or a crash comes, and what is on disk stays there
\* until it is stored.
THEOREM Implements == Spec => Promise!Safety
<1> QED
  BY InitPromise, InitIInv, NextIInv, NextPromise, PTL DEF Spec, Promise!Safety
=============================================================================
