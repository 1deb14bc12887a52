------------------------------- MODULE Delivery -------------------------------
(***************************************************************************)
(* From the OTLP source to the destinations in nodes.js: a queue before    *)
(* the transforms, a fan-out that hands an event to the buffer of every    *)
(* sink that reads it, buffers with a memory and a disk stage, sinks that  *)
(* send batches and retry.                                                 *)
(*                                                                         *)
(* No configuration turns end-to-end acknowledgements on, so the source    *)
(* acknowledges what it has taken at once (jansen-call-deep-dive.md:341).  *)
(* The disk stages are flushed every 500 ms (:257): a crash loses what was *)
(* written since.                                                          *)
(*                                                                         *)
(* The configurations are from nodes.js, the engine that runs them is      *)
(* external, as are the clients, who send again what is not acknowledged,  *)
(* and the destinations, which come and go.                                *)
(***************************************************************************)
EXTENDS Naturals, FiniteSets

CONSTANTS
    Events,
    Sinks,
    Wanted,         \* Wanted[e]: the sinks that read e after the transforms
    MemoryMax,      \* capacity of each sink's memory stage; 0: has none
    DiskMax,        \* capacity of its disk stage
    WhenFull,       \* what happens when its last stage is full
    RetryMax,       \* failed tries before it gives a batch up; 0: never
    BatchMax,       \* batch.max_events
    Reliable,       \* the sinks whose destinations come back in the end
    QueueMax,       \* requests between the source and the fan-out
    MaxCopies,      \* bound: copies of an event in the pipeline
    MaxFaults       \* bound: crashes, lost answers and outages

ASSUME SinksAssumption ==
    /\ Wanted \in [Events -> SUBSET Sinks]
    /\ MemoryMax \in [Sinks -> Nat] /\ DiskMax \in [Sinks -> Nat]
    /\ WhenFull \in [Sinks -> {"block", "drop_newest"}]
    /\ RetryMax \in [Sinks -> Nat]
    /\ Reliable \subseteq Sinks

ASSUME BoundsAssumption ==
    BatchMax \in Nat /\ QueueMax \in Nat /\ MaxCopies \in Nat /\ MaxFaults \in Nat

VARIABLES
    acked,          \* events whose sender got an acknowledgement
    queue,          \* requests the source has taken
    current,        \* the request at the fan-out, if any
    todo,           \* sinks it has not been handed to
    memory, disk,   \* memory[s], disk[s]: the two stages of the buffer of s
    unflushed,      \* unflushed[s]: the part of disk[s] a crash would lose
    batch, tries,   \* batch[s]: what s is sending; how often that has failed
    up,             \* up[s]: does the destination of s answer?
    delivered,      \* delivered[s]: events the destination of s has
    dropped,        \* dropped[s]: events dropped because the buffer was full
    givenUp,        \* givenUp[s]: events given up after the last retry
    faults

fanOut == <<current, todo>>
buffers == <<memory, disk, unflushed>>
sending == <<batch, tries>>
outcome == <<delivered, dropped, givenUp>>
vars == <<acked, queue, fanOut, buffers, sending, up, outcome, faults>>

-----------------------------------------------------------------------------
\* A request: an event and the number of the copy.
Requests == Events \X (1..MaxCopies)

\* Mutant of EventsOf: the requests themselves.
EventsOf_Requests(B) == B

EventsOf(B) == {r[1] : r \in B}

\* The copy is nowhere in the pipeline.
Free(r) == /\ r \notin queue \cup current
           /\ \A s \in Sinks : r \notin memory[s] \cup disk[s] \cup batch[s]

Fault == faults < MaxFaults /\ faults' = faults + 1

-----------------------------------------------------------------------------
(* The source. *)

\* The source takes a request and answers at once; the answer may be lost.
\* When the queue is full the sender hears UNAVAILABLE and tries again.
Send(e) ==
    /\ e \notin acked
    /\ Cardinality(queue) < QueueMax
    /\ \E n \in 1..MaxCopies : Free(<<e, n>>) /\ queue' = queue \cup {<<e, n>>}
    /\ \/ acked' = acked \cup {e} /\ UNCHANGED faults
       \/ acked' = acked /\ Fault
    /\ UNCHANGED <<fanOut, buffers, sending, up, outcome>>

-----------------------------------------------------------------------------
(* The fan-out. *)

\* The next request comes out of the transforms; one that they abort goes
\* nowhere.
StartFanOut(r) ==
    /\ r \in queue /\ current = {}
    /\ queue' = queue \ {r}
    /\ todo' = Wanted[r[1]]
    /\ current' = IF todo' = {} THEN {} ELSE {r}
    /\ UNCHANGED <<acked, buffers, sending, up, outcome, faults>>

HasRoom(stage, limit, s) == Cardinality(stage[s]) < limit[s]

\* Into the memory stage while it has room.
Buffered == {s \in todo : HasRoom(memory, MemoryMax, s)}

\* Then, or if there is no memory stage, into the disk stage.
Overflowing == {s \in todo \ Buffered : HasRoom(disk, DiskMax, s)}

\* Mutant of Dropping: every sink drops when it is full.
Dropping_AnySink == todo \ (Buffered \cup Overflowing)

\* Both are full: with drop_newest the event is dropped; with block the fan-out
\* waits for this sink, and every sink with it.
Dropping == {s \in todo \ (Buffered \cup Overflowing) :
                WhenFull[s] = "drop_newest"}

\* All sinks that do not block take the request at once.
HandOver ==
    LET taken == Buffered \cup Overflowing \cup Dropping
    IN  /\ taken # {}
        /\ todo' = todo \ taken
        /\ current' = IF todo' = {} THEN {} ELSE current
        /\ memory' = [s \in Sinks |-> IF s \in Buffered
                                     THEN memory[s] \cup current ELSE memory[s]]
        /\ disk' = [s \in Sinks |-> IF s \in Overflowing
                                   THEN disk[s] \cup current ELSE disk[s]]
        /\ unflushed' = [s \in Sinks |-> IF s \in Overflowing
                                        THEN unflushed[s] \cup current
                                        ELSE unflushed[s]]
        /\ dropped' = [s \in Sinks |-> IF s \in Dropping
                                      THEN dropped[s] \cup EventsOf(current)
                                      ELSE dropped[s]]
        /\ UNCHANGED <<acked, queue, sending, up, delivered, givenUp, faults>>

\* What was written to the disk stage reaches the disk.
Flush(s) ==
    /\ unflushed[s] # {}
    /\ unflushed' = [unflushed EXCEPT ![s] = {}]
    /\ UNCHANGED <<acked, queue, fanOut, memory, disk, sending, up, outcome, faults>>

-----------------------------------------------------------------------------
(* The sinks. *)

\* Mutant of Batches: no timeout, so that a batch has to be full.
Batches_OnlyFull(s) ==
    LET buffered == memory[s] \cup disk[s]
    IN  IF batch[s] # {} THEN {batch[s]}
        ELSE {B \in SUBSET buffered : Cardinality(B) = BatchMax}

\* What s sends next: the batch that has failed before, or else a full one, or
\* all there is after batch.timeout_secs.
Batches(s) ==
    LET buffered == memory[s] \cup disk[s]
    IN  IF batch[s] # {} THEN {batch[s]}
        ELSE {B \in SUBSET buffered \ {{}} :
                \/ Cardinality(B) = BatchMax
                \/ B = buffered /\ Cardinality(B) < BatchMax}

Arrive(s, B) == delivered' = [delivered EXCEPT ![s] = @ \cup EventsOf(B)]

\* Sink s is done with the batch.
EndBatch(s, B) ==
    /\ batch' = [batch EXCEPT ![s] = {}]
    /\ tries' = [tries EXCEPT ![s] = 0]
    /\ memory' = [memory EXCEPT ![s] = @ \ B]
    /\ disk' = [disk EXCEPT ![s] = @ \ B]
    /\ unflushed' = [unflushed EXCEPT ![s] = @ \ B]
    /\ UNCHANGED <<acked, queue, fanOut, up, dropped>>

Deliver(s) ==
    /\ up[s]
    /\ \E B \in Batches(s) : Arrive(s, B) /\ EndBatch(s, B)
    /\ UNCHANGED <<givenUp, faults>>

\* Mutant of Retry: a failed batch is forgotten.
Retry_Forgets(s, B) ==
    /\ RetryMax[s] = 0 \/ tries[s] < RetryMax[s]
    /\ tries' = [tries EXCEPT ![s] = IF RetryMax[s] = 0 THEN 0 ELSE @ + 1]
    /\ memory' = [memory EXCEPT ![s] = @ \ B]
    /\ UNCHANGED <<acked, queue, fanOut, batch, disk, unflushed, up, dropped,
                   givenUp>>

\* The try has failed and there will be another one.  What was read from the
\* disk stage stays there until the destination has it.
Retry(s, B) ==
    /\ RetryMax[s] = 0 \/ tries[s] < RetryMax[s]
    /\ batch' = [batch EXCEPT ![s] = B]
    /\ tries' = [tries EXCEPT ![s] = IF RetryMax[s] = 0 THEN 0 ELSE @ + 1]
    /\ memory' = [memory EXCEPT ![s] = @ \ B]
    /\ UNCHANGED <<acked, queue, fanOut, disk, unflushed, up, dropped, givenUp>>

GiveUp(s, B) ==
    /\ RetryMax[s] # 0 /\ tries[s] >= RetryMax[s]
    /\ givenUp' = [givenUp EXCEPT ![s] = @ \cup EventsOf(B)]
    /\ EndBatch(s, B)

FailedTry(s) ==
    /\ ~up[s]
    /\ \E B \in Batches(s) : Retry(s, B) \/ GiveUp(s, B)
    /\ UNCHANGED <<delivered, faults>>

\* The destination has the batch and its answer is lost.
LostAnswer(s) ==
    /\ up[s]
    /\ \E B \in Batches(s) : Arrive(s, B) /\ (Retry(s, B) \/ GiveUp(s, B))
    /\ Fault

-----------------------------------------------------------------------------
(* Destinations and the process. *)

GoDown(s) ==
    /\ up[s] /\ Fault
    /\ up' = [up EXCEPT ![s] = FALSE]
    /\ UNCHANGED <<acked, queue, fanOut, buffers, sending, outcome>>

ComeBack(s) ==
    /\ ~up[s]
    /\ up' = [up EXCEPT ![s] = TRUE]
    /\ UNCHANGED <<acked, queue, fanOut, buffers, sending, outcome, faults>>

\* Mutant of Crash: the disk stages go with the process.
Crash_NoDisk ==
    /\ Fault
    /\ queue' = {} /\ current' = {} /\ todo' = {}
    /\ memory' = [s \in Sinks |-> {}]
    /\ disk' = [s \in Sinks |-> {}]
    /\ unflushed' = [s \in Sinks |-> {}]
    /\ batch' = [s \in Sinks |-> {}]
    /\ tries' = [s \in Sinks |-> 0]
    /\ UNCHANGED <<acked, up, outcome>>

\* Vector crashes and starts again: only what is on disk survives.  While it is
\* down senders are refused, and destinations come and go as they always may.
Crash ==
    /\ Fault
    /\ queue' = {} /\ current' = {} /\ todo' = {}
    /\ memory' = [s \in Sinks |-> {}]
    /\ disk' = [s \in Sinks |-> disk[s] \ unflushed[s]]
    /\ unflushed' = [s \in Sinks |-> {}]
    /\ batch' = [s \in Sinks |-> {}]
    /\ tries' = [s \in Sinks |-> 0]
    /\ UNCHANGED <<acked, up, outcome>>

-----------------------------------------------------------------------------
Init ==
    /\ acked = {}
    /\ queue = {} /\ current = {} /\ todo = {}
    /\ memory = [s \in Sinks |-> {}] /\ disk = [s \in Sinks |-> {}]
    /\ unflushed = [s \in Sinks |-> {}]
    /\ batch = [s \in Sinks |-> {}] /\ tries = [s \in Sinks |-> 0]
    /\ up \in {u \in [Sinks -> BOOLEAN] : \A s \in Reliable : u[s]}
    /\ delivered = [s \in Sinks |-> {}]
    /\ dropped = [s \in Sinks |-> {}] /\ givenUp = [s \in Sinks |-> {}]
    /\ faults = 0

SinkStep(s) == \/ Flush(s) \/ Deliver(s) \/ FailedTry(s)
               \/ LostAnswer(s) \/ GoDown(s) \/ ComeBack(s)

Next == \/ \E e \in Events : Send(e)
        \/ \E r \in Requests : StartFanOut(r)
        \/ \E s \in Sinks : SinkStep(s)
        \/ HandOver \/ Crash

Spec == Init /\ [][Next]_vars

\* The process keeps running and the reliable destinations come back; of the
\* clients nothing is asked.
Fairness ==
    /\ WF_vars(\E r \in Requests : StartFanOut(r)) /\ WF_vars(HandOver)
    /\ \A s \in Sinks : WF_vars(Deliver(s)) /\ WF_vars(FailedTry(s))
    /\ \A s \in Reliable : WF_vars(ComeBack(s))

FairSpec == Spec /\ Fairness
-----------------------------------------------------------------------------
(* Properties. *)

TypeOK ==
    /\ acked \subseteq Events
    /\ queue \subseteq Requests /\ current \subseteq Requests
    /\ todo \subseteq Sinks
    /\ memory \in [Sinks -> SUBSET Requests] /\ disk \in [Sinks -> SUBSET Requests]
    /\ unflushed \in [Sinks -> SUBSET Requests]
    /\ batch \in [Sinks -> SUBSET Requests] /\ tries \in [Sinks -> Nat]
    /\ up \in [Sinks -> BOOLEAN]
    /\ delivered \in [Sinks -> SUBSET Events]
    /\ dropped \in [Sinks -> SUBSET Events]
    /\ givenUp \in [Sinks -> SUBSET Events]
    /\ faults \in 0..MaxFaults

\* Somewhere on its way to s.
OnItsWay(r, s) ==
    \/ r \in queue /\ s \in Wanted[r[1]]
    \/ r \in current /\ s \in todo
    \/ r \in memory[s] \cup disk[s] \cup batch[s]

\* Where a crash does not reach it.
Safe(r, s) == r \in disk[s] \ unflushed[s]

\* What became of it in the end.
Accounted(e, s) ==
    \/ e \in delivered[s]
    \/ WhenFull[s] = "drop_newest" /\ e \in dropped[s]
    \/ RetryMax[s] # 0 /\ e \in givenUp[s]

\* What the source has taken stays on its way to every sink that is to get it
\* until it is delivered, dropped at a full drop_newest buffer or given up after
\* the last retry; and only a crash loses anything else, and nothing that has
\* reached a disk ("durable write-ahead log, survives restarts", nodes.js:700).
NothingVanishes ==
    [][\A r \in Requests, s \in Sinks : OnItsWay(r, s) =>
          \/ OnItsWay(r, s)'
          \/ Accounted(r[1], s)'
          \/ Crash /\ ~Safe(r, s)]_vars

\* Sinks that block when their buffer is full and never give a batch up.
Keeping == {s \in Sinks : WhenFull[s] = "block" /\ RetryMax[s] = 0}

\* What is owed to the sinks that keep everything, with the SIEMs down for ever:
\* an event that is taken is archived in the end, unless a crash comes before it
\* is on disk; once on disk it is archived whatever happens ("a slow SIEM
\* doesn't block the S3 archive", nodes.js:711; "compliance data must not be
\* lost", :973).
Promise == INSTANCE Custody WITH
    Stores <- Keeping,
    owed <- [s \in Keeping |->
        EventsOf({r \in Requests : OnItsWay(r, s) /\ ~Safe(r, s)})],
    kept <- [s \in Keeping |-> EventsOf(disk[s] \ unflushed[s])],
    stored <- [s \in Keeping |-> delivered[s]]

KeepsItsPromise == Promise!Spec
=============================================================================
