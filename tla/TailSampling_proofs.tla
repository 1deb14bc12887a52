------------------------- MODULE TailSampling_proofs -------------------------
(***************************************************************************)
(* Theorems of TailSampling.  They rest on Treated: every span is where    *)
(* the verdict on its trace has put it; and on Justified: a reason that    *)
(* the policies have once found does not go away when more spans come.     *)
(***************************************************************************)
EXTENDS TailSampling, FiniteSetTheorems, TLAPS

VerdictOn(s) == verdict[NodeOf[s]][TraceOf[s]]

\* A span is held only while its trace has no verdict, and a collector that has
\* not crashed treats it by the verdict.
Treated(s) ==
    /\ place[s] = "sampling" => VerdictOn(s) = "none"
    /\ NodeOf[s] \notin crashed =>
          /\ Kept(s) => VerdictOn(s) = "keep"
          /\ place[s] = "discarded" => VerdictOn(s) = "drop"

Justified ==
    /\ \A s \in Spans : Kept(s) \/ s \in received =>
          Policy(Accepted(NodeOf[s], TraceOf[s]))
    /\ \A n \in Nodes, t \in Traces : verdict[n][t] = "keep" =>
          Policy(Accepted(n, t))

\* Finite sets, for their cardinalities.
Bounded == \A n \in Nodes : IsFiniteSet(Used(n)) /\ Cardinality(Used(n)) <= MemoryLimit

-----------------------------------------------------------------------------
(* Items and where they go. *)

LEMMA SpanPlace ==
    ASSUME NEW s \in Spans
    PROVE  s \in Items /\ NodeOf[s] \in Nodes /\ TraceOf[s] \in Traces
BY ItemsAssumption DEF Items

LEMMA Moved ==
    ASSUME NEW S, NEW p, Move(S, p), NEW i \in Items
    PROVE  place'[i] = IF i \in S THEN p ELSE place[i]
BY DEF Move

LEMMA MoveTyped ==
    ASSUME place \in [Items -> Places], NEW S, NEW p \in Places, Move(S, p)
    PROVE  place' \in [Items -> Places]
BY DEF Move

LEMMA PlaceForTyped ==
    ASSUME TypeOK, NEW s \in Spans
    PROVE  PlaceFor(s) = IF VerdictOn(s) = "none" THEN "sampling"
                         ELSE IF VerdictOn(s) = "keep" THEN "queued"
                         ELSE "discarded"
<1>1. VerdictOn(s) \in {"none", "keep", "drop"}
  BY SpanPlace DEF TypeOK, VerdictOn
<1> QED
  BY <1>1 DEF PlaceFor, VerdictOn

\* What the collector accepts, it holds or discards.
LEMMA AcceptedPlace ==
    ASSUME TypeOK, NEW i \in Items
    PROVE  (IF i \in Spans THEN PlaceFor(i) ELSE "queued")
                \in {"sampling", "queued", "discarded"}
BY PlaceForTyped

LEMMA Parts ==
    /\ {"open", "unsampled", "app", "refused"} \subseteq Places
    /\ Inside \subseteq Places /\ Ended \subseteq Places
    /\ Inside = {"sampling", "queued", "sending"}
    /\ Ended = {"discarded", "exported", "abandoned", "lost"}
BY DEF Places, Inside, Ended

-----------------------------------------------------------------------------
(* The type invariant. *)

LEMMA InitTyped == Init => TypeOK
BY SettingsAssumption, Parts DEF Init, TypeOK

LEMMA OlderTyped ==
    ASSUME NEW limit \in Nat, NEW x \in 0..limit
    PROVE  Older(x, limit) \in 0..limit
BY DEF Older

LEMMA NextTyped == TypeOK /\ [Next]_vars => TypeOK'
<1> SUFFICES ASSUME TypeOK, [Next]_vars PROVE TypeOK'
  OBVIOUS
<1>0. ASSUME NEW S, NEW p \in Places, Move(S, p) PROVE place' \in [Items -> Places]
  BY <1>0, MoveTyped DEF TypeOK
<1>1. ASSUME NEW s \in Spans, EndSpan(s) PROVE TypeOK'
  BY <1>0, <1>1, Parts DEF EndSpan, TypeOK
<1>2. ASSUME NEW r \in Records, EmitRecord(r) PROVE TypeOK'
  BY <1>0, <1>2, Parts DEF EmitRecord, TypeOK
<1>3. ASSUME NEW i \in Items, Accept(i) PROVE TypeOK'
  BY <1>0, <1>3, Parts, AcceptedPlace DEF Accept, TypeOK
<1>4. ASSUME NEW i \in Items, DropRefused(i) PROVE TypeOK'
  BY <1>0, <1>4, Parts DEF DropRefused, TypeOK
<1>5. ASSUME NEW n \in Nodes, NEW t \in Traces, Decide(n, t) PROVE TypeOK'
  <2>1. place' \in [Items -> Places]
    BY <1>0, <1>5, Parts DEF Decide
  <2>2. age' \in [Nodes -> [Traces -> 0..DecisionWait]]
    BY <1>5, SettingsAssumption DEF Decide, TypeOK
  <2> QED
    BY <1>5, <2>1, <2>2 DEF Decide, TypeOK
<1>6. ASSUME NEW n \in Nodes, TakeBatch(n) PROVE TypeOK'
  <2>1. place' \in [Items -> Places]
    BY <1>0, <1>6, Parts DEF TakeBatch
  <2>2. elapsed' \in [Nodes -> 0..MaxElapsed]
    BY <1>6, SettingsAssumption DEF TakeBatch, TypeOK
  <2> QED
    BY <1>6, <2>1, <2>2 DEF TakeBatch, TypeOK
<1>7. ASSUME NEW n \in Nodes, Export(n) \/ LostAnswer(n) \/ GiveUp(n) PROVE TypeOK'
  <2>1. place' \in [Items -> Places]
    BY <1>0, <1>7, Parts DEF Export, LostAnswer, GiveUp, TypeOK
  <2>2. received' \subseteq Items
    BY <1>7 DEF Export, LostAnswer, GiveUp, TypeOK, At
  <2> QED
    BY <1>7, <2>1, <2>2 DEF Export, LostAnswer, GiveUp, TypeOK
<1>8. ASSUME NEW n \in Nodes, Crash(n) PROVE TypeOK'
  <2>1. place' \in [Items -> Places]
    BY <1>0, <1>8, Parts DEF Crash
  <2>2. /\ verdict' \in [Nodes -> [Traces -> {"none", "keep", "drop"}]]
        /\ age' \in [Nodes -> [Traces -> 0..DecisionWait]]
    BY <1>8, SettingsAssumption DEF Crash, TypeOK
  <2> QED
    BY <1>8, <2>1, <2>2 DEF Crash, TypeOK
<1>9. CASE Tick
  <2>1. \A n \in Nodes, t \in Traces : Older(age[n][t], DecisionWait) \in 0..DecisionWait
    BY OlderTyped, SettingsAssumption DEF TypeOK
  <2>2. \A n \in Nodes : Older(elapsed[n], MaxElapsed) \in 0..MaxElapsed
    BY OlderTyped, SettingsAssumption DEF TypeOK
  <2>3. age' \in [Nodes -> [Traces -> 0..DecisionWait]]
    BY <1>9, <2>1 DEF Tick, TypeOK
  <2>4. elapsed' \in [Nodes -> 0..MaxElapsed]
    BY <1>9, <2>2 DEF Tick, TypeOK
  <2> QED
    BY <1>9, <2>3, <2>4 DEF Tick, TypeOK
<1>10. CASE RouterChanges \/ UNCHANGED vars
  BY <1>10 DEF RouterChanges, vars, TypeOK
<1> QED
  BY <1>1, <1>2, <1>3, <1>4, <1>5, <1>6, <1>7, <1>8, <1>9, <1>10 DEF Next

\* The state is well formed, whatever the spans, the nodes and the settings.
THEOREM Typed == Spec => []TypeOK
<1> QED
  BY InitTyped, NextTyped, PTL DEF Spec

-----------------------------------------------------------------------------
(* What a step may do to an item. *)

\* The steps that touch no place and no verdict.
Idle == UNCHANGED <<place, verdict, crashed, received>>

\* The steps of a collector after the verdict: a batch moves on.
Onward(n) ==
    \E S \in SUBSET Used(n), p \in {"sending", "exported", "abandoned"} :
        /\ \A i \in S : place[i] \in {"queued", "sending"}
        /\ Move(S, p)
        /\ UNCHANGED <<verdict, crashed>>

LEMMA BatchesMoveOn ==
    ASSUME TypeOK, NEW n \in Nodes, TakeBatch(n) \/ Export(n) \/ GiveUp(n)
    PROVE  /\ Onward(n)
           /\ received' \subseteq received \cup At(n, "sending")
<1>1. /\ At(n, "sending") \subseteq Used(n) /\ At(n, "queued") \subseteq Used(n)
      /\ \A i \in At(n, "sending") : place[i] = "sending"
      /\ \A i \in At(n, "queued") : place[i] = "queued"
  BY DEF At, Used, Inside
<1>2. CASE TakeBatch(n)
  <2>1. PICK B \in SUBSET At(n, "queued") : Move(B, "sending")
    BY <1>2 DEF TakeBatch
  <2>2. UNCHANGED <<verdict, crashed, received>>
    BY <1>2 DEF TakeBatch
  <2> QED
    BY <1>1, <2>1, <2>2 DEF Onward
<1>3. CASE Export(n)
  <2>1. /\ Move(At(n, "sending"), "exported")
        /\ UNCHANGED <<verdict, crashed>>
        /\ received' = received \cup At(n, "sending")
    BY <1>3 DEF Export
  <2> QED
    BY <1>1, <2>1 DEF Onward
<1>4. CASE GiveUp(n)
  <2>1. /\ Move(At(n, "sending"), "abandoned")
        /\ UNCHANGED <<verdict, crashed, received>>
    BY <1>4 DEF GiveUp
  <2> QED
    BY <1>1, <2>1 DEF Onward
<1> QED
  BY <1>2, <1>3, <1>4

\* What a collector has accepted stays accepted.
LEMMA StaysAccepted ==
    ASSUME TypeOK, [Next]_vars, NEW i \in Items, place[i] \in Inside \cup Ended
    PROVE  place'[i] \in Inside \cup Ended
<1> USE Parts
<1>1. ASSUME NEW S, NEW p \in Inside \cup Ended, Move(S, p)
      PROVE  place'[i] \in Inside \cup Ended
  BY <1>1, Moved
<1>2. ASSUME NEW j, NEW p, Move({j}, p), place[j] \in {"open", "app"}
      PROVE  place'[i] \in Inside \cup Ended
  BY <1>2, Moved
<1>3. ASSUME NEW s \in Spans, EndSpan(s) PROVE place'[i] \in Inside \cup Ended
  BY <1>2, <1>3 DEF EndSpan
<1>4. ASSUME NEW r \in Records, EmitRecord(r) PROVE place'[i] \in Inside \cup Ended
  BY <1>2, <1>4 DEF EmitRecord
<1>5. ASSUME NEW j \in Items, Accept(j) \/ DropRefused(j)
      PROVE  place'[i] \in Inside \cup Ended
  BY <1>2, <1>5 DEF Accept, DropRefused
<1>6. ASSUME NEW n \in Nodes, NEW t \in Traces, Decide(n, t)
      PROVE  place'[i] \in Inside \cup Ended
  BY <1>1, <1>6 DEF Decide
<1>7. ASSUME NEW n \in Nodes, Crash(n) PROVE place'[i] \in Inside \cup Ended
  BY <1>1, <1>7 DEF Crash
<1>8. ASSUME NEW n \in Nodes, TakeBatch(n) \/ Export(n) \/ GiveUp(n)
      PROVE  place'[i] \in Inside \cup Ended
  BY <1>1, <1>8, BatchesMoveOn DEF Onward
<1>9. ASSUME place' = place PROVE place'[i] \in Inside \cup Ended
  BY <1>9
<1> QED
  BY <1>3, <1>4, <1>5, <1>6, <1>7, <1>8, <1>9
  DEF Next, LostAnswer, Tick, RouterChanges, vars

-----------------------------------------------------------------------------
(* Every span is treated by the verdict on its trace. *)

\* A step that leaves the verdicts and puts the span aside, if it moves it.
LEMMA AsideTreated ==
    ASSUME NEW s \in Spans, Treated(s), UNCHANGED <<verdict, crashed>>,
           place'[s] \in {place[s], "app", "unsampled", "refused"}
    PROVE  Treated(s)'
BY DEF Treated, Kept, VerdictOn

LEMMA AcceptTreated ==
    ASSUME TypeOK, NEW s \in Spans, Treated(s), NEW i \in Items, Accept(i)
    PROVE  Treated(s)'
<1>1. UNCHANGED <<verdict, crashed>>
  BY DEF Accept
<1>2. CASE s = i
  <2>1. place'[s] = PlaceFor(s)
    BY <1>2, Moved DEF Accept
  <2>2. VerdictOn(s) \in {"none", "keep", "drop"}
    BY SpanPlace DEF TypeOK, VerdictOn
  <2>3. VerdictOn(s)' = VerdictOn(s)
    BY <1>1 DEF VerdictOn
  <2> QED
    BY <2>1, <2>2, <2>3, PlaceForTyped DEF Treated, Kept
<1>3. CASE s # i
  BY <1>1, <1>3, SpanPlace, Moved, AsideTreated DEF Accept
<1> QED
  BY <1>2, <1>3

LEMMA DecideTreated ==
    ASSUME TypeOK, \A x \in Spans : Treated(x), NEW s \in Spans,
           NEW n \in Nodes, NEW t \in Traces, Decide(n, t)
    PROVE  Treated(s)'
<1> DEFINE keep == Policy(Held(n, t))
<1>1. /\ crashed' = crashed /\ Held(n, t) # {}
      /\ Move(Held(n, t), IF keep THEN "queued" ELSE "discarded")
      /\ verdict' = [verdict EXCEPT ![n][t] = IF keep THEN "keep" ELSE "drop"]
  BY DEF Decide
<1>2. \A x \in Held(n, t) : x \in Spans /\ NodeOf[x] = n /\ TraceOf[x] = t
                            /\ place[x] = "sampling"
  BY DEF Held, SpansAt, At
<1>3. verdict[n][t] = "none"
  BY <1>1, <1>2 DEF Treated, VerdictOn
<1>4. CASE s \in Held(n, t)
  <2>1. VerdictOn(s)' = IF keep THEN "keep" ELSE "drop"
    BY <1>1, <1>2, <1>4 DEF VerdictOn, TypeOK
  <2>2. place'[s] = IF keep THEN "queued" ELSE "discarded"
    BY <1>1, <1>4, SpanPlace, Moved
  <2> QED
    BY <2>1, <2>2 DEF Treated, Kept
<1>5. CASE s \notin Held(n, t)
  <2>1. place'[s] = place[s]
    BY <1>1, <1>5, SpanPlace, Moved
  <2>2. CASE NodeOf[s] = n /\ TraceOf[s] = t
    <3>1. place[s] # "sampling"
      BY <1>5, <2>2, SpanPlace DEF Held, SpansAt, At
    <3>2. VerdictOn(s) = "none"
      BY <1>3, <2>2 DEF VerdictOn
    <3> QED
      BY <1>1, <2>1, <3>1, <3>2 DEF Treated, Kept
  <2>3. CASE ~(NodeOf[s] = n /\ TraceOf[s] = t)
    <3>1. VerdictOn(s)' = VerdictOn(s)
      BY <1>1, <2>3, SpanPlace DEF VerdictOn, TypeOK
    <3> QED
      BY <1>1, <2>1, <3>1 DEF Treated, Kept
  <2> QED
    BY <2>2, <2>3
<1> QED
  BY <1>4, <1>5

LEMMA OnwardTreated ==
    ASSUME NEW s \in Spans, Treated(s), NEW n \in Nodes, Onward(n)
    PROVE  Treated(s)'
<1>1. PICK S \in SUBSET Used(n), p \in {"sending", "exported", "abandoned"} :
        /\ \A i \in S : place[i] \in {"queued", "sending"}
        /\ Move(S, p)
        /\ UNCHANGED <<verdict, crashed>>
  BY DEF Onward
<1>2. CASE s \in S
  <2>1. place'[s] = p /\ Kept(s)
    BY <1>1, <1>2, SpanPlace, Moved DEF Kept
  <2> QED
    BY <1>1, <2>1 DEF Treated, Kept, VerdictOn
<1>3. CASE s \notin S
  BY <1>1, <1>3, SpanPlace, Moved, AsideTreated
<1> QED
  BY <1>2, <1>3

LEMMA CrashTreated ==
    ASSUME TypeOK, NEW s \in Spans, Treated(s), NEW n \in Nodes, Crash(n)
    PROVE  Treated(s)'
<1>1. /\ crashed' = crashed \cup {n} /\ Move(Used(n), "lost")
      /\ verdict' = [verdict EXCEPT ![n] = [t \in Traces |-> "none"]]
  BY DEF Crash
<1>2. CASE NodeOf[s] = n
  <2>1. VerdictOn(s)' = "none"
    BY <1>1, <1>2, SpanPlace DEF VerdictOn, TypeOK
  <2> QED
    BY <1>1, <1>2, <2>1 DEF Treated
<1>3. CASE NodeOf[s] # n
  <2>1. place'[s] = place[s]
    BY <1>1, <1>3, SpanPlace, Moved DEF Used
  <2>2. VerdictOn(s)' = VerdictOn(s)
    BY <1>1, <1>3, SpanPlace DEF VerdictOn, TypeOK
  <2> QED
    BY <1>1, <2>1, <2>2 DEF Treated, Kept
<1> QED
  BY <1>2, <1>3

LEMMA NextTreated ==
    ASSUME TypeOK, \A x \in Spans : Treated(x), [Next]_vars, NEW s \in Spans
    PROVE  Treated(s)'
<1>1. s \in Items /\ Treated(s)
  BY SpanPlace
<1>2. ASSUME NEW x \in Spans, EndSpan(x) PROVE Treated(s)'
  BY <1>1, <1>2, Moved, AsideTreated DEF EndSpan
<1>3. ASSUME NEW r \in Records, EmitRecord(r) PROVE Treated(s)'
  BY <1>1, <1>3, Moved, AsideTreated DEF EmitRecord
<1>4. ASSUME NEW i \in Items, DropRefused(i) PROVE Treated(s)'
  BY <1>1, <1>4, Moved, AsideTreated DEF DropRefused
<1>5. CASE UNCHANGED <<place, verdict, crashed>>
  BY <1>1, <1>5, AsideTreated
<1>6. ASSUME NEW n \in Nodes, LostAnswer(n) PROVE Treated(s)'
  BY <1>5, <1>6 DEF LostAnswer
<1>7. CASE Tick \/ RouterChanges \/ UNCHANGED vars
  BY <1>5, <1>7 DEF Tick, RouterChanges, vars
<1> QED
  BY <1>1, <1>2, <1>3, <1>4, <1>6, <1>7, AcceptTreated, DecideTreated,
     OnwardTreated, BatchesMoveOn, CrashTreated
  DEF Next

LEMMA InitTreated == ASSUME Init, NEW s \in Spans PROVE Treated(s)
BY SpanPlace DEF Init, Treated, Kept

\* A collector that has not crashed treats the spans of a trace alike, those
\* that come after its verdict too, for any nodes, traces and settings.
THEOREM Consistent == Spec => []OneVerdict
<1> DEFINE IInv == TypeOK /\ \A s \in Spans : Treated(s)
<1>1. Init => IInv
  BY InitTyped, InitTreated
<1>2. IInv /\ [Next]_vars => IInv'
  BY NextTyped, NextTreated
<1>3. IInv => OneVerdict
  BY DEF OneVerdict, Treated, VerdictOn, SpansAt
<1> QED
  BY <1>1, <1>2, <1>3, PTL DEF Spec

-----------------------------------------------------------------------------
(* Nothing is sent without a reason. *)

LEMMA PolicyGrows ==
    ASSUME NEW S, NEW T, S \subseteq T, Policy(S) PROVE Policy(T)
BY DEF Policy

LEMMA AcceptedGrows ==
    ASSUME TypeOK, [Next]_vars, NEW n, NEW t
    PROVE  Accepted(n, t) \subseteq Accepted(n, t)'
<1> SUFFICES ASSUME NEW s \in Accepted(n, t) PROVE s \in Accepted(n, t)'
  OBVIOUS
<1>1. s \in SpansAt(n, t) /\ s \in Items /\ place[s] \in Inside \cup Ended
  BY SpanPlace DEF Accepted, SpansAt
<1>2. place'[s] \in Inside \cup Ended
  BY <1>1, StaysAccepted
<1> QED
  BY <1>1, <1>2 DEF Accepted

\* Who says keep now, did so before or has just found a reason.
LEMMA NewlyKeep ==
    ASSUME TypeOK, [Next]_vars, NEW n \in Nodes, NEW t \in Traces,
           verdict'[n][t] = "keep"
    PROVE  verdict[n][t] = "keep" \/ Policy(Held(n, t))
<1>1. CASE verdict' = verdict
  BY <1>1
<1>2. ASSUME NEW m \in Nodes, NEW u \in Traces, Decide(m, u)
      PROVE  verdict[n][t] = "keep" \/ Policy(Held(n, t))
  <2>1. verdict' = [verdict EXCEPT ![m][u] =
                      IF Policy(Held(m, u)) THEN "keep" ELSE "drop"]
    BY <1>2 DEF Decide
  <2>2. CASE m = n /\ u = t
    BY <2>1, <2>2 DEF TypeOK
  <2>3. CASE ~(m = n /\ u = t)
    BY <2>1, <2>3 DEF TypeOK
  <2> QED
    BY <2>2, <2>3
<1>3. ASSUME NEW m \in Nodes, Crash(m) PROVE verdict[n][t] = "keep"
  BY <1>3 DEF Crash, TypeOK
<1>4. ASSUME NEW m \in Nodes, TakeBatch(m) \/ Export(m) \/ GiveUp(m) \/ LostAnswer(m)
      PROVE  verdict' = verdict
  BY <1>4 DEF TakeBatch, Export, GiveUp, LostAnswer
<1>5. ASSUME NEW i, EndSpan(i) \/ EmitRecord(i) \/ Accept(i) \/ DropRefused(i)
      PROVE  verdict' = verdict
  BY <1>5 DEF EndSpan, EmitRecord, Accept, DropRefused
<1>6. CASE Tick \/ RouterChanges \/ UNCHANGED vars
  BY <1>1, <1>6 DEF Tick, RouterChanges, vars
<1> QED
  BY <1>1, <1>2, <1>3, <1>4, <1>5, <1>6 DEF Next

\* Which span is kept or received now, was so before, follows a verdict, or
\* has been held for one that has just been given.
LEMMA NewlyKept ==
    ASSUME TypeOK, [Next]_vars, NEW s \in Spans, Kept(s)' \/ s \in received'
    PROVE  \/ Kept(s) \/ s \in received
           \/ VerdictOn(s) = "keep"
           \/ Policy(Held(NodeOf[s], TraceOf[s]))
<1> DEFINE Reason == \/ Kept(s) \/ s \in received
                     \/ VerdictOn(s) = "keep"
                     \/ Policy(Held(NodeOf[s], TraceOf[s]))
<1> SUFFICES Reason
  OBVIOUS
<1>0. s \in Items
  BY SpanPlace
<1>1. ASSUME place'[s] \in {place[s], "app", "unsampled", "refused", "lost",
                            "sampling", "discarded"},
             received' = received
      PROVE  Reason
  BY <1>1 DEF Kept
<1>2. ASSUME NEW i \in Items, NEW p, Move({i}, p), received' = received,
             p \in {"app", "unsampled", "refused"}
      PROVE  Reason
  BY <1>0, <1>1, <1>2, Moved
<1>3. ASSUME NEW x \in Spans, EndSpan(x) PROVE Reason
  BY <1>2, <1>3, SpanPlace DEF EndSpan
<1>4. ASSUME NEW r \in Records, EmitRecord(r) PROVE Reason
  BY <1>2, <1>4 DEF EmitRecord, Items
<1>5. ASSUME NEW i \in Items, DropRefused(i) PROVE Reason
  BY <1>2, <1>5 DEF DropRefused
<1>6. ASSUME NEW i \in Items, Accept(i) PROVE Reason
  <2>1. Move({i}, IF i \in Spans THEN PlaceFor(i) ELSE "queued")
        /\ received' = received
    BY <1>6 DEF Accept
  <2>2. CASE i # s
    BY <1>0, <1>1, <2>1, <2>2, Moved
  <2>3. CASE i = s
    <3>1. place'[s] = PlaceFor(s)
      BY <1>0, <2>1, <2>3, Moved
    <3> QED
      BY <1>1, <2>1, <3>1, PlaceForTyped
  <2> QED
    BY <2>2, <2>3
<1>7. ASSUME NEW n \in Nodes, NEW t \in Traces, Decide(n, t) PROVE Reason
  <2>1. /\ Move(Held(n, t), IF Policy(Held(n, t)) THEN "queued" ELSE "discarded")
        /\ received' = received
    BY <1>7 DEF Decide
  <2>2. CASE s \in Held(n, t) /\ Policy(Held(n, t))
    BY <2>2 DEF Held, SpansAt
  <2>3. CASE ~(s \in Held(n, t) /\ Policy(Held(n, t)))
    BY <1>0, <1>1, <2>1, <2>3, Moved
  <2> QED
    BY <2>2, <2>3
<1>8. ASSUME NEW n \in Nodes, TakeBatch(n) \/ Export(n) \/ GiveUp(n) PROVE Reason
  <2>1. PICK S \in SUBSET Used(n), p \in {"sending", "exported", "abandoned"} :
          /\ \A i \in S : place[i] \in {"queued", "sending"}
          /\ Move(S, p)
    BY <1>8, BatchesMoveOn DEF Onward
  <2>2. s \in received' => s \in received \/ place[s] = "sending"
    BY <1>8, BatchesMoveOn DEF At
  <2>3. CASE s \in S
    BY <2>1, <2>3 DEF Kept
  <2>4. CASE s \notin S
    <3>1. place'[s] = place[s]
      BY <1>0, <2>1, <2>4, Moved
    <3> QED
      BY <2>2, <3>1 DEF Kept
  <2> QED
    BY <2>3, <2>4
<1>9. ASSUME NEW n \in Nodes, LostAnswer(n) PROVE Reason
  BY <1>9 DEF LostAnswer, At, Kept
<1>10. ASSUME NEW n \in Nodes, Crash(n) PROVE Reason
  BY <1>0, <1>1, <1>10, Moved DEF Crash
<1>11. CASE Tick \/ RouterChanges \/ UNCHANGED vars
  BY <1>1, <1>11 DEF Tick, RouterChanges, vars
<1> QED
  BY <1>3, <1>4, <1>5, <1>6, <1>7, <1>8, <1>9, <1>10, <1>11 DEF Next

LEMMA NextJustified == TypeOK /\ Justified /\ [Next]_vars => Justified'
<1> SUFFICES ASSUME TypeOK, Justified, [Next]_vars PROVE Justified'
  OBVIOUS
<1>1. \A n \in Nodes, t \in Traces : Held(n, t) \subseteq Accepted(n, t)
  BY DEF Held, At, Accepted, Inside
<1>2. ASSUME NEW n \in Nodes, NEW t \in Traces,
             Policy(Accepted(n, t)) \/ Policy(Held(n, t))
      PROVE  Policy(Accepted(n, t)')
  BY <1>1, <1>2, AcceptedGrows, PolicyGrows
<1>3. ASSUME NEW n \in Nodes, NEW t \in Traces, verdict'[n][t] = "keep"
      PROVE  Policy(Accepted(n, t)')
  BY <1>2, <1>3, NewlyKeep DEF Justified
<1>4. ASSUME NEW s \in Spans, Kept(s)' \/ s \in received'
      PROVE  Policy(Accepted(NodeOf[s], TraceOf[s])')
  BY <1>2, <1>4, NewlyKept, SpanPlace DEF Justified, VerdictOn
<1> QED
  BY <1>3, <1>4 DEF Justified

LEMMA InitJustified == Init => Justified
BY SpanPlace DEF Init, Justified, Kept

\* The router gets a span only if the collector it came through has seen a
\* failed span or a slow trace, for any policies' threshold and any crashes.
THEOREM Notable == Spec => []OnlyNotableTraces
<1>1. Justified => OnlyNotableTraces
  BY DEF Justified, OnlyNotableTraces
<1> QED
  BY <1>1, InitTyped, InitJustified, NextTyped, NextJustified, PTL DEF Spec

-----------------------------------------------------------------------------
(* A collector holds no more than it may. *)

\* No step but Accept adds to what a collector holds.
LEMMA NoMoreUsed ==
    ASSUME TypeOK, [Next]_vars, NEW n \in Nodes, \A i \in Items : ~Accept(i)
    PROVE  Used(n)' \subseteq Used(n)
<1> SUFFICES ASSUME NEW i \in Items, place'[i] \in Inside
             PROVE  place[i] \in Inside
  BY DEF Used
<1> USE Parts
<1>1. ASSUME NEW S, NEW p, Move(S, p), \/ p \notin Inside
                                       \/ \A j \in S : place[j] \in Inside
      PROVE  place[i] \in Inside
  BY <1>1, Moved
<1>2. ASSUME NEW s \in Spans, EndSpan(s) PROVE place[i] \in Inside
  BY <1>1, <1>2 DEF EndSpan
<1>3. ASSUME NEW r \in Records, EmitRecord(r) PROVE place[i] \in Inside
  BY <1>1, <1>3 DEF EmitRecord
<1>4. ASSUME NEW j \in Items, DropRefused(j) PROVE place[i] \in Inside
  BY <1>1, <1>4 DEF DropRefused
<1>5. ASSUME NEW m \in Nodes, NEW t \in Traces, Decide(m, t)
      PROVE  place[i] \in Inside
  BY <1>1, <1>5 DEF Decide, Held, At
<1>6. ASSUME NEW m \in Nodes, TakeBatch(m) \/ Export(m) \/ GiveUp(m)
      PROVE  place[i] \in Inside
  BY <1>1, <1>6, BatchesMoveOn DEF Onward
<1>7. ASSUME NEW m \in Nodes, Crash(m) PROVE place[i] \in Inside
  BY <1>1, <1>7 DEF Crash
<1>8. ASSUME place' = place PROVE place[i] \in Inside
  BY <1>8
<1> QED
  BY <1>2, <1>3, <1>4, <1>5, <1>6, <1>7, <1>8
  DEF Next, LostAnswer, Tick, RouterChanges, vars

LEMMA AcceptUsed ==
    ASSUME NEW i \in Items, Accept(i), NEW n \in Nodes
    PROVE  \/ Used(n)' \subseteq Used(n)
           \/ Used(n)' \subseteq Used(n) \cup {i} /\ Cardinality(Used(n)) < MemoryLimit
<1>1. \A j \in Items \ {i} : place'[j] = place[j]
  BY Moved DEF Accept
<1>2. CASE NodeOf[i] = n
  BY <1>1, <1>2 DEF Used, Accept
<1>3. CASE NodeOf[i] # n
  BY <1>1, <1>3 DEF Used
<1> QED
  BY <1>2, <1>3

\* One more element and one more at most.
LEMMA OneMore ==
    ASSUME NEW S, IsFiniteSet(S), NEW limit \in Nat, Cardinality(S) <= limit,
           NEW x, NEW T,
           T \subseteq S \/ (T \subseteq S \cup {x} /\ Cardinality(S) < limit)
    PROVE  IsFiniteSet(T) /\ Cardinality(T) <= limit
<1>1. Cardinality(S) \in Nat
  BY FS_CardinalityType
<1>2. CASE T \subseteq S
  <2>1. IsFiniteSet(T) /\ Cardinality(T) <= Cardinality(S)
    BY <1>2, FS_Subset
  <2>2. Cardinality(T) \in Nat
    BY <2>1, FS_CardinalityType
  <2> QED
    BY <1>1, <2>1, <2>2
<1>3. CASE T \subseteq S \cup {x} /\ Cardinality(S) < limit
  <2>1. /\ IsFiniteSet(S \cup {x})
        /\ Cardinality(S \cup {x}) = Cardinality(S)
             \/ Cardinality(S \cup {x}) = Cardinality(S) + 1
    BY FS_AddElement
  <2>2. IsFiniteSet(T) /\ Cardinality(T) <= Cardinality(S \cup {x})
    BY <1>3, <2>1, FS_Subset
  <2>3. Cardinality(T) \in Nat
    BY <2>2, FS_CardinalityType
  <2> QED
    BY <1>1, <1>3, <2>1, <2>2, <2>3
<1> QED
  BY <1>2, <1>3

LEMMA InitBounded == Init => Bounded
<1> SUFFICES ASSUME Init, NEW n \in Nodes
             PROVE  IsFiniteSet(Used(n)) /\ Cardinality(Used(n)) <= MemoryLimit
  BY DEF Bounded
<1>1. Used(n) = {}
  BY DEF Init, Used, Inside
<1> QED
  BY <1>1, FS_EmptySet, SettingsAssumption

LEMMA NextBounded == TypeOK /\ Bounded /\ [Next]_vars => Bounded'
<1> SUFFICES ASSUME TypeOK, Bounded, [Next]_vars, NEW n \in Nodes
             PROVE  IsFiniteSet(Used(n)') /\ Cardinality(Used(n)') <= MemoryLimit
  BY DEF Bounded
<1>1. \E i : \/ Used(n)' \subseteq Used(n)
             \/ Used(n)' \subseteq Used(n) \cup {i} /\ Cardinality(Used(n)) < MemoryLimit
  BY NoMoreUsed, AcceptUsed
<1>2. IsFiniteSet(Used(n)) /\ Cardinality(Used(n)) <= MemoryLimit
  BY DEF Bounded
<1> QED
  BY <1>1, <1>2, OneMore, SettingsAssumption

\* A collector never holds more than its memory_limiter lets in, for any limit
\* and any number of items.
THEOREM Limited == Spec => []MemoryBounded
<1>1. Bounded => MemoryBounded
  BY DEF Bounded, MemoryBounded
<1> QED
  BY <1>1, InitTyped, InitBounded, NextTyped, NextBounded, PTL DEF Spec
=============================================================================
