----------------------------- MODULE OutboxProofs -----------------------------
(***************************************************************************)
(* Proofs of the outbox: no committed event is lost by being marked, none  *)
(* is announced before its order commits, and duplicates are bounded by    *)
(* the workers and the faults, for any number of events, workers and       *)
(* faults and any batch limit.                                             *)
(***************************************************************************)
EXTENDS Outbox, FiniteSetTheorems, TLAPS

-----------------------------------------------------------------------------
(* Types and the clock of the transactions.                                *)

\* Rows and start times appear together, and no two transactions share one.
Clock ==
  /\ \A e \in Events : row[e] = "none" <=> createdAt[e] = 0
  /\ \A e \in Events : createdAt[e] <= Cardinality(Started)
  /\ \A e, f \in Events : createdAt[e] = createdAt[f] /\ createdAt[e] # 0 => e = f

\* ProcessBatch only ever holds rows that are committed.
BatchesCommitted ==
  \A w \in Workers : \A e \in batch[w] : row[e] \in {"unpublished", "published"}

\* Worker w has published e and is about to mark it.
AtMark(w, e) == phase[w] = "mark" /\ IsCurrent(w, e)

MarksPublished == \A w \in Workers : \A e \in Events : AtMark(w, e) => published[e] > 0

Delivered == /\ TypeOK /\ Clock /\ BatchesCommitted /\ MarksPublished
             /\ MarkedWasPublished /\ AnnouncedWasCommitted

\* The start of another transaction reads a later clock.
LEMMA ClockStep ==
  ASSUME TypeOK, Clock, BatchesCommitted, [Next]_vars
  PROVE  Clock'
<1>0. createdAt \in [Events -> Nat] /\ row \in [Events -> {"none", "uncommitted", "rolledBack",
                                                          "unpublished", "published"}]
  BY DEF TypeOK
<1>1. ASSUME NEW e \in Events, StartOrder(e) PROVE Clock'
  <2>1. IsFiniteSet(Started) /\ Cardinality(Started) \in Nat
    BY OutboxAssumption, FS_Subset, FS_CardinalityType DEF Started
  <2>2. /\ row'[e] # "none" /\ createdAt'[e] = Cardinality(Started) + 1
        /\ \A f \in Events \ {e} : row'[f] = row[f] /\ createdAt'[f] = createdAt[f]
        /\ createdAt[e] = 0
    BY <1>0, <1>1 DEF StartOrder, Clock
  <2>3. Started' = Started \cup {e} /\ e \notin Started
    BY <1>0, <2>1, <2>2 DEF Started
  <2>4. Cardinality(Started') = Cardinality(Started) + 1
    BY <2>1, <2>3, FS_AddElement
  <2>5. \A f \in Events : createdAt'[f] <= Cardinality(Started') /\ createdAt'[f] \in Nat
    BY <1>0, <2>1, <2>2, <2>4 DEF Clock
  <2>6. \A f \in Events : row'[f] = "none" <=> createdAt'[f] = 0
    BY <2>1, <2>2 DEF Clock
  <2>7. \A f \in Events \ {e} : createdAt'[f] # createdAt'[e]
    BY <1>0, <2>1, <2>2 DEF Clock
  <2>8. \A f, g \in Events : createdAt'[f] = createdAt'[g] /\ createdAt'[f] # 0 => f = g
    BY <2>2, <2>7 DEF Clock
  <2> QED
    BY <2>5, <2>6, <2>8 DEF Clock
<1>2. ASSUME NEW e \in Events, CommitOrder(e) \/ RollbackOrder(e) PROVE Clock'
  BY <1>0, <1>2 DEF CommitOrder, RollbackOrder, Clock, Started
<1>3. ASSUME NEW w \in Workers, Mark(w) PROVE Clock'
  <2>1. PICK e \in batch[w] : row' = [row EXCEPT ![e] = "published"]
    BY <1>3 DEF Mark
  <2>2. row[e] # "none" /\ createdAt' = createdAt /\ e \in Events
    BY <1>3, <2>1 DEF Mark, BatchesCommitted, TypeOK
  <2>3. \A f \in Events : row'[f] = "none" <=> row[f] = "none"
    BY <1>0, <2>1, <2>2
  <2> QED
    BY <2>2, <2>3 DEF Clock, Started
<1>4. ASSUME UNCHANGED table PROVE Clock'
  BY <1>4 DEF Clock, Started, table
<1>5. ASSUME NEW w \in Workers,
             \/ List(w) \/ Publish(w) \/ PublishFails(w) \/ PublishUnacknowledged(w)
             \/ MarkFails(w) \/ Cancel(w) \/ Restart(w) \/ Crash(w)
      PROVE  UNCHANGED table
  BY <1>5 DEF List, Publish, PublishFails, PublishUnacknowledged, MarkFails, Cancel, Restart, Crash,
              Start
<1> QED
  BY <1>1, <1>2, <1>3, <1>4, <1>5 DEF Next, Orders, ProcessBatch, Process, Idle, vars

-----------------------------------------------------------------------------
(* What a step does to the workers.                                        *)

Act(w) == ProcessBatch(w) \/ Cancel(w) \/ Restart(w) \/ Crash(w)

\* A step belongs to an order, to a worker or to nobody.
LEMMA StepShapes ==
  ASSUME [Next]_vars
  PROVE  Orders \/ (\E w \in Workers : Act(w)) \/ UNCHANGED vars
BY DEF Next, Process, Act, Idle

\* Other workers do not notice.
LEMMA WorkerFrame ==
  ASSUME TypeOK, NEW w \in Workers, Act(w), NEW u \in Workers \ {w}
  PROVE  /\ batch'[u] = batch[u] /\ phase'[u] = phase[u] /\ cancelled'[u] = cancelled[u]
         /\ createdAt' = createdAt
         /\ \A e : AtMark(u, e)' = AtMark(u, e)
<1>0. /\ batch \in [Workers -> SUBSET Events] /\ cancelled \in [Workers -> BOOLEAN]
      /\ phase \in [Workers -> {"tick", "publish", "mark"}]
  BY DEF TypeOK
<1>1. /\ batch'[u] = batch[u] /\ phase'[u] = phase[u] /\ cancelled'[u] = cancelled[u]
      /\ createdAt' = createdAt
  BY <1>0 DEF Act, ProcessBatch, List, Publish, PublishFails, PublishUnacknowledged, Mark, MarkFails,
              Cancel, Restart, Crash, Start, Advance, table, worker
<1> QED
  BY <1>1 DEF AtMark, IsCurrent

\* A transaction in progress is in no batch.
LEMMA OrderFrame ==
  ASSUME TypeOK, Clock, BatchesCommitted, Orders
  PROVE  /\ UNCHANGED <<batch, phase, cancelled, published, faults>>
         /\ \A w \in Workers : \A e \in Events : AtMark(w, e)' = AtMark(w, e)
         /\ \A w \in Workers : \A e \in batch[w] : row'[e] = row[e]
<1>1. PICK f \in Events : StartOrder(f) \/ CommitOrder(f) \/ RollbackOrder(f)
  BY DEF Orders
<1>2. /\ UNCHANGED <<batch, phase, cancelled, published, faults>>
      /\ row[f] \in {"none", "uncommitted"}
      /\ \A e \in Events \ {f} : row'[e] = row[e] /\ createdAt'[e] = createdAt[e]
  BY <1>1 DEF StartOrder, CommitOrder, RollbackOrder, worker, TypeOK
<1>3. ASSUME NEW w \in Workers, NEW e \in batch[w]
      PROVE  e \in Events \ {f} /\ row'[e] = row[e] /\ createdAt'[e] = createdAt[e]
  BY <1>2 DEF BatchesCommitted, TypeOK
<1>4. ASSUME NEW w \in Workers, NEW e \in Events PROVE AtMark(w, e)' = AtMark(w, e)
  BY <1>2, <1>3 DEF AtMark, IsCurrent
<1> QED
  BY <1>2, <1>3, <1>4

\* After the loop body a worker is not at the UPDATE, and has one row less.
LEMMA AdvanceStep ==
  ASSUME TypeOK, NEW w \in Workers, NEW e \in batch[w], Advance(w, e)
  PROVE  /\ batch'[w] = batch[w] \ {e} /\ phase'[w] \in {"tick", "publish"}
         /\ phase'[w] = "tick" <=> batch'[w] = {}
         /\ \A f : ~AtMark(w, f)'
BY DEF Advance, AtMark, TypeOK

\* The rows of a batch have different start times: the loop is at one of them.
LEMMA OneCurrent ==
  ASSUME TypeOK, Clock, BatchesCommitted, NEW w \in Workers,
         NEW e, NEW f, IsCurrent(w, e), IsCurrent(w, f)
  PROVE  e = f
<1>1. e \in Events /\ f \in Events /\ createdAt[e] = createdAt[f]
  BY DEF IsCurrent, TypeOK
<1>2. row[e] # "none"
  BY DEF BatchesCommitted, IsCurrent
<1> QED
  BY <1>1, <1>2 DEF Clock

-----------------------------------------------------------------------------
(* At least once, and only of what was committed.                          *)

\* The statements of orders, workers and processes keep the types.
LEMMA TypesStep == Delivered /\ [Next]_vars => TypeOK'
<1> SUFFICES ASSUME Delivered, [Next]_vars PROVE TypeOK'
  OBVIOUS
<1> USE DEF Delivered
<1>1. CASE Orders
  <2>1. IsFiniteSet(Started) /\ Cardinality(Started) \in Nat
    BY OutboxAssumption, FS_Subset, FS_CardinalityType DEF Started
  <2> QED
    BY <1>1, <2>1, OrderFrame DEF Orders, StartOrder, CommitOrder, RollbackOrder, TypeOK
<1>2. ASSUME NEW w \in Workers, List(w) \/ Publish(w) \/ Cancel(w) \/ Restart(w) \/ Crash(w)
      PROVE  TypeOK'
  <2>1. CASE List(w)
    <3>1. PICK S \in SUBSET Unpublished : S # {} /\ batch' = [batch EXCEPT ![w] = S]
      BY <2>1 DEF List
    <3>2. S \subseteq Events
      BY <3>1 DEF Unpublished
    <3> QED
      BY <2>1, <3>1, <3>2 DEF List, table, TypeOK
  <2>2. CASE Publish(w)
    <3>1. PICK e \in Events : published' = [published EXCEPT ![e] = @ + 1]
      BY <2>2 DEF Publish, TypeOK
    <3> QED
      BY <2>2, <3>1 DEF Publish, table, TypeOK
  <2>3. CASE Cancel(w)
    BY <2>3 DEF Cancel, Fault, table, TypeOK
  <2>4. CASE Restart(w) \/ Crash(w)
    <3>1. Start(w) /\ faults' \in Nat
      BY <2>4 DEF Restart, Crash, Fault, TypeOK
    <3> QED
      BY <3>1 DEF Start, table, TypeOK
  <2> QED
    BY <1>2, <2>1, <2>2, <2>3, <2>4
<1>3. ASSUME NEW w \in Workers,
             PublishFails(w) \/ PublishUnacknowledged(w) \/ Mark(w) \/ MarkFails(w)
      PROVE  TypeOK'
  <2>1. PICK e \in batch[w] : Advance(w, e)
    BY <1>3 DEF PublishFails, PublishUnacknowledged, Mark, MarkFails
  <2>2. /\ batch' \in [Workers -> SUBSET Events] /\ phase' \in [Workers -> {"tick", "publish", "mark"}]
        /\ \A u \in Workers : phase'[u] = "tick" <=> batch'[u] = {}
    BY <2>1, AdvanceStep DEF Advance, TypeOK
  <2>3. /\ row' \in [Events -> {"none", "uncommitted", "rolledBack", "unpublished", "published"}]
        /\ createdAt' = createdAt /\ cancelled' = cancelled
    BY <1>3 DEF PublishFails, PublishUnacknowledged, Mark, MarkFails, table, TypeOK
  <2>4. faults' \in Nat /\ published' \in [Events -> Nat]
    BY <1>3 DEF PublishFails, PublishUnacknowledged, Mark, MarkFails, Fault, TypeOK
  <2> QED
    BY <2>2, <2>3, <2>4 DEF TypeOK
<1>4. CASE UNCHANGED vars
  BY <1>4 DEF TypeOK, vars, table, worker
<1> QED
  BY <1>1, <1>2, <1>3, <1>4, StepShapes DEF Act, ProcessBatch

\* No step of an order disturbs what the workers have published or hold.
LEMMA DeliveredByOrders ==
  ASSUME Delivered, Orders
  PROVE  BatchesCommitted' /\ MarksPublished' /\ MarkedWasPublished' /\ AnnouncedWasCommitted'
<1> USE DEF Delivered
<1>1. /\ UNCHANGED <<batch, published>>
      /\ \A w \in Workers : \A e \in Events : AtMark(w, e)' = AtMark(w, e)
      /\ \A w \in Workers : \A e \in batch[w] : row'[e] = row[e]
  BY OrderFrame
<1>2. \A e \in Events : /\ row'[e] = "published" => row[e] = "published"
                        /\ row[e] \in {"unpublished", "published"} => row'[e] = row[e]
  BY DEF Orders, StartOrder, CommitOrder, RollbackOrder, TypeOK
<1> QED
  BY <1>1, <1>2 DEF BatchesCommitted, MarksPublished, MarkedWasPublished, AnnouncedWasCommitted

\* Nor does a step of a worker: it marks the row it published last.
LEMMA DeliveredByWorkers ==
  ASSUME Delivered, NEW w \in Workers, Act(w)
  PROVE  BatchesCommitted' /\ MarksPublished' /\ MarkedWasPublished' /\ AnnouncedWasCommitted'
<1> USE DEF Delivered
<1>0. /\ row \in [Events -> {"none", "uncommitted", "rolledBack", "unpublished", "published"}]
      /\ published \in [Events -> Nat] /\ batch \in [Workers -> SUBSET Events]
      /\ phase \in [Workers -> {"tick", "publish", "mark"}]
  BY DEF TypeOK
<1>1. \A u \in Workers \ {w} :
        batch'[u] = batch[u] /\ (\A e : AtMark(u, e)' = AtMark(u, e))
  BY WorkerFrame
<1>2. CASE \/ List(w) \/ PublishFails(w) \/ MarkFails(w) \/ Cancel(w) \/ Restart(w) \/ Crash(w)
  <2>1. UNCHANGED <<row, published>>
    BY <1>2 DEF List, PublishFails, MarkFails, Cancel, Restart, Crash, Start, table
  <2>2. \A e \in batch'[w] : row[e] \in {"unpublished", "published"}
    <3>1. CASE List(w)
      BY <1>0, <3>1 DEF List, Unpublished
    <3>2. CASE ~List(w)
      <4>1. batch'[w] \subseteq batch[w]
        BY <1>0, <1>2, <3>2 DEF PublishFails, MarkFails, Advance, Cancel, Restart, Crash, Start
      <4> QED
        BY <4>1 DEF BatchesCommitted
    <3> QED
      BY <3>1, <3>2
  <2>3. \A e \in Events : AtMark(w, e)' => AtMark(w, e)
    BY <1>0, <1>2 DEF List, PublishFails, MarkFails, Advance, Cancel, Restart, Crash, Start,
                      table, AtMark, IsCurrent
  <2> QED
    BY <1>1, <2>1, <2>2, <2>3
       DEF BatchesCommitted, MarksPublished, MarkedWasPublished, AnnouncedWasCommitted
<1>5. CASE PublishUnacknowledged(w)
  <2>1. PICK e \in batch[w] : Advance(w, e) /\ published' = [published EXCEPT ![e] = @ + 1]
    BY <1>5 DEF PublishUnacknowledged
  <2>2. row' = row /\ e \in Events /\ row[e] \in {"unpublished", "published"}
    BY <1>0, <1>5, <2>1 DEF PublishUnacknowledged, table, BatchesCommitted
  <2>3. published'[e] > 0 /\ \A f \in Events \ {e} : published'[f] = published[f]
    BY <1>0, <2>1, <2>2
  <2>4. batch'[w] \subseteq batch[w] /\ \A f : ~AtMark(w, f)'
    BY <2>1, AdvanceStep
  <2>5. BatchesCommitted'
    BY <1>1, <2>2, <2>4 DEF BatchesCommitted
  <2>6. MarksPublished'
    BY <1>1, <2>3, <2>4 DEF MarksPublished
  <2> QED
    BY <2>2, <2>3, <2>5, <2>6 DEF MarkedWasPublished, AnnouncedWasCommitted
<1>3. CASE Publish(w)
  <2>1. PICK e \in batch[w] : IsCurrent(w, e) /\ published' = [published EXCEPT ![e] = @ + 1]
    BY <1>3 DEF Publish
  <2>2. /\ row' = row /\ createdAt' = createdAt /\ batch' = batch /\ e \in Events
        /\ row[e] \in {"unpublished", "published"}
    BY <1>0, <1>3, <2>1 DEF Publish, table, BatchesCommitted
  <2>3. published'[e] > 0 /\ \A f \in Events \ {e} : published'[f] = published[f]
    BY <1>0, <2>1, <2>2
  <2>4. \A f \in Events : AtMark(w, f)' => f = e
    BY <2>1, <2>2, OneCurrent DEF AtMark, IsCurrent
  <2>5. MarksPublished'
    BY <1>1, <2>3, <2>4 DEF MarksPublished
  <2> QED
    BY <2>2, <2>3, <2>5 DEF BatchesCommitted, MarkedWasPublished, AnnouncedWasCommitted
<1>4. CASE Mark(w)
  <2>1. PICK e \in batch[w] : /\ IsCurrent(w, e) /\ Advance(w, e)
                              /\ row' = [row EXCEPT ![e] = "published"]
    BY <1>4 DEF Mark
  <2>2. phase[w] = "mark" /\ e \in Events /\ published' = published
    BY <1>0, <1>4, <2>1 DEF Mark
  <2>3. published[e] > 0 /\ row[e] \in {"unpublished", "published"}
    BY <2>1, <2>2 DEF MarksPublished, AtMark, BatchesCommitted
  <2>4. row'[e] = "published" /\ \A f \in Events \ {e} : row'[f] = row[f]
    BY <1>0, <2>1, <2>2
  <2>5. batch'[w] \subseteq batch[w] /\ \A f : ~AtMark(w, f)'
    BY <2>1, AdvanceStep
  <2>6. BatchesCommitted'
    <3>1. \A u \in Workers : batch'[u] \subseteq batch[u] /\ batch[u] \subseteq Events
      BY <1>0, <1>1, <2>5
    <3>2. \A f \in Events : row'[f] = row[f] \/ row'[f] = "published"
      BY <2>4
    <3> QED
      BY <3>1, <3>2 DEF BatchesCommitted
  <2>7. MarksPublished'
    BY <1>1, <2>2, <2>5 DEF MarksPublished
  <2> QED
    BY <2>2, <2>3, <2>4, <2>6, <2>7 DEF MarkedWasPublished, AnnouncedWasCommitted
<1> QED
  BY <1>2, <1>3, <1>4, <1>5 DEF Act, ProcessBatch

\* The outbox starts empty.
LEMMA DeliveredInit == Init => Delivered
<1> SUFFICES ASSUME Init PROVE Delivered
  OBVIOUS
<1>1. Started = {} /\ Cardinality(Started) = 0
  BY FS_EmptySet DEF Init, Started
<1>2. TypeOK /\ Clock
  BY <1>1 DEF Init, TypeOK, Clock
<1> QED
  BY <1>2 DEF Init, Delivered, BatchesCommitted, MarksPublished, AtMark, MarkedWasPublished,
              AnnouncedWasCommitted

\* Every step keeps the delivery invariant.
LEMMA DeliveredStep == Delivered /\ [Next]_vars => Delivered'
<1> SUFFICES ASSUME Delivered, [Next]_vars PROVE Delivered'
  OBVIOUS
<1>1. TypeOK' /\ Clock'
  BY TypesStep, ClockStep DEF Delivered
<1>2. CASE UNCHANGED vars
  BY <1>1, <1>2 DEF Delivered, BatchesCommitted, MarksPublished, AtMark, IsCurrent,
                    MarkedWasPublished, AnnouncedWasCommitted, vars, table, worker
<1> QED
  BY <1>1, <1>2, StepShapes, DeliveredByOrders, DeliveredByWorkers DEF Delivered

\* The inductive invariant of at-least-once delivery.
THEOREM DeliveredAlways == Spec => []Delivered
BY DeliveredInit, DeliveredStep, PTL DEF Spec

\* Rows, batches and phases of outbox_worker.go's loop stay well formed: a worker has
\* a batch exactly while it is in the loop.
THEOREM OutboxTyped == Spec => []TypeOK
BY DeliveredAlways, PTL DEF Delivered

\* outbox_worker.go marks a row only after its event went out, wherever the worker
\* crashes, is cancelled or overlaps with another.
THEOREM NoEventIsLost == Spec => []MarkedWasPublished
BY DeliveredAlways, PTL DEF Delivered

\* No event is published of an order in progress or rolled back.
THEOREM OnlyCommittedAnnounced == Spec => []AnnouncedWasCommitted
BY DeliveredAlways, PTL DEF Delivered

-----------------------------------------------------------------------------
(* The bound on duplicates: who can still publish an event once more.      *)

\* Workers about to mark e, those of them that may still succeed, the workers
\* that have e before them, and those of them that can no longer mark it.
Marking(e) == {w \in Workers : AtMark(w, e) /\ ~cancelled[w]}
Waiting(e) == {w \in Workers : e \in batch[w] /\ ~AtMark(w, e)}
Doomed(e)  == {w \in Waiting(e) : cancelled[w]}

\* While e is unpublished, each publication that is not about to be marked took
\* a fault, and a cancelled worker that will publish e has already paid for it.
\* Once e is marked only workers that hold it can publish it.
Budget(e) ==
  /\ row[e] = "unpublished" =>
       published[e] + Cardinality(Doomed(e)) <= faults + Cardinality(Marking(e))
  /\ row[e] = "published" =>
       published[e] + Cardinality(Waiting(e)) <= Cardinality(Workers) + faults

Accounted == Delivered /\ \A e \in Events : Budget(e)

\* The sets that differ at most by w, counted.
LEMMA OneMoves ==
  ASSUME NEW S \in SUBSET Workers, NEW T \in SUBSET Workers, NEW w \in Workers,
         S \ {w} = T \ {w}
  PROVE  /\ Cardinality(S) \in Nat /\ Cardinality(T) \in Nat
         /\ (w \in S <=> w \in T) => Cardinality(T) = Cardinality(S)
         /\ w \in S /\ w \notin T => Cardinality(T) = Cardinality(S) - 1
         /\ w \notin S /\ w \in T => Cardinality(T) = Cardinality(S) + 1
<1>1. /\ IsFiniteSet(S) /\ IsFiniteSet(T)
      /\ Cardinality(S) \in Nat /\ Cardinality(T) \in Nat
  BY OutboxAssumption, FS_Subset, FS_CardinalityType
<1>2. CASE w \in S <=> w \in T
  <2>1. S = T
    BY <1>2
  <2> QED
    BY <1>1, <1>2, <2>1
<1>3. CASE w \in S /\ w \notin T
  <2>1. T = S \ {w}
    BY <1>3
  <2> QED
    BY <1>1, <1>3, <2>1, FS_RemoveElement
<1>4. CASE w \notin S /\ w \in T
  <2>1. T = S \cup {w}
    BY <1>4
  <2> QED
    BY <1>1, <1>4, <2>1, FS_AddElement
<1> QED
  BY <1>2, <1>3, <1>4

\* A worker marks or waits, not both.
LEMMA DisjointCount ==
  ASSUME TypeOK, NEW e \in Events
  PROVE  /\ Cardinality(Marking(e)) \in Nat /\ Cardinality(Waiting(e)) \in Nat
         /\ Cardinality(Doomed(e)) \in Nat /\ Cardinality(Workers) \in Nat
         /\ Cardinality(Marking(e)) + Cardinality(Waiting(e)) <= Cardinality(Workers)
<1>1. /\ Marking(e) \subseteq Workers /\ Waiting(e) \subseteq Workers
      /\ Doomed(e) \subseteq Workers /\ Marking(e) \cap Waiting(e) = {}
  BY DEF Marking, Waiting, Doomed
<1>2. /\ IsFiniteSet(Marking(e)) /\ IsFiniteSet(Waiting(e)) /\ IsFiniteSet(Doomed(e))
      /\ IsFiniteSet(Workers)
  BY <1>1, OutboxAssumption, FS_Subset
<1>3. Cardinality(Marking(e) \cup Waiting(e)) = Cardinality(Marking(e)) + Cardinality(Waiting(e))
  <2>1. Cardinality(Marking(e) \cap Waiting(e)) = 0
    BY <1>1, FS_EmptySet
  <2>2. Cardinality(Marking(e) \cup Waiting(e)) =
          Cardinality(Marking(e)) + Cardinality(Waiting(e)) - Cardinality(Marking(e) \cap Waiting(e))
    BY <1>2, FS_Union
  <2>3. Cardinality(Marking(e)) \in Nat /\ Cardinality(Waiting(e)) \in Nat
    BY <1>2, FS_CardinalityType
  <2> QED
    BY <2>1, <2>2, <2>3
<1>4. Cardinality(Marking(e) \cup Waiting(e)) <= Cardinality(Workers)
  BY <1>1, <1>2, FS_Subset
<1> QED
  BY <1>2, <1>3, <1>4, FS_CardinalityType

\* A step of w moves at most w in and out of the three sets.
LEMMA OnlyActorMoves ==
  ASSUME TypeOK, NEW w \in Workers, Act(w), NEW e \in Events
  PROVE  /\ Marking(e)' \in SUBSET Workers /\ Marking(e) \in SUBSET Workers
         /\ Waiting(e)' \in SUBSET Workers /\ Waiting(e) \in SUBSET Workers
         /\ Doomed(e)' \in SUBSET Workers /\ Doomed(e) \in SUBSET Workers
         /\ Marking(e) \ {w} = Marking(e)' \ {w}
         /\ Waiting(e) \ {w} = Waiting(e)' \ {w}
         /\ Doomed(e) \ {w} = Doomed(e)' \ {w}
<1>1. \A u \in Workers \ {w} : /\ batch'[u] = batch[u] /\ cancelled'[u] = cancelled[u]
                               /\ AtMark(u, e)' = AtMark(u, e)
  BY WorkerFrame
<1> QED
  BY <1>1 DEF Marking, Waiting, Doomed

\* No statement of a worker publishes an event without a worker to mark it or a
\* fault to answer for it.
LEMMA BudgetByWorkers ==
  ASSUME Accounted, NEW w \in Workers, Act(w), NEW e \in Events, TypeOK'
  PROVE  Budget(e)'
<1> DEFINE M == Cardinality(Marking(e))   M1 == Cardinality(Marking(e)')
           D == Cardinality(Doomed(e))    D1 == Cardinality(Doomed(e)')
           W == Cardinality(Waiting(e))   W1 == Cardinality(Waiting(e)')
<1>0. /\ Budget(e) /\ TypeOK /\ Clock /\ BatchesCommitted
      /\ faults \in Nat /\ published[e] \in Nat /\ faults' \in Nat /\ published'[e] \in Nat
      /\ batch \in [Workers -> SUBSET Events] /\ cancelled \in [Workers -> BOOLEAN]
      /\ phase \in [Workers -> {"tick", "publish", "mark"}]
      /\ row \in [Events -> {"none", "uncommitted", "rolledBack", "unpublished", "published"}]
      /\ published \in [Events -> Nat]
  BY DEF Accounted, Delivered, TypeOK
<1>1. M \in Nat /\ W \in Nat /\ D \in Nat /\ Cardinality(Workers) \in Nat
      /\ M + W <= Cardinality(Workers)
  BY <1>0, DisjointCount
<1>2. /\ M1 \in Nat
      /\ (w \in Marking(e) <=> w \in Marking(e)') => M1 = M
      /\ w \in Marking(e) /\ w \notin Marking(e)' => M1 = M - 1
      /\ w \notin Marking(e) /\ w \in Marking(e)' => M1 = M + 1
  BY <1>0, OnlyActorMoves, OneMoves
<1>3. /\ W1 \in Nat
      /\ (w \in Waiting(e) <=> w \in Waiting(e)') => W1 = W
      /\ w \in Waiting(e) /\ w \notin Waiting(e)' => W1 = W - 1
      /\ w \notin Waiting(e) /\ w \in Waiting(e)' => W1 = W + 1
  BY <1>0, OnlyActorMoves, OneMoves
<1>4. /\ D1 \in Nat
      /\ (w \in Doomed(e) <=> w \in Doomed(e)') => D1 = D
      /\ w \in Doomed(e) /\ w \notin Doomed(e)' => D1 = D - 1
      /\ w \notin Doomed(e) /\ w \in Doomed(e)' => D1 = D + 1
  BY <1>0, OnlyActorMoves, OneMoves
<1>5. Budget(e)' <=>
        /\ row'[e] = "unpublished" => published'[e] + D1 <= faults' + M1
        /\ row'[e] = "published" => published'[e] + W1 <= Cardinality(Workers) + faults'
  BY DEF Budget
<1>6. /\ row[e] = "unpublished" => published[e] + D <= faults + M
      /\ row[e] = "published" => published[e] + W <= Cardinality(Workers) + faults
  BY <1>0 DEF Budget
<1> HIDE DEF M, M1, D, D1, W, W1
<1>7. CASE List(w)
  <2>1. UNCHANGED <<row, published, faults>>
    BY <1>7 DEF List, table
  <2>2. w \notin Marking(e) /\ w \notin Waiting(e) /\ w \notin Doomed(e)
    BY <1>0, <1>7 DEF List, Marking, Waiting, Doomed, AtMark, TypeOK
  <2>3. w \notin Marking(e)' /\ w \notin Doomed(e)'
    BY <1>0, <1>7 DEF List, Marking, Waiting, Doomed, AtMark
  <2>4. w \in Waiting(e)' => row[e] = "unpublished"
    BY <1>0, <1>7 DEF List, Waiting, Unpublished
  <2> QED
    BY <1>0, <1>1, <1>2, <1>3, <1>4, <1>5, <1>6, <2>1, <2>2, <2>3, <2>4
<1>8. CASE Publish(w)
  <2>1. PICK f \in batch[w] : IsCurrent(w, f) /\ published' = [published EXCEPT ![f] = @ + 1]
    BY <1>8 DEF Publish
  <2>2. /\ phase[w] = "publish" /\ phase'[w] = "mark"
        /\ UNCHANGED <<row, createdAt, batch, cancelled, faults>>
    BY <1>0, <1>8 DEF Publish, table
  <2>3. AtMark(w, e)' <=> e = f
    BY <2>1, <2>2, <1>0, OneCurrent DEF AtMark, IsCurrent
  <2>4. w \notin Marking(e) /\ (w \in Waiting(e) <=> e \in batch[w])
    BY <2>2 DEF Marking, Waiting, AtMark
  <2>5. CASE e = f
    <3>1. /\ w \in Waiting(e) /\ w \notin Waiting(e)' /\ w \notin Doomed(e)'
          /\ w \in Marking(e)' <=> ~cancelled[w]
          /\ w \in Doomed(e) <=> cancelled[w]
      BY <2>1, <2>2, <2>3, <2>4, <2>5 DEF Marking, Waiting, Doomed
    <3>2. published'[e] = published[e] + 1
      BY <1>0, <2>1, <2>5
    <3> QED
      BY <1>0, <1>1, <1>2, <1>3, <1>4, <1>5, <1>6, <2>2, <2>4, <3>1, <3>2
  <2>6. CASE e # f
    <3>1. /\ w \notin Marking(e)' /\ (w \in Waiting(e)' <=> w \in Waiting(e))
          /\ w \in Doomed(e)' <=> w \in Doomed(e)
      BY <2>2, <2>3, <2>4, <2>6 DEF Marking, Waiting, Doomed
    <3>2. published'[e] = published[e]
      BY <1>0, <2>1, <2>6
    <3> QED
      BY <1>0, <1>1, <1>2, <1>3, <1>4, <1>5, <1>6, <2>2, <2>4, <3>1, <3>2
  <2> QED
    BY <2>5, <2>6
<1>9. CASE PublishFails(w)
  <2>1. /\ UNCHANGED <<row, published, cancelled>> /\ faults' >= faults /\ phase[w] = "publish"
        /\ batch'[w] \subseteq batch[w] /\ ~AtMark(w, e)'
    BY <1>0, <1>9, AdvanceStep DEF PublishFails, Fault, table
  <2>2. /\ w \notin Marking(e) /\ w \notin Marking(e)'
        /\ w \in Waiting(e)' => w \in Waiting(e)
        /\ w \in Doomed(e)' => w \in Doomed(e)
    BY <2>1 DEF Marking, Waiting, Doomed, AtMark
  <2> QED
    BY <1>0, <1>1, <1>2, <1>3, <1>4, <1>5, <1>6, <2>1, <2>2
<1>13. CASE PublishUnacknowledged(w)
  <2>1. PICK f \in batch[w] : /\ IsCurrent(w, f) /\ Advance(w, f)
                              /\ published' = [published EXCEPT ![f] = @ + 1]
    BY <1>13 DEF PublishUnacknowledged
  <2>2. /\ UNCHANGED <<row, cancelled>> /\ phase[w] = "publish"
        /\ batch'[w] = batch[w] \ {f} /\ ~AtMark(w, e)'
        /\ faults' = IF cancelled[w] THEN faults ELSE faults + 1
    BY <1>0, <1>13, <2>1, AdvanceStep DEF PublishUnacknowledged, Fault, table
  <2>3. /\ w \notin Marking(e) /\ w \notin Marking(e)'
        /\ w \in Waiting(e) <=> e \in batch[w]
        /\ w \in Waiting(e)' <=> e \in batch[w] /\ e # f
        /\ w \in Doomed(e) <=> e \in batch[w] /\ cancelled[w]
        /\ w \in Doomed(e)' <=> e \in batch[w] /\ e # f /\ cancelled[w]
    BY <2>2 DEF Marking, Waiting, Doomed, AtMark
  <2>4. published'[e] = IF e = f THEN published[e] + 1 ELSE published[e]
    BY <1>0, <2>1
  <2> QED
    BY <1>0, <1>1, <1>2, <1>3, <1>4, <1>5, <1>6, <2>1, <2>2, <2>3, <2>4
<1>10. CASE Mark(w) \/ MarkFails(w)
  <2>1. PICK f \in batch[w] : IsCurrent(w, f) /\ Advance(w, f)
                              /\ row' = IF Mark(w) THEN [row EXCEPT ![f] = "published"] ELSE row
    BY <1>10 DEF Mark, MarkFails, table
  <2>2. /\ phase[w] = "mark" /\ cancelled' = cancelled /\ published' = published
        /\ batch'[w] = batch[w] \ {f} /\ ~AtMark(w, e)'
    BY <1>10, <2>1, <1>0, AdvanceStep DEF Mark, MarkFails
  <2>3. AtMark(w, e) <=> e = f
    BY <1>0, <2>1, <2>2, OneCurrent DEF AtMark
  <2>4. /\ w \notin Marking(e)' /\ (w \in Marking(e) <=> ~cancelled[w] /\ e = f)
        /\ w \in Waiting(e)' <=> w \in Waiting(e)
        /\ w \in Doomed(e)' <=> w \in Doomed(e)
        /\ e = f => w \notin Waiting(e)
    BY <2>2, <2>3 DEF Marking, Waiting, Doomed
  <2>5. CASE Mark(w)
    <3>1. ~cancelled[w] /\ faults' = faults
      BY <2>5 DEF Mark
    <3>2. row'[e] = IF e = f THEN "published" ELSE row[e]
      BY <1>0, <2>1, <2>5
    <3>3. e = f => row[e] \in {"unpublished", "published"}
      BY <1>0, <2>1 DEF BatchesCommitted
    <3> QED
      BY <1>0, <1>1, <1>2, <1>3, <1>4, <1>5, <1>6, <2>2, <2>4, <3>1, <3>2, <3>3
  <2>6. CASE ~Mark(w)
    <3>1. row' = row /\ (faults' = IF cancelled[w] THEN faults ELSE faults + 1)
      BY <1>10, <2>1, <2>6 DEF MarkFails, Fault
    <3> QED
      BY <1>0, <1>1, <1>2, <1>3, <1>4, <1>5, <1>6, <2>2, <2>4, <3>1
  <2> QED
    BY <2>5, <2>6
<1>11. CASE Cancel(w)
  <2>1. /\ UNCHANGED <<row, createdAt, batch, phase, published>> /\ faults' = faults + 1
        /\ ~cancelled[w] /\ cancelled'[w]
    BY <1>0, <1>11 DEF Cancel, Fault, table
  <2>2. AtMark(w, e)' = AtMark(w, e)
    BY <2>1 DEF AtMark, IsCurrent
  <2>3. /\ w \notin Marking(e)' /\ (w \in Waiting(e)' <=> w \in Waiting(e)) /\ w \notin Doomed(e)
        /\ w \in Doomed(e)' <=> w \in Waiting(e)'
        /\ w \in Marking(e) => w \notin Waiting(e)
    BY <2>1, <2>2 DEF Marking, Waiting, Doomed
  <2> QED
    BY <1>0, <1>1, <1>2, <1>3, <1>4, <1>5, <1>6, <2>1, <2>3
<1>12. CASE Restart(w) \/ Crash(w)
  <2>1. /\ UNCHANGED <<row, published>> /\ batch'[w] = {}
        /\ \/ cancelled[w] /\ faults' = faults
           \/ faults' = faults + 1
    BY <1>0, <1>12 DEF Restart, Crash, Start, Fault, table
  <2>2. /\ w \notin Marking(e)' /\ w \notin Waiting(e)' /\ w \notin Doomed(e)'
        /\ cancelled[w] => w \notin Marking(e)
    BY <2>1 DEF Marking, Waiting, Doomed, AtMark, IsCurrent
  <2> QED
    BY <1>0, <1>1, <1>2, <1>3, <1>4, <1>5, <1>6, <2>1, <2>2
<1> QED
  BY <1>7, <1>8, <1>9, <1>10, <1>11, <1>12, <1>13 DEF Act, ProcessBatch

\* A row is in nobody's hands before its transaction commits.
LEMMA BudgetByOrders ==
  ASSUME Accounted, Orders, NEW e \in Events
  PROVE  Budget(e)'
<1>0. Budget(e) /\ Delivered /\ TypeOK
  BY DEF Accounted, Delivered
<1>1. /\ UNCHANGED <<batch, phase, cancelled, published, faults>>
      /\ \A w \in Workers : AtMark(w, e)' = AtMark(w, e)
  BY <1>0, OrderFrame DEF Delivered
<1>2. Marking(e)' = Marking(e) /\ Waiting(e)' = Waiting(e) /\ Doomed(e)' = Doomed(e)
  BY <1>1 DEF Marking, Waiting, Doomed
<1>3. /\ row'[e] = "published" => row[e] = "published"
      /\ row'[e] = "unpublished" => row[e] \in {"unpublished", "uncommitted"}
  BY <1>0 DEF Orders, StartOrder, CommitOrder, RollbackOrder, TypeOK
<1>4. CASE row[e] = "uncommitted"
  <2>1. published[e] = 0 /\ Doomed(e) = {}
    BY <1>0, <1>4 DEF Delivered, AnnouncedWasCommitted, BatchesCommitted, Waiting, Doomed, TypeOK
  <2>2. Cardinality(Doomed(e)) = 0 /\ Cardinality(Marking(e)) \in Nat /\ faults \in Nat
    BY <1>0, <2>1, DisjointCount, FS_EmptySet DEF TypeOK
  <2> QED
    BY <1>1, <1>2, <1>3, <1>4, <2>1, <2>2 DEF Budget
<1>5. CASE row[e] # "uncommitted"
  BY <1>0, <1>1, <1>2, <1>3, <1>5 DEF Budget
<1> QED
  BY <1>4, <1>5

\* The account is inductive on top of the delivery invariant.
THEOREM AccountedAlways == Spec => []Accounted
<1>1. Init => Accounted
  <2> SUFFICES ASSUME Init PROVE \A e \in Events : row[e] \notin {"unpublished", "published"}
    BY DeliveredInit DEF Accounted, Budget
  <2> QED
    BY DEF Init
<1>2. Accounted /\ [Next]_vars => Accounted'
  <2> SUFFICES ASSUME Accounted, [Next]_vars PROVE Accounted'
    OBVIOUS
  <2>1. Delivered'
    BY DeliveredStep DEF Accounted
  <2>2. CASE UNCHANGED vars
    BY <2>1, <2>2 DEF Accounted, Budget, Marking, Waiting, Doomed, AtMark, IsCurrent, vars, table,
                      worker
  <2> QED
    BY <2>1, <2>2, StepShapes, BudgetByOrders, BudgetByWorkers DEF Accounted, Delivered
<1> QED
  BY <1>1, <1>2, PTL DEF Spec

\* However many workers overlap and crash, an event goes out at most once per
\* worker and once more per fault.
THEOREM DuplicatesAreBounded == Spec => []DuplicatesNeedFaults
<1>1. Accounted => DuplicatesNeedFaults
  <2> SUFFICES ASSUME Accounted, NEW e \in Events
               PROVE  published[e] <= Cardinality(Workers) + faults
    BY DEF DuplicatesNeedFaults
  <2>1. /\ TypeOK /\ Budget(e) /\ published[e] \in Nat /\ faults \in Nat
        /\ published[e] > 0 => row[e] \in {"unpublished", "published"}
    BY DEF Accounted, Delivered, TypeOK, AnnouncedWasCommitted
  <2>2. /\ Cardinality(Marking(e)) \in Nat /\ Cardinality(Waiting(e)) \in Nat
        /\ Cardinality(Doomed(e)) \in Nat /\ Cardinality(Workers) \in Nat
        /\ Cardinality(Marking(e)) + Cardinality(Waiting(e)) <= Cardinality(Workers)
    BY <2>1, DisjointCount
  <2> QED
    BY <2>1, <2>2 DEF Budget
<1> QED
  BY <1>1, AccountedAlways, PTL
=============================================================================
