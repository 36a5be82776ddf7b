------------------------------- MODULE Outbox -------------------------------
(***************************************************************************)
(* The transactional outbox: CreateOrder transactions insert order.created *)
(* rows, and the OutboxWorker of each catalog process lists, publishes and *)
(* marks them.  Processes crash, shut down in the middle of a batch and    *)
(* start again.                                                            *)
(***************************************************************************)
EXTENDS Integers, FiniteSets

CONSTANTS
  Events,         \* the order.created events, one per CreateOrder transaction
  Workers,        \* the outbox workers, one per catalog process
  Undeliverable,  \* the events the broker refuses for good
  BatchLimit,     \* rows listed per tick (25 in the code)
  MaxFaults       \* bound on crashes, shutdowns and transient errors

ASSUME OutboxAssumption ==
  /\ IsFiniteSet(Events) /\ IsFiniteSet(Workers)
  /\ Undeliverable \subseteq Events
  /\ BatchLimit \in Nat \ {0}
  /\ MaxFaults \in Nat

VARIABLES
  row,        \* the outbox row of each event, as other connections see it
  createdAt,  \* its created_at: the start of the transaction, 0 before
  batch,      \* the listed events each worker has still to deal with
  phase,      \* what each worker does next
  cancelled,  \* main has called workerCancel
  published,  \* how often each event was published
  faults      \* faults so far

table  == <<row, createdAt>>
worker == <<batch, phase, cancelled>>
vars   == <<table, worker, published, faults>>

Init ==
  /\ row = [e \in Events |-> "none"]
  /\ createdAt = [e \in Events |-> 0]
  /\ batch = [w \in Workers |-> {}]
  /\ phase = [w \in Workers |-> "tick"]
  /\ cancelled = [w \in Workers |-> FALSE]
  /\ published = [e \in Events |-> 0]
  /\ faults = 0

Fault == faults < MaxFaults /\ faults' = faults + 1

-----------------------------------------------------------------------------
(* The CreateOrder transactions.  created_at is NOW(), the start of the     *)
(* transaction, so rows become visible in another order than created_at's.  *)

Started == {e \in Events : createdAt[e] # 0}

StartOrder(e) ==
  /\ row[e] = "none"
  /\ row' = [row EXCEPT ![e] = "uncommitted"]
  /\ createdAt' = [createdAt EXCEPT ![e] = Cardinality(Started) + 1]
  /\ UNCHANGED <<worker, published, faults>>

CommitOrder(e) ==
  /\ row[e] = "uncommitted"
  /\ row' = [row EXCEPT ![e] = "unpublished"]
  /\ UNCHANGED <<createdAt, worker, published, faults>>

RollbackOrder(e) ==
  /\ row[e] = "uncommitted"
  /\ row' = [row EXCEPT ![e] = "rolledBack"]
  /\ UNCHANGED <<createdAt, worker, published, faults>>

-----------------------------------------------------------------------------
(* ProcessBatch.                                                           *)

\* Mutant: rows are announced before their transaction commits.
UncommittedToo == {e \in Events : row[e] \in {"uncommitted", "unpublished"}}
Unpublished == {e \in Events : row[e] = "unpublished"}

\* The rows SELECT ... ORDER BY created_at LIMIT BatchLimit returns.
IsListing(S) ==
  /\ S \subseteq Unpublished
  /\ Cardinality(S) <= BatchLimit
  /\ Cardinality(S) < BatchLimit => S = Unpublished
  /\ \A e \in S, f \in Unpublished \ S : createdAt[e] < createdAt[f]

List(w) ==
  /\ phase[w] = "tick" /\ ~cancelled[w]
  /\ \E S \in SUBSET Unpublished :
       /\ IsListing(S) /\ S # {}
       /\ batch' = [batch EXCEPT ![w] = S]
  /\ phase' = [phase EXCEPT ![w] = "publish"]
  /\ UNCHANGED <<table, cancelled, published, faults>>

\* The event the loop of w is at.
IsCurrent(w, e) == e \in batch[w] /\ \A f \in batch[w] : createdAt[e] <= createdAt[f]

\* Mutant: the loop does not notice that its batch is empty.
AdvanceOnly(w, e) ==
  /\ batch' = [batch EXCEPT ![w] = @ \ {e}]
  /\ phase' = [phase EXCEPT ![w] = "publish"]

\* End of the loop body: the next event, or the next tick.
Advance(w, e) ==
  /\ batch' = [batch EXCEPT ![w] = @ \ {e}]
  /\ phase' = [phase EXCEPT ![w] = IF batch[w] = {e} THEN "tick" ELSE "publish"]

Publish(w) ==
  /\ phase[w] = "publish"
  /\ \E e \in batch[w] \ Undeliverable :
       /\ IsCurrent(w, e)
       /\ published' = [published EXCEPT ![e] = @ + 1]
  /\ phase' = [phase EXCEPT ![w] = "mark"]
  /\ UNCHANGED <<table, batch, cancelled, faults>>

\* Mutants: no "continue" after a failed Publish; "return" in its place.
PublishFailsThenMarks(w) ==
  /\ phase[w] = "publish"
  /\ phase' = [phase EXCEPT ![w] = "mark"]
  /\ UNCHANGED <<table, batch, cancelled, published, faults>>
PublishFailsReturns(w) ==
  /\ phase[w] = "publish"
  /\ \E e \in batch[w] \cap Undeliverable : IsCurrent(w, e)
  /\ batch' = [batch EXCEPT ![w] = {}]
  /\ phase' = [phase EXCEPT ![w] = "tick"]
  /\ UNCHANGED <<table, cancelled, published, faults>>

\* Publish returns an error, as it may on a cancelled context: the row is left for a
\* later tick.
PublishFails(w) ==
  /\ phase[w] = "publish"
  /\ \E e \in batch[w] :
       /\ IsCurrent(w, e)
       /\ IF e \in Undeliverable \/ cancelled[w] THEN UNCHANGED faults ELSE Fault
       /\ Advance(w, e)
  /\ UNCHANGED <<table, cancelled, published>>

\* Publish takes effect and returns an error all the same.
PublishUnacknowledged(w) ==
  /\ phase[w] = "publish"
  /\ IF cancelled[w] THEN UNCHANGED faults ELSE Fault
  /\ \E e \in batch[w] \ Undeliverable :
       /\ IsCurrent(w, e)
       /\ published' = [published EXCEPT ![e] = @ + 1]
       /\ Advance(w, e)
  /\ UNCHANGED <<table, cancelled>>

\* Mutant: the UPDATE matches no row.
MarkNothing(w) ==
  /\ phase[w] = "mark" /\ ~cancelled[w]
  /\ \E e \in batch[w] : IsCurrent(w, e) /\ Advance(w, e)
  /\ UNCHANGED <<table, cancelled, published, faults>>

Mark(w) ==
  /\ phase[w] = "mark" /\ ~cancelled[w]
  /\ \E e \in batch[w] :
       /\ IsCurrent(w, e)
       /\ row' = [row EXCEPT ![e] = "published"]
       /\ Advance(w, e)
  /\ UNCHANGED <<createdAt, cancelled, published, faults>>

\* The UPDATE fails, or runs on the cancelled context: logged and passed over.
\* (One that takes effect and reports an error leaves the state Mark leaves.)
MarkFails(w) ==
  /\ phase[w] = "mark"
  /\ IF cancelled[w] THEN UNCHANGED faults ELSE Fault
  /\ \E e \in batch[w] : IsCurrent(w, e) /\ Advance(w, e)
  /\ UNCHANGED <<table, cancelled, published>>

-----------------------------------------------------------------------------
(* The life of the process.                                                *)

\* SIGTERM: main cancels the worker's context and does not wait for it.
Cancel(w) ==
  /\ ~cancelled[w]
  /\ Fault
  /\ cancelled' = [cancelled EXCEPT ![w] = TRUE]
  /\ UNCHANGED <<table, batch, phase, published>>

Start(w) ==
  /\ batch' = [batch EXCEPT ![w] = {}]
  /\ phase' = [phase EXCEPT ![w] = "tick"]
  /\ cancelled' = [cancelled EXCEPT ![w] = FALSE]
  /\ UNCHANGED <<table, published>>

\* main returns, wherever the worker is, and the service is started again.
Restart(w) == cancelled[w] /\ Start(w) /\ UNCHANGED faults

Crash(w) == Fault /\ Start(w)

-----------------------------------------------------------------------------

ProcessBatch(w) ==
  \/ List(w) \/ Publish(w) \/ PublishFails(w) \/ PublishUnacknowledged(w)
  \/ Mark(w) \/ MarkFails(w)

Orders  == \E e \in Events : StartOrder(e) \/ CommitOrder(e) \/ RollbackOrder(e)
Process == \E w \in Workers : Cancel(w) \/ Restart(w) \/ Crash(w)

\* Nothing left to publish: the ticker goes on and the worker lists no row.
Idle ==
  /\ \A e \in Events : row[e] \in {"published", "rolledBack"}
  /\ \A w \in Workers : phase[w] = "tick"
  /\ UNCHANGED vars

Next == Orders \/ (\E w \in Workers : ProcessBatch(w)) \/ Process \/ Idle

Spec == Init /\ [][Next]_vars

\* The ticker keeps ticking, the loop of a listed batch goes on, and a service
\* that is shut down is started again.
FairSpec ==
  Spec /\ \A w \in Workers : WF_vars(ProcessBatch(w)) /\ WF_vars(Restart(w))

-----------------------------------------------------------------------------
(* Properties.                                                             *)

TypeOK ==
  /\ row \in [Events -> {"none", "uncommitted", "rolledBack", "unpublished",
                         "published"}]
  /\ createdAt \in [Events -> Nat]
  /\ batch \in [Workers -> SUBSET Events]
  /\ phase \in [Workers -> {"tick", "publish", "mark"}]
  /\ \A w \in Workers : phase[w] = "tick" <=> batch[w] = {}
  /\ cancelled \in [Workers -> BOOLEAN]
  /\ published \in [Events -> Nat]
  /\ faults \in Nat

\* At least once: a row is marked only if its event was published, so no crash or
\* shutdown between the two statements drops an event (outbox_worker.go:34-35).
MarkedWasPublished ==
  \A e \in Events : row[e] = "published" => published[e] > 0

\* Only committed orders are announced.
AnnouncedWasCommitted ==
  \A e \in Events : published[e] > 0 => row[e] \in {"unpublished", "published"}

\* Duplicates are accounted for: apart from one per further worker, which may list
\* a row another one is publishing, each takes a fault of its own.
DuplicatesNeedFaults ==
  \A e \in Events : published[e] <= Cardinality(Workers) + faults

\* Every committed event the broker accepts is in the end published and marked,
\* as long as those it refuses do not fill a whole listing.
CommittedIsPublished ==
  \A e \in Events \ Undeliverable : row[e] = "unpublished" ~> row[e] = "published"
=============================================================================
