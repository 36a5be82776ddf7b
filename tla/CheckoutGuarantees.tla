------------------------- MODULE CheckoutGuarantees -------------------------
(***************************************************************************)
(* Proofs of what the checkout owes its clients: orders are atomic,        *)
(* refusals are free and true, answers agree, commits are final, only      *)
(* orders with crossed lines can deadlock, and the whole implements the    *)
(* atomic shop.  They rest on the inductive invariant of CheckoutProofs.   *)
(***************************************************************************)
EXTENDS CheckoutProofs, SumTheorems

-----------------------------------------------------------------------------
(* Who is answered by a step, and how.                                     *)

\* Other calls are where they were.
Bystanders(t) ==
  \A u \in Calls \ {t} : pc'[u] = pc[u] /\ req'[u] = req[u] /\ answer'[u] = answer[u]

\* t runs a statement and is not answered.
Silent(t) ==
  /\ pc[t] # "done" /\ pc'[t] # "done" /\ answer'[t] = answer[t]
  /\ UNCHANGED tables

\* The use case turns the request of t down.
Reject(t) ==
  /\ pc[t] = "idle" /\ pc'[t] = "done"
  /\ UNCHANGED <<tables, txn>>
  /\ \E r \in Requests :
       /\ Validate(r) # "ok"
       /\ req'[t] = [r EXCEPT !.user = StoredUser(r.user)]
       /\ answer'[t] = [result |-> Validate(r), order |-> Nobody]

\* t is rolled back; short of stock only if its UPDATE matched no row.
GiveUp(t) ==
  /\ Abandon(t)
  /\ answer'[t].order = Nobody
  /\ answer'[t].result \in Refusal \cup {"Internal"}
  /\ answer'[t].result = "ErrInsufficientStock" => DecrementNoRows(t)

\* t commits; the client may not hear of it.
Settle(t) ==
  /\ Finish(t)
  /\ answer'[t] \in {[result |-> "ok", order |-> IF IsOrder(t) THEN t ELSE Nobody],
                     [result |-> "Internal", order |-> Nobody]}

\* Every step of a call answers it alone or nobody, in one of four ways.
LEMMA AnswerShapes ==
  ASSUME Types, NEW t \in Calls, Act(t)
  PROVE  /\ Bystanders(t)
         /\ Silent(t) \/ Reject(t) \/ ReplayOrder(t) \/ GiveUp(t) \/ Settle(t)
<1>0. /\ pc \in [Calls -> Labels] /\ req \in [Calls -> Request \cup {Nobody}]
      /\ answer \in [Calls -> [result : Result, order : Calls \cup {Nobody}]]
  BY DEF Types, TypeOK
<1>1. ASSUME Receive(t)
      PROVE  Bystanders(t) /\ (Silent(t) \/ Reject(t))
  BY <1>0, <1>1 DEF Receive, Bystanders, Silent, Reject, Goto, Reply
<1>2. ASSUME \/ Begin(t) \/ LookupOrder(t) \/ Snapshot(t) \/ ReservationAbsent(t)
             \/ Decrement(t) \/ InsertOrder(t) \/ InsertOutbox(t)
      PROVE  Bystanders(t) /\ Silent(t)
  BY <1>0, <1>2 DEF Begin, LookupOrder, Snapshot, ReservationAbsent, Decrement, InsertOrder,
                    InsertOutbox, Bystanders, Silent, Goto
<1>3. ASSUME pc[t] \in {"reserve", "register"}, LineReserved(t),
             UNCHANGED <<tables, req, answer>>
      PROVE  Bystanders(t) /\ Silent(t)
  <2>1. PICK l \in {"reserve", "insertOrder", "commit"} : Goto(t, l)
    BY <1>3, LineReservedStep
  <2> QED
    BY <1>0, <1>3, <2>1 DEF Bystanders, Silent, Goto
<1>4. ASSUME ReplayOrder(t) PROVE Bystanders(t)
  BY <1>0, <1>4 DEF ReplayOrder, Bystanders, Reply, Goto
<1>5. ASSUME NEW e \in Refusal \cup {"Internal"}, pc[t] \notin {"idle", "done"},
             Refuse(t, e), e = "ErrInsufficientStock" => DecrementNoRows(t)
      PROVE  Bystanders(t) /\ GiveUp(t)
  BY <1>0, <1>5 DEF Refuse, Reply, Goto, Bystanders, GiveUp, Abandon
<1>6. ASSUME ReservationFound(t)
      PROVE  Bystanders(t) /\ (Silent(t) \/ GiveUp(t))
  <2>1. pc[t] = "reserve"
    BY <1>6 DEF ReservationFound
  <2>2. CASE Refuse(t, "ErrDuplicateReservation")
    BY <1>5, <2>1, <2>2 DEF Refusal
  <2>3. CASE LineReserved(t) /\ UNCHANGED <<tables, txn, req, answer>>
    BY <1>3, <2>1, <2>3
  <2> QED
    BY <1>6, <2>2, <2>3 DEF ReservationFound
<1>7. ASSUME Register(t) PROVE Bystanders(t) /\ Silent(t)
  BY <1>3, <1>7 DEF Register
<1>8. ASSUME SnapshotMissing(t) \/ DecrementNoRows(t) \/ RegisterDuplicate(t)
               \/ InsertOrderDuplicate(t) \/ Fail(t) \/ DeadlockVictim(t)
      PROVE  Bystanders(t) /\ GiveUp(t)
  <2>1. CASE DecrementNoRows(t)
    BY <1>5, <2>1 DEF DecrementNoRows, Refusal
  <2>2. CASE Fail(t)
    BY <1>5, <2>2 DEF Fail, InTx
  <2>3. CASE DeadlockVictim(t)
    <3>1. pc[t] \in {"decrement", "register", "insertOrder"}
      BY <2>3 DEF DeadlockVictim, WaitCycle, WaitsFor
    <3> QED
      BY <1>5, <2>3, <3>1 DEF DeadlockVictim
  <2>4. CASE SnapshotMissing(t) \/ RegisterDuplicate(t) \/ InsertOrderDuplicate(t)
    BY <1>5, <2>4 DEF SnapshotMissing, RegisterDuplicate, InsertOrderDuplicate, Refusal
  <2> QED
    BY <1>8, <2>1, <2>2, <2>3, <2>4
<1>9. ASSUME Commit(t) \/ CommitUnacknowledged(t)
      PROVE  Bystanders(t) /\ Settle(t)
  BY <1>0, <1>9 DEF Commit, CommitUnacknowledged, CommitTables, Reply, Goto, Bystanders, Settle,
                    Finish
<1> QED
  BY <1>1, <1>2, <1>4, <1>6, <1>7, <1>8, <1>9
     DEF Act, Progress, ReserveStep, OrderStep

-----------------------------------------------------------------------------
(* What an open CreateOrder has written so far.                            *)

LineRow(t, i) == [key |-> <<t, req[t].items[i].cab>>, cab |-> req[t].items[i].cab,
                  qty |-> req[t].items[i].qty]

LinesDone(t) ==
  IF pc[t] \in {"insertOrder", "insertOutbox", "commit"} THEN Len(req[t].items) ELSE line[t] - 1

\* An open order has reserved its lines up to the current one, and nothing else.
RowsOf(t) ==
  pc[t] \notin {"idle", "done"} /\ IsOrder(t) =>
    pending[t] = {LineRow(t, i) : i \in 1 .. LinesDone(t)}

\* A call that is not done has no answer, and nothing of it is in the tables.
UnansweredOf(t) ==
  pc[t] # "done" =>
    /\ answer[t] = [result |-> "none", order |-> Nobody]
    /\ t \notin outbox /\ \A o \in orders : o.id # t
    /\ \A r \in reservations : r.key \notin {t} \X CabinetIds

OpenCalls == \A t \in Calls : RowsOf(t) /\ UnansweredOf(t)

\* The rows of a commit carry the client's key or the order's.
LEMMA CommittedKeys ==
  ASSUME Ledger, NEW t \in Calls, pc[t] \notin {"idle", "done"}, NEW r \in pending[t]
  PROVE  IF IsOrder(t) THEN r.key = <<t, r.cab>> /\ r.cab \in CabinetIds ELSE r.key \in Keys
<1>1. r \in Reservation
  BY DEF Ledger, Types, TypeOK
<1>2. r.cab \in CabinetIds
  BY <1>1, CheckoutAssumption DEF Reservation
<1>3. req[t].key \in Keys
  BY CurrentLine DEF Ledger, Types, Request
<1> QED
  BY <1>2, <1>3 DEF Ledger, PendingOK, PendingOf

\* A statement that leaves the rows and the lines of an order alone keeps RowsOf.
LEMMA RowsKept ==
  ASSUME Types, NEW t \in Calls, RowsOf(t),
         pending'[t] = pending[t], req'[t] = req[t],
         pc'[t] \notin {"idle", "done"} => pc[t] \notin {"idle", "done"},
         IsOrder(t) => LinesDone(t)' = LinesDone(t)
  PROVE  RowsOf(t)'
<1>1. IsOrder(t)' = IsOrder(t) /\ \A i : LineRow(t, i)' = LineRow(t, i)
  BY DEF IsOrder, LineRow
<1>2. CASE pc'[t] \notin {"idle", "done"} /\ IsOrder(t)
  <2>1. pending[t] = {LineRow(t, i) : i \in 1 .. LinesDone(t)}
    BY <1>2 DEF RowsOf
  <2>2. {LineRow(t, i)' : i \in 1 .. LinesDone(t)'} = {LineRow(t, i) : i \in 1 .. LinesDone(t)}
    BY <1>1, <1>2
  <2> QED
    BY <2>1, <2>2 DEF RowsOf
<1>3. CASE ~(pc'[t] \notin {"idle", "done"} /\ IsOrder(t))
  BY <1>1, <1>3 DEF RowsOf
<1> QED
  BY <1>2, <1>3

\* LineReserved counts one more line.
LEMMA LineCounted ==
  ASSUME Types, NEW t \in Calls, pc[t] \in {"reserve", "register"}, LineReserved(t), req' = req,
         IsOrder(t)
  PROVE  LinesDone(t)' = LinesDone(t) + 1 /\ LinesDone(t) + 1 = line[t]
<1>0. /\ line \in [Calls -> Nat \ {0}] /\ line[t] \in 1 .. Len(req[t].items)
      /\ Len(req[t].items) \in Nat /\ pc \in [Calls -> Labels]
  <2>1. TypeOK /\ RequestOf(t)
    BY DEF Types, RequestOK
  <2>2. req[t].items \in Seq(Item)
    BY CurrentLine DEF Types
  <2>3. line[t] \in 1 .. Len(req[t].items)
    BY <2>1 DEF RequestOf
  <2>4. line \in [Calls -> Nat \ {0}] /\ pc \in [Calls -> Labels]
    BY <2>1 DEF TypeOK
  <2> QED
    BY <2>2, <2>3, <2>4
<1>1. LinesDone(t) = line[t] - 1
  BY DEF LinesDone
<1>2. CASE line[t] < Len(req[t].items)
  <2>1. pc'[t] = "reserve" /\ line'[t] = line[t] + 1
    BY <1>0, <1>2 DEF LineReserved, Goto
  <2> QED
    BY <1>0, <1>1, <2>1 DEF LinesDone
<1>3. CASE ~(line[t] < Len(req[t].items))
  <2>1. pc'[t] = "insertOrder" /\ line[t] = Len(req[t].items)
    BY <1>0, <1>3 DEF LineReserved, Goto
  <2> QED
    BY <1>0, <1>1, <2>1 DEF LinesDone
<1> QED
  BY <1>2, <1>3

\* A step of t touches nothing another call holds.
LEMMA OthersKept ==
  ASSUME Types, NEW t \in Calls, Act(t), NEW u \in Calls \ {t}
  PROVE  /\ pc'[u] = pc[u] /\ req'[u] = req[u] /\ line'[u] = line[u]
         /\ pending'[u] = pending[u] /\ answer'[u] = answer[u]
<1>0. pending \in [Calls -> SUBSET Reservation] /\ pc \in [Calls -> Labels]
  BY DEF Types, TypeOK
<1>1. pc'[u] = pc[u] /\ req'[u] = req[u] /\ answer'[u] = answer[u]
  BY AnswerShapes DEF Bystanders
<1>2. CASE Move(t)
  BY <1>1, <1>2 DEF Move, txn
<1>3. CASE Abandon(t) \/ Finish(t)
  BY <1>0, <1>1, <1>3 DEF Abandon, Refuse, Rollback, Finish, CommitTables
<1>4. CASE Decrement(t)
  BY <1>1, <1>4 DEF Decrement
<1>5. CASE Register(t)
  <2>1. pc[t] = "register" /\ LineReserved(t)
        /\ pending' = [pending EXCEPT ![t] = @ \cup {NewReservation(t)}]
    BY <1>5 DEF Register, NewReservation
  <2>2. line'[u] = line[u]
    BY <2>1, LineReservedStep
  <2> QED
    BY <1>0, <1>1, <2>1, <2>2
<1> QED
  BY <1>2, <1>3, <1>4, <1>5, CallShapes

\* The line ReserveStockOnTx returns from is counted, and its row is there.
LEMMA LineAdded ==
  ASSUME Types, NEW t \in Calls, pc[t] \in {"reserve", "register"}, LineReserved(t), req' = req,
         RowsOf(t), pending'[t] = pending[t] \cup {LineRow(t, line[t])}
  PROVE  RowsOf(t)'
<1> SUFFICES ASSUME IsOrder(t)
             PROVE  pending'[t] = {LineRow(t, i)' : i \in 1 .. LinesDone(t)'}
  BY DEF RowsOf, IsOrder
<1>1. LinesDone(t)' = LinesDone(t) + 1 /\ LinesDone(t) + 1 = line[t]
  BY LineCounted
<1>2. line[t] \in Nat \ {0} /\ LinesDone(t) = line[t] - 1
  BY DEF Types, TypeOK, LinesDone
<1>3. \A i : LineRow(t, i)' = LineRow(t, i)
  BY DEF LineRow
<1>4. pending[t] = {LineRow(t, i) : i \in 1 .. LinesDone(t)}
  BY DEF RowsOf
<1>5. 1 .. LinesDone(t)' = (1 .. LinesDone(t)) \cup {line[t]}
  BY <1>1, <1>2
<1> QED
  BY <1>3, <1>4, <1>5

\* Every statement keeps the rows of an open order in step with its lines.
LEMMA RowsStep ==
  ASSUME Ledger, OpenCalls, NEW t \in Calls, Act(t)
  PROVE  RowsOf(t)'
<1>0. /\ pc \in [Calls -> Labels] /\ pending \in [Calls -> SUBSET Reservation]
      /\ reservations \subseteq Reservation /\ Types /\ RowsOf(t) /\ UnansweredOf(t)
  BY DEF Ledger, OpenCalls, Types, TypeOK
<1>1. CASE Receive(t)
  <2>1. line'[t] = 1 /\ pending'[t] = {} /\ pc'[t] \in {"begin", "done"}
    BY <1>0, <1>1 DEF Receive, Goto, Reply, txn, Ledger, PendingOK, PendingOf, Types, RequestOK,
                      RequestOf
  <2>2. LinesDone(t)' = 0 \/ pc'[t] = "done"
    BY <2>1 DEF LinesDone
  <2> QED
    BY <2>1, <2>2 DEF RowsOf
<1>2. CASE \/ Begin(t) \/ LookupOrder(t) \/ Snapshot(t) \/ ReservationAbsent(t)
           \/ Decrement(t) \/ InsertOrder(t) \/ InsertOutbox(t)
  <2>1. /\ pending' = pending /\ req' = req /\ line' = line /\ pc[t] \notin {"idle", "done"}
        /\ pc'[t] \in {"insertOrder", "insertOutbox", "commit"} <=>
             pc[t] \in {"insertOrder", "insertOutbox", "commit"}
    BY <1>0, <1>2 DEF Begin, LookupOrder, Snapshot, ReservationAbsent, Decrement, InsertOrder,
                      InsertOutbox, Goto, txn
  <2>2. LinesDone(t)' = LinesDone(t)
    BY <2>1 DEF LinesDone
  <2> QED
    BY <1>0, <2>1, <2>2, RowsKept
<1>3. CASE ReservationFound(t) /\ pc'[t] # "done"
  <2>1. PICK r \in Visible(t) :
          /\ r.key = StockKey(t) /\ r.cab = This(t).cab /\ r.qty = This(t).qty
          /\ LineReserved(t) /\ UNCHANGED <<tables, txn, req, answer>>
    <3>1. ~Refuse(t, "ErrDuplicateReservation")
      BY <1>0, <1>3 DEF Refuse, Reply, Goto
    <3> QED
      BY <1>3, <3>1 DEF ReservationFound
  <2>2. pc[t] = "reserve"
    BY <1>3 DEF ReservationFound
  <2>3. CASE IsOrder(t)
    <3>1. This(t).cab \in CabinetIds
      BY <1>0, <2>2, CurrentLine DEF Types
    <3>2. r \in pending[t]
      <4>1. \A s \in reservations : s.key \notin {t} \X CabinetIds
        BY <1>0, <2>2 DEF UnansweredOf
      <4>2. r.key \in {t} \X CabinetIds
        BY <2>1, <2>3, <3>1 DEF StockKey
      <4> QED
        BY <4>1, <4>2 DEF Visible
    <3>3. r = LineRow(t, line[t])
      <4>1. r \in Reservation
        BY <1>0, <3>2
      <4>2. r = [key |-> r.key, cab |-> r.cab, qty |-> r.qty]
        BY <4>1 DEF Reservation
      <4>3. r.key = <<t, This(t).cab>>
        BY <2>1, <2>3 DEF StockKey
      <4> QED
        BY <2>1, <4>2, <4>3 DEF LineRow, This
    <3>4. pending'[t] = pending[t] \cup {LineRow(t, line[t])}
      BY <2>1, <3>2, <3>3 DEF txn
    <3> QED
      BY <1>0, <2>1, <2>2, <3>4, LineAdded
  <2>4. CASE ~IsOrder(t)
    BY <2>1, <2>4 DEF RowsOf, IsOrder
  <2> QED
    BY <2>3, <2>4
<1>4. CASE Register(t)
  <2>1. /\ pc[t] = "register" /\ LineReserved(t) /\ req' = req
        /\ pending'[t] = pending[t] \cup {NewReservation(t)}
    BY <1>0, <1>4 DEF Register, NewReservation
  <2>2. CASE IsOrder(t)
    <3>1. NewReservation(t) = LineRow(t, line[t])
      BY <2>2 DEF NewReservation, LineRow, StockKey, This
    <3> QED
      BY <1>0, <2>1, <3>1, LineAdded
  <2>3. CASE ~IsOrder(t)
    BY <2>1, <2>3 DEF RowsOf, IsOrder
  <2> QED
    BY <2>2, <2>3
<1>5. CASE pc'[t] = "done"
  BY <1>5 DEF RowsOf
<1>6. ASSUME \/ SnapshotMissing(t) \/ DecrementNoRows(t) \/ RegisterDuplicate(t)
             \/ ReplayOrder(t) \/ InsertOrderDuplicate(t) \/ Fail(t)
             \/ DeadlockVictim(t) \/ Commit(t) \/ CommitUnacknowledged(t)
      PROVE  pc'[t] = "done"
  BY <1>0, <1>6 DEF SnapshotMissing, DecrementNoRows, RegisterDuplicate, ReplayOrder,
              InsertOrderDuplicate, Fail, DeadlockVictim, Commit, CommitUnacknowledged, Refuse,
              Reply, Goto
<1> QED
  BY <1>1, <1>2, <1>3, <1>4, <1>5, <1>6 DEF Act, Progress, ReserveStep, OrderStep

-----------------------------------------------------------------------------
(* What a commit does to the tables, and nothing else does.                *)

\* Committed rows only come from commits: those of the order, those of its lines.
LEMMA TablesGrow ==
  ASSUME Ledger, NEW t \in Calls, Act(t)
  PROVE  \/ UNCHANGED tables
         \/ /\ Settle(t) /\ pc[t] = "commit"
            /\ reservations' = reservations \cup pending[t]
            /\ orders' = orders \cup (IF IsOrder(t) THEN {NewOrder(t)} ELSE {})
            /\ outbox' = outbox \cup (IF IsOrder(t) THEN {t} ELSE {})
            /\ \A r \in pending[t] : IF IsOrder(t) THEN r.key \in {t} \X CabinetIds
                                                   ELSE r.key \in Keys
<1>1. CASE Silent(t) \/ Reject(t) \/ ReplayOrder(t) \/ GiveUp(t)
  BY <1>1 DEF Silent, Reject, ReplayOrder, GiveUp, Abandon, Refuse, Rollback, tables
<1>2. CASE Settle(t)
  <2>1. /\ pc[t] = "commit" /\ reservations' = reservations \cup pending[t]
        /\ orders' = orders \cup (IF IsOrder(t) THEN {NewOrder(t)} ELSE {})
        /\ outbox' = outbox \cup (IF IsOrder(t) THEN {t} ELSE {})
    BY <1>2 DEF Settle, Finish, CommitTables
  <2>2. ASSUME NEW r \in pending[t]
        PROVE  IF IsOrder(t) THEN r.key \in {t} \X CabinetIds ELSE r.key \in Keys
    BY <2>1, CommittedKeys
  <2> QED
    BY <1>2, <2>1, <2>2
<1> QED
  BY <1>1, <1>2, AnswerShapes DEF Ledger

\* Stock only falls: what a commit writes is its own reservation below the old stock.
LEMMA StockFalls ==
  ASSUME Ledger, NEW t \in Calls, Act(t), NEW c \in Cabinets
  PROVE  stock'[c] <= stock[c]
<1>0. /\ stock \in [Cabinets -> Nat] /\ draft \in [Cabinets -> Nat]
      /\ pending \in [Calls -> SUBSET Reservation]
  BY DEF Ledger, Types, TypeOK
<1>1. CASE UNCHANGED tables
  BY <1>0, <1>1 DEF tables
<1>2. CASE Settle(t)
  <2>1. pc[t] = "commit" /\ stock'[c] = IF rowLock[c] = t THEN draft[c] ELSE stock[c]
    BY <1>2 DEF Settle, Finish, CommitTables
  <2>2. CASE rowLock[c] = t
    <3>1. PICK r \in pending[t] : draft[c] = stock[c] - r.qty
      BY <2>1, <2>2 DEF Ledger, DraftExplained, RowExplained
    <3>2. r.qty \in Nat
      BY <1>0, <3>1 DEF Reservation
    <3> QED
      BY <1>0, <2>1, <2>2, <3>1, <3>2
  <2>3. CASE rowLock[c] # t
    BY <1>0, <2>1, <2>3
  <2> QED
    BY <2>2, <2>3
<1> QED
  BY <1>1, <1>2, TablesGrow

\* Every step keeps the tables free of calls that are not done.
LEMMA UnansweredStep ==
  ASSUME Ledger, OpenCalls, NEW t \in Calls, Act(t), NEW u \in Calls
  PROVE  UnansweredOf(u)'
<1>0. UnansweredOf(u) /\ Keys \cap (Calls \X CabinetIds) = {}
  BY CheckoutAssumption DEF OpenCalls
<1>1. ASSUME u = t, pc'[t] # "done" PROVE UnansweredOf(u)'
  <2>1. Silent(t)
    <3>1. ASSUME ReplayOrder(t) \/ GiveUp(t) \/ Settle(t) PROVE FALSE
      <4>1. Goto(t, "done") /\ pc \in [Calls -> Labels]
        BY <3>1 DEF ReplayOrder, GiveUp, Settle, Abandon, Refuse, Reply, Finish, Ledger, Types,
                    TypeOK
      <4> QED
        BY <1>1, <4>1 DEF Goto
    <3> QED
      BY <1>1, <3>1, AnswerShapes DEF Reject, Ledger
  <2> QED
    BY <1>0, <1>1, <2>1 DEF Silent, UnansweredOf, tables
<1>2. ASSUME u # t, pc'[u] # "done" PROVE UnansweredOf(u)'
  <2>1. pc[u] # "done" /\ answer'[u] = answer[u]
    BY <1>2, OthersKept DEF Ledger
  <2>2. CASE UNCHANGED tables
    BY <1>0, <2>1, <2>2 DEF UnansweredOf, tables
  <2>3. CASE /\ reservations' = reservations \cup pending[t]
             /\ orders' = orders \cup (IF IsOrder(t) THEN {NewOrder(t)} ELSE {})
             /\ outbox' = outbox \cup (IF IsOrder(t) THEN {t} ELSE {})
             /\ \A r \in pending[t] : IF IsOrder(t) THEN r.key \in {t} \X CabinetIds
                                                    ELSE r.key \in Keys
    <3>1. u \notin outbox' /\ \A o \in orders' : o.id # u
      BY <1>0, <1>2, <2>1, <2>3 DEF UnansweredOf, NewOrder
    <3>2. \A r \in pending[t] : r.key \notin {u} \X CabinetIds
      BY <1>0, <1>2, <2>3
    <3> QED
      BY <1>0, <2>1, <2>3, <3>1, <3>2 DEF UnansweredOf
  <2> QED
    BY <2>2, <2>3, TablesGrow
<1> QED
  BY <1>1, <1>2 DEF UnansweredOf

-----------------------------------------------------------------------------
(* The guarantees, one lemma each.                                         *)

\* The rows of the order t commits are the reservations of its lines.
LEMMA OrderAtomicStep ==
  ASSUME Ledger, OpenCalls, OrderIsAtomic, NEW t \in Calls, Act(t)
  PROVE  OrderIsAtomic'
<1>1. CASE UNCHANGED tables
  BY <1>1 DEF OrderIsAtomic, tables
<1>2. CASE /\ pc[t] = "commit" /\ IsOrder(t)
           /\ reservations' = reservations \cup pending[t]
           /\ orders' = orders \cup {NewOrder(t)}
           /\ outbox' = outbox \cup {t}
  <2>1. pending[t] = {LineRow(t, i) : i \in 1 .. Len(req[t].items)}
    BY <1>2 DEF OpenCalls, RowsOf, LinesDone
  <2>2. DOMAIN req[t].items = 1 .. Len(req[t].items)
    BY <1>2, CurrentLine DEF Ledger, Types
  <2>3. NewOrder(t).id = t /\ NewOrder(t).items = req[t].items
    BY DEF NewOrder
  <2>4. outbox' = {o.id : o \in orders'}
    BY <1>2, <2>3 DEF OrderIsAtomic
  <2>5. ASSUME NEW o \in orders', NEW i \in DOMAIN o.items
        PROVE  [key |-> <<o.id, o.items[i].cab>>, cab |-> o.items[i].cab,
                qty |-> o.items[i].qty] \in reservations'
    BY <1>2, <2>1, <2>2, <2>3, <2>5 DEF OrderIsAtomic, LineRow
  <2>6. ASSUME NEW r \in reservations'
        PROVE  r.key \in Keys \/ \E o \in orders' : \E i \in DOMAIN o.items :
                                   r.key = <<o.id, o.items[i].cab>>
    <3>1. CASE r \in reservations
      BY <1>2, <3>1 DEF OrderIsAtomic
    <3>2. CASE r \in pending[t]
      BY <1>2, <2>1, <2>2, <2>3, <3>2 DEF LineRow
    <3> QED
      BY <1>2, <3>1, <3>2
  <2> QED
    BY <2>4, <2>5, <2>6 DEF OrderIsAtomic
<1>3. CASE /\ ~IsOrder(t)
           /\ reservations' = reservations \cup pending[t]
           /\ orders' = orders /\ outbox' = outbox
           /\ \A r \in pending[t] : r.key \in Keys
  BY <1>3 DEF OrderIsAtomic
<1> QED
  BY <1>1, <1>2, <1>3, TablesGrow

\* A domain error is only given to a call that has committed nothing.
LEMMA RefusalStep ==
  ASSUME Ledger, OpenCalls, RefusalHasNoEffect, NEW t \in Calls, Act(t), Ledger', OpenCalls'
  PROVE  RefusalHasNoEffect'
<1> SUFFICES ASSUME NEW u \in Calls, answer'[u].result \in Refusal
             PROVE  /\ \A o \in orders' : o.id # u
                    /\ \A r \in reservations' : r.key \notin {u} \X CabinetIds
                    /\ pending'[u] = {} /\ \A c \in Cabinets : rowLock'[c] # u
  BY DEF RefusalHasNoEffect
<1>1. pc'[u] = "done"
  BY DEF OpenCalls, UnansweredOf, Refusal
<1>2. pending'[u] = {} /\ \A c \in Cabinets : rowLock'[c] # u
  BY <1>1 DEF Ledger, PendingOK, PendingOf, DraftExplained, RowExplained
<1>3. /\ \A o \in orders : o.id # u
      /\ \A r \in reservations : r.key \notin {u} \X CabinetIds
  <2>1. CASE u = t
    <3>1. pc[t] # "done"
      BY AnswerShapes DEF Silent, Reject, ReplayOrder, GiveUp, Abandon, Settle, Finish, Ledger
    <3> QED
      BY <2>1, <3>1 DEF OpenCalls, UnansweredOf
  <2>2. CASE u # t
    <3>1. answer[u].result \in Refusal
      BY <2>2, OthersKept DEF Ledger
    <3> QED
      BY <3>1 DEF RefusalHasNoEffect
  <2> QED
    BY <2>1, <2>2
<1>4. CASE UNCHANGED tables
  BY <1>2, <1>3, <1>4 DEF tables
<1>5. CASE /\ Settle(t)
           /\ reservations' = reservations \cup pending[t]
           /\ orders' = orders \cup (IF IsOrder(t) THEN {NewOrder(t)} ELSE {})
           /\ \A r \in pending[t] : IF IsOrder(t) THEN r.key \in {t} \X CabinetIds
                                                  ELSE r.key \in Keys
  <2>1. u # t
    BY <1>5 DEF Settle, Refusal
  <2>2. \A r \in pending[t] : r.key \notin {u} \X CabinetIds
    <3>1. Keys \cap (Calls \X CabinetIds) = {}
      BY CheckoutAssumption
    <3> QED
      BY <1>5, <2>1, <3>1
  <2> QED
    BY <1>2, <1>3, <1>5, <2>1, <2>2 DEF NewOrder
<1> QED
  BY <1>4, <1>5, TablesGrow

\* Calls that are told "ok" under an order key are told its one order.
LEMMA RepliesStep ==
  ASSUME Ledger, OpenCalls, RepliesAgree, NEW t \in Calls, Act(t), OrderKeysOnce'
  PROVE  RepliesAgree'
<1> DEFINE Agreed(u, os) ==
             \E o \in os : /\ o.id = answer'[u].order /\ o.key = req'[u].key
                           /\ o.user = req'[u].user /\ Len(o.items) = Len(req'[u].items)
<1> SUFFICES ASSUME NEW u \in Calls, answer'[u].result = "ok", IsOrder(u)'
             PROVE  Agreed(u, orders')
  BY DEF RepliesAgree, OrderKeysOnce
<1>0. /\ answer \in [Calls -> [result : Result, order : Calls \cup {Nobody}]]
      /\ Types
  BY DEF Ledger, Types, TypeOK
<1>1. orders \subseteq orders'
  BY TablesGrow DEF tables
<1>2. CASE u # t
  <2>1. answer'[u] = answer[u] /\ req'[u] = req[u]
    BY <1>0, <1>2, OthersKept
  <2>2. Agreed(u, orders)
    BY <2>1 DEF RepliesAgree, IsOrder
  <2> QED
    BY <1>1, <2>2
<1>3. CASE u = t /\ Silent(t)
  BY <1>3 DEF Silent, OpenCalls, UnansweredOf
<1>4. CASE u = t /\ Reject(t)
  BY <1>4 DEF Reject
<1>5. CASE u = t /\ GiveUp(t)
  BY <1>5 DEF GiveUp, Refusal
<1>6. CASE u = t /\ ReplayOrder(t)
  <2>1. PICK o \in orders :
          /\ o.key = req[t].key
          /\ IF SameOrder(o, t) THEN Reply(t, "ok", o.id)
                                ELSE Reply(t, "ErrDuplicateOrder", Nobody)
    BY <1>6 DEF ReplayOrder
  <2>2. SameOrder(o, t) /\ answer'[t].order = o.id
    BY <1>0, <1>6, <2>1 DEF Reply
  <2>3. req' = req
    BY <1>6 DEF ReplayOrder
  <2> QED
    BY <1>1, <1>6, <2>1, <2>2, <2>3 DEF SameOrder
<1>7. CASE u = t /\ Settle(t)
  <2>1. req' = req /\ IsOrder(t)
    BY <1>7 DEF Settle, Finish, CommitTables, IsOrder
  <2>2. answer'[t].order = t /\ NewOrder(t) \in orders'
    BY <1>7, <2>1 DEF Settle, Finish, CommitTables
  <2> QED
    BY <1>7, <2>1, <2>2 DEF NewOrder
<1> QED
  BY <1>0, <1>2, <1>3, <1>4, <1>5, <1>6, <1>7, AnswerShapes

\* Short of stock is said of a row that is too low, and stock only falls.
LEMMA SoldOutStep ==
  ASSUME Ledger, OpenCalls, SoldOutIsTrue, NEW t \in Calls, Act(t), Ledger'
  PROVE  SoldOutIsTrue'
<1> DEFINE Short(items, st) ==
             \E i \in DOMAIN items : \/ items[i].qty <= 0 \/ items[i].cab \notin Cabinets
                                     \/ st[items[i].cab] < items[i].qty
<1> SUFFICES ASSUME NEW u \in Calls, answer'[u].result = "ErrInsufficientStock"
             PROVE  Short(req'[u].items, stock')
  BY DEF SoldOutIsTrue
<1>0. /\ stock \in [Cabinets -> Nat] /\ draft \in [Cabinets -> Nat] /\ stock' \in [Cabinets -> Nat]
      /\ req \in [Calls -> Request \cup {Nobody}]
      /\ answer \in [Calls -> [result : Result, order : Calls \cup {Nobody}]]
      /\ Types
  BY DEF Ledger, Types, TypeOK
<1>1. CASE u # t
  <2>1. answer[u].result = "ErrInsufficientStock" /\ req'[u] = req[u]
    BY <1>0, <1>1, OthersKept
  <2>2. req[u] \in Request /\ req[u].items \in Seq(Item)
    <3>1. pc[u] # "idle"
      BY <2>1 DEF OpenCalls, UnansweredOf
    <3>2. req[u] \in Request
      BY <1>0, <3>1 DEF Types, RequestOK, RequestOf
    <3> QED
      BY <3>2 DEF Request
  <2>3. PICK i \in DOMAIN req[u].items :
          \/ req[u].items[i].qty <= 0 \/ req[u].items[i].cab \notin Cabinets
          \/ stock[req[u].items[i].cab] < req[u].items[i].qty
    BY <2>1 DEF SoldOutIsTrue
  <2>4. req[u].items[i] \in Item
    BY <2>2
  <2>5. req[u].items[i].qty \in Int
    BY <2>4 DEF Item
  <2>6. CASE req[u].items[i].cab \in Cabinets
    <3>1. stock'[req[u].items[i].cab] <= stock[req[u].items[i].cab]
      BY <2>6, StockFalls
    <3> QED
      BY <1>0, <2>1, <2>3, <2>5, <2>6, <3>1
  <2>7. CASE req[u].items[i].cab \notin Cabinets
    BY <2>1, <2>7
  <2> QED
    BY <2>6, <2>7
<1>2. CASE u = t /\ Silent(t)
  BY <1>2 DEF Silent, OpenCalls, UnansweredOf
<1>3. CASE u = t /\ Reject(t)
  <2>1. PICK r \in Requests : /\ Validate(r) = "ErrInsufficientStock"
                              /\ req'[t] = [r EXCEPT !.user = StoredUser(r.user)]
    BY <1>3 DEF Reject
  <2>2. r \in Request
    BY CheckoutAssumption
  <2>3. req'[t].items = r.items
    BY <2>1, <2>2 DEF Request
  <2>4. \E i \in DOMAIN r.items : r.items[i].qty <= 0
    BY <2>1 DEF Validate
  <2> QED
    BY <1>3, <2>3, <2>4
<1>4. CASE u = t /\ ReplayOrder(t)
  BY <1>0, <1>4 DEF ReplayOrder, Reply
<1>5. CASE u = t /\ Settle(t)
  BY <1>5 DEF Settle
<1>6. CASE u = t /\ GiveUp(t)
  <2>1. DecrementNoRows(t)
    BY <1>6 DEF GiveUp
  <2>2. pc[t] = "decrement" /\ TooFew(t) /\ req' = req /\ stock' = stock
    BY <2>1 DEF DecrementNoRows, Refuse, Rollback, tables
  <2>3. /\ req[t].items \in Seq(Item) /\ line[t] \in 1 .. Len(req[t].items)
        /\ This(t).qty \in Nat
    BY <2>2, CurrentLine DEF Ledger, Types, RequestOK, RequestOf
  <2>4. line[t] \in DOMAIN req[t].items
    BY <2>3
  <2>5. ASSUME This(t).cab \in Cabinets PROVE stock[This(t).cab] < This(t).qty
    <3>1. RowExplained(This(t).cab)
      BY <2>5 DEF Ledger, DraftExplained
    <3>2. rowLock[This(t).cab] # t
      <4>1. PendingOf(t)
        BY DEF Ledger, PendingOK
      <4>2. \A r \in pending[t] : r.key # StockKey(t)
        BY <2>2, <4>1 DEF PendingOf
      <4>3. \A r \in pending[t] : IsOrder(t) /\ r.key = <<t, r.cab>>
        BY <2>2, <4>1 DEF PendingOf
      <4>4. \A r \in pending[t] : r.cab # This(t).cab
        BY <4>2, <4>3 DEF StockKey
      <4> QED
        BY <2>2, <3>1, <4>4 DEF RowExplained
    <3> QED
      BY <2>2, <2>5, <3>1, <3>2 DEF TooFew, RowFree, RowExplained
  <2> QED
    BY <1>6, <2>2, <2>4, <2>5 DEF This
<1> QED
  BY <1>0, <1>1, <1>2, <1>3, <1>4, <1>5, <1>6, AnswerShapes

\* No committed row is taken back and no unit returns.
LEMMA FinalStep ==
  ASSUME Ledger, OpenCalls, NEW t \in Calls, Act(t)
  PROVE  /\ reservations \subseteq reservations' /\ orders \subseteq orders'
         /\ outbox \subseteq outbox'
         /\ \A c \in Cabinets : stock'[c] <= stock[c]
         /\ \A u \in Calls : pc[u] = "done" => answer'[u] = answer[u]
<1>1. /\ reservations \subseteq reservations' /\ orders \subseteq orders'
      /\ outbox \subseteq outbox'
  BY TablesGrow DEF tables
<1>2. pc[t] # "done"
  BY AnswerShapes DEF Silent, Reject, ReplayOrder, GiveUp, Abandon, Settle, Finish, Ledger
<1>3. \A u \in Calls : pc[u] = "done" => answer'[u] = answer[u]
  BY <1>2, OthersKept DEF Ledger
<1> QED
  BY <1>1, <1>3, StockFalls

\* What a commit takes is what it reserves.
LEMMA ReservedStep ==
  ASSUME Ledger, ReservationKeysOnce, NEW t \in Calls, Act(t), NEW c \in Cabinets
  PROVE  LET new == {r \in reservations' \ reservations : r.cab = c}
         IN  \/ new = {} /\ stock'[c] = stock[c]
             \/ \E r \in new : new = {r} /\ stock'[c] = stock[c] - r.qty
<1> DEFINE new == {r \in reservations' \ reservations : r.cab = c}
<1>1. CASE UNCHANGED tables
  BY <1>1 DEF tables
<1>2. CASE Settle(t) /\ reservations' = reservations \cup pending[t]
  <2>1. pc[t] = "commit" /\ stock'[c] = IF rowLock[c] = t THEN draft[c] ELSE stock[c]
    BY <1>2 DEF Settle, Finish, CommitTables
  <2>2. new = {r \in pending[t] : r.cab = c}
    BY <1>2 DEF ReservationKeysOnce
  <2>3. RowExplained(c)
    BY DEF Ledger, DraftExplained
  <2>4. CASE rowLock[c] = t
    <3>1. PICK r \in pending[t] : /\ r.cab = c /\ draft[c] = stock[c] - r.qty
                                  /\ \A s \in pending[t] : s.cab = c => s = r
      BY <2>1, <2>3, <2>4 DEF RowExplained
    <3>2. new = {r}
      BY <2>2, <3>1
    <3> QED
      BY <2>1, <2>4, <3>1, <3>2
  <2>5. CASE rowLock[c] # t
    <3>1. new = {}
      BY <2>2, <2>3, <2>5 DEF RowExplained
    <3> QED
      BY <2>1, <2>5, <3>1
  <2> QED
    BY <2>4, <2>5
<1> QED
  BY <1>1, <1>2, TablesGrow

-----------------------------------------------------------------------------
(* Deadlock.                                                               *)

\* A bounded set of numbers has a greatest one.
LEMMA Greatest ==
  ASSUME NEW n \in Nat, NEW V \in SUBSET (1 .. n), V # {}
  PROVE  \E m \in V : \A k \in V : k <= m
<1> DEFINE Above == {m .. n : m \in V}
<1>1. Above \subseteq FiniteSubsetsOf(Nat)
  <2>1. ASSUME NEW m \in V PROVE m .. n \in SUBSET Nat /\ IsFiniteSet(m .. n)
    BY FS_Interval
  <2> QED
    BY <2>1 DEF FiniteSubsetsOf
<1>2. PICK x \in Above : \A y \in Above : <<y, x>> \notin StrictSubsetOrdering(Nat)
  <2>1. Above # {}
    OBVIOUS
  <2>2. IsWellFoundedOn(StrictSubsetOrdering(Nat), FiniteSubsetsOf(Nat))
    BY FS_StrictSubsetOrderingWellFounded
  <2> QED
    BY <1>1, <2>1, <2>2, WFMin
<1>3. PICK m \in V : x = m .. n
  BY <1>2
<1>4. ASSUME NEW k \in V, k > m PROVE FALSE
  <2>1. k .. n \subseteq m .. n /\ k .. n # m .. n
    <3>1. m \in m .. n /\ m \notin k .. n
      BY <1>4
    <3> QED
      BY <1>4, <3>1
  <2>2. <<k .. n, m .. n>> \in StrictSubsetOrdering(Nat)
    BY <2>1 DEF StrictSubsetOrdering
  <2> QED
    BY <1>2, <1>3, <2>2
<1> QED
  BY <1>4

\* A call that is waited for at a key does not wait itself.
LEMMA BlockedAtRow ==
  ASSUME Ledger, NEW t \in Calls, NEW u \in Calls, NEW v \in Calls,
         WaitsFor(t, u), WaitsFor(u, v)
  PROVE  pc[t] = "decrement"
<1>1. pc[u] \in {"decrement", "register", "insertOrder"} /\ u # t
  BY DEF WaitsFor
<1>2. ASSUME pc[t] = "register" PROVE FALSE
  <2>1. PICK r \in pending[u] : r.key = StockKey(t)
    BY <1>2 DEF WaitsFor
  <2>2. IsOrder(u) /\ r.key = <<u, r.cab>>
    BY <1>1, <2>1 DEF Ledger, PendingOK, PendingOf
  <2>3. r.key \in Calls \X CabinetIds
    <3>1. r \in Reservation
      BY <2>1 DEF Ledger, Types, TypeOK
    <3>2. r.cab \in Cabinets /\ Cabinets \subseteq CabinetIds
      BY <3>1, CheckoutAssumption DEF Reservation
    <3> QED
      BY <2>2, <3>2
  <2>4. CASE IsOrder(t)
    BY <1>1, <2>1, <2>2, <2>4 DEF StockKey
  <2>5. CASE ~IsOrder(t)
    <3>1. StockKey(t) \in Keys
      <4>1. req[t] \in Request
        BY <1>2, CurrentLine DEF Ledger, Types
      <4> QED
        BY <2>5, <4>1 DEF StockKey, Request
    <3>2. Keys \cap (Calls \X CabinetIds) = {}
      BY CheckoutAssumption
    <3> QED
      BY <2>1, <2>3, <3>1, <3>2
  <2> QED
    BY <2>4, <2>5
<1>3. ASSUME pc[t] = "insertOrder" PROVE FALSE
  BY <1>1, <1>3 DEF WaitsFor, HoldsOrderKey
<1> QED
  BY <1>2, <1>3 DEF WaitsFor

\* The row a blocked call wants belongs to an earlier line of the call it waits for.
LEMMA HolderIsAhead ==
  ASSUME Ledger, OpenCalls, NEW t \in Calls, NEW u \in Calls, WaitsFor(t, u),
         pc[t] = "decrement", pc[u] = "decrement"
  PROVE  /\ {line[t]} \subseteq DOMAIN req[t].items /\ {line[u]} \subseteq DOMAIN req[u].items
         /\ \E i \in DOMAIN req[u].items :
              i < line[u] /\ req[u].items[i].cab = This(t).cab
<1>1. \A v \in {t, u} : line[v] \in 1 .. Len(req[v].items) /\ req[v].items \in Seq(Item)
  BY CurrentLine DEF Ledger, Types, RequestOK, RequestOf
<1>2. This(t).cab \in Cabinets /\ rowLock[This(t).cab] = u
  BY DEF WaitsFor
<1>3. PICK r \in pending[u] : r.cab = This(t).cab
  BY <1>2 DEF Ledger, DraftExplained, RowExplained
<1>4. IsOrder(u)
  BY <1>3 DEF Ledger, PendingOK, PendingOf
<1>5. PICK i \in 1 .. (line[u] - 1) : r = LineRow(u, i)
  BY <1>3, <1>4 DEF OpenCalls, RowsOf, LinesDone
<1>6. i \in DOMAIN req[u].items /\ i < line[u]
  BY <1>1, <1>5
<1> QED
  BY <1>1, <1>3, <1>5, <1>6 DEF LineRow

\* Along a cycle of waits the rank of the wanted row would grow for ever.
LEMMA CyclesAreCrossed ==
  ASSUME Ledger, OpenCalls
  PROVE  CyclesNeedCrossedLines
<1> SUFFICES ASSUME NEW S \in SUBSET Calls, WaitCycle(S),
                    NEW rank \in [CabinetIds -> 1 .. Cardinality(CabinetIds)],
                    \A t \in S : \A i, j \in DOMAIN req[t].items :
                      i < j => rank[req[t].items[i].cab] < rank[req[t].items[j].cab]
             PROVE  FALSE
  BY DEF CyclesNeedCrossedLines
<1> DEFINE want(t) == rank[This(t).cab]
           Wanted == {want(t) : t \in S}
<1>1. Cardinality(CabinetIds) \in Nat
  BY CheckoutAssumption, FS_CardinalityType
<1>2. \A t \in S : pc[t] = "decrement"
  BY BlockedAtRow DEF WaitCycle
<1>3. \A t \in S : want(t) \in 1 .. Cardinality(CabinetIds)
  BY <1>2, CurrentLine DEF Ledger, Types
<1>4. ASSUME NEW t \in S PROVE \E u \in S : want(t) < want(u)
  <2>1. PICK u \in S : WaitsFor(t, u)
    BY DEF WaitCycle
  <2>2. PICK i \in DOMAIN req[u].items :
          i < line[u] /\ req[u].items[i].cab = This(t).cab
    BY <1>2, <2>1, HolderIsAhead
  <2>3. line[u] \in DOMAIN req[u].items
    BY <1>2, <2>1, HolderIsAhead
  <2>4. rank[This(t).cab] < rank[This(u).cab]
    BY <2>2, <2>3 DEF This
  <2> QED
    BY <2>4
<1>5. Wanted \in SUBSET (1 .. Cardinality(CabinetIds)) /\ Wanted # {}
  BY <1>3 DEF WaitCycle
<1>6. PICK m \in Wanted : \A k \in Wanted : k <= m
  BY <1>1, <1>5, Greatest
<1>7. PICK t \in S : m = want(t)
  BY <1>6
<1>8. PICK u \in S : want(t) < want(u)
  BY <1>4
<1>9. want(u) \in Wanted /\ want(u) <= m
  BY <1>6
<1>10. want(t) \in Nat /\ want(u) \in Nat
  BY <1>1, <1>3
<1> HIDE DEF want
<1> QED
  BY <1>7, <1>8, <1>9, <1>10

-----------------------------------------------------------------------------
(* The theorems.                                                           *)

\* What a client is told is inductive together with what open calls have written.
Promises == OrderIsAtomic /\ RefusalHasNoEffect /\ RepliesAgree /\ SoldOutIsTrue
Guaranteed == Inductive /\ OpenCalls /\ Promises

\* At the start no call is open, answered or in the tables.
LEMMA GuaranteedInit == Init => Guaranteed
<1> SUFFICES ASSUME Init PROVE Guaranteed
  OBVIOUS
<1>1. /\ reservations = {} /\ orders = {} /\ outbox = {}
      /\ \A t \in Calls : /\ pc[t] = "idle"
                          /\ answer[t] = [result |-> "none", order |-> Nobody]
  BY DEF Init
<1>2. OpenCalls
  BY <1>1 DEF OpenCalls, RowsOf, UnansweredOf
<1>3. Promises
  BY <1>1 DEF Promises, OrderIsAtomic, RefusalHasNoEffect, RepliesAgree, SoldOutIsTrue, Refusal
<1> QED
  BY <1>2, <1>3, InductiveInit DEF Guaranteed

\* The step of one call keeps what every open call has written.
LEMMA OpenCallsStep ==
  ASSUME Ledger, OpenCalls, NEW t \in Calls, Act(t)
  PROVE  OpenCalls'
<1> SUFFICES ASSUME NEW u \in Calls PROVE RowsOf(u)'
  BY UnansweredStep DEF OpenCalls
<1>1. CASE u = t
  BY <1>1, RowsStep
<1>2. CASE u # t
  <2>1. /\ Types /\ pc'[u] = pc[u] /\ req'[u] = req[u] /\ line'[u] = line[u]
        /\ pending'[u] = pending[u]
    BY <1>2, OthersKept DEF Ledger
  <2>2. LinesDone(u)' = LinesDone(u)
    BY <2>1 DEF LinesDone
  <2> QED
    BY <2>1, <2>2, RowsKept DEF OpenCalls
<1> QED
  BY <1>1, <1>2

\* Every step keeps the promises.
LEMMA GuaranteedStep == Guaranteed /\ [Next]_vars => Guaranteed'
<1> SUFFICES ASSUME Guaranteed, [Next]_vars PROVE Guaranteed'
  OBVIOUS
<1>1. Inductive'
  BY InductiveStep DEF Guaranteed
<1>2. CASE UNCHANGED vars
  <2>1. /\ UNCHANGED <<stock, reservations, orders, outbox, draft, rowLock, pending>>
        /\ UNCHANGED <<pc, req, line, answer>>
    BY <1>2 DEF vars, tables, txn
  <2>2. OpenCalls'
    BY <2>1 DEF Guaranteed, OpenCalls, RowsOf, UnansweredOf, LinesDone, LineRow, IsOrder
  <2>3. OrderIsAtomic' /\ RefusalHasNoEffect'
    BY <2>1 DEF Guaranteed, Promises, OrderIsAtomic, RefusalHasNoEffect
  <2>4. RepliesAgree' /\ SoldOutIsTrue'
    BY <2>1 DEF Guaranteed, Promises, RepliesAgree, SoldOutIsTrue, IsOrder
  <2> QED
    BY <1>1, <2>2, <2>3, <2>4 DEF Guaranteed, Promises
<1>3. CASE \E t \in Calls : Act(t)
  <2>1. PICK t \in Calls : Act(t)
    BY <1>3
  <2>2. Ledger /\ OpenCalls /\ Ledger' /\ OrderKeysOnce'
    BY <1>1 DEF Guaranteed, Inductive
  <2>3. OpenCalls'
    BY <2>1, <2>2, OpenCallsStep
  <2>4. OrderIsAtomic' /\ RefusalHasNoEffect' /\ RepliesAgree' /\ SoldOutIsTrue'
    BY <2>1, <2>2, <2>3, OrderAtomicStep, RefusalStep, RepliesStep, SoldOutStep
       DEF Guaranteed, Promises
  <2> QED
    BY <1>1, <2>3, <2>4 DEF Guaranteed, Promises
<1> QED
  BY <1>2, <1>3 DEF Next, Act, Quiet

\* The inductive invariant behind the promises.
THEOREM GuaranteedAlways == Spec => []Guaranteed
BY GuaranteedInit, GuaranteedStep, PTL DEF Spec

\* Whichever statement of CreateOrderTx fails, the order, its lines, its event and
\* its reservations are all there or none is.
THEOREM OrdersAreAtomic == Spec => []OrderIsAtomic
BY GuaranteedAlways, PTL DEF Guaranteed, Promises

\* A call answered with an error of the domain leaves no row and no lock behind.
THEOREM RefusalsAreFree == Spec => []RefusalHasNoEffect
BY GuaranteedAlways, PTL DEF Guaranteed, Promises

\* Whatever CreateOrder calls race under a key, all that succeed name one order.
THEOREM RepliesAlwaysAgree == Spec => []RepliesAgree
BY GuaranteedAlways, PTL DEF Guaranteed, Promises

\* ErrInsufficientStock is never an artefact of another call's open transaction.
THEOREM SoldOutIsAlwaysTrue == Spec => []SoldOutIsTrue
BY GuaranteedAlways, PTL DEF Guaranteed, Promises

\* No later step takes back a commit or an answer.
THEOREM CommitsAreFinal == Spec => CommitIsFinal
<1> DEFINE Final == /\ reservations \subseteq reservations' /\ orders \subseteq orders'
                    /\ outbox \subseteq outbox'
                    /\ \A c \in Cabinets : stock'[c] <= stock[c]
                    /\ \A t \in Calls : pc[t] = "done" => answer'[t] = answer[t]
<1>1. Guaranteed /\ [Next]_vars => [Final]_vars
  <2> SUFFICES ASSUME Guaranteed, NEW t \in Calls, Act(t) PROVE Final
    BY DEF Next, Act, Quiet
  <2> QED
    BY FinalStep DEF Guaranteed, Inductive
<1> QED
  BY <1>1, GuaranteedAlways, PTL DEF Spec, CommitIsFinal

RowsAt(rows, c) == {r \in rows : r.cab = c}

\* The rows of a cabinet are finitely many: a step adds at most one.
RowsFinite == \A c \in Cabinets : IsFiniteSet(RowsAt(reservations, c))

\* One more row of a cabinet is that many more units of it, in the same total.
LEMMA BalanceStep ==
  ASSUME NEW c, NEW rows, NEW more,
         rows \subseteq Reservation, more \subseteq Reservation, rows \subseteq more,
         IsFiniteSet(RowsAt(rows, c))
  PROVE  /\ Units(rows, c) \in Int
         /\ RowsAt(more \ rows, c) = {} =>
              IsFiniteSet(RowsAt(more, c)) /\ Units(more, c) = Units(rows, c)
         /\ \A r : RowsAt(more \ rows, c) = {r} =>
              IsFiniteSet(RowsAt(more, c)) /\ Units(more, c) = Units(rows, c) + r.qty
<1> DEFINE old == RowsAt(rows, c)
           all == RowsAt(more, c)
           new == RowsAt(more \ rows, c)
           f == [r \in rows |-> r.qty]
           g == [r \in more |-> r.qty]
<1>1. all = old \cup new /\ \A r \in new : r \notin old
  BY DEF RowsAt
<1>2. \A r \in old : f[r] \in Int /\ g[r] = f[r]
  BY DEF Reservation, RowsAt
<1>3. Units(rows, c) = SumFunctionOnSet(f, old) /\ Units(more, c) = SumFunctionOnSet(g, all)
  BY DEF Units, RowsAt
<1>4. \A r \in new : g[r] = r.qty /\ g[r] \in Int
  BY DEF Reservation, RowsAt
<1>5. IsFiniteSet(old)
  OBVIOUS
<1> HIDE DEF f, g, old, all, new
<1>6. SumFunctionOnSet(f, old) = SumFunctionOnSet(g, old) /\ SumFunctionOnSet(f, old) \in Int
  BY <1>2, <1>5, SumSame, SumRemove
<1>7. ASSUME new = {}
      PROVE  IsFiniteSet(all) /\ Units(more, c) = Units(rows, c)
  <2>1. all = old
    BY <1>1, <1>7
  <2> QED
    BY <1>3, <1>5, <1>6, <2>1
<1>8. ASSUME NEW r, new = {r}
      PROVE  IsFiniteSet(all) /\ Units(more, c) = Units(rows, c) + r.qty
  <2>1. all = old \cup {r} /\ r \notin old /\ g[r] \in Int /\ g[r] = r.qty
    BY <1>1, <1>4, <1>8
  <2>2. \A s \in old : g[s] \in Int
    BY <1>2
  <2>3. SumFunctionOnSet(g, old \cup {r}) = SumFunctionOnSet(g, old) + g[r]
    BY <1>5, <2>1, <2>2, SumAdd
  <2>4. IsFiniteSet(old \cup {r})
    BY <1>5, FS_AddElement
  <2> QED
    BY <1>3, <1>6, <2>1, <2>3, <2>4
<1> QED
  BY <1>3, <1>6, <1>7, <1>8 DEF new, all

\* Every unit that left the shelf is in one committed reservation, at any time and
\* however many calls overlap (repository.go:97-121, 294-297).
THEOREM StockAlwaysConserved == Spec => []StockConserved
<1> DEFINE Balance == RowsFinite /\ StockConserved
<1>1. Init => Balance
  <2> SUFFICES ASSUME Init, NEW c \in Cabinets
               PROVE  /\ IsFiniteSet(RowsAt(reservations, c))
                      /\ stock[c] + Units(reservations, c) = InitStock[c]
    BY DEF RowsFinite, StockConserved
  <2>1. /\ RowsAt(reservations, c) = {} /\ {r \in reservations : r.cab = c} = {}
        /\ stock[c] = InitStock[c]
    BY DEF Init, RowsAt
  <2>2. IsFiniteSet({}) /\ Units(reservations, c) = 0
    BY <2>1, FS_EmptySet, SumEmpty DEF Units
  <2>3. InitStock[c] \in Nat
    BY CheckoutAssumption
  <2> QED
    BY <2>1, <2>2, <2>3
<1>2. Balance /\ Guaranteed /\ Guaranteed' /\ [Next]_vars => Balance'
  <2> SUFFICES ASSUME Balance, Guaranteed, Guaranteed', [Next]_vars, NEW c \in Cabinets
               PROVE  /\ IsFiniteSet(RowsAt(reservations', c))
                      /\ stock'[c] + Units(reservations', c) = InitStock[c]
    BY DEF RowsFinite, StockConserved, RowsAt, Units
  <2>1. /\ reservations \subseteq Reservation /\ reservations' \subseteq Reservation
        /\ stock[c] \in Nat
    BY DEF Guaranteed, Inductive, Ledger, Types, TypeOK
  <2> DEFINE new == RowsAt(reservations' \ reservations, c)
  <2>2. /\ reservations \subseteq reservations'
        /\ \/ new = {} /\ stock'[c] = stock[c]
           \/ \E r \in new : new = {r} /\ stock'[c] = stock[c] - r.qty
    <3>1. CASE UNCHANGED vars
      BY <3>1 DEF vars, tables, RowsAt
    <3>2. ASSUME NEW t \in Calls, Act(t)
          PROVE  /\ reservations \subseteq reservations'
                 /\ \/ new = {} /\ stock'[c] = stock[c]
                    \/ \E r \in new : new = {r} /\ stock'[c] = stock[c] - r.qty
      BY <3>2, FinalStep, ReservedStep DEF Guaranteed, Inductive, RowsAt
    <3> QED
      BY <3>1, <3>2 DEF Next, Act, Quiet
  <2>3. /\ IsFiniteSet(RowsAt(reservations, c))
        /\ stock[c] + Units(reservations, c) = InitStock[c]
    BY DEF RowsFinite, StockConserved
  <2>4. CASE new = {} /\ stock'[c] = stock[c]
    BY <2>1, <2>2, <2>3, <2>4, BalanceStep
  <2>5. ASSUME NEW r \in new, new = {r}, stock'[c] = stock[c] - r.qty
        PROVE  /\ IsFiniteSet(RowsAt(reservations', c))
               /\ stock'[c] + Units(reservations', c) = InitStock[c]
    <3>1. /\ IsFiniteSet(RowsAt(reservations', c))
          /\ Units(reservations', c) = Units(reservations, c) + r.qty
          /\ Units(reservations, c) \in Int
      BY <2>1, <2>2, <2>3, <2>5, BalanceStep
    <3>2. r.qty \in Nat
      BY <2>1 DEF Reservation, RowsAt
    <3> QED
      BY <2>1, <2>3, <2>5, <3>1, <3>2
  <2> QED
    BY <2>2, <2>4, <2>5
<1>3. Balance => StockConserved
  OBVIOUS
<1> QED
  BY <1>1, <1>2, <1>3, GuaranteedAlways, PTL DEF Spec

\* Orders that list cabinets along one ranking never deadlock, for any number of
\* calls and cabinets, single reservations and repeated keys included.
THEOREM DeadlockNeedsCrossedLines == Spec => []CyclesNeedCrossedLines
<1>1. Guaranteed => CyclesNeedCrossedLines
  BY CyclesAreCrossed DEF Guaranteed, Inductive
<1> QED
  BY <1>1, GuaranteedAlways, PTL

-----------------------------------------------------------------------------
(* Linearizability: what calls that name each cabinet once know at commit. *)

\* The lines of a request name each cabinet once.
NamesOnce(items) == \A i, j \in DOMAIN items : items[i].cab = items[j].cab => i = j

\* The request of a call is there from Receive on.
Known(t) ==
  IF pc[t] = "idle" THEN req[t] = Nobody ELSE req[t] # Nobody /\ NamesOnce(req[t].items)

\* A reservation of a client that is about to commit has written its one row, or has
\* found it.
OneRow(t) ==
  pc[t] = "commit" /\ ~IsOrder(t) =>
    \/ pending[t] = {NewReservation(t)}
    \/ pending[t] = {} /\ NewReservation(t) \in reservations

NamedOnce ==
  /\ \A t \in Calls : Known(t) /\ OneRow(t)
  /\ \A o \in orders : NamesOnce(o.items)

\* Only Receive takes a request.
LEMMA Underway ==
  ASSUME Types, NEW t \in Calls, Act(t), ~Receive(t)
  PROVE  pc[t] # "idle" /\ pc'[t] # "idle" /\ req' = req
<1>0. pc \in [Calls -> Labels]
  BY DEF Types, TypeOK
<1>1. ASSUME \/ Begin(t) \/ LookupOrder(t) \/ Snapshot(t) \/ ReservationAbsent(t)
             \/ Decrement(t) \/ InsertOrder(t) \/ InsertOutbox(t)
      PROVE  pc[t] # "idle" /\ pc'[t] # "idle" /\ req' = req
  BY <1>0, <1>1 DEF Begin, LookupOrder, Snapshot, ReservationAbsent, Decrement, InsertOrder,
                    InsertOutbox, Goto
<1>2. ASSUME \/ SnapshotMissing(t) \/ DecrementNoRows(t) \/ RegisterDuplicate(t)
             \/ ReplayOrder(t) \/ InsertOrderDuplicate(t) \/ Fail(t) \/ DeadlockVictim(t)
      PROVE  pc[t] # "idle" /\ pc'[t] # "idle" /\ req' = req
  BY <1>0, <1>2 DEF SnapshotMissing, DecrementNoRows, RegisterDuplicate, ReplayOrder,
       InsertOrderDuplicate, Fail, InTx, DeadlockVictim, WaitCycle, WaitsFor, Refuse, Reply, Goto
<1>3. ASSUME Commit(t) \/ CommitUnacknowledged(t)
      PROVE  pc[t] # "idle" /\ pc'[t] # "idle" /\ req' = req
  BY <1>0, <1>3 DEF Commit, CommitUnacknowledged, CommitTables, Reply, Goto
<1>4. ASSUME pc[t] \in {"reserve", "register"}, LineReserved(t), req' = req
      PROVE  pc[t] # "idle" /\ pc'[t] # "idle" /\ req' = req
  BY <1>0, <1>4, LineReservedStep DEF Goto
<1>5. ASSUME ReservationFound(t)
      PROVE  pc[t] # "idle" /\ pc'[t] # "idle" /\ req' = req
  BY <1>0, <1>4, <1>5 DEF ReservationFound, Refuse, Reply, Goto
<1>6. ASSUME Register(t) PROVE pc[t] # "idle" /\ pc'[t] # "idle" /\ req' = req
  BY <1>4, <1>6 DEF Register
<1> QED
  BY <1>1, <1>2, <1>3, <1>5, <1>6 DEF Act, Progress, ReserveStep, OrderStep

\* The request of a call names each cabinet once from the start.
LEMMA KnownStep ==
  ASSUME \A r \in Requests : NamesOnce(r.items),
         Ledger, NamedOnce, NEW t \in Calls, Act(t), NEW u \in Calls
  PROVE  Known(u)'
<1>0. Types /\ pc \in [Calls -> Labels] /\ req \in [Calls -> Request \cup {Nobody}] /\ Known(u)
  BY DEF Ledger, Types, TypeOK, NamedOnce
<1>1. CASE u # t
  BY <1>0, <1>1, OthersKept DEF Known
<1>2. CASE u = t /\ ~Receive(t)
  BY <1>0, <1>2, Underway DEF Known
<1>3. CASE u = t /\ Receive(t)
  <2>1. PICK r \in Requests : /\ req' = [req EXCEPT ![t] = [r EXCEPT !.user = StoredUser(r.user)]]
                              /\ pc'[t] \in {"begin", "done"}
    BY <1>0, <1>3 DEF Receive, Reply, Goto
  <2>2. r \in Request /\ StoredUser(r.user) \in Users
    BY CheckoutAssumption DEF StoredUser, Request
  <2>3. req'[t] \in Request /\ req'[t].items = r.items
    BY <1>0, <2>1, <2>2 DEF Request
  <2> QED
    BY <1>3, <2>1, <2>3, CheckoutAssumption DEF Known
<1> QED
  BY <1>1, <1>2, <1>3

\* A client's reservation reaches its commit with its row, or having seen it.
LEMMA OneRowStep ==
  ASSUME Ledger, OpenCalls, NamedOnce, NEW t \in Calls, Act(t), NEW u \in Calls
  PROVE  OneRow(u)'
<1>0. Types /\ pc \in [Calls -> Labels] /\ pending \in [Calls -> SUBSET Reservation]
      /\ OneRow(u) /\ RequestOf(t) /\ PendingOf(t) /\ reservations \subseteq Reservation
  BY DEF Ledger, Types, TypeOK, NamedOnce, RequestOK, PendingOK
<1>1. CASE u # t
  <2>1. /\ pc'[u] = pc[u] /\ req'[u] = req[u] /\ line'[u] = line[u] /\ pending'[u] = pending[u]
        /\ reservations \subseteq reservations'
    BY <1>0, <1>1, OthersKept, FinalStep
  <2> QED
    BY <1>0, <2>1 DEF OneRow, NewReservation, IsOrder, StockKey, This
<1>2. ASSUME u = t, pc[t] \in {"reserve", "register"}, LineReserved(t), req' = req,
             pc'[t] = "commit", ~IsOrder(t),
             \/ pending'[t] = {NewReservation(t)}
             \/ pending'[t] = {} /\ NewReservation(t) \in reservations'
      PROVE  OneRow(u)'
  <2>1. line' = line
    BY <1>0, <1>2 DEF LineReserved, Goto
  <2> QED
    BY <1>2, <2>1 DEF OneRow, NewReservation, IsOrder, StockKey, This
<1>3. CASE u = t /\ ReservationFound(t) /\ pc'[t] = "commit"
  <2>1. PICK r \in Visible(t) :
          /\ r.key = StockKey(t) /\ r.cab = This(t).cab /\ r.qty = This(t).qty
          /\ LineReserved(t) /\ UNCHANGED <<tables, txn, req, answer>>
    <3>1. ~Refuse(t, "ErrDuplicateReservation")
      BY <1>0, <1>3 DEF Refuse, Reply, Goto
    <3> QED
      BY <1>3, <3>1 DEF ReservationFound
  <2>2. pc[t] = "reserve" /\ pending' = pending /\ reservations' = reservations
    BY <1>3, <2>1 DEF ReservationFound, tables, txn
  <2>3. CASE ~IsOrder(t)
    <3>1. pending[t] = {}
      BY <1>0, <2>2, <2>3 DEF PendingOf
    <3>2. r \in reservations /\ r \in Reservation
      BY <1>0, <3>1 DEF Visible
    <3>3. r = NewReservation(t)
      BY <2>1, <3>2 DEF Reservation, NewReservation
    <3> QED
      BY <1>2, <1>3, <2>1, <2>2, <2>3, <3>1, <3>2, <3>3
  <2>4. CASE IsOrder(t)
    BY <1>3, <2>1, <2>4 DEF OneRow, IsOrder
  <2> QED
    BY <2>3, <2>4
<1>4. CASE u = t /\ Register(t) /\ pc'[t] = "commit"
  <2>1. /\ pc[t] = "register" /\ LineReserved(t) /\ req' = req
        /\ pending'[t] = pending[t] \cup {NewReservation(t)}
    BY <1>0, <1>4 DEF Register, NewReservation
  <2>2. CASE ~IsOrder(t)
    <3>1. pending[t] = {}
      BY <1>0, <2>1, <2>2 DEF PendingOf
    <3> QED
      BY <1>2, <1>4, <2>1, <2>2, <3>1
  <2>3. CASE IsOrder(t)
    BY <1>4, <2>1, <2>3 DEF OneRow, IsOrder
  <2> QED
    BY <2>2, <2>3
<1>5. CASE u = t /\ InsertOutbox(t)
  BY <1>0, <1>5 DEF InsertOutbox, RequestOf, OneRow, IsOrder
<1>6. ASSUME u = t, pc'[t] # "commit" PROVE OneRow(u)'
  BY <1>6 DEF OneRow
<1>7. ASSUME \/ Begin(t) \/ LookupOrder(t) \/ Snapshot(t) \/ ReservationAbsent(t)
             \/ Decrement(t) \/ InsertOrder(t) \/ Receive(t) \/ Commit(t) \/ CommitUnacknowledged(t)
      PROVE  pc'[t] # "commit"
  BY <1>0, <1>7 DEF Begin, LookupOrder, Snapshot, ReservationAbsent, Decrement, InsertOrder,
                    Receive, Commit, CommitUnacknowledged, Reply, Goto
<1>8. ASSUME \/ SnapshotMissing(t) \/ DecrementNoRows(t) \/ RegisterDuplicate(t)
             \/ ReplayOrder(t) \/ InsertOrderDuplicate(t) \/ Fail(t) \/ DeadlockVictim(t)
      PROVE  pc'[t] # "commit"
  BY <1>0, <1>8 DEF SnapshotMissing, DecrementNoRows, RegisterDuplicate, ReplayOrder,
       InsertOrderDuplicate, Fail, DeadlockVictim, Refuse, Reply, Goto
<1> QED
  BY <1>1, <1>3, <1>4, <1>5, <1>6, <1>7, <1>8 DEF Act, Progress, ReserveStep, OrderStep

\* All of it is kept by every step.
LEMMA NamedOnceStep ==
  ASSUME \A r \in Requests : NamesOnce(r.items), Ledger, OpenCalls, NamedOnce, [Next]_vars
  PROVE  NamedOnce'
<1>1. CASE UNCHANGED vars
  <2>1. UNCHANGED <<reservations, orders, pending, pc, req, line>>
    BY <1>1 DEF vars, tables, txn
  <2> QED
    BY <2>1 DEF NamedOnce, Known, OneRow, NewReservation, IsOrder, StockKey, This
<1>2. ASSUME NEW t \in Calls, Act(t) PROVE NamedOnce'
  <2>1. \A u \in Calls : Known(u)' /\ OneRow(u)'
    BY <1>2, KnownStep, OneRowStep
  <2>2. ASSUME NEW o \in orders' PROVE NamesOnce(o.items)
    <3>1. CASE o \in orders
      BY <3>1 DEF NamedOnce
    <3>2. CASE o \notin orders
      <4>1. pc[t] = "commit" /\ o = NewOrder(t)
        BY <1>2, <3>2, TablesGrow DEF tables
      <4>2. NamesOnce(req[t].items)
        BY <4>1 DEF NamedOnce, Known
      <4> QED
        BY <4>1, <4>2 DEF NewOrder
    <3> QED
      BY <3>1, <3>2
  <2> QED
    BY <2>1, <2>2 DEF NamedOnce
<1> QED
  BY <1>1, <1>2 DEF Next, Act, Quiet

-----------------------------------------------------------------------------
(* Linearizability: the lines of a request, and of the order it repeats.   *)

\* The shop's sums and counts are those of the checkout.
LEMMA ShopAdds == \A fun, S : AtomicShop!SumFunctionOnSet(fun, S) = SumFunctionOnSet(fun, S)
BY DEF AtomicShop!SumFunctionOnSet, AtomicShop!FoldFunctionOnSet, AtomicShop!MapThenFoldSet,
       SumFunctionOnSet, FoldFunctionOnSet, MapThenFoldSet

\* The same of its counts.
LEMMA ShopCounts == \A S : AtomicShop!Cardinality(S) = Cardinality(S)
BY Zenon DEF AtomicShop!Cardinality, Cardinality

\* An order that names each cabinet once wants of a cabinet what its one line says.
LEMMA WantedOnce ==
  ASSUME NEW items, items \in Seq(Item), NamesOnce(items), NEW c
  PROVE  /\ \A i \in DOMAIN items : items[i].cab = c => AtomicShop!Wanted(items, c) = items[i].qty
         /\ (\A i \in DOMAIN items : items[i].cab # c) => AtomicShop!Wanted(items, c) = 0
<1> DEFINE fun == [i \in DOMAIN items |-> items[i].qty]
           D == {i \in DOMAIN items : items[i].cab = c}
<1>1. AtomicShop!Wanted(items, c) = SumFunctionOnSet(fun, D)
  BY ShopAdds DEF AtomicShop!Wanted
<1>2. ASSUME NEW i \in DOMAIN items, items[i].cab = c
      PROVE  SumFunctionOnSet(fun, D) = items[i].qty
  <2>1. D = {i}
    BY <1>2 DEF NamesOnce
  <2>2. fun[i] = items[i].qty /\ fun[i] \in Int
    <3>1. items[i] \in Item
      OBVIOUS
    <3> QED
      BY <3>1 DEF Item
  <2> HIDE DEF fun, D
  <2> QED
    BY <2>1, <2>2, SumOne
<1>3. ASSUME \A i \in DOMAIN items : items[i].cab # c
      PROVE  SumFunctionOnSet(fun, D) = 0
  <2>1. D = {}
    BY <1>3
  <2> HIDE DEF fun, D
  <2> QED
    BY <2>1, SumEmpty
<1> QED
  BY <1>1, <1>2, <1>3

\* What the map of a replayed order has for a cabinet is in one of its lines.
LEMMA MapOnce ==
  ASSUME NEW p, p \in Seq(Item), NamesOnce(p), NEW c \in DOMAIN ItemMap(p)
  PROVE  \E j \in DOMAIN p : p[j].cab = c /\ ItemMap(p)[c] = p[j].qty
<1>1. PICK j \in DOMAIN p : p[j].cab = c
  BY DEF ItemMap
<1>2. {i \in DOMAIN p : p[i].cab = c} = {j}
  BY <1>1 DEF NamesOnce
<1>3. Max({j}) = j
  <2>1. j \in Int
    OBVIOUS
  <2>2. \E x \in {j} : \A y \in {j} : x >= y
    BY <2>1
  <2> QED
    BY <2>2 DEF Max
<1>4. ItemMap(p)[c] = p[Max({i \in DOMAIN p : p[i].cab = c})].qty
  BY <1>1 DEF ItemMap
<1> QED
  BY <1>1, <1>2, <1>3, <1>4

\* A replay whose lines are all on the map of the order, and are as many, is for the
\* same lines: each of them is a line of the order, so by their number they are all.
LEMMA ReplayedLines ==
  ASSUME NEW p, p \in Seq(Item), NamesOnce(p), NEW q, q \in Seq(Item), NamesOnce(q),
         Len(p) = Len(q),
         \A i \in DOMAIN q : q[i].cab \in DOMAIN ItemMap(p) /\ ItemMap(p)[q[i].cab] = q[i].qty
  PROVE  AtomicShop!SameLines(p, q)
<1>0. /\ DOMAIN p = 1 .. Len(p) /\ DOMAIN q = DOMAIN p /\ IsFiniteSet(DOMAIN p)
      /\ \A i \in DOMAIN p : p[i] \in Item /\ q[i] \in Item
  <2>1. Len(p) \in Nat /\ DOMAIN p = 1 .. Len(p) /\ DOMAIN q = 1 .. Len(p)
    OBVIOUS
  <2>2. IsFiniteSet(1 .. Len(p))
    BY <2>1, FS_Interval
  <2>3. \A i \in 1 .. Len(p) : p[i] \in Item /\ q[i] \in Item
    BY <2>1
  <2> QED
    BY <2>1, <2>2, <2>3
<1>1. \A i \in DOMAIN q : \E j \in DOMAIN p : p[j] = q[i]
  <2> TAKE i \in DOMAIN q
  <2>1. PICK j \in DOMAIN p : p[j].cab = q[i].cab /\ ItemMap(p)[q[i].cab] = p[j].qty
    BY MapOnce
  <2>2. p[j] \in Item /\ q[i] \in Item /\ p[j].qty = q[i].qty
    BY <1>0, <2>1
  <2>3. \A a, b \in Item : a.cab = b.cab /\ a.qty = b.qty => a = b
    BY DEF Item
  <2>4. p[j] = q[i]
    BY <2>1, <2>2, <2>3
  <2> QED
    BY <2>4
<1> DEFINE at == [i \in DOMAIN p |-> CHOOSE j \in DOMAIN p : p[j] = q[i]]
<1>2. \A i \in DOMAIN p : at[i] \in DOMAIN p /\ p[at[i]] = q[i]
  BY <1>0, <1>1
<1>3. \A i, j \in DOMAIN p : q[i] = q[j] => i = j
  BY <1>0 DEF NamesOnce
<1>4. at \in Injection(DOMAIN p, DOMAIN p)
  <2>1. at \in [DOMAIN p -> DOMAIN p]
    BY <1>2
  <2>2. \A i, j \in DOMAIN p : at[i] = at[j] => i = j
    BY <1>2, <1>3
  <2> HIDE DEF at
  <2> QED
    BY <2>1, <2>2 DEF Injection, IsInjective
<1>5. at \in Surjection(DOMAIN p, DOMAIN p)
  BY <1>0, <1>4, FS_Injection
<1>6. \A j \in DOMAIN p : \E i \in DOMAIN p : p[j] = q[i]
  <2>1. \A j \in DOMAIN p : \E i \in DOMAIN p : at[i] = j
    <3> HIDE DEF at
    <3> QED
      BY <1>5 DEF Surjection
  <2> HIDE DEF at
  <2> TAKE j \in DOMAIN p
  <2>2. PICK i \in DOMAIN p : at[i] = j
    BY <2>1
  <2>3. p[at[i]] = q[i]
    BY <1>2
  <2> QED
    BY <2>2, <2>3
<1>7. ASSUME NEW item \in {p[i] : i \in DOMAIN p} \cup {q[i] : i \in DOMAIN q}
      PROVE  Cardinality({i \in DOMAIN p : p[i] = item}) = Cardinality({i \in DOMAIN q : q[i] = item})
  <2>1. PICK j \in DOMAIN p : p[j] = item
    BY <1>1, <1>7
  <2>2. PICK i \in DOMAIN q : q[i] = item
    BY <1>0, <1>6, <2>1
  <2>3. {k \in DOMAIN p : p[k] = item} = {j}
    BY <2>1 DEF NamesOnce
  <2>4. {k \in DOMAIN q : q[k] = item} = {i}
    BY <2>2 DEF NamesOnce
  <2> QED
    BY <2>3, <2>4, FS_Singleton
<1>8. \A item \in {p[i] : i \in DOMAIN p} \cup {q[i] : i \in DOMAIN q} :
        AtomicShop!Cardinality({i \in DOMAIN p : p[i] = item}) =
          AtomicShop!Cardinality({i \in DOMAIN q : q[i] = item})
  BY <1>7, ShopCounts
<1> QED
  BY <1>8 DEF AtomicShop!SameLines

-----------------------------------------------------------------------------
(* Linearizability: each step of a call as a step of the shop.             *)

\* One answer is given, and it is this one.
LEMMA AnswersAs ==
  ASSUME TypeOK, TypeOK', NEW t \in Calls, Bystanders(t)
  PROVE  answer' = [answer EXCEPT ![t] = answer'[t]]
BY DEF TypeOK, Bystanders

\* A statement that answers nobody is no step of the shop.
LEMMA SilentIsStutter ==
  ASSUME Guaranteed, Guaranteed', NEW t \in Calls, Act(t), ~Receive(t), Silent(t)
  PROVE  UNCHANGED AtomicShop!vars
<1>1. TypeOK /\ TypeOK' /\ Types
  BY DEF Guaranteed, Inductive, Ledger, Types
<1>2. req' = req /\ UNCHANGED tables /\ answer'[t] = answer[t] /\ Bystanders(t)
  BY <1>1, Underway, AnswerShapes DEF Silent
<1>3. answer' = answer
  BY <1>1, <1>2 DEF TypeOK, Bystanders
<1> QED
  BY <1>2, <1>3 DEF AtomicShop!vars, AtomicShop!shop, tables

\* Receive is Ask: what the use case turns down is malformed, for the reason it says.
LEMMA ReceiveIsAsk ==
  ASSUME Guaranteed, NamedOnce, NEW t \in Calls, Receive(t)
  PROVE  AtomicShop!Ask(t)
<1>1. PICK r \in Requests :
        /\ req' = [req EXCEPT ![t] = [r EXCEPT !.user = StoredUser(r.user)]]
        /\ IF Validate(r) = "ok"
             THEN Goto(t, "begin") /\ UNCHANGED answer
             ELSE Reply(t, Validate(r), Nobody)
  BY DEF Receive
<1> DEFINE n == [r EXCEPT !.user = StoredUser(r.user)]
<1>2. /\ r \in Request /\ n.items = r.items /\ n.op = r.op
      /\ r.op \in {"ReserveStock", "CreateOrder"}
      /\ r.op = "ReserveStock" => Len(r.items) = 1
  BY CheckoutAssumption DEF Request
<1>3. r.op = "ReserveStock" => r.items # <<>>
  BY <1>2
<1>4. AtomicShop!Malformed(n) <=> Validate(r) # "ok"
  BY <1>2, <1>3 DEF AtomicShop!Malformed, Validate
<1>5. AtomicShop!Malformed(n) => AtomicShop!BadRequest(n) = Validate(r)
  BY <1>2, <1>3 DEF AtomicShop!Malformed, AtomicShop!BadRequest, Validate
<1>6. req[t] = Nobody
  BY DEF Receive, NamedOnce, Known
<1>7. UNCHANGED AtomicShop!shop
  BY DEF Receive, tables, AtomicShop!shop
<1>8. n \in {[s EXCEPT !.user = StoredUser(s.user)] : s \in Requests}
  OBVIOUS
<1>9. req' = [req EXCEPT ![t] = n]
  BY <1>1
<1>10. IF AtomicShop!Malformed(n) THEN AtomicShop!Reply(t, AtomicShop!BadRequest(n), Nobody)
                                  ELSE UNCHANGED answer
  BY <1>1, <1>4, <1>5 DEF AtomicShop!Reply, Reply
<1> HIDE DEF n
<1> QED
  BY <1>6, <1>7, <1>8, <1>9, <1>10 DEF AtomicShop!Ask

\* A call that has not been answered is open in the shop.
LEMMA OpenInShop ==
  ASSUME Guaranteed, NamedOnce, NEW t \in Calls, pc[t] \notin {"idle", "done"}
  PROVE  AtomicShop!Open(t)
BY DEF Guaranteed, OpenCalls, UnansweredOf, NamedOnce, Known, AtomicShop!Open

\* ReplayOrder repeats the answer of the order, or refuses a key that is taken.
LEMMA ReplayIsRepeat ==
  ASSUME Guaranteed, NamedOnce, NEW t \in Calls, ReplayOrder(t)
  PROVE  AtomicShop!Repeat(t, req[t]) \/ AtomicShop!Refuse(t, req[t])
<1>1. PICK o \in orders :
        /\ o.key = req[t].key
        /\ IF SameOrder(o, t) THEN Reply(t, "ok", o.id) ELSE Reply(t, "ErrDuplicateOrder", Nobody)
  BY DEF ReplayOrder
<1>2. pc[t] = "lookup" /\ UNCHANGED tables
  BY DEF ReplayOrder
<1>3. req[t] \in Request /\ req[t].items \in Seq(Item) /\ req[t].op = "CreateOrder"
  BY <1>2, CurrentLine DEF Guaranteed, Inductive, Ledger, Types, RequestOK, RequestOf, IsOrder
<1>4. o.items \in Seq(Item) /\ NamesOnce(o.items) /\ NamesOnce(req[t].items)
  BY <1>2 DEF Guaranteed, Inductive, Ledger, Types, TypeOK, Order, NamedOnce, Known
<1>5. UNCHANGED AtomicShop!shop
  BY <1>2 DEF tables, AtomicShop!shop
<1>6. CASE SameOrder(o, t)
  <2>1. AtomicShop!SameLines(o.items, req[t].items) /\ o.user = req[t].user
    BY <1>3, <1>4, <1>6, ReplayedLines DEF SameOrder
  <2>2. AtomicShop!Reply(t, "ok", o.id)
    BY <1>1, <1>6 DEF AtomicShop!Reply, Reply
  <2> QED
    BY <1>1, <1>3, <1>5, <2>1, <2>2 DEF AtomicShop!Repeat
<1>7. CASE ~SameOrder(o, t)
  <2>1. AtomicShop!Reply(t, "ErrDuplicateOrder", Nobody)
    BY <1>1, <1>7 DEF AtomicShop!Reply, Reply
  <2> QED
    BY <1>1, <1>3, <1>5, <2>1 DEF AtomicShop!Refuse
<1> QED
  BY <1>6, <1>7

\* What a refusal says at the statement that decides it.
Reason(t) ==
  LET result == answer'[t].result
  IN  \/ result = "Internal"
      \/ result = "ErrInsufficientStock"
      \/ /\ result = "ErrNotFound"
         /\ \E i \in DOMAIN req[t].items : req[t].items[i].cab \notin Cabinets
      \/ /\ result = "ErrDuplicateReservation" /\ ~IsOrder(t)
         /\ \E r \in reservations : r.key \in Keys /\ r.key = req[t].key
      \/ /\ result = "ErrDuplicateOrder" /\ IsOrder(t)
         /\ \E o \in orders : o.key = req[t].key

\* An order that names each cabinet once does not meet its own stock keys, and nobody
\* else has them.
LEMMA OrderKeysAreFree ==
  ASSUME Guaranteed, NamedOnce, NEW t \in Calls, pc[t] \in {"reserve", "register"}, IsOrder(t),
         NEW r \in Visible(t)
  PROVE  r.key # StockKey(t)
<1>1. This(t).cab \in CabinetIds /\ req[t].items \in Seq(Item)
      /\ line[t] \in 1 .. Len(req[t].items)
  BY CurrentLine DEF Guaranteed, Inductive, Ledger, Types, RequestOK, RequestOf
<1>2. StockKey(t) = <<t, This(t).cab>>
  BY DEF StockKey
<1>3. CASE r \in reservations
  BY <1>1, <1>2, <1>3 DEF Guaranteed, OpenCalls, UnansweredOf
<1>4. CASE r \in pending[t]
  <2>1. PICK i \in 1 .. (line[t] - 1) : r = LineRow(t, i)
    BY <1>4 DEF Guaranteed, OpenCalls, RowsOf, LinesDone
  <2>2. i \in DOMAIN req[t].items /\ line[t] \in DOMAIN req[t].items /\ i # line[t]
    BY <1>1
  <2>3. req[t].items[i].cab # This(t).cab
    BY <2>2 DEF NamedOnce, Known, NamesOnce, This
  <2>4. r.key = <<t, req[t].items[i].cab>>
    BY <2>1 DEF LineRow
  <2> QED
    BY <1>2, <2>3, <2>4
<1> QED
  BY <1>3, <1>4 DEF Visible

\* An existing reservation is the reason only for a client's own.
LEMMA TakenKeyIsClients ==
  ASSUME Guaranteed, NamedOnce, NEW t \in Calls, pc[t] \in {"reserve", "register"},
         NEW r \in Visible(t), r.key = StockKey(t)
  PROVE  ~IsOrder(t) /\ r \in reservations /\ r.key \in Keys /\ r.key = req[t].key
<1>1. ~IsOrder(t)
  BY OrderKeysAreFree
<1>2. pending[t] = {}
  BY <1>1 DEF Guaranteed, Inductive, Ledger, PendingOK, PendingOf
<1>3. req[t].key \in Keys
  BY CurrentLine DEF Guaranteed, Inductive, Ledger, Types, Request
<1> QED
  BY <1>1, <1>2, <1>3 DEF Visible, StockKey

\* Every refusal has its reason.
LEMMA RefusalHasReason ==
  ASSUME Guaranteed, NamedOnce, NEW t \in Calls, Act(t), ~Receive(t), GiveUp(t)
  PROVE  Reason(t)
<1>0. /\ answer \in [Calls -> [result : Result, order : Calls \cup {Nobody}]] /\ Types
      /\ pc \in [Calls -> Labels]
  BY DEF Guaranteed, Inductive, Ledger, Types, TypeOK
<1>1. pc'[t] = "done"
  BY <1>0 DEF GiveUp, Abandon, Refuse, Reply, Goto
<1>2. ASSUME NEW e, Refuse(t, e) PROVE answer'[t].result = e
  BY <1>0, <1>2 DEF Refuse, Reply
<1>3. CASE Fail(t) \/ DeadlockVictim(t)
  BY <1>2, <1>3 DEF Fail, DeadlockVictim, Reason
<1>4. CASE DecrementNoRows(t)
  BY <1>2, <1>4 DEF DecrementNoRows, Reason
<1>5. CASE SnapshotMissing(t)
  BY <1>2, <1>5 DEF SnapshotMissing, Reason
<1>6. CASE ReservationFound(t) \/ RegisterDuplicate(t)
  <2>1. CASE RegisterDuplicate(t)
    <3>1. pc[t] = "register" /\ answer'[t].result = "ErrDuplicateReservation"
      BY <1>2, <2>1 DEF RegisterDuplicate
    <3>2. PICK r \in Visible(t) : r.key = StockKey(t)
      BY <2>1 DEF RegisterDuplicate, KeyTaken
    <3> QED
      BY <3>1, <3>2, TakenKeyIsClients DEF Reason
  <2>2. CASE ReservationFound(t)
    <3>1. pc[t] = "reserve"
      BY <2>2 DEF ReservationFound
    <3>2. PICK r \in Visible(t) :
            r.key = StockKey(t) /\ (LineReserved(t) \/ Refuse(t, "ErrDuplicateReservation"))
      BY <2>2 DEF ReservationFound
    <3>3. ~LineReserved(t)
      BY <1>0, <1>1, <3>1, LineReservedStep DEF Goto
    <3>4. answer'[t].result = "ErrDuplicateReservation"
      BY <1>2, <3>2, <3>3
    <3> QED
      BY <3>1, <3>2, <3>4, TakenKeyIsClients DEF Reason
  <2> QED
    BY <1>6, <2>1, <2>2
<1>7. CASE InsertOrderDuplicate(t)
  BY <1>0, <1>2, <1>7 DEF InsertOrderDuplicate, OrderKeyTaken, Reason, Types, RequestOK, RequestOf
<1>8. ASSUME ReplayOrder(t), answer'[t].result # "ErrDuplicateOrder"
      PROVE  FALSE
  BY <1>0, <1>8 DEF ReplayOrder, Reply, GiveUp, Refusal
<1>9. CASE ReplayOrder(t)
  BY <1>0, <1>8, <1>9 DEF ReplayOrder, Reason, Types, RequestOK, RequestOf
<1>10. ASSUME \/ Begin(t) \/ LookupOrder(t) \/ Snapshot(t) \/ ReservationAbsent(t)
              \/ Decrement(t) \/ InsertOrder(t) \/ InsertOutbox(t)
       PROVE  FALSE
  BY <1>0, <1>1, <1>10 DEF Begin, LookupOrder, Snapshot, ReservationAbsent, Decrement, InsertOrder,
                    InsertOutbox, Goto
<1>11. ASSUME Register(t) PROVE FALSE
  BY <1>0, <1>1, <1>11, LineReservedStep DEF Register, Goto
<1>12. CASE Commit(t) \/ CommitUnacknowledged(t)
  BY <1>0, <1>12 DEF Commit, CommitUnacknowledged, Reply, GiveUp, Refusal, Reason
<1> QED
  BY <1>3, <1>4, <1>5, <1>6, <1>7, <1>9, <1>10, <1>11, <1>12
     DEF Act, Progress, ReserveStep, OrderStep

\* A call that gives up is refused by the shop, for a reason that holds there.
LEMMA GiveUpIsRefuse ==
  ASSUME Guaranteed, Guaranteed', NamedOnce, NEW t \in Calls, Act(t), ~Receive(t), GiveUp(t)
  PROVE  AtomicShop!Refuse(t, req[t])
<1> DEFINE result == answer'[t].result
<1>0. /\ TypeOK /\ TypeOK' /\ Types
      /\ answer' \in [Calls -> [result : Result, order : Calls \cup {Nobody}]]
  BY DEF Guaranteed, Inductive, Ledger, Types, TypeOK
<1>1. AtomicShop!Reply(t, result, Nobody)
  <2>1. answer'[t] = [result |-> result, order |-> Nobody]
    BY <1>0 DEF GiveUp
  <2> QED
    BY <1>0, <2>1, AnswersAs, AnswerShapes DEF AtomicShop!Reply
<1>2. UNCHANGED AtomicShop!shop /\ pc[t] \notin {"idle", "done"} /\ req' = req
      /\ stock' = stock
  BY DEF GiveUp, Abandon, Refuse, Rollback, tables, AtomicShop!shop
<1>3. Reason(t)
  BY RefusalHasReason
<1>4. req[t] \in Request /\ req[t].items \in Seq(Item)
  BY <1>0, <1>2, CurrentLine DEF Types
<1>5. CASE result = "Internal"
  BY <1>1, <1>2, <1>5 DEF AtomicShop!Refuse
<1>6. CASE result = "ErrNotFound"
  BY <1>1, <1>2, <1>3, <1>6 DEF AtomicShop!Refuse, Reason
<1>7. CASE result = "ErrDuplicateReservation"
  <2>1. req[t].op = "ReserveStock" /\ \E h \in {r \in reservations : r.key \in Keys} : h.key = req[t].key
    BY <1>3, <1>4, <1>7 DEF Reason, IsOrder, Request
  <2> QED
    BY <1>1, <1>2, <1>7, <2>1 DEF AtomicShop!Refuse
<1>8. CASE result = "ErrDuplicateOrder"
  BY <1>1, <1>2, <1>3, <1>8 DEF AtomicShop!Refuse, Reason, IsOrder
<1>9. CASE result = "ErrInsufficientStock"
  <2>1. PICK i \in DOMAIN req[t].items :
          \/ req[t].items[i].qty <= 0 \/ req[t].items[i].cab \notin Cabinets
          \/ stock[req[t].items[i].cab] < req[t].items[i].qty
    BY <1>2, <1>9 DEF Guaranteed, Promises, SoldOutIsTrue
  <2>2. req[t].items[i] \in Item /\ req[t].items[i].qty > 0
    BY <1>0, <1>2, <1>4 DEF Types, RequestOK, RequestOf
  <2>3. CASE req[t].items[i].cab \notin Cabinets
    BY <1>1, <1>2, <1>9, <2>3 DEF AtomicShop!Refuse
  <2>4. CASE req[t].items[i].cab \in Cabinets
    <3>1. req[t].items[i].qty \in Int /\ stock[req[t].items[i].cab] \in Int
      BY <1>0, <2>2, <2>4 DEF Item, TypeOK
    <3>2. stock[req[t].items[i].cab] < req[t].items[i].qty
      BY <2>1, <2>2, <2>4, <3>1
    <3>3. AtomicShop!Wanted(req[t].items, req[t].items[i].cab) = req[t].items[i].qty
      BY <1>2, <1>4, WantedOnce DEF NamedOnce, Known
    <3>4. ~(AtomicShop!Wanted(req[t].items, req[t].items[i].cab) <= stock[req[t].items[i].cab])
      BY <3>1, <3>2, <3>3
    <3>5. ~AtomicShop!Available(req[t])
      BY <2>4, <3>4 DEF AtomicShop!Available
    <3> QED
      BY <1>1, <1>2, <1>9, <3>5 DEF AtomicShop!Refuse
  <2> QED
    BY <2>3, <2>4
<1> QED
  BY <1>3, <1>5, <1>6, <1>7, <1>8, <1>9 DEF Reason

\* A commit takes off each shelf what the lines of its request want of it.
LEMMA CommitTakes ==
  ASSUME Guaranteed, Guaranteed', NamedOnce, NEW t \in Calls, Settle(t),
         \A i \in DOMAIN req[t].items : \E r \in pending[t] :
           r.cab = req[t].items[i].cab /\ r.qty = req[t].items[i].qty,
         \A r \in pending[t] : \E i \in DOMAIN req[t].items :
           r.cab = req[t].items[i].cab /\ r.qty = req[t].items[i].qty
  PROVE  AtomicShop!Available(req[t]) /\ AtomicShop!Take(req[t])
<1> DEFINE items == req[t].items
<1>0. /\ stock \in [Cabinets -> Nat] /\ stock' \in [Cabinets -> Nat]
      /\ draft \in [Cabinets -> Nat] /\ pending[t] \subseteq Reservation
      /\ DraftExplained /\ Types
  BY DEF Guaranteed, Inductive, Ledger, Types, TypeOK
<1>1. pc[t] = "commit" /\ stock' = [c \in Cabinets |-> IF rowLock[c] = t THEN draft[c] ELSE stock[c]]
  BY DEF Settle, Finish, CommitTables
<1>2. items \in Seq(Item) /\ NamesOnce(items)
  BY <1>0, <1>1, CurrentLine DEF Types, NamedOnce, Known
<1>3. \A i \in DOMAIN items : items[i].cab \in Cabinets
  BY <1>0 DEF Reservation
<1>4. ASSUME NEW c \in Cabinets
      PROVE  /\ AtomicShop!Wanted(items, c) <= stock[c]
             /\ stock'[c] = stock[c] - AtomicShop!Wanted(items, c)
  <2>0. RowExplained(c) /\ stock[c] \in Nat /\ stock'[c] \in Nat
    BY <1>0 DEF DraftExplained
  <2>1. CASE rowLock[c] = t
    <3>1. PICK r \in pending[t] : r.cab = c /\ draft[c] = stock[c] - r.qty
      BY <1>1, <2>0, <2>1 DEF RowExplained
    <3>2. PICK i \in DOMAIN items : r.cab = items[i].cab /\ r.qty = items[i].qty
      OBVIOUS
    <3>3. AtomicShop!Wanted(items, c) = r.qty
      BY <1>2, <3>1, <3>2, WantedOnce
    <3>4. stock'[c] = stock[c] - r.qty /\ r.qty \in Nat
      BY <1>0, <1>1, <2>1, <3>1 DEF Reservation
    <3> QED
      BY <2>0, <3>3, <3>4
  <2>2. CASE rowLock[c] # t
    <3>1. \A i \in DOMAIN items : items[i].cab # c
      BY <2>0, <2>2 DEF RowExplained
    <3>2. AtomicShop!Wanted(items, c) = 0
      BY <1>2, <3>1, WantedOnce
    <3>3. stock'[c] = stock[c]
      BY <1>1, <2>2
    <3> QED
      BY <2>0, <3>2, <3>3
  <2> QED
    BY <2>1, <2>2
<1>5. AtomicShop!Available(req[t])
  BY <1>3, <1>4 DEF AtomicShop!Available
<1>6. stock' = [c \in Cabinets |-> stock[c] - AtomicShop!Wanted(items, c)]
  BY <1>0, <1>4
<1> QED
  BY <1>5, <1>6 DEF AtomicShop!Take

\* What the client of a commit is told.
LEMMA SettleTells ==
  ASSUME Guaranteed, Guaranteed', NEW t \in Calls, Act(t), Settle(t)
  PROVE  AtomicShop!Told(t, IF IsOrder(t) THEN t ELSE Nobody)
<1>1. TypeOK /\ TypeOK' /\ Types
  BY DEF Guaranteed, Inductive, Ledger, Types
<1>2. answer' = [answer EXCEPT ![t] = answer'[t]]
  BY <1>1, AnswersAs, AnswerShapes
<1> QED
  BY <1>2 DEF Settle, AtomicShop!Told, AtomicShop!Reply

\* The commit of CreateOrder is the sale of its order.
LEMMA CommitSellsOrder ==
  ASSUME Guaranteed, Guaranteed', NamedOnce, NEW t \in Calls, Act(t), Settle(t), IsOrder(t)
  PROVE  AtomicShop!SellOrder(t, req[t])
<1> DEFINE items == req[t].items
<1>0. Types /\ Ledger
  BY DEF Guaranteed, Inductive, Ledger
<1>1. /\ pc[t] = "commit" /\ reservations' = reservations \cup pending[t]
      /\ orders' = orders \cup {NewOrder(t)} /\ outbox' = outbox \cup {t}
  BY DEF Settle, Finish, CommitTables
<1>2. req[t] \in Request /\ DOMAIN items = 1 .. Len(items)
  BY <1>0, <1>1, CurrentLine DEF Types
<1>3. pending[t] = {LineRow(t, i) : i \in 1 .. Len(items)}
  BY <1>1 DEF Guaranteed, OpenCalls, RowsOf, LinesDone
<1>4. \A i \in 1 .. Len(items) :
        LineRow(t, i).cab = items[i].cab /\ LineRow(t, i).qty = items[i].qty
  BY DEF LineRow
<1>5. AtomicShop!Available(req[t]) /\ AtomicShop!Take(req[t])
  BY <1>2, <1>3, <1>4, CommitTakes
<1>6. \A o \in orders : o.key # req[t].key
  BY <1>1 DEF Guaranteed, Inductive, OrderKeysOnce, HoldsOrderKey
<1>7. {r \in reservations' : r.key \in Keys} = {r \in reservations : r.key \in Keys}
  <2>1. \A r \in pending[t] : r.key \in Calls \X CabinetIds
    BY <1>0, <1>1, CommittedKeys
  <2> QED
    BY <1>1, <2>1, CheckoutAssumption
<1>8. AtomicShop!Told(t, t)
  BY SettleTells
<1> QED
  BY <1>1, <1>5, <1>6, <1>7, <1>8 DEF AtomicShop!SellOrder, IsOrder, NewOrder

\* The commit of ReserveStock sells its reservation, or had it and sells nothing.
LEMMA CommitSellsReservation ==
  ASSUME Guaranteed, Guaranteed', NamedOnce, NEW t \in Calls, Act(t), Settle(t), ~IsOrder(t)
  PROVE  \/ AtomicShop!SellReservation(t, req[t])
         \/ AtomicShop!Repeat(t, req[t])
         \/ AtomicShop!Refuse(t, req[t])
<1> DEFINE items == req[t].items
           row == [key |-> req[t].key, cab |-> items[1].cab, qty |-> items[1].qty]
<1>0. Types /\ Ledger
  BY DEF Guaranteed, Inductive, Ledger
<1>1. /\ pc[t] = "commit" /\ reservations' = reservations \cup pending[t]
      /\ UNCHANGED <<orders, outbox>>
      /\ stock' = [c \in Cabinets |-> IF rowLock[c] = t THEN draft[c] ELSE stock[c]]
  BY DEF Settle, Finish, CommitTables
<1>2. req[t].op = "ReserveStock" /\ req[t].key \in Keys
  BY <1>0, <1>1, CurrentLine DEF Types, Request, IsOrder
<1>3. items \in Seq(Item) /\ DOMAIN items = {1} /\ NewReservation(t) = row
  <2>1. items \in Seq(Item) /\ Len(items) = 1 /\ line[t] \in 1 .. 1
    BY <1>0, <1>1, CurrentLine DEF Types, RequestOK, RequestOf
  <2>2. DOMAIN items = 1 .. 1 /\ line[t] = 1
    BY <2>1
  <2> QED
    BY <2>1, <2>2 DEF NewReservation, StockKey, This
<1>4. AtomicShop!Told(t, Nobody)
  BY SettleTells
<1>5. CASE pending[t] = {row}
  <2>1. AtomicShop!Available(req[t]) /\ AtomicShop!Take(req[t])
    BY <1>3, <1>5, CommitTakes
  <2>2. \A h \in {r \in reservations : r.key \in Keys} : h.key # req[t].key
    <3>1. row \in pending[t] /\ row.key = req[t].key
      BY <1>5
    <3>2. \A s \in reservations : s.key # row.key
      BY <3>1 DEF Guaranteed, Inductive, ReservationKeysOnce
    <3> QED
      BY <3>1, <3>2
  <2>3. {r \in reservations' : r.key \in Keys} = {r \in reservations : r.key \in Keys} \cup {row}
    BY <1>1, <1>2, <1>5
  <2> QED
    BY <1>1, <1>2, <1>4, <2>1, <2>2, <2>3 DEF AtomicShop!SellReservation
<1>6. CASE pending[t] = {} /\ row \in reservations
  <2>1. \A c \in Cabinets : rowLock[c] # t
    BY <1>0, <1>1, <1>6 DEF Ledger, DraftExplained, RowExplained
  <2>2. stock' = stock
    BY <1>0, <1>1, <2>1 DEF Types, TypeOK
  <2>3. UNCHANGED AtomicShop!shop
    BY <1>1, <1>6, <2>2 DEF AtomicShop!shop
  <2>4. row \in {r \in reservations : r.key \in Keys}
    BY <1>2, <1>6
  <2> QED
    BY <1>2, <1>4, <2>3, <2>4 DEF AtomicShop!Told, AtomicShop!Repeat, AtomicShop!Refuse
<1>7. OneRow(t)
  BY DEF NamedOnce
<1> QED
  BY <1>1, <1>3, <1>5, <1>6, <1>7 DEF OneRow

-----------------------------------------------------------------------------
(* Linearizability: the step, the start and the theorem.                   *)

\* Every step of the checkout is a step of the shop or none.
LEMMA StepIsShops ==
  ASSUME Guaranteed, Guaranteed', NamedOnce, [Next]_vars
  PROVE  [AtomicShop!Next]_(AtomicShop!vars)
<1>1. CASE UNCHANGED vars
  BY <1>1 DEF vars, tables, AtomicShop!vars, AtomicShop!shop
<1>2. ASSUME NEW t \in Calls, Act(t)
      PROVE  [AtomicShop!Next]_(AtomicShop!vars)
  <2>0. Types /\ pc[t] # "done"
    <3>1. Types
      BY DEF Guaranteed, Inductive, Ledger
    <3> QED
      BY <1>2, <3>1, AnswerShapes
         DEF Silent, Reject, ReplayOrder, GiveUp, Abandon, Settle, Finish
  <2>1. CASE Receive(t)
    BY <2>1, ReceiveIsAsk DEF AtomicShop!Next
  <2>2. ASSUME ~Receive(t), ReplayOrder(t) \/ GiveUp(t) \/ Settle(t)
        PROVE  [AtomicShop!Next]_(AtomicShop!vars)
    <3>1. pc[t] # "idle" /\ req' = req
      BY <1>2, <2>0, <2>2, Underway
    <3>2. AtomicShop!Open(t)
      BY <2>0, <3>1, OpenInShop
    <3>3. \/ AtomicShop!SellReservation(t, req[t]) \/ AtomicShop!SellOrder(t, req[t])
          \/ AtomicShop!Repeat(t, req[t]) \/ AtomicShop!Refuse(t, req[t])
      <4>1. CASE ReplayOrder(t)
        BY <4>1, ReplayIsRepeat
      <4>2. CASE GiveUp(t)
        BY <1>2, <2>2, <4>2, GiveUpIsRefuse
      <4>3. CASE Settle(t) /\ IsOrder(t)
        BY <1>2, <4>3, CommitSellsOrder
      <4>4. CASE Settle(t) /\ ~IsOrder(t)
        BY <1>2, <4>4, CommitSellsReservation
      <4> QED
        BY <2>2, <4>1, <4>2, <4>3, <4>4
    <3>4. AtomicShop!Decide(t)
      BY <3>1, <3>2, <3>3 DEF AtomicShop!Decide
    <3> QED
      BY <3>4 DEF AtomicShop!Next
  <2>3. CASE ~Receive(t) /\ Silent(t)
    BY <1>2, <2>3, SilentIsStutter
  <2>4. CASE ~Receive(t) /\ Reject(t)
    BY <1>2, <2>0, <2>4, Underway DEF Reject
  <2> QED
    BY <1>2, <2>0, <2>1, <2>2, <2>3, <2>4, AnswerShapes
<1> QED
  BY <1>1, <1>2 DEF Next, Act, Quiet

\* At the start nothing is sold and nothing is asked.
LEMMA InitIsShops == Init => AtomicShop!Init /\ NamedOnce
<1> SUFFICES ASSUME Init PROVE AtomicShop!Init /\ NamedOnce
  OBVIOUS
<1>1. {r \in reservations : r.key \in Keys} = {}
  BY DEF Init
<1>2. AtomicShop!Init
  BY <1>1 DEF Init, AtomicShop!Init
<1>3. NamedOnce
  BY DEF Init, NamedOnce, Known, OneRow
<1> QED
  BY <1>2, <1>3

\* The checkout is linearizable: whatever calls overlap, fail or repeat a key, each
\* is decided at one instant on the stock and the sales of that instant, for requests
\* that name each cabinet once (repository.go:62-124, 145-300).
THEOREM CheckoutIsAtomic ==
  ASSUME \A r \in Requests : NamesOnce(r.items)
  PROVE  Spec => ImplementsShop
<1>1. NamedOnce /\ Guaranteed /\ [Next]_vars => NamedOnce'
  BY NamedOnceStep DEF Guaranteed, Inductive
<1>2. NamedOnce /\ Guaranteed /\ Guaranteed' /\ [Next]_vars => [AtomicShop!Next]_(AtomicShop!vars)
  BY StepIsShops
<1> QED
  BY <1>1, <1>2, InitIsShops, GuaranteedAlways, PTL DEF Spec, ImplementsShop, AtomicShop!Spec
=============================================================================
