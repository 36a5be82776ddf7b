------------------------------ MODULE Checkout ------------------------------
(***************************************************************************)
(* The selling path of the catalog service: the ReserveStock and           *)
(* CreateOrder calls, each run as one READ COMMITTED PostgreSQL            *)
(* transaction on a pooled connection, one SQL statement per step.         *)
(*                                                                         *)
(* Every call is served at most once, so the call stands for the goroutine *)
(* that serves it, for its transaction and for the order id (a fresh UUID) *)
(* it generates.  A client that retries issues another call with the same  *)
(* idempotency key.                                                        *)
(***************************************************************************)
EXTENDS Integers, Sequences, FiniteSetsExt

CONSTANTS
  Calls,       \* the calls the server receives
  Cabinets,    \* the rows of catalog.cabinets
  CabinetIds,  \* the cabinet ids a client may name, known or not
  InitStock,   \* the seeded quantity of each cabinet
  Keys,        \* client idempotency keys
  Users,       \* X-User-Id values, as received and as stored
  Trim,        \* strings.TrimSpace on Users
  Requests,    \* the requests clients send
  PoolSize,    \* connections in the pgx pool
  Nobody       \* neither a call nor a request

Anonymous == "anonymous"

Item    == [cab: CabinetIds, qty: Int]
Request == [op: {"ReserveStock", "CreateOrder"}, user: Users,
            items: Seq(Item), key: Keys]

ASSUME CheckoutAssumption ==
  /\ Cabinets \subseteq CabinetIds /\ IsFiniteSet(CabinetIds)
  /\ InitStock \in [Cabinets -> Nat]
  /\ Trim \in [Users -> Users]
  /\ {"", Anonymous} \subseteq Users
  /\ Requests \subseteq Request
  /\ \A r \in Requests : r.op = "ReserveStock" => Len(r.items) = 1
  /\ PoolSize \in Nat \ {0}
  /\ Nobody \notin Calls \cup Requests \cup Request
  /\ Keys \cap (Calls \X CabinetIds) = {}

VARIABLES
  stock,         \* catalog.cabinets.quantity, committed version
  reservations,  \* catalog.reservations, committed rows
  orders,        \* catalog.orders with their order_items, committed rows
  outbox,        \* catalog.outbox, committed rows: the order each announces
  draft,         \* newest version of each cabinet row, committed or not
  rowLock,       \* the transaction that wrote that version, if in progress
  pending,       \* reservation rows each transaction has inserted so far
  pc,            \* the next statement of each call
  req,           \* the request each call serves
  line,          \* the order line each call is reserving
  answer         \* what each call answered

tables == <<stock, reservations, orders, outbox>>
txn    == <<draft, rowLock, pending>>
vars   == <<tables, txn, pc, req, line, answer>>

Refusal == {"ErrInsufficientStock", "ErrDuplicateReservation", "ErrNotFound",
            "ErrInvalidQuantity", "ErrEmptyOrder", "ErrDuplicateOrder"}
Result  == Refusal \cup {"none", "ok", "Internal"}

\* A stock idempotency key is the client's (ReserveStock) or names the order
\* and the cabinet (CreateOrder).
Reservation == [key: Keys \cup (Calls \X CabinetIds), cab: Cabinets, qty: Nat]
Order       == [id: Calls, user: Users, key: Keys, items: Seq(Item)]

IsOrder(t) == req[t].op = "CreateOrder"
\* Mutant: the lines are ranged over as a Go map, which has an order of its own each
\* time; here the orders of one key have the opposite one.
ThisInMapOrder(t) ==
  LET items == req[t].items
  IN  IF req[t].key = CHOOSE k \in Keys : TRUE
        THEN items[Len(items) + 1 - line[t]] ELSE items[line[t]]
\* The line the loop is at: lines are reserved in the order of the request.
This(t)    == req[t].items[line[t]]
\* Mutant: the reservations of an order are keyed by the client's key.
StockKeyShared(t) == req[t].key
StockKey(t) == IF IsOrder(t) THEN <<t, This(t).cab>> ELSE req[t].key
NewOrder(t) == [id |-> t, user |-> req[t].user, key |-> req[t].key,
                items |-> req[t].items]

InTx(t) == pc[t] \notin {"idle", "begin", "done"}
\* The transaction has inserted its orders row but not committed it.
HoldsOrderKey(t) == pc[t] \in {"insertOutbox", "commit"} /\ IsOrder(t)

Init ==
  /\ stock = InitStock
  /\ reservations = {}
  /\ orders = {}
  /\ outbox = {}
  /\ draft = InitStock
  /\ rowLock = [c \in Cabinets |-> Nobody]
  /\ pending = [t \in Calls |-> {}]
  /\ pc = [t \in Calls |-> "idle"]
  /\ req = [t \in Calls |-> Nobody]
  /\ line = [t \in Calls |-> 1]
  /\ answer = [t \in Calls |-> [result |-> "none", order |-> Nobody]]

\* The gRPC status the handler turns a result of the use case into.
Status(op, result) ==
  CASE result = "ok" -> "OK"
    [] result = "ErrInsufficientStock" -> "FailedPrecondition"
    [] result = "ErrNotFound" -> "NotFound"
    [] op = "ReserveStock" /\ result = "ErrDuplicateReservation" -> "AlreadyExists"
    [] op = "CreateOrder" /\ result = "ErrDuplicateOrder" -> "AlreadyExists"
    [] op = "CreateOrder" /\ result \in {"ErrInvalidQuantity", "ErrEmptyOrder"}
         -> "InvalidArgument"
    [] OTHER -> "Internal"

Goto(t, label) == pc' = [pc EXCEPT ![t] = label]

Reply(t, result, order) ==
  /\ Goto(t, "done")
  /\ answer' = [answer EXCEPT ![t] = [result |-> result, order |-> order]]

\* Mutants: no deferred Rollback; reservations written outside the transaction.
RollbackForgotten(t) == UNCHANGED <<tables, txn>>
RollbackKeepsReservations(t) ==
  /\ draft' = [c \in Cabinets |-> IF rowLock[c] = t THEN stock[c] ELSE draft[c]]
  /\ rowLock' = [c \in Cabinets |-> IF rowLock[c] = t THEN Nobody ELSE rowLock[c]]
  /\ pending' = [pending EXCEPT ![t] = {}]
  /\ reservations' = reservations \cup pending[t]
  /\ UNCHANGED <<stock, orders, outbox>>
\* defer tx.Rollback: the row versions and rows t wrote disappear, its locks go.
Rollback(t) ==
  /\ draft' = [c \in Cabinets |-> IF rowLock[c] = t THEN stock[c] ELSE draft[c]]
  /\ rowLock' = [c \in Cabinets |-> IF rowLock[c] = t THEN Nobody ELSE rowLock[c]]
  /\ pending' = [pending EXCEPT ![t] = {}]
  /\ UNCHANGED tables

Refuse(t, result) ==
  /\ Rollback(t)
  /\ Reply(t, result, Nobody)
  /\ UNCHANGED <<req, line>>

-----------------------------------------------------------------------------
(* The handler and the use case, before the transaction.                   *)

StoredUser(u) == IF Trim[u] = "" THEN Anonymous ELSE Trim[u]

\* Mutant: the quantity check only looks for zero.
ValidateZeroOnly(r) ==
  IF \E i \in DOMAIN r.items : r.items[i].qty = 0 THEN "ErrInvalidQuantity"
  ELSE IF r.items = <<>> THEN "ErrEmptyOrder" ELSE "ok"
\* The use case's verdict on a request, "ok" when it goes to the repository.
Validate(r) ==
  LET badQuantity == \E i \in DOMAIN r.items : r.items[i].qty <= 0
  IN  CASE r.op = "ReserveStock" /\ badQuantity -> "ErrInsufficientStock"
        [] r.op = "CreateOrder" /\ r.items = <<>> -> "ErrEmptyOrder"
        [] r.op = "CreateOrder" /\ badQuantity -> "ErrInvalidQuantity"
        [] OTHER -> "ok"

Receive(t) ==
  /\ pc[t] = "idle"
  /\ \E r \in Requests :
       /\ req' = [req EXCEPT ![t] = [r EXCEPT !.user = StoredUser(r.user)]]
       /\ IF Validate(r) = "ok"
            THEN Goto(t, "begin") /\ UNCHANGED answer
            ELSE Reply(t, Validate(r), Nobody)
  /\ UNCHANGED <<tables, txn, line>>

\* pool.Begin waits for a free connection.
Begin(t) ==
  /\ pc[t] = "begin"
  /\ Cardinality({u \in Calls : InTx(u)}) < PoolSize
  /\ Goto(t, IF IsOrder(t) THEN "lookup" ELSE "reserve")
  /\ UNCHANGED <<tables, txn, req, line, answer>>

-----------------------------------------------------------------------------
(* CreateOrderTx up to the reservations.                                   *)

\* The itemMap of a committed order: the last line of a cabinet wins.
ItemMap(items) ==
  [c \in {items[i].cab : i \in DOMAIN items} |->
     items[Max({i \in DOMAIN items : items[i].cab = c})].qty]

\* Mutant: a replay does not look at the user.
SameOrderAnyUser(o, t) ==
  ItemMap(o.items) = ItemMap(req[t].items) /\ Len(o.items) = Len(req[t].items)

SameOrder(o, t) ==
  LET items == req[t].items
      map   == ItemMap(o.items)
  IN  /\ o.user = req[t].user
      /\ Len(o.items) = Len(items)
      /\ \A i \in DOMAIN items :
           items[i].cab \in DOMAIN map /\ map[items[i].cab] = items[i].qty

\* An order with this key exists: answer it, or refuse a different request.
ReplayOrder(t) ==
  /\ pc[t] = "lookup"
  /\ \E o \in orders :
       /\ o.key = req[t].key
       /\ IF SameOrder(o, t) THEN Reply(t, "ok", o.id)
                             ELSE Reply(t, "ErrDuplicateOrder", Nobody)
  /\ UNCHANGED <<tables, txn, req, line>>

LookupOrder(t) ==
  /\ pc[t] = "lookup"
  /\ \A o \in orders : o.key # req[t].key
  /\ Goto(t, "snapshot")
  /\ UNCHANGED <<tables, txn, req, line, answer>>

\* Price snapshots: every cabinet named must exist.
Snapshot(t) ==
  /\ pc[t] = "snapshot"
  /\ \A i \in DOMAIN req[t].items : req[t].items[i].cab \in Cabinets
  /\ Goto(t, "reserve")
  /\ UNCHANGED <<tables, txn, req, line, answer>>

SnapshotMissing(t) ==
  /\ pc[t] = "snapshot"
  /\ \E i \in DOMAIN req[t].items : req[t].items[i].cab \notin Cabinets
  /\ Refuse(t, "ErrNotFound")

-----------------------------------------------------------------------------
(* ReserveStockOnTx, once per line.                                        *)

\* Return from ReserveStockOnTx without error: next line, or past the loop.
LineReserved(t) ==
  IF line[t] < Len(req[t].items)
    THEN Goto(t, "reserve") /\ line' = [line EXCEPT ![t] = @ + 1]
    ELSE Goto(t, IF IsOrder(t) THEN "insertOrder" ELSE "commit") /\ UNCHANGED line

\* Mutant: GetReservation runs on the pool, outside the transaction.
VisibleCommitted(t) == reservations
\* Rows a statement of t sees: committed ones and its own.
Visible(t) == reservations \cup pending[t]

\* GetReservation finds the key: a repeated request passes, another is refused.
ReservationFound(t) ==
  /\ pc[t] = "reserve"
  /\ \E r \in Visible(t) :
       /\ r.key = StockKey(t)
       /\ IF r.cab = This(t).cab /\ r.qty = This(t).qty
            THEN LineReserved(t) /\ UNCHANGED <<tables, txn, req, answer>>
            ELSE Refuse(t, "ErrDuplicateReservation")

ReservationAbsent(t) ==
  /\ pc[t] = "reserve"
  /\ \A r \in Visible(t) : r.key # StockKey(t)
  /\ Goto(t, "decrement")
  /\ UNCHANGED <<tables, txn, req, line, answer>>

\* Mutant: nobody waits for a row lock.
RowFreeAlways(t, c) == TRUE
RowFree(t, c) == rowLock[c] \in {Nobody, t}

\* UPDATE ... SET quantity = quantity - @q WHERE quantity >= @q, on the newest
\* version of the row once no other transaction holds it.
Decrement(t) ==
  /\ pc[t] = "decrement"
  /\ This(t).cab \in Cabinets
  /\ RowFree(t, This(t).cab)
  /\ draft[This(t).cab] >= This(t).qty
  /\ draft' = [draft EXCEPT ![This(t).cab] = @ - This(t).qty]
  /\ rowLock' = [rowLock EXCEPT ![This(t).cab] = t]
  /\ Goto(t, "register")
  /\ UNCHANGED <<tables, pending, req, line, answer>>

\* Mutant: a row that another transaction holds counts as sold (SKIP LOCKED).
TooFewOrBusy(t) ==
  LET c == This(t).cab
  IN  c \in Cabinets => ~RowFree(t, c) \/ draft[c] < This(t).qty

\* The UPDATE matches no row: no such cabinet, the committed version is already
\* too low (no wait for its holder then), or the newest one is.
TooFew(t) ==
  LET c == This(t).cab
  IN  c \in Cabinets =>
        IF RowFree(t, c) THEN draft[c] < This(t).qty ELSE stock[c] < This(t).qty

DecrementNoRows(t) ==
  /\ pc[t] = "decrement"
  /\ TooFew(t)
  /\ Refuse(t, "ErrInsufficientStock")

\* INSERT INTO reservations waits for an uncommitted row with the same key.
KeyPending(t) == \E u \in Calls \ {t} : \E r \in pending[u] : r.key = StockKey(t)
KeyTaken(t)   == \E r \in Visible(t) : r.key = StockKey(t)

Register(t) ==
  /\ pc[t] = "register"
  /\ ~KeyPending(t) /\ ~KeyTaken(t)
  /\ pending' = [pending EXCEPT ![t] = @ \cup
       {[key |-> StockKey(t), cab |-> This(t).cab, qty |-> This(t).qty]}]
  /\ LineReserved(t)
  /\ UNCHANGED <<tables, draft, rowLock, req, answer>>

\* unique_violation (23505) on the primary key of reservations.
RegisterDuplicate(t) ==
  /\ pc[t] = "register"
  /\ KeyTaken(t)
  /\ Refuse(t, "ErrDuplicateReservation")

-----------------------------------------------------------------------------
(* CreateOrderTx after the reservations, and the commit of both calls.     *)

OrderKeyPending(t) ==
  \E u \in Calls \ {t} : HoldsOrderKey(u) /\ req[u].key = req[t].key

\* Mutant: orders.idempotency_key is not UNIQUE.
OrderKeyNeverTaken(t) == FALSE
OrderKeyTaken(t) == \E o \in orders : o.key = req[t].key

InsertOrder(t) ==
  /\ pc[t] = "insertOrder"
  /\ ~OrderKeyPending(t) /\ ~OrderKeyTaken(t)
  /\ Goto(t, "insertOutbox")
  /\ UNCHANGED <<tables, txn, req, line, answer>>

\* unique_violation (23505) on orders.idempotency_key.
InsertOrderDuplicate(t) ==
  /\ pc[t] = "insertOrder"
  /\ OrderKeyTaken(t)
  /\ Refuse(t, "ErrDuplicateOrder")

\* The order_items and outbox rows carry fresh ids: no other call sees them.
InsertOutbox(t) ==
  /\ pc[t] = "insertOutbox"
  /\ Goto(t, "commit")
  /\ UNCHANGED <<tables, txn, req, line, answer>>

CommitTables(t) ==
  /\ stock' = [c \in Cabinets |-> IF rowLock[c] = t THEN draft[c] ELSE stock[c]]
  /\ reservations' = reservations \cup pending[t]
  /\ IF IsOrder(t)
       THEN orders' = orders \cup {NewOrder(t)} /\ outbox' = outbox \cup {t}
       ELSE UNCHANGED <<orders, outbox>>
  /\ rowLock' = [c \in Cabinets |-> IF rowLock[c] = t THEN Nobody ELSE rowLock[c]]
  /\ pending' = [pending EXCEPT ![t] = {}]
  /\ UNCHANGED <<draft, req, line>>

Commit(t) ==
  /\ pc[t] = "commit"
  /\ CommitTables(t)
  /\ Reply(t, "ok", IF IsOrder(t) THEN t ELSE Nobody)

\* The server commits but the connection breaks before tx.Commit returns.
CommitUnacknowledged(t) ==
  /\ pc[t] = "commit"
  /\ CommitTables(t)
  /\ Reply(t, "Internal", Nobody)

-----------------------------------------------------------------------------
(* Failures: a broken connection, a cancelled context, a process crash; and *)
(* the deadlock detector of PostgreSQL, which cancels one member of a wait  *)
(* cycle.                                                                   *)

Fail(t) ==
  /\ InTx(t) \/ pc[t] = "begin"
  /\ Refuse(t, "Internal")

\* The statement t is at waits for transaction u to end.
WaitsFor(t, u) ==
  /\ u # t
  /\ \/ /\ pc[t] = "decrement"
        /\ This(t).cab \in Cabinets
        /\ rowLock[This(t).cab] = u
        /\ stock[This(t).cab] >= This(t).qty
     \/ /\ pc[t] = "register"
        /\ \E r \in pending[u] : r.key = StockKey(t)
     \/ /\ pc[t] = "insertOrder"
        /\ HoldsOrderKey(u) /\ req[u].key = req[t].key

\* Every member of S waits for one and is waited for by one: S is made of cycles,
\* since a transaction waits for at most one other.
WaitCycle(S) ==
  /\ S # {}
  /\ \A t \in S : \E u \in S : WaitsFor(t, u)
  /\ \A u \in S : \E t \in S : WaitsFor(t, u)

DeadlockVictim(t) ==
  /\ \E S \in SUBSET Calls : t \in S /\ WaitCycle(S)
  /\ Refuse(t, "Internal")

-----------------------------------------------------------------------------

ReserveStep(t) ==
  \/ ReservationFound(t) \/ ReservationAbsent(t)
  \/ Decrement(t) \/ DecrementNoRows(t)
  \/ Register(t) \/ RegisterDuplicate(t)

OrderStep(t) ==
  \/ ReplayOrder(t) \/ LookupOrder(t)
  \/ Snapshot(t) \/ SnapshotMissing(t)
  \/ InsertOrder(t) \/ InsertOrderDuplicate(t)
  \/ InsertOutbox(t)

\* What the server does of itself once it has the request.
Progress(t) ==
  Begin(t) \/ OrderStep(t) \/ ReserveStep(t) \/ Commit(t) \/ DeadlockVictim(t)

\* Every call has been served.
Quiet == (\A t \in Calls : pc[t] = "done") /\ UNCHANGED vars

Next ==
  \/ \E t \in Calls :
       Receive(t) \/ Progress(t) \/ CommitUnacknowledged(t) \/ Fail(t)
  \/ Quiet

Spec == Init /\ [][Next]_vars

\* The server keeps running the statements of a call it has received; clients
\* owe nothing and failures need not happen.
FairSpec == Spec /\ \A t \in Calls : WF_vars(Progress(t))
=============================================================================
