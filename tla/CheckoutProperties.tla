------------------------- MODULE CheckoutProperties -------------------------
(***************************************************************************)
(* What the checkout must guarantee.  The first part is what every client  *)
(* population can rely on; the second part is what the repository says of  *)
(* the checkout and the code does not do.                                  *)
(***************************************************************************)
EXTENDS Checkout

Labels == {"idle", "begin", "lookup", "snapshot", "reserve", "decrement",
           "register", "insertOrder", "insertOutbox", "commit", "done"}

TypeOK ==
  /\ stock \in [Cabinets -> Nat]
  /\ reservations \subseteq Reservation
  /\ orders \subseteq Order
  /\ outbox \subseteq Calls
  /\ draft \in [Cabinets -> Nat]
  /\ rowLock \in [Cabinets -> Calls \cup {Nobody}]
  /\ pending \in [Calls -> SUBSET Reservation]
  /\ pc \in [Calls -> Labels]
  /\ req \in [Calls -> Request \cup {Nobody}]
  /\ line \in [Calls -> Nat \ {0}]
  /\ answer \in [Calls -> [result : Result, order : Calls \cup {Nobody}]]

-----------------------------------------------------------------------------

\* The units a set of reservation rows takes from cabinet c.
Units(rows, c) ==
  SumFunctionOnSet([r \in rows |-> r.qty], {r \in rows : r.cab = c})

\* Every unit that left the shelf is in one committed reservation: overlapping
\* decrements lose nothing, and a rolled back call returns what it took.
StockConserved ==
  \A c \in Cabinets : stock[c] + Units(reservations, c) = InitStock[c]

\* Between statements, the newest version of a cabinet row differs from the
\* committed one by exactly the one reservation its writer has made, or is
\* about to insert (ReserveStockOnTx updates the row before it inserts); and a
\* call that has inserted a reservation row holds the row it took units from.
RowExplained(c) ==
  /\ rowLock[c] = Nobody => draft[c] = stock[c]
  /\ \A t \in Calls : \A r \in pending[t] : r.cab = c => rowLock[c] = t
  /\ \A t \in Calls : pc[t] = "register" /\ This(t).cab = c => rowLock[c] = t
  /\ \A t \in Calls : rowLock[c] = t =>
       \/ /\ pc[t] = "register" /\ This(t).cab = c
          /\ draft[c] = stock[c] - This(t).qty
          /\ \A r \in pending[t] : r.cab # c
       \/ \E r \in pending[t] :
            /\ r.cab = c /\ draft[c] = stock[c] - r.qty
            /\ \A s \in pending[t] : s.cab = c => s = r

DraftExplained == \A c \in Cabinets : RowExplained(c)

\* An idempotency key buys once, whatever the retries: one reservation row and
\* one order per key, counting rows that are written and not yet committed.
ReservationKeysOnce ==
  /\ \A r, s \in reservations : r.key = s.key => r = s
  /\ \A t \in Calls : \A r \in pending[t] :
       /\ \A s \in reservations : s.key # r.key
       /\ \A u \in Calls : \A s \in pending[u] : s.key = r.key => u = t /\ s = r

OrderKeysOnce ==
  /\ \A o, p \in orders : o.key = p.key => o = p
  /\ \A t \in Calls : HoldsOrderKey(t) =>
       /\ \A o \in orders : o.key # req[t].key
       /\ \A u \in Calls : HoldsOrderKey(u) /\ req[u].key = req[t].key => u = t

KeysAreUsedOnce == ReservationKeysOnce /\ OrderKeysOnce

\* Order, order lines, outbox event and reservations appear together or not at
\* all, whichever statement of CreateOrderTx fails.
OrderIsAtomic ==
  /\ outbox = {o.id : o \in orders}
  /\ \A o \in orders : \A i \in DOMAIN o.items :
       [key |-> <<o.id, o.items[i].cab>>, cab |-> o.items[i].cab,
        qty |-> o.items[i].qty] \in reservations
  /\ \A r \in reservations :
       r.key \in Keys \/ \E o \in orders : \E i \in DOMAIN o.items :
                            r.key = <<o.id, o.items[i].cab>>

\* All calls that are told "ok" under one order key are told the same order, and
\* it is on disk, with the user and the number of lines they sent.
RepliesAgree ==
  \A t \in Calls :
    answer[t].result = "ok" /\ IsOrder(t) =>
      \E o \in orders :
        /\ o.id = answer[t].order
        /\ o.key = req[t].key
        /\ o.user = req[t].user
        /\ Len(o.items) = Len(req[t].items)
        /\ \A p \in orders : p.key = req[t].key => p = o

\* A call that is told of an error of the domain has bought nothing.
RefusalHasNoEffect ==
  \A t \in Calls :
    answer[t].result \in Refusal =>
      /\ \A o \in orders : o.id # t
      /\ \A r \in reservations : r.key \notin {t} \X CabinetIds
      /\ pending[t] = {} /\ \A c \in Cabinets : rowLock[c] # t

\* "Insufficient stock" is only said of stock that is really gone: never because
\* another call holds the row, or takes units that it gives back later.
SoldOutIsTrue ==
  \A t \in Calls :
    answer[t].result = "ErrInsufficientStock" =>
      \E i \in DOMAIN req[t].items :
        LET item == req[t].items[i]
        IN  item.qty <= 0 \/ item.cab \notin Cabinets \/ stock[item.cab] < item.qty

\* Calls block each other in a cycle only if the orders of the cycle, taken together,
\* list their cabinets along no common ranking: row locks are taken in the order of
\* the lines (repository.go:217), and the waits for reservation keys and order keys,
\* mixed with those for rows, close no cycle of their own.
CyclesNeedCrossedLines ==
  \A S \in SUBSET Calls :
    WaitCycle(S) =>
      ~ \E rank \in [CabinetIds -> 1 .. Cardinality(CabinetIds)] :
          \A t \in S : \A i, j \in DOMAIN req[t].items :
            i < j => rank[req[t].items[i].cab] < rank[req[t].items[j].cab]

\* Committed rows are never taken back, and a committed unit never returns.
CommitIsFinal ==
  [][ /\ reservations \subseteq reservations' /\ orders \subseteq orders'
      /\ outbox \subseteq outbox'
      /\ \A c \in Cabinets : stock'[c] <= stock[c]
      /\ \A t \in Calls : pc[t] = "done" => answer'[t] = answer[t] ]_vars

\* Under FairSpec every call the server took is answered: lock waits, key waits
\* and pool waits all end.
EveryCallAnswered == \A t \in Calls : pc[t] = "begin" ~> pc[t] = "done"

\* The checkout implements the shop whose every request is decided at an instant:
\* the commit, or the statement that refuses or repeats.
AtomicShop == INSTANCE Shop WITH
  Requests <- {[r EXCEPT !.user = StoredUser(r.user)] : r \in Requests},
  left     <- stock,
  holds    <- {r \in reservations : r.key \in Keys},
  events   <- outbox,
  request  <- req

\* Linearizability of the checkout, for requests that name each cabinet once.
ImplementsShop == AtomicShop!Spec

-----------------------------------------------------------------------------
(* Statements of the repository that the code does not keep.               *)

\* The units the lines of committed orders sell of cabinet c.
SoldUnits(c) ==
  MapThenSumSet(LAMBDA l : l[1].items[l[2]].qty,
    {l \in orders \X (1 .. Max({Len(o.items) : o \in orders} \cup {0})) :
       l[2] \in DOMAIN l[1].items /\ l[1].items[l[2]].cab = c})

\* repository.go:219 calls the stock key "isolated ... per order item line": every
\* line takes its units.
EveryLineTakesItsUnits ==
  \A c \in Cabinets :
    SoldUnits(c) = Units({r \in reservations : r.key \notin Keys}, c)

\* ARCHITECTURE.md:158: "Same key returns the original order": a request is not
\* refused when an identical one with its key was accepted.
SameKeyReturnsOriginal ==
  \A t, u \in Calls :
    req[t] = req[u] /\ answer[t].result = "ok" => answer[u].result \notin Refusal

\* ARCHITECTURE.md:123: errors of the domain reach the client as codes of their
\* own, not as Internal.
DomainErrorsHaveCodes ==
  \A t \in Calls :
    answer[t].result \in Refusal => Status(req[t].op, answer[t].result) # "Internal"

LinesOf(items, item) == Cardinality({i \in DOMAIN items : items[i] = item})

\* repository.go:174: a replay must match "each item ... exactly"; domain/order.go:12
\* reserves ErrDuplicateOrder for different parameters.
ReplyMatchesRequest ==
  \A t \in Calls :
    answer[t].result = "ok" /\ IsOrder(t) =>
      \A o \in orders : o.id = answer[t].order =>
        \A i \in DOMAIN req[t].items :
          LinesOf(o.items, req[t].items[i]) = LinesOf(req[t].items, req[t].items[i])
=============================================================================
