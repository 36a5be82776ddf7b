--------------------------- MODULE CheckoutProofs ---------------------------
(***************************************************************************)
(* Proofs about the checkout, for any number of calls, cabinets, keys and  *)
(* connections.                                                            *)
(***************************************************************************)
EXTENDS CheckoutProperties, TLAPS

\* What a call knows of its request once it has passed Validate.
RequestOf(t) ==
    /\ IF pc[t] = "idle" THEN line[t] = 1 ELSE req[t] \in Request
    /\ pc[t] \notin {"idle", "done"} =>
         /\ line[t] \in 1 .. Len(req[t].items)
         /\ \A i \in 1 .. Len(req[t].items) : req[t].items[i].qty > 0
         /\ ~IsOrder(t) => Len(req[t].items) = 1
    /\ pc[t] = "register" => This(t).cab \in Cabinets
    /\ pc[t] \in {"lookup", "snapshot", "insertOrder", "insertOutbox"} => IsOrder(t)

RequestOK == \A t \in Calls : RequestOf(t)

-----------------------------------------------------------------------------
(* Requests and types.                                                     *)

\* What Receive stores is a request, and a well-formed one if it goes on.
LEMMA ValidRequest ==
  ASSUME NEW r \in Requests
  PROVE  LET n == [r EXCEPT !.user = StoredUser(r.user)]
         IN  /\ n \in Request
             /\ Validate(r) \in Refusal \cup {"ok"}
             /\ Validate(r) = "ok" =>
                  /\ Len(n.items) >= 1
                  /\ \A i \in 1 .. Len(n.items) : n.items[i].qty > 0
                  /\ n.op # "CreateOrder" => Len(n.items) = 1
<1> DEFINE n == [r EXCEPT !.user = StoredUser(r.user)]
<1>1. r \in Request
  BY CheckoutAssumption
<1>2. StoredUser(r.user) \in Users
  BY <1>1, CheckoutAssumption DEF StoredUser, Request
<1>3. n \in Request /\ n.items = r.items /\ n.op = r.op
  BY <1>1, <1>2 DEF Request
<1>4. r.items \in Seq(Item) /\ DOMAIN r.items = 1 .. Len(r.items) /\ Len(r.items) \in Nat
  BY <1>1 DEF Request
<1>5. Validate(r) \in Refusal \cup {"ok"}
  BY <1>1, SMT DEF Validate, Refusal, Request
<1>6. ASSUME Validate(r) = "ok"
      PROVE  /\ Len(n.items) >= 1
             /\ \A i \in 1 .. Len(n.items) : n.items[i].qty > 0
             /\ n.op # "CreateOrder" => Len(n.items) = 1
  <2>1. r.op \in {"ReserveStock", "CreateOrder"}
    BY <1>1 DEF Request
  <2>2. ~ \E i \in DOMAIN r.items : r.items[i].qty <= 0
    BY <1>6, <2>1 DEF Validate
  <2>3. r.op = "CreateOrder" => r.items # <<>>
    BY <1>6, <2>1 DEF Validate
  <2>4. r.op = "ReserveStock" => Len(r.items) = 1
    BY CheckoutAssumption
  <2>5. \A i \in 1 .. Len(r.items) : r.items[i].qty > 0
    <3> TAKE i \in 1 .. Len(r.items)
    <3>1. r.items[i] \in Item
      BY <1>4
    <3> QED
      BY <1>4, <2>2, <3>1 DEF Item
  <2> QED
    BY <1>3, <1>4, <2>1, <2>3, <2>4, <2>5
<1> QED
  BY <1>3, <1>5, <1>6

\* The line a call in progress works on.
LEMMA CurrentLine ==
  ASSUME TypeOK, RequestOK, NEW t \in Calls, pc[t] \notin {"idle", "done"}
  PROVE  /\ req[t] \in Request
         /\ req[t].items \in Seq(Item)
         /\ This(t) \in Item
         /\ This(t).cab \in CabinetIds /\ This(t).qty \in Nat /\ This(t).qty > 0
         /\ StockKey(t) \in Keys \cup (Calls \X CabinetIds)
<1>1. req[t] \in Request /\ req[t].items \in Seq(Item) /\ req[t].key \in Keys
  BY DEF RequestOK, RequestOf, TypeOK, Request
<1>2. This(t) \in Item /\ This(t).qty > 0
  BY <1>1 DEF RequestOK, RequestOf, This
<1>3. This(t).cab \in CabinetIds /\ This(t).qty \in Nat /\ This(t).qty > 0
  BY <1>2 DEF Item
<1> QED
  BY <1>1, <1>2, <1>3 DEF StockKey

\* A step that moves t from one statement to another keeps RequestOK.
LEMMA RequestStep ==
  ASSUME TypeOK, RequestOK,
         NEW t \in Calls, NEW l \in Labels \ {"idle"}, Goto(t, l),
         pc[t] \notin {"idle", "done"},
         req' = req,
         \A u \in Calls \ {t} : line'[u] = line[u],
         line'[t] \in 1 .. Len(req[t].items),
         l = "register" => line'[t] = line[t] /\ This(t).cab \in Cabinets,
         l \in {"lookup", "snapshot", "insertOrder", "insertOutbox"} => IsOrder(t)
  PROVE  RequestOK'
<1> SUFFICES ASSUME NEW u \in Calls
             PROVE  RequestOf(u)'
  BY DEF RequestOK, RequestOf
<1>1. pc' = [pc EXCEPT ![t] = l] /\ pc \in [Calls -> Labels]
  BY DEF Goto, TypeOK
<1>2. CASE u = t
  BY <1>1, <1>2 DEF RequestOK, RequestOf, IsOrder, This
<1>3. CASE u # t
  <2>1. pc'[u] = pc[u] /\ line'[u] = line[u]
    BY <1>1, <1>3
  <2> QED
    BY <2>1 DEF RequestOK, RequestOf, IsOrder, This
<1> QED
  BY <1>2, <1>3

Types == TypeOK /\ RequestOK

\* Giving up with an error keeps the types: Rollback restores committed versions.
LEMMA RefuseTypes ==
  ASSUME Types, NEW t \in Calls, NEW e \in Refusal \cup {"Internal"},
         pc[t] \notin {"idle", "done"}, Refuse(t, e)
  PROVE  Types'
<1> USE DEF Types
<1>1. TypeOK'
  BY DEF TypeOK, Refuse, Rollback, Reply, Goto, tables, Result, Labels
<1>2. RequestOK'
  <2>1. Goto(t, "done") /\ UNCHANGED <<req, line>>
    BY DEF Refuse, Reply
  <2> QED
    BY <2>1, RequestStep DEF RequestOK, RequestOf, Labels
<1> QED
  BY <1>1, <1>2

\* tx.Commit keeps the types, whichever of its two answers the client gets.
LEMMA CommitTypes ==
  ASSUME Types, NEW t \in Calls, NEW e \in {"ok", "Internal"},
         NEW o \in {t, Nobody},
         pc[t] = "commit", CommitTables(t), Reply(t, e, o)
  PROVE  Types'
<1> USE DEF Types
<1>1. Goto(t, "done") /\ UNCHANGED <<req, line>>
  BY DEF Reply, CommitTables
<1>2. NewOrder(t) \in Order
  BY CurrentLine DEF NewOrder, Order, Request
<1>3. stock' \in [Cabinets -> Nat] /\ rowLock' \in [Cabinets -> Calls \cup {Nobody}]
  BY DEF TypeOK, CommitTables
<1>4. reservations' \subseteq Reservation /\ pending' \in [Calls -> SUBSET Reservation]
  BY DEF TypeOK, CommitTables
<1>5. orders' \subseteq Order /\ outbox' \subseteq Calls
  BY <1>2 DEF TypeOK, CommitTables
<1>6. pc' \in [Calls -> Labels]
      /\ answer' \in [Calls -> [result : Result, order : Calls \cup {Nobody}]]
  BY DEF TypeOK, Reply, Goto, Labels, Result
<1>7. TypeOK'
  BY <1>1, <1>3, <1>4, <1>5, <1>6 DEF TypeOK, CommitTables
<1>8. RequestOK'
  BY <1>1, RequestStep DEF RequestOK, RequestOf, Labels
<1> QED
  BY <1>7, <1>8

\* Where LineReserved leads.
LEMMA LineReservedStep ==
  ASSUME Types, NEW t \in Calls, pc[t] \notin {"idle", "done"}, LineReserved(t)
  PROVE  \E l \in {"reserve", "insertOrder", "commit"} :
           /\ Goto(t, l)
           /\ line' \in [Calls -> Nat \ {0}]
           /\ line'[t] \in 1 .. Len(req[t].items)
           /\ \A u \in Calls \ {t} : line'[u] = line[u]
           /\ l = "insertOrder" => IsOrder(t)
           /\ l = "commit" => ~IsOrder(t)
<1> USE DEF Types
<1>0. line \in [Calls -> Nat \ {0}] /\ line[t] \in 1 .. Len(req[t].items)
      /\ Len(req[t].items) \in Nat
  BY CurrentLine DEF TypeOK, RequestOK, RequestOf
<1>1. CASE line[t] < Len(req[t].items)
  BY <1>0, <1>1 DEF LineReserved
<1>2. CASE ~(line[t] < Len(req[t].items))
  BY <1>0, <1>2 DEF LineReserved
<1> QED
  BY <1>1, <1>2

\* A step that changes no row keeps the types.
LEMMA MoveTypes ==
  ASSUME Types, NEW t \in Calls, NEW l \in Labels, Goto(t, l),
         UNCHANGED <<tables, txn, req, answer>>, line' \in [Calls -> Nat \ {0}]
  PROVE  TypeOK'
BY DEF Types, TypeOK, tables, txn, Goto

\* Every action keeps the types and what is known of the requests.
LEMMA TypesStep == Types /\ [Next]_vars => Types'
<1> USE DEF Types
<1> SUFFICES ASSUME Types, [Next]_vars PROVE Types'
  OBVIOUS
<1>1. ASSUME NEW t \in Calls, Receive(t) PROVE Types'
  <2>1. PICK r \in Requests :
          /\ req' = [req EXCEPT ![t] = [r EXCEPT !.user = StoredUser(r.user)]]
          /\ IF Validate(r) = "ok"
               THEN Goto(t, "begin") /\ UNCHANGED answer
               ELSE Reply(t, Validate(r), Nobody)
    BY <1>1 DEF Receive
  <2> DEFINE n == [r EXCEPT !.user = StoredUser(r.user)]
  <2>2. /\ n \in Request
        /\ Validate(r) \in Refusal \cup {"ok"}
        /\ Validate(r) = "ok" =>
             /\ Len(n.items) >= 1
             /\ \A i \in 1 .. Len(n.items) : n.items[i].qty > 0
             /\ n.op # "CreateOrder" => Len(n.items) = 1
    BY ValidRequest
  <2>3. UNCHANGED <<tables, txn, line>> /\ pc[t] = "idle"
    BY <1>1 DEF Receive
  <2>4. PICK l \in {"begin", "done"} :
          Goto(t, l) /\ (l = "begin" => Validate(r) = "ok")
    BY <2>1 DEF Reply
  <2>5. TypeOK'
    BY <2>1, <2>2, <2>3, <2>4 DEF TypeOK, Reply, Goto, Labels, Result, tables, txn
  <2>6. RequestOK'
    <3> SUFFICES ASSUME NEW u \in Calls
                 PROVE  RequestOf(u)'
      BY DEF RequestOK, RequestOf
    <3>1. CASE u = t
      <4>1. req'[t] = n /\ pc'[t] = l /\ line'[t] = line[t] /\ line[t] = 1
        BY <2>1, <2>3, <2>4 DEF TypeOK, Goto, RequestOK, RequestOf
      <4>2. Len(n.items) \in Nat
        BY <2>2 DEF Request
      <4>3. l # "done" => 1 \in 1 .. Len(n.items)
        BY <2>2, <2>4, <4>2
      <4>4. IsOrder(t)' <=> n.op = "CreateOrder"
        BY <4>1 DEF IsOrder
      <4> HIDE DEF n
      <4> QED
        BY <2>2, <2>4, <3>1, <4>1, <4>3, <4>4 DEF RequestOf
    <3>2. CASE u # t
      <4>1. pc'[u] = pc[u] /\ req'[u] = req[u] /\ line'[u] = line[u]
        BY <2>1, <2>3, <2>4, <3>2 DEF TypeOK, Goto
      <4> QED
        BY <4>1 DEF RequestOK, RequestOf, IsOrder, This
    <3> QED
      BY <3>1, <3>2
  <2> QED
    BY <2>5, <2>6
<1>2. ASSUME NEW t \in Calls, Begin(t) PROVE Types'
  <2>1. PICK l \in {"lookup", "reserve"} : Goto(t, l) /\ (l = "lookup" => IsOrder(t))
    BY <1>2 DEF Begin
  <2>2. TypeOK'
    BY <1>2, <2>1, MoveTypes DEF Begin, TypeOK, Labels
  <2>3. RequestOK'
    BY <1>2, <2>1, RequestStep DEF Begin, RequestOK, RequestOf, Labels
  <2> QED
    BY <2>2, <2>3
<1>3. ASSUME NEW t \in Calls, ReplayOrder(t) PROVE Types'
  <2>1. PICK o \in orders :
          Reply(t, "ok", o.id) \/ Reply(t, "ErrDuplicateOrder", Nobody)
    BY <1>3 DEF ReplayOrder
  <2>2. /\ pc[t] = "lookup" /\ UNCHANGED <<tables, txn, req, line>>
        /\ Goto(t, "done") /\ o.id \in Calls
    BY <1>3, <2>1 DEF ReplayOrder, Reply, TypeOK, Order
  <2>3. TypeOK'
    BY <2>1, <2>2 DEF TypeOK, Reply, Goto, Labels, Result, Refusal, tables, txn
  <2>4. RequestOK'
    BY <2>2, RequestStep DEF RequestOK, RequestOf, Labels
  <2> QED
    BY <2>3, <2>4
<1>4. ASSUME NEW t \in Calls, LookupOrder(t) PROVE Types'
  <2>1. TypeOK'
    BY <1>4, MoveTypes DEF LookupOrder, TypeOK, Labels
  <2>2. RequestOK'
    BY <1>4, RequestStep DEF LookupOrder, RequestOK, RequestOf, Labels
  <2> QED
    BY <2>1, <2>2
<1>5. ASSUME NEW t \in Calls, Snapshot(t) PROVE Types'
  <2>1. TypeOK'
    BY <1>5, MoveTypes DEF Snapshot, TypeOK, Labels
  <2>2. RequestOK'
    BY <1>5, RequestStep DEF Snapshot, RequestOK, RequestOf, Labels
  <2> QED
    BY <2>1, <2>2
<1>6. ASSUME NEW t \in Calls, SnapshotMissing(t) PROVE Types'
  BY <1>6, RefuseTypes DEF SnapshotMissing, Refusal
<1>7. ASSUME NEW t \in Calls, ReservationFound(t) PROVE Types'
  <2>1. CASE Refuse(t, "ErrDuplicateReservation")
    BY <1>7, <2>1, RefuseTypes DEF ReservationFound, Refusal
  <2>2. CASE LineReserved(t) /\ UNCHANGED <<tables, txn, req, answer>>
    <3>1. pc[t] = "reserve"
      BY <1>7 DEF ReservationFound
    <3>2. PICK l \in {"reserve", "insertOrder", "commit"} :
            /\ Goto(t, l)
            /\ line' \in [Calls -> Nat \ {0}]
            /\ line'[t] \in 1 .. Len(req[t].items)
            /\ \A u \in Calls \ {t} : line'[u] = line[u]
            /\ l = "insertOrder" => IsOrder(t)
      BY <2>2, <3>1, LineReservedStep
    <3>3. TypeOK'
      BY <2>2, <3>2, MoveTypes DEF Labels
    <3>4. RequestOK'
      BY <2>2, <3>1, <3>2, RequestStep DEF Labels
    <3> QED
      BY <3>3, <3>4
  <2> QED
    BY <1>7, <2>1, <2>2 DEF ReservationFound
<1>8. ASSUME NEW t \in Calls, ReservationAbsent(t) PROVE Types'
  <2>1. TypeOK'
    BY <1>8, MoveTypes DEF ReservationAbsent, TypeOK, Labels
  <2>2. RequestOK'
    BY <1>8, RequestStep DEF ReservationAbsent, RequestOK, RequestOf, Labels
  <2> QED
    BY <2>1, <2>2
<1>9. ASSUME NEW t \in Calls, Decrement(t) PROVE Types'
  <2>1. pc[t] = "decrement" /\ This(t).cab \in Cabinets /\ This(t).qty \in Nat
    BY <1>9, CurrentLine DEF Decrement
  <2>2. draft' \in [Cabinets -> Nat] /\ rowLock' \in [Cabinets -> Calls \cup {Nobody}]
    BY <1>9, <2>1 DEF Decrement, TypeOK
  <2>3. TypeOK'
    BY <1>9, <2>2 DEF Decrement, TypeOK, Goto, Labels, tables
  <2>4. RequestOK'
    BY <1>9, <2>1, RequestStep DEF Decrement, RequestOK, RequestOf, Labels
  <2> QED
    BY <2>3, <2>4
<1>10. ASSUME NEW t \in Calls, DecrementNoRows(t) PROVE Types'
  BY <1>10, RefuseTypes DEF DecrementNoRows, Refusal
<1>11. ASSUME NEW t \in Calls, Register(t) PROVE Types'
  <2>1. pc[t] = "register" /\ LineReserved(t) /\ UNCHANGED <<tables, draft, rowLock, req, answer>>
    BY <1>11 DEF Register
  <2>2. [key |-> StockKey(t), cab |-> This(t).cab, qty |-> This(t).qty] \in Reservation
    BY <2>1, CurrentLine DEF RequestOK, RequestOf, Reservation
  <2>3. pending' \in [Calls -> SUBSET Reservation]
    BY <1>11, <2>2 DEF Register, TypeOK
  <2>4. PICK l \in {"reserve", "insertOrder", "commit"} :
          /\ Goto(t, l)
          /\ line' \in [Calls -> Nat \ {0}]
          /\ line'[t] \in 1 .. Len(req[t].items)
          /\ \A u \in Calls \ {t} : line'[u] = line[u]
          /\ l = "insertOrder" => IsOrder(t)
    BY <2>1, LineReservedStep
  <2>5. TypeOK'
    BY <2>1, <2>3, <2>4 DEF TypeOK, Goto, Labels, tables
  <2>6. RequestOK'
    BY <2>1, <2>4, RequestStep DEF Labels
  <2> QED
    BY <2>5, <2>6
<1>12. ASSUME NEW t \in Calls, RegisterDuplicate(t) PROVE Types'
  BY <1>12, RefuseTypes DEF RegisterDuplicate, Refusal
<1>13. ASSUME NEW t \in Calls, InsertOrder(t) PROVE Types'
  <2>1. TypeOK'
    BY <1>13, MoveTypes DEF InsertOrder, TypeOK, Labels
  <2>2. RequestOK'
    BY <1>13, RequestStep DEF InsertOrder, RequestOK, RequestOf, Labels
  <2> QED
    BY <2>1, <2>2
<1>14. ASSUME NEW t \in Calls, InsertOrderDuplicate(t) PROVE Types'
  BY <1>14, RefuseTypes DEF InsertOrderDuplicate, Refusal
<1>15. ASSUME NEW t \in Calls, InsertOutbox(t) PROVE Types'
  <2>1. TypeOK'
    BY <1>15, MoveTypes DEF InsertOutbox, TypeOK, Labels
  <2>2. RequestOK'
    BY <1>15, RequestStep DEF InsertOutbox, RequestOK, RequestOf, Labels
  <2> QED
    BY <2>1, <2>2
<1>16. ASSUME NEW t \in Calls, Commit(t) PROVE Types'
  BY <1>16, CommitTypes DEF Commit
<1>17. ASSUME NEW t \in Calls, CommitUnacknowledged(t) PROVE Types'
  BY <1>17, CommitTypes DEF CommitUnacknowledged
<1>18. ASSUME NEW t \in Calls, Fail(t) PROVE Types'
  BY <1>18, RefuseTypes DEF Fail, InTx
<1>19. ASSUME NEW t \in Calls, DeadlockVictim(t) PROVE Types'
  <2>1. PICK S \in SUBSET Calls : t \in S /\ WaitCycle(S)
    BY <1>19 DEF DeadlockVictim
  <2>2. pc[t] \in {"decrement", "register", "insertOrder"}
    BY <2>1 DEF WaitCycle, WaitsFor
  <2> QED
    BY <1>19, <2>2, RefuseTypes DEF DeadlockVictim
<1>20. CASE UNCHANGED vars
  BY <1>20 DEF vars, tables, txn, TypeOK, RequestOK, RequestOf, IsOrder, This
<1> QED
  BY <1>1, <1>2, <1>3, <1>4, <1>5, <1>6, <1>7, <1>8, <1>9, <1>10, <1>11, <1>12,
     <1>13, <1>14, <1>15, <1>16, <1>17, <1>18, <1>19, <1>20
     DEF Next, Progress, ReserveStep, OrderStep, Quiet

\* The seeded database and the calls not yet received are well typed.
LEMMA TypesInit == Init => Types
<1> SUFFICES ASSUME Init PROVE TypeOK /\ RequestOK
  BY DEF Types
<1>1. TypeOK
  <2>1. /\ [t \in Calls |-> {}] \in [Calls -> SUBSET Reservation]
        /\ [t \in Calls |-> "idle"] \in [Calls -> Labels]
        /\ [t \in Calls |-> Nobody] \in [Calls -> Request \cup {Nobody}]
        /\ [t \in Calls |-> 1] \in [Calls -> Nat \ {0}]
        /\ [c \in Cabinets |-> Nobody] \in [Cabinets -> Calls \cup {Nobody}]
    BY DEF Labels
  <2>2. [t \in Calls |-> [result |-> "none", order |-> Nobody]]
          \in [Calls -> [result : Result, order : Calls \cup {Nobody}]]
    BY DEF Result
  <2> QED
    BY <2>1, <2>2, CheckoutAssumption DEF Init, TypeOK
<1>2. RequestOK
  <2> SUFFICES ASSUME NEW t \in Calls PROVE pc[t] = "idle" /\ line[t] = 1
    BY DEF RequestOK, RequestOf
  <2> QED
    BY DEF Init
<1> QED
  BY <1>1, <1>2

\* Types, and with them the CHECK (quantity >= 0) of catalog.cabinets: no
\* interleaving of the decrements makes a quantity negative, committed or not.
THEOREM TypeCorrect == Spec => []TypeOK
<1>1. Spec => []Types
  BY TypesInit, TypesStep, PTL DEF Spec
<1> QED
  BY <1>1, PTL DEF Types

-----------------------------------------------------------------------------
(* The shapes of a step: most statements change no row.                    *)

\* t goes from one statement to another without writing a row.
Move(t) ==
  /\ UNCHANGED <<tables, txn>>
  /\ \A u \in Calls \ {t} : pc'[u] = pc[u] /\ req'[u] = req[u] /\ line'[u] = line[u]
  /\ pc[t] \notin {"decrement", "register", "commit", "done"}
  /\ pc'[t] # "register"
  /\ pc'[t] \in {"idle", "begin", "lookup", "snapshot", "done"}
       => pc[t] \in {"idle", "begin", "lookup"}
  /\ req'[t] = req[t] \/ (pc[t] = "idle" /\ pc'[t] \in {"begin", "done"})
  /\ pc'[t] = "decrement" => /\ line'[t] = line[t]
                             /\ \A r \in Visible(t) : r.key # StockKey(t)
  /\ HoldsOrderKey(t)' =>
       HoldsOrderKey(t) \/ ~(OrderKeyPending(t) \/ OrderKeyTaken(t))

Abandon(t) ==
  \E e \in Refusal \cup {"Internal"} : pc[t] \notin {"idle", "done"} /\ Refuse(t, e)

Finish(t) == pc[t] = "commit" /\ Goto(t, "done") /\ CommitTables(t)

\* The shortest way to Move for a statement that does not start the UPDATE.
LEMMA MoveIntro ==
  ASSUME Types, NEW t \in Calls, NEW l \in Labels, Goto(t, l),
         UNCHANGED <<tables, txn, req>>,
         \A u \in Calls \ {t} : line'[u] = line[u],
         pc[t] \notin {"decrement", "register", "commit", "done"},
         l # "register",
         l \in {"idle", "begin", "lookup", "snapshot", "done"} => pc[t] \in {"idle", "begin", "lookup"},
         l # "decrement",
         l \in {"insertOutbox", "commit"} =>
           \/ HoldsOrderKey(t) \/ ~IsOrder(t)
           \/ ~(OrderKeyPending(t) \/ OrderKeyTaken(t))
  PROVE  Move(t)
<1>1. pc'[t] = l /\ \A u \in Calls \ {t} : pc'[u] = pc[u]
  BY DEF Types, TypeOK, Goto
<1>2. UNCHANGED <<tables, txn>> /\ \A u \in Calls \ {t} : req'[u] = req[u]
  OBVIOUS
<1>3. req'[t] = req[t]
  OBVIOUS
<1>4. pc'[t] # "register" /\ pc'[t] # "decrement"
  BY <1>1
<1>5. pc'[t] \in {"idle", "begin", "lookup", "snapshot", "done"} => pc[t] \in {"idle", "begin", "lookup"}
  BY <1>1
<1>6. HoldsOrderKey(t)' =>
        HoldsOrderKey(t) \/ ~(OrderKeyPending(t) \/ OrderKeyTaken(t))
  BY <1>1, <1>3 DEF HoldsOrderKey, IsOrder
<1> QED
  BY <1>1, <1>2, <1>3, <1>4, <1>5, <1>6 DEF Move

\* What a call can do.
Act(t) == Receive(t) \/ Progress(t) \/ CommitUnacknowledged(t) \/ Fail(t)

\* Every step of a call is a move, an error return, one of the two writing
\* statements of ReserveStockOnTx, or a commit.
LEMMA CallShapes ==
  ASSUME Types, NEW t \in Calls, Act(t)
  PROVE  Move(t) \/ Abandon(t) \/ Decrement(t) \/ Register(t) \/ Finish(t)
<1>0. pc \in [Calls -> Labels] /\ req \in [Calls -> Request \cup {Nobody}]
  BY DEF Types, TypeOK
<1>1. ASSUME Receive(t) PROVE Move(t)
  BY <1>0, <1>1 DEF Receive, Move, Goto, Reply, HoldsOrderKey
<1>2. ASSUME Begin(t) PROVE Move(t)
  BY <1>0, <1>2 DEF Begin, Move, Goto, HoldsOrderKey
<1>3. ASSUME ReplayOrder(t) PROVE Move(t)
  BY <1>0, <1>3 DEF ReplayOrder, Move, Goto, Reply, HoldsOrderKey
<1>4. ASSUME LookupOrder(t) \/ Snapshot(t) PROVE Move(t)
  <2>1. /\ pc[t] \in {"lookup", "snapshot"} /\ UNCHANGED <<tables, txn, req, line>>
        /\ (Goto(t, "snapshot") /\ pc[t] = "lookup") \/ Goto(t, "reserve")
    BY <1>4 DEF LookupOrder, Snapshot
  <2>2. CASE Goto(t, "snapshot") /\ pc[t] = "lookup"
    BY <2>1, <2>2, MoveIntro DEF Labels
  <2>3. CASE Goto(t, "reserve")
    BY <2>1, <2>3, MoveIntro DEF Labels
  <2> QED
    BY <2>1, <2>2, <2>3
<1>5. ASSUME ReservationAbsent(t) PROVE Move(t)
  <2>1. pc[t] = "reserve" /\ pc'[t] = "decrement" /\ \A u \in Calls \ {t} : pc'[u] = pc[u]
    BY <1>0, <1>5 DEF ReservationAbsent, Goto
  <2>2. \A r \in Visible(t) : r.key # StockKey(t)
    BY <1>5 DEF ReservationAbsent
  <2> QED
    BY <1>5, <2>1, <2>2 DEF ReservationAbsent, Move, HoldsOrderKey
<1>6. ASSUME InsertOrder(t) \/ InsertOutbox(t) PROVE Move(t)
  <2>1. PICK l \in {"insertOutbox", "commit"} :
          /\ Goto(t, l) /\ pc[t] \in {"insertOrder", "insertOutbox"}
          /\ UNCHANGED <<tables, txn, req, line>>
          /\ pc[t] = "insertOrder" => ~(OrderKeyPending(t) \/ OrderKeyTaken(t))
    BY <1>6 DEF InsertOrder, InsertOutbox
  <2>2. pc[t] = "insertOutbox" => HoldsOrderKey(t)
    BY DEF Types, RequestOK, RequestOf, HoldsOrderKey
  <2> QED
    BY <2>1, <2>2, MoveIntro DEF Labels
<1>7. ASSUME ReservationFound(t) PROVE Move(t) \/ Abandon(t)
  <2>1. CASE Refuse(t, "ErrDuplicateReservation")
    BY <1>7, <2>1 DEF ReservationFound, Abandon, Refusal
  <2>2. CASE LineReserved(t) /\ UNCHANGED <<tables, txn, req, answer>>
    <3>1. pc[t] = "reserve"
      BY <1>7 DEF ReservationFound
    <3>2. PICK l \in {"reserve", "insertOrder", "commit"} :
            /\ Goto(t, l) /\ \A u \in Calls \ {t} : line'[u] = line[u]
            /\ l = "commit" => ~IsOrder(t)
      BY <2>2, <3>1, LineReservedStep
    <3> QED
      BY <2>2, <3>1, <3>2, MoveIntro DEF Labels
  <2> QED
    BY <1>7, <2>1, <2>2 DEF ReservationFound
<1>8. ASSUME SnapshotMissing(t) \/ DecrementNoRows(t) \/ RegisterDuplicate(t)
               \/ InsertOrderDuplicate(t) \/ Fail(t)
      PROVE  Abandon(t)
  BY <1>8 DEF SnapshotMissing, DecrementNoRows, RegisterDuplicate,
              InsertOrderDuplicate, Fail, InTx, Abandon, Refusal
<1>9. ASSUME DeadlockVictim(t) PROVE Abandon(t)
  <2>1. pc[t] \in {"decrement", "register", "insertOrder"}
    BY <1>9 DEF DeadlockVictim, WaitCycle, WaitsFor
  <2> QED
    BY <1>9, <2>1 DEF DeadlockVictim, Abandon
<1>10. ASSUME Commit(t) \/ CommitUnacknowledged(t) PROVE Finish(t)
  BY <1>10 DEF Commit, CommitUnacknowledged, Reply, Finish
<1> QED
  BY <1>1, <1>2, <1>3, <1>4, <1>5, <1>6, <1>7, <1>8, <1>9, <1>10
     DEF Act, Progress, ReserveStep, OrderStep

\* The same of a step of the system.
LEMMA StepShapes ==
  ASSUME Types, [Next]_vars
  PROVE  \/ UNCHANGED vars
         \/ \E t \in Calls : Move(t) \/ Abandon(t) \/ Decrement(t) \/ Register(t) \/ Finish(t)
BY CallShapes DEF Next, Act, Quiet

-----------------------------------------------------------------------------
(* What an open transaction holds.                                         *)

\* The reservation rows of an open transaction carry its own keys, and none has
\* the key the transaction has just looked for in vain.
PendingOf(t) ==
  /\ pc[t] \in {"idle", "begin", "lookup", "snapshot", "done"} => pending[t] = {}
  /\ \A r \in pending[t] :
       IF IsOrder(t) THEN r.key = <<t, r.cab>> ELSE pc[t] = "commit" /\ r.key = req[t].key
  /\ pc[t] \in {"decrement", "register"} => \A r \in pending[t] : r.key # StockKey(t)

PendingOK == \A t \in Calls : PendingOf(t)

Ledger == Types /\ PendingOK /\ DraftExplained

\* What Register inserts.
NewReservation(t) == [key |-> StockKey(t), cab |-> This(t).cab, qty |-> This(t).qty]

\* A step of t in which no other call moves or writes rows keeps PendingOK of the
\* other calls.
LEMMA PendingOfOthers ==
  ASSUME Ledger, NEW t \in Calls, NEW u \in Calls, u # t,
         pc'[u] = pc[u], req'[u] = req[u], line'[u] = line[u], pending'[u] = pending[u]
  PROVE  PendingOf(u)'
BY DEF Ledger, PendingOK, PendingOf, IsOrder, StockKey, This

\* Every statement keeps what is known of the rows an open transaction wrote.
LEMMA PendingStep == Ledger /\ [Next]_vars => PendingOK'
<1> SUFFICES ASSUME Ledger, [Next]_vars PROVE PendingOK'
  OBVIOUS
<1> USE DEF Ledger
<1>0. /\ pc \in [Calls -> Labels] /\ pending \in [Calls -> SUBSET Reservation]
      /\ req \in [Calls -> Request \cup {Nobody}]
  BY DEF Types, TypeOK
<1>1. CASE UNCHANGED vars
  BY <1>1 DEF vars, txn, PendingOK, PendingOf, IsOrder, StockKey, This
<1>2. ASSUME NEW t \in Calls, Move(t) PROVE PendingOK'
  <2>1. pending' = pending
    BY <1>2 DEF Move, txn
  <2> SUFFICES ASSUME NEW u \in Calls
               PROVE  PendingOf(u)'
    BY DEF PendingOK
  <2>2. CASE u # t
    BY <1>2, <2>1, <2>2, PendingOfOthers DEF Move
  <2>3. CASE u = t
    <3>1. pc'[t] \in {"idle", "begin", "lookup", "snapshot", "done"} => pending[t] = {}
      BY <1>2 DEF Move, PendingOK, PendingOf
    <3>2. req'[t] = req[t] \/ pending[t] = {}
      BY <1>2 DEF Move, PendingOK, PendingOf
    <3>3. \A r \in pending[t] : IsOrder(t) /\ r.key = <<t, r.cab>>
      BY <1>2 DEF Move, PendingOK, PendingOf
    <3>4. pc'[t] = "decrement" =>
            StockKey(t)' = StockKey(t) /\ \A r \in pending[t] : r.key # StockKey(t)
      BY <1>2 DEF Move, Visible, StockKey, IsOrder, This
    <3> QED
      BY <1>2, <2>1, <2>3, <3>1, <3>2, <3>3, <3>4 DEF Move, IsOrder, PendingOf
  <2> QED
    BY <2>2, <2>3
<1>3. ASSUME NEW t \in Calls, Abandon(t) PROVE PendingOK'
  <2>1. /\ pending' = [pending EXCEPT ![t] = {}] /\ UNCHANGED <<req, line>>
        /\ pc' = [pc EXCEPT ![t] = "done"]
    BY <1>3 DEF Abandon, Refuse, Rollback, Reply, Goto
  <2> SUFFICES ASSUME NEW u \in Calls, u # t
               PROVE  PendingOf(u)'
    BY <1>0, <2>1 DEF PendingOK, PendingOf
  <2> QED
    BY <1>0, <2>1, PendingOfOthers
<1>4. ASSUME NEW t \in Calls, Finish(t) PROVE PendingOK'
  <2>1. /\ pending' = [pending EXCEPT ![t] = {}] /\ UNCHANGED <<req, line>>
        /\ pc' = [pc EXCEPT ![t] = "done"]
    BY <1>4 DEF Finish, CommitTables, Goto
  <2> SUFFICES ASSUME NEW u \in Calls, u # t
               PROVE  PendingOf(u)'
    BY <1>0, <2>1 DEF PendingOK, PendingOf
  <2> QED
    BY <1>0, <2>1, PendingOfOthers
<1>5. ASSUME NEW t \in Calls, Decrement(t) PROVE PendingOK'
  <2>1. /\ pending' = pending /\ UNCHANGED <<req, line>>
        /\ pc[t] = "decrement" /\ pc' = [pc EXCEPT ![t] = "register"]
    BY <1>5 DEF Decrement, Goto
  <2> QED
    BY <1>0, <2>1 DEF PendingOK, PendingOf, IsOrder, StockKey, This
<1>6. ASSUME NEW t \in Calls, Register(t) PROVE PendingOK'
  <2> DEFINE n == NewReservation(t)
  <2>1. /\ pending' = [pending EXCEPT ![t] = @ \cup {n}] /\ req' = req
        /\ pc[t] = "register" /\ LineReserved(t)
    BY <1>6 DEF Register, NewReservation
  <2>2. PICK l \in {"reserve", "insertOrder", "commit"} :
          /\ Goto(t, l)
          /\ \A u \in Calls \ {t} : line'[u] = line[u]
    BY <2>1, LineReservedStep
  <2>3. ~IsOrder(t) => pc'[t] = "commit"
    <3>1. ~IsOrder(t) => Len(req[t].items) = 1 /\ line[t] = 1
      BY <2>1 DEF Types, RequestOK, RequestOf
    <3>2. ~IsOrder(t) => ~(line[t] < Len(req[t].items))
      <4>1. ~(1 < 1)
        OBVIOUS
      <4> QED
        BY <3>1, <4>1, Zenon
    <3>3. ~IsOrder(t) => Goto(t, "commit")
      BY <2>1, <3>2 DEF LineReserved, IsOrder
    <3> QED
      BY <1>0, <3>3 DEF Goto
  <2>4. IF IsOrder(t) THEN n.key = <<t, n.cab>> ELSE n.key = req[t].key
    BY DEF NewReservation, StockKey
  <2>5. \A r \in pending[t] : IsOrder(t) /\ r.key = <<t, r.cab>>
    BY <2>1 DEF PendingOK, PendingOf
  <2>6. pc'[t] = l /\ \A u \in Calls \ {t} : pc'[u] = pc[u]
    BY <1>0, <2>2 DEF Goto
  <2>7. pending'[t] = pending[t] \cup {n} /\ \A u \in Calls \ {t} : pending'[u] = pending[u]
    BY <1>0, <2>1
  <2> HIDE DEF n
  <2> SUFFICES ASSUME NEW u \in Calls
               PROVE  PendingOf(u)'
    BY DEF PendingOK
  <2>8. CASE u # t
    BY <2>1, <2>2, <2>6, <2>7, <2>8, PendingOfOthers
  <2>9. CASE u = t
    BY <2>1, <2>3, <2>4, <2>5, <2>6, <2>7, <2>9 DEF IsOrder, PendingOf
  <2> QED
    BY <2>8, <2>9
<1> QED
  BY <1>1, <1>2, <1>3, <1>4, <1>5, <1>6, StepShapes

\* Every statement keeps the uncommitted row versions explained: the row lock of
\* DecrementStock keeps the others away until the transaction ends.
LEMMA DraftStep == Ledger /\ [Next]_vars => DraftExplained'
<1> SUFFICES ASSUME Ledger, [Next]_vars, NEW c \in Cabinets PROVE RowExplained(c)'
  BY DEF DraftExplained
<1> USE DEF Ledger
<1>0. /\ pc \in [Calls -> Labels] /\ pending \in [Calls -> SUBSET Reservation]
      /\ rowLock \in [Cabinets -> Calls \cup {Nobody}] /\ Nobody \notin Calls
      /\ stock \in [Cabinets -> Nat] /\ draft \in [Cabinets -> Nat]
  BY CheckoutAssumption DEF Types, TypeOK
<1>a. RowExplained(c)
  BY DEF DraftExplained
<1>1. CASE UNCHANGED vars
  BY <1>a, <1>1 DEF vars, tables, txn, RowExplained, This
<1>2. ASSUME NEW t \in Calls, Move(t) PROVE RowExplained(c)'
  <2>1. UNCHANGED <<stock, draft, rowLock, pending>>
    BY <1>2 DEF Move, tables, txn
  <2>2. \A u \in Calls : pc[u] = "register" => pc'[u] = "register" /\ This(u)' = This(u)
    BY <1>2 DEF Move, This
  <2>3. \A u \in Calls : pc'[u] = "register" => pc[u] = "register"
    BY <1>2 DEF Move
  <2> QED
    BY <1>a, <2>1, <2>2, <2>3 DEF RowExplained
<1>3. ASSUME NEW t \in Calls, Abandon(t) PROVE RowExplained(c)'
  <2>1. /\ pending' = [pending EXCEPT ![t] = {}]
        /\ draft' = [d \in Cabinets |-> IF rowLock[d] = t THEN stock[d] ELSE draft[d]]
        /\ rowLock' = [d \in Cabinets |-> IF rowLock[d] = t THEN Nobody ELSE rowLock[d]]
        /\ UNCHANGED <<stock, req, line>>
        /\ pc' = [pc EXCEPT ![t] = "done"]
    BY <1>3 DEF Abandon, Refuse, Rollback, Reply, Goto, tables
  <2>2. \A u \in Calls \ {t} :
          pc'[u] = pc[u] /\ This(u)' = This(u) /\ pending'[u] = pending[u]
    BY <1>0, <2>1 DEF This
  <2>3. pending'[t] = {}
    BY <1>0, <2>1
  <2>4. CASE rowLock[c] = t
    BY <1>0, <1>a, <2>1, <2>2, <2>3, <2>4 DEF RowExplained
  <2>5. CASE rowLock[c] # t
    BY <1>0, <1>a, <2>1, <2>2, <2>3, <2>5 DEF RowExplained
  <2> QED
    BY <2>4, <2>5
<1>4. ASSUME NEW t \in Calls, Finish(t) PROVE RowExplained(c)'
  <2>1. /\ pending' = [pending EXCEPT ![t] = {}]
        /\ stock' = [d \in Cabinets |-> IF rowLock[d] = t THEN draft[d] ELSE stock[d]]
        /\ rowLock' = [d \in Cabinets |-> IF rowLock[d] = t THEN Nobody ELSE rowLock[d]]
        /\ UNCHANGED <<draft, req, line>>
        /\ pc' = [pc EXCEPT ![t] = "done"]
    BY <1>4 DEF Finish, CommitTables, Goto
  <2>2. \A u \in Calls \ {t} :
          pc'[u] = pc[u] /\ This(u)' = This(u) /\ pending'[u] = pending[u]
    BY <1>0, <2>1 DEF This
  <2>3. pending'[t] = {}
    BY <1>0, <2>1
  <2>4. CASE rowLock[c] = t
    BY <1>0, <1>a, <2>1, <2>2, <2>3, <2>4 DEF RowExplained
  <2>5. CASE rowLock[c] # t
    BY <1>0, <1>a, <2>1, <2>2, <2>3, <2>5 DEF RowExplained
  <2> QED
    BY <2>4, <2>5
<1>5. ASSUME NEW t \in Calls, Decrement(t) PROVE RowExplained(c)'
  <2> DEFINE d == This(t).cab
  <2>1. /\ pc[t] = "decrement" /\ pc' = [pc EXCEPT ![t] = "register"]
        /\ d \in Cabinets /\ rowLock[d] \in {Nobody, t}
        /\ draft' = [draft EXCEPT ![d] = @ - This(t).qty]
        /\ rowLock' = [rowLock EXCEPT ![d] = t]
        /\ UNCHANGED <<stock, pending, req, line>>
    BY <1>5 DEF Decrement, Goto, RowFree, tables
  <2>2. \A u \in Calls : This(u)' = This(u) /\ (u # t => pc'[u] = pc[u])
    BY <1>0, <2>1 DEF This
  <2>3. \A r \in pending[t] : r.cab # d
    <3>1. \A r \in pending[t] : IsOrder(t) /\ r.key = <<t, r.cab>> /\ r.key # StockKey(t)
      BY <2>1 DEF PendingOK, PendingOf
    <3> QED
      BY <3>1 DEF StockKey
  <2>4. rowLock[d] = Nobody
    <3>1. RowExplained(d)
      BY <2>1 DEF DraftExplained
    <3> QED
      BY <2>1, <2>3, <3>1 DEF RowExplained
  <2> HIDE DEF d
  <2>5. CASE c = d
    <3>1. rowLock'[c] = t /\ pc'[t] = "register" /\ draft'[c] = stock[c] - This(t).qty
      BY <1>0, <1>a, <2>1, <2>4, <2>5 DEF RowExplained
    <3>2. \A u \in Calls : \A r \in pending[u] : r.cab # c
      BY <1>0, <1>a, <2>4, <2>5 DEF RowExplained
    <3>3. This(t)'.cab = c
      BY <2>2, <2>5 DEF d
    <3>4. \A u \in Calls \ {t} : ~(pc[u] = "register" /\ This(u).cab = c)
      BY <1>0, <1>a, <2>4, <2>5 DEF RowExplained
    <3> QED
      BY <1>0, <2>1, <2>2, <3>1, <3>2, <3>3, <3>4 DEF RowExplained
  <2>6. CASE c # d
    <3>1. rowLock'[c] = rowLock[c] /\ draft'[c] = draft[c]
      BY <1>0, <2>1, <2>6
    <3>2. pc[t] # "register" /\ This(t).cab # c
      BY <2>1, <2>6 DEF d
    <3>3. \A u \in Calls \ {t} : pc'[u] = pc[u] /\ This(u)' = This(u)
      BY <2>2
    <3>4. This(t)' = This(t)
      BY <2>2
    <3> QED
      BY <1>a, <2>1, <3>1, <3>2, <3>3, <3>4 DEF RowExplained
  <2> QED
    BY <2>5, <2>6
<1>6. ASSUME NEW t \in Calls, Register(t) PROVE RowExplained(c)'
  <2> DEFINE n == NewReservation(t)
  <2>1. /\ pc[t] = "register" /\ LineReserved(t)
        /\ pending' = [pending EXCEPT ![t] = @ \cup {n}]
        /\ UNCHANGED <<stock, draft, rowLock, req>>
    BY <1>6 DEF Register, NewReservation, tables
  <2>2. PICK l \in {"reserve", "insertOrder", "commit"} :
          /\ Goto(t, l)
          /\ \A u \in Calls \ {t} : line'[u] = line[u]
    BY <2>1, LineReservedStep
  <2>3. pc'[t] # "register"
        /\ \A u \in Calls \ {t} : pc'[u] = pc[u] /\ This(u)' = This(u)
    BY <1>0, <2>1, <2>2 DEF Goto, This
  <2>4. pending'[t] = pending[t] \cup {n} /\ \A u \in Calls \ {t} : pending'[u] = pending[u]
    BY <1>0, <2>1
  <2>5. n.cab = This(t).cab /\ n.qty = This(t).qty
    BY DEF NewReservation
  <2>6. This(t).cab \in Cabinets
    BY <2>1 DEF Types, RequestOK, RequestOf
  <2> HIDE DEF n
  <2>7. CASE c = n.cab
    <3>1. \A r \in pending[t] : r.cab # c
      <4>1. \A r \in pending[t] : IsOrder(t) /\ r.key = <<t, r.cab>> /\ r.key # StockKey(t)
        BY <2>1 DEF PendingOK, PendingOf
      <4> QED
        BY <4>1, <2>5, <2>7 DEF StockKey
    <3>2. rowLock[c] = t
      BY <1>a, <2>1, <2>5, <2>7 DEF RowExplained
    <3>3. draft[c] = stock[c] - n.qty
      BY <1>a, <2>5, <3>1, <3>2 DEF RowExplained
    <3>4. \A u \in Calls \ {t} : \A r \in pending[u] : r.cab # c
      BY <1>a, <3>2 DEF RowExplained
    <3> QED
      BY <1>0, <1>a, <2>1, <2>3, <2>4, <2>7, <3>1, <3>2, <3>3, <3>4 DEF RowExplained
  <2>8. CASE c # n.cab
    BY <1>0, <1>a, <2>1, <2>3, <2>4, <2>5, <2>8 DEF RowExplained
  <2> QED
    BY <2>7, <2>8
<1> QED
  BY <1>1, <1>2, <1>3, <1>4, <1>5, <1>6, StepShapes

-----------------------------------------------------------------------------
(* Idempotency keys.                                                       *)

\* The primary key of catalog.reservations keeps reservation keys apart.
LEMMA ReservationKeysStep ==
  Ledger /\ ReservationKeysOnce /\ [Next]_vars => ReservationKeysOnce'
<1> SUFFICES ASSUME Ledger, ReservationKeysOnce, [Next]_vars PROVE ReservationKeysOnce'
  OBVIOUS
<1> USE DEF Ledger
<1>0. pending \in [Calls -> SUBSET Reservation]
  BY DEF Types, TypeOK
<1>1. CASE UNCHANGED <<reservations, pending>>
  BY <1>1 DEF ReservationKeysOnce
<1>2. ASSUME NEW t \in Calls, Abandon(t) PROVE ReservationKeysOnce'
  <2>1. pending' = [pending EXCEPT ![t] = {}] /\ reservations' = reservations
    BY <1>2 DEF Abandon, Refuse, Rollback, tables
  <2>2. \A u \in Calls : pending'[u] \subseteq pending[u]
    BY <1>0, <2>1
  <2> QED
    BY <2>1, <2>2 DEF ReservationKeysOnce
<1>3. ASSUME NEW t \in Calls, Finish(t) PROVE ReservationKeysOnce'
  <2>1. /\ pending' = [pending EXCEPT ![t] = {}]
        /\ reservations' = reservations \cup pending[t]
    BY <1>3 DEF Finish, CommitTables
  <2>2. pending'[t] = {} /\ \A u \in Calls \ {t} : pending'[u] = pending[u]
    BY <1>0, <2>1
  <2> QED
    BY <2>1, <2>2 DEF ReservationKeysOnce
<1>4. ASSUME NEW t \in Calls, Register(t) PROVE ReservationKeysOnce'
  <2> DEFINE n == NewReservation(t)
  <2>1. /\ pending' = [pending EXCEPT ![t] = @ \cup {n}] /\ reservations' = reservations
        /\ ~KeyPending(t) /\ ~KeyTaken(t)
    BY <1>4 DEF Register, NewReservation, tables
  <2>2. pending'[t] = pending[t] \cup {n} /\ \A u \in Calls \ {t} : pending'[u] = pending[u]
    BY <1>0, <2>1
  <2>3. n.key = StockKey(t)
    BY DEF NewReservation
  <2> HIDE DEF n
  <2>4. /\ \A s \in reservations : s.key # n.key
        /\ \A u \in Calls : \A s \in pending[u] : s.key # n.key
    BY <2>1, <2>3 DEF KeyPending, KeyTaken, Visible
  <2> QED
    BY <2>1, <2>2, <2>4 DEF ReservationKeysOnce
<1>5. ASSUME NEW t \in Calls, Move(t) \/ Decrement(t) \/ UNCHANGED vars
      PROVE  UNCHANGED <<reservations, pending>>
  BY <1>5 DEF Move, Decrement, vars, tables, txn
<1> QED
  BY <1>1, <1>2, <1>3, <1>4, <1>5, StepShapes DEF vars, tables, txn

\* The unique index of catalog.orders keeps order keys apart.
LEMMA OrderKeysStep ==
  Ledger /\ OrderKeysOnce /\ [Next]_vars => OrderKeysOnce'
<1> SUFFICES ASSUME Ledger, OrderKeysOnce, [Next]_vars PROVE OrderKeysOnce'
  OBVIOUS
<1> USE DEF Ledger
<1>0. pc \in [Calls -> Labels]
  BY DEF Types, TypeOK
<1>1. CASE UNCHANGED vars
  BY <1>1 DEF vars, tables, OrderKeysOnce, HoldsOrderKey, IsOrder
\* No order is added and no order key is taken.
<1>2. ASSUME orders' = orders,
             \A u \in Calls : HoldsOrderKey(u)' => HoldsOrderKey(u) /\ req'[u] = req[u]
      PROVE  OrderKeysOnce'
  BY <1>2 DEF OrderKeysOnce
<1>3. ASSUME NEW t \in Calls, Move(t) PROVE OrderKeysOnce'
  <2>1. orders' = orders
    BY <1>3 DEF Move, tables
  <2>2. \A u \in Calls \ {t} : (HoldsOrderKey(u)' <=> HoldsOrderKey(u)) /\ req'[u] = req[u]
    BY <1>3 DEF Move, HoldsOrderKey, IsOrder
  <2>3. HoldsOrderKey(t)' => req'[t] = req[t]
    BY <1>3 DEF Move, HoldsOrderKey
  <2>4. CASE ~HoldsOrderKey(t)' \/ HoldsOrderKey(t)
    BY <1>2, <2>1, <2>2, <2>3, <2>4
  <2>5. CASE HoldsOrderKey(t)' /\ ~(OrderKeyPending(t) \/ OrderKeyTaken(t))
    <3>1. \A o \in orders : o.key # req[t].key
      BY <2>5 DEF OrderKeyTaken
    <3>2. \A u \in Calls \ {t} : HoldsOrderKey(u) => req[u].key # req[t].key
      BY <2>5 DEF OrderKeyPending
    <3> QED
      BY <2>1, <2>2, <2>3, <2>5, <3>1, <3>2 DEF OrderKeysOnce
  <2> QED
    BY <1>3, <2>4, <2>5 DEF Move
<1>4. ASSUME NEW t \in Calls, Abandon(t) PROVE OrderKeysOnce'
  <2>1. UNCHANGED <<orders, req>> /\ pc' = [pc EXCEPT ![t] = "done"]
    BY <1>4 DEF Abandon, Refuse, Rollback, Reply, Goto, tables
  <2>2. \A u \in Calls : HoldsOrderKey(u)' => HoldsOrderKey(u)
    BY <1>0, <2>1 DEF HoldsOrderKey, IsOrder
  <2> QED
    BY <1>2, <2>1, <2>2
<1>5. ASSUME NEW t \in Calls, Decrement(t) PROVE OrderKeysOnce'
  <2>1. UNCHANGED <<orders, req>> /\ pc' = [pc EXCEPT ![t] = "register"]
    BY <1>5 DEF Decrement, Goto, tables
  <2>2. \A u \in Calls : HoldsOrderKey(u)' => HoldsOrderKey(u)
    BY <1>0, <2>1 DEF HoldsOrderKey, IsOrder
  <2> QED
    BY <1>2, <2>1, <2>2
<1>6. ASSUME NEW t \in Calls, Register(t) PROVE OrderKeysOnce'
  <2>1. UNCHANGED <<orders, req>> /\ LineReserved(t) /\ pc[t] = "register"
    BY <1>6 DEF Register, tables
  <2>2. PICK l \in {"reserve", "insertOrder", "commit"} :
          Goto(t, l) /\ (l = "commit" => ~IsOrder(t))
    BY <2>1, LineReservedStep
  <2>3. \A u \in Calls : HoldsOrderKey(u)' => HoldsOrderKey(u)
    BY <1>0, <2>1, <2>2 DEF HoldsOrderKey, IsOrder, Goto
  <2> QED
    BY <1>2, <2>1, <2>3
<1>7. ASSUME NEW t \in Calls, Finish(t) PROVE OrderKeysOnce'
  <2>1. UNCHANGED req /\ pc' = [pc EXCEPT ![t] = "done"] /\ pc[t] = "commit"
        /\ orders' = IF IsOrder(t) THEN orders \cup {NewOrder(t)} ELSE orders
    BY <1>7 DEF Finish, CommitTables, Goto
  <2>2. \A u \in Calls : HoldsOrderKey(u)' => HoldsOrderKey(u) /\ u # t
    BY <1>0, <2>1 DEF HoldsOrderKey, IsOrder
  <2>3. CASE ~IsOrder(t)
    BY <1>2, <2>1, <2>2, <2>3
  <2>4. CASE IsOrder(t)
    <3>1. HoldsOrderKey(t) /\ NewOrder(t).key = req[t].key
      BY <2>1, <2>4 DEF HoldsOrderKey, NewOrder
    <3> QED
      BY <2>1, <2>2, <2>4, <3>1 DEF OrderKeysOnce
  <2> QED
    BY <2>3, <2>4
<1> QED
  BY <1>1, <1>3, <1>4, <1>5, <1>6, <1>7, StepShapes

-----------------------------------------------------------------------------
(* The theorems.                                                           *)

\* KeysAreUsedOnce and DraftExplained are inductive only together with the types,
\* the validated requests and the rows each open transaction has written.
Inductive == Ledger /\ ReservationKeysOnce /\ OrderKeysOnce

\* Nothing is locked, reserved or ordered at the start.
LEMMA InductiveInit == Init => Inductive
<1> SUFFICES ASSUME Init PROVE Inductive
  OBVIOUS
<1>1. /\ \A t \in Calls : pending[t] = {} /\ pc[t] = "idle"
      /\ \A c \in Cabinets : rowLock[c] = Nobody /\ draft[c] = stock[c]
      /\ reservations = {} /\ orders = {}
  BY DEF Init
<1>2. PendingOK
  BY <1>1 DEF PendingOK, PendingOf
<1>3. DraftExplained
  BY <1>1, CheckoutAssumption DEF DraftExplained, RowExplained
<1>4. ReservationKeysOnce /\ OrderKeysOnce
  BY <1>1 DEF ReservationKeysOnce, OrderKeysOnce, HoldsOrderKey
<1> QED
  BY <1>2, <1>3, <1>4, TypesInit DEF Inductive, Ledger

\* Every step keeps all of it.
LEMMA InductiveStep == Inductive /\ [Next]_vars => Inductive'
BY TypesStep, PendingStep, DraftStep, ReservationKeysStep, OrderKeysStep DEF Inductive, Ledger

\* The inductive invariant of ReserveStockTx and CreateOrderTx.
THEOREM InductiveInvariant == Spec => []Inductive
BY InductiveInit, InductiveStep, PTL DEF Spec

\* No update is lost and no unit is taken twice inside a transaction: what a
\* cabinet row shows beyond its committed version is one reservation in the making.
THEOREM RowsAreExplained == Spec => []DraftExplained
BY InductiveInvariant, PTL DEF Inductive, Ledger

\* However calls and retries interleave, fail and die, a key buys at most once.
THEOREM KeysBuyOnce == Spec => []KeysAreUsedOnce
BY InductiveInvariant, PTL DEF Inductive, KeysAreUsedOnce
=============================================================================
