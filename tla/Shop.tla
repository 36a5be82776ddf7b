-------------------------------- MODULE Shop --------------------------------
(***************************************************************************)
(* What the selling path of the catalog promises its clients: each request *)
(* is decided at one instant, on the stock and the sales of that instant.  *)
(* Checkout, with its transactions, locks and failures, implements it.     *)
(***************************************************************************)
EXTENDS Integers, Sequences, FiniteSetsExt

CONSTANTS
  Calls,      \* the calls clients make
  Cabinets,   \* the machines on sale
  InitStock,  \* the units of each at the start
  Requests,   \* the requests clients make
  Nobody      \* neither a call nor a request

VARIABLES
  left,     \* the units of each cabinet still on sale
  holds,    \* client reservations: [key, cab, qty]
  orders,   \* accepted orders: [id, user, key, items]
  events,   \* the orders announced to the rest of the system
  request,  \* the request of each call
  answer    \* the answer to each call

shop == <<left, holds, orders, events>>
vars == <<shop, request, answer>>

Open(t) == request[t] # Nobody /\ answer[t].result = "none"

Init ==
  /\ left = InitStock
  /\ holds = {} /\ orders = {} /\ events = {}
  /\ request = [t \in Calls |-> Nobody]
  /\ answer = [t \in Calls |-> [result |-> "none", order |-> Nobody]]

Reply(t, result, order) ==
  answer' = [answer EXCEPT ![t] = [result |-> result, order |-> order]]

\* Malformed requests are refused on sight.
Malformed(r) == r.items = <<>> \/ \E i \in DOMAIN r.items : r.items[i].qty <= 0
BadRequest(r) ==
  CASE r.items = <<>> -> "ErrEmptyOrder"
    [] r.op = "ReserveStock" -> "ErrInsufficientStock"
    [] OTHER -> "ErrInvalidQuantity"

Ask(t) ==
  /\ request[t] = Nobody
  /\ \E r \in Requests :
       /\ request' = [request EXCEPT ![t] = r]
       /\ IF Malformed(r) THEN Reply(t, BadRequest(r), Nobody) ELSE UNCHANGED answer
  /\ UNCHANGED shop

\* The units a list of lines takes from cabinet c, every line counted.
Wanted(items, c) ==
  SumFunctionOnSet([i \in DOMAIN items |-> items[i].qty],
                   {i \in DOMAIN items : items[i].cab = c})

Available(r) ==
  /\ \A i \in DOMAIN r.items : r.items[i].cab \in Cabinets
  /\ \A c \in Cabinets : Wanted(r.items, c) <= left[c]

Take(r) == left' = [c \in Cabinets |-> left[c] - Wanted(r.items, c)]

\* The client may not hear of it: the connection can break after the sale.
Told(t, order) == Reply(t, "ok", order) \/ Reply(t, "Internal", Nobody)

SellReservation(t, r) ==
  /\ r.op = "ReserveStock"
  /\ \A h \in holds : h.key # r.key
  /\ Available(r) /\ Take(r)
  /\ holds' = holds \cup
       {[key |-> r.key, cab |-> r.items[1].cab, qty |-> r.items[1].qty]}
  /\ Told(t, Nobody)
  /\ UNCHANGED <<orders, events>>

SellOrder(t, r) ==
  /\ r.op = "CreateOrder"
  /\ \A o \in orders : o.key # r.key
  /\ Available(r) /\ Take(r)
  /\ orders' = orders \cup
       {[id |-> t, user |-> r.user, key |-> r.key, items |-> r.items]}
  /\ events' = events \cup {t}
  /\ Told(t, t)
  /\ UNCHANGED holds

SameLines(p, q) ==
  \A item \in {p[i] : i \in DOMAIN p} \cup {q[i] : i \in DOMAIN q} :
    Cardinality({i \in DOMAIN p : p[i] = item}) =
      Cardinality({i \in DOMAIN q : q[i] = item})

\* A key that already bought the same thing is answered again, and buys nothing.
Repeat(t, r) ==
  /\ \/ /\ r.op = "ReserveStock"
        /\ [key |-> r.key, cab |-> r.items[1].cab, qty |-> r.items[1].qty] \in holds
        /\ Reply(t, "ok", Nobody)
     \/ /\ r.op = "CreateOrder"
        /\ \E o \in orders :
             /\ o.key = r.key /\ o.user = r.user /\ SameLines(o.items, r.items)
             /\ Reply(t, "ok", o.id)
  /\ UNCHANGED shop

\* A refusal names something that is the case when it is decided.
Refuse(t, r) ==
  /\ \/ /\ \E i \in DOMAIN r.items : r.items[i].cab \notin Cabinets
        /\ \E e \in {"ErrNotFound", "ErrInsufficientStock"} : Reply(t, e, Nobody)
     \/ ~Available(r) /\ Reply(t, "ErrInsufficientStock", Nobody)
     \/ /\ \E h \in holds : h.key = r.key
        /\ r.op = "ReserveStock" /\ Reply(t, "ErrDuplicateReservation", Nobody)
     \/ /\ \E o \in orders : o.key = r.key
        /\ r.op = "CreateOrder" /\ Reply(t, "ErrDuplicateOrder", Nobody)
     \/ Reply(t, "Internal", Nobody)
  /\ UNCHANGED shop

Decide(t) ==
  /\ Open(t)
  /\ UNCHANGED request
  /\ LET r == request[t]
     IN  SellReservation(t, r) \/ SellOrder(t, r) \/ Repeat(t, r) \/ Refuse(t, r)

Next == \E t \in Calls : Ask(t) \/ Decide(t)

Spec == Init /\ [][Next]_vars
=============================================================================
